CONSTANTS
    o1 = o1
    p1 = p1
    Own <- OwnMsgs
    Others <- OtherMsgs
    MaxEvents = 3
SPECIFICATION SpecWindow
INVARIANT EachMessageOnce
