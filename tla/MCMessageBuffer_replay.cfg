\* One chat with one connection drop: two own messages, one message of
\* another member, history fetches of 1 or 2, a server that may reject.
CONSTANTS
    x1 = x1  x2 = x2  m1 = m1
    OwnMsgs <- TwoOwn
    OtherMsgs <- OneOther
    HistCounts <- Counts
    MaxDrops = 1
    ServerMayReject = TRUE
SPECIFICATION Spec
\* An idle chat with nothing in flight has nothing left to do.
CHECK_DEADLOCK FALSE
INVARIANT BufferMirrorsLog
