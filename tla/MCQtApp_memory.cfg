\* The composed process, memory safety of the session and window pointers.
CONSTANTS c1 = c1  Chats <- OneChat  MaxQueue = 2
SPECIFICATION SpecApp
INVARIANT SessionMemorySafe
