---------------------------- MODULE MessageBuffer ----------------------------
(***************************************************************************)
(* chatd::Messages (src/src/chatd.h): the message buffer of one chat and  *)
(* its send queue, with the chatd server and the connection as its        *)
(* environment.                                                           *)
(*                                                                         *)
(* The index arithmetic (push_forward, push_back, lownum, highnum,        *)
(* findOrNull, hasNum, first, last, msgIndexFromId, onCanEncryptAgain) is *)
(* inline in chatd.h and is translated from it.  The bodies of            *)
(* msgSubmit, flushOutputQueue, confirm, msgIncoming, getHistory,          *)
(* onHistDone and the reconnect are not in the repository; they follow    *)
(* spec.md sections 4.3 and 4.4.                                          *)
(*                                                                         *)
(* The server keeps the chat's log.  It deduplicates a resent message by  *)
(* its transaction id; it assigns an own message the server id x, so an  *)
(* own message is its transaction id in the buffer.  On JOIN it replays   *)
(* the log as NEWMSG from some position no later than just after the     *)
(* newest message the client holds; a HIST request is answered with the  *)
(* messages older than the oldest one the client held when it asked.     *)
(* Both channels are FIFO (one web socket) and are emptied by a drop.     *)
(***************************************************************************)
EXTENDS Integers, Sequences, SequencesExt, FiniteSets

CONSTANTS
    OwnMsgs,        \* transaction ids of the messages the user submits
    OtherMsgs,      \* ids of the messages other members post
    HistCounts,     \* the counts getHistory is called with
    MaxDrops,       \* bound on the connection drops
    ServerMayReject \* whether the server may reject a submitted message

ASSUME OwnMsgs \cap OtherMsgs = {} /\ MaxDrops \in Nat

VARIABLES
    fwd,            \* mForwardList: ids, oldest first, at mForwardStart + i-1
    bwd,            \* mBackwardList: ids, newest first, at mForwardStart - i
    idToIndex,      \* mIdToIndexMap
    decrypting,     \* messages whose ICrypto::decrypt() promise is pending
    reported,       \* messages the Listener was told of (onRecvNewMessage,
                    \* onRecvHistoryMessage or onMessageConfirmed)
    sending,        \* mSending: transaction ids, in submission order
    nextUnsent,     \* mNextUnsent, as a position in sending
    histState,      \* mHistFetchState
    histCount,      \* mLastHistFetchCount
    histRequested,  \* the count of the fetch in progress
    online,         \* the connection is up and this chat was (re)joined
    keysReady,      \* ICrypto::encrypt() succeeds
    submitted,      \* messages msgSubmit was called for
    rejected,       \* messages the listener was told were rejected
    log,            \* the server's log of the chat, oldest first
    srvRejected,    \* transaction ids the server rejected
    srvJoined,      \* the server has processed this connection's JOIN
    c2s, s2c,       \* the web socket, client to server and back
    drops           \* connection drops so far

bufVars == <<fwd, bwd, idToIndex, decrypting, reported>>
sendVars == <<sending, nextUnsent, submitted, rejected>>
histVars == <<histState, histCount, histRequested>>
srvVars == <<log, srvRejected, srvJoined>>
vars == <<bufVars, sendVars, histVars, online, keysReady, srvVars, c2s, s2c,
          drops>>

Ids == OwnMsgs \cup OtherMsgs

\* HistFetchState
HistStates == {"NotFetching", "NoMore", "FetchingFromServer",
               "FetchingFromDb"}

\* CHATD_IDX_RANGE_MIDDLE: mForwardStart with no database history.
ForwardStart == 0

NoMsg == "null"

------------------------------------------------------------------------------
(* The inline members of Messages.                                         *)

lownum == ForwardStart - Len(bwd)
highnum == ForwardStart + Len(fwd) - 1

findOrNull(num) ==
    IF num < ForwardStart
    THEN LET i == ForwardStart - num - 1
         IN  IF i >= Len(bwd) THEN NoMsg ELSE bwd[i + 1]
    ELSE LET i == num - ForwardStart
         IN  IF i >= Len(fwd) THEN NoMsg ELSE fwd[i + 1]

hasNum(num) ==
    IF num < ForwardStart THEN ForwardStart - num <= Len(bwd)
    ELSE num < ForwardStart + Len(fwd)

\* first() and last(), called on a non-empty buffer.
first == IF bwd # <<>> THEN bwd[1] ELSE fwd[Len(fwd)]
last == IF fwd # <<>> THEN fwd[1] ELSE bwd[Len(bwd)]

msgIndexFromId(id) ==
    IF id \in DOMAIN idToIndex THEN idToIndex[id] ELSE "CHATD_IDX_INVALID"

\* The buffer from lownum to highnum.
BufferSeq == Reverse(bwd) \o fwd

\* push_forward() and push_back().
push_forward(id) == fwd' = Append(fwd, id)
push_back(id) == bwd' = Append(bwd, id)

------------------------------------------------------------------------------
(* Commands on the web socket.                                             *)

NewMsgCmds(q, from) ==
    [i \in 1..(Len(q) - from + 1) |-> [type |-> "NEWMSG", xid |-> q[from + i - 1]]]

\* Mutant of Flush: mNextUnsent moved past the whole queue even when
\* encrypt() fails and nothing is sent.
FlushIgnoresKeys(ch, q, from, up, keys) ==
    IF up
    THEN <<IF keys THEN ch \o NewMsgCmds(q, from) ELSE ch, Len(q) + 1>>
    ELSE <<ch, from>>

\* flushOutputQueue() from position from, appending to the channel ch:
\* every item from there is encrypted and sent, unless encrypt() fails
\* (keys not ready), which stops the flush at the first item; offline
\* nothing is sent.  Yields <<channel, nextUnsent>>.
Flush(ch, q, from, up, keys) ==
    IF up /\ keys
    THEN <<ch \o NewMsgCmds(q, from), Len(q) + 1>>
    ELSE <<ch, from>>

\* ICrypto::decrypt(msg, idx): the message is handed to the crypto module,
\* whose promise resolves later; the Listener is told once it resolves.
Decrypt(id) ==
    /\ decrypting' = decrypting \cup {id}
    /\ UNCHANGED reported

\* Mutant of MsgIncoming: a new message is registered at highnum, the
\* index before the push.
MsgIncomingOffByOne(isNew, id) ==
    IF id \in DOMAIN idToIndex
    THEN UNCHANGED bufVars
    ELSE IF isNew
         THEN /\ push_forward(id)
              /\ idToIndex' = idToIndex @@ (id :> highnum)
              /\ Decrypt(id)
              /\ UNCHANGED bwd
         ELSE /\ push_back(id)
              /\ idToIndex' = idToIndex @@ (id :> lownum - 1)
              /\ Decrypt(id)
              /\ UNCHANGED fwd

\* msgIncoming(isNew, msg): a message whose id is already mapped is a
\* no-op; a new one is pushed at the forward end, a history one at the
\* backward end, and its index registered.
MsgIncoming(isNew, id) ==
    IF id \in DOMAIN idToIndex
    THEN UNCHANGED bufVars
    ELSE IF isNew
         THEN /\ push_forward(id)
              /\ idToIndex' = idToIndex @@ (id :> highnum + 1)
              /\ Decrypt(id)
              /\ UNCHANGED bwd
         ELSE /\ push_back(id)
              /\ idToIndex' = idToIndex @@ (id :> lownum - 1)
              /\ Decrypt(id)
              /\ UNCHANGED fwd

\* confirm(msgxid, msgid): the queued item is removed; a rejection
\* (msgid 0) is reported to the listener, an id assignment puts the
\* message at the next forward index and registers it.  An unknown
\* transaction id is ignored.
Confirm(x, accepted) ==
    IF ~\E i \in 1..Len(sending) : sending[i] = x
    THEN UNCHANGED <<bufVars, sendVars>>
    ELSE LET p == SelectInSeq(sending, LAMBDA y : y = x)
         IN  /\ sending' = RemoveAt(sending, p)
             /\ nextUnsent' = IF p < nextUnsent THEN nextUnsent - 1 ELSE nextUnsent
             /\ IF accepted
                THEN /\ push_forward(x)
                     /\ idToIndex' = idToIndex @@ (x :> highnum + 1)
                     /\ reported' = reported \cup {x}
                     /\ UNCHANGED <<bwd, decrypting, rejected>>
                ELSE /\ rejected' = rejected \cup {x}
                     /\ UNCHANGED bufVars
             /\ UNCHANGED submitted

------------------------------------------------------------------------------
Init ==
    /\ fwd = <<>> /\ bwd = <<>> /\ idToIndex = <<>>
    /\ decrypting = {} /\ reported = {}
    /\ sending = <<>> /\ nextUnsent = 1
    /\ histState = "NotFetching" /\ histCount = 0 /\ histRequested = 0
    /\ online = FALSE
    /\ keysReady \in BOOLEAN
    /\ submitted = {} /\ rejected = {}
    /\ log = <<>> /\ srvRejected = {} /\ srvJoined = FALSE
    /\ c2s = <<>> /\ s2c = <<>>
    /\ drops = 0

\* msgSubmit(): the message is appended to the send queue and, online,
\* flushed.
MsgSubmit(x) ==
    /\ x \notin submitted
    /\ submitted' = submitted \cup {x}
    /\ sending' = Append(sending, x)
    /\ LET f == Flush(c2s, sending', nextUnsent, online, keysReady)
       IN  c2s' = f[1] /\ nextUnsent' = f[2]
    /\ UNCHANGED <<bufVars, rejected, histVars, online, keysReady, srvVars,
                   s2c, drops>>

\* onCanEncryptAgain(): the crypto module's keys became ready; the queue is
\* flushed from the first unsent item.
OnCanEncryptAgain ==
    /\ ~keysReady
    /\ keysReady' = TRUE
    /\ LET f == Flush(c2s, sending, nextUnsent, online, TRUE)
       IN  c2s' = f[1] /\ nextUnsent' = f[2]
    /\ UNCHANGED <<bufVars, sending, submitted, rejected, histVars, online,
                   srvVars, s2c, drops>>

\* The socket closes: everything in flight is lost.
ConnectionDrop ==
    /\ online /\ drops < MaxDrops
    /\ online' = FALSE /\ drops' = drops + 1
    /\ c2s' = <<>> /\ s2c' = <<>> /\ srvJoined' = FALSE
    /\ UNCHANGED <<bufVars, sendVars, histVars, keysReady, log, srvRejected>>

\* Mutant of Reconnect: flushOutputQueue() from mNextUnsent, so items sent
\* before the drop are not resent.
ReconnectFromCursor ==
    /\ ~online
    /\ online' = TRUE
    /\ LET f == Flush(<<[type |-> "JOIN"]>>, sending, nextUnsent, TRUE, keysReady)
       IN  c2s' = f[1] /\ nextUnsent' = f[2]
    /\ UNCHANGED <<bufVars, sending, submitted, rejected, histVars, keysReady,
                   srvVars, s2c, drops>>

\* The (re)connect succeeds: JOIN is sent, then the whole send queue is
\* resent in order, flushOutputQueue(true).
Reconnect ==
    /\ ~online
    /\ online' = TRUE
    /\ LET f == Flush(<<[type |-> "JOIN"]>>, sending, 1, TRUE, keysReady)
       IN  c2s' = f[1] /\ nextUnsent' = f[2]
    /\ UNCHANGED <<bufVars, sending, submitted, rejected, histVars, keysReady,
                   srvVars, s2c, drops>>

\* getHistory(count) with no database: a HIST request for count messages
\* before the oldest one held.  Refused while a fetch is in progress and
\* once there is no more history.
GetHistory(count) ==
    /\ online /\ histState = "NotFetching"
    /\ histState' = "FetchingFromServer"
    /\ histCount' = 0 /\ histRequested' = count
    /\ c2s' = Append(c2s, [type |-> "HIST", count |-> count,
                            before |-> IF BufferSeq = <<>> THEN NoMsg
                                       ELSE BufferSeq[1]])
    /\ UNCHANGED <<bufVars, sendVars, online, keysReady, srvVars, s2c, drops>>

------------------------------------------------------------------------------
(* The client's command handlers, run as commands arrive.                  *)

RecvNewMsg ==
    /\ s2c # <<>> /\ Head(s2c).type = "NEWMSG"
    /\ s2c' = Tail(s2c)
    /\ MsgIncoming(TRUE, Head(s2c).id)
    /\ UNCHANGED <<sendVars, histVars, online, keysReady, srvVars, c2s, drops>>

RecvOldMsg ==
    /\ s2c # <<>> /\ Head(s2c).type = "OLDMSG"
    /\ s2c' = Tail(s2c)
    /\ MsgIncoming(FALSE, Head(s2c).id)
    /\ histCount' = histCount + 1
    /\ UNCHANGED <<sendVars, histState, histRequested, online, keysReady,
                   srvVars, c2s, drops>>

\* onHistDone(): fewer messages than requested means there is no more.
RecvHistDone ==
    /\ s2c # <<>> /\ Head(s2c).type = "HISTDONE"
    /\ s2c' = Tail(s2c)
    /\ histState' = IF histCount < histRequested THEN "NoMore" ELSE "NotFetching"
    /\ UNCHANGED <<bufVars, sendVars, histCount, histRequested, online,
                   keysReady, srvVars, c2s, drops>>

\* MSGID and REJECT both go to confirm().
RecvConfirm ==
    /\ s2c # <<>> /\ Head(s2c).type \in {"MSGID", "REJECT"}
    /\ s2c' = Tail(s2c)
    /\ Confirm(Head(s2c).xid, Head(s2c).type = "MSGID")
    /\ UNCHANGED <<histVars, online, keysReady, srvVars, c2s, drops>>

\* The decrypt() promise of a received message resolves (in the test
\* ICrypto, its 1000 ms timer sets isEncrypted = false and resolves); the
\* continuation msgIncoming attached tells the Listener of the message at
\* its index.  decrypt() set a regular type, so nothing is filtered.
DecryptResolves(id) ==
    /\ id \in decrypting
    /\ decrypting' = decrypting \ {id}
    /\ reported' = reported \cup {id}
    /\ UNCHANGED <<fwd, bwd, idToIndex, sendVars, histVars, online, keysReady,
                   srvVars, c2s, s2c, drops>>

------------------------------------------------------------------------------
(* The server.                                                             *)

LogPos(id) == SelectInSeq(log, LAMBDA y : y = id)

Held == ToSet(BufferSeq)

\* The replay on JOIN starts within what the client holds, or right after
\* the newest message it holds; a client holding nothing may be sent any
\* suffix of the log.
ReplayStarts ==
    IF Held = {} THEN 1..(Len(log) + 1)
    ELSE LET held == {LogPos(m) : m \in Held \cap ToSet(log)}
         IN  IF held = {} THEN {Len(log) + 1}
             ELSE Min(held)..(Max(held) + 1)

SrvRecvJoin ==
    /\ c2s # <<>> /\ Head(c2s).type = "JOIN"
    /\ c2s' = Tail(c2s)
    /\ srvJoined' = TRUE
    /\ \E k \in ReplayStarts :
          s2c' = s2c \o [i \in 1..(Len(log) - k + 1) |->
                            [type |-> "NEWMSG", id |-> log[k + i - 1]]]
    /\ UNCHANGED <<bufVars, sendVars, histVars, online, keysReady, log,
                   srvRejected, drops>>

\* NEWMSG from the client: a known transaction id is answered as before;
\* a new message is appended to the log and its id assigned, or rejected.
SrvRecvNewMsg ==
    /\ c2s # <<>> /\ Head(c2s).type = "NEWMSG"
    /\ c2s' = Tail(c2s)
    /\ LET x == Head(c2s).xid
           idCmd == [type |-> "MSGID", xid |-> x]
           rejCmd == [type |-> "REJECT", xid |-> x]
       IN  \/ x \in ToSet(log) /\ s2c' = Append(s2c, idCmd)
                /\ UNCHANGED <<log, srvRejected>>
           \/ x \in srvRejected /\ s2c' = Append(s2c, rejCmd)
                /\ UNCHANGED <<log, srvRejected>>
           \/ /\ x \notin ToSet(log) \cup srvRejected
              /\ \/ log' = Append(log, x) /\ s2c' = Append(s2c, idCmd)
                    /\ UNCHANGED srvRejected
                 \/ ServerMayReject /\ srvRejected' = srvRejected \cup {x}
                    /\ s2c' = Append(s2c, rejCmd) /\ UNCHANGED log
    /\ UNCHANGED <<bufVars, sendVars, histVars, online, keysReady, srvJoined,
                   drops>>

\* HIST: up to count messages before the given one (before the end of the
\* log if none), newest first, then HISTDONE.
SrvRecvHist ==
    /\ c2s # <<>> /\ Head(c2s).type = "HIST"
    /\ c2s' = Tail(c2s)
    /\ LET r == Head(c2s)
           p == IF r.before = NoMsg THEN Len(log) + 1 ELSE LogPos(r.before)
           n == IF p - 1 < r.count THEN p - 1 ELSE r.count
       IN  s2c' = s2c \o [i \in 1..n |-> [type |-> "OLDMSG", id |-> log[p - i]]]
                      \o <<[type |-> "HISTDONE"]>>
    /\ UNCHANGED <<bufVars, sendVars, histVars, online, keysReady, srvVars,
                   drops>>

\* Another member posts; a joined client is sent it at once.
OtherPosts(m) ==
    /\ m \notin ToSet(log)
    /\ log' = Append(log, m)
    /\ s2c' = IF srvJoined THEN Append(s2c, [type |-> "NEWMSG", id |-> m])
              ELSE s2c
    /\ UNCHANGED <<bufVars, sendVars, histVars, online, keysReady, srvRejected,
                   srvJoined, c2s, drops>>

------------------------------------------------------------------------------
Next ==
    \/ \E x \in OwnMsgs : MsgSubmit(x)
    \/ \E n \in HistCounts : GetHistory(n)
    \/ \E m \in OtherMsgs : OtherPosts(m)
    \/ OnCanEncryptAgain \/ ConnectionDrop \/ Reconnect
    \/ RecvNewMsg \/ RecvOldMsg \/ RecvHistDone \/ RecvConfirm
    \/ SrvRecvJoin \/ SrvRecvNewMsg \/ SrvRecvHist
    \/ \E id \in decrypting : DecryptResolves(id)

\* The event loop handles every command that arrives, the server answers
\* every command, the reconnect is retried without limit, and the crypto
\* module must call onCanEncryptAgain() and resolve every decrypt() (the
\* test one does so from a timer).  Users and members need not act.
Fairness ==
    /\ WF_vars(RecvNewMsg) /\ WF_vars(RecvOldMsg) /\ WF_vars(RecvHistDone)
    /\ WF_vars(RecvConfirm) /\ WF_vars(SrvRecvJoin) /\ WF_vars(SrvRecvNewMsg)
    /\ WF_vars(SrvRecvHist) /\ WF_vars(Reconnect) /\ WF_vars(OnCanEncryptAgain)
    /\ \A id \in Ids : WF_vars(DecryptResolves(id))

Spec == Init /\ [][Next]_vars /\ Fairness

------------------------------------------------------------------------------
(* Properties.                                                             *)

Cmds == [type : {"JOIN"}] \cup [type : {"NEWMSG"}, xid : OwnMsgs]
        \cup [type : {"HIST"}, count : HistCounts, before : Ids \cup {NoMsg}]
        \cup [type : {"NEWMSG", "OLDMSG"}, id : Ids] \cup [type : {"HISTDONE"}]
        \cup [type : {"MSGID", "REJECT"}, xid : OwnMsgs]

TypeOK ==
    /\ fwd \in Seq(Ids) /\ bwd \in Seq(Ids) /\ sending \in Seq(OwnMsgs)
    /\ DOMAIN idToIndex \subseteq Ids
    /\ decrypting \subseteq Ids /\ reported \subseteq Ids
    /\ nextUnsent \in 1..(Len(sending) + 1)
    /\ histState \in HistStates /\ histCount \in Nat
    /\ submitted \subseteq OwnMsgs /\ rejected \subseteq submitted
    /\ log \in Seq(Ids) /\ c2s \in Seq(Cmds) /\ s2c \in Seq(Cmds)
    /\ drops \in 0..MaxDrops

\* The buffer read from lownum to highnum is a stretch of the server's log:
\* each message once, no holes (chatd.h:366), and each new or confirmed
\* message at the forward end, each history message at the backward end,
\* as spec.md 4.4 places them, whatever order the JOIN replay, history and
\* id assignments arrive in.  (chatd.h:367 adds "there is no guarantee as
\* to ordering"; the order claimed here is the spec's.)
BufferMirrorsLog ==
    \E i \in 0..(Len(log) - Len(BufferSeq)) :
        \A j \in 1..Len(BufferSeq) : BufferSeq[j] = log[i + j]

\* mIdToIndexMap maps exactly the buffered messages, each to an index
\* findOrNull finds it at.
IdMapMatchesBuffer ==
    /\ DOMAIN idToIndex = Held
    /\ \A id \in DOMAIN idToIndex : findOrNull(idToIndex[id]) = id

\* Every submitted message eventually leaves the send queue, confirmed or
\* rejected, whatever drops and key delays happen on the way.
EverySubmitSettles ==
    \A x \in OwnMsgs : x \in ToSet(sending) ~> x \notin ToSet(sending)

\* Messages put on the live connection by a flush: NEWMSG commands still
\* in c2s, and those the server already logged or rejected.
Delivered ==
    {c2s[k].xid : k \in {k \in 1..Len(c2s) : c2s[k].type = "NEWMSG"}}
        \cup ToSet(log) \cup srvRejected

\* mNextUnsent never runs ahead of what was sent: while the chat is
\* online, every queue item before it is on its way to the server on this
\* connection or already known to the server.  A flush stopped by
\* encrypt() failing, a confirm() erasing items before it and a drop
\* losing items in flight must all leave it at an item still to send; the
\* reconnect's full resend (spec.md 9) is what makes a drop safe.
CursorBehindUnsent ==
    online => \A i \in 1..(nextUnsent - 1) : sending[i] \in Delivered

====
