----------------------------- MODULE ChatWindow -----------------------------
(***************************************************************************)
(* The message list of the Qt example's chat window                        *)
(* (src/examples/qtmegachatapi/chatWindow.cpp).                            *)
(*                                                                         *)
(* The SDK keeps a status per message.  The window keeps rows in           *)
(* ui->mMessageList and mMsgsWidgetsMap, a std::map from a message handle *)
(* to the widget of one row.  The handle of a row is getMessageId: the    *)
(* temporary id while a message is sending, its row id while it waits for *)
(* a manual resend, and its server id otherwise; a key here is a pair of  *)
(* that kind and the message.  Rows are counted per key: insertItem adds a *)
(* row whatever the map holds, and std::map::insert leaves an existing    *)
(* key's entry alone, so a key can have more rows than map entries.  The  *)
(* insertion index (loadedMessages, nSending, nManualSending) only places *)
(* a row and is left out, as are content, edits and the seen/delivered    *)
(* statuses, which change no row.                                         *)
(*                                                                         *)
(* Room events reach the window through QTMegaChatRoomListener, which     *)
(* posts them to the Qt event loop: `evq` is that FIFO.  The window is    *)
(* listening from openChatRoom() on; loadMessages() is a second call, and *)
(* the SDK may report a change between the two.  loadMessages() reports   *)
(* the history it holds at that moment as one burst of onMessageLoaded    *)
(* calls ending with a NULL message; the burst is one event here, as its  *)
(* calls touch disjoint keys and nothing else runs between them but user  *)
(* actions on other messages.                                             *)
(***************************************************************************)
EXTENDS Naturals, Sequences, FiniteSetsExt

CONSTANTS
    Own,            \* messages this client sends
    Others,         \* messages other participants send
    MaxEvents       \* bound on the room events queued in the event loop

Msgs == Own \cup Others

VARIABLES
    status,         \* status[m]: the SDK's status of message m
    win,            \* "closed", "opening" (listener registered, history
                    \* not yet requested) or "open"
    evq,            \* room events posted to the event loop, not yet run
    rows,           \* rows[k]: rows of ui->mMessageList with key k
    mapped          \* the keys of mMsgsWidgetsMap

windowVars == <<status, win, evq, rows, mapped>>

\* getMessageId: the handle a message's row is filed under.
Kinds == {"temp", "row", "msg"}
Keys == Kinds \X Msgs
KeyOf(m, st) ==
    CASE st = "sending" -> <<"temp", m>>
      [] st = "manual"  -> <<"row", m>>
      [] OTHER          -> <<"msg", m>>

NoRows == [k \in Keys |-> 0]

\* The window's list is the record [rows, mapped]; the helpers map one to
\* the next so that a handler's calls compose in their order.
\* addMsgWidget: a new row, filed in the map unless its key is there.
AddMsgWidget(l, k) ==
    [rows |-> [l.rows EXCEPT ![k] = @ + 1], mapped |-> l.mapped \cup {k}]

\* eraseChatMessage: remove the mapped row of key k, if there is one.
EraseChatMessage(l, k) ==
    IF k \in l.mapped
    THEN [rows |-> [l.rows EXCEPT ![k] = @ - 1], mapped |-> l.mapped \ {k}]
    ELSE l

\* findChatMessage
Found(l, k) == k \in l.mapped

List == [rows |-> rows, mapped |-> mapped]
SetList(l) == rows' = l.rows /\ mapped' = l.mapped

Listening == win \in {"opening", "open"}

\* The listener posts an event while the window is registered.
Post(e) ==
    IF Listening THEN /\ Len(evq) < MaxEvents
                      /\ evq' = Append(evq, e)
                 ELSE UNCHANGED evq

InitWindow ==
    /\ status = [m \in Msgs |-> "none"]
    /\ win = "closed"
    /\ evq = <<>>
    /\ rows = NoRows
    /\ mapped = {}

(***************************************************************************)
(* The window's operations, each run on the Qt thread.                    *)
(***************************************************************************)

\* The constructor shows an empty window; ChatItemWidget then calls
\* openChatRoom(), which registers the listener.
OpenChatWindow ==
    /\ win = "closed"
    /\ win' = "opening"
    /\ evq' = <<>>
    /\ SetList([rows |-> NoRows, mapped |-> {}])
    /\ UNCHANGED status

\* openChatRoom(), second half: loadMessages() reports the history as it
\* is now.
LoadMessages ==
    /\ win = "opening"
    /\ Len(evq) < MaxEvents
    /\ win' = "open"
    /\ evq' = Append(evq, [type |-> "loaded", snap |-> status])
    /\ UNCHANGED <<status, rows, mapped>>

\* ~ChatWindow: closeChatRoom() unregisters the listener; the rows go with
\* the window, and the delegate's pending events with the delegate.
CloseChatWindow ==
    /\ win # "closed"
    /\ win' = "closed"
    /\ evq' = <<>>
    /\ SetList([rows |-> NoRows, mapped |-> {}])
    /\ UNCHANGED status

\* onMsgSendBtn with a non-empty text: sendMessage() returns the message
\* in STATUS_SENDING, shown at once under its temporary id.
OnMsgSendBtn ==
    /\ win = "open"
    /\ \E m \in Own :
          /\ status[m] = "none"
          /\ status' = [status EXCEPT ![m] = "sending"]
          /\ SetList(AddMsgWidget(List, KeyOf(m, "sending")))
    /\ UNCHANGED <<win, evq>>

\* deleteChatMessage of an own message whose row is mapped, with the SDK's
\* deletion that deleteMessage() asks for and the update it reports.
DeleteChatMessage ==
    /\ win = "open"
    /\ \E m \in Own :
          /\ status[m] = "received"
          /\ Found(List, KeyOf(m, "received"))
          /\ status' = [status EXCEPT ![m] = "deleted"]
          /\ Post([type |-> "update", msg |-> m, st |-> "deleted"])
    /\ UNCHANGED <<win, rows, mapped>>

(***************************************************************************)
(* The room events, run by the event loop in the order they were posted.  *)
(***************************************************************************)

\* onMessageUpdate: a deletion erases the row under the server id; a
\* STATUS_SERVER_RECEIVED erases the row under the temporary id and adds
\* one under the server id; STATUS_SENDING_MANUAL is left to a TODO.
OnMessageUpdate(l, m, st) ==
    CASE st = "deleted"  -> EraseChatMessage(l, KeyOf(m, "received"))
      [] st = "received" -> AddMsgWidget(EraseChatMessage(l, KeyOf(m, "sending")),
                                         KeyOf(m, "received"))
      [] OTHER           -> l

\* onMessageReceived: a new message from the server, added unconditionally.
OnMessageReceived(l, m) == AddMsgWidget(l, KeyOf(m, "received"))

\* onMessageLoaded for one message of the history: deleted messages are
\* skipped; a manual one replaces a row under its temporary id when a row
\* under its row id is found.
LoadOne(m, s, l) ==
    CASE s \in {"none", "deleted"} -> l
      [] s = "manual" ->
           AddMsgWidget(IF Found(l, KeyOf(m, "manual"))
                        THEN EraseChatMessage(l, KeyOf(m, "sending"))
                        ELSE l,
                        KeyOf(m, "manual"))
      [] OTHER -> AddMsgWidget(l, KeyOf(m, s))

\* The burst of onMessageLoaded calls for the history in snap.  The
\* closing NULL call reloads only when mPendingLoad > 0, and mPendingLoad
\* is 0 from the constructor and set only inside that branch, so it does
\* nothing.
OnMessageLoaded(l, snap) ==
    FoldSet(LAMBDA m, acc : LoadOne(m, snap[m], acc), l, Msgs)

RunEvent ==
    /\ evq # <<>>
    /\ LET e == Head(evq) IN
         SetList(CASE e.type = "update"   -> OnMessageUpdate(List, e.msg, e.st)
                   [] e.type = "received" -> OnMessageReceived(List, e.msg)
                   [] OTHER               -> OnMessageLoaded(List, e.snap))
    /\ evq' = Tail(evq)
    /\ UNCHANGED <<status, win>>

(***************************************************************************)
(* The SDK, on its own thread: the server confirms or the client gives up *)
(* on an own message, and other participants post and delete.             *)
(***************************************************************************)
SdkStep(m, from, to, Own_or_Others, e) ==
    /\ m \in Own_or_Others
    /\ status[m] = from
    /\ status' = [status EXCEPT ![m] = to]
    /\ Post(e)
    /\ UNCHANGED <<win, rows, mapped>>

SdkAck(m) ==
    SdkStep(m, "sending", "received", Own,
            [type |-> "update", msg |-> m, st |-> "received"])
SdkToManual(m) ==
    SdkStep(m, "sending", "manual", Own,
            [type |-> "update", msg |-> m, st |-> "manual"])
SdkOtherMessage(m) ==
    SdkStep(m, "none", "received", Others, [type |-> "received", msg |-> m])
SdkOtherDelete(m) ==
    SdkStep(m, "received", "deleted", Others,
            [type |-> "update", msg |-> m, st |-> "deleted"])

NextWindow ==
    \/ OpenChatWindow
    \/ LoadMessages
    \/ CloseChatWindow
    \/ OnMsgSendBtn
    \/ DeleteChatMessage
    \/ RunEvent
    \/ \E m \in Msgs :
          SdkAck(m) \/ SdkToManual(m) \/ SdkOtherMessage(m) \/ SdkOtherDelete(m)

SpecWindow == InitWindow /\ [][NextWindow]_windowVars

(***************************************************************************)
(* Properties.                                                             *)
(***************************************************************************)
RowsOf(m) == rows[<<"temp", m>>] + rows[<<"row", m>>] + rows[<<"msg", m>>]

\* The chat window shows every message at most once: whatever order the
\* SDK's reports and the window's loadMessages() come in, no message has
\* two rows in ui->mMessageList.
EachMessageOnce == \A m \in Msgs : RowsOf(m) <= 1
=============================================================================
