------------------------------ MODULE ChatList ------------------------------
(***************************************************************************)
(* The chat list of the Qt example's main window                           *)
(* (src/examples/qtmegachatapi/MainWindow.cpp): one ChatListItemController *)
(* per chat in mChatControllers, holding a copy of the chat's list item    *)
(* and a pointer to the ChatItemWidget shown for it in ui->chatList.       *)
(*                                                                         *)
(* The SDK's view of each chat is `sdk`.  Every change of it is reported  *)
(* by onChatListItemUpdate, posted to the Qt event loop and run later in  *)
(* FIFO order; the full refreshes (updateChatControllersItems) read the   *)
(* SDK's current lists synchronously, so they can be newer than updates   *)
(* still queued.  A chat item is abstracted to whether it is active and   *)
(* whether it is archived; an inactive chat is one whose own privilege is *)
(* PRIV_RM.  The change flags of an update are those of what changed,     *)
(* plus a title or last-timestamp change of an unchanged item.            *)
(*                                                                         *)
(* A widget pointer is "none", "live" (its widget is in ui->chatList) or  *)
(* "dangling" (ui->chatList->clear() deleted its widget).                 *)
(***************************************************************************)
EXTENDS Naturals, Sequences

CONSTANTS
    Chats,          \* chat ids
    MaxQueue        \* bound on the updates queued in the event loop

VARIABLES
    sdk,            \* sdk[c]: the SDK's list item of chat c, or NoItem
    queue,          \* onChatListItemUpdate events not yet run
    ctrl,           \* ctrl[c]: the item of c's controller, NoItem if none
    listed,         \* chats with a widget in ui->chatList; exactly their
                    \* controllers hold a widget pointer, the others NULL
    allowOrder,     \* MainWindow::allowOrder
    mNeedReorder,   \* MainWindow::mNeedReorder
    mShowInactive,
    mShowArchived

chatVars == <<sdk, queue, ctrl, listed, allowOrder, mNeedReorder,
              mShowInactive, mShowArchived>>

Item == [present : {TRUE}, active : BOOLEAN, archived : BOOLEAN]
\* No controller (or no such chat in the SDK).
NoItem == [present |-> FALSE, active |-> FALSE, archived |-> FALSE]
\* The extra changes an update may report besides a change of status.
Extras == {{}, {"title"}, {"lastTs"}}

\* The change flags of an update from item o to item n.
ChangeFlags(o, n, extra) ==
    extra
    \cup (IF o # NoItem /\ o.active /\ ~n.active THEN {"closed"} ELSE {})
    \cup (IF o # NoItem /\ o.active # n.active THEN {"ownPriv"} ELSE {})
    \cup (IF o # NoItem /\ o.archived # n.archived THEN {"archive"} ELSE {})

\* getLocalChatListItemsByStatus: archived chats, inactive unarchived
\* chats, active unarchived chats; reorderAppChatList adds the first two
\* only when mShowArchived, mShowInactive.
Passes(i, showInactive, showArchived) ==
    \/ i.archived /\ showArchived
    \/ ~i.archived /\ ~i.active /\ showInactive
    \/ ~i.archived /\ i.active

\* addChatsBystatus() for the archived, inactive and active lists: the
\* chats whose controller's item passes the filter.
ShownChats(c2, showInactive, showArchived) ==
    {c \in Chats : c2[c] # NoItem /\ Passes(c2[c], showInactive, showArchived)}

\* reorderAppChatList() with the controllers c2: mNeedReorder reset, the
\* list cleared (deleting every widget), every controller's widget set to
\* NULL, then a new widget added for each chat that passes the filter.
Reorder(c2, showInactive, showArchived) ==
    LET shown == ShownChats(c2, showInactive, showArchived)
    IN  /\ listed' = shown
        /\ mNeedReorder' = FALSE

\* updateChatControllersItems(): every controller deleted, one created for
\* each chat of the SDK's active, inactive and archived lists.
Refreshed == sdk

\* The MainWindow constructor: allowOrder and mNeedReorder are not
\* initialised, so they hold whatever the memory held.
Construct ==
    /\ queue' = <<>> /\ ctrl' = [c \in Chats |-> NoItem]
    /\ listed' = {}
    /\ allowOrder' \in BOOLEAN /\ mNeedReorder' \in BOOLEAN
    /\ mShowInactive' = FALSE /\ mShowArchived' = FALSE

InitChats ==
    /\ sdk \in [Chats -> Item \cup {NoItem}]
    /\ queue = <<>> /\ ctrl = [c \in Chats |-> NoItem]
    /\ listed = {}
    /\ allowOrder \in BOOLEAN /\ mNeedReorder \in BOOLEAN
    /\ mShowInactive = FALSE /\ mShowArchived = FALSE

\* The own privilege an item reports: PRIV_RM for an inactive chat.
PrivOf(i) == IF i.active THEN "member" ELSE "rm"

\* Mutant of needReorder: the CHANGE_TYPE_ARCHIVE test dropped.
NeedReorderNoArchive(flags, i, oldPriv) ==
    \/ mNeedReorder
    \/ flags \cap {"closed", "lastTs", "unread"} # {}
    \/ PrivOf(i) = "rm" /\ mShowInactive
    \/ oldPriv = "rm" /\ PrivOf(i) = "member"

\* needReorder(): sets mNeedReorder on a change that moves the chat in the
\* list, and returns mNeedReorder (so a reorder still pending from before
\* also counts).
NeedReorder(flags, i, oldPriv) ==
    \/ mNeedReorder
    \/ flags \cap {"closed", "lastTs", "archive", "unread"} # {}
    \/ PrivOf(i) = "rm" /\ mShowInactive
    \/ oldPriv = "rm" /\ PrivOf(i) = "member"

\* Mutant of AddOrUpdate: an existing controller keeps its item.
AddOrUpdateCreateOnly(ct, c, i) ==
    IF ct[c] = NoItem THEN [ct EXCEPT ![c] = i] ELSE ct

\* addOrUpdateChatControllerItem(): a new controller, or the existing one
\* given the new item.  (It falls off its end without a return; the
\* caller never uses the value.)
AddOrUpdate(ct, c, i) == [ct EXCEPT ![c] = i]

\* The SDK's item of chat c changes (a member, another client or the
\* server acts); when delivered, the update is posted to the event loop.
SdkChange(c, delivered) ==
    \E n \in Item, extra \in Extras :
        /\ n # sdk[c] \/ extra # {}
        /\ sdk' = [sdk EXCEPT ![c] = n]
        /\ IF delivered
           THEN /\ Len(queue) < MaxQueue
                /\ queue' = Append(queue,
                      [chat |-> c, item |-> n,
                       changes |-> ChangeFlags(sdk[c], n, extra)])
           ELSE UNCHANGED queue
        /\ UNCHANGED <<ctrl, listed, allowOrder, mNeedReorder,
                       mShowInactive, mShowArchived>>

\* onChatListItemUpdate(): the old privilege is read from the controller
\* (uninitialised when there is none), the controller updated; with
\* allowOrder unset nothing else happens.  Otherwise a change that needs a
\* reorder reorders the list, and any other change updates the chat's
\* widget in place, if it has one.
OnChatListItemUpdate ==
    /\ queue # <<>>
    /\ LET u == Head(queue)
           c2 == AddOrUpdate(ctrl, u.chat, u.item)
       IN  /\ queue' = Tail(queue)
           /\ ctrl' = c2
           /\ \E oldPriv \in IF ctrl[u.chat] # NoItem
                             THEN {PrivOf(ctrl[u.chat])}
                             ELSE {"rm", "member"} :
                IF allowOrder /\ NeedReorder(u.changes, u.item, oldPriv)
                THEN Reorder(c2, mShowInactive, mShowArchived)
                ELSE UNCHANGED <<listed, mNeedReorder>>
    /\ UNCHANGED <<sdk, allowOrder, mShowInactive, mShowArchived>>

\* onChatConnectionStateUpdate() for MEGACHAT_INVALID_HANDLE (connected to
\* every chat): allowOrder set, controllers rebuilt from the SDK, list
\* reordered.
OnChatConnectionStateAll ==
    /\ allowOrder' = TRUE
    /\ ctrl' = Refreshed
    /\ Reorder(Refreshed, mShowInactive, mShowArchived)
    /\ UNCHANGED <<sdk, queue, mShowInactive, mShowArchived>>

\* onChatInitStateUpdate() with an online or offline session: controllers
\* rebuilt from the SDK, list reordered.
OnChatInitStateSession ==
    /\ ctrl' = Refreshed
    /\ Reorder(Refreshed, mShowInactive, mShowArchived)
    /\ UNCHANGED <<sdk, queue, allowOrder, mShowInactive, mShowArchived>>

\* onChatOnlineStatusUpdate() with STATUS_INVALID: reorders are suspended
\* until the next all-chats connection event.
OnChatOnlineStatusInvalid ==
    /\ allowOrder' = FALSE
    /\ UNCHANGED <<sdk, queue, ctrl, listed, mNeedReorder,
                   mShowInactive, mShowArchived>>

\* onShowInactiveChats(), onShowArchivedChats(): toggle, then reorder.
OnShowInactiveChats ==
    /\ mShowInactive' = ~mShowInactive
    /\ Reorder(ctrl, ~mShowInactive, mShowArchived)
    /\ UNCHANGED <<sdk, queue, ctrl, allowOrder, mShowArchived>>

OnShowArchivedChats ==
    /\ mShowArchived' = ~mShowArchived
    /\ Reorder(ctrl, mShowInactive, ~mShowArchived)
    /\ UNCHANGED <<sdk, queue, ctrl, allowOrder, mShowInactive>>

NextChats ==
    \/ \E c \in Chats : SdkChange(c, TRUE)
    \/ OnChatListItemUpdate \/ OnChatConnectionStateAll
    \/ OnChatInitStateSession \/ OnChatOnlineStatusInvalid
    \/ OnShowInactiveChats \/ OnShowArchivedChats

SpecChats == InitChats /\ [][NextChats]_chatVars

----------------------------------------------------------------------------
TypeOKChats ==
    /\ sdk \in [Chats -> Item \cup {NoItem}]
    /\ ctrl \in [Chats -> Item \cup {NoItem}]
    /\ listed \subseteq Chats /\ Len(queue) <= MaxQueue
    /\ {allowOrder, mNeedReorder, mShowInactive, mShowArchived} \subseteq BOOLEAN

\* While reorders are allowed and no update is pending, the list shows no
\* chat that the filter (mShowInactive, mShowArchived) excludes given its
\* controller's item: every update that moves a chat out of the filter
\* triggers a reorder, and one applied after a newer refresh is followed
\* by the update that brings the controller back up to date.
ListWithinFilter ==
    allowOrder /\ queue = <<>> =>
        \A c \in listed : ctrl[c] # NoItem
                          /\ Passes(ctrl[c], mShowInactive, mShowArchived)

\* Once every queued update has run, every controller holds the SDK's
\* current item, even when a full refresh overtook updates still queued.
ControllersCatchUp ==
    queue = <<>> => \A c \in Chats : ctrl[c] # NoItem => ctrl[c] = sdk[c]
=============================================================================
