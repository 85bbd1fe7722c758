------------------------------- MODULE QtApp --------------------------------
(***************************************************************************)
(* The Qt example as one process: the session chain of AppSession and the *)
(* main window's chat list of ChatList, run by the same Qt event loop.    *)
(* The application's constructor creates the main window, so a launch     *)
(* also constructs a fresh chat list; the SDK's chats outlive the process. *)
(* The chat notifications reach the window only while the process runs    *)
(* with an initialised MegaChatApi (anonymous or account mode; main() with *)
(* too many arguments never calls init()).  onChatInitStateUpdate with an *)
(* online or offline session also shows the main window.                  *)
(***************************************************************************)
EXTENDS AppSession, ChatList

appVars == vars
allVars == <<appVars, chatVars>>

\* The SDK delivers chat notifications to this process: it runs with an
\* initialised MegaChatApi that has a session (an anonymous one, or the
\* account's saved or dumped one; without one it has no chats yet).
Listening ==
    /\ phase = "running"
    /\ mode = "anonymous" \/ (mode = "account" /\ mSid # "null")

\* MainWindow::mApp: the constructor casts its parent argument, and the
\* application creates the window with `new MainWindow(0, ...)`, so mApp
\* is always NULL.
mApp == "null"

\* A member of the application called through mApp.
AppUse == nullUse' = (nullUse \/ mApp = "null")

\* MegaChatApplication's constructor: `new MainWindow(...)`.
LaunchApp ==
    /\ Launch /\ Construct
    /\ UNCHANGED sdk

\* onChatInitStateUpdate(INIT_ONLINE_SESSION or INIT_OFFLINE_SESSION):
\* MegaChatApi::init() was given a session (the saved one, or the one
\* fetch nodes dumped).  A hidden window is shown after
\* mApp->resetLoginDialog(), and the title tests mApp->sid(): both calls go
\* through mApp.  (resetLoginDialog() has no body in the repository, so
\* mLoginDialog is left as it is.)
InitStateSessionApp ==
    /\ Listening /\ mode = "account"
    /\ AppUse
    /\ OnChatInitStateSession
    /\ shown' = TRUE
    /\ UNCHANGED <<phase, mSid, mLoginDialog, pending, sidFile, mode,
                   freed>>

\* A chat-list handler run by the event loop of a listening process.
ChatStep ==
    /\ Listening
    /\ \/ OnChatListItemUpdate \/ OnChatConnectionStateAll
       \/ OnChatOnlineStatusInvalid
       \/ OnShowInactiveChats \/ OnShowArchivedChats
    /\ UNCHANGED appVars

\* The SDK's chats change whether or not a process listens.
SdkStep ==
    /\ \E c \in Chats : SdkChange(c, Listening)
    /\ UNCHANGED appVars

\* The end of the process takes the main window with it: its chat list is
\* reset to one fixed value, as none of it survives to the next launch.
Gone ==
    /\ queue' = <<>> /\ ctrl' = [c \in Chats |-> NoItem]
    /\ listed' = {}
    /\ allowOrder' = FALSE /\ mNeedReorder' = FALSE
    /\ mShowInactive' = FALSE /\ mShowArchived' = FALSE
    /\ UNCHANGED sdk

AppStep ==
    \/ /\ \/ MainAnonymous \/ MainTooManyArgs \/ MainAccount
          \/ OnLoginClicked \/ LoginSucceeded \/ LoginFailed
          \/ FetchNodesSucceeded \/ FetchNodesFailed
          \/ ConnectSucceeded \/ ConnectFailed
       /\ UNCHANGED chatVars
    \/ (Quit \/ Kill) /\ Gone

InitApp == Init /\ InitChats

NextApp == LaunchApp \/ InitStateSessionApp \/ ChatStep \/ SdkStep \/ AppStep

SpecApp == InitApp /\ [][NextApp]_allVars

\* The SDK answers every request of the chain, and the servers do not fail
\* it forever: a success that the retries of init() make possible again
\* and again eventually happens.  A failure disables the success (the
\* request is answered), so the fairness is strong.  Neither the user, the
\* SDK's chat events nor a kill need ever happen.
SessionFairness ==
    /\ SF_allVars(LoginSucceeded /\ UNCHANGED chatVars)
    /\ SF_allVars(FetchNodesSucceeded /\ UNCHANGED chatVars)
    /\ SF_allVars(ConnectSucceeded /\ UNCHANGED chatVars)

FairSpecApp == SpecApp /\ SessionFairness

----------------------------------------------------------------------------
\* The properties of the session chain, checked in the composed process.
TypeOKApp == TypeOK /\ TypeOKChats

\* (See AppSession.) At most one request of the chain is in flight.
OneRequestInFlight == SingleRequestInFlight

\* (See AppSession.) An account-mode process always has a request in
\* flight, a login dialog or a shown main window.
NotStranded == NeverStranded

\* An account-mode process does not stay in the session chain: unless it
\* ends, it comes to rest with the main window shown and nothing in
\* flight, or with a login dialog whose controls the user can use.  Every
\* error handler of the chain must lead back to one of these: a refused
\* login re-enables the dialog (or shows one), a fetch-nodes or connect
\* error runs init() again, which fast-logs in with the saved session.
SessionSettles ==
    (phase = "running" /\ mode = "account")
        ~> \/ phase # "running"
           \/ mLoginDialog = "enabled"
           \/ shown /\ pending = NoRequest

\* In a listening process with reorders allowed and no update pending, the
\* list shows no chat its controller's item puts outside the filter.
ListFiltered == Listening => ListWithinFilter

\* In a listening process with no update pending, every controller holds
\* the SDK's current item.
ControllersCurrent == Listening => ControllersCatchUp
=============================================================================
