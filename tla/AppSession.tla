----------------------------- MODULE AppSession -----------------------------
(***************************************************************************)
(* The session chain of the Qt example application                        *)
(* (src/examples/qtmegachatapi/MegaChatApplication.cpp): main() chooses   *)
(* the anonymous chat-link mode or the account mode; the account mode     *)
(* reads a saved session id and either fast-logs in with it or shows the  *)
(* login dialog; the SDK's request-finished callbacks chain login, fetch  *)
(* nodes and connect, and on an error fall back to init().                *)
(*                                                                         *)
(* mSid is abstracted to how its buffer was obtained, which decides which *)
(* deallocator may free it: strdup() in readSid(), new[] in the SDK's     *)
(* dumpSession(), or the c_str() of initAnonymous()'s by-value string,    *)
(* which dangles once initAnonymous returns.  mLoginDialog is NULL or a   *)
(* dialog whose controls are enabled or disabled.  The sid file outlives  *)
(* the process, so the model runs launch after launch; the process may    *)
(* be killed at any point between two callbacks.                          *)
(***************************************************************************)
EXTENDS Naturals, FiniteSets

VARIABLES
    phase,          \* "down" (no process), "start" (constructed, main()
                    \* not yet past its branch), "running" (in app.exec())
    mSid,           \* "null", "strdup", "newArr" or "dangling"
    mLoginDialog,   \* "null", "enabled" or "disabled"
    pending,        \* pending[r]: requests of kind r ("login", "fetch",
                    \* "connect") sent to the SDK and not yet answered
    shown,          \* mMainWin->show() was called
    sidFile,        \* the file <appDir>/sid exists and holds a line
    mode,           \* the branch main() took: "none" yet, "anonymous",
                    \* "tooManyArgs" or "account"
    \* history, for the properties
    freed,          \* the kinds of buffer `delete [] mSid` was applied to
    nullUse         \* a member was called through a NULL mLoginDialog

vars == <<phase, mSid, mLoginDialog, pending, shown, sidFile, mode,
          freed, nullUse>>

SidKinds == {"null", "strdup", "newArr", "dangling"}
Requests == {"login", "fetch", "connect"}
NoRequest == [r \in Requests |-> 0]

\* The request r is sent, or answered.
Send(p, r) == [p EXCEPT ![r] = @ + 1]
Answer(p, r) == [p EXCEPT ![r] = @ - 1]
InFlight(r) == pending[r] > 0

\* `delete [] mSid`: deleting NULL is a no-op.
DeleteSid == freed' = IF mSid = "null" THEN freed ELSE freed \cup {mSid}

\* `mLoginDialog->deleteLater()` and the other member calls on the dialog
\* that the handlers make without testing it for NULL.
DialogUse == nullUse' = (nullUse \/ mLoginDialog = "null")

\* init(): MegaChatApi::init(mSid), then login() (a new dialog, with
\* mLoginDialog NULL at every call of init()) when there is no session,
\* else fastLogin(mSid).  s is mSid, p the
\* requests in flight.
InitCall(s, p) ==
    /\ mLoginDialog' = IF s = "null" THEN "enabled" ELSE "null"
    /\ pending' = IF s = "null" THEN p ELSE Send(p, "login")

Init ==
    /\ phase = "down" /\ mSid = "null" /\ mLoginDialog = "null"
    /\ pending = NoRequest /\ shown = FALSE /\ sidFile \in BOOLEAN /\ mode = "none"
    /\ freed = {} /\ nullUse = FALSE

\* A new process: the constructor sets mLoginDialog and mSid to NULL.
Launch ==
    /\ phase = "down"
    /\ phase' = "start"
    /\ mSid' = "null" /\ mLoginDialog' = "null" /\ pending' = NoRequest
    /\ shown' = FALSE /\ mode' = "none"
    /\ UNCHANGED <<sidFile, freed, nullUse>>

\* main() with one argument: initAnonymous(argv[1]).  mSid is deleted,
\* pointed into the by-value string and saved.  QApplication::quit() before
\* app.exec() has no effect, so an init error changes nothing; a link of
\* more than one character is loaded and the window shown.
MainAnonymous ==
    /\ phase = "start"
    /\ phase' = "running"
    /\ DeleteSid
    /\ mSid' = "dangling"
    /\ sidFile' = TRUE
    /\ shown' \in BOOLEAN
    /\ mode' = "anonymous"
    /\ UNCHANGED <<mLoginDialog, pending, nullUse>>

\* main() with more than one argument: quit() before exec() is ignored and
\* nothing is shown.
MainTooManyArgs ==
    /\ phase = "start"
    /\ phase' = "running"
    /\ mode' = "tooManyArgs"
    /\ UNCHANGED <<mSid, mLoginDialog, pending, shown, sidFile,
                   freed, nullUse>>

\* main() with no argument: readSid() strdup()s the line of the sid file,
\* then init().
MainAccount ==
    /\ phase = "start"
    /\ phase' = "running"
    /\ mode' = "account"
    /\ LET s == IF sidFile THEN "strdup" ELSE "null"
       IN  /\ mSid' = s
           /\ InitCall(s, pending)
    /\ UNCHANGED <<shown, sidFile, freed, nullUse>>

\* Mutant of OnLoginClicked: the loggingIn state leaves the controls
\* enabled.
OnLoginClickedKeepsEnabled ==
    /\ phase = "running" /\ mLoginDialog = "enabled"
    /\ pending' = Send(pending, "login")
    /\ UNCHANGED <<mode, phase, mSid, mLoginDialog, shown, sidFile,
                   freed, nullUse>>

\* onLoginClicked(): the dialog goes to its loggingIn state, which disables
\* its controls, and MegaApi::login() is sent.
OnLoginClicked ==
    /\ phase = "running" /\ mLoginDialog = "enabled"
    /\ mLoginDialog' = "disabled"
    /\ pending' = Send(pending, "login")
    /\ UNCHANGED <<mode, phase, mSid, shown, sidFile, freed, nullUse>>

\* Mutant of LoginSucceeded: the fetchingNodes state re-enables the dialog.
LoginSucceededEnables ==
    /\ phase = "running" /\ InFlight("login")
    /\ pending' = Send(Answer(pending, "login"), "fetch")
    /\ mLoginDialog' = IF mLoginDialog = "null" THEN "null" ELSE "enabled"
    /\ UNCHANGED <<mode, phase, mSid, shown, sidFile, freed, nullUse>>

\* TYPE_LOGIN finished with API_OK: fetchingNodes on the dialog if there is
\* one, then fetchNodes().
LoginSucceeded ==
    /\ phase = "running" /\ InFlight("login")
    /\ pending' = Send(Answer(pending, "login"), "fetch")
    /\ UNCHANGED <<mode, phase, mSid, mLoginDialog, shown, sidFile, freed,
                   nullUse>>

\* Mutant of LoginFailed: the else branch (login()) missing.
LoginFailedNoRelogin ==
    /\ phase = "running" /\ InFlight("login")
    /\ pending' = Answer(pending, "login")
    /\ mLoginDialog' = IF mLoginDialog = "null" THEN "null" ELSE "enabled"
    /\ UNCHANGED <<mode, phase, mSid, shown, sidFile, freed, nullUse>>

\* Mutant of LoginFailed: enableControls(true) dropped, the dialog keeps
\* the controls onLoginClicked disabled.
LoginFailedNoEnable ==
    /\ phase = "running" /\ InFlight("login")
    /\ pending' = Answer(pending, "login")
    /\ mLoginDialog' = IF mLoginDialog = "null" THEN "enabled" ELSE mLoginDialog
    /\ UNCHANGED <<mode, phase, mSid, shown, sidFile, freed, nullUse>>

\* TYPE_LOGIN finished with an error: badCredentials and enableControls()
\* on the dialog if there is one, else login() shows a new dialog (the
\* saved session was refused).
LoginFailed ==
    /\ phase = "running" /\ InFlight("login")
    /\ pending' = Answer(pending, "login")
    /\ mLoginDialog' = "enabled"
    /\ UNCHANGED <<mode, phase, mSid, shown, sidFile, freed, nullUse>>

\* TYPE_FETCH_NODES finished with API_OK: mSid is deleted with delete[],
\* replaced by dumpSession() (new[]) and saved; the dialog is deleted
\* without a NULL test; the main window is shown and connect() sent.
FetchNodesSucceeded ==
    /\ phase = "running" /\ InFlight("fetch")
    /\ DeleteSid
    /\ mSid' = "newArr"
    /\ sidFile' = TRUE
    /\ DialogUse
    /\ mLoginDialog' = "null"
    /\ shown' = TRUE
    /\ pending' = Send(Answer(pending, "fetch"), "connect")
    /\ UNCHANGED <<mode, phase>>

\* TYPE_FETCH_NODES finished with an error: the dialog is deleted without
\* a NULL test, then init().
FetchNodesFailed ==
    /\ phase = "running" /\ InFlight("fetch")
    /\ DialogUse
    /\ InitCall(mSid, Answer(pending, "fetch"))
    /\ UNCHANGED <<mode, phase, mSid, shown, sidFile, freed>>

\* TYPE_CONNECT finished with ERROR_OK: addChats() fills the chat list.
ConnectSucceeded ==
    /\ phase = "running" /\ InFlight("connect")
    /\ pending' = Answer(pending, "connect")
    /\ UNCHANGED <<mode, phase, mSid, mLoginDialog, shown, sidFile, freed,
                   nullUse>>

\* TYPE_CONNECT finished with an error: the dialog, already deleted by the
\* fetch-nodes handler, is deleted again without a NULL test, then init()
\* fast-logs in with the dumped session.
ConnectFailed ==
    /\ phase = "running" /\ InFlight("connect")
    /\ DialogUse
    /\ InitCall(mSid, Answer(pending, "connect"))
    /\ UNCHANGED <<mode, phase, mSid, shown, sidFile, freed>>

\* The last window is closed (setQuitOnLastWindowClosed): app.exec()
\* returns and the destructor runs `delete [] mSid`.
Quit ==
    /\ phase = "running" /\ (shown \/ mLoginDialog # "null")
    /\ DeleteSid
    /\ phase' = "down"
    /\ UNCHANGED <<mode, mSid, mLoginDialog, pending, shown, sidFile,
                   nullUse>>

\* The process is killed between two callbacks: nothing is freed, the sid
\* file stays as it is.
Kill ==
    /\ phase \in {"start", "running"}
    /\ phase' = "down"
    /\ UNCHANGED <<mode, mSid, mLoginDialog, pending, shown, sidFile,
                   freed, nullUse>>

Next ==
    \/ Launch \/ MainAnonymous \/ MainTooManyArgs \/ MainAccount
    \/ OnLoginClicked \/ LoginSucceeded \/ LoginFailed
    \/ FetchNodesSucceeded \/ FetchNodesFailed
    \/ ConnectSucceeded \/ ConnectFailed
    \/ Quit \/ Kill

\* No fairness: nothing checked here is a liveness property, and the SDK
\* may fail a request any number of times.
Spec == Init /\ [][Next]_vars

----------------------------------------------------------------------------
\* Each request kind is in flight at most once, as the SDK is never sent a
\* request it is already answering.
TypeOK ==
    /\ phase \in {"down", "start", "running"}
    /\ mSid \in SidKinds
    /\ mLoginDialog \in {"null", "enabled", "disabled"}
    /\ pending \in [Requests -> 0..1] /\ shown \in BOOLEAN /\ sidFile \in BOOLEAN
    /\ mode \in {"none", "anonymous", "tooManyArgs", "account"}
    /\ freed \subseteq SidKinds /\ nullUse \in BOOLEAN

\* The chain is sequential: at most one of login, fetch nodes and connect
\* is in flight.  A dialog that let the user log in again while the chain
\* runs would start a second chain beside the first.
SingleRequestInFlight ==
    Cardinality({r \in Requests : InFlight(r)}) <= 1

\* In account mode the process always has something the user can see or
\* wait for: a request of the chain in flight, a login dialog, or the main
\* window.  Every error path of the chain ends in a new request or a
\* dialog, never in an idle process with no window.
NeverStranded ==
    (phase = "running" /\ mode = "account")
        => (pending # NoRequest \/ mLoginDialog # "null" \/ shown)

\* Every buffer held in mSid is freed by the deallocator that matches its
\* allocation (delete[] only for the new[] of dumpSession()), and no handler
\* calls a member through a NULL mLoginDialog.
SessionMemorySafe == freed \subseteq {"newArr"} /\ ~nullUse
=============================================================================
