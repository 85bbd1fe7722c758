# TLA+ models of MEGAchat

This directory holds TLA+ models of the MEGAchat sources under `src/`.
Each module is written from the code, and the TLC configurations check them.
`PROJECT.json` lists the following:

- the components and which module models each one;
- every TLC run, with its expected result;
- the mutants that show each checked property can fail;
- the source lines each definition translates;
- the findings;
- the hazards of the code.

## The system and its parts

| Part | Source | State | Operations |
|---|---|---|---|
| RetryController | `src/src/base/retryHandler.h` | `mState` (NotStarted, InProgress, RetryWait, Finished); `mCurrentAttemptNo`; the attempt generation `mCurrentAttemptId`; the deferred restart `mRestart`; the one timer handle `mTimer`; the output promise `mPromise`; `mAutoDestruct` | `start`, `restart`, `abort`, `reset`; the then/fail handlers of each attempt; the attempt-timeout callback; the backoff-wait and start-delay timer callbacks; `calcWaitTime`; and the `retry()` and `createRetryController()` constructions |
| performWithTimeout | same file, 424-470 | a promise and a one-shot timer | the timer, and the operation's then/fail handlers |
| Identifier, WireCommand | `src/src/chatd.h` | 64-bit id; `Command` byte buffer | declarations only (the bodies are not in the repository) |
| MessageBuffer (`chatd::Messages`) | `chatd.h` 365-513 | `mForwardStart`, the forward and backward vectors, `mIdToIndexMap`, the send queue `mSending` with `mNextUnsent`, seen/received pointers, `mHistFetchState` | inline: `push_forward`/`push_back`, `lownum`/`highnum`, `findOrNull`, `hasNum`, `first`/`last`, `msgIndexFromId`; declared only: `confirm`, `msgIncoming`, `getHistory`, `onLastSeen`, `msgSubmit`, `flushOutputQueue`... |
| Connection | `chatd.h` 313-352 | web socket, chat ids of the shard, ping timer | declared only: `reconnect`, `rejoinExistingChats`, `resendPending`, `execCommand` |
| Client | `chatd.h` 515-554 | shard → Connection, chat → Messages, `mMsgTransactionId` | `nextTransactionId`, `join`, `leave` |
| Qt example application | `src/examples/qtmegachatapi/` | login dialog, saved session id `mSid`, main window chat list (`allowOrder`, `mNeedReorder`, chat controllers), chat window counters | SDK request-finished callbacks, chat-list updates, user clicks |
| rtctestapp, logger console | `src/src/rtctestapp`, `src/src/base/loggerconsole.h` | none | presentation and console I/O |

### How the parts interact

Everything runs on one event loop, with callbacks from the SDK and from timers.
Handlers therefore never run in parallel, but they interleave at every callback.

The RetryController is used by the connection's reconnect, by the `retry()` fire-and-forget helper, and by every network-facing operation of the core.
Its hard behaviours come from the following:

- **Callbacks of superseded attempts.** A timed-out attempt may still answer later. Each attempt's id is compared with `mCurrentAttemptId` to detect this.
- **Cancel-function re-entrancy.** The cancel function may reject the running attempt synchronously. That re-enters the fail handler and `schedNextRetry` inside a timeout or `abort()` call.
- **Single timer handle.** There is only one timer handle, so arming a timer over a live one orphans the old one.
- **Deferred restart.** A `restart()` requested during an attempt is stored in `mRestart`.
- **Self-deletion.** With auto-destroy the object deletes itself while timers and attempt promises may still hold `this`.
- **Backoff arithmetic.** The wait is computed as a 32-bit shift-and-multiply.

The chatd core (Connection, Messages, Client) is declared in `chatd.h`.
Only its inline members are in the repository, and the rest comes from `spec.md`.

The Qt example application drives the SDK through three request chains:

- login, then fetch nodes, then connect;
- a saved session id taken from the `sid` file, which replaces the login dialog;
- the anonymous chat-link mode.

Once a session exists, the SDK's chat notifications reach the main window (`MainWindow.cpp`) through a listener that posts them to the Qt event loop.
The window keeps one controller per chat, with a copy of the chat's list item and a pointer to the chat's widget in `ui->chatList`.
`onChatListItemUpdate` updates a controller, and when `allowOrder` is set and the change affects the filter, it rebuilds the list (`reorderAppChatList`, which clears and deletes every widget).
The connection and init-state callbacks read the SDK's lists synchronously, so they can be newer than updates still queued.
The main window shares its process with the session chain: the application's constructor creates it, and `onChatInitStateUpdate` shows it and calls back into the application through `mApp`.

A chat window (`chatWindow.cpp`) registers its own room listener in `openChatRoom()` and then calls `loadMessages()`.
History messages (`onMessageLoaded`), new messages (`onMessageReceived`) and status changes (`onMessageUpdate`) arrive as posted events, and each adds or erases rows of `ui->mMessageList`, filed in `mMsgsWidgetsMap` under `getMessageId`.

### What makes each part correct

The properties the runs check (the name of the definition in brackets):

- **RetryController.**
  - At most one live timer, and no orphaned timer (`NoOrphanTimer`).
  - Only the current attempt is running uncancelled (`SingleUncancelledAttempt`).
  - `mFunc` is never called once the output promise is settled (`NoAttemptAfterSettled`).
  - The output promise settles at most once (`SettledAtMostOnce`), and eventually (`EventuallySettles`).
  - No callback runs after `delete this` (`NoCallbackAfterDestroy`).
  - The number of attempts respects `maxAttemptCount` (`MaxAttemptsRespected`).
  - The waits follow `min(cap, start·2^(k-1))` (`WaitMatchesReference`).
- **performWithTimeout.** An operation that answers before the timer fires has its value passed to the returned promise (`AnswerForwarded`). The code breaks this: see `pwt_success_lost`.
- **MessageBuffer.**
  - The buffer is a contiguous, in-order stretch of the server's log (`BufferMirrorsLog`).
  - The id map agrees with the buffer (`IdMapMatchesBuffer`).
  - While online, every queue item before `mNextUnsent` is on the live connection or known to the server (`CursorBehindUnsent`).
  - Every submitted message settles (`EverySubmitSettles`).
- **Application** (the names are those of `QtApp`, which composes the session chain with the chat list).
  - `mSid` is freed by the deallocator that matches its allocation, and no handler calls through a NULL pointer, the dialog or `mApp` (`SessionMemorySafe`).
  - The request chain is sequential (`OneRequestInFlight`).
  - In account mode the user always has a window or a request to wait for (`NotStranded`).
  - If the servers do not fail forever, the chain comes to rest in account mode. It ends with the main window shown and nothing in flight, or with a login dialog the user can use (`SessionSettles`).
- **Main window chat list.**
  - With no update queued and ordering allowed, the list shows no chat the inactive and archived filters exclude (`ListFiltered`).
  - With no update queued, every controller holds the SDK's current item, even after a refresh overtook queued updates (`ControllersCurrent`).
- **Chat window.** Each message has at most one row (`EachMessageOnce`).

## Modules

| Module | Models | Kind |
|---|---|---|
| `RetryBackoff` | `calcWaitTime`, `calcWaitTimeNoRandomness`, `kBitness` (pure operators); `ReferenceWait`, the recursive reference of the formula the constructor comment states | operators |
| `MCRetryBackoff` | checks the arithmetic at every start where the shift can wrap: each input tuple is an initial state | MC |
| `RetryController` | the controller and its environment (attempt promises, timers); one action per public call and per callback; EXTENDS `RetryBackoff` for the wait each backoff timer is armed with | state machine |
| `MCRetryController` | the call sets of the two kinds of owner (a holder of `createRetryController()`, the `retry()` helper); the bounded inputs on which the wait arithmetic is checked against its reference, as constant formulas | MC |
| `PerformWithTimeout` | `performWithTimeout`: the call, the then-handler `_timeoutAttachThenHandler` attaches, the fail lambda, the timer callback and `cancelCb`, for several calls at once | state machine |
| `MCPerformWithTimeout` | two concurrent calls as model values, with symmetry | MC |
| `MessageBuffer` | `chatd::Messages` of one chat with its send queue and the asynchronous decryption of received messages, and, as its environment, the connection (drops, reconnect) and the chatd server (log, deduplication, JOIN replay, history) | state machine |
| `MCMessageBuffer` | two own messages, one message of another member, history counts 1 and 2 | MC |
| `AppSession` | the Qt example's session chain: `main()`, constructor and destructor, `init()`, `initAnonymous()`, `login()`, `onLoginClicked()`, `readSid()`/`saveSid()`, and the LOGIN, FETCH_NODES and CONNECT handlers | state machine |
| `ChatList` | MainWindow's chat controllers, their widget pointers and `ui->chatList`: `onChatListItemUpdate` with `needReorder`, `addOrUpdateChatControllerItem` and `reorderAppChatList`; `onChatConnectionStateUpdate`, `onChatInitStateUpdate`, `onChatOnlineStatusUpdate(STATUS_INVALID)`, the two filter toggles; the SDK's chat items as environment | state machine |
| `QtApp` | one process of the example: `AppSession` and `ChatList` composed, with `mApp` and the window's construction and destruction | composition |
| `MCQtApp` | one chat; a VIEW that drops the history variables no checked property reads | MC |
| `ChatWindow` | a chat window's message rows and `mMsgsWidgetsMap`: constructor, `openChatRoom()`, destructor, `onMsgSendBtn`, `deleteChatMessage`, `onMessageUpdate`, `onMessageReceived`, `onMessageLoaded`; the SDK's message statuses as environment | state machine |
| `MCChatWindow` | one own message and one of another participant | MC |

### RetryController: how the model corresponds to the code

The controller's members are the variables.
The environment is two sets:

- `timers`: timers that are scheduled and have neither fired nor been cancelled;
- `inflight`: attempts whose `mFunc` promise has not settled.

Handlers call each other synchronously; for example, the timeout calls the cancel function, which calls the fail handler, which calls `schedNextRetry`, which calls `start`.
Each C++ member is therefore an operator from a record `C` (the controller and its environment) to the record after the call.
An action is the composition that the code runs, applied with `Becomes`.
The correspondence is:

- **Public calls.** `CallStart`, `CallRestart`, `CallAbort` and `CallReset` are the public calls past their throwing checks. A call that throws or returns early changes nothing, so it is left out.
- **Attempt results.** `AttemptResolves(a)` and `AttemptFails(a)` are attempt `a`'s promise settling. They run `ThenHandler` or `FailHandler`.
- **Timers.** `TimerFires(t)` is the event loop running a timer callback: `OnWaitElapsed` (a backoff wait or start delay) or `OnAttemptTimeout`.
- **Constants for the construction.** `AttemptTimeout`, `CancelRejects` (the cancel function rejects the attempt synchronously), `AutoDestruct`, `CallerCalls` (which public calls the owner makes), `ReuseAfterAbort`.
- **History variables for the properties.** `cancelled`, `settles`, `lateCall`, `calls`, `callerRestarted` and `aborted`; `waits` holds, for each backoff timer `schedNextRetry` armed (`ArmBackoff`), the failed attempt's number and the wait before jitter, for the default `BackoffStart` (1000 ms) and `MaxSingleWaitTime` (60000 ms).
- **Bounds.** `MaxCallerOps` public calls; `MaxAttemptId` stops failures and timeouts. `MaxAttemptId` never binds: raising it from 20 to 40 gives the same state count, because a run gives up after `MaxAttemptCount` attempts.

**Fairness.** The event loop runs every due timer, so timer callbacks are weakly fair.
Nothing obliges an attempt's promise or the owner to act, so those steps get no fairness.
`EventuallySettles` therefore holds only because every attempt has a timeout (`AttemptTimeout = TRUE`).
Deadlock checking is off: once the controller has finished and the owner has made its calls, nothing more happens.

### PerformWithTimeout

`pms[o]` is the returned promise of call `o`, `retpms[o]` the promise `cb()` returned, `timerArmed[o]` the one-shot timer, `cancelCalls[o]` the calls of `cancelCb`.
`Call` arms the timer and runs `cb()`, whose promise may come back already settled; `OpSettles` is that promise settling later; `TimerFires` is the timer callback, with its `done()` bail-out and `cancelCb`, which may reject the operation synchronously.
`Forward` is what the handlers do to `pms` when `retpms` settles. `_timeoutAttachThenHandler(retpms)` names its parameter `pms`, but that parameter is `retpms`: its then-handler tests and resolves `retpms` and never touches the returned promise. Only the fail lambda (`FailHandler`) reaches `pms`. A success therefore leaves `pms` pending until the timer rejects it as timed out and calls `cancelCb`. This holds whichever way `done()` reads inside the handler (the promise library is not in the repository).

### MessageBuffer: how the model corresponds to the code

- **Buffer.** `fwd` and `bwd` are `mForwardList` and `mBackwardList`, `ForwardStart` is `mForwardStart`, `idToIndex` is `mIdToIndexMap`; `lownum`, `highnum`, `findOrNull`, `hasNum`, `first`, `last` and `msgIndexFromId` are translated from their inline bodies.
- **Decryption.** `decrypting` holds the ids whose `msgIncoming` (chatd.cpp:240-251) started a `crypto().msgDecrypt` that has not resolved; `reported` the ids the listener was told of, by `onRecvNewMessage`/`onRecvHistoryMessage` when the decrypt resolves (`DecryptResolves`) or by `onMessageConfirmed` from `confirm`. `push_forward`/`push_back` are the inline appends that every insertion goes through.
- **Send queue.** `sending` is `mSending`, `nextUnsent` the position of the item `mNextUnsent` points at (`Len(sending) + 1` for `end()`), `rejected` the ids the server refused. A `std::list` iterator is not moved by erasing other items; `Confirm` lowers the position when it erases an item before it, so the position keeps pointing at the same item.
- **History.** `histState`, `histCount` and `histRequested` are `mHistFetchState` and the fetch's counters.
- **Environment.** `c2s` and `s2c` are the two directions of the web socket (FIFO, emptied by a drop); `log` is the server's log of the chat; `srvJoined` and `srvRejected` are the server's view.
- **Actions.** `MsgSubmit`, `OnCanEncryptAgain`, `GetHistory` and `ConnectionDrop`/`Reconnect` are the client's calls; `RecvNewMsg`, `RecvOldMsg`, `RecvHistDone` and `RecvConfirm` are the commands the connection dispatches; `SrvRecvJoin`, `SrvRecvNewMsg`, `SrvRecvHist` and `OtherPosts` are the server and the other members.
- **Bounds.** Two own messages and one other message reach every order of own and other messages, a message confirmed before and after a drop, and history fetches of one and two messages that end with and without `NoMore`. One drop is enough for every resend case; the same bound shows how a drop breaks the buffer's order (run `mb_replay_confirm`).
- **Fairness.** The connection dispatches every command it receives, the server answers every command, the reconnect is retried without limit (the connection's RetryController has no attempt limit), the crypto module must call `onCanEncryptAgain()`, and every started decrypt resolves (its promise is settled by the crypto module): these are weakly fair. The user and the other members need not act.

### AppSession: how the model corresponds to the code

- **State.** `mSid` is abstracted to how its buffer was obtained: `"strdup"` (`readSid`), `"newArr"` (`dumpSession`), `"dangling"` (the `c_str()` of `initAnonymous`'s parameter) or `"null"`. `mLoginDialog` is NULL or a dialog with enabled or disabled controls. `pending[r]` counts the SDK requests of kind `r` in flight. `sidFile` is the file `<appDir>/sid`, which outlives the process. `mode` is the branch `main()` took.
- **History variables.** `freed` (the kinds `delete [] mSid` was applied to) and `nullUse` (a member call through a NULL dialog).
- **Actions.** `Launch` is the constructor of a new process; `MainAnonymous`, `MainTooManyArgs` and `MainAccount` are the branches of `main()`; `OnLoginClicked` is the dialog's signal; `LoginSucceeded`/`LoginFailed`, `FetchNodesSucceeded`/`FetchNodesFailed` and `ConnectSucceeded`/`ConnectFailed` are the request handlers; `Quit` is closing the last window, after which the destructor runs; `Kill` ends the process between two callbacks.
- **Assumption.** `LoginDialog` is not in the repository. The model takes its `loggingIn` state to disable the controls, as `enableControls(true)` on a login error implies.
- **Init-state callback.** `MainWindow::onChatInitStateUpdate` with an online or offline session is `QtApp`'s `InitStateSessionApp`: it shows the main window and calls `mApp->resetLoginDialog()` and `mApp->sid()`. `mApp` is NULL (see the findings), so the action records a call through NULL; the body of `resetLoginDialog()` is not in the repository and is otherwise left out.
- **Fairness and deadlock.** `AppSession`'s own `Spec` has none. `QtApp`'s `FairSpecApp` adds `SessionFairness`: strong fairness of the three success handlers (`LoginSucceeded`, `FetchNodesSucceeded`, `ConnectSucceeded`). The SDK answers every request, and the assumption is that the servers do not fail the chain forever. A failure answers the request and so disables the success; `init()` then sends it again. The success is therefore only enabled infinitely often, and weak fairness would not oblige it. The user, the SDK's chat events, quitting and killing get no fairness. A killed or closed process may be launched again, so the model never deadlocks.

### ChatList and QtApp: how the model corresponds to the code

- **State.** `ctrl[c]` is the item held by the chat's `ChatListItemController` (`mChatControllers`), `NoItem` when there is none; `listed` the chats with a widget in `ui->chatList`. The controllers of exactly these chats hold a widget pointer: every handler that clears the list (`reorderAppChatList`) also nulls every pointer (`clearChatWidgets`) before it adds widgets again, in the same callback, so the pointer is not a variable of its own; `allowOrder`, `mNeedReorder`, `mShowInactive` and `mShowArchived` the members of those names. A chat item is abstracted to whether it is active (own privilege not `PRIV_RM`) and archived.
- **Environment.** `sdk[c]` is the SDK's item of chat `c`; `SdkChange` changes it and, while the process listens, posts an `onChatListItemUpdate` carrying the new item and its change flags to `queue` (FIFO, at most `MaxQueue`).
- **Actions.** `OnChatListItemUpdate` runs the head of `queue`: `addOrUpdateChatControllerItem`, then `needReorder` on the old privilege, then `reorderAppChatList` when ordering is allowed. `OnChatConnectionStateAll` and `OnChatInitStateSession` refresh every controller from the SDK and rebuild the list; `OnChatOnlineStatusInvalid` clears `allowOrder`; the two toggles flip a filter and rebuild.
- **Uninitialised members.** The constructor never sets `allowOrder` or `mNeedReorder`, and `oldPriv` is read uninitialised for a chat without a controller: each is a nondeterministic choice.
- **Composition.** `LaunchApp` constructs a fresh window with the process; `Gone` (the destructor, or a kill) drops the controllers and the queue, while `sdk` survives; the chat actions run only while `Listening` (a running process with a session).
- **Bound.** One chat and two queued updates: a refresh can overtake one queued update and a second update can follow it, and every filter transition of the one chat is reached. `MCQtApp.cfg` replaces `Extras` by `CheckedExtras`, which has no title-only change. Such a change leaves the item as it is and forces no reorder, so applying it changes nothing the properties read. With a VIEW that leaves out `freed` and `nullUse`, the run has about 160,000 distinct states and takes about 80 s with the liveness check.

### ChatWindow: how the model corresponds to the code

- **State.** `status[m]` is the SDK's status of message `m` (none, sending, manual, received, deleted). `rows[k]` counts the rows of `ui->mMessageList` filed under key `k`, and `mapped` is the key set of `mMsgsWidgetsMap`. A key is `getMessageId`'s choice of handle: temporary id, row id or server id. `win` is closed, `"opening"` (after `openChatRoom()`'s listener registration, before `loadMessages()`) or open; `evq` is the FIFO of posted room events.
- **Actions.** `OpenChatWindow` (constructor, listener registration), `LoadMessages` (the history as the SDK holds it at that moment, posted as one event for the whole `onMessageLoaded` burst), `CloseChatWindow`, `OnMsgSendBtn`, `DeleteChatMessage`, and `RunEvent`, which runs the head event through `OnMessageUpdate`, `OnMessageReceived` or `OnMessageLoaded`. The SDK acks own messages, gives up on them (manual), and posts and deletes other participants' messages.
- **Abstraction.** The insertion index and the counters that compute it (`loadedMessages`, `nSending`, `nManualSending`) only place a row and are left out, as are content, edits and the seen/delivered statuses. `mPendingLoad` is always 0, so the NULL end of a burst does nothing.


## Runs and what they show

| Run | cfg | Expect | Shows |
|---|---|---|---|
| backoff_overflow | `MCRetryBackoff_overflow.cfg` | violation | For every `unsigned short` start and attempts 17..22, the shift-and-multiply wraps at 2^32. Start 32768 at attempt 18 waits 0 ms instead of 60000. |
| rc_owner | `MCRetryController.cfg` | pass | The wait arithmetic, for attempt numbers 1..64 and typical starts and caps, is `min(cap, start·2^(n-1))` (`WaitMatchesReference`), also for every wait the run arms. An owner using all four calls, with timeouts and a cancel function that does not reject synchronously, at most 2 attempts: no orphan timer, only the current attempt uncancelled, `mFunc` never called after settling, settled at most once and eventually. |
| rc_abort_cancel_rejects | `MCRetryController_abortCancelRejects.cfg` | violation | `abort()` calls the cancel function before rejecting the promise. A cancel function that rejects synchronously makes the fail handler schedule a retry, whose timer later calls `mFunc` after the abort. |
| rc_stale_restart | `MCRetryController_staleRestart.cfg` | violation | A `restart()` during an attempt that then succeeds leaves `mRestart` set through finish and `reset()`. The next run restarts instead of giving up, so it exceeds `maxAttemptCount`. |
| rc_retry_timeout | `MCRetryController_retryTimeout.cfg` | violation | `retry()` with an attempt timeout: a timed-out attempt answers after the controller deleted itself, so its handler uses a freed object. |
| rc_first_wait | `MCRetryController_firstWait.cfg` | violation | `schedNextRetry` increments `mCurrentAttemptNo` before `calcWaitTime()` (retryHandler.h:350): the first backoff wait is 2000 ms for the default start of 1000 ms, where the constructor comment ("the first wait will be 1s the next 2s") and `retry()`'s comment promise the start itself. `start()`'s own comment says the increment is deliberate, so this is the documentation disagreeing with the code. |
| pwt_success_lost | `MCPerformWithTimeout.cfg` | violation | An operation whose promise is already resolved when `cb()` returns (or resolves before the timer) leaves the returned promise pending (`AnswerForwarded`): the then-handler resolves the operation's own promise (retryHandler.h:427-431, 462). The timer then rejects the caller's promise as timed out and calls `cancelCb` on an operation that answered. |
| mb_core | `MCMessageBuffer.cfg` | pass | With up to one drop at any point, keys ready or late, and a server that may reject: the id map always points every id at its message (`IdMapMatchesBuffer`); `mNextUnsent` never passes an item that is neither on the live connection nor known to the server, across flushes stopped by `encrypt()`, confirms erasing items and drops (`CursorBehindUnsent`); every submitted message is eventually confirmed or rejected (`EverySubmitSettles`). |
| mb_replay_confirm | `MCMessageBuffer_replay.cfg` | violation | A drop after the server accepted an own message but before its MSGID arrived: the JOIN replay delivers it as NEWMSG, and the MSGID that answers the resend makes `confirm()` add it a second time. |
| app_session | `MCQtApp.cfg` | pass | Launch after launch, every SDK answer, kills between callbacks, and one chat whose SDK item changes at any time: the three requests run one at a time, an account-mode process always has a request in flight, a dialog or the main window; a quiescent list shows no filtered-out chat, and the controllers catch up with the SDK even when a refresh overtakes queued updates. Under `SessionFairness`, an account-mode process always comes to rest: either with the main window shown and nothing in flight, or with a login dialog whose controls are enabled (`SessionSettles`). The retry loop of init() after a fetch-nodes or connect error ends once the servers stop failing. |
| app_memory | `MCQtApp_memory.cfg` | violation | An anonymous launch, then the window closed: the destructor runs `delete [] mSid` on a pointer into `initAnonymous()`'s destroyed string. The same property also fails on the saved-session path (`strdup` freed by `delete []`, `deleteLater()` through a NULL dialog) and at the first init-state event of an account launch (`mApp->sid()` through the NULL `mApp`). |
| window_duplicate | `MCChatWindow.cfg` | violation | Another participant's message reported between `openChatRoom()` and `loadMessages()` is added by `onMessageReceived` and again by the history burst: the window shows it twice (whenever the SDK's first history load includes it, which no contract in the repository rules out). |

**Why the bounds are enough.**

- RetryController: two attempts, plus a third public call, reach every branch of every handler: a deferred restart and a restart during a wait; an abort in both running states; a reset and a second start; a timeout racing a late answer; giving up. Every violation is found within these bounds, in 3 to 8 steps.
- Backoff: `rc_owner` enumerates every attempt number where the formula changes branch (1..64 crosses `kBitness` = 22); `rc_first_wait` needs one failed attempt. The overflow run enumerates every possible start (0..65535) for the attempt numbers at which the product can wrap.
- performWithTimeout: each call takes every combination of synchronous, late and missing answer; the violation needs one call and two steps, and the second call only adds interleavings.
- MessageBuffer: see the bounds in the correspondence section above; the replay violation needs one drop and one own message.
- AppSession and ChatList (`app_session`): the session chain has no bound; one chat and two queued updates reach every handler branch of the chat list (see the ChatList section).
- ChatWindow: one own and one other message give every status path (sent, acked, given up, deleted) beside a message of another participant, and three queued events hold the history burst behind two earlier reports.

### Documented divergences without a run

The project keeps one run per question, at most twelve, and spends them on the questions above.
The following were seen while modelling and are recorded here instead:

- **Jitter width.** `calcWaitTime` moves the wait by up to ±pct of it; `spec.md` §4.1 says ±pct/2. The band is plain arithmetic in the code, so no run restates it.
- **abort() twice.** `abort()` leaves `mState` running (retryHandler.h:173), so a second `abort()` rejects the promise again and `reset()` throws. `rc_owner`'s owner stops calling after a successful abort.
- **first()/last().** `first()` and `last()` (chatd.h:409-410) return the inner ends of the two vectors, not the messages at `lownum` and `highnum`, and call `back()` on an empty vector when the buffer is empty.
- **History fetch after a drop.** A drop while a history fetch is in flight leaves `mHistFetchState` fetching for replies that were lost (chatd.h:403); the model shows the fetch never ends.
- **quit() before exec().** With more than one argument, or an anonymous init error or empty link, `QApplication::quit()` runs before `app.exec()` and is ignored; the process idles with no window.
- **Missing return in `addOrUpdateChatControllerItem`.** MainWindow.cpp:578 falls off the end of a function returning a pointer on one path; the callers ignore the value, so no state the models tell apart depends on it.
- **Dead `mPendingLoad`.** chatWindow.cpp:264 sets `mPendingLoad`, which nothing reads; it is left out of `ChatWindow`.
- **Use after free in decrypt.** The continuation of `msgDecrypt` (chatd.cpp:244) captures `&src`; a `leave` or a clear of the buffer before the decrypt resolves makes it dangle. The model has no leave, so no property reaches it.
- **The `rc_cancel_rejects` scenario.** The timeout bail-out with a cancel function that rejects synchronously (retryHandler.h:316) is exercised by `rc_abort_cancel_rejects` up to its violation, but no passing run covers it to completion.

## Plan

The modules are built in this order. The later ones compose the earlier ones.

1. **Done.** `RetryBackoff`, `RetryController` and their MC modules.
2. **Done.** `PerformWithTimeout`. An abstract settle-once specification was dropped: the returned promise does settle once, but it never carries a success (`pwt_success_lost`), so a refinement that accepts any outcome would pass and say nothing.
3. **Partly done.** `MessageBuffer`: the buffer's index arithmetic from `chatd.h`, submit/flush, confirm, msgIncoming, server history and `onHistDone`, drop and reconnect with resend. Still to do: history from the local database, the seen and received pointers (`onLastSeen`/`onLastReceived`), edits (`msgModify`), and an abstract chat-history specification for it to refine.
4. `Connection` with several chats per shard: reconnect through an instance of `RetryController` (no attempt limit) instead of the eventual-success abstraction, rejoin of every chat, keepalive.
5. **Partly done.** `AppSession`: the session request chain and `mSid` ownership.
6. **Done.** `ChatList`, composed with `AppSession` in `QtApp`, with the liveness of the session chain. The contact list is dead code in this revision (see below).
7. **Partly done.** `ChatWindow`: the rows and the widget map. Still to do: the insertion order (with the counters), and a passing run once a run is free.

With at most twelve runs, new components are checked by extending an existing pass run's composed module rather than by adding runs.

## Not modelled, and why

- **Presentation code.** Widget layout, style sheets, menus, the rtctestapp window and the logger console do not change any state that a property here tells apart.
- **WireCommand encoding and `Id`'s base64 text form.** These are byte layout, and their bodies are not in the repository.
- **Transport, TLS, the database and the encryption algorithm.** These are external collaborators (`spec.md` §1, §6). They appear only as nondeterministic answers.
- **The contact list.** Nothing in the repository calls `addOrUpdateContactControllersItems`, `reorderAppContactList` or `addOrUpdateContactController`. `mContactControllers` therefore stays empty, and `updateContactFirstname` and the contact branch of `onChatOnlineStatusUpdate` never find a contact. `MainWindow::addQtContactWidget` constructs `ContactItemWidget` with five arguments, where `contactItemWidget.cpp` defines a four-argument constructor, so the two files come from different revisions.
- **The call handlers of MainWindow.** They drive `CallGui`, whose source is not in the repository.
- **ChatGroupDialog.** It turns a selection into SDK requests: `createChat`, or `archiveChat` through `ChatItemWidget`, whose body is not in the repository. Its reuse path does nothing when the archived chat's widget is hidden (see the hazards in PROJECT.json). A property about that path could only be violated, and all twelve runs are in use.
- **rtctestapp.** `buttonPushed()` returns unconditionally after printing the contact list (mainwindow.cpp:59), so the call and hangup code after it is unreachable. The device selectors only forward a combo-box entry.
- **`ChatItemWidget`, `ChatMessage`, `LoginDialog`.** Their sources are not in the repository: `moveManualSendingToSending` (called by `ChatMessage`) and whether a chat item widget's deletion closes its chat window are left out.
- **MegaChatApplication's request handlers.** They call MainWindow methods that are not in this version of MainWindow (the two files come from different revisions), so no faithful composition exists.
- **Client, Connection keepalive, the local history database.** The bodies of `Client::join`, `Client::leave`, the connection's reconnect and keepalive, and `DbInterface`'s users are not in the repository. The inline parts of `Client` (the lookups and `nextTransactionId`) hold no state that a property here could tell apart. Plan item 4 stays open for a revision that contains those bodies.
