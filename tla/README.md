# Verification of walhalla-kmp

TLA+ models of the parts of walhalla-kmp in which several threads, a network or
a process kill can put steps in an order nobody tested: SIP telephony (the native
core, its four engines, and the signalling, registration and jitter buffer of
the libraries under it), the push inbox, and the application's smaller
protocols. TLC checks the models on small instances; TLAPS proves the most
important invariants for every value of their constants.

Paths below are relative to the repository: `native/` is `sip/native/`, `sip/`
and `composeApp/` are the Kotlin Multiplatform modules.

## 1. The system

### Components, their state and their operations

| Component | State | Operations | Hard behaviour | Correct when |
|---|---|---|---|---|
| Native SIP core: `native/telephony.c` over libre (`mqueue`, `re_main`) and baresip (`ua.c`, `call.c`, `event.c`, `reg.c`) | `g_messageQueue`, `g_call`, `uag.ual`, `uag.ua_cur`, the calls of each User-Agent, the registrations | `telephony_init`, `telephony_mainLoop`, `tel_done`, `telephony_cmd`; `AUDIO_CALL`, `HANGUP`, `STOP`; network and timer callbacks | two threads share the queue pointer without a lock; calls end in any order; `STOP` tears down under live calls; the library's statics survive a session | `g_call` never dangles; a User-Agent has one call; every end of a call is reported once; a `STOP` ends the session; a session starts clean |
| Signalling: `native/re` `sipsess`, `sip` | sessions with reference counts, client and server transactions | connect, accept, answer, terminate; requests, answers and time limits | loss, repetition and overtaking; CANCEL against answer, BYE against BYE; objects that outlive their owner | sessions are freed when nothing refers to them; both sides agree whether the call is up |
| Registration: `native/re` `sipreg`, `baresip/src/reg.c` | the registration, its request and timer | register, refresh, unregister; challenges, refusals, closing the stack | dropped while its REGISTER is under way | always driven by a request or a timer; takes its binding with it |
| Jitter buffer: `native/re` `jbuf`, `baresip/src/stream.c` | frames, last number played, source | put, get, flush | numbers wrap; packets late, doubled, from another source | plays in the order sent, each packet once |
| Bridges: `wrapper.c`, `telephony_notify.c`, `telephony_kn.c` | the callback pointer | pass commands down and events up | called on the SIP thread | messages arrive in order |
| Android service: `AndroidSipEngine`, `SipService`, `SipThread` | the engine's `isBound`, `receiverRegistered`; the service's `isCallEstablished`, `mTonePlayer`, `mThread` | start, stop, bind, call, hang up; the Handler's messages; `onDestroy` with `join` | three queues (native, Handler, activity manager) and two threads; join on the main thread | the main thread never waits for a running loop; no tone outlives the service; flags agree with the core; `STOP` ends everything |
| Ringback: `TonePlayer`, `SipService` | `mTonePlayer`, `mPlaying` of each player | start, stop; the player's thread | a notification that comes before the wait | a player that was let go ends |
| iOS engine: `IosSipEngine` | `started`, `activeEngine`, `loopPthread` | `start`, `shutdown`, `stopService`, `placeCall`, `hangup`, `onLoopFinished` | plain variables written by two threads; every step of `start` can fail | the flags agree with the thread; a live loop can always be stopped |
| Desktop engine: `DesktopSipEngine` | `process`, `stdin`, `stdoutJob` | call, hang up, stop; a reader coroutine; a delayed kill | three coroutines share three fields; a full event buffer | no baresip process is lost; every hangup is reported |
| Simulated engine: `SimulatedSipEngine` | a job | call, hang up, shut down | cancellation takes effect late | the last operation has its outcome |
| Push inbox: `PushInbox`, `MessagesProfile`, `LetterJson`, `PushSettingsStorage` | settings `common.messages` and `cabinet.<user>`; the `counts` flow | persist, delete, restore, mark read, list, recount | read-modify-write without a lock from three threads; a kill between two stores; JSON by counting braces | letters never change mailbox, are there once, and are not lost |
| Web session: `WebAppSession`, `WebAppAuthStorage` | the stored session and the flow | login, logout, restore | two copies, written in two steps | the copies agree |
| Inbox screen: `PushMessagesInboxScreen` | the remembered list, the snackbar | delete, undo, read | acts on a list that may be old | shows what the user may see |
| Token sender: `PushTokenSender`, launched by `App` | the remembered key; each sender's attempts | send with retries | overlapping senders, lost answers, kills | what is remembered was accepted, and is the current token |
| Web-view bridge: `PushWebViewBridge`, `App` | attempts, continuation | wait for the page's function, set the counter | an answer after the timeout; cancelled runs | the page shows the current number |
| Device kit: `Installation` | the installation id | read or create | kills and threads between reading and writing | one id |
| Blob downloads: `SaveBlobJsHandler`, `BlobFileSaver`, `BlobSaveStoragePermission` | files, the bound screen | save, ask permission, retry | permission dialog, threads, equal names | one answer, and a true one |
| User interface, connectivity screen | none that matters | | layout and stateless checks | |
| The rest of `native/re`, `rem`, `opus`, `baresip` | | | third-party transports and codecs | |

### How they interact

The application calls a `SipEngine`. On Android the engine starts and binds
`SipService`, whose `SipThread` runs `telephony_init`, then `re_main`, then
`tel_done`. The main thread issues commands through `telephony_cmd`, that is
through a pipe that `re_main` polls; events come back through JNI into the
service's `Handler`, and from there by broadcast to the engine. On iOS `start`
runs `telephony_init` itself and creates a pthread for the loop, the events are
called back on that pthread, and `shutdown` joins it. On the desktop each call
is a baresip process, whose output a coroutine reads. Under the core, every
callback of the SIP stack and of a stream runs in `re_main`.

A push reaches `PushInbox.persist` from the Firebase worker, the notification's
intent or the notifier library. The inbox screen calls `deleteLetter`,
`restoreLetter` and `markLetterRead` on the main thread; the page in the web
view logs in and out on the JavaScript bridge's thread. All of them end in
`refreshCounts`, and the screen recomposes on the counts. `App` launches a
token sender at start and for every new token, and a run of the web-view bridge
for every change of the unread count; the page calls back to save files.

## 2. Modules

| Module | Models | Proofs |
|---|---|---|
| `Telephony` | the native core, with libre and baresip as it uses them | `TelephonyProofs` |
| `CallReports` | abstract: what the core promises about the calls it reports | `TelephonyProofs` |
| `AndroidSip` (extends `Telephony`) | engine, service and thread on Android, over the core | `AndroidSipProofs` |
| `IosSip` (extends `Telephony`) | the engine and its pthread on iOS, over the core | `IosSipProofs` |
| `SipSession` | one call between two SIP stacks over a bad network | `SipSessionProofs` |
| `SipReg` | a registration client and a registrar over a bad network | `StackProofs` |
| `JitterBuf` | the fixed jitter buffer of a stream | `StackProofs` |
| `DesktopSip` | the engine that runs a baresip process for each call | `IosSipProofs` |
| `SimulatedSip`, `Ringback` | the engine that only pretends, the ringback players | `AppProofs` |
| `Inbox` | inbox, session and inbox screen, step by step | `InboxProofs` |
| `Mailbox` | abstract: what the inbox promises | `InboxProofs` |
| `PushToken` | the token sender and the server it reports to | `PushTokenProofs` |
| `DeviceId`, `WebViewSync`, `BlobSave` | the installation id, the web-view bridge, saved files | `AppProofs` |
| `MCTelephony`, `MCAndroidSip`, `MCInbox` | finite values for the constants | |
| `MCSip` | `SipSession`, `SipReg`, `JitterBuf` side by side, one to a behaviour | `StackProofs` |
| `MCEngines` | `IosSip`, `DesktopSip` side by side | `IosSipProofs` |
| `MCApp` | the six modules of the application side by side | `AppProofs` |

`MCSip` (`SipSession`, `SipReg`, `JitterBuf`), `MCEngines` (`IosSip`,
`DesktopSip`) and `MCApp` (the other six) put components that share no state into
one run. The variable `part`, fixed by the initial state, names the one that
takes all the steps; the others stay in an initial state. The state space is the
sum of theirs, not the product, and each property of a component is checked of
all its behaviours: with `part` elsewhere its variables never change, and its
fair actions are not enabled in the state they rest in. The other half of that,
that a behaviour of the composition is one of each component, is proved
(`PartsOfSip`, `PartsOfEngines`, `PartsOfApp`).

### Telephony

The SIP thread is the variable `phase`: `off`, `init` (inside `telephony_init`),
`ready`, `loop` (inside `re_main`), `cancelled` (`re_cancel` was called, the round
of callbacks is not over), `freeing` and `closing` (inside `tel_done`), `failed`,
`crashed`. Every command handler and every callback of `re_main` is one atomic
step, because the loop is single-threaded. `telephony_cmd` is not: it loads
`g_messageQueue` (`Command_Load`) and then writes to the pipe of the queue it
loaded (`Command_Write`, `Command_Null`, `Command_Dangling`), and `tel_done` can
run in between. What a write to a freed queue does is undefined: the command is
lost, it reaches the pipe that reused the descriptor, or the process dies.

User-Agents are addresses, so a freed one can come back and `uag.ua_cur`, which
nothing resets, can point to it. Calls are dialogs and never come back. `gCall`
is `g_call`; `inbox` is what `notifyEvent` has handed over. A message also
carries, as `of`, the call it is really about, which `telephony.c` does not pass
on; only properties use it.

`ua.c` frees the User-Agents in `ua_stop_all` after the listener is gone, so the
calls that are live when the session ends end silently (`TelDone_StopAll`).
The loop is left by `STOP`, or because polling fails, on entry (`MainLoop`) or later
(`LoopFails`).

### AndroidSip and IosSip

`AndroidSip` extends `Telephony` and wraps its actions: those of the SIP thread
run where `SipThread.run` has reached, those of the platform where the main
thread is free (`MainIdle`: not inside `telephony_cmd` and not inside `join`).
The `inbox` of the core is the Handler's queue; `THREAD_STARTED` and
`THREAD_FINISHED` go into the same one. `amQueue` holds the callbacks
the activity manager has scheduled. The activity manager is modelled from how the
code uses it: a started or bound service is created, its callbacks are delivered
in order, and it is destroyed when it is neither started nor bound.
`Careful = TRUE` is an application that starts, waits for `InitResult(true)`,
stops once, and starts again when the service is gone; `Careful = FALSE` calls
everything at any time.

In `IosSip` the three unlocked variables are updated where the code updates them,
so the new thread runs, and may even end, before `start` has kept its handle
(`Start_KeepHandle`).
`start` is three steps (flags; `telephony_kn_init`; `pthread_create`), `shutdown`
three (command; join; flags). `Start_EnterOverOld` and its relatives are the core
that a failed `pthread_create` leaves initialised and that the next `start`
initialises again. `Sequential = TRUE` says that `start` and `shutdown` do not
overlap: both are called on the main dispatcher and `start` has no suspension
point in which another call could run between setting `started` and
`pthread_create`, other than emitting its event. With `Sequential = FALSE` a
`shutdown` on another thread in that window finds no queue and no thread, and the
loop then runs unknown to the engine: `LoopIsKnown` fails.

### Inbox

A thread's place is `pc`. Every operation is: read the public mailbox, read the
user's mailbox, change the profile in memory, write the user's mailbox, write the
public one, then the five steps of `refreshCounts` (load the stored session, set
the flow, list public, list private, publish). Each access to the settings or to
a flow is one step. `Kill` may happen between any two and loses everything but
the settings. `Serial = TRUE` runs one operation at a time: iOS, where all
callers are on the main thread. With `FALSE` they interleave freely: Android.

Texts are reduced to what `LetterJson` does with them: `plain`, an unpaired
`closing` or `opening` brace, or a closing `bracket`. `DecodeArray` says what
comes back from a stored array: everything up to the first letter that breaks
it, and that letter cut off if its text closes the object. `BraceAssumption`
leaves out a closing and an opening brace in different letters, which could make
one letter out of two. The time of a letter is its number; a letter that was cut
off has time 0 and is unread, the decoder's defaults.

A tap opens a dialog (`detail`) over the list, with a delete of its own, which acts
on the entry that was tapped however the list has changed since. `counts` has two
writers: `refreshCounts`, and the button "test msg" (`Test`), which sets both
numbers to one drawn at random from `Drawn`, a bound on the code's `0..99`. `fresh`
says that the last writer was `refreshCounts`, in this process.

### SipSession

Both ends of one call are this program's stack, called `caller` and `callee`.
`sess` holds the session objects with the fields `sipsess` decides on (`term`,
`estab`, `peerterm`, the pending request, the unacknowledged reply, the server
transaction) and their reference counts as `mem_deref` counts them. `ct`,
`cancel`, `acked` and `strans` are the INVITE, CANCEL and ACK state of the
transaction layer. `net` is the set of datagrams under way: one that is received
may stay (repetition), any may be taken next (overtaking) or vanish. Each
handler is one action, in which `mem_deref` runs its destructors and `termwait`
takes its references. `prompt = TRUE` is a network in order: nothing is lost, and
no time limit goes off while the answer is still coming; properties that
need a working network say so.

### SipReg

`reg` is the `struct sipreg` with whether `reg` of baresip still owns it, `bound`
what the registrar has stored, `wire` the datagrams. `DropReg` is the destructor,
which revives the object (`mem_ref`) while a request is pending or the binding
must still be removed; `RegOut` is the tail of `response_handler`. `ok` and
`again` choose whether a request, one with credentials among them, can be
sent. Requests carry their sequence number, and the registrar ignores what is
older than what it has answered. `Reg_Stop` is `ua_stop_all(true)`:
`sip_request_close` runs twice, and the property that nothing is left when
the stack is closed needs the second.

### JitterBuf

A packet is its source and its true position, from which the sequence number
follows modulo `2^NumberBits`; the code sees only the number. `first`, chosen at
the start, makes every wrap-around reachable. `Handle` is `rtp_handler`: a new
source flushes the buffer, then `jbuf_put` and one `jbuf_get`. With
`NumberBits = 4` half the circle (8) is more than any two positions are apart,
as 32768 is in the code. `Lag = 3` with `MinFrames = 2` is the least for a packet
to arrive after a later one was played. The last number played is 0 both when
nothing was and when the packet numbered 0 was (`jbuf.c:508`): a late packet is
then played out of order. `PlayedInOrder` excepts exactly that (`Forgotten`);
without the exception TLC finds it at once.

### DesktopSip, SimulatedSip, Ringback

In `DesktopSip` job `n` starts process `n`. `process` and `stdoutJob` are the
engine's fields; `stopProcess` is three steps (cancel the job, destroy the
process, clear the fields), and the caller, each reader and each delayed hangup
may be inside it at once. `flow` is the event buffer: `tryEmit` drops, `emit`
waits. `patient = TRUE` is an application that lets one call end before the
next. `SimulatedSip` has a coroutine for every operation, and a cancelled one
goes on to its next suspension. `Ringback` has the players with `mPlaying` and
the thread of each; the notification of `stopTone` is lost on a player that does
not wait yet, and the five-second limit of the wait makes up for it.

### PushToken, WebViewSync, DeviceId, BlobSave

`PushToken` has the senders, their requests and answers as messages that can be lost or
late, kills, and the server. `stable` says that `deviceId` does not change, which is
what `DeviceId` is about; `calm` that senders do not overlap. `WebViewSync` is the loop
of `syncPushMessagesButton` with the scripts and callbacks between it and the page; a
cancelled run or an expired attempt is never resumed by its callback. A change of the
count and the recomposition that restarts the effect are two steps (`CountChanges`,
`Recompose`), so the page may lag behind the count and a change that is undone in time
is never seen. `DeviceId` has the three implementations (`platform`) with a kill
possible between reading, clearing and storing. `BlobSave` has the permission prompt,
the writing threads and the answers on four systems; files are named by the millisecond.
`obliging` says that MediaStore gives a uri and a stream for it (without either nothing
is written and Success is reported, `Thread_Refused`) and that no callback throws (on
the desktop it runs inside the writer's `runCatching` and is then given Error too,
`Dispatch_Throws`).

## 3. What is checked

| Run | Instance | Properties | Shows |
|---|---|---|---|
| `telephony` | 2 User-Agents, 2 calls, 2 sessions, pipe 2 | `TypeOK`, `GCallIsLive`, `OneCallPerUa`, `SessionIsClean`, `ClosedIsReported`, `ImplementsCallReports`, `StopEnds` | no dangling `g_call`, one call to a User-Agent, nothing left over from a session; a call ends exactly when `CLOSED` is queued; the core implements `CallReports`; a `STOP` in the pipe ends the session |
| `telephony_current_ua` | the same | `CurrentUaIsLive` | violated: finding 1 |
| `android_safety` | 2 User-Agents, 2 calls, 2 sessions, any application | `ATypeOK`, `JoinIsShort`, `ToneNeedsService`, `SessionBrackets`, `ServiceAgrees` | `join` never waits for a running loop; the tone stops with the service; flag and tone agree with the core |
| `android_liveness` | 1 call, 2 sessions, careful application | `StopEndsService` | an accepted `STOP` ends thread and service |
| `engines` | iOS: 2 User-Agents, 1 call, 2 sessions; desktop: 2 calls, 1 hangup, a buffer of 1 | `EngineTypes`, `LoopIsKnown`, `NoInitUnderLoop`, `ShutdownReturns`; `LostCallEnds`, `HangupIsReported` | the iOS flags and thread agree, `telephony_init` never runs under a live loop, the join returns; a baresip process out of the engine's reach ends, and every hangup is answered |
| `sip` | 2 sides; 3 REGISTERs, 3 refusals; 2 sources, 5 packets, 4-bit numbers | `SipTypes`; `FreedIsQuiet`, `NoOrphanCall`, `ReleasedIsFreed`, `RingingEnds`; `RegIsDriven`, `BindingEnds`; `PlayedInOrder` | sessions are freed exactly when nothing refers to them, nobody is left talking to nobody; a registration is driven and takes its binding along; frames play in order |
| `inbox_threads` | 3 letters (one breaks a bracket, one a brace), 2 users, 3 threads, 3 operations | `TypeOK`, `MailboxesSeparate`, `OneOfEach` | whatever the threads do to each other, no letter changes mailbox or is there twice |
| `inbox_serial` | 3 letters, 2 users, 5 operations, one at a time | `CountsAgree`, `ImplementsMailbox` | the inbox implements `Mailbox`, with a kill at any step; counts are right when nothing runs and the test button was not the last to set them |
| `inbox_shown` | as `inbox_serial`, the test button drawing 99 only | `ShownToOwner` | violated: finding 2 |
| `inbox_text` | 3 letters, one breaks a brace | `DescriptionIsText` | violated: finding 3 |
| `app` | 2 tokens, 2 senders, 2 attempts; 2 runs of 2 attempts; 2 callers; 2 files; 3 simulated operations; 3 players | `AppTypes`; `RememberedWasAccepted`, `CurrentTokenIsKnown`; `ButtonIsCurrent`; `IdIsStable`; `AnswerIsTrue`; `LastWordIsHeard`; `ForgottenPlayerEnds` | the application's own protocols keep what they promise, each under the conditions its comment names |
| `webview_sync` | 1 run, 2 attempts | `SyncReturns` | violated: finding 4 |

Every property of a passing run has a mutant in `PROJECT.json`: an operator, kept
beside the one it replaces and marked `Mutant`, that makes a plausible mistake
and violates the property.

**Bounds, and why they are enough.** Two calls are the least that make "the call"
ambiguous, which is where `g_call`, `ua_call` and the service's flag can go wrong. Two
sessions are the least for something to be left over. `MaxPipe = 2` puts a command
behind a `STOP`. `MaxInbox` lets the platform lag behind; with so many messages waiting
the network sends nothing and no command is issued, which removes no order of the steps
that do happen, since the buffers in the code are never full at such sizes. `MaxAm`
bounds the scheduled service callbacks. Three threads and three inbox operations put one
operation of each thread in flight at once; five in sequence are enough for receive,
delete, receive again, undo, and a login between. Of the test button's numbers two are
enough, one the counts can have and one they need not; in `inbox_shown` it draws a
number they never have, so that finding 2 does not lean on it. The iOS engine's
properties are about its thread and its flags, for which one call is enough. Two
datagrams of a kind are one element of `net`: a message that stays after it was received
stands for any number of copies. Three REGISTERs are the first, its repetition with
credentials, and the one that removes the binding; `LoopLimit` (16 in the code) is
reached. Two senders, two runs, two callers and two files are the least that meet, two
attempts the least for a retry, three simulated operations let one be overtaken twice,
three players let the field be reused. The event buffers (32) are cut down to one event
so that they fill up. User-Agents and calls are interchangeable, and symmetry is used
only in a run of invariants.

`CHECK_DEADLOCK FALSE` stands where the system really stops: a crashed process,
the last session over, all calls of the bound made, an application that calls
nothing. The `inbox` runs do not need it: the process can be killed at any time.

**Fairness.** The operating system schedules the threads, so each is weakly
fair in the steps it takes by itself. The pipe is polled level-triggered, so a
command in it is handled (`WF` of `HandleCommand`), whatever other descriptors
are ready. Android's looper serves its messages in order, so the first one is
served although the application's calls occupy the same thread again and again:
strong fairness of the service's and the Handler's steps. A timer of libre goes
off however often a retransmission or an answer sets it off for a while (`SF` of
the time limits of `SipSession`). Of the network nothing is assumed, except where
`prompt` or `obliging` says that it is in order; of the application, the
registrar and baresip nothing else: no call ends, no command, session or line of
output is promised. The desktop's delayed hangup is strongly fair because its
`emit` waits for room that other events may take; the application collects its
events.

**Refinements.** `CallReports` has a stage for each call and a log of messages:
a message about a call is sent while it exists, it rings only before it is
established, its end is reported once, or not at all when the core shuts down.
`Telephony` maps `state` to the stage and `inbox`, reduced to event and call, to
the log. `Mailbox` has a set of letters
for each mailbox and the requests under way, each of which may change its own
letter in its own mailbox, in one step. `Inbox` maps the stored letters with their
unread flag, and the operations before their recount. An operation rewrites two
whole mailboxes from memory, so losing, reviving or moving any other letter would
be a step `Mailbox` does not have.
`ImplementsMailbox` holds for serial operations and readable texts only; on
Android two concurrent operations on one mailbox overwrite each other, which is
listed as a hazard, and `LetterJson`'s loss of letters is finding 3.

**What the conditions in the properties leave out** is what the code does not
hold, and each was seen in TLC: with two calls at once the desktop engine's
fields of one are overwritten by the other's `stopProcess` (`patient`); two token
senders at once, or a request that outlives its attempt, can leave an older token
at the server (`calm`); two threads of the JVM or of iOS may be given different
ids, and on Android a kill between creating and writing the file leaves the empty
id for good (`IdIsStable`); two files saved in one millisecond take each other's
place, a MediaStore that gives no uri or no stream is reported as success, and a
callback of the desktop that throws is called again (`AnswerIsTrue`); the counts are
anything after the test button, until they are refreshed (`CountsAgree`); a
callee whose stack is closed between its answer and the ACK leaves its caller
connected (`NoOrphanCall`); `max_calls = 1` counts for incoming calls only, so two
`AUDIO_CALL` commands give two calls, of which `HANGUP` reaches one.

## 4. What is proved

`TelephonyProofs` (all constants: any sets of User-Agents and calls with finitely
many calls, any number of sessions, any bounds):

- `TypeCorrect`: `Spec => []TypeOK`.
- `GCallNeverDangles`, `NoTwoCallsOnOneUa`, `SessionsStartClean`: the safety
  invariants of the run `telephony`; `NoTwoIncomingCalls`: at most one waits.
- `CoreImplementsCallReports`: `Spec => ImplementsCallReports`, the refinement.
- `EndsReported`: `Spec => ClosedIsReported`.

None of these invariants is inductive alone. `Safety` with the types is: it takes of
`SessionIsClean` that nothing is left outside the loop (`NothingLeft`); the other part,
that the queue exists exactly while the loop can read it (`QueueKnown`), has an
induction of its own. They are stated of the core's variables without the platform's
queue of messages (`CoreTyped`), so that the proofs about Android and iOS, where that
queue holds more or `telephony_init` runs once more, can use them. That a call which
closes cannot leave `g_call` behind needs that `g_call` is reset on any `CLOSED`
(`FreeCallSafe`). `g_call`'s owner is allocated because User-Agents are freed only in
`tel_done`, after `g_call` was reset (`LifecycleSafe`). One call to a User-Agent needs
that an incoming call is accepted only when no call at all is live (`IncomingAlone`,
which is what `max_calls = 1` and the count over all User-Agents amount to; this uses
`FiniteAssumption`), and that an outgoing call gets a User-Agent that was not in the
list, whose list is therefore empty. The step simulation maps every step to one action
of `CallReports` or to a stutter (`ReportStep`). What a callback does to its call and
what it hands over is said first (`CallbackStep`), without the log, and then read as a
step of `CallReports` (`CallbackReports`): the code reports before it frees, so that a
`CLOSED` and the end of its call are one `End`. It uses `Safety` for `HANGUP`, whose
call must be a live one. `EndsReported` is read off the simulation: of the actions of
`CallReports` only `Refuse` and `End` end a call, and both say so. The assumptions are
those of `Telephony`: the NULL pointers are no objects, finitely many calls, codes are
naturals, bounds are positive.

`InboxProofs` (any finite set of letters, any users, threads and operations, any
texts that `TextAssumption` allows, `Serial` or not):

- `InboxTypeCorrect`: `Spec => []TypeOK`, which includes that the counts are
  never negative.
- `MailboxesNeverMix`: `Spec => []MailboxesSeparate`.
- `NoLetterTwice`: `Spec => []OneOfEach`.
- `CountsRight`: `Spec => []CountsAgree`, under `Serial`, for counts that were last
  set by `refreshCounts`.
- `InboxIsMailbox`: `Spec => ImplementsMailbox`, under `Serial` and texts without
  unpaired brackets (`Plain`); the runs show that neither can be dropped.

`MailboxesSeparate` says nothing of what a thread is about to store, so the
inductive invariant `SeparateInv` adds that the profile in each thread's memory
holds public letters and letters of its operation's owner, told apart by
`isPrivate` (`MemInv`); that an operation's letters are addressed to its owner;
that the screen's entries and the one the snackbar can restore are paired with
their mailbox (`ScreenInv`); and that only the four operations on profiles reach
these steps (`ProfileInv`). Reading an array back, broken or not, returns only
letters of that array (`DecodeType`).

`UniqueInv` adds to it that what a thread is about to store has one letter of each
id, too; the case to think about is an array that is read back cut off, where the
cut letter must not meet itself (`DecodeUnique`). `CountInv` says what the one
operation under way holds at each of its steps, so that the counts are those of
the visible letters once it has ended. `MailInv` says that the profile in memory
is what is stored with the operation applied, so that each store is what
`Mailbox` allows for that request.

`SipSessionProofs` (no constants; what the proof adds to the run is an argument):

- `SessTyped`: `Spec => []SessTypeOK`; a reference count is never negative.
- `ReferencesExact`: `Spec => []RefsAreExact`: a session holds one reference
  for its call object, and one for each answer it waits for once it is ending.
- `FreedSessionsQuiet`: `Spec => []FreedIsQuiet`.
- `NobodyOrphaned`: `Spec => []NoOrphanCall`.

The argument of the first three is that reference counting is exact: what each of `termwait`,
`terminate`, `mem_deref` and the destructor does to a session is a lemma, and
every handler is a composition of them. `FreedIsQuiet` follows from the exact
count and from what the destructor leaves.

`NoOrphanCall` needs the same operators once more, for what they send
(`ReleaseSends`, `SessTerminateSends`, `LastDerefSends`: BYE leaves exactly when
an established session ends that its peer has not ended), and an invariant of
both sessions and the wire, `OrphanInv`: what a session of each side can be
(`Roles`); what cannot have happened before the answer, and while the caller
still waits for it (`Before`); who has sent BYE holds the call no longer
(`Gone`); and a side for which the call is up has its peer, or a BYE for it is
under way (`Met`). It is stated for a network in order only, where nothing is
repeated: a late copy of an answer would otherwise bring back a call that both
have left. Steps that change no session share `QuietOrphan`; those that end one
share `CallerEnds` and `CalleeGoesOn`, whose hypotheses say what an ending has to
send. When everything is answered the wire is empty, and `Met` is the property.

`StackProofs` (any limit of requests and of refusals; any sources, positions,
sizes of the jitter buffer and widths of a number that are enough):

- `RegistrationsDriven`: `RegSpec => []RegIsDriven`.
- `PlaysInOrder`: `JbufSpec => PlayedInOrder`, under `EnoughNumbers`.
- `RegTyped`, `FramesTyped` (under `EnoughNumbers`) and with them `SipTyped`:
  `SipSpec => []SipTypes`, over `PartsOfSip`: `SipSpec => Spec /\ RegSpec /\ JbufSpec`.

`RegInv` is inductive: `RegIsDriven`, the type of `reg`, and that answers on the
wire carry known codes (`WireTyped`). Between an answer and what follows from it
a registration is `Resting`, driven by nothing; `OutFacts` shows that every way
out of `response_handler` ends that. `AbortFacts` shows that an aborted
registration without an owner is freed or goes from a non-zero interval to zero,
so the second `sip_request_close` frees it.

`PlayedInOrder` is about positions, while the code compares numbers. `JbufInv` therefore
says, besides the order of the frames and of the last one played, how far behind the
source a frame can be (`Held`): a packet arrives at most `Lag` behind the latest one or
`Lag + 1` ahead of it, so a frame with `k` frames after it is at most `Gap(k)` behind;
and `jbuf_get` takes one out whenever there are more than `MinFrames`. `EnoughNumbers`
asks that these distances stay within half the circle of numbers, or that no position
does not; then comparing two numbers is comparing the positions (`NumbersTell`, on the
arithmetic of `Apart`), and the insertion finds the place of a packet (`InsertKeeps`).
The code has 65536 numbers and a buffer of a few frames, so packets may be late or lost
by thousands; the run, with 16 numbers and positions up to 5, satisfies it too. `Circle
\in Nat` is among the assumptions because the provers cannot derive that a power of two
is a number.

`AndroidSipProofs` (any calls, User-Agents and bounds, any application, careful
or not):

- `JoinNeverWaits`: `ASpec => []JoinIsShort`.
- `SessionsBracketed`: `ASpec => []SessionBrackets`.
- `NoToneWithoutService`: `ASpec => []ToneNeedsService`.
- `ServiceTyped`: `ASpec => []ATypeOK`.
- `ServiceKnowsCall`: `ASpec => []ServiceAgrees`.
- `CoreSafeInService`: `GCallIsLive`, `OneCallPerUa`, `OneIncoming` and
  `SessionIsClean` hold of the core under the service.
- `ServiceImplementsCallReports`: `ASpec => ServiceReports!Spec`.

The first three are proved together, as parts of `ServiceInv`. A service is destroyed only
once it is `Over`: up, its thread dead, every message handled. That holds because
only `THREAD_FINISHED` ends a service's being started (`CallbacksInOrder`), and
it is the last message, sent by a thread that then ends (`SessionBrackets`). So
`create` comes first and `destroy` last among the callbacks, nothing is under way
without a service (`NoServiceIsQuiet`), and a thread reports to an empty queue
(`QuietStart`). Of the core the proof uses only that it appends call events, one
at a time (`CoreInbox`).

`ServiceAgrees` speaks of an empty queue only. `KnowsInv` says what the two flags
*will* be once the messages of the queue are handled (`After`), and that those
future flags agree with the calls of the core while it may still report
(`WillAgree`). A step of the core changes a call and appends its message, which
changes the future flag the same way (`CallbackAgrees`); handling a message leaves
the future as it was (`AfterTake`). It needs that no two calls are live unless
`overlapped` records it (`OneLive`), that a service begins with both flags down
(`Fresh`), and which phases of the core each stage of the thread allows
(`Together`).

Every step of the application is one of `Telephony` or leaves the core alone
(`CoreSteps`), so the core's invariants carry over. The refinement does not carry over:
the Handler's queue also holds `THREAD_STARTED` and `THREAD_FINISHED`.
`ServiceReports` is `CallReports` with what is between them as its log (`CallsIn`).
A callback appends to that log only because the closing bracket is not
in the queue while the loop runs, and taking a message takes the log's first only
because the opening one is in front: this is what `SessionBrackets` is needed for.

`IosSipProofs` (any calls, User-Agents, bounds, sizes of the desktop's buffer):

- `LoopNeverLost`: `Sequential /\ ISpec => []LoopIsKnown`.
- `NeverInitUnderLoop`: `Sequential /\ ISpec => NoInitUnderLoop`.
- `CoreIsSafe`: `GCallIsLive`, `OneCallPerUa` and `OneIncoming` hold of the core
  under the engine.
- `EngineImplementsCallReports`: `ISpec => ImplementsCallReports`.
- `IosTyped`, `DesktopTyped` and with them `EnginesTyped`:
  `EnginesSpec => []EngineTypes`, over `PartsOfEngines`.
- `ProcessesRead`: `DeskSpec => [](ProcessIsRead /\ (patient => at most one alive))`.
- `HangupsKept`: `DeskSpec => []HangupIsKept`.

The first two are under `Sequential`, as in the run: an application whose `start`
and `shutdown` do not overlap. `EngineInv` adds to `LoopIsKnown` that they exclude
each other and that `start` runs without a loop until it has made one
(`OneAtATime`). The others need no
such thing. The steps of `IosSip` are those of the core and the initialisations
over an old core (`OverOld`), which touch no call and report nothing
(`OverOldKeeps`). `DeskInv` adds to the desktop's types that a call about to be
launched has a number left. `ProcessesRead` and `HangupsKept` are the safety that
`LostCallEnds` and `HangupIsReported` rest on: a process that runs still has its
coroutine (`Reads` is what that one may do), and the report of a hangup that is over
is in the event buffer or has been collected (`FlowKeeps`).

`PushTokenProofs` (any number of tokens, senders, attempts and devices):

- `NothingRememberedUnsent`: `TokenSpec => []RememberedWasAccepted`.
- `CurrentTokenKnown`: `TokenSpec => []CurrentTokenIsKnown`.
- `TokenTyped`: `TokenSpec => []TokenTypeOK`.

`AcceptedInv` follows a key from the sender through its request and the answer
back to the sender: a sender past its check, and its request, carry the key of
the sender's own token (`KeysAgree`), a success anywhere is about a key the
server has accepted (`SuccessIsTrue`), and nothing is under way for a sender that
was not launched (`Launched`).

`CurrentInv` adds, for a stable id and a `calm` application, that at most one
sender is active and sends the current token (`OneActive`), that only the attempt
it waits for has anything under way, one request or one answer (`OnlyOwn`), and
that a success, on its way or received, is about the record the server still has
(`SuccessIsCurrent`). So nothing is under way when the token changes.

`TokenTypeOK` has a limit in it, `MaxAttempts`, which the code tests only after a
failed attempt. `TokenInv` adds that a sender on its way to an attempt has one
left, that one not past its check has made none, and that it sends a token there is.

`AppProofs` (any number of callers, runs, attempts, files, pages and kills):

- `OneInstallationId`: `IdSpec => []IdIsStable`.
- `ButtonShowsUnread`: `SyncSpec => []ButtonIsCurrent`.
- `AnswersAreTrue`: `SaveSpec => []AnswerIsTrue`.
- `IdTyped`, `SyncTyped`, `SaveTyped`, `SimTyped`, `RingTyped` and with them and
  `TokenTyped` `AppTyped`: `AppSpec => []AppTypes`, over `PartsOfApp`.
- `ReportsKept`: `SimInit /\ [][SimNext]_simVars => []ReportIsKept`.
- `FieldPlays`: `RingInit /\ [][RingNext]_ringVars => []OnlyFieldPlays`.

`IdIsStable` counts what was given; it is inductive together with where the
given id is: on the disk, readable, and with no caller on the way to another
(`GivenIsStored`), which needs that at most one is (`Alone`).

`ButtonIsCurrent` holds because the page runs its scripts in order and the latest
run's come last (`ScriptsInOrder`): once the page has run one of them, none of an
earlier run is left to overwrite the button (`HeardIsShown`), and every script of
the latest run carries the number that run was given (`LatestCount`).

`AnswerIsTrue` rests on where a file can be lost: whatever is stored was stored by
a call that has its outcome (`Occupied`), nobody is told of an outcome that is not
there (`AnsweredLast`), so the search for a free number, which
ends because there are more numbers than files (`FreeNrFound`), takes the place of
no other file; where nothing is searched the two calls share name and number
(`OkIsStored`). A callback that throws turns the outcome into an error after the page
may have been told "ok", so `OkIsStored` speaks of both.

`ReportsKept` and `FieldPlays` are the safety that `LastWordIsHeard` and
`ForgottenPlayerEnds` rest on: an operation that is over and not cancelled has its
outcome in the flow or heard (`WaitsOn`), because only a call establishes and only a
hangup closes (`RightWay`); and no player but the one in the field has `mPlaying` set.

Every safety property of the passing runs, type invariants, action properties
and refinements included, is proved. Model-checked only are the liveness
properties, which are out of the prover's reach: `StopEnds`, `StopEndsService`,
`ShutdownReturns`, `LostCallEnds`, `HangupIsReported`, `ReleasedIsFreed`,
`RingingEnds`, `BindingEnds`, `LastWordIsHeard`, `ForgottenPlayerEnds`; and that the
code violates the four properties of section 5, which a counterexample shows.

## 5. Findings

1. `uag_current` promises the current User-Agent or NULL; it returns one that has
   been freed, once a call has failed to start and another User-Agent is in the
   list, or in the next session.
2. The inbox screen remembers its list by the counts. After a change of user with
   equal counts it goes on showing the former user's private letters, which
   `listInboxEntries` says only their user sees.
3. `LetterJson` counts braces inside quoted texts: a letter with an unpaired
   closing brace is read back cut off, and stored so.
4. `syncPushMessagesButton` is documented to return whether the call got through.
   A script that is not answered within two seconds leaves it waiting for ever:
   `suspendCoroutine` is not cancellable, and the late callback no longer finds an
   active job to resume.

## 6. Not modelled

The user interface around third-party web-view and notifier libraries,
notifications, the connectivity screen, device information and the configuration
writers keep no state that more than one actor touches. Of the vendored
libraries, which are most of the repository's lines, only what the application's
calls depend on is modelled: codecs (`opus`), audio filters (`rem`), the audio path, SDP,
STUN and ICE, TLS, DNS and transports are third-party computation or I/O, with
their failures taken as arbitrary; call transfer, hold, DTMF, redirection and the adaptive
jitter buffer are not used by this application. `pendingDialog`,
`pendingOpenInbox` and the list of known users, which nothing reads, are left
out of `Inbox`; so are the JSON text itself and generated ids. Handler messages
carry no text. `BlobDownloadScript` is script of the page. `start` of the
simulated engine only reports.

## 7. Plan

Done in this order: `Telephony` with `CallReports` and its proofs; `AndroidSip`
and `IosSip` over it; `Inbox` with `Mailbox` and its proofs; `DesktopSip`,
`SimulatedSip`, `Ringback`; `PushToken`, `WebViewSync`, `DeviceId`, `BlobSave`;
`SipSession` and its proofs; `SipReg` and its proof; `JitterBuf`; the proofs about
`AndroidSip`, `IosSip`, `PushToken` and `DeviceId`; then the refinements
(`CallReports` by the core, the iOS engine and the Android service, `Mailbox` by the
inbox), `NoOrphanCall`, `ServiceAgrees`, `CurrentTokenIsKnown`, `ButtonIsCurrent`,
`AnswerIsTrue`, `PlayedInOrder`, and the types of every composition. Left:

1. One abstract specification of the events a `SipEngine` emits, implemented by
   all four engines.
2. `Inbox` with generated ids, which collide within a millisecond; `LetterJson`
   on short strings over a small alphabet against a reference reading.
3. Hold and resume, which would add re-INVITEs crossing each other to
   `SipSession`.
4. Proofs: the safety that the liveness of the core, the service, the sessions and
   the registrations rests on, as it was done for the desktop engine, the simulated
   engine and the ringback players: that a `STOP` in the pipe stays there until it is
   handled, that a session that is ending always has a timer or a transaction left.
