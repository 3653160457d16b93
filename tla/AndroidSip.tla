------------------------------ MODULE AndroidSip ------------------------------
(***************************************************************************)
(* The Android side of SIP: AndroidSipEngine, SipService and SipThread on   *)
(* top of the native core (Telephony).                                      *)
(*                                                                          *)
(* The main thread runs everything the application, the service and the     *)
(* activity manager do: the engine's methods, onCreate, onStartCommand,     *)
(* onServiceConnected, onDestroy and handleMessage, one at a time.  The SIP *)
(* thread runs SipThread.run.  They meet in the native queue, in the        *)
(* Handler's message queue (the inbox of Telephony, to which SipThread adds *)
(* its own two messages), and in mThread.join.                              *)
(*                                                                          *)
(* The activity manager and the looper are modelled from how this code uses *)
(* them: a started or bound service is created; its callbacks are delivered *)
(* in order on the main thread; it is destroyed once it is neither.         *)
(***************************************************************************)
EXTENDS Telephony

CONSTANTS
    MaxAm,        \* bound: service callbacks the activity manager has queued
    Careful       \* the application stops the service only after InitResult,
                  \* once, and starts it again only when it is gone

ASSUME AndroidAssumption == MaxAm \in Nat \ {0} /\ Careful \in BOOLEAN

VARIABLES
    thread,       \* where SipThread.run is, or "none"
    svc,          \* the SipService object: "none", "up", or "joining" in onDestroy
    tone,         \* mTonePlayer # null
    callUp,       \* isCallEstablished
    receiver,     \* receiverRegistered of the engine
    bound,        \* isBound of the engine (sipService is set with it)
    amAlive,      \* the activity manager keeps the service
    amStarted,    \* ... because it was started
    amBound,      \* ... because the engine's connection is bound to it
    amQueue,      \* service callbacks on their way to the main thread
    ready,        \* the application has been told InitResult(true), and has
                  \* not asked for a stop since
    overlapped    \* two calls have been live at once in this session (history)

svcVars == <<svc, tone, callUp>>
engineVars == <<receiver, bound, ready>>
amVars == <<amAlive, amStarted, amBound, amQueue>>
androidVars == <<thread, svcVars, engineVars, amVars, overlapped>>
allVars == <<vars, androidVars>>

-----------------------------------------------------------------------------
ThreadState == {"none", "begin", "init", "report", "main", "finish", "dead"}
Callback == {"create", "start", "stop", "connect", "destroy"}
ThreadMessage == [ev : {"THREAD_STARTED", "THREAD_FINISHED"}, id : {NoCall},
                  code : {0, 1}, of : {NoCall}]

ThreadNote(ev, code) == [ev |-> ev, id |-> NoCall, code |-> code, of |-> NoCall]

\* The main thread is free: not inside telephony_cmd, not inside join.
MainIdle == pushCmd = "none" /\ svc # "joining" /\ phase # "crashed"

AInit ==
    /\ Init
    /\ thread = "none"
    /\ svc = "none" /\ tone = FALSE /\ callUp = FALSE
    /\ receiver = FALSE /\ bound = FALSE /\ ready = FALSE
    /\ amAlive = FALSE /\ amStarted = FALSE /\ amBound = FALSE
    /\ amQueue = <<>>
    /\ overlapped = FALSE

-----------------------------------------------------------------------------
(* SipThread.run.                                                            *)
Overlap == overlapped' = (overlapped \/ Cardinality(Live') > 1)

Thread_EnterInit ==
    /\ thread = "begin" /\ thread' = "init"
    /\ EnterInit
    /\ overlapped' = FALSE
    /\ UNCHANGED <<svcVars, engineVars, amVars>>

Thread_InitReturns ==
    /\ thread = "init" /\ thread' = "report"
    /\ InitDone \/ InitFails
    /\ UNCHANGED <<svcVars, engineVars, amVars, overlapped>>

\* Mutant: the error number is sent instead of the boolean.
Thread_ReportErrno ==
    /\ thread = "report"
    /\ inbox' = Append(inbox, ThreadNote("THREAD_STARTED",
                                         IF phase = "ready" THEN 0 ELSE 22))
    /\ thread' = IF phase = "ready" THEN "main" ELSE "finish"
    /\ UNCHANGED <<phase, session, mq, pipe, pushVars, loopVars, svcVars,
                   engineVars, amVars, overlapped>>

\* THREAD_STARTED carries the result of telephony_init.
Thread_Report ==
    /\ thread = "report"
    /\ inbox' = Append(inbox, ThreadNote("THREAD_STARTED",
                                         IF phase = "ready" THEN 1 ELSE 0))
    /\ thread' = IF phase = "ready" THEN "main" ELSE "finish"
    /\ UNCHANGED <<phase, session, mq, pipe, pushVars, loopVars, svcVars,
                   engineVars, amVars, overlapped>>

\* telephony_mainLoop: re_main with its callbacks, then tel_done.
Thread_MainLoop ==
    /\ thread = "main"
    /\ \/ (MainLoop \/ LoopFails \/ HandleCommand \/ Network
           \/ TelDone_FreeQueue \/ TelDone_ResetQueue)
          /\ UNCHANGED thread
       \/ TelDone_StopAll /\ thread' = "finish"
    /\ Overlap
    /\ UNCHANGED <<svcVars, engineVars, amVars>>

\* Mutant: THREAD_FINISHED is sent when the loop is cancelled, before tel_done.
Thread_FinishEarly ==
    /\ \/ /\ thread = "finish" /\ thread' = "dead"
          /\ UNCHANGED inbox
       \/ /\ thread = "main" /\ phase = "cancelled" /\ UNCHANGED thread
          /\ \A i \in 1..Len(inbox) : inbox[i].ev # "THREAD_FINISHED"
          /\ inbox' = Append(inbox, ThreadNote("THREAD_FINISHED", 0))
    /\ UNCHANGED <<phase, session, mq, pipe, pushVars, loopVars, svcVars,
                   engineVars, amVars, overlapped>>

Thread_Finish ==
    /\ thread = "finish" /\ thread' = "dead"
    /\ inbox' = Append(inbox, ThreadNote("THREAD_FINISHED", 0))
    /\ UNCHANGED <<phase, session, mq, pipe, pushVars, loopVars, svcVars,
                   engineVars, amVars, overlapped>>

-----------------------------------------------------------------------------
(* The activity manager, as the engine and the service call it.              *)
AmStart(callback) ==
    /\ amAlive' = TRUE
    /\ amStarted' = TRUE
    /\ amQueue' = amQueue \o (IF amAlive THEN <<>> ELSE <<"create">>)
                          \o <<callback>>

AmDestroyIfUnused(queue) ==
    IF amAlive /\ ~amStarted' /\ ~amBound'
    THEN amAlive' = FALSE /\ amQueue' = Append(queue, "destroy")
    ELSE UNCHANGED amAlive /\ amQueue' = queue

CanCreate == amAlive \/ (svc = "none" /\ session < MaxSession)
AmRoom == Len(amQueue) < MaxAm

-----------------------------------------------------------------------------
(* AndroidSipEngine, called by the application on the main thread.           *)
Engine_Start ==
    /\ MainIdle /\ AmRoom /\ CanCreate
    /\ Careful => svc = "none" /\ ~amAlive
    /\ amAlive' = TRUE /\ amStarted' = TRUE /\ amBound' = TRUE
    /\ amQueue' = amQueue \o (IF amAlive THEN <<>> ELSE <<"create">>)
                          \o <<"start">>
                          \o (IF amBound THEN <<>> ELSE <<"connect">>)
    /\ receiver' = TRUE
    /\ ready' = FALSE
    /\ UNCHANGED <<vars, thread, svcVars, bound, overlapped>>

\* unbindService only if the connection has been made already.
Engine_Shutdown ==
    /\ MainIdle
    /\ receiver' = FALSE
    /\ bound' = FALSE
    /\ amBound' = IF bound THEN FALSE ELSE amBound
    /\ UNCHANGED amStarted
    /\ AmDestroyIfUnused(amQueue)
    /\ UNCHANGED <<vars, thread, svcVars, ready, overlapped>>

Engine_PlaceCall ==
    /\ MainIdle
    /\ bound
    /\ Command_Load("AUDIO_CALL")
    /\ UNCHANGED androidVars

Engine_Hangup ==
    /\ MainIdle
    /\ bound
    /\ tone' = FALSE
    /\ Command_Load("HANGUP")
    /\ UNCHANGED <<thread, svc, callUp, engineVars, amVars, overlapped>>

Engine_StopService ==
    /\ MainIdle /\ AmRoom /\ CanCreate
    /\ Careful => ready
    /\ AmStart("stop")
    /\ ready' = FALSE
    /\ UNCHANGED <<vars, thread, svcVars, receiver, bound, amBound, overlapped>>

-----------------------------------------------------------------------------
(* SipService, called by the activity manager on the main thread.            *)
Deliver(callback) ==
    /\ MainIdle
    /\ amQueue # <<>>
    /\ Head(amQueue) = callback
    /\ amQueue' = Tail(amQueue)
    /\ UNCHANGED <<amAlive, amStarted, amBound>>

Service_OnCreate ==
    /\ Deliver("create")
    /\ svc' = "up" /\ tone' = FALSE /\ callUp' = FALSE
    /\ thread' = "begin"
    /\ UNCHANGED <<vars, engineVars, overlapped>>

\* onStartCommand without CMD_STOP does nothing.
Service_OnStart ==
    /\ Deliver("start")
    /\ UNCHANGED <<vars, thread, svcVars, engineVars, overlapped>>

Service_OnStop ==
    /\ Deliver("stop")
    /\ tone' = FALSE
    /\ Command_Load("STOP")
    /\ UNCHANGED <<thread, svc, callUp, engineVars, overlapped>>

\* onServiceConnected; not delivered once the connection has been unbound.
Service_OnConnected ==
    /\ Deliver("connect")
    /\ bound' = amBound
    /\ UNCHANGED <<vars, thread, svcVars, receiver, ready, overlapped>>

\* Mutant: the ringback player is not stopped.
Service_OnDestroyKeepsTone ==
    /\ Deliver("destroy")
    /\ svc' = "joining"
    /\ UNCHANGED <<vars, thread, tone, callUp, engineVars, overlapped>>

Service_OnDestroy ==
    /\ Deliver("destroy")
    /\ svc' = "joining" /\ tone' = FALSE
    /\ UNCHANGED <<vars, thread, callUp, engineVars, overlapped>>

Service_Joined ==
    /\ svc = "joining"
    /\ thread = "dead"
    /\ svc' = "none" /\ thread' = "none"
    /\ UNCHANGED <<vars, tone, callUp, engineVars, amVars, overlapped>>

-----------------------------------------------------------------------------
(* handleMessage, and eventReceiver of the engine for the broadcast it ends  *)
(* with (delivered on the main thread, where only "ready" remembers it).     *)
TakeMessage(ev) ==
    /\ MainIdle
    /\ inbox # <<>>
    /\ Head(inbox).ev = ev
    /\ Take

\* Mutant: a failed start stops the service without waiting for the thread.
Handle_StartedStopsSelf ==
    /\ TakeMessage("THREAD_STARTED")
    /\ ready' = (ready \/ (receiver /\ Head(inbox).code = 1))
    /\ amStarted' = (amStarted /\ Head(inbox).code = 1)
    /\ UNCHANGED amBound
    /\ AmDestroyIfUnused(amQueue)
    /\ UNCHANGED <<thread, svcVars, receiver, bound, overlapped>>

Handle_Started ==
    /\ TakeMessage("THREAD_STARTED")
    /\ ready' = (ready \/ (receiver /\ Head(inbox).code = 1))
    /\ UNCHANGED <<thread, svcVars, receiver, bound, amVars, overlapped>>

\* Mutant: no stopSelf.
Handle_FinishedKeepsService ==
    /\ TakeMessage("THREAD_FINISHED")
    /\ UNCHANGED <<thread, svcVars, engineVars, amVars, overlapped>>

\* stopSelf
Handle_Finished ==
    /\ TakeMessage("THREAD_FINISHED")
    /\ amStarted' = FALSE
    /\ UNCHANGED amBound
    /\ AmDestroyIfUnused(amQueue)
    /\ UNCHANGED <<thread, svcVars, engineVars, overlapped>>

\* The engine reports it as InitResult(isCallEstablished).
Handle_RegisterFail ==
    /\ TakeMessage("REGISTER_FAIL")
    /\ ready' = (ready \/ (receiver /\ callUp))
    /\ UNCHANGED <<thread, svcVars, receiver, bound, amVars, overlapped>>

Handle_Ringing ==
    /\ TakeMessage("RINGING")
    /\ tone' = TRUE
    /\ UNCHANGED <<thread, svc, callUp, engineVars, amVars, overlapped>>

Handle_Established ==
    /\ TakeMessage("ESTABLISHED")
    /\ tone' = FALSE
    /\ callUp' = TRUE
    /\ UNCHANGED <<thread, svc, engineVars, amVars, overlapped>>

\* Mutant: isCallEstablished is not reset.
Handle_ClosedKeepsFlag ==
    /\ TakeMessage("CLOSED")
    /\ tone' = FALSE
    /\ UNCHANGED <<thread, svc, callUp, engineVars, amVars, overlapped>>

Handle_Closed ==
    /\ TakeMessage("CLOSED")
    /\ tone' = FALSE
    /\ callUp' = FALSE
    /\ UNCHANGED <<thread, svc, engineVars, amVars, overlapped>>

\* The rest of telephony_cmd, on the main thread.
Main_FinishPush == FinishPush /\ UNCHANGED androidVars

-----------------------------------------------------------------------------
ThreadNext == \/ Thread_EnterInit \/ Thread_InitReturns \/ Thread_Report
              \/ Thread_MainLoop \/ Thread_Finish

EngineNext == \/ Engine_Start \/ Engine_Shutdown \/ Engine_PlaceCall
              \/ Engine_Hangup \/ Engine_StopService

ServiceNext == \/ Service_OnCreate \/ Service_OnStart \/ Service_OnStop
               \/ Service_OnConnected \/ Service_OnDestroy \/ Service_Joined

HandlerNext == \/ Handle_Started \/ Handle_Finished \/ Handle_RegisterFail
               \/ Handle_Ringing \/ Handle_Established \/ Handle_Closed

ANext == ThreadNext \/ EngineNext \/ ServiceNext \/ HandlerNext \/ Main_FinishPush

(* Both threads are scheduled.  The looper serves its messages in order, so  *)
(* one that waits is handled however often the application calls the engine  *)
(* in between: strong fairness, since those calls occupy the main thread.    *)
(* The network and the application promise nothing.                          *)
AFairness ==
    /\ WF_allVars(Thread_EnterInit) /\ WF_allVars(Thread_InitReturns)
    /\ WF_allVars(Thread_Report) /\ WF_allVars(Thread_Finish)
    /\ WF_allVars(Thread_MainLoop /\ MainLoop)
    /\ WF_allVars(Thread_MainLoop /\ HandleCommand)
    /\ WF_allVars(Thread_MainLoop /\ (TelDone_FreeQueue \/ TelDone_ResetQueue
                                      \/ TelDone_StopAll))
    /\ SF_allVars(ServiceNext)
    /\ SF_allVars(HandlerNext)
    /\ WF_allVars(Main_FinishPush)

ASpec == AInit /\ [][ANext]_allVars /\ AFairness

-----------------------------------------------------------------------------
ATypeOK ==
    /\ thread \in ThreadState
    /\ svc \in {"none", "up", "joining"}
    /\ {tone, callUp, receiver, bound, ready, overlapped} \subseteq BOOLEAN
    /\ {amAlive, amStarted, amBound} \subseteq BOOLEAN
    /\ amQueue \in Seq(Callback)
    /\ inbox \in Seq(Message \cup ThreadMessage)

(* onDestroy blocks the main thread in mThread.join only for a thread that   *)
(* has sent its last message: the service is stopped by THREAD_FINISHED and  *)
(* by nothing else.                                                          *)
JoinIsShort == svc = "joining" => thread = "dead"

(* No ringback tone outlives the service: no RINGING message is still queued *)
(* for its Handler when onDestroy has stopped the player.                    *)
ToneNeedsService == tone => svc = "up"

(* THREAD_STARTED is the first message of a session and THREAD_FINISHED the  *)
(* last, so the service never handles a call event of a core that is not up. *)
SessionBrackets ==
    \A i \in 1..Len(inbox) :
       /\ inbox[i].ev = "THREAD_STARTED" => i = 1
       /\ inbox[i].ev = "THREAD_FINISHED" => i = Len(inbox) /\ thread = "dead"

(* Once every message is handled, the service's idea of the call agrees with *)
(* the core's: it thinks a call is up if one is, and the ringback tone is on  *)
(* only while one rings, as long as no two calls have overlapped.             *)
Settled == inbox = <<>> /\ Dispatching /\ ~overlapped

ServiceAgrees ==
    Settled => /\ callUp <=> \E c \in Call : state[c] = "established"
               /\ tone => \E c \in Call : state[c] = "ringing"

(* A STOP that the native queue accepted ends the thread and then the        *)
(* service, unless the engine stays bound to it: for an application that     *)
(* starts, waits for InitResult, and stops once.                             *)
StopEndsService ==
    (mq = "live" /\ \E i \in 1..Len(pipe) : pipe[i] = "STOP")
        ~> (svc = "none" \/ (thread = "dead" /\ amBound) \/ phase = "crashed")

=============================================================================
