-------------------------------- MODULE IosSip --------------------------------
(***************************************************************************)
(* The iOS side of SIP: IosSipEngine on top of the native core (Telephony). *)
(*                                                                          *)
(* There is no service and no message queue here: start() runs              *)
(* telephony_init on the caller's thread and then creates a pthread for the *)
(* loop; the native callbacks call the engine on that pthread; shutdown()   *)
(* sends STOP and joins it.  "started", "loopPthread" and "activeEngine"    *)
(* are plain variables written by both sides without a lock.                *)
(*                                                                          *)
(* start() is a suspend function: a coroutine of its own, which another     *)
(* thread's shutdown() can overlap.  The inbox of Telephony stands for the  *)
(* buffer of the engine's SharedFlow.                                       *)
(***************************************************************************)
EXTENDS Telephony

CONSTANT Sequential   \* the application never lets start and shutdown overlap
ASSUME SequentialAssumption == Sequential \in BOOLEAN

VARIABLES
    startPc,      \* where start() is: "idle", "init", "create" or "keep"
    stopPc,       \* where shutdown() is: "idle", "stop" or "join"
    pthread,      \* the loop's thread: "none", "loop", "finish" or "dead"
    loopPthread,  \* loopPthread is the handle of this thread
    started,
    active        \* activeEngine # null

iosVars == <<startPc, stopPc, pthread, loopPthread, started, active>>
allVars == <<vars, iosVars>>

IInit ==
    /\ Init
    /\ startPc = "idle" /\ stopPc = "idle"
    /\ pthread = "none" /\ loopPthread = FALSE
    /\ started = FALSE /\ active = FALSE

Calling == pushCmd = "none" /\ phase # "crashed"

-----------------------------------------------------------------------------
(* start(): the flags first, then telephony_kn_init, then pthread_create.    *)
\* Mutant: started is not tested.
Start_BeginAgain ==
    /\ startPc = "idle" /\ Calling
    /\ Sequential => stopPc = "idle"
    /\ session < MaxSession
    /\ started' = TRUE /\ active' = TRUE
    /\ startPc' = "init"
    /\ UNCHANGED <<vars, stopPc, pthread, loopPthread>>

Start_Begin ==
    /\ startPc = "idle" /\ Calling
    /\ Sequential => stopPc = "idle"
    /\ session < MaxSession
    /\ ~started
    /\ started' = TRUE /\ active' = TRUE
    /\ startPc' = "init"
    /\ UNCHANGED <<vars, stopPc, pthread, loopPthread>>

Start_EnterInit ==
    /\ startPc = "init"
    /\ EnterInit
    /\ UNCHANGED iosVars

(* A core left behind by Start_CreateFails is initialised over: the old queue *)
(* stays in g_messageQueue until mqueue_alloc, and its descriptor in the poll *)
(* set for good, so the loop will read both; they are one pipe here.          *)
InitOverOld == phase = "init" /\ mq = "live"

Start_EnterOverOld ==
    /\ startPc = "init"
    /\ phase = "ready"
    /\ phase' = "init"
    /\ UNCHANGED <<session, mq, pipe, pushVars, loopVars, inbox, iosVars>>

Start_DoneOverOld ==
    /\ startPc = "init" /\ InitOverOld
    /\ phase' = "ready"
    /\ startPc' = "create"
    /\ UNCHANGED <<session, mq, pipe, pushVars, loopVars, inbox,
                   stopPc, pthread, loopPthread, started, active>>

\* tel_done then frees the old queue, which g_messageQueue still names.
Start_FailsOverOld ==
    /\ startPc = "init" /\ InitOverOld
    /\ phase' = "failed"
    /\ mq' = "null" /\ pipe' = <<>>
    /\ startPc' = "idle"
    /\ started' = FALSE /\ active' = FALSE
    /\ UNCHANGED <<session, pushVars, loopVars, inbox,
                   stopPc, pthread, loopPthread>>

Start_InitFails ==
    /\ startPc = "init"
    /\ ~InitOverOld
    /\ InitFails
    /\ startPc' = "idle"
    /\ started' = FALSE /\ active' = FALSE
    /\ UNCHANGED <<stopPc, pthread, loopPthread>>

Start_InitDone ==
    /\ startPc = "init"
    /\ ~InitOverOld
    /\ InitDone
    /\ startPc' = "create"
    /\ UNCHANGED <<stopPc, pthread, loopPthread, started, active>>

\* pthread_create, and the thread runs; its handle is kept in a later step, until
\* which the field is null or names a thread that has ended.
Start_CreateThread ==
    /\ startPc = "create"
    /\ startPc' = "keep"
    /\ pthread' = "loop" /\ loopPthread' = FALSE
    /\ UNCHANGED <<vars, stopPc, started, active>>

Start_KeepHandle ==
    /\ startPc = "keep"
    /\ startPc' = "idle"
    /\ loopPthread' = TRUE
    /\ UNCHANGED <<vars, stopPc, pthread, started, active>>

\* The initialised core is left behind: nobody runs tel_done.
Start_CreateFails ==
    /\ startPc = "create"
    /\ startPc' = "idle"
    /\ loopPthread' = FALSE
    /\ started' = FALSE /\ active' = FALSE
    /\ UNCHANGED <<vars, stopPc, pthread>>

-----------------------------------------------------------------------------
(* mainLoopEntry on the pthread.                                             *)
Loop_Run ==
    /\ pthread = "loop"
    /\ \/ (MainLoop \/ LoopFails \/ HandleCommand \/ Network
           \/ TelDone_FreeQueue \/ TelDone_ResetQueue) /\ UNCHANGED iosVars
       \/ /\ TelDone_StopAll
          /\ pthread' = "finish"
          /\ UNCHANGED <<startPc, stopPc, loopPthread, started, active>>

\* onLoopFinished, if the engine is still the active one.
Loop_Finish ==
    /\ pthread = "finish"
    /\ pthread' = "dead"
    /\ started' = (started /\ ~active)
    /\ active' = FALSE
    /\ UNCHANGED <<vars, startPc, stopPc, loopPthread>>

-----------------------------------------------------------------------------
(* shutdown(), also called by stopService(): STOP, join, then the flags.     *)
Shutdown_Begin ==
    /\ stopPc = "idle" /\ Calling
    /\ Sequential => startPc = "idle"
    /\ started
    /\ Command_Load("STOP")
    /\ stopPc' = "stop"
    /\ UNCHANGED <<startPc, pthread, loopPthread, started, active>>

Shutdown_Join ==
    /\ stopPc = "stop"
    /\ pushCmd = "none" /\ phase # "crashed"
    /\ stopPc' = "join"
    /\ UNCHANGED <<vars, startPc, pthread, loopPthread, started, active>>

\* Mutant: the thread is not joined.
Shutdown_NoJoin ==
    /\ stopPc = "join"
    /\ stopPc' = "idle"
    /\ loopPthread' = FALSE
    /\ started' = FALSE /\ active' = FALSE
    /\ UNCHANGED <<vars, startPc, pthread>>

Shutdown_End ==
    /\ stopPc = "join"
    /\ loopPthread => pthread = "dead"
    /\ stopPc' = "idle"
    /\ loopPthread' = FALSE
    /\ started' = FALSE /\ active' = FALSE
    /\ UNCHANGED <<vars, startPc, pthread>>

-----------------------------------------------------------------------------
PlaceCall == /\ Calling /\ stopPc = "idle" /\ started
             /\ Command_Load("AUDIO_CALL")
             /\ UNCHANGED iosVars

Hangup == /\ Calling /\ stopPc = "idle" /\ started
          /\ Command_Load("HANGUP")
          /\ UNCHANGED iosVars

FinishCommand == FinishPush /\ UNCHANGED iosVars
Collect == Take /\ UNCHANGED iosVars

-----------------------------------------------------------------------------
StartNext == \/ Start_Begin \/ Start_EnterInit \/ Start_InitFails
             \/ Start_EnterOverOld \/ Start_DoneOverOld \/ Start_FailsOverOld
             \/ Start_InitDone \/ Start_CreateThread \/ Start_KeepHandle
             \/ Start_CreateFails
ShutdownNext == Shutdown_Begin \/ Shutdown_Join \/ Shutdown_End
LoopNext == Loop_Run \/ Loop_Finish

INext == StartNext \/ ShutdownNext \/ LoopNext \/ PlaceCall \/ Hangup
         \/ FinishCommand \/ Collect

(* Both threads are scheduled; the application promises nothing.             *)
IFairness ==
    /\ WF_allVars(Loop_Run /\ (MainLoop \/ TelDone_FreeQueue
                               \/ TelDone_ResetQueue \/ TelDone_StopAll))
    /\ WF_allVars(Loop_Run /\ HandleCommand)
    /\ WF_allVars(Loop_Finish)
    /\ WF_allVars(Shutdown_Join \/ Shutdown_End)
    /\ WF_allVars(FinishCommand)
    /\ WF_allVars(Collect)

ISpec == IInit /\ [][INext]_allVars /\ IFairness

-----------------------------------------------------------------------------
ITypeOK ==
    /\ TypeOK
    /\ startPc \in {"idle", "init", "create", "keep"}
    /\ stopPc \in {"idle", "stop", "join"}
    /\ pthread \in {"none", "loop", "finish", "dead"}
    /\ {loopPthread, started, active} \subseteq BOOLEAN

(* The loop never runs behind the engine's back: while its thread executes   *)
(* native code the engine knows that it is started, so shutdown can stop it, *)
(* and when start has returned it has the handle to join.                    *)
(* Conversely an engine that is started and not on its way in or out has a   *)
(* loop behind it, or one that is just ending.                               *)
Looping == pthread \in {"loop", "finish"}

LoopIsKnown ==
    /\ Looping => started /\ active /\ (loopPthread \/ startPc = "keep")
    /\ started /\ startPc = "idle" /\ stopPc = "idle" => Looping

(* telephony_init is never run under a live loop, so its global state never  *)
(* serves two sessions at once (it may find a core nobody shut down, see      *)
(* Start_CreateFails, but that one has no loop).                              *)
NoInitUnderLoop ==
    [][startPc = "idle" /\ startPc' = "init"
         => ~Looping]_allVars

(* shutdown returns: its join ends.                                          *)
ShutdownReturns == (stopPc = "stop") ~> (stopPc = "idle" \/ phase = "crashed")

=============================================================================
