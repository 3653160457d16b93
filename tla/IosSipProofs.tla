----------------------------- MODULE IosSipProofs -----------------------------
(* The engine always knows of its loop, and never initialises the core under  *)
(* one: proved for any calls, User-Agents, sessions and bounds, whatever      *)
(* telephony_init and pthread_create return, for an application whose start   *)
(* and shutdown do not overlap.                                              *)
(* LoopIsKnown says nothing of the steps inside start and shutdown;           *)
(* EngineInv adds them.                                                      *)
(* The core under the engine is as safe as alone, and what the application is *)
(* told of the calls is what CallReports promises, even when start and        *)
(* shutdown overlap.  Last the types, with those of the desktop's engine.     *)
EXTENDS MCEngines, TelephonyProofs

\* start and shutdown exclude each other, and start runs without a loop until it
\* has made one.
OneAtATime ==
    /\ startPc \in {"idle", "init", "create", "keep"}
    /\ startPc \in {"init", "create"} => stopPc = "idle" /\ started /\ active /\ ~Looping
    /\ startPc = "keep" => stopPc = "idle" /\ (started => Looping)

EngineInv == OneAtATime /\ LoopIsKnown

\* Before the first start nothing runs.
LEMMA EngineInit == IInit => EngineInv
  BY DEF IInit, EngineInv, OneAtATime, LoopIsKnown, Looping

(* start: each way out of it leaves the flags as the thread it made needs.   *)
LEMMA StartStep == Sequential /\ EngineInv /\ StartNext => EngineInv'
<1> SUFFICES ASSUME Sequential, EngineInv, StartNext PROVE EngineInv'
  OBVIOUS
<1>. USE DEF EngineInv, OneAtATime, LoopIsKnown, Looping
<1>1. CASE Start_Begin
  BY <1>1 DEF Start_Begin
<1>2. CASE Start_EnterInit \/ Start_EnterOverOld
  BY <1>2 DEF Start_EnterInit, Start_EnterOverOld, iosVars
<1>3. CASE Start_InitDone \/ Start_DoneOverOld
  BY <1>3 DEF Start_InitDone, Start_DoneOverOld
<1>4. CASE Start_InitFails \/ Start_FailsOverOld \/ Start_CreateFails
  BY <1>4 DEF Start_InitFails, Start_FailsOverOld, Start_CreateFails
<1>5. CASE Start_CreateThread \/ Start_KeepHandle
  BY <1>5 DEF Start_CreateThread, Start_KeepHandle
<1>. QED BY <1>1, <1>2, <1>3, <1>4, <1>5 DEF StartNext

(* The loop ends by itself or because of a shutdown, which joins it.         *)
LEMMA LoopStep == EngineInv /\ LoopNext => EngineInv'
<1> SUFFICES ASSUME EngineInv, LoopNext PROVE EngineInv'
  OBVIOUS
<1>. USE DEF EngineInv, OneAtATime, LoopIsKnown, Looping
<1>1. CASE Loop_Run
  BY <1>1 DEF Loop_Run, iosVars
<1>2. CASE Loop_Finish
  BY <1>2 DEF Loop_Finish
<1>. QED BY <1>1, <1>2 DEF LoopNext

\* shutdown joins the loop before it clears the flags.
LEMMA ShutdownStep == Sequential /\ EngineInv /\ ShutdownNext => EngineInv'
<1> SUFFICES ASSUME Sequential, EngineInv, ShutdownNext PROVE EngineInv'
  OBVIOUS
<1>. USE DEF EngineInv, OneAtATime, LoopIsKnown, Looping
<1>1. CASE Shutdown_Begin
  BY <1>1 DEF Shutdown_Begin
<1>2. CASE Shutdown_Join
  BY <1>2 DEF Shutdown_Join
<1>3. CASE Shutdown_End
  BY <1>3 DEF Shutdown_End
<1>. QED BY <1>1, <1>2, <1>3 DEF ShutdownNext

(* Every step, and none at all.                                              *)
LEMMA EngineKept == Sequential /\ EngineInv /\ [INext]_allVars => EngineInv'
<1> SUFFICES ASSUME Sequential, EngineInv, [INext]_allVars PROVE EngineInv'
  OBVIOUS
<1>1. CASE PlaceCall \/ Hangup \/ FinishCommand \/ Collect \/ UNCHANGED allVars
  BY <1>1 DEF PlaceCall, Hangup, FinishCommand, Collect, allVars, iosVars,
              EngineInv, OneAtATime, LoopIsKnown, Looping
<1>. QED BY <1>1, StartStep, LoopStep, ShutdownStep DEF INext

\* So it is in every state.
LEMMA EngineAlways == Sequential /\ ISpec => []EngineInv
<1> SUFFICES ASSUME Sequential PROVE ISpec => []EngineInv
  OBVIOUS
<1>1. EngineInv /\ [INext]_allVars => EngineInv'
  BY EngineKept
<1>. QED BY EngineInit, <1>1, PTL DEF ISpec

-----------------------------------------------------------------------------
(* While the loop's thread runs, shutdown would find the engine started and   *)
(* join it; an engine that is started has a loop, however start failed or     *)
(* the loop ended before.                                                    *)
THEOREM LoopNeverLost == Sequential /\ ISpec => []LoopIsKnown
<1>1. EngineInv => LoopIsKnown
  BY DEF EngineInv
<1>. QED BY <1>1, EngineAlways, PTL

(* start never enters telephony_init while a loop runs on the core's globals. *)
THEOREM NeverInitUnderLoop == Sequential /\ ISpec => NoInitUnderLoop
<1> DEFINE Clear == startPc = "idle" /\ startPc' = "init" => ~Looping
<1>1. EngineInv /\ [INext]_allVars => [Clear]_allVars
  <2> SUFFICES ASSUME EngineInv, INext, startPc = "idle", startPc' = "init"
               PROVE  ~Looping
    OBVIOUS
  <2>1. Start_Begin
    BY DEF INext, StartNext, ShutdownNext, LoopNext, Start_EnterInit, Start_InitFails,
           Start_EnterOverOld, Start_DoneOverOld, Start_FailsOverOld, Start_InitDone,
           Start_CreateThread, Start_KeepHandle, Start_CreateFails, Shutdown_Begin, Shutdown_Join,
           Shutdown_End, Loop_Run, Loop_Finish, PlaceCall, Hangup, FinishCommand,
           Collect, iosVars
  <2>. QED BY <2>1 DEF Start_Begin, EngineInv, LoopIsKnown
<1>. QED BY <1>1, EngineAlways, PTL DEF NoInitUnderLoop, ISpec

-----------------------------------------------------------------------------
(* The core inside this application.  Its steps are those of Telephony, but   *)
(* for a second telephony_init over one that nobody ended.                    *)
OverOld == Start_EnterOverOld \/ Start_DoneOverOld \/ Start_FailsOverOld

\* Each step of the application is one of the core, or such an initialisation.
LEMMA CoreSteps == [INext]_allVars => OverOld \/ [Next]_vars
<1> SUFFICES ASSUME [INext]_allVars, ~OverOld PROVE [Next]_vars
  OBVIOUS
<1>1. CASE StartNext
  BY <1>1 DEF StartNext, OverOld, Start_Begin, Start_EnterInit, Start_InitFails,
     Start_InitDone, Start_CreateThread, Start_KeepHandle, Start_CreateFails, Next, Lifecycle
<1>2. CASE ShutdownNext
  BY <1>2 DEF ShutdownNext, Shutdown_Begin, Shutdown_Join, Shutdown_End, Next, Command
<1>3. CASE LoopNext
  BY <1>3 DEF LoopNext, Loop_Run, Loop_Finish, Next, Lifecycle
<1>4. CASE PlaceCall \/ Hangup \/ FinishCommand \/ Collect
  BY <1>4 DEF PlaceCall, Hangup, FinishCommand, Collect, Next, Command
<1>5. CASE UNCHANGED allVars
  BY <1>5 DEF allVars
<1>. QED BY <1>1, <1>2, <1>3, <1>4, <1>5 DEF INext

(* Such an initialisation touches no call and tells the platform nothing.     *)
LEMMA OverOldKeeps ==
    ASSUME TypeOK, Safety, OverOld
    PROVE  /\ TypeOK' /\ Safety' /\ ~Dispatching
           /\ UNCHANGED <<Stages, Log>>
<1>1. /\ UNCHANGED <<session, pushVars, loopVars, inbox>>
      /\ phase \in {"ready", "init"} /\ phase' \in {"ready", "init", "failed"}
      /\ (mq' = mq /\ pipe' = pipe) \/ (mq' = "null" /\ pipe' = <<>>)
  <2>1. CASE Start_EnterOverOld
    BY <2>1 DEF Start_EnterOverOld
  <2>2. CASE Start_DoneOverOld
    BY <2>2 DEF Start_DoneOverOld, InitOverOld
  <2>3. CASE Start_FailsOverOld
    BY <2>3 DEF Start_FailsOverOld, InitOverOld
  <2>. QED BY <2>1, <2>2, <2>3 DEF OverOld
<1>2. TypeOK'
  <2>1. pipe' \in Seq(Command) /\ mq' \in {"null", "live", "freed"}
    BY <1>1, <<>> \in Seq(Command) DEF TypeOK
  <2>2. phase' \in Phase
    BY <1>1 DEF Phase
  <2>. QED BY <1>1, <2>1, <2>2 DEF TypeOK, pushVars, loopVars
<1>3. Safety'
  BY <1>1 DEF Safety, GCallIsLive, OneCallPerUa, OneIncoming, NothingLeft, Live, loopVars
<1>4. UNCHANGED <<Stages, Log>>
  BY <1>1 DEF Stages, Log, CallStage, loopVars
<1>. QED BY <1>1, <1>2, <1>3, <1>4 DEF Dispatching

\* Both keep the core's types and its safety.
LEMMA CoreKept == TypeOK /\ Safety /\ [INext]_allVars => (TypeOK /\ Safety)'
  BY CoreSteps, OverOldKeeps, TypeParts, TypeStep, SafetyStep

\* So they hold in every state.
LEMMA CoreAlways == ISpec => [](TypeOK /\ Safety)
<1>1. IInit => TypeOK /\ Safety
  BY TypeInit, SafetyInit DEF IInit
<1>. QED BY <1>1, CoreKept, PTL DEF ISpec

(* In this application too, whether start and shutdown overlap or not, g_call *)
(* never dangles, no User-Agent has two calls, and at most one call waits.    *)
THEOREM CoreIsSafe == ISpec => [](GCallIsLive /\ OneCallPerUa /\ OneIncoming)
<1>1. Safety => GCallIsLive /\ OneCallPerUa /\ OneIncoming
  BY DEF Safety
<1>. QED BY <1>1, CoreAlways, PTL

(* What the application is told of its calls is what CallReports promises.    *)
THEOREM EngineImplementsCallReports == ISpec => ImplementsCallReports
<1>1. IInit => Reports!Init
  BY DEF IInit, Init, Reports!Init, CallStage
<1>2. TypeOK /\ Safety /\ [INext]_allVars => [Reports!Next]_<<Stages, Log>>
  <2> SUFFICES ASSUME TypeOK, Safety, [INext]_allVars
               PROVE  Reports!Next \/ UNCHANGED <<Stages, Log>>
    OBVIOUS
  <2>1. CASE OverOld
    BY <2>1, OverOldKeeps
  <2>2. CASE [Next]_vars
    BY <2>2, StepReports DEF ReportStep, Reports!Next
  <2>. QED BY <2>1, <2>2, CoreSteps
<1>. QED BY <1>1, <1>2, CoreAlways, PTL
         DEF ISpec, ImplementsCallReports, Reports!Spec, Stages, Log

-----------------------------------------------------------------------------
(* Types, of this engine and of the desktop's.                               *)
Flags ==
    /\ startPc \in {"idle", "init", "create", "keep"}
    /\ stopPc \in {"idle", "stop", "join"}
    /\ pthread \in {"none", "loop", "finish", "dead"}
    /\ {loopPthread, started, active} \subseteq BOOLEAN

\* Every step writes a flag's value to a flag.
LEMMA FlagsStep == Flags /\ [INext]_allVars => Flags'
<1> SUFFICES ASSUME Flags, [INext]_allVars PROVE Flags'
  OBVIOUS
<1> USE DEF Flags
<1>1. CASE StartNext
  BY <1>1 DEF StartNext, Start_Begin, Start_EnterInit, Start_InitFails,
     Start_EnterOverOld, Start_DoneOverOld, Start_FailsOverOld, Start_InitDone,
     Start_CreateThread, Start_KeepHandle, Start_CreateFails, iosVars
<1>2. CASE ShutdownNext
  BY <1>2 DEF ShutdownNext, Shutdown_Begin, Shutdown_Join, Shutdown_End
<1>3. CASE LoopNext
  <2>1. CASE Loop_Run
    BY <2>1 DEF Loop_Run, iosVars
  <2>2. CASE Loop_Finish
    BY <2>2 DEF Loop_Finish
  <2>. QED BY <1>3, <2>1, <2>2 DEF LoopNext
<1>4. CASE PlaceCall \/ Hangup \/ FinishCommand \/ Collect \/ UNCHANGED allVars
  BY <1>4 DEF PlaceCall, Hangup, FinishCommand, Collect, allVars, iosVars
<1>. QED BY <1>1, <1>2, <1>3, <1>4 DEF INext

(* The variables of the iOS engine and of the core it runs keep to their      *)
(* types.                                                                     *)
THEOREM IosTyped == ISpec => []ITypeOK
<1>1. IInit => Flags
  BY DEF IInit, Flags
<1>2. TypeOK /\ Flags => ITypeOK
  BY DEF ITypeOK, Flags
<1>. QED BY <1>1, <1>2, FlagsStep, CoreAlways, PTL DEF ISpec

(* The desktop's engine.  A placeCall past its check numbers a call of Place. *)
DeskInv ==
    /\ DeskTypeOK
    /\ doing = "placing" => placed + 1 \in Place
    /\ doing = "launched" => placed \in Place

\* Before the first call.
LEMMA DeskStart == DeskInit => DeskInv
<1> SUFFICES ASSUME DeskInit PROVE DeskInv
  OBVIOUS
<1>. USE DEF DeskInit
<1>1. placed \in {0} \cup Place /\ flow \in Seq(DeskEvent) /\ Len(flow) <= Buffer
  BY DesktopAssumption
<1>2. job \in [Place -> JobState] /\ hang \in [Hang -> HangState]
  BY DEF JobState, HangState
<1>. QED BY <1>1, <1>2 DEF DeskInv, DeskTypeOK

(* The flow of events: an emit finds room or waits, a tryEmit drops.          *)
LEMMA FlowTyped ==
    ASSUME flow \in Seq(DeskEvent), Len(flow) <= Buffer, NEW e \in DeskEvent,
           Emit(e) \/ TryEmit(e) \/ UNCHANGED flow
    PROVE  flow' \in Seq(DeskEvent) /\ Len(flow') <= Buffer
  BY DesktopAssumption DEF Emit, TryEmit

\* An event that answers no hangup.
LEMMA NobodyIsEvent == None \in DeskEvent
  BY DEF DeskEvent

\* stopProcess, by any thread at any of its steps.
LEMMA StopStep == ASSUME DeskInv, NEW a \in Actor, StopProcess(a) PROVE DeskInv'
<1>. USE DEF DeskInv, DeskTypeOK, fields
<1>1. CASE Stop_CancelJob(a)
  BY <1>1 DEF Stop_CancelJob
<1>2. CASE Stop_Destroy(a)
  BY <1>2 DEF Stop_Destroy
<1>3. CASE Stop_Clear(a)
  BY <1>3 DEF Stop_Clear
<1>. QED BY <1>1, <1>2, <1>3 DEF StopProcess

\* The application takes an event.
LEMMA CollectStep == DeskInv /\ Desk_Collect => DeskInv'
<1> SUFFICES ASSUME DeskInv, Desk_Collect PROVE DeskInv'
  OBVIOUS
<1>1. flow' \in Seq(DeskEvent) /\ Len(flow') <= Buffer /\ heard' \subseteq Hang
  BY DesktopAssumption DEF Desk_Collect, DeskInv, DeskTypeOK
<1>. QED BY <1>1 DEF Desk_Collect, DeskInv, DeskTypeOK, fields

\* The caller: a call is numbered when it is launched.
LEMMA CallerTyped ==
    ASSUME DeskInv,
           \/ Desk_Start \/ Desk_PlaceCallInvalid \/ Desk_PlaceCallBegin
           \/ Desk_Hangup \/ Desk_StopService \/ Desk_Shutdown \/ CallerStep
    PROVE  DeskInv'
<1>. USE DEF DeskInv, DeskTypeOK, fields
<1>1. CASE Desk_Start \/ Desk_PlaceCallInvalid
  <2>1. flow' \in Seq(DeskEvent) /\ Len(flow') <= Buffer
    BY <1>1, FlowTyped, NobodyIsEvent DEF Desk_Start, Desk_PlaceCallInvalid
  <2>. QED BY <1>1, <2>1 DEF Desk_Start, Desk_PlaceCallInvalid
<1>2. CASE Desk_PlaceCallBegin
  BY <1>2 DEF Desk_PlaceCallBegin, EnterStop, Actor
<1>3. CASE Desk_Hangup
  BY <1>3 DEF Desk_Hangup, HangState, CallerIdle
<1>4. CASE Desk_StopService \/ Desk_Shutdown
  BY <1>4 DEF Desk_StopService, Desk_Shutdown, EnterStop, CallerIdle
<1>5. CASE Desk_PlaceCallLaunch
  <2>1. placed' \in Place
    BY <1>5 DEF Desk_PlaceCallLaunch
  <2>2. job' \in [Place -> JobState]
    BY <1>5, <2>1 DEF Desk_PlaceCallLaunch, JobState
  <2>. QED BY <1>5, <2>1, <2>2 DEF Desk_PlaceCallLaunch
<1>6. CASE Desk_PlaceCallAssign
  BY <1>6 DEF Desk_PlaceCallAssign
<1>7. CASE Desk_ShutdownEnd
  BY <1>7 DEF Desk_ShutdownEnd, HangState
<1>. QED BY <1>1, <1>2, <1>3, <1>4, <1>5, <1>6, <1>7 DEF CallerStep

\* The coroutine of a hangup.
LEMMA HangTyped == ASSUME DeskInv, NEW h \in Hang, HangRuns(h) PROVE DeskInv'
<1>. USE DEF DeskInv, DeskTypeOK, fields, HangState
<1>1. CASE Hang_Stop(h)
  BY <1>1 DEF Hang_Stop, EnterStop
<1>2. CASE Hang_Emit(h)
  <2>1. flow' \in Seq(DeskEvent) /\ Len(flow') <= Buffer
    BY <1>2, FlowTyped DEF Hang_Emit, DeskEvent
  <2>. QED BY <1>2, <2>1 DEF Hang_Emit
<1>3. CASE Hang_Dropped(h)
  BY <1>3 DEF Hang_Dropped
<1>. QED BY <1>1, <1>2, <1>3 DEF HangRuns

\* The coroutine of a call, and its process.
LEMMA JobTyped ==
    ASSUME DeskInv, NEW n \in Place,
           JobRuns(n) \/ Job_ReadLine(n) \/ Job_ReadEnds(n) \/ Baresip_Exit(n)
    PROVE  DeskInv'
<1>. USE DEF DeskInv, DeskTypeOK, fields, JobState, JobStep
<1>1. CASE Job_Skipped(n) \/ Job_Stopped(n) \/ Job_Check(n)
  BY <1>1 DEF Job_Skipped, Job_Stopped, Job_Check
<1>2. CASE Job_Start(n)
  <2>1. flow' \in Seq(DeskEvent) /\ Len(flow') <= Buffer
    BY <1>2, FlowTyped, NobodyIsEvent DEF Job_Start
  <2>. QED BY <1>2, <2>1 DEF Job_Start
<1>3. CASE Job_SetProcess(n)
  BY <1>3 DEF Job_SetProcess
<1>4. CASE Job_Parse(n)
  <2>1. flow' \in Seq(DeskEvent) /\ Len(flow') <= Buffer
    BY <1>4, FlowTyped, NobodyIsEvent DEF Job_Parse
  <2>. QED BY <1>4, <2>1 DEF Job_Parse, EnterStop
<1>5. CASE Job_Wait(n) \/ Baresip_Exit(n)
  BY <1>5 DEF Job_Wait, Baresip_Exit
<1>6. CASE Job_ReadLine(n)
  BY <1>6 DEF Job_ReadLine, Line
<1>7. CASE Job_ReadEnds(n)
  <2>1. flow' \in Seq(DeskEvent) /\ Len(flow') <= Buffer
    BY <1>7, FlowTyped, NobodyIsEvent DEF Job_ReadEnds
  <2>. QED BY <1>7, <2>1 DEF Job_ReadEnds
<1>. QED BY <1>1, <1>2, <1>3, <1>4, <1>5, <1>6, <1>7 DEF JobRuns

\* Every step, and none at all.
LEMMA DeskKept == DeskInv /\ [DeskNext]_deskVars => DeskInv'
<1>1. DeskInv /\ UNCHANGED deskVars => DeskInv'
  BY DEF DeskInv, DeskTypeOK, deskVars, fields
<1>. QED BY <1>1, StopStep, CollectStep, CallerTyped, HangTyped, JobTyped DEF DeskNext

(* The variables of the desktop's engine keep to their types, whoever is in   *)
(* stopProcess with whom.                                                     *)
THEOREM DesktopTyped == DeskSpec => []DeskTypeOK
<1>1. DeskInv => DeskTypeOK
  BY DEF DeskInv
<1>. QED BY <1>1, DeskStart, DeskKept, PTL DEF DeskSpec

-----------------------------------------------------------------------------
(* What the two liveness properties of the desktop's engine rest on.          *)

\* The coroutine of a call has begun and is not over.
Busy(n) == job[n] \notin {"none", "done"}

\* A process that runs still has the coroutine that started it.
ProcessIsRead == \A n \in alive : Busy(n) /\ job[n] # "launched"

\* For a patient application the next call finds nothing left of the last.
OneAtOnce ==
    /\ \A n \in Place : n > placed => job[n] = "none"
    /\ patient => /\ \A n, m \in Place : Busy(n) /\ Busy(m) => n = m
                  /\ doing = "placing" => \A n \in Place : ~Busy(n)

\* A hangup that is over is reported, or its report waits in the flow.
HangupIsKept ==
    \A h \in Hang : hang[h] = "done" /\ scopeLive
                    => h \in heard \/ \E i \in 1..Len(flow) : flow[i] = h

\* A step that starts nothing, and one of a coroutine for its own call.
Steady ==
    /\ UNCHANGED <<job, placed, patient>> /\ alive' \subseteq alive
    /\ doing' = "placing" => doing = "placing"

Reads(n) ==
    /\ Busy(n) /\ \A m \in Place \ {n} : job'[m] = job[m]
    /\ \/ alive' \subseteq alive /\ (Busy(n)' /\ (n \in alive' => job'[n] # "launched"))
       \/ alive' = alive \cup {n} /\ job'[n] = "started"
       \/ alive' \subseteq alive /\ job'[n] = "done" /\ n \notin alive'
    /\ UNCHANGED <<placed, patient, doing>>

\* Each step of a coroutine is of that kind.
LEMMA ReadingSteps ==
    ASSUME DeskInv, ProcessIsRead, NEW n \in Place,
           JobRuns(n) \/ Job_ReadLine(n) \/ Job_ReadEnds(n)
    PROVE  Reads(n)
<1>. USE DEF Reads, Busy, JobStep, fields, DeskInv, DeskTypeOK, ProcessIsRead
<1>1. CASE Job_Skipped(n) \/ Job_Stopped(n) \/ Job_Check(n) \/ Job_SetProcess(n)
  BY <1>1 DEF Job_Skipped, Job_Stopped, Job_Check, Job_SetProcess
<1>2. CASE Job_Start(n)
  BY <1>2 DEF Job_Start
<1>3. CASE Job_Parse(n)
  BY <1>3 DEF Job_Parse, Line
<1>4. CASE Job_Wait(n)
  BY <1>4 DEF Job_Wait
<1>5. CASE Job_ReadLine(n)
  BY <1>5 DEF Job_ReadLine, Line
<1>6. CASE Job_ReadEnds(n)
  BY <1>6 DEF Job_ReadEnds
<1>. QED BY <1>1, <1>2, <1>3, <1>4, <1>5, <1>6 DEF JobRuns

\* Every other step is steady, but for the two that place a call.
LEMMA OtherSteps ==
    ASSUME [DeskNext]_deskVars
    PROVE  \/ Steady \/ Desk_PlaceCallBegin \/ Desk_PlaceCallLaunch
           \/ \E n \in Place : JobRuns(n) \/ Job_ReadLine(n) \/ Job_ReadEnds(n)
<1>. USE DEF Steady
<1>1. ASSUME NEW a \in Actor, StopProcess(a) PROVE Steady
  BY <1>1 DEF StopProcess, Stop_CancelJob, Stop_Destroy, Stop_Clear
<1>2. CASE Desk_Collect \/ Desk_Start \/ Desk_PlaceCallInvalid \/ Desk_Hangup
           \/ Desk_StopService \/ Desk_Shutdown
  BY <1>2 DEF Desk_Collect, Desk_Start, Desk_PlaceCallInvalid, Desk_Hangup,
              Desk_StopService, Desk_Shutdown
<1>3. CASE Desk_PlaceCallAssign \/ Desk_ShutdownEnd
  BY <1>3 DEF Desk_PlaceCallAssign, Desk_ShutdownEnd
<1>4. ASSUME NEW h \in Hang, HangRuns(h) PROVE Steady
  BY <1>4 DEF HangRuns, Hang_Stop, Hang_Emit, Hang_Dropped
<1>5. ASSUME NEW n \in Place, Baresip_Exit(n) PROVE Steady
  BY <1>5 DEF Baresip_Exit
<1>6. CASE UNCHANGED deskVars
  BY <1>6 DEF deskVars
<1>. QED BY <1>1, <1>2, <1>3, <1>4, <1>5, <1>6 DEF DeskNext, CallerStep

\* No step leaves a process without a reader or, for a patient application,
\* starts a second one.
LEMMA ReadersKept ==
    DeskInv /\ ProcessIsRead /\ OneAtOnce /\ [DeskNext]_deskVars
        => ProcessIsRead' /\ OneAtOnce'
<1> SUFFICES ASSUME DeskInv, ProcessIsRead, OneAtOnce, [DeskNext]_deskVars
             PROVE  ProcessIsRead' /\ OneAtOnce'
  OBVIOUS
<1>. USE DEF ProcessIsRead, OneAtOnce, Busy
<1>1. CASE Steady
  BY <1>1 DEF Steady
<1>2. CASE Desk_PlaceCallBegin
  BY <1>2 DEF Desk_PlaceCallBegin, Over, fields
<1>3. CASE Desk_PlaceCallLaunch
  <2>1. placed + 1 \in Place /\ placed' = placed + 1 /\ placed \in Nat
    BY <1>3 DEF Desk_PlaceCallLaunch, DeskInv, DeskTypeOK, Place
  <2>2. /\ job' = [job EXCEPT ![placed + 1] = job'[placed + 1]]
        /\ job'[placed + 1] \in {"launched", "done"} /\ job[placed + 1] = "none"
        /\ doing = "placing" /\ doing' = "launched" /\ UNCHANGED <<patient, alive>>
    BY <1>3, <2>1 DEF Desk_PlaceCallLaunch, DeskInv, DeskTypeOK, Place
  <2>3. alive' \subseteq Place /\ \A n \in Place \ {placed + 1} : job'[n] = job[n]
    BY <2>2 DEF DeskInv, DeskTypeOK
  <2>4. ASSUME NEW n \in Place, n > placed' PROVE job'[n] = "none"
    <3>1. n # placed + 1 /\ n > placed
      BY <2>1, <2>4 DEF Place
    <3>. QED BY <2>3, <3>1
  <2>5. ProcessIsRead'
    BY <2>2, <2>3
  <2>6. patient => \A n \in Place : Busy(n)' => n = placed + 1
    BY <2>2, <2>3
  <2>. QED BY <2>2, <2>4, <2>5, <2>6
<1>4. ASSUME NEW n \in Place, JobRuns(n) \/ Job_ReadLine(n) \/ Job_ReadEnds(n)
      PROVE  ProcessIsRead' /\ OneAtOnce'
  <2>1. Reads(n)
    BY <1>4, ReadingSteps
  <2>2. ProcessIsRead' /\ alive' \subseteq Place
    BY <2>1 DEF Reads, DeskInv, DeskTypeOK
  <2>3. \A m \in Place : Busy(m)' => Busy(m)
    BY <2>1 DEF Reads
  <2>4. \A m \in Place : m > placed => job'[m] = "none"
    BY <2>1 DEF Reads
  <2>. QED BY <2>1, <2>2, <2>3, <2>4 DEF Reads
<1>. QED BY <1>1, <1>2, <1>3, <1>4, OtherSteps

(* A baresip that runs has a coroutine that reads it and will wait for its    *)
(* end: none is left behind, whatever stopProcess, cancellations and          *)
(* shutdown do meanwhile.  For an application that lets one call end before   *)
(* it places the next, no two of them run at once.                            *)
THEOREM ProcessesRead ==
    DeskSpec => [](ProcessIsRead /\ (patient => \A n, m \in alive : n = m))
<1>1. DeskInit => ProcessIsRead /\ OneAtOnce
  BY DEF DeskInit, ProcessIsRead, OneAtOnce, Busy
<1>2. DeskInv /\ ProcessIsRead /\ OneAtOnce
        => ProcessIsRead /\ (patient => \A n, m \in alive : n = m)
  BY DEF DeskInv, DeskTypeOK, ProcessIsRead, OneAtOnce
<1>. QED BY <1>1, <1>2, DeskStart, DeskKept, ReadersKept, PTL DEF DeskSpec

\* An event enters the flow behind those that are there.
LEMMA FlowKeeps ==
    ASSUME flow \in Seq(DeskEvent), NEW e \in DeskEvent,
           Emit(e) \/ TryEmit(e) \/ UNCHANGED flow, NEW i \in 1..Len(flow)
    PROVE  i \in 1..Len(flow') /\ flow'[i] = flow[i]
  BY DEF Emit, TryEmit

\* No step loses the report of a hangup.
LEMMA HangupKept ==
    ASSUME DeskInv, HangupIsKept, [DeskNext]_deskVars PROVE HangupIsKept'
<1> SUFFICES ASSUME NEW h \in Hang, hang'[h] = "done", scopeLive'
             PROVE  h \in heard' \/ \E i \in 1..Len(flow') : flow'[i] = h
  BY DEF HangupIsKept
<1> DEFINE Kept == h \in heard \/ \E i \in 1..Len(flow) : flow[i] = h
           Appended == /\ UNCHANGED heard
                       /\ \E e \in DeskEvent : Emit(e) \/ TryEmit(e) \/ UNCHANGED flow
<1>. USE DEF fields
<1>0. flow \in Seq(DeskEvent)
  BY DEF DeskInv, DeskTypeOK
<1>1. Kept /\ Appended => Kept'
  BY <1>0, FlowKeeps
<1>2. hang[h] = "done" /\ scopeLive => Kept
  BY DEF HangupIsKept
<1>3. CASE Desk_Collect
  <2>1. Kept
    BY <1>2, <1>3 DEF Desk_Collect
  <2>2. ASSUME NEW i \in 1..Len(flow), flow[i] = h PROVE Kept'
    <3>1. CASE i = 1
      BY <1>0, <1>3, <2>2, <3>1 DEF Desk_Collect
    <3>2. CASE i # 1
      <4>1. i - 1 \in 1..Len(flow') /\ flow'[i - 1] = flow[i]
        BY <1>0, <1>3, <2>2, <3>2 DEF Desk_Collect
      <4>. QED BY <2>2, <4>1
    <3>. QED BY <3>1, <3>2
  <2>. QED BY <1>3, <2>1, <2>2 DEF Desk_Collect
<1>4. ASSUME NEW g \in Hang, HangRuns(g) PROVE Kept'
  <2>1. CASE Hang_Stop(g)
    BY <1>1, <1>2, <2>1, NobodyIsEvent DEF Hang_Stop, DeskInv, DeskTypeOK
  <2>2. CASE Hang_Emit(g)
    <3>1. Len(flow') \in 1..Len(flow') /\ flow'[Len(flow')] = g
      BY <1>0, <2>2 DEF Hang_Emit, Emit, DeskEvent
    <3>2. Appended
      BY <2>2 DEF Hang_Emit, DeskEvent
    <3>3. g # h => hang[h] = "done" /\ scopeLive
      BY <2>2 DEF Hang_Emit, DeskInv, DeskTypeOK
    <3>. QED BY <1>1, <1>2, <3>1, <3>2, <3>3
  <2>3. CASE Hang_Dropped(g)
    BY <2>3 DEF Hang_Dropped
  <2>. QED BY <1>4, <2>1, <2>2, <2>3 DEF HangRuns
<1>5. CASE Desk_ShutdownEnd
  BY <1>5 DEF Desk_ShutdownEnd
<1>6. CASE Desk_Hangup
  <2>1. hang[h] = "done" /\ scopeLive /\ Appended
    BY <1>6, NobodyIsEvent DEF Desk_Hangup, DeskInv, DeskTypeOK
  <2>. QED BY <1>1, <1>2, <2>1
<1>7. ASSUME NEW a \in Actor, StopProcess(a) PROVE Kept'
  BY <1>1, <1>2, <1>7, NobodyIsEvent DEF StopProcess, Stop_CancelJob, Stop_Destroy, Stop_Clear
<1>8. CASE \/ Desk_Start \/ Desk_PlaceCallInvalid \/ Desk_PlaceCallBegin \/ Desk_StopService
           \/ Desk_Shutdown \/ Desk_PlaceCallLaunch \/ Desk_PlaceCallAssign
  BY <1>1, <1>2, <1>8, NobodyIsEvent DEF Desk_Start, Desk_PlaceCallInvalid, Desk_PlaceCallBegin,
     Desk_StopService, Desk_Shutdown, Desk_PlaceCallLaunch, Desk_PlaceCallAssign
<1>9. ASSUME NEW n \in Place,
             JobRuns(n) \/ Job_ReadLine(n) \/ Job_ReadEnds(n) \/ Baresip_Exit(n)
      PROVE  Kept'
  <2>1. Appended /\ UNCHANGED <<hang, scopeLive>>
    BY <1>9, NobodyIsEvent DEF JobRuns, Job_Skipped, Job_Start, Job_SetProcess, Job_Check,
       Job_Parse, Job_Stopped, Job_Wait, Job_ReadLine, Job_ReadEnds, Baresip_Exit
  <2>. QED BY <1>1, <1>2, <2>1
<1>10. CASE UNCHANGED deskVars
  BY <1>1, <1>2, <1>10, NobodyIsEvent DEF deskVars
<1>. QED BY <1>3, <1>4, <1>5, <1>6, <1>7, <1>8, <1>9, <1>10 DEF DeskNext, CallerStep

(* A hangup whose coroutine is over, under a scope that was never cancelled,  *)
(* has been reported to the application or its report waits to be collected,  *)
(* however full the flow was.                                                 *)
THEOREM HangupsKept == DeskSpec => []HangupIsKept
<1>1. DeskInit => HangupIsKept
  BY DEF DeskInit, HangupIsKept
<1>. QED BY <1>1, DeskStart, DeskKept, HangupKept, PTL DEF DeskSpec

-----------------------------------------------------------------------------
(* A behaviour the run checks is one of each engine, so what is proved of     *)
(* either holds of it.                                                        *)
THEOREM PartsOfEngines == EnginesSpec => ISpec /\ DeskSpec
<1>1. EnginesInit => IInit /\ DeskInit
  BY DEF EnginesInit
<1>2. [EnginesNext]_<<allVars, deskVars, part>> => [INext]_allVars /\ [DeskNext]_deskVars
  BY DEF EnginesNext, Only
<1>. QED BY <1>1, <1>2, PTL DEF EnginesSpec, ISpec, DeskSpec

(* The variables of both engines keep to their types.                         *)
THEOREM EnginesTyped == EnginesSpec => []EngineTypes
<1>1. ITypeOK /\ DeskTypeOK => EngineTypes
  BY DEF EngineTypes
<1>. QED BY <1>1, PartsOfEngines, IosTyped, DesktopTyped, PTL

=============================================================================
