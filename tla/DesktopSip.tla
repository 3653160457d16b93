------------------------------ MODULE DesktopSip ------------------------------
(***************************************************************************)
(* DesktopSipEngine: one baresip process per call, read by a coroutine.     *)
(*                                                                          *)
(* Three kinds of threads run the engine's code without a lock: the caller, *)
(* the coroutine that reads the output of a process, and the coroutine that *)
(* hangup leaves behind to stop the process 300 ms later.  All of them may  *)
(* be inside stopProcess, whose steps on stdoutJob and process interleave.  *)
(*                                                                          *)
(* A job and the process it starts have the same number, that of the        *)
(* placeCall.  What is written to stdin is left out: baresip may print any  *)
(* line and may exit at any time, with or without a command.                *)
(***************************************************************************)
EXTENDS Naturals, Sequences, FiniteSets

CONSTANTS
    MaxPlace,     \* bound: the calls that are placed
    Hang,         \* bound: the calls of hangup
    Ui,           \* the caller's thread
    None,         \* null
    Buffer        \* extraBufferCapacity of the event flow

ASSUME DesktopAssumption ==
    /\ MaxPlace \in Nat \ {0}
    /\ Hang \cap (1..MaxPlace) = {} /\ {Ui, None} \cap (Hang \cup 1..MaxPlace) = {} /\ Ui # None
    /\ Buffer \in Nat \ {0}

VARIABLES
    patient,      \* the application places a call only when nothing of the one
                  \* before is left running: fixed at the start
    placed,       \* calls placed so far
    scopeLive,    \* the engine's CoroutineScope is not cancelled
    process,      \* field process
    stdoutJob,    \* field stdoutJob
    job,          \* where the reading coroutine of each call is
    cancelled,    \* jobs whose cancellation has been asked for
    alive,        \* baresip processes that run
    stopping,     \* threads inside stopProcess: the next step of each
    doing,        \* what the caller's thread is doing
    hang,         \* where the coroutine of each hangup is
    flow,         \* events emitted and not collected
    heard         \* hangups whose CallClosed has been collected (history)

fields == <<process, stdoutJob>>
deskVars == <<patient, placed, scopeLive, fields, job, cancelled, alive,
              stopping, doing, hang, flow, heard>>

Place == 1..MaxPlace
Actor == {Ui} \cup Place \cup Hang
JobState == {"none", "launched", "started", "check", "reading",
             "news", "closed", "stopping", "waiting", "done"}

\* What a line tells: the call is over, or anything else that is reported
\* (ringing, established, registration failed).
Line == {"news", "closed"}
HangState == {"none", "delay", "stopping", "done"}

\* Of an event only the hangup it answers matters here, if it answers one.
DeskEvent == Hang \cup {None}

DeskInit ==
    /\ patient \in BOOLEAN
    /\ placed = 0 /\ scopeLive = TRUE
    /\ process = None /\ stdoutJob = None
    /\ job = [n \in Place |-> "none"]
    /\ cancelled = {} /\ alive = {}
    /\ stopping = [a \in Actor |-> "no"]
    /\ doing = "idle"
    /\ hang = [h \in Hang |-> "none"]
    /\ flow = <<>>
    /\ heard = {}

-----------------------------------------------------------------------------
(* Events: tryEmit drops one that finds the buffer full, emit waits.         *)
\* Mutant: the flow is made with a buffer that has no limit.
TryEmit_Always(event) == flow' = Append(flow, event)

TryEmit(event) == flow' = IF Len(flow) < Buffer THEN Append(flow, event) ELSE flow

Emit(event) == Len(flow) < Buffer /\ flow' = Append(flow, event)

Desk_Collect ==
    /\ flow # <<>>
    /\ flow' = Tail(flow)
    /\ heard' = heard \cup ({Head(flow)} \cap Hang)
    /\ UNCHANGED <<patient, placed, scopeLive, fields, job, cancelled, alive,
                   stopping, doing, hang>>

-----------------------------------------------------------------------------
(* stopProcess, by thread a, in three steps.                                 *)
EnterStop(a) == stopping' = [stopping EXCEPT ![a] = "cancel"]
InStop(a) == stopping[a] # "no"

Stop_CancelJob(a) ==
    /\ stopping[a] = "cancel"
    /\ cancelled' = cancelled \cup ({stdoutJob} \ {None})
    /\ stdoutJob' = None
    /\ stopping' = [stopping EXCEPT ![a] = "destroy"]
    /\ UNCHANGED <<patient, placed, scopeLive, process, job, alive, doing, hang,
                   flow, heard>>

\* Mutant: the process is not destroyed, stopProcess relies on /quit.
Stop_DestroyQuits(a) ==
    /\ stopping[a] = "destroy"
    /\ stopping' = [stopping EXCEPT ![a] = "clear"]
    /\ UNCHANGED <<patient, placed, scopeLive, fields, job, cancelled, alive,
                   doing, hang, flow, heard>>

\* destroy, waitFor up to 2 s, destroyForcibly: it is dead afterwards.
Stop_Destroy(a) ==
    /\ stopping[a] = "destroy"
    /\ alive' = alive \ {process}
    /\ stopping' = [stopping EXCEPT ![a] = "clear"]
    /\ UNCHANGED <<patient, placed, scopeLive, fields, job, cancelled, doing,
                   hang, flow, heard>>

\* Up to 2 s later, whatever the field holds by then.
Stop_Clear(a) ==
    /\ stopping[a] = "clear"
    /\ process' = None
    /\ stopping' = [stopping EXCEPT ![a] = "no"]
    /\ UNCHANGED <<patient, placed, scopeLive, stdoutJob, job, cancelled, alive,
                   doing, hang, flow, heard>>

StopProcess(a) == Stop_CancelJob(a) \/ Stop_Destroy(a) \/ Stop_Clear(a)

-----------------------------------------------------------------------------
(* The caller.                                                               *)
Over == /\ \A n \in Place : job[n] \in {"none", "done"}
        /\ \A h \in Hang : hang[h] \in {"none", "done"}
        /\ \A a \in Actor : ~InStop(a)

CallerIdle == doing = "idle" /\ ~InStop(Ui)

\* start only reports whether there is a baresip.
Desk_Start ==
    /\ CallerIdle
    /\ Emit(None)
    /\ UNCHANGED <<patient, placed, scopeLive, fields, job, cancelled, alive,
                   stopping, doing, hang, heard>>

\* Parameters that isPlaceCallParamsValid refuses.
Desk_PlaceCallInvalid ==
    /\ CallerIdle
    /\ TryEmit(None)
    /\ UNCHANGED <<patient, placed, scopeLive, fields, job, cancelled, alive,
                   stopping, doing, hang, heard>>

Desk_PlaceCallBegin ==
    /\ CallerIdle
    /\ placed + 1 \in Place
    /\ patient => Over
    /\ doing' = "placing"
    /\ EnterStop(Ui)
    /\ UNCHANGED <<patient, placed, scopeLive, fields, job, cancelled, alive,
                   hang, flow, heard>>

\* scope.launch: the coroutine may run before the field is assigned.
Desk_PlaceCallLaunch ==
    /\ doing = "placing" /\ ~InStop(Ui)
    /\ placed' = placed + 1
    /\ job' = [job EXCEPT ![placed'] = IF scopeLive THEN "launched" ELSE "done"]
    /\ doing' = "launched"
    /\ UNCHANGED <<patient, scopeLive, fields, cancelled, alive, stopping, hang,
                   flow, heard>>

Desk_PlaceCallAssign ==
    /\ doing = "launched"
    /\ stdoutJob' = placed
    /\ doing' = "idle"
    /\ UNCHANGED <<patient, placed, scopeLive, process, job, cancelled, alive,
                   stopping, hang, flow, heard>>

Desk_Hangup ==
    /\ CallerIdle
    /\ \E h \in Hang :
         /\ hang[h] = "none"
         /\ hang' = [hang EXCEPT ![h] = IF scopeLive THEN "delay" ELSE "done"]
    /\ UNCHANGED <<patient, placed, scopeLive, fields, job, cancelled, alive,
                   stopping, doing, flow, heard>>

Desk_StopService ==
    /\ CallerIdle
    /\ EnterStop(Ui)
    /\ UNCHANGED <<patient, placed, scopeLive, fields, job, cancelled, alive,
                   doing, hang, flow, heard>>

Desk_Shutdown ==
    /\ CallerIdle /\ scopeLive
    /\ doing' = "shutting"
    /\ EnterStop(Ui)
    /\ UNCHANGED <<patient, placed, scopeLive, fields, job, cancelled, alive,
                   hang, flow, heard>>

\* scope.cancel: every job is cancelled, and hangups still in their delay end.
Desk_ShutdownEnd ==
    /\ doing = "shutting" /\ ~InStop(Ui)
    /\ doing' = "idle"
    /\ scopeLive' = FALSE
    /\ cancelled' = cancelled \cup {n \in Place : job[n] \notin {"none", "done"}}
    /\ hang' = [h \in Hang |-> IF hang[h] = "delay" THEN "done" ELSE hang[h]]
    /\ UNCHANGED <<patient, placed, fields, job, alive, stopping, flow,
                   heard>>

-----------------------------------------------------------------------------
(* The coroutine of hangup.                                                  *)
Hang_Stop(h) ==
    /\ hang[h] = "delay"
    /\ hang' = [hang EXCEPT ![h] = "stopping"]
    /\ EnterStop(h)
    /\ UNCHANGED <<patient, placed, scopeLive, fields, job, cancelled, alive,
                   doing, flow, heard>>

\* Mutant: tryEmit.
Hang_EmitTries(h) ==
    /\ hang[h] = "stopping" /\ ~InStop(h)
    /\ TryEmit(h)
    /\ hang' = [hang EXCEPT ![h] = "done"]
    /\ UNCHANGED <<patient, placed, scopeLive, fields, job, cancelled, alive,
                   stopping, doing, heard>>

Hang_Emit(h) ==
    /\ hang[h] = "stopping" /\ ~InStop(h)
    /\ Emit(h)
    /\ hang' = [hang EXCEPT ![h] = "done"]
    /\ UNCHANGED <<patient, placed, scopeLive, fields, job, cancelled, alive,
                   stopping, doing, heard>>

\* The cancelled scope reaches an emit that waits for room.
Hang_Dropped(h) ==
    /\ hang[h] = "stopping" /\ ~InStop(h)
    /\ ~scopeLive /\ Len(flow) = Buffer
    /\ hang' = [hang EXCEPT ![h] = "done"]
    /\ UNCHANGED <<patient, placed, scopeLive, fields, job, cancelled, alive,
                   stopping, doing, flow, heard>>

-----------------------------------------------------------------------------
(* The coroutine that runs a baresip and reads what it prints.               *)
JobStep(n, from, to) == job[n] = from /\ job' = [job EXCEPT ![n] = to]

\* A job cancelled before its first step never runs.
Job_Skipped(n) ==
    /\ n \in cancelled
    /\ JobStep(n, "launched", "done")
    /\ UNCHANGED <<patient, placed, scopeLive, fields, cancelled, alive, stopping,
                   doing, hang, flow, heard>>

\* ProcessBuilder.start, which nothing interrupts.
Job_Start(n) ==
    /\ n \notin cancelled
    /\ \/ JobStep(n, "launched", "started")
          /\ alive' = alive \cup {n} /\ UNCHANGED flow
       \/ JobStep(n, "launched", "done")
          /\ TryEmit(None) /\ UNCHANGED alive
    /\ UNCHANGED <<patient, placed, scopeLive, fields, cancelled, stopping, doing,
                   hang, heard>>

Job_SetProcess(n) ==
    /\ JobStep(n, "started", "check")
    /\ process' = n
    /\ UNCHANGED <<patient, placed, scopeLive, stdoutJob, cancelled, alive,
                   stopping, doing, hang, flow, heard>>

\* while (isActive)
Job_Check(n) ==
    /\ JobStep(n, "check", IF n \in cancelled THEN "waiting" ELSE "reading")
    /\ UNCHANGED <<patient, placed, scopeLive, fields, cancelled, alive, stopping,
                   doing, hang, flow, heard>>

Job_ReadLine(n) ==
    /\ \E line \in Line : JobStep(n, "reading", line)
    /\ UNCHANGED <<patient, placed, scopeLive, fields, cancelled, alive, stopping,
                   doing, hang, flow, heard>>

\* End of the stream, or the stream closed by destroy while it is being read.
Job_ReadEnds(n) ==
    /\ n \notin alive
    /\ \/ JobStep(n, "reading", "waiting") /\ UNCHANGED flow
       \/ JobStep(n, "reading", "done") /\ TryEmit(None)
    /\ UNCHANGED <<patient, placed, scopeLive, fields, cancelled, alive, stopping,
                   doing, hang, heard>>

\* parseLine
Job_Parse(n) ==
    /\ job[n] \in Line
    /\ TryEmit(None)
    /\ IF job[n] = "closed" THEN JobStep(n, job[n], "stopping") /\ EnterStop(n)
                            ELSE JobStep(n, job[n], "check") /\ UNCHANGED stopping
    /\ UNCHANGED <<patient, placed, scopeLive, fields, cancelled, alive,
                   doing, hang, heard>>

Job_Stopped(n) ==
    /\ ~InStop(n)
    /\ JobStep(n, "stopping", "check")
    /\ UNCHANGED <<patient, placed, scopeLive, fields, cancelled, alive, stopping,
                   doing, hang, flow, heard>>

\* waitFor up to 2 s, then destroyForcibly.
Job_Wait(n) ==
    /\ JobStep(n, "waiting", "done")
    /\ alive' = alive \ {n}
    /\ UNCHANGED <<patient, placed, scopeLive, fields, cancelled, stopping, doing,
                   hang, flow, heard>>

\* baresip ends by itself, after /quit or for reasons of its own.
Baresip_Exit(n) ==
    /\ n \in alive
    /\ alive' = alive \ {n}
    /\ UNCHANGED <<patient, placed, scopeLive, fields, job, cancelled, stopping,
                   doing, hang, flow, heard>>

-----------------------------------------------------------------------------
CallerStep == Desk_PlaceCallLaunch \/ Desk_PlaceCallAssign \/ Desk_ShutdownEnd

JobRuns(n) ==
    \/ Job_Skipped(n) \/ Job_Start(n) \/ Job_SetProcess(n)
    \/ Job_Check(n) \/ Job_Parse(n) \/ Job_Stopped(n) \/ Job_Wait(n)

HangRuns(h) == Hang_Stop(h) \/ Hang_Emit(h) \/ Hang_Dropped(h)

DeskNext ==
    \/ Desk_Collect
    \/ \E a \in Actor : StopProcess(a)
    \/ Desk_Start \/ Desk_PlaceCallInvalid \/ Desk_PlaceCallBegin
    \/ Desk_Hangup \/ Desk_StopService \/ Desk_Shutdown
    \/ CallerStep
    \/ \E h \in Hang : HangRuns(h)
    \/ \E n \in Place : JobRuns(n) \/ Job_ReadLine(n) \/ Job_ReadEnds(n) \/ Baresip_Exit(n)

(* The threads are scheduled and the application collects its events; it may *)
(* stop calling, and baresip promises nothing.                               *)
DeskFairness ==
    /\ WF_deskVars(Desk_Collect) /\ WF_deskVars(CallerStep)
    /\ \A a \in Actor : WF_deskVars(StopProcess(a))
    /\ \A h \in Hang : SF_deskVars(HangRuns(h))
    /\ \A n \in Place : WF_deskVars(JobRuns(n))

DeskSpec == DeskInit /\ [][DeskNext]_deskVars /\ DeskFairness

-----------------------------------------------------------------------------
DeskTypeOK ==
    /\ patient \in BOOLEAN /\ scopeLive \in BOOLEAN
    /\ placed \in {0} \cup Place
    /\ process \in Place \cup {None} /\ stdoutJob \in Place \cup {None}
    /\ job \in [Place -> JobState] /\ hang \in [Hang -> HangState]
    /\ cancelled \subseteq Place /\ alive \subseteq Place
    /\ stopping \in [Actor -> {"no", "cancel", "destroy", "clear"}]
    /\ doing \in {"idle", "placing", "launched", "shutting"}
    /\ flow \in Seq(DeskEvent) /\ Len(flow) <= Buffer
    /\ heard \subseteq Hang

(* A baresip that stopProcess does not find in the field process, or whose   *)
(* reader was cancelled, ends: one started by a job that was already          *)
(* cancelled, or whose field was not yet set when stopProcess looked, is      *)
(* destroyed by its own reader.                                               *)
(* For an application that lets one call end before it places the next;      *)
(* with two at once the fields of one are overwritten by the other's         *)
(* stopProcess, and the property fails.                                      *)
Lost(n) == n \in alive /\ (process # n \/ n \in cancelled)

LostCallEnds == \A n \in Place : (patient /\ Lost(n)) ~> ~Lost(n)

(* Every hangup is answered with a CallClosed the application collects,      *)
(* however slowly it does, and whatever else it calls but shutdown.          *)
HangupIsReported ==
    \A h \in Hang : (hang[h] = "delay") ~> (h \in heard \/ ~scopeLive)

=============================================================================
