----------------------------- MODULE SimulatedSip -----------------------------
(***************************************************************************)
(* SimulatedSipEngine: the engine that only pretends, for work on the user   *)
(* interface.  Every operation cancels the coroutine of the one before and   *)
(* launches its own, on a pool of threads; a cancellation takes effect when  *)
(* the coroutine next suspends, so one that is past its delay still emits.   *)
(***************************************************************************)
EXTENDS Naturals, Sequences

CONSTANTS
    MaxJob,       \* bound: the operations that are called
    SimBuffer     \* extraBufferCapacity of the event flow

ASSUME SimAssumption == MaxJob \in Nat \ {0} /\ SimBuffer \in Nat \ {0}

VARIABLES
    jobs,         \* coroutines launched so far: numbers 1..jobs
    kind,         \* what each was launched for
    at,           \* where it is
    dropped,      \* jobs whose cancellation has been asked for
    simLive,      \* the engine's CoroutineScope is not cancelled
    simFlow,      \* events emitted and not collected
    simHeard      \* events the application has collected (history)

simVars == <<jobs, kind, at, dropped, simLive, simFlow, simHeard>>

Job == 1..MaxJob
SimEvent == [ev : {"ringing", "established", "closed"}, of : Job]
SimStage == {"none", "launched", "delay1", "ring", "delay2", "establish", "close", "done"}

SimInit ==
    /\ jobs = 0
    /\ kind = [n \in Job |-> "none"] /\ at = [n \in Job |-> "none"]
    /\ dropped = {} /\ simLive = TRUE
    /\ simFlow = <<>> /\ simHeard = {}

-----------------------------------------------------------------------------
\* Mutant: the new coroutine is stored first, and cancelled in its turn.
SimLaunch_ThenCancel(k) ==
    /\ jobs < MaxJob
    /\ jobs' = jobs + 1
    /\ dropped' = dropped \cup {jobs'}
    /\ kind' = [kind EXCEPT ![jobs'] = k]
    /\ at' = [at EXCEPT ![jobs'] = IF simLive THEN "launched" ELSE "done"]
    /\ UNCHANGED <<simLive, simFlow, simHeard>>

\* callJob?.cancel(), then callJob = scope.launch { ... }: callJob is always
\* the latest job.
SimLaunch(k) ==
    /\ jobs < MaxJob
    /\ jobs' = jobs + 1
    /\ dropped' = dropped \cup ({jobs} \ {0})
    /\ kind' = [kind EXCEPT ![jobs'] = k]
    /\ at' = [at EXCEPT ![jobs'] = IF simLive THEN "launched" ELSE "done"]
    /\ UNCHANGED <<simLive, simFlow, simHeard>>

Sim_PlaceCall == SimLaunch("call")
Sim_Hangup == SimLaunch("hangup")          \* and stopService

Sim_Shutdown ==
    /\ simLive
    /\ simLive' = FALSE
    /\ dropped' = dropped \cup 1..jobs
    /\ UNCHANGED <<jobs, kind, at, simFlow, simHeard>>

-----------------------------------------------------------------------------
Goes(n, from, to) == at[n] = from /\ at' = [at EXCEPT ![n] = to]
KeepRest == UNCHANGED <<jobs, kind, dropped, simLive, simHeard>>

\* A cancelled coroutine ends where it waits, or before it has begun.
Sim_Cancelled(n) ==
    /\ n \in dropped
    /\ \/ \E s \in {"launched", "delay1", "delay2"} : Goes(n, s, "done")
       \/ /\ Len(simFlow) = SimBuffer
          /\ \E s \in {"ring", "establish", "close"} : Goes(n, s, "done")
    /\ UNCHANGED simFlow /\ KeepRest

Sim_Begin(n) ==
    /\ n \notin dropped
    /\ Goes(n, "launched", IF kind[n] = "call" THEN "delay1" ELSE "close")
    /\ UNCHANGED simFlow /\ KeepRest

\* The delay is over, unless the coroutine is cancelled first.
Sim_Wake(n) ==
    /\ n \notin dropped
    /\ Goes(n, "delay1", "ring") \/ Goes(n, "delay2", "establish")
    /\ UNCHANGED simFlow /\ KeepRest

\* emit: waits for room, and does not look at a cancellation otherwise.
SimEmit(n, ev) ==
    /\ Len(simFlow) < SimBuffer
    /\ simFlow' = Append(simFlow, [ev |-> ev, of |-> n])
    /\ KeepRest

Sim_Ring(n) == Goes(n, "ring", "delay2") /\ SimEmit(n, "ringing")
Sim_Establish(n) == Goes(n, "establish", "done") /\ SimEmit(n, "established")
Sim_Close(n) == Goes(n, "close", "done") /\ SimEmit(n, "closed")

Sim_Collect ==
    /\ simFlow # <<>>
    /\ simFlow' = Tail(simFlow)
    /\ simHeard' = simHeard \cup {Head(simFlow)}
    /\ UNCHANGED <<jobs, kind, at, dropped, simLive>>

SimJobRuns(n) == \/ Sim_Cancelled(n) \/ Sim_Begin(n) \/ Sim_Wake(n)
                 \/ Sim_Ring(n) \/ Sim_Establish(n) \/ Sim_Close(n)

SimNext == \/ Sim_PlaceCall \/ Sim_Hangup \/ Sim_Shutdown \/ Sim_Collect
           \/ \E n \in Job : SimJobRuns(n)

\* The pool runs every coroutine, and the application collects.  An emit that
\* waits for room need not win a race: the others emit two events at most.
SimFairness == WF_simVars(Sim_Collect) /\ \A n \in Job : WF_simVars(SimJobRuns(n))

SimSpec == SimInit /\ [][SimNext]_simVars /\ SimFairness

-----------------------------------------------------------------------------
SimTypeOK ==
    /\ jobs \in 0..MaxJob /\ dropped \subseteq 1..jobs /\ simLive \in BOOLEAN
    /\ kind \in [Job -> {"none", "call", "hangup"}] /\ at \in [Job -> SimStage]
    /\ simFlow \in Seq(SimEvent) /\ Len(simFlow) <= SimBuffer
    /\ simHeard \subseteq SimEvent

(* The last operation has its outcome: a call that nobody ends is            *)
(* established, and a hangup that no other operation overtakes is reported.  *)
LastWordIsHeard ==
    \A n \in Job :
        (jobs = n) ~>
            \/ jobs # n \/ ~simLive
            \/ [ev |-> IF kind[n] = "call" THEN "established" ELSE "closed",
                of |-> n] \in simHeard

=============================================================================
