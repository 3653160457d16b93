----------------------------- MODULE WebViewSync -----------------------------
(***************************************************************************)
(* The unread counter on the web page: the effect of App that runs           *)
(* PushWebViewBridge.syncPushMessagesButton whenever the page has finished   *)
(* loading or the number of unread letters has changed.                      *)
(*                                                                          *)
(* Everything but the page runs on the main thread.  A script waits in the   *)
(* navigator until the page runs it; its answer comes back as a callback,    *)
(* later, and for a page that is busy or gone after the two seconds the      *)
(* bridge allows, or never.  A change of the effect's keys cancels the run   *)
(* in progress and starts the next one.                                      *)
(***************************************************************************)
EXTENDS Naturals, Sequences

CONSTANTS
    Unread,       \* numbers of unread letters
    NoButton,     \* what a page shows on which the script has not run
    MaxRun,       \* bound: runs of the effect
    MaxTries      \* MAX_ATTEMPTS

ASSUME SyncAssumption ==
    /\ Unread # {} /\ NoButton \notin Unread
    /\ MaxRun \in Nat \ {0} /\ MaxTries \in Nat \ {0}

VARIABLES
    unread,       \* pushCounts.unread
    loaded,       \* loadingState is Finished
    hasFunction,  \* the page has defined showPushMessagesButton
    button,       \* the number the page shows
    run,          \* the number of the current run
    sync,         \* where each run is
    count,        \* the number it was given
    tries,        \* its attempts so far
    scripts,      \* scripts on their way to the page
    answers       \* answers on their way back

pageVars == <<hasFunction, button>>
syncVars == <<unread, loaded, pageVars, run, sync, count, tries, scripts,
              answers>>

Run == 1..MaxRun
SyncState == {"none", "loop", "waiting", "expired", "delay", "ok", "gave up", "cancelled"}
Script == [run : Run, try : 1..MaxTries, count : Unread]
Answer == [run : Run, try : 1..MaxTries, result : {"ok", "missing", "error"}]

SyncInit ==
    /\ unread \in Unread /\ loaded = FALSE
    /\ hasFunction = FALSE /\ button = NoButton
    /\ run = 0
    /\ sync = [r \in Run |-> "none"] /\ tries = [r \in Run |-> 0]
    /\ count = [r \in Run |-> NoButton]
    /\ scripts = <<>> /\ answers = {}

-----------------------------------------------------------------------------
(* LaunchedEffect(state.loadingState, pushCounts.unread): the screen is      *)
(* recomposed after a change of the two, which cancels the run in progress   *)
(* and starts the next one.  A change of the count is seen some time later,  *)
(* and not at all if it is undone before; one of the loading state at once.  *)
Ended == {"ok", "gave up", "cancelled"}

\* Cancelled or not, a run that waits for an answer is never resumed.
Cancelled == [r \in Run |-> IF r = run /\ sync[r] \notin Ended THEN "cancelled" ELSE sync[r]]

\* Mutant: the effect launches a coroutine of the screen's scope instead, which
\* nothing cancels.
Restart_Keeps ==
    /\ run < MaxRun
    /\ run' = run + 1
    /\ sync' = [sync EXCEPT ![run'] = "loop"]
    /\ count' = [count EXCEPT ![run'] = unread']

Restart ==
    /\ run < MaxRun
    /\ run' = run + 1
    /\ sync' = [Cancelled EXCEPT ![run'] = "loop"]
    /\ count' = [count EXCEPT ![run'] = unread']

CountChanges ==
    /\ \E n \in Unread \ {unread} : unread' = n
    /\ UNCHANGED <<loaded, pageVars, run, sync, count, tries, scripts, answers>>

Recompose ==
    /\ loaded
    /\ run > 0 /\ count[run] # unread
    /\ UNCHANGED unread
    /\ Restart
    /\ UNCHANGED <<loaded, pageVars, tries, scripts, answers>>

PageFinished ==
    /\ ~loaded /\ loaded' = TRUE
    /\ UNCHANGED unread
    /\ Restart
    /\ UNCHANGED <<pageVars, tries, scripts, answers>>

\* Another page: the scripts on their way are lost, or run on the new one.
PageLoads ==
    /\ loaded /\ loaded' = FALSE
    /\ hasFunction' = FALSE /\ button' = NoButton
    /\ sync' = Cancelled
    /\ scripts' \in {scripts, <<>>}
    /\ UNCHANGED <<unread, run, count, tries, answers>>

-----------------------------------------------------------------------------
(* The page.                                                                 *)
FunctionAppears ==
    /\ ~hasFunction /\ hasFunction' = TRUE
    /\ UNCHANGED <<unread, loaded, button, run, sync, count, tries, scripts,
                   answers>>

PageRuns(result) ==
    /\ scripts # <<>>
    /\ scripts' = Tail(scripts)
    /\ IF hasFunction THEN result \in {"ok", "error"} ELSE result = "missing"
    /\ button' = IF result = "ok" THEN Head(scripts).count ELSE button
    /\ answers' = answers \cup {[run |-> Head(scripts).run, try |-> Head(scripts).try,
                                 result |-> result]}
    /\ UNCHANGED <<unread, loaded, hasFunction, run, sync, count, tries>>

-----------------------------------------------------------------------------
(* syncPushMessagesButton, run r.                                            *)
Sync_Ask(r) ==
    /\ sync[r] = "loop"
    /\ tries[r] < MaxTries
    /\ tries' = [tries EXCEPT ![r] = @ + 1]
    /\ \/ /\ scripts' = Append(scripts, [run |-> r, try |-> tries'[r], count |-> count[r]])
          /\ sync' = [sync EXCEPT ![r] = "waiting"]
       \/ /\ sync' = [sync EXCEPT ![r] = "delay"]        \* evaluateJavaScript throws
          /\ UNCHANGED scripts
    /\ UNCHANGED <<unread, loaded, pageVars, run, count, answers>>

Sync_GiveUp(r) ==
    /\ sync[r] = "loop"
    /\ tries[r] = MaxTries
    /\ sync' = [sync EXCEPT ![r] = "gave up"]
    /\ UNCHANGED <<unread, loaded, pageVars, run, count, tries, scripts,
                   answers>>

\* The callback resumes a continuation whose job is still active.
Resumed(a) ==
    IF sync[a.run] = "waiting" /\ tries[a.run] = a.try
    THEN [sync EXCEPT ![a.run] = IF a.result = "ok" THEN "ok" ELSE "delay"]
    ELSE sync

Callback_Answer ==
    /\ \E a \in answers : answers' = answers \ {a} /\ sync' = Resumed(a)
    /\ UNCHANGED <<unread, loaded, pageVars, run, count, tries, scripts>>

\* withTimeoutOrNull cancels its own job and waits for the block to end.
Sync_Timeout(r) ==
    /\ sync[r] = "waiting"
    /\ sync' = [sync EXCEPT ![r] = "expired"]
    /\ UNCHANGED <<unread, loaded, pageVars, run, count, tries, scripts,
                   answers>>

Sync_Again(r) ==
    /\ sync[r] = "delay"
    /\ sync' = [sync EXCEPT ![r] = "loop"]
    /\ UNCHANGED <<unread, loaded, pageVars, run, count, tries, scripts,
                   answers>>

-----------------------------------------------------------------------------
SyncRuns(r) == Sync_Ask(r) \/ Sync_GiveUp(r) \/ Sync_Timeout(r) \/ Sync_Again(r)
PageRunsScript == \E result \in {"ok", "missing", "error"} : PageRuns(result)

SyncNext ==
    \/ CountChanges \/ Recompose \/ PageFinished \/ PageLoads \/ FunctionAppears
    \/ PageRunsScript \/ Callback_Answer
    \/ \E r \in Run : SyncRuns(r)

\* The main thread and the page run on, and timeouts fire.
SyncFairness == /\ WF_syncVars(PageRunsScript) /\ WF_syncVars(Callback_Answer)
                /\ \A r \in Run : WF_syncVars(SyncRuns(r))

SyncSpec == SyncInit /\ [][SyncNext]_syncVars /\ SyncFairness

-----------------------------------------------------------------------------
SyncTypeOK ==
    /\ loaded \in BOOLEAN /\ hasFunction \in BOOLEAN
    /\ unread \in Unread /\ button \in Unread \cup {NoButton}
    /\ run \in 0..MaxRun /\ sync \in [Run -> SyncState]
    /\ tries \in [Run -> 0..MaxTries] /\ count \in [Run -> Unread \cup {NoButton}]
    /\ scripts \in Seq(Script) /\ answers \subseteq Answer

(* Once the latest run has returned true the page shows the number that run  *)
(* was given, and goes on showing it until the next run or another page: no  *)
(* script of an earlier run, which carried an older number, comes after.     *)
(* That number is the number of unread letters from one recomposition of the *)
(* screen to the next change.                                                *)
ButtonIsCurrent == run > 0 /\ loaded /\ sync[run] = "ok" => button = count[run]

(* syncPushMessagesButton returns or is cancelled, whatever the page does.   *)
SyncReturns == \A r \in Run : (sync[r] = "loop") ~> (sync[r] \in Ended)

=============================================================================
