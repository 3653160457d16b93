------------------------------ MODULE Telephony ------------------------------
(***************************************************************************)
(* The native SIP core shared by Android and iOS (sip/native/telephony.c)   *)
(* with the parts of libre and baresip it is built on: the message queue,   *)
(* the re_main loop and the list of User-Agents with their calls.           *)
(*                                                                          *)
(* Two threads meet here.  The SIP thread runs telephony_init, re_main and  *)
(* tel_done; every command handler and every network event is one callback  *)
(* of re_main, so each of them is one atomic step.  The platform thread     *)
(* (the Android main thread, the iOS caller) runs telephony_cmd, which      *)
(* loads the global g_messageQueue and then writes to its pipe, without a   *)
(* lock: those are two steps, and the SIP thread may run between them.      *)
(*                                                                          *)
(* User-Agents are heap addresses, so a freed one may be allocated again,   *)
(* and a pointer to it (uag.ua_cur) may dangle.  Calls are SIP dialogs and  *)
(* are never reused.  The events neither platform looks at (REGISTERING,    *)
(* REGISTER_OK, UNREGISTERING, CALL_INCOMING, CALL_LOCAL_SDP, ...) change   *)
(* nothing and are left out of the inbox.                                   *)
(***************************************************************************)
EXTENDS Integers, Sequences, FiniteSets

CONSTANTS
    Ua,           \* addresses a struct ua can be allocated at
    Call,         \* the calls (SIP dialogs) of the whole run
    NoUa,         \* the NULL struct ua pointer
    NoCall,       \* the NULL struct call pointer
    Code,         \* final status codes of a call; 0 is "no response"
    MaxSession,   \* bound: how many times telephony_init is run
    MaxPipe,      \* bound: commands waiting in the pipe
    MaxInbox      \* bound: with so many messages not yet taken, the network
                  \* sends no more and the platform issues no command

ASSUME NullAssumption == NoUa \notin Ua /\ NoCall \notin Call
ASSUME FiniteAssumption == IsFiniteSet(Call)
ASSUME CodeAssumption == Code \subseteq Nat /\ 0 \in Code
ASSUME BoundAssumption == /\ MaxSession \in Nat \ {0}
                          /\ MaxPipe \in Nat \ {0}
                          /\ MaxInbox \in Nat \ {0}

VARIABLES
    phase,        \* where the SIP thread is in telephony.c
    session,      \* how many times telephony_init has been entered
    mq,           \* g_messageQueue: "null", "live", or "freed" but not yet reset
    pipe,         \* the commands in the pipe of the live queue, oldest first
    pushCmd,      \* the command telephony_cmd is pushing, or "none"
    pushPtr,      \* the queue it loaded: the session that allocated it, 0 for NULL
    ual,          \* uag.ual, the allocated User-Agents
    uaCur,        \* uag.ua_cur
    registered,   \* User-Agents whose registration client is running
    owner,        \* the User-Agent in whose list a call is
    state,        \* the state of a call
    gCall,        \* g_call
    inbox         \* what notifyEvent has handed to the platform, oldest first

vars == <<phase, session, mq, pipe, pushCmd, pushPtr, ual, uaCur, registered,
          owner, state, gCall, inbox>>
loopVars == <<ual, uaCur, registered, owner, state, gCall>>
pushVars == <<pushCmd, pushPtr>>

-----------------------------------------------------------------------------
Command == {"AUDIO_CALL", "HANGUP", "STOP"}
Event == {"REGISTER_FAIL", "RINGING", "ESTABLISHED", "CLOSED"}
Phase == {"off", "init", "ready", "loop", "cancelled", "freeing", "closing",
          "failed", "crashed"}
LiveState == {"outgoing", "ringing", "established", "incoming"}

\* id and code are what the platform receives; "of" is the call the event is
\* really about, which telephony.c does not pass on.
Message == [ev : Event, id : Call \cup {NoCall}, code : Code,
            of : Call \cup {NoCall}]

Live == {c \in Call : state[c] \in LiveState}
CallsOf(u) == {c \in Live : owner[c] = u}

\* config->call.max_calls, which only an incoming call is measured against
MaxCalls == 1

\* re_main is dispatching callbacks: until the round that handled STOP is over
Dispatching == phase \in {"loop", "cancelled"}
Room == Len(inbox) < MaxInbox

-----------------------------------------------------------------------------
(* event_listener of telephony.c, called by ua_event with the call the event *)
(* is about and that call's status code.  It looks at g_call instead.        *)
CallIdOf(c) == c

\* Mutant: RINGING carries the account of the User-Agent, which event_listener
\* also gets, in place of the call's id.
Notification_Account(ev, c, code) ==
    [ev   |-> ev,
     id   |-> IF ev = "RINGING" /\ gCall # NoCall THEN owner[gCall] ELSE NoCall,
     code |-> IF ev = "CLOSED" /\ c = gCall THEN code ELSE 0,
     of   |-> c]

Notification(ev, c, code) ==
    [ev   |-> ev,
     id   |-> IF ev = "RINGING" THEN CallIdOf(gCall) ELSE NoCall,
     code |-> IF ev = "CLOSED" /\ c = gCall THEN code ELSE 0,
     of   |-> c]

\* Mutant: g_call is not cleared when a call closes.
EventListener_Keeps(ev, c, code) ==
    /\ inbox' = Append(inbox, Notification(ev, c, code))
    /\ UNCHANGED gCall

EventListener(ev, c, code) ==
    /\ inbox' = Append(inbox, Notification(ev, c, code))
    /\ gCall' = IF ev = "CLOSED" THEN NoCall ELSE gCall

\* mem_deref of a call: call_destructor takes it out of its User-Agent's list.
FreeCall(c) == state' = [state EXCEPT ![c] = "dead"]

(* uag_current: the list decides about NULL, the pointer is never reset.     *)
CurrentUa == IF ual = {} THEN NoUa ELSE uaCur

-----------------------------------------------------------------------------
Init ==
    /\ phase = "off"
    /\ session = 0
    /\ mq = "null"
    /\ pipe = <<>>
    /\ pushCmd = "none"
    /\ pushPtr = 0
    /\ ual = {}
    /\ uaCur = NoUa
    /\ registered = {}
    /\ owner = [c \in Call |-> NoUa]
    /\ state = [c \in Call |-> "new"]
    /\ gCall = NoCall
    /\ inbox = <<>>

-----------------------------------------------------------------------------
(* telephony_init: libre, configuration, modules, User-Agents, listener, and *)
(* the queue last.                                                           *)
EnterInit ==
    /\ phase \in {"off", "failed"}
    /\ session < MaxSession
    /\ phase' = "init"
    /\ session' = session + 1
    /\ UNCHANGED <<mq, pipe, pushVars, loopVars, inbox>>

InitDone ==
    /\ phase = "init"
    /\ phase' = "ready"
    /\ mq' = "live"
    /\ pipe' = <<>>
    /\ UNCHANGED <<session, pushVars, loopVars, inbox>>

\* Any of its steps fails: tel_done runs on what was built, which holds no
\* User-Agent, no call and no queue.
InitFails ==
    /\ phase = "init"
    /\ phase' = "failed"
    /\ UNCHANGED <<session, mq, pipe, pushVars, loopVars, inbox>>

(* telephony_mainLoop enters re_main, or poll_setup fails there.             *)
MainLoop ==
    /\ phase = "ready"
    /\ phase' \in {"loop", "freeing"}
    /\ gCall' = IF phase' = "freeing" THEN NoCall ELSE gCall
    /\ mq' = IF phase' = "freeing" THEN "freed" ELSE mq
    /\ UNCHANGED <<session, pipe, pushVars, ual, uaCur, registered, owner,
                   state, inbox>>

\* fd_poll fails with anything but EINTR: re_main returns and tel_done begins,
\* with whatever calls and commands there are.
LoopFails ==
    /\ phase = "loop"
    /\ phase' = "freeing"
    /\ gCall' = NoCall
    /\ mq' = "freed"
    /\ UNCHANGED <<session, pipe, pushVars, ual, uaCur, registered, owner,
                   state, inbox>>

-----------------------------------------------------------------------------
(* telephony_cmd on the platform thread: load the global, then mqueue_push.  *)
Command_Load(cmd) ==
    /\ pushCmd = "none"
    /\ phase # "crashed"
    /\ Room
    /\ pushCmd' = cmd
    /\ pushPtr' = IF mq = "null" THEN 0 ELSE session
    /\ UNCHANGED <<phase, session, mq, pipe, loopVars, inbox>>

Pushed == pushCmd' = "none" /\ pushPtr' = 0

\* mqueue_push(NULL) is EINVAL, which telephony_cmd ignores.
Command_Null ==
    /\ pushCmd # "none"
    /\ phase # "crashed"
    /\ pushPtr = 0
    /\ Pushed
    /\ UNCHANGED <<phase, session, mq, pipe, loopVars, inbox>>

Command_Write ==
    /\ pushCmd # "none"
    /\ phase # "crashed"
    /\ pushPtr = session /\ mq = "live"
    /\ Len(pipe) < MaxPipe
    /\ pipe' = Append(pipe, pushCmd)
    /\ Pushed
    /\ UNCHANGED <<phase, session, mq, loopVars, inbox>>

DanglingPush == pushCmd # "none" /\ pushPtr # 0
                /\ ~(pushPtr = session /\ mq = "live")

\* The queue it loaded has been freed: the write hits a closed descriptor and
\* is lost, hits the descriptor of a newer queue, or the process dies.
Command_Dangling ==
    /\ DanglingPush
    /\ phase # "crashed"
    /\ \/ UNCHANGED <<phase, pipe>>
       \/ /\ mq = "live" /\ Len(pipe) < MaxPipe
          /\ pipe' = Append(pipe, pushCmd)
          /\ UNCHANGED phase
       \/ phase' = "crashed" /\ UNCHANGED pipe
    /\ Pushed
    /\ UNCHANGED <<session, mq, loopVars, inbox>>

-----------------------------------------------------------------------------
(* mqueue_handler: one command per readable event of the pipe.  Commands     *)
(* behind STOP stay in the pipe, since the loop ends with the same round.    *)
Dequeue(cmd) ==
    /\ phase = "loop"
    /\ pipe # <<>>
    /\ Head(pipe) = cmd
    /\ pipe' = Tail(pipe)
    /\ UNCHANGED <<session, mq, pushVars>>

(* cmd_audioCall: a new User-Agent for every call.                           *)
UaAlloc(u) ==
    /\ u \in Ua \ ual
    /\ ual' = ual \cup {u}
    /\ uaCur' = IF uaCur = NoUa THEN u ELSE uaCur

AudioCall_Connect ==
    /\ Dequeue("AUDIO_CALL")
    /\ \E u \in Ua, c \in Call :
         /\ UaAlloc(u)
         /\ state[c] = "new"
         /\ registered' = registered \cup {u}
         /\ owner' = [owner EXCEPT ![c] = u]
         /\ state' = [state EXCEPT ![c] = "outgoing"]
         /\ gCall' = c
    /\ UNCHANGED <<phase, inbox>>

\* ua_alloc fails: nothing was linked.
AudioCall_NoUa ==
    /\ Dequeue("AUDIO_CALL")
    /\ UNCHANGED <<phase, loopVars, inbox>>

\* ua_register (which reports REGISTER_FAIL) or ua_connect fails: the
\* User-Agent is freed again, and ua_cur keeps the address if it took it.
AudioCall_Fails ==
    /\ Dequeue("AUDIO_CALL")
    /\ \E u \in Ua \ ual : uaCur' = IF uaCur = NoUa THEN u ELSE uaCur
    /\ \/ EventListener("REGISTER_FAIL", NoCall, 0)
       \/ UNCHANGED <<gCall, inbox>>
    /\ UNCHANGED <<phase, ual, registered, owner, state>>

(* cmd_hangup: ua_hangup of g_call, or of the current User-Agent's own call  *)
(* when g_call is NULL; then ua_unregister of the current User-Agent.        *)
HangupTarget ==
    IF gCall # NoCall THEN {gCall}
    ELSE CallsOf(CurrentUa)

\* Mutant: the call is dropped without ua_event.
Hangup_Silent ==
    /\ Dequeue("HANGUP")
    /\ CurrentUa # NoUa
    /\ \E c \in HangupTarget : gCall' = NoCall /\ FreeCall(c)
    /\ registered' = registered \ {CurrentUa}
    /\ UNCHANGED <<phase, ual, uaCur, owner, inbox>>

Hangup_Close ==
    /\ Dequeue("HANGUP")
    /\ CurrentUa # NoUa
    /\ \E c \in HangupTarget :
         /\ EventListener("CLOSED", c, 0)
         /\ FreeCall(c)
    /\ registered' = registered \ {CurrentUa}
    /\ UNCHANGED <<phase, ual, uaCur, owner>>

Hangup_NoCall ==
    /\ Dequeue("HANGUP")
    /\ \/ CurrentUa = NoUa
       \/ HangupTarget = {}
    /\ registered' = registered \ {CurrentUa}
    /\ UNCHANGED <<phase, ual, uaCur, owner, state, gCall, inbox>>

\* ua_cur dangles: ua_call, resume_call and ua_unregister read freed memory,
\* which either still looks like an empty User-Agent (the cases above) or not.
Hangup_Dangling ==
    /\ Dequeue("HANGUP")
    /\ CurrentUa \notin ual \cup {NoUa}
    /\ phase' = "crashed"
    /\ UNCHANGED <<loopVars, inbox>>

\* Mutant: polling is left on.
Stop_Ignored ==
    /\ Dequeue("STOP")
    /\ UNCHANGED <<phase, loopVars, inbox>>

(* CMD_STOP: re_cancel clears polling; the loop tests it after this round.   *)
Stop ==
    /\ Dequeue("STOP")
    /\ phase' = "cancelled"
    /\ UNCHANGED <<loopVars, inbox>>

-----------------------------------------------------------------------------
(* Network and timer callbacks.                                              *)
NetworkUnchanged == UNCHANGED <<phase, session, mq, pipe, pushVars>>

\* Mutant: a provisional answer after the final one still rings.
Progress_Late(c) ==
    /\ Dispatching
    /\ state[c] \in {"outgoing", "ringing", "established"}
    /\ Room
    /\ EventListener("RINGING", c, 0)
    /\ NetworkUnchanged
    /\ UNCHANGED <<ual, uaCur, registered, owner, state>>

\* A provisional answer to our INVITE: 18x without media is CALL_RINGING,
\* with media it is CALL_PROGRESS, which nobody looks at.
Progress(c) ==
    /\ Dispatching
    /\ state[c] \in {"outgoing", "ringing"}
    /\ state' = [state EXCEPT ![c] = "ringing"]
    /\ \/ Room /\ EventListener("RINGING", c, 0)
       \/ UNCHANGED <<gCall, inbox>>
    /\ NetworkUnchanged
    /\ UNCHANGED <<ual, uaCur, registered, owner>>

Established(c) ==
    /\ Dispatching
    /\ state[c] \in {"outgoing", "ringing"}
    /\ Room
    /\ state' = [state EXCEPT ![c] = "established"]
    /\ EventListener("ESTABLISHED", c, 0)
    /\ NetworkUnchanged
    /\ UNCHANGED <<ual, uaCur, registered, owner>>

\* The peer, an error, the RTP timeout or (for an incoming call nobody can
\* answer) the local timeout ends a call.
CallCloses(c, code) ==
    /\ Dispatching
    /\ c \in Live
    /\ Room
    /\ EventListener("CLOSED", c, code)
    /\ FreeCall(c)
    /\ NetworkUnchanged
    /\ UNCHANGED <<ual, uaCur, registered, owner>>

\* Mutant: the calls of other User-Agents are not counted.
Incoming_PerUa(u, c) ==
    /\ Dispatching
    /\ u \in ual
    /\ state[c] = "new"
    /\ Cardinality(CallsOf(u)) <= MaxCalls
    /\ owner' = [owner EXCEPT ![c] = u]
    /\ state' = [state EXCEPT ![c] = "incoming"]
    /\ NetworkUnchanged
    /\ UNCHANGED <<ual, uaCur, registered, gCall, inbox>>

\* sipsess_conn_handler: an INVITE for one of our User-Agents.  It is refused
\* when it would exceed max_calls; otherwise it waits, or is closed at once
\* because address family or codecs do not fit.
Incoming(u, c) ==
    /\ Dispatching
    /\ u \in ual
    /\ state[c] = "new"
    /\ Cardinality(Live) + 1 <= MaxCalls
    /\ owner' = [owner EXCEPT ![c] = u]
    /\ \/ /\ state' = [state EXCEPT ![c] = "incoming"]
          /\ UNCHANGED <<gCall, inbox>>
       \/ /\ Room
          /\ FreeCall(c)
          /\ EventListener("CLOSED", c, 0)
    /\ NetworkUnchanged
    /\ UNCHANGED <<ual, uaCur, registered>>

\* register_handler: a REGISTER, first or refreshed, is refused or times out.
RegisterFails(u) ==
    /\ Dispatching
    /\ u \in registered
    /\ Room
    /\ EventListener("REGISTER_FAIL", NoCall, 0)
    /\ NetworkUnchanged
    /\ UNCHANGED <<ual, uaCur, registered, owner, state>>

-----------------------------------------------------------------------------
(* tel_done, run when re_main returns.  Freeing the queue and resetting the  *)
(* global are separate steps to the platform thread.                         *)
TelDone_FreeQueue ==
    /\ phase = "cancelled"
    /\ phase' = "freeing"
    /\ gCall' = NoCall
    /\ mq' = "freed"
    /\ UNCHANGED <<session, pipe, pushVars, ual, uaCur, registered, owner,
                   state, inbox>>

TelDone_ResetQueue ==
    /\ phase = "freeing"
    /\ phase' = "closing"
    /\ mq' = "null"
    /\ pipe' = <<>>
    /\ UNCHANGED <<session, pushVars, loopVars, inbox>>

\* Mutant: ua_stop_all is forgotten.
TelDone_KeepsUas ==
    /\ phase = "closing"
    /\ phase' = "off"
    /\ UNCHANGED <<session, mq, pipe, pushVars, loopVars, inbox>>

\* The listener is gone when ua_stop_all destroys every User-Agent with its
\* calls, so nothing is reported.
TelDone_StopAll ==
    /\ phase = "closing"
    /\ phase' = "off"
    /\ ual' = {}
    /\ registered' = {}
    /\ state' = [c \in Call |-> IF c \in Live THEN "dead" ELSE state[c]]
    /\ UNCHANGED <<session, mq, pipe, pushVars, uaCur, owner, gCall, inbox>>

\* The platform takes the next message off its queue.
Take ==
    /\ inbox # <<>>
    /\ phase # "crashed"
    /\ inbox' = Tail(inbox)
    /\ UNCHANGED <<phase, session, mq, pipe, pushVars, loopVars>>

-----------------------------------------------------------------------------
HandleCommand == \/ AudioCall_Connect \/ AudioCall_NoUa \/ AudioCall_Fails
                 \/ Hangup_Close \/ Hangup_NoCall \/ Hangup_Dangling
                 \/ Stop

Network == \/ \E c \in Call : Progress(c) \/ Established(c)
           \/ \E c \in Call, code \in Code : CallCloses(c, code)
           \/ \E u \in Ua, c \in Call : Incoming(u, c)
           \/ \E u \in Ua : RegisterFails(u)

Lifecycle == \/ EnterInit \/ InitDone \/ InitFails \/ MainLoop \/ LoopFails
             \/ TelDone_FreeQueue \/ TelDone_ResetQueue \/ TelDone_StopAll

FinishPush == Command_Null \/ Command_Write \/ Command_Dangling

Next == \/ Lifecycle
        \/ HandleCommand
        \/ Network
        \/ \E cmd \in Command : Command_Load(cmd)
        \/ FinishPush
        \/ Take

(* The SIP thread and the platform thread are scheduled, and level-triggered *)
(* polling reports a readable pipe in every round; the network promises      *)
(* nothing, nobody promises a command or another session, and polling need   *)
(* not fail.                                                                 *)
Fairness == /\ WF_vars(InitDone \/ InitFails)
            /\ WF_vars(MainLoop)
            /\ WF_vars(HandleCommand)
            /\ WF_vars(TelDone_FreeQueue)
            /\ WF_vars(TelDone_ResetQueue)
            /\ WF_vars(TelDone_StopAll)
            /\ WF_vars(FinishPush)
            /\ WF_vars(Take)

Spec == Init /\ [][Next]_vars /\ Fairness

-----------------------------------------------------------------------------
TypeOK ==
    /\ phase \in Phase
    /\ session \in 0..MaxSession
    /\ mq \in {"null", "live", "freed"}
    /\ pipe \in Seq(Command)
    /\ pushCmd \in Command \cup {"none"}
    /\ pushPtr \in 0..MaxSession
    /\ ual \subseteq Ua
    /\ uaCur \in Ua \cup {NoUa}
    /\ registered \subseteq Ua
    /\ owner \in [Call -> Ua \cup {NoUa}]
    /\ state \in [Call -> LiveState \cup {"new", "dead"}]
    /\ gCall \in Call \cup {NoCall}
    /\ inbox \in Seq(Message)

(* g_call never dangles: it is an outgoing call that is still in the list of *)
(* a User-Agent that is still allocated, whatever calls were closed, by      *)
(* whom, on which User-Agent; and it is NULL whenever re_main is not running.*)
GCallIsLive ==
    gCall # NoCall => /\ phase \in {"loop", "cancelled", "crashed"}
                      /\ gCall \in Live
                      /\ state[gCall] # "incoming"
                      /\ owner[gCall] \in ual

(* Every live call is in the list of an allocated User-Agent, and no two of  *)
(* them are in the same list, so "the current call" of a User-Agent          *)
(* (ua_call, the one added last) is unambiguous: a User-Agent per outgoing   *)
(* call and max_calls together see to it.                                    *)
OneCallPerUa ==
    /\ \A c \in Live : owner[c] \in ual
    /\ \A c, d \in Live : owner[c] = owner[d] => c = d

(* Two incoming calls never wait at the same time.                           *)
OneIncoming ==
    \A c, d \in Call : state[c] = "incoming" /\ state[d] = "incoming" => c = d

(* Outside re_main no call and no User-Agent is left over, so a new session  *)
(* starts clean; the queue is there exactly while the loop can read it.      *)
SessionIsClean ==
    /\ phase \in {"off", "init", "ready", "failed"} =>
          ual = {} /\ registered = {} /\ Live = {}
    /\ phase # "crashed" =>
          /\ mq = "live" <=> phase \in {"ready", "loop", "cancelled"}
          /\ mq = "freed" <=> phase = "freeing"
    /\ registered \subseteq ual

(* While re_main dispatches, a call ends exactly when a CLOSED message about *)
(* it is handed over: no call ends silently, none is reported that did not   *)
(* end, and none is reported twice.                                          *)
ReportsClose(c) == /\ Len(inbox') > Len(inbox)
                   /\ inbox'[Len(inbox')].ev = "CLOSED"
                   /\ inbox'[Len(inbox')].of = c

ClosedIsReported ==
    [][\A c \in Call : Dispatching =>
         ((state[c] # "dead" /\ state'[c] = "dead") <=> ReportsClose(c))]_vars

(* A STOP that reached the pipe ends the session.                            *)
StopEnds ==
    (mq = "live" /\ \E i \in 1..Len(pipe) : pipe[i] = "STOP")
        ~> (phase \in {"off", "crashed"})

(* ua.c: uag_current is the current User-Agent, or NULL if there is none.    *)
CurrentUaIsLive == CurrentUa \in ual \cup {NoUa}

-----------------------------------------------------------------------------
(* What the platform may rely on, CallReports, is implemented.               *)
CallStage(c) == CASE state[c] = "new" -> "unknown"
                  [] state[c] \in {"outgoing", "ringing"} -> "calling"
                  [] state[c] = "established" -> "talking"
                  [] state[c] = "incoming" -> "waiting"
                  [] state[c] = "dead" -> "gone"

Reports == INSTANCE CallReports WITH
              stage <- [c \in Call |-> CallStage(c)],
              log <- [i \in 1..Len(inbox) |-> [ev |-> inbox[i].ev,
                                               of |-> inbox[i].of]]

ImplementsCallReports == Reports!Spec
=============================================================================
