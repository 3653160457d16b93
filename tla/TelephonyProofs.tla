--------------------------- MODULE TelephonyProofs ---------------------------
(***************************************************************************)
(* The native SIP core for every number of User-Agents, calls, sessions,    *)
(* commands and messages: the invariants of Telephony that TLC checks on a  *)
(* few of each, that calls end exactly when the platform is told, and that  *)
(* the core implements CallReports.                                         *)
(***************************************************************************)
EXTENDS Telephony, FiniteSetTheorems, TLAPS, SequenceTheorems

-----------------------------------------------------------------------------
(* Typing.                                                                   *)

\* TypeOK of everything but the inbox, to which others may add.
CoreTyped ==
    /\ phase \in Phase /\ session \in 0..MaxSession
    /\ mq \in {"null", "live", "freed"} /\ pipe \in Seq(Command)
    /\ pushCmd \in Command \cup {"none"} /\ pushPtr \in 0..MaxSession
    /\ ual \subseteq Ua /\ uaCur \in Ua \cup {NoUa} /\ registered \subseteq Ua
    /\ owner \in [Call -> Ua \cup {NoUa}]
    /\ state \in [Call -> LiveState \cup {"new", "dead"}]
    /\ gCall \in Call \cup {NoCall}

\* The two parts of TypeOK.
LEMMA TypeParts == TypeOK <=> CoreTyped /\ inbox \in Seq(Message)
  BY DEF TypeOK, CoreTyped

(* What event_listener hands over is a well-formed message, for any event    *)
(* and call and any status code.                                             *)
LEMMA NotificationType ==
    ASSUME CoreTyped, NEW ev \in Event, NEW c \in Call \cup {NoCall},
           NEW code \in Code
    PROVE  Notification(ev, c, code) \in Message
  BY CodeAssumption DEF Notification, Message, CoreTyped, CallIdOf

(* event_listener keeps g_call typed.                                        *)
LEMMA ListenerType ==
    ASSUME CoreTyped, NEW ev \in Event, NEW c \in Call \cup {NoCall},
           NEW code \in Code, EventListener(ev, c, code)
    PROVE  gCall' \in Call \cup {NoCall}
  BY DEF EventListener, CoreTyped

\* The state before the first telephony_init is typed.
LEMMA TypeInit == Init => TypeOK
  BY BoundAssumption DEF Init, TypeOK, Phase, LiveState

(* Every step keeps the types, whatever is in the inbox.                     *)
LEMMA CoreTypeStep == CoreTyped /\ [Next]_vars => CoreTyped'
<1> SUFFICES ASSUME CoreTyped, [Next]_vars PROVE CoreTyped'
  OBVIOUS
<1> USE DEF LiveState, Phase
<1>1. CASE Lifecycle
  <2>1. CASE EnterInit
    BY <2>1, BoundAssumption DEF EnterInit, CoreTyped, loopVars, pushVars
  <2>2. CASE InitDone
    BY <2>2 DEF InitDone, CoreTyped, loopVars, pushVars
  <2>3. CASE InitFails
    BY <2>3 DEF InitFails, CoreTyped, loopVars, pushVars
  <2>4. CASE MainLoop
    BY <2>4 DEF MainLoop, CoreTyped, pushVars
  <2>5. CASE TelDone_FreeQueue \/ LoopFails
    BY <2>5 DEF TelDone_FreeQueue, LoopFails, CoreTyped, pushVars
  <2>6. CASE TelDone_ResetQueue
    BY <2>6 DEF TelDone_ResetQueue, CoreTyped, loopVars, pushVars
  <2>7. CASE TelDone_StopAll
    BY <2>7 DEF TelDone_StopAll, CoreTyped, pushVars
  <2> QED BY <1>1, <2>1, <2>2, <2>3, <2>4, <2>5, <2>6, <2>7 DEF Lifecycle
<1>2. CASE HandleCommand
  <2> USE DEF Dequeue
  <2>1. CASE AudioCall_Connect
    BY <2>1 DEF AudioCall_Connect, UaAlloc, CoreTyped, pushVars
  <2>2. CASE AudioCall_NoUa
    BY <2>2 DEF AudioCall_NoUa, CoreTyped, loopVars, pushVars
  <2>3. CASE AudioCall_Fails
    <3>1. gCall' \in Call \cup {NoCall}
      BY <2>3, ListenerType, CodeAssumption DEF AudioCall_Fails, Event, CoreTyped
    <3>2. uaCur' \in Ua \cup {NoUa}
      BY <2>3 DEF AudioCall_Fails, CoreTyped
    <3> QED BY <2>3, <3>1, <3>2 DEF AudioCall_Fails, CoreTyped, pushVars
  <2>4. CASE Hangup_Close
    <3>1. PICK c \in HangupTarget : EventListener("CLOSED", c, 0) /\ FreeCall(c)
      BY <2>4 DEF Hangup_Close
    <3>2. c \in Call
      BY <3>1 DEF HangupTarget, CallsOf, Live, CoreTyped
    <3>3. gCall' \in Call \cup {NoCall}
      BY <3>1, <3>2, ListenerType, CodeAssumption DEF Event
    <3>4. state' \in [Call -> LiveState \cup {"new", "dead"}]
      BY <3>1, <3>2 DEF FreeCall, CoreTyped
    <3>5. registered' \subseteq Ua
      BY <2>4 DEF Hangup_Close, CoreTyped
    <3> QED BY <2>4, <3>3, <3>4, <3>5 DEF Hangup_Close, CoreTyped, pushVars
  <2>5. CASE Hangup_NoCall
    BY <2>5 DEF Hangup_NoCall, CoreTyped, pushVars
  <2>6. CASE Hangup_Dangling
    BY <2>6 DEF Hangup_Dangling, CoreTyped, loopVars, pushVars
  <2>7. CASE Stop
    BY <2>7 DEF Stop, CoreTyped, loopVars, pushVars
  <2> QED BY <1>2, <2>1, <2>2, <2>3, <2>4, <2>5, <2>6, <2>7 DEF HandleCommand
<1>3. CASE Network
  <2> USE DEF NetworkUnchanged
  <2>1. ASSUME NEW c \in Call, Progress(c) PROVE CoreTyped'
    <3>1. gCall' \in Call \cup {NoCall}
      BY <2>1, ListenerType, CodeAssumption DEF Progress, Event, CoreTyped
    <3> QED BY <2>1, <3>1 DEF Progress, CoreTyped, pushVars
  <2>2. ASSUME NEW c \in Call, Established(c) PROVE CoreTyped'
    <3>1. gCall' \in Call \cup {NoCall}
      BY <2>2, ListenerType, CodeAssumption DEF Established, Event
    <3> QED BY <2>2, <3>1 DEF Established, CoreTyped, pushVars
  <2>3. ASSUME NEW c \in Call, NEW code \in Code, CallCloses(c, code)
        PROVE  CoreTyped'
    <3>1. gCall' \in Call \cup {NoCall}
      BY <2>3, ListenerType DEF CallCloses, Event
    <3> QED BY <2>3, <3>1 DEF CallCloses, FreeCall, CoreTyped, pushVars
  <2>4. ASSUME NEW u \in Ua, NEW c \in Call, Incoming(u, c) PROVE CoreTyped'
    <3>1. gCall' \in Call \cup {NoCall}
      BY <2>4, ListenerType, CodeAssumption DEF Incoming, Event, CoreTyped
    <3>2. state' \in [Call -> LiveState \cup {"new", "dead"}]
      BY <2>4 DEF Incoming, FreeCall, CoreTyped
    <3> QED BY <2>4, <3>1, <3>2 DEF Incoming, CoreTyped, pushVars
  <2>5. ASSUME NEW u \in Ua, RegisterFails(u) PROVE CoreTyped'
    <3>1. gCall' \in Call \cup {NoCall}
      BY <2>5, ListenerType, CodeAssumption DEF RegisterFails, Event
    <3> QED BY <2>5, <3>1 DEF RegisterFails, CoreTyped, pushVars
  <2> QED BY <1>3, <2>1, <2>2, <2>3, <2>4, <2>5 DEF Network
<1>4. CASE \E cmd \in Command : Command_Load(cmd)
  BY <1>4, BoundAssumption DEF Command_Load, CoreTyped, loopVars
<1>5. CASE FinishPush
  <2>1. CASE Command_Null
    BY <2>1 DEF Command_Null, Pushed, CoreTyped, loopVars
  <2>2. CASE Command_Write
    BY <2>2, BoundAssumption DEF Command_Write, Pushed, CoreTyped, loopVars
  <2>3. CASE Command_Dangling
    BY <2>3, BoundAssumption DEF Command_Dangling, DanglingPush, Pushed, CoreTyped, loopVars
  <2> QED BY <1>5, <2>1, <2>2, <2>3 DEF FinishPush
<1>6. CASE Take
  BY <1>6 DEF Take, CoreTyped, loopVars, pushVars
<1>7. CASE UNCHANGED vars
  BY <1>7 DEF vars, CoreTyped
<1> QED BY <1>1, <1>2, <1>3, <1>4, <1>5, <1>6, <1>7 DEF Next

(* Every step keeps the inbox one of messages.                               *)
LEMMA InboxTypeStep ==
    CoreTyped /\ inbox \in Seq(Message) /\ [Next]_vars => inbox' \in Seq(Message)
<1> SUFFICES ASSUME CoreTyped, inbox \in Seq(Message), [Next]_vars
             PROVE  inbox' \in Seq(Message)
  OBVIOUS
<1>a. ASSUME NEW ev \in Event, NEW c \in Call \cup {NoCall}, NEW code \in Code,
             EventListener(ev, c, code)
      PROVE  inbox' \in Seq(Message)
  BY <1>a, NotificationType DEF EventListener
<1>b. Event = {"REGISTER_FAIL", "RINGING", "ESTABLISHED", "CLOSED"} /\ 0 \in Code
  BY CodeAssumption DEF Event
<1>1. CASE Lifecycle
  BY <1>1 DEF Lifecycle, EnterInit, InitDone, InitFails, MainLoop, LoopFails,
     TelDone_FreeQueue, TelDone_ResetQueue, TelDone_StopAll
<1>2. CASE HandleCommand
  <2>1. CASE Hangup_Close
    <3>1. \A c \in HangupTarget : c \in Call
      BY DEF HangupTarget, CallsOf, Live, CoreTyped
    <3>. QED BY <2>1, <3>1, <1>a, <1>b DEF Hangup_Close
  <2>2. CASE AudioCall_Fails
    BY <2>2, <1>a, <1>b DEF AudioCall_Fails
  <2>. QED
    BY <1>2, <2>1, <2>2 DEF HandleCommand, AudioCall_Connect, AudioCall_NoUa,
       Hangup_NoCall, Hangup_Dangling, Stop
<1>3. CASE Network
  <2>1. ASSUME NEW c \in Call, Progress(c) \/ Established(c) PROVE inbox' \in Seq(Message)
    BY <2>1, <1>a, <1>b DEF Progress, Established
  <2>2. ASSUME NEW c \in Call, NEW code \in Code, CallCloses(c, code)
        PROVE  inbox' \in Seq(Message)
    BY <2>2, <1>a, <1>b DEF CallCloses
  <2>3. ASSUME NEW u \in Ua, NEW c \in Call, Incoming(u, c)
        PROVE  inbox' \in Seq(Message)
    BY <2>3, <1>a, <1>b DEF Incoming
  <2>4. ASSUME NEW u \in Ua, RegisterFails(u) PROVE inbox' \in Seq(Message)
    BY <2>4, <1>a, <1>b DEF RegisterFails
  <2>. QED BY <1>3, <2>1, <2>2, <2>3, <2>4 DEF Network
<1>4. CASE (\E cmd \in Command : Command_Load(cmd)) \/ FinishPush \/ UNCHANGED vars
  BY <1>4 DEF Command_Load, FinishPush, Command_Null, Command_Write, Command_Dangling,
     Pushed, vars
<1>5. CASE Take
  BY <1>5 DEF Take
<1>. QED BY <1>1, <1>2, <1>3, <1>4, <1>5 DEF Next

\* Every step of the core keeps the types.
LEMMA TypeStep == TypeOK /\ [Next]_vars => TypeOK'
<1>1. TypeOK' <=> CoreTyped' /\ inbox' \in Seq(Message)
  BY DEF TypeOK, CoreTyped
<1>. QED BY <1>1, TypeParts, CoreTypeStep, InboxTypeStep

(* The types of all variables hold in every state of the core.               *)
THEOREM TypeCorrect == Spec => []TypeOK
  BY TypeInit, TypeStep, PTL DEF Spec

-----------------------------------------------------------------------------
(* Calls, User-Agents and g_call.  The invariants hold together: g_call      *)
(* stays live because a live call's User-Agent stays allocated, a second     *)
(* call cannot enter a list because an outgoing call brings a User-Agent of  *)
(* its own and an incoming one needs that no call is live, and a session     *)
(* starts clean because tel_done leaves nothing.                             *)
\* The two parts of SessionIsClean: what a session leaves, and the queue.
NothingLeft ==
    /\ phase \in {"off", "init", "ready", "failed"} =>
          ual = {} /\ registered = {} /\ Live = {}
    /\ registered \subseteq ual
QueueKnown ==
    phase # "crashed" => /\ mq = "live" <=> phase \in {"ready", "loop", "cancelled"}
                         /\ mq = "freed" <=> phase = "freeing"

Safety == GCallIsLive /\ OneCallPerUa /\ OneIncoming /\ NothingLeft

(* An incoming call is accepted only when no call is live at all: that is    *)
(* what counting the calls of all User-Agents against max_calls = 1 means.   *)
LEMMA IncomingAlone ==
    ASSUME Cardinality(Live) + 1 <= MaxCalls
    PROVE  Live = {}
<1>1. IsFiniteSet(Live)
  BY FiniteAssumption, FS_Subset DEF Live
<1>2. Cardinality(Live) \in Nat
  BY <1>1, FS_CardinalityType
<1>3. Cardinality(Live) = 0
  BY <1>2 DEF MaxCalls
<1> QED BY <1>1, <1>3, FS_EmptySet

\* ... and safe.
LEMMA SafetyInit == Init => Safety
  BY DEF Init, Safety, GCallIsLive, OneCallPerUa, OneIncoming, NothingLeft,
         Live, LiveState

(* Starting a session, and tearing it down.                                  *)
LEMMA LifecycleSafe == CoreTyped /\ Safety /\ Lifecycle => Safety'
<1> SUFFICES ASSUME CoreTyped, Safety, Lifecycle PROVE Safety'
  OBVIOUS
<1> USE DEF Safety, GCallIsLive, OneCallPerUa, OneIncoming, NothingLeft,
            Live, loopVars
<1>1. CASE EnterInit
  BY <1>1 DEF EnterInit
<1>2. CASE InitDone
  BY <1>2 DEF InitDone
<1>3. CASE InitFails
  BY <1>3 DEF InitFails
<1>4. CASE MainLoop
  BY <1>4 DEF MainLoop
<1>5. CASE TelDone_FreeQueue \/ LoopFails
  BY <1>5 DEF TelDone_FreeQueue, LoopFails
<1>6. CASE TelDone_ResetQueue
  BY <1>6 DEF TelDone_ResetQueue
<1>7. CASE TelDone_StopAll
  <2>1. \A c \in Call : state'[c] \notin LiveState /\ state'[c] # "incoming"
    BY <1>7 DEF TelDone_StopAll, CoreTyped, LiveState
  <2> QED BY <1>7, <2>1 DEF TelDone_StopAll
<1> QED BY <1>1, <1>2, <1>3, <1>4, <1>5, <1>6, <1>7 DEF Lifecycle

(* Ending one call, whichever it is, with g_call reset or kept at a call     *)
(* that did not end: the part common to a hangup and a close.                *)
LEMMA FreeCallSafe ==
    ASSUME CoreTyped, Safety, Dispatching, Dispatching', NEW c \in Call,
           FreeCall(c), gCall' = NoCall, registered' \subseteq registered,
           UNCHANGED <<ual, owner>>
    PROVE  Safety'
<1> USE DEF Safety, GCallIsLive, OneCallPerUa, OneIncoming, NothingLeft,
            Dispatching, Live
<1>1. \A d \in Call : state'[d] = IF d = c THEN "dead" ELSE state[d]
  BY DEF FreeCall, CoreTyped
<1>2. "dead" \notin LiveState
  BY DEF LiveState
<1>3. Live' \subseteq Live
  BY <1>1, <1>2
<1>4. OneIncoming'
  BY <1>1
<1>5. OneCallPerUa'
  BY <1>3
<1>6. NothingLeft'
  <2>1. registered' \subseteq ual'
    OBVIOUS
  <2>2. phase' \notin {"off", "init", "ready", "failed", "freeing"}
    OBVIOUS
  <2> QED BY <2>1, <2>2
<1> QED BY <1>4, <1>5, <1>6

(* The command handlers.                                                     *)
LEMMA CommandSafe == CoreTyped /\ Safety /\ HandleCommand => Safety'
<1> SUFFICES ASSUME CoreTyped, Safety, HandleCommand PROVE Safety'
  OBVIOUS
<1>1. CASE AudioCall_Connect
  <2>1. PICK u \in Ua, c \in Call :
          /\ UaAlloc(u)
          /\ state[c] = "new"
          /\ registered' = registered \cup {u}
          /\ owner' = [owner EXCEPT ![c] = u]
          /\ state' = [state EXCEPT ![c] = "outgoing"]
          /\ gCall' = c
    BY <1>1 DEF AudioCall_Connect
  <2>2. u \notin ual /\ ual' = ual \cup {u} /\ phase = "loop" /\ phase' = "loop"
        /\ mq' = mq
    BY <1>1, <2>1 DEF UaAlloc, AudioCall_Connect, Dequeue
  <2>3. \A d \in Call : /\ state'[d] = IF d = c THEN "outgoing" ELSE state[d]
                        /\ owner'[d] = IF d = c THEN u ELSE owner[d]
    BY <2>1 DEF CoreTyped
  <2>4. Live' = Live \cup {c}
    BY <2>3 DEF Live, LiveState
  <2>5. GCallIsLive'
    BY <2>1, <2>2, <2>3, <2>4 DEF GCallIsLive
  <2>6. OneCallPerUa'
    BY <2>2, <2>3, <2>4 DEF Safety, OneCallPerUa, Live
  <2>7. OneIncoming'
    BY <2>3 DEF Safety, OneIncoming
  <2>8. NothingLeft'
    BY <2>1, <2>2 DEF Safety, NothingLeft
  <2> QED BY <2>5, <2>6, <2>7, <2>8 DEF Safety
<1>2. CASE AudioCall_NoUa
  BY <1>2 DEF AudioCall_NoUa, Dequeue, loopVars, Safety, GCallIsLive,
              OneCallPerUa, OneIncoming, NothingLeft, Live
<1>3. CASE AudioCall_Fails
  <2>1. gCall' = gCall
    BY <1>3 DEF AudioCall_Fails, EventListener
  <2> QED BY <1>3, <2>1 DEF AudioCall_Fails, Dequeue, Safety, GCallIsLive,
              OneCallPerUa, OneIncoming, NothingLeft, Live
<1>4. CASE Hangup_Close
  <2>1. PICK c \in HangupTarget : EventListener("CLOSED", c, 0) /\ FreeCall(c)
    BY <1>4 DEF Hangup_Close
  <2>2. c \in Call
    BY <2>1 DEF HangupTarget, CallsOf, Live, CoreTyped
  <2>3. gCall' = NoCall
    BY <2>1 DEF EventListener
  <2>4. registered' \subseteq registered
    BY <1>4 DEF Hangup_Close
  <2> QED BY <1>4, <2>1, <2>2, <2>3, <2>4, FreeCallSafe
          DEF Hangup_Close, Dequeue, Dispatching
<1>5. CASE Hangup_NoCall
  BY <1>5 DEF Hangup_NoCall, Dequeue, Safety, GCallIsLive, OneCallPerUa,
              OneIncoming, NothingLeft, Live
<1>6. CASE Hangup_Dangling
  BY <1>6 DEF Hangup_Dangling, Dequeue, loopVars, Safety, GCallIsLive,
              OneCallPerUa, OneIncoming, NothingLeft, Live
<1>7. CASE Stop
  BY <1>7 DEF Stop, Dequeue, loopVars, Safety, GCallIsLive, OneCallPerUa,
              OneIncoming, NothingLeft, Live
<1> QED BY <1>1, <1>2, <1>3, <1>4, <1>5, <1>6, <1>7 DEF HandleCommand

(* The network.                                                              *)
LEMMA NetworkSafe == CoreTyped /\ Safety /\ Network => Safety'
<1> SUFFICES ASSUME CoreTyped, Safety, Network PROVE Safety'
  OBVIOUS
<1>1. ASSUME NEW c \in Call, Progress(c) \/ Established(c) PROVE Safety'
  <2>1. gCall' = gCall
    BY <1>1 DEF Progress, Established, EventListener
  <2>2. \A d \in Call : \/ state'[d] = state[d]
                        \/ /\ state[d] \in {"outgoing", "ringing"}
                           /\ state'[d] \in {"ringing", "established"}
    BY <1>1 DEF Progress, Established, CoreTyped
  <2>3. Live' = Live
    BY <2>2 DEF Live, LiveState
  <2>4. GCallIsLive'
    BY <1>1, <2>1, <2>2, <2>3 DEF Safety, GCallIsLive, Live, Progress,
       Established, NetworkUnchanged
  <2>5. OneIncoming'
    BY <2>2 DEF Safety, OneIncoming
  <2>6. OneCallPerUa'
    BY <1>1, <2>3 DEF Safety, OneCallPerUa, Progress, Established
  <2>7. NothingLeft'
    BY <1>1, <2>3 DEF Safety, NothingLeft, Progress, Established,
       NetworkUnchanged
  <2> QED BY <2>4, <2>5, <2>6, <2>7 DEF Safety
<1>2. ASSUME NEW c \in Call, NEW code \in Code, CallCloses(c, code)
      PROVE  Safety'
  BY <1>2, FreeCallSafe DEF CallCloses, NetworkUnchanged, Dispatching,
     EventListener
<1>3. ASSUME NEW u \in Ua, NEW c \in Call, Incoming(u, c) PROVE Safety'
  <2>1. Live = {}
    BY <1>3, IncomingAlone DEF Incoming
  <2>2. gCall = NoCall /\ gCall' = NoCall
    BY <1>3, <2>1 DEF Incoming, Safety, GCallIsLive, EventListener
  <2>3. \A d \in Call : /\ d # c => state'[d] = state[d]
                        /\ state'[c] \in {"incoming", "dead"}
                        /\ owner'[c] = u
    BY <1>3 DEF Incoming, FreeCall, CoreTyped
  <2>4. Live' \subseteq {c}
    BY <2>1, <2>3 DEF Live
  <2>5. OneCallPerUa'
    BY <1>3, <2>3, <2>4 DEF OneCallPerUa, Incoming
  <2>6. OneIncoming'
    BY <2>1, <2>3 DEF OneIncoming, Live, LiveState
  <2>7. NothingLeft'
    BY <1>3 DEF Safety, NothingLeft, Incoming, NetworkUnchanged, Dispatching
  <2> QED BY <2>2, <2>5, <2>6, <2>7 DEF Safety, GCallIsLive
<1>4. ASSUME NEW u \in Ua, RegisterFails(u) PROVE Safety'
  BY <1>4 DEF RegisterFails, EventListener, NetworkUnchanged, Safety,
     GCallIsLive, OneCallPerUa, OneIncoming, NothingLeft, Live
<1> QED BY <1>1, <1>2, <1>3, <1>4 DEF Network

(* The platform thread can free, reset or close nothing: it writes to the    *)
(* pipe, or, with a dangling queue, brings the process down.                 *)
LEMMA PlatformSafe ==
    CoreTyped /\ Safety
      /\ (FinishPush \/ Take \/ UNCHANGED vars
          \/ \E cmd \in Command : Command_Load(cmd))
    => Safety'
  BY DEF FinishPush, Command_Null, Command_Write, Command_Dangling, Take, vars,
         Command_Load, loopVars, Safety, GCallIsLive, OneCallPerUa, OneIncoming,
         NothingLeft, Live

\* Every step of either thread keeps the conjunction of the safety invariants.
LEMMA SafetyStep == CoreTyped /\ Safety /\ [Next]_vars => Safety'
  BY LifecycleSafe, CommandSafe, NetworkSafe, PlatformSafe DEF Next

(* The queue is there exactly while the loop can read it.                    *)
LEMMA QueueStep == CoreTyped /\ QueueKnown /\ [Next]_vars => QueueKnown'
<1> SUFFICES ASSUME CoreTyped, QueueKnown, [Next]_vars PROVE QueueKnown'
  OBVIOUS
<1> USE DEF QueueKnown, Dequeue, Dispatching
<1>1. CASE Lifecycle
  BY <1>1 DEF Lifecycle, EnterInit, InitDone, InitFails, MainLoop, LoopFails,
     TelDone_FreeQueue, TelDone_ResetQueue, TelDone_StopAll
<1>2. CASE HandleCommand
  BY <1>2 DEF HandleCommand, AudioCall_Connect, AudioCall_NoUa, AudioCall_Fails,
     Hangup_Close, Hangup_NoCall, Hangup_Dangling, Stop
<1>3. CASE Network
  BY <1>3 DEF Network, Progress, Established, CallCloses, Incoming, RegisterFails,
     NetworkUnchanged
<1>4. CASE (\E cmd \in Command : Command_Load(cmd)) \/ FinishPush \/ Take \/ UNCHANGED vars
  BY <1>4 DEF Command_Load, FinishPush, Command_Null, Command_Write, Command_Dangling,
     Pushed, Take, vars
<1> QED BY <1>1, <1>2, <1>3, <1>4 DEF Next

\* The conjunction holds in every state of the core.
LEMMA SafetyCorrect == Spec => [](Safety /\ QueueKnown)
<1>1. Init => CoreTyped /\ Safety /\ QueueKnown
  BY TypeInit, TypeParts, SafetyInit DEF Init, QueueKnown
<1>2. CoreTyped /\ Safety /\ QueueKnown /\ [Next]_vars => (CoreTyped /\ Safety /\ QueueKnown)'
  BY CoreTypeStep, SafetyStep, QueueStep
<1> QED BY <1>1, <1>2, PTL DEF Spec

(* telephony.c never touches a freed call through g_call, for any number of  *)
(* calls, sessions and interleavings.                                        *)
THEOREM GCallNeverDangles == Spec => []GCallIsLive
<1>1. Safety => GCallIsLive
  BY DEF Safety
<1> QED BY <1>1, SafetyCorrect, PTL

(* A User-Agent never has two calls, so its current call is unambiguous.     *)
THEOREM NoTwoCallsOnOneUa == Spec => []OneCallPerUa
<1>1. Safety => OneCallPerUa
  BY DEF Safety
<1> QED BY <1>1, SafetyCorrect, PTL

(* Incoming calls are limited to one, as max_calls = 1 says.                 *)
THEOREM NoTwoIncomingCalls == Spec => []OneIncoming
<1>1. Safety => OneIncoming
  BY DEF Safety
<1> QED BY <1>1, SafetyCorrect, PTL

(* Every session starts with no call, no User-Agent and no queue left over.  *)
THEOREM SessionsStartClean == Spec => []SessionIsClean
<1>1. Safety /\ QueueKnown => SessionIsClean
  BY DEF Safety, NothingLeft, QueueKnown, SessionIsClean
<1> QED BY <1>1, SafetyCorrect, PTL

-----------------------------------------------------------------------------
(* CallReports: every step of the core is one of its steps, or none.          *)
Stages == [c \in Call |-> CallStage(c)]
Log == [i \in 1..Len(inbox) |-> [ev |-> inbox[i].ev, of |-> inbox[i].of]]
Brief(m) == [ev |-> m.ev, of |-> m.of]

(* What CallReports is told of a message that is handed over, and of one that *)
(* is taken.                                                                 *)
LEMMA LogFollows ==
    ASSUME TypeOK
    PROVE  /\ Log \in Seq({Brief(m) : m \in Message}) /\ Len(Log) = Len(inbox)
           /\ \A i \in 1..Len(inbox) : Log[i] = Brief(inbox[i])
  BY DEF TypeOK, Log, Brief

\* A message handed over is appended to the log.
LEMMA LogAppends ==
    ASSUME TypeOK, TypeOK', NEW m \in Message, inbox' = Append(inbox, m)
    PROVE  Log' = Append(Log, Brief(m))
<1> DEFINE S == {Brief(x) : x \in Message}
<1>1. /\ Len(inbox) \in Nat /\ Len(inbox') = Len(inbox) + 1
      /\ \A i \in 1..Len(inbox) : inbox'[i] = inbox[i]
      /\ inbox'[Len(inbox) + 1] = m
  BY DEF TypeOK
<1>2. /\ Log \in Seq(S) /\ Len(Log) = Len(inbox)
      /\ \A i \in 1..Len(inbox) : Log[i] = Brief(inbox[i])
  BY LogFollows
<1>3. /\ Log' \in Seq(S) /\ Len(Log') = Len(inbox')
      /\ \A i \in 1..Len(inbox') : Log'[i] = Brief(inbox'[i])
  BY DEF TypeOK, Log, Brief
<1>4. Brief(m) \in S
  OBVIOUS
<1> HIDE DEF S
<1>5. /\ Append(Log, Brief(m)) \in Seq(S)
      /\ Len(Append(Log, Brief(m))) = Len(Log) + 1
      /\ \A i \in 1..Len(Log) : Append(Log, Brief(m))[i] = Log[i]
      /\ Append(Log, Brief(m))[Len(Log) + 1] = Brief(m)
  BY <1>2, <1>4, AppendProperties
<1>6. ASSUME NEW i \in 1..Len(Log') PROVE Log'[i] = Append(Log, Brief(m))[i]
  <2>1. CASE i \in 1..Len(inbox)
    BY <2>1, <1>1, <1>2, <1>3, <1>5
  <2>2. CASE i = Len(inbox) + 1
    BY <2>2, <1>1, <1>2, <1>3, <1>5
  <2>3. i \in 1..Len(inbox) \/ i = Len(inbox) + 1
    <3>1. Len(Log') = Len(inbox) + 1
      BY <1>1, <1>3
    <3>. QED BY <3>1, <1>1
  <2>. QED BY <2>1, <2>2, <2>3
<1>7. Len(Log') = Len(Append(Log, Brief(m)))
  BY <1>1, <1>2, <1>3, <1>5
<1>. QED BY <1>3, <1>5, <1>6, <1>7, SeqEqual

\* A message taken from the queue is taken from the log.
LEMMA LogShrinks ==
    ASSUME TypeOK, TypeOK', inbox # <<>>, inbox' = Tail(inbox)
    PROVE  Log # <<>> /\ Log' = Tail(Log)
<1> DEFINE S == {Brief(x) : x \in Message}
<1>1. /\ Len(inbox) \in Nat \ {0} /\ Len(inbox') = Len(inbox) - 1
      /\ \A i \in 1..Len(inbox) - 1 : inbox'[i] = inbox[i + 1]
  BY DEF TypeOK
<1>2. /\ Log \in Seq(S) /\ Len(Log) = Len(inbox)
      /\ \A i \in 1..Len(inbox) : Log[i] = Brief(inbox[i])
  BY LogFollows
<1>3. /\ Log' \in Seq(S) /\ Len(Log') = Len(inbox')
      /\ \A i \in 1..Len(inbox') : Log'[i] = Brief(inbox'[i])
  BY DEF TypeOK, Log, Brief
<1> HIDE DEF S
<1>4. Log # <<>>
  BY <1>1, <1>2
<1>5. /\ Tail(Log) \in Seq(S) /\ Len(Tail(Log)) = Len(Log) - 1
      /\ \A i \in 1..Len(Tail(Log)) : Tail(Log)[i] = Log[i + 1]
  BY <1>2, <1>4, HeadTailProperties
<1>6. ASSUME NEW i \in 1..Len(Log') PROVE Log'[i] = Tail(Log)[i]
  BY <1>1, <1>2, <1>3, <1>5
<1>7. Len(Log') = Len(Tail(Log))
  BY <1>1, <1>2, <1>3, <1>5
<1>. QED BY <1>3, <1>4, <1>5, <1>6, <1>7, SeqEqual

(* A call that goes from one state to another.                               *)
LEMMA StageMoves ==
    ASSUME CoreTyped, NEW c \in Call, NEW s \in LiveState \cup {"new", "dead"},
           state' = [state EXCEPT ![c] = s]
    PROVE  /\ Stages' = [Stages EXCEPT ![c] = CallStage(c)']
           /\ state'[c] = s
           /\ \A d \in Call : Stages[d] = CallStage(d)
<1>1. \A d \in Call : state'[d] = IF d = c THEN s ELSE state[d]
  BY DEF CoreTyped
<1>2. \A d \in Call : d # c => CallStage(d)' = CallStage(d)
  BY <1>1 DEF CallStage
<1>. QED BY <1>1, <1>2 DEF Stages

\* What one callback of re_main does to a call, and what it hands over.
Tells(ev, c) == \E m \in Message : m.ev = ev /\ m.of = c /\ inbox' = Append(inbox, m)
Goes(c, s) == Stages' = [Stages EXCEPT ![c] = s]
Existing == {c \in Call : Stages[c] \in {"calling", "talking", "waiting"}}

CallStep(c) ==
    \/ /\ Stages[c] = "unknown"
       /\ \/ Goes(c, "calling") /\ inbox' = inbox
          \/ Goes(c, "waiting") /\ inbox' = inbox
          \/ Goes(c, "gone") /\ Tells("CLOSED", c)
    \/ /\ Stages[c] = "calling"
       /\ \/ Stages' = Stages /\ Tells("RINGING", c)
          \/ Goes(c, "talking") /\ Tells("ESTABLISHED", c)
    \/ c \in Existing /\ Goes(c, "gone") /\ Tells("CLOSED", c)

CallbackStep ==
    \/ \E c \in Call : CallStep(c)
    \/ Stages' = Stages /\ (Tells("REGISTER_FAIL", NoCall) \/ inbox' = inbox)

(* event_listener hands over the event of the call it is told about.         *)
LEMMA ListenerTells ==
    ASSUME CoreTyped, NEW ev \in Event, NEW c \in Call \cup {NoCall},
           NEW code \in Code, EventListener(ev, c, code)
    PROVE  Tells(ev, c)
<1>1. Notification(ev, c, code) \in Message
  BY NotificationType
<1>2. Notification(ev, c, code).ev = ev /\ Notification(ev, c, code).of = c
  BY DEF Notification
<1>. QED BY <1>1, <1>2 DEF EventListener, Tells

(* A live call that is freed and reported as CLOSED ends.                    *)
LEMMA CloseEnds ==
    ASSUME CoreTyped, NEW c \in Live, NEW code \in Code,
           FreeCall(c), EventListener("CLOSED", c, code)
    PROVE  c \in Call /\ CallStep(c)
<1>1. c \in Call /\ "CLOSED" \in Event
  BY DEF Live, Event
<1>2. Tells("CLOSED", c)
  BY <1>1, ListenerTells
<1>3. /\ Stages' = [Stages EXCEPT ![c] = CallStage(c)']
      /\ state'[c] = "dead" /\ Stages[c] = CallStage(c)
  BY <1>1, StageMoves DEF FreeCall
<1>4. CallStage(c)' = "gone"
  BY <1>3 DEF CallStage
<1>5. CallStage(c) \in {"calling", "talking", "waiting"}
  BY DEF Live, LiveState, CallStage
<1>. QED BY <1>1, <1>2, <1>3, <1>4, <1>5 DEF CallStep, Goes, Existing

(* The command handlers.                                                     *)
LEMMA CommandReports ==
    ASSUME CoreTyped, Safety, HandleCommand
    PROVE  CallbackStep
<1>1. CASE AudioCall_Connect
  <2>1. PICK c \in Call : /\ state[c] = "new"
                          /\ state' = [state EXCEPT ![c] = "outgoing"]
    BY <1>1 DEF AudioCall_Connect
  <2>2. inbox' = inbox
    BY <1>1 DEF AudioCall_Connect
  <2>3. /\ Stages' = [Stages EXCEPT ![c] = CallStage(c)']
        /\ state'[c] = "outgoing" /\ Stages[c] = CallStage(c)
    BY <2>1, StageMoves DEF LiveState
  <2>4. CallStage(c) = "unknown" /\ CallStage(c)' = "calling"
    BY <2>1, <2>3 DEF CallStage
  <2>. QED BY <2>2, <2>3, <2>4 DEF CallbackStep, CallStep, Goes
<1>2. CASE AudioCall_NoUa \/ Hangup_NoCall \/ Hangup_Dangling \/ Stop
  <2>1. UNCHANGED <<state, inbox>>
    BY <1>2 DEF AudioCall_NoUa, Hangup_NoCall, Hangup_Dangling, Stop, loopVars
  <2>. QED BY <2>1 DEF CallbackStep, Stages, CallStage
<1>3. CASE AudioCall_Fails
  <2>1. Stages' = Stages
    BY <1>3 DEF AudioCall_Fails, Stages, CallStage
  <2>2. CASE EventListener("REGISTER_FAIL", NoCall, 0)
    <3>1. Tells("REGISTER_FAIL", NoCall)
      BY <2>2, ListenerTells, CodeAssumption DEF Event
    <3>. QED BY <2>1, <3>1 DEF CallbackStep
  <2>3. CASE UNCHANGED inbox
    BY <2>1, <2>3 DEF CallbackStep
  <2>. QED BY <1>3, <2>2, <2>3 DEF AudioCall_Fails
<1>4. CASE Hangup_Close
  <2>1. PICK c \in HangupTarget : EventListener("CLOSED", c, 0) /\ FreeCall(c)
    BY <1>4 DEF Hangup_Close
  <2>2. c \in Live
    BY <2>1 DEF HangupTarget, CallsOf, Safety, GCallIsLive
  <2>. QED BY <2>1, <2>2, CloseEnds, CodeAssumption DEF CallbackStep
<1>. QED BY <1>1, <1>2, <1>3, <1>4 DEF HandleCommand

(* The network.                                                              *)
LEMMA NetworkReports ==
    ASSUME CoreTyped, Network
    PROVE  CallbackStep
<1>1. ASSUME NEW c \in Call, Progress(c) PROVE CallbackStep
  <2>1. state[c] \in {"outgoing", "ringing"} /\ state' = [state EXCEPT ![c] = "ringing"]
    BY <1>1 DEF Progress
  <2>2. /\ Stages' = [Stages EXCEPT ![c] = CallStage(c)']
        /\ state'[c] = "ringing" /\ Stages[c] = CallStage(c)
    BY <2>1, StageMoves DEF LiveState
  <2>3. Stages[c] = "calling" /\ Stages' = Stages
    BY <2>1, <2>2 DEF CallStage, Stages
  <2>4. CASE EventListener("RINGING", c, 0)
    <3>1. Tells("RINGING", c)
      BY <2>4, ListenerTells, CodeAssumption DEF Event
    <3>. QED BY <2>3, <3>1 DEF CallbackStep, CallStep
  <2>5. CASE UNCHANGED inbox
    BY <2>3, <2>5 DEF CallbackStep
  <2>. QED BY <1>1, <2>4, <2>5 DEF Progress
<1>2. ASSUME NEW c \in Call, Established(c) PROVE CallbackStep
  <2>1. /\ state[c] \in {"outgoing", "ringing"}
        /\ state' = [state EXCEPT ![c] = "established"]
        /\ EventListener("ESTABLISHED", c, 0)
    BY <1>2 DEF Established
  <2>2. /\ Stages' = [Stages EXCEPT ![c] = CallStage(c)']
        /\ state'[c] = "established" /\ Stages[c] = CallStage(c)
    BY <2>1, StageMoves DEF LiveState
  <2>3. CallStage(c) = "calling" /\ CallStage(c)' = "talking"
    BY <2>1, <2>2 DEF CallStage
  <2>4. Tells("ESTABLISHED", c)
    BY <2>1, ListenerTells, CodeAssumption DEF Event
  <2>. QED BY <2>2, <2>3, <2>4 DEF CallbackStep, CallStep, Goes
<1>3. ASSUME NEW c \in Call, NEW code \in Code, CallCloses(c, code) PROVE CallbackStep
  BY <1>3, CloseEnds DEF CallCloses, CallbackStep
<1>4. ASSUME NEW u \in Ua, NEW c \in Call, Incoming(u, c) PROVE CallbackStep
  <2>1. CallStage(c) = "unknown"
    BY <1>4 DEF Incoming, CallStage
  <2>2. CASE state' = [state EXCEPT ![c] = "incoming"] /\ UNCHANGED inbox
    <3>1. /\ Stages' = [Stages EXCEPT ![c] = CallStage(c)']
          /\ state'[c] = "incoming" /\ Stages[c] = CallStage(c)
      BY <2>2, StageMoves DEF LiveState
    <3>2. CallStage(c)' = "waiting"
      BY <3>1 DEF CallStage
    <3>. QED BY <2>1, <2>2, <3>1, <3>2 DEF CallbackStep, CallStep, Goes
  <2>3. CASE FreeCall(c) /\ EventListener("CLOSED", c, 0)
    <3>1. /\ Stages' = [Stages EXCEPT ![c] = CallStage(c)']
          /\ state'[c] = "dead" /\ Stages[c] = CallStage(c)
      BY <2>3, StageMoves DEF FreeCall
    <3>2. CallStage(c)' = "gone"
      BY <3>1 DEF CallStage
    <3>3. Tells("CLOSED", c)
      BY <2>3, ListenerTells, CodeAssumption DEF Event
    <3>. QED BY <2>1, <3>1, <3>2, <3>3 DEF CallbackStep, CallStep, Goes
  <2>. QED BY <1>4, <2>2, <2>3 DEF Incoming
<1>5. ASSUME NEW u \in Ua, RegisterFails(u) PROVE CallbackStep
  <2>1. EventListener("REGISTER_FAIL", NoCall, 0) /\ state' = state
    BY <1>5 DEF RegisterFails
  <2>2. Tells("REGISTER_FAIL", NoCall)
    BY <2>1, ListenerTells, CodeAssumption DEF Event
  <2>3. Stages' = Stages
    BY <2>1 DEF Stages, CallStage
  <2>. QED BY <2>2, <2>3 DEF CallbackStep
<1>. QED BY <1>1, <1>2, <1>3, <1>4, <1>5 DEF Network

\* The steps of CallReports but the shutdown, and none at all.
ReportStep ==
    \/ \E c \in Call : \/ Reports!Dial(c) \/ Reports!Arrive(c) \/ Reports!Refuse(c)
                       \/ Reports!Ring(c) \/ Reports!Answer(c) \/ Reports!End(c)
    \/ Reports!RegistrationLost \/ Reports!Deliver
    \/ UNCHANGED <<Stages, Log>>

(* A step that touches neither the states of the calls nor the messages.     *)
LEMMA NothingReported ==
    ASSUME UNCHANGED <<state, inbox>>
    PROVE  ReportStep
  BY DEF ReportStep, Stages, CallStage, Log

(* What a callback does and hands over is a step of CallReports.             *)
LEMMA CallbackReports ==
    ASSUME TypeOK, TypeOK', CallbackStep
    PROVE  ReportStep
<1>1. ASSUME NEW ev, NEW c, Tells(ev, c)
      PROVE  Log' = Append(Log, [ev |-> ev, of |-> c])
  BY <1>1, LogAppends DEF Tells, Brief
<1>2. inbox' = inbox => Log' = Log
  BY DEF Log
<1>3. ASSUME NEW c \in Call, CallStep(c) PROVE ReportStep
  <2>1. CASE Stages[c] = "unknown" /\ Goes(c, "calling") /\ inbox' = inbox
    <3>1. Reports!Dial(c)
      BY <1>2, <2>1 DEF Goes, Reports!Dial, Reports!Move, Stages, Log
    <3>. QED BY <3>1 DEF ReportStep
  <2>2. CASE Stages[c] = "unknown" /\ Goes(c, "waiting") /\ inbox' = inbox
    <3>1. Reports!Arrive(c)
      BY <1>2, <2>2 DEF Goes, Reports!Arrive, Reports!Move, Stages, Log
    <3>. QED BY <3>1 DEF ReportStep
  <2>3. CASE Stages[c] = "unknown" /\ Goes(c, "gone") /\ Tells("CLOSED", c)
    <3>1. Reports!Refuse(c)
      BY <1>1, <2>3 DEF Goes, Reports!Refuse, Reports!Move, Reports!Send, Stages, Log
    <3>. QED BY <3>1 DEF ReportStep
  <2>4. CASE Stages[c] = "calling" /\ Stages' = Stages /\ Tells("RINGING", c)
    <3>1. Reports!Ring(c)
      BY <1>1, <2>4 DEF Reports!Ring, Reports!Send, Stages, Log
    <3>. QED BY <3>1 DEF ReportStep
  <2>5. CASE Stages[c] = "calling" /\ Goes(c, "talking") /\ Tells("ESTABLISHED", c)
    <3>1. Reports!Answer(c)
      BY <1>1, <2>5 DEF Goes, Reports!Answer, Reports!Move, Reports!Send, Stages, Log
    <3>. QED BY <3>1 DEF ReportStep
  <2>6. CASE c \in Existing /\ Goes(c, "gone") /\ Tells("CLOSED", c)
    <3>1. Reports!End(c)
      BY <1>1, <2>6 DEF Goes, Existing, Reports!End, Reports!Exists, Reports!Move,
                        Reports!Send, Stages, Log
    <3>. QED BY <3>1 DEF ReportStep
  <2>. QED BY <1>3, <2>1, <2>2, <2>3, <2>4, <2>5, <2>6 DEF CallStep
<1>4. CASE Stages' = Stages /\ Tells("REGISTER_FAIL", NoCall)
  <2>1. Reports!RegistrationLost
    BY <1>1, <1>4 DEF Reports!RegistrationLost, Reports!Send, Stages, Log
  <2>. QED BY <2>1 DEF ReportStep
<1>5. CASE Stages' = Stages /\ inbox' = inbox
  BY <1>2, <1>5 DEF ReportStep
<1>. QED BY <1>3, <1>4, <1>5 DEF CallbackStep

(* ua_stop_all is the shutdown of CallReports.                               *)
LEMMA StopAllShutsDown ==
    ASSUME CoreTyped, TelDone_StopAll
    PROVE  Reports!Shutdown
<1>1. \A c \in Call : state'[c] = IF state[c] \in LiveState THEN "dead" ELSE state[c]
  BY DEF TelDone_StopAll, Live
<1>2. \A c \in Call :
         CallStage(c)' = IF CallStage(c) \in {"calling", "talking", "waiting"}
                         THEN "gone" ELSE CallStage(c)
  BY <1>1 DEF CallStage, LiveState, CoreTyped
<1>3. inbox' = inbox
  BY DEF TelDone_StopAll
<1>. QED BY <1>2, <1>3 DEF Reports!Shutdown, Reports!Exists

(* Every step of both threads.                                               *)
LEMMA StepReports ==
    ASSUME TypeOK, Safety, [Next]_vars
    PROVE  ReportStep \/ (phase = "closing" /\ Reports!Shutdown)
<1>0. CoreTyped
  BY TypeParts
<1>1. TypeOK'
  BY TypeStep
<1>2. CASE TelDone_StopAll
  BY <1>0, <1>2, StopAllShutsDown DEF TelDone_StopAll
<1>3. CASE Lifecycle /\ ~TelDone_StopAll
  BY <1>3, NothingReported
  DEF Lifecycle, EnterInit, InitDone, InitFails, MainLoop, LoopFails, TelDone_FreeQueue,
      TelDone_ResetQueue, loopVars
<1>4. CASE FinishPush \/ UNCHANGED vars \/ \E cmd \in Command : Command_Load(cmd)
  BY <1>4, NothingReported
  DEF FinishPush, Command_Null, Command_Write, Command_Dangling, Command_Load,
      vars, loopVars
<1>5. CASE Take
  <2>1. Log # <<>> /\ Log' = Tail(Log)
    BY <1>1, <1>5, LogShrinks DEF Take
  <2>2. Stages' = Stages
    BY <1>5 DEF Take, loopVars, Stages, CallStage
  <2>3. Reports!Deliver
    BY <2>1, <2>2 DEF Reports!Deliver, Stages, Log
  <2>. QED BY <2>3 DEF ReportStep
<1>6. CASE HandleCommand \/ Network
  BY <1>0, <1>1, <1>6, CommandReports, NetworkReports, CallbackReports
<1>. QED BY <1>1, <1>2, <1>3, <1>4, <1>5, <1>6 DEF Next

(* What the platform may rely on holds of every run of the core.             *)
THEOREM CoreImplementsCallReports == Spec => ImplementsCallReports
<1>1. Init => Reports!Init
  BY DEF Init, Reports!Init, CallStage
<1>2. TypeOK /\ Safety /\ [Next]_vars => [Reports!Next]_<<Stages, Log>>
  <2> SUFFICES ASSUME TypeOK, Safety, [Next]_vars
               PROVE  Reports!Next \/ UNCHANGED <<Stages, Log>>
    OBVIOUS
  <2>. QED BY StepReports DEF ReportStep, Reports!Next
<1>3. Spec => []TypeOK /\ []Safety
  BY TypeCorrect, SafetyCorrect
<1>. QED BY <1>1, <1>2, <1>3, PTL
         DEF Spec, ImplementsCallReports, Reports!Spec, Stages, Log

-----------------------------------------------------------------------------
(* A step of CallReports, the shutdown apart, ends a call exactly when it     *)
(* sends CLOSED about it.                                                    *)
LEMMA EndsAreReported ==
    ASSUME TypeOK, TypeOK', ReportStep, NEW c \in Call
    PROVE  (state[c] # "dead" /\ state'[c] = "dead") <=> ReportsClose(c)
<1> DEFINE Ended == Stages[c] # "gone" /\ Stages'[c] = "gone"
<1> DEFINE Told == /\ Len(Log') > Len(Log)
                   /\ Log'[Len(Log')].ev = "CLOSED" /\ Log'[Len(Log')].of = c
<1>1. (state[c] # "dead" /\ state'[c] = "dead") <=> Ended
  <2>1. /\ Stages[c] = "gone" <=> state[c] = "dead"
        /\ Stages'[c] = "gone" <=> state'[c] = "dead"
    BY DEF Stages, CallStage, TypeOK, LiveState
  <2>. QED BY <2>1
<1>2. ReportsClose(c) <=> Told
  <2>1. /\ Len(Log) = Len(inbox) /\ Len(inbox) \in Nat
    BY LogFollows DEF TypeOK
  <2>2. /\ Len(Log') = Len(inbox') /\ Len(inbox') \in Nat
        /\ \A i \in 1..Len(inbox') : Log'[i] = Brief(inbox'[i])
    BY DEF TypeOK, Log, Brief
  <2>3. CASE Len(inbox') > Len(inbox)
    <3>1. Log'[Len(Log')] = Brief(inbox'[Len(inbox')])
      BY <2>1, <2>2, <2>3
    <3>2. /\ Log'[Len(Log')].ev = inbox'[Len(inbox')].ev
          /\ Log'[Len(Log')].of = inbox'[Len(inbox')].of
      BY <3>1 DEF Brief
    <3>. QED BY <2>1, <2>2, <3>2 DEF ReportsClose
  <2>4. CASE ~(Len(inbox') > Len(inbox))
    BY <2>1, <2>2, <2>4 DEF ReportsClose
  <2>. QED BY <2>3, <2>4
<1>3. Log \in Seq({Brief(m) : m \in Message}) /\ DOMAIN Stages = Call
  BY LogFollows DEF Stages
<1>4. ASSUME NEW ev, NEW d, Log' = Append(Log, [ev |-> ev, of |-> d])
      PROVE  Told <=> ev = "CLOSED" /\ d = c
  <2>1. /\ Len(Log') = Len(Log) + 1 /\ Len(Log) \in Nat
        /\ Log'[Len(Log) + 1] = [ev |-> ev, of |-> d]
    BY <1>3, <1>4
  <2>. QED BY <2>1
<1>5. Log' = Log => ~Told
  BY <1>3
<1>6. ASSUME NEW d \in Call, NEW s, Stages' = [Stages EXCEPT ![d] = s]
      PROVE  Ended <=> d = c /\ s = "gone" /\ Stages[c] # "gone"
  BY <1>3, <1>6
<1>7. Stages' = Stages => ~Ended
  OBVIOUS
<1> HIDE DEF Ended, Told
<1>8. ASSUME NEW d \in Call,
             Reports!Dial(d) \/ Reports!Arrive(d) \/ Reports!Ring(d) \/ Reports!Answer(d)
      PROVE  ~Ended /\ ~Told
  BY <1>8, <1>4, <1>5, <1>6, <1>7
  DEF Reports!Dial, Reports!Arrive, Reports!Ring, Reports!Answer, Reports!Move,
      Reports!Send, Stages, Log
<1>9. ASSUME NEW d \in Call, Reports!Refuse(d) \/ Reports!End(d)
      PROVE  (Ended <=> d = c) /\ (Told <=> d = c)
  BY <1>9, <1>4, <1>6
  DEF Reports!Refuse, Reports!End, Reports!Exists, Reports!Move, Reports!Send,
      Stages, Log
<1>10. ASSUME Reports!RegistrationLost PROVE ~Ended /\ ~Told
  <2>1. /\ Log' = Append(Log, [ev |-> "REGISTER_FAIL", of |-> NoCall])
        /\ Stages' = Stages
    BY <1>10 DEF Reports!RegistrationLost, Reports!Send, Stages, Log
  <2>2. Told <=> "REGISTER_FAIL" = "CLOSED" /\ NoCall = c
    BY ONLY <2>1, <1>4
  <2>. QED BY <1>7, <2>1, <2>2
<1>11. ASSUME Reports!Deliver PROVE ~Ended /\ ~Told
  <2>1. Log # <<>> /\ Log' = Tail(Log) /\ Stages' = Stages
    BY <1>11 DEF Reports!Deliver, Stages, Log
  <2>2. ~Told
    BY <1>3, <2>1 DEF Told
  <2>. QED BY <1>7, <2>1, <2>2
<1>12. (Ended <=> Told)
  <2>1. CASE \E d \in Call : \/ Reports!Dial(d) \/ Reports!Arrive(d)
                            \/ Reports!Refuse(d) \/ Reports!Ring(d)
                            \/ Reports!Answer(d) \/ Reports!End(d)
    <3>1. PICK d \in Call : \/ Reports!Dial(d) \/ Reports!Arrive(d)
                            \/ Reports!Refuse(d) \/ Reports!Ring(d)
                            \/ Reports!Answer(d) \/ Reports!End(d)
      BY <2>1
    <3>2. CASE Reports!Refuse(d) \/ Reports!End(d)
      <4>1. (Ended <=> d = c) /\ (Told <=> d = c)
        BY ONLY <1>9, <3>2, d \in Call
      <4>. QED BY <4>1
    <3>. QED BY <3>1, <3>2, <1>8
  <2>2. CASE Reports!RegistrationLost
    BY <2>2, <1>10
  <2>3. CASE Reports!Deliver
    BY <2>3, <1>11
  <2>4. CASE UNCHANGED <<Stages, Log>>
    <3>1. Stages' = Stages /\ Log' = Log
      BY <2>4
    <3>. QED BY <3>1, <1>5, <1>7
  <2>. QED BY <2>1, <2>2, <2>3, <2>4 DEF ReportStep
<1>. QED BY <1>1, <1>2, <1>12

(* While re_main dispatches, calls end with a CLOSED about them and in no     *)
(* other way, and no CLOSED is about a call that did not end with it.         *)
THEOREM EndsReported == Spec => ClosedIsReported
<1> DEFINE Reported ==
             \A c \in Call : Dispatching =>
               ((state[c] # "dead" /\ state'[c] = "dead") <=> ReportsClose(c))
<1>1. TypeOK /\ Safety /\ [Next]_vars => [Reported]_vars
  <2> SUFFICES ASSUME TypeOK, Safety, [Next]_vars, Dispatching, NEW c \in Call
               PROVE  (state[c] # "dead" /\ state'[c] = "dead") <=> ReportsClose(c)
    OBVIOUS
  <2>1. ReportStep
    BY StepReports DEF Dispatching
  <2>. QED BY <2>1, TypeStep, EndsAreReported
<1>2. Spec => []TypeOK /\ []Safety
  BY TypeCorrect, SafetyCorrect
<1>. QED BY <1>1, <1>2, PTL DEF Spec, ClosedIsReported
====
