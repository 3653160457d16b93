----------------------------- MODULE CallReports -----------------------------
(***************************************************************************)
(* What the native SIP core promises the platform about the calls it        *)
(* reports, whatever the network does, whatever commands arrive in whatever *)
(* order, and however often it is stopped and started:                      *)
(*   - a message about a call is sent while that call exists;               *)
(*   - an outgoing call may ring, several times, then be established once,  *)
(*     and after that it no longer rings;                                   *)
(*   - the end of a call is reported once, at the moment it ends, or not at *)
(*     all when the whole core is shut down;                                *)
(*   - messages are delivered in the order in which they were sent.         *)
(***************************************************************************)
EXTENDS Naturals, Sequences

CONSTANTS Call, NoCall

VARIABLES
    stage,   \* how far each call has come
    log      \* the messages the platform has not taken yet

Exists == {c \in Call : stage[c] \in {"calling", "talking", "waiting"}}
Send(ev, c) == log' = Append(log, [ev |-> ev, of |-> c])
Move(c, s) == stage' = [stage EXCEPT ![c] = s]

Init == stage = [c \in Call |-> "unknown"] /\ log = <<>>

Dial(c) == stage[c] = "unknown" /\ Move(c, "calling") /\ UNCHANGED log
Arrive(c) == stage[c] = "unknown" /\ Move(c, "waiting") /\ UNCHANGED log
Refuse(c) == stage[c] = "unknown" /\ Move(c, "gone") /\ Send("CLOSED", c)

Ring(c) == stage[c] = "calling" /\ Send("RINGING", c) /\ UNCHANGED stage
Answer(c) == stage[c] = "calling" /\ Move(c, "talking") /\ Send("ESTABLISHED", c)
End(c) == c \in Exists /\ Move(c, "gone") /\ Send("CLOSED", c)

Shutdown == /\ stage' = [c \in Call |-> IF c \in Exists THEN "gone" ELSE stage[c]]
            /\ UNCHANGED log

RegistrationLost == Send("REGISTER_FAIL", NoCall) /\ UNCHANGED stage
Deliver == log # <<>> /\ log' = Tail(log) /\ UNCHANGED stage

Next == \/ \E c \in Call : \/ Dial(c) \/ Arrive(c) \/ Refuse(c)
                           \/ Ring(c) \/ Answer(c) \/ End(c)
        \/ Shutdown \/ RegistrationLost \/ Deliver

Spec == Init /\ [][Next]_<<stage, log>>
=============================================================================
