------------------------------- MODULE SipReg -------------------------------
(***************************************************************************)
(* The registration client of a User-Agent (sipreg, and reg of baresip) and  *)
(* the registrar it talks to.                                                *)
(*                                                                          *)
(* A registration is driven by its pending REGISTER or by its timer: the     *)
(* answer to the one starts the other.  Dropping it while the registrar may  *)
(* hold a binding makes it live on, without its owner, until an answer to    *)
(* the REGISTER that removes the binding.  Datagrams may be lost, repeated,  *)
(* delayed and overtaken.                                                    *)
(* Left out: outbound flows and the fallback interval, which the accounts of *)
(* this application do not ask for, provisional answers, which change        *)
(* nothing, and further addresses of the registrar.                          *)
(***************************************************************************)
EXTENDS Naturals

CONSTANTS
    MaxRequests,  \* bound: no refresh after that many requests
    LoopLimit     \* 16 in sip_request_loops

ASSUME RegAssumption == MaxRequests \in Nat \ {0} /\ LoopLimit \in Nat \ {0}

VARIABLES
    reg,          \* the registration object
    open,         \* the SIP stack is not closed
    bound,        \* the registrar has a binding for this contact
    seen,         \* the number of the last request it has answered
    wire,         \* the datagrams under way
    obliging      \* fixed at the start: nothing is lost, requests do not fail
                  \* and the registrar does what it is asked, after a challenge
                  \* or an objection to the interval at most

regVars == <<reg, open, bound, seen, wire, obliging>>

\* "ok" is any 2xx that grants some time and "ok0" one that grants none,
\* "challenge" 401 or 407, "brief" 423 with a Min-Expires, "refused" the rest.
Code == {"ok", "ok0", "challenge", "brief", "refused"}
Registration ==
    [mem : {"none", "live", "freed"},
     owner : BOOLEAN,         \* reg of baresip still holds it, and resph is its
     terminated : BOOLEAN, registered : BOOLEAN,
     req : BOOLEAN,           \* a request is pending: number seq
     tmr : BOOLEAN,           \* the timer runs
     zero : BOOLEAN,          \* expires is 0
     fails : Nat,             \* ls.failc: requests refused in a row
     brief : BOOLEAN,         \* ls.last_scode is 423
     seq : Nat]
Register(x) == [what |-> "register", seq |-> x.seq, zero |-> x.zero,
                again |-> x.fails > 0]
AnswerTo(m, code) == [what |-> "answer", seq |-> m.seq, code |-> code]
RegDatagram == [what : {"register"}, seq : Nat, zero : BOOLEAN, again : BOOLEAN]
               \cup [what : {"answer"}, seq : Nat, code : Code]

NewReg == [mem |-> "live", owner |-> TRUE, terminated |-> FALSE,
           registered |-> FALSE, req |-> FALSE, tmr |-> FALSE, zero |-> FALSE,
           fails |-> 0, brief |-> FALSE, seq |-> 0]

RegInit ==
    /\ reg = [NewReg EXCEPT !.mem = "none", !.owner = FALSE]
    /\ open = TRUE
    /\ bound = FALSE /\ seen = 0
    /\ wire = {}
    /\ obliging \in BOOLEAN

-----------------------------------------------------------------------------
(* The registration object.  ok says whether a request can be sent.          *)

\* request: what is terminated asks for the end of its binding.
Request(x, reset, ok) ==
    [x EXCEPT !.zero = x.zero \/ x.terminated,
              !.fails = IF reset THEN 0 ELSE @,
              !.brief = ~reset /\ @,
              !.req = ok,
              !.seq = IF ok THEN @ + 1 ELSE @]

RegFree(x) == [x EXCEPT !.mem = "freed", !.tmr = FALSE]

\* Mutant: expires is cleared at once, so the answer to the pending request
\* is taken for the one that ends the binding.
DropReg_Unanswered(x, ok) ==
    LET y == [x EXCEPT !.owner = FALSE, !.terminated = TRUE, !.tmr = FALSE,
                       !.zero = x.req]
    IN  IF y.req THEN y
        ELSE IF y.registered /\ ok THEN Request(y, TRUE, TRUE) ELSE RegFree(y)

\* The owner drops its reference: the destructor, which takes it back while a
\* request is pending or the binding is still to be removed.
DropReg(x, ok) ==
    LET y == [x EXCEPT !.owner = FALSE, !.terminated = TRUE, !.tmr = FALSE]
    IN  IF y.req THEN y
        ELSE IF y.registered /\ ok THEN Request(y, TRUE, TRUE) ELSE RegFree(y)

\* The end of response_handler.
RegOut(x, ok) ==
    IF ~x.terminated THEN [x EXCEPT !.tmr = TRUE]
    ELSE IF ~x.zero /\ x.registered /\ ok THEN Request(x, TRUE, TRUE)
    ELSE RegFree(x)

\* sip_request_loops, for the answers after which the request is sent again
Refused(x, code) == [x EXCEPT !.fails = @ + 1, !.brief = code = "brief"]
Loops(x, code) == x.fails + 1 >= LoopLimit \/ (code = "brief" /\ x.brief)

\* Once more with credentials or with a longer interval; without the latter if
\* it asks for none.
AsksAgain(x, code) ==
    /\ ~Loops(x, code)
    /\ x.terminated => x.registered
    /\ code = "challenge" \/ (code = "brief" /\ ~x.zero)

\* response_handler; again: the request with credentials can be made and sent
Answered(x, code, again, ok) ==
    LET y == [x EXCEPT !.req = FALSE]
    IN  CASE code \in {"ok", "ok0"} ->
               RegOut([y EXCEPT !.registered = code = "ok" /\ ~x.zero, !.fails = 0],
                      ok)
          [] AsksAgain(x, code) /\ again -> Request(Refused(y, code), FALSE, TRUE)
          [] OTHER -> RegOut(Refused(y, code), ok)

\* The pending request ends with an error.
Aborted(x, ok) == IF x.req THEN RegOut([x EXCEPT !.req = FALSE], ok) ELSE x

-----------------------------------------------------------------------------
MaySend == IF obliging THEN {TRUE} ELSE BOOLEAN

\* The registration goes to y, and what it sends on its way goes out.  Answers
\* that nothing waits for any more would be dropped on arrival.
RegBecomes(y, rest) ==
    /\ reg' = y
    /\ wire' = {m \in rest : m.what = "answer" => y.req /\ m.seq = y.seq}
                \cup (IF y.seq # reg.seq THEN {Register(y)} ELSE {})
    /\ UNCHANGED <<bound, seen, obliging>>

On(what) == {m \in wire : m.what = what}

\* A datagram may arrive again, unless the network is in order.
RegTaken(m) == IF obliging THEN {wire \ {m}} ELSE {wire, wire \ {m}}

\* ua_register, by cmd_audioCall
Ua_Register ==
    /\ reg.mem = "none" /\ open
    /\ \E ok \in MaySend :
         LET x == Request(NewReg, TRUE, ok)
         IN  RegBecomes(IF ok THEN x ELSE DropReg(x, FALSE), wire)
    /\ UNCHANGED open

\* ua_unregister, by cmd_hangup; or the User-Agent is destroyed.
Ua_Unregister ==
    /\ reg.owner
    /\ \E ok \in MaySend : RegBecomes(DropReg(reg, ok), wire)
    /\ UNCHANGED open

Reg_Timer ==
    /\ reg.tmr /\ reg.seq < MaxRequests
    /\ \E ok \in MaySend :
         RegBecomes([Request(reg, TRUE, ok) EXCEPT !.tmr = ~ok], wire)
    /\ UNCHANGED open

Take_Answer ==
    /\ open
    /\ \E m \in On("answer") : \E left \in RegTaken(m) :
         /\ reg.req /\ m.seq = reg.seq
         /\ \E again \in MaySend, ok \in MaySend :
              RegBecomes(Answered(reg, m.code, again, ok), left)
    /\ UNCHANGED open

\* No answer for 32 seconds, or a transport error.
Request_Fails ==
    /\ reg.req /\ ~obliging
    /\ \E ok \in MaySend : RegBecomes(Aborted(reg, ok), wire)
    /\ UNCHANGED open

\* Sent again until it is answered, if that takes more than half a second.
Request_Again ==
    /\ reg.req /\ ~obliging
    /\ RegBecomes(reg, wire \cup {Register(reg)})
    /\ UNCHANGED open

\* Mutant: the pending requests are ended once.
Reg_StopOnce ==
    /\ open /\ open' = FALSE
    /\ \E ok \in MaySend :
         RegBecomes(Aborted(IF reg.owner THEN DropReg(reg, ok) ELSE reg, ok), wire)

\* ua_stop_all(forced): the User-Agent goes, then sip_close ends the pending
\* requests twice, for ending one may start another.
Reg_Stop ==
    /\ open /\ open' = FALSE
    /\ \E ok \in MaySend :
         LET x == IF reg.owner THEN DropReg(reg, ok) ELSE reg
         IN  RegBecomes(Aborted(Aborted(x, ok), ok), wire)

-----------------------------------------------------------------------------
(* The registrar and the network.                                            *)

\* What it may say to request m.
Says(m) ==
    IF ~obliging THEN Code
    ELSE {"ok"} \cup (IF m.again THEN {} ELSE {"challenge"})
                \cup (IF m.again \/ m.zero THEN {} ELSE {"brief"})

\* What is too old is left alone, and an answer nothing waits for is dropped.
InTime(ms) == {m \in ms : m.what = "register" => m.seq >= seen'}
Reply(m, code) == IF reg.req /\ m.seq = reg.seq THEN {AnswerTo(m, code)} ELSE {}

Registrar_Answers ==
    /\ \E m \in On("register") : \E code \in Says(m) :
         /\ m.seq >= seen
         /\ seen' = m.seq
         /\ bound' = CASE code = "ok" -> ~m.zero
                       [] code = "ok0" -> FALSE
                       [] OTHER -> bound
         /\ \E left \in RegTaken(m) : wire' = InTime(left) \cup Reply(m, code)
    /\ UNCHANGED <<reg, open, obliging>>

Binding_Expires ==
    /\ bound /\ ~obliging
    /\ bound' = FALSE
    /\ UNCHANGED <<reg, open, seen, wire, obliging>>

Wire_Loses ==
    /\ ~obliging
    /\ \E m \in wire : wire' = wire \ {m}
    /\ UNCHANGED <<reg, open, bound, seen, obliging>>

-----------------------------------------------------------------------------
RegNext ==
    \/ Ua_Register \/ Ua_Unregister \/ Reg_Timer
    \/ Take_Answer \/ Request_Fails \/ Request_Again \/ Reg_Stop
    \/ Registrar_Answers \/ Binding_Expires \/ Wire_Loses

\* Only an obliging network and registrar are relied on.
RegFairness == WF_regVars(obliging /\ (Registrar_Answers \/ Take_Answer))

RegSpec == RegInit /\ [][RegNext]_regVars /\ RegFairness

-----------------------------------------------------------------------------
RegTypeOK ==
    /\ reg \in Registration
    /\ open \in BOOLEAN /\ bound \in BOOLEAN /\ obliging \in BOOLEAN
    /\ seen \in Nat /\ wire \subseteq RegDatagram

(* A registration that its User-Agent holds has a pending request or a        *)
(* running timer, and not both: without either it would never be refreshed.   *)
(* One that was dropped has a request pending, whose answer frees it, and no  *)
(* timer, which would call the handler of an owner that is gone.  A freed one *)
(* has neither, and none is left when the stack has been closed.              *)
RegIsDriven ==
    /\ reg.mem = "live" => IF reg.owner THEN reg.req # reg.tmr
                           ELSE reg.req /\ ~reg.tmr
    /\ reg.mem # "live" => ~reg.owner /\ ~reg.req /\ ~reg.tmr
    /\ reg.mem = "live" => (reg.owner <=> ~reg.terminated)
    /\ ~open => reg.mem # "live"

(* A dropped registration does not leave its binding behind, whatever was     *)
(* under way when it was dropped: the first REGISTER, a refresh, or one       *)
(* repeated with credentials.  This takes a network and a registrar that do   *)
(* their part, and a stack that is not closed before.                         *)
BindingEnds ==
    (obliging /\ reg.mem # "none" /\ ~reg.owner) ~> (~bound \/ ~open)

=============================================================================
