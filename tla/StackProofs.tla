---------------------------- MODULE StackProofs ----------------------------
(* What runs under the core besides a session: proofs about SipReg, for any  *)
(* limit of requests and of refusals, any network and registrar; and about   *)
(* JitterBuf, for any sources, sizes of the buffer and widths of a number.    *)
(* In the end the specification that MCSip checks is shown to be that of      *)
(* each of its parts.                                                         *)
(* The inductive invariant of a registration is RegIsDriven with the types;  *)
(* what each function does to a registration is a lemma.  That of the buffer  *)
(* adds to its order how far behind the source its frames can be: only near   *)
(* enough can their numbers tell which of two is the later.                   *)
EXTENDS MCSip, SipSessionProofs, SequenceTheorems, WellFoundedInduction, TLAPS

\* RegIsDriven, of one registration
Driven(x) ==
    /\ x.mem = "live" => IF x.owner THEN x.req # x.tmr ELSE x.req /\ ~x.tmr
    /\ x.mem # "live" => ~x.owner /\ ~x.req /\ ~x.tmr
    /\ x.mem = "live" => (x.owner <=> ~x.terminated)

\* Between an answer and what comes of it nothing drives a registration.
Resting(x) ==
    /\ x.mem = "live" /\ ~x.req /\ ~x.tmr
    /\ x.owner <=> ~x.terminated

RegInv == reg \in Registration /\ open \in BOOLEAN /\ RegIsDriven

(* The parts of the invariant, as seen from one registration.                *)
LEMMA InvIsDriven ==
    RegIsDriven <=> Driven(reg) /\ (~open => reg.mem # "live")
  BY DEF RegIsDriven, Driven

(* A request keeps a registration's types, and is pending if it was sent.    *)
LEMMA RequestFacts ==
    ASSUME NEW x \in Registration, NEW reset \in BOOLEAN, NEW ok \in BOOLEAN
    PROVE  LET y == Request(x, reset, ok)
           IN  /\ y \in Registration
               /\ y.mem = x.mem /\ y.owner = x.owner /\ y.tmr = x.tmr
               /\ y.terminated = x.terminated /\ y.registered = x.registered
               /\ y.req <=> ok
               /\ y.zero <=> (x.zero \/ x.terminated)
<1> DEFINE zero == x.zero \/ x.terminated
           fails == IF reset THEN 0 ELSE x.fails
           brief == ~reset /\ x.brief
           seq == IF ok THEN x.seq + 1 ELSE x.seq
           y == [x EXCEPT !.zero = zero, !.fails = fails, !.brief = brief,
                          !.req = ok, !.seq = seq]
<1>1. zero \in BOOLEAN /\ fails \in Nat /\ brief \in BOOLEAN /\ seq \in Nat
  BY DEF Registration
<1>2. Request(x, reset, ok) = y
  BY DEF Request
<1>3. /\ y \in Registration
      /\ y.mem = x.mem /\ y.owner = x.owner /\ y.tmr = x.tmr
      /\ y.terminated = x.terminated /\ y.registered = x.registered
      /\ y.req = ok /\ y.zero = zero
  <2>. HIDE DEF zero, fails, brief, seq
  <2>. QED BY <1>1 DEF Registration
<1>. QED BY <1>2, <1>3

(* A registration whose request is pending is driven.                        *)
LEMMA SentFacts ==
    ASSUME NEW x \in Registration, NEW reset \in BOOLEAN,
           x.mem = "live", ~x.tmr, x.owner <=> ~x.terminated
    PROVE  LET y == Request(x, reset, TRUE)
           IN  y \in Registration /\ Driven(y) /\ y.owner = x.owner
<1> DEFINE y == Request(x, reset, TRUE)
<1>1. /\ y \in Registration
      /\ y.mem = "live" /\ y.owner = x.owner /\ y.tmr = x.tmr
      /\ y.terminated = x.terminated /\ y.req
  BY RequestFacts
<1>. HIDE DEF y
<1>2. Driven(y)
  BY <1>1 DEF Driven, Registration
<1>. QED BY <1>1, <1>2 DEF y

(* Freeing leaves nothing that runs.                                         *)
LEMMA FreeFacts ==
    ASSUME NEW x \in Registration, ~x.req, ~x.owner
    PROVE  /\ RegFree(x) \in Registration /\ Driven(RegFree(x))
           /\ RegFree(x).mem = "freed" /\ ~RegFree(x).req
  BY DEF RegFree, Registration, Driven

(* A dropped registration is freed, or pending without its owner.            *)
LEMMA DropFacts ==
    ASSUME NEW x \in Registration, x.mem = "live", NEW ok \in BOOLEAN
    PROVE  /\ DropReg(x, ok) \in Registration /\ Driven(DropReg(x, ok))
           /\ ~DropReg(x, ok).owner
<1> DEFINE y == [x EXCEPT !.owner = FALSE, !.terminated = TRUE, !.tmr = FALSE]
<1>1. /\ y \in Registration /\ y.mem = "live" /\ ~y.owner /\ y.terminated
      /\ ~y.tmr /\ y.req = x.req
  BY DEF Registration
<1>2. CASE y.req
  <2>1. DropReg(x, ok) = y
    BY <1>2 DEF DropReg
  <2>. QED BY <2>1, <1>1, <1>2 DEF Driven
<1>3. CASE ~y.req /\ y.registered /\ ok
  <2>1. DropReg(x, ok) = Request(y, TRUE, TRUE)
    BY <1>3 DEF DropReg
  <2>. HIDE DEF y
  <2>. QED BY <2>1, <1>1, SentFacts
<1>4. CASE ~y.req /\ ~(y.registered /\ ok)
  <2>1. DropReg(x, ok) = RegFree(y)
    BY <1>4 DEF DropReg
  <2>2. RegFree(y).owner = y.owner
    BY <1>1 DEF RegFree, Registration
  <2>. HIDE DEF y
  <2>. QED BY <2>1, <2>2, <1>1, <1>4, FreeFacts
<1>. QED BY <1>2, <1>3, <1>4

(* The end of an answer starts the timer, asks for the end of the binding, or *)
(* frees the registration; the second only while expires is not 0.           *)
LEMMA OutFacts ==
    ASSUME NEW x \in Registration, Resting(x), NEW ok \in BOOLEAN
    PROVE  /\ RegOut(x, ok) \in Registration /\ Driven(RegOut(x, ok))
           /\ RegOut(x, ok).owner = x.owner
           /\ ~x.owner => \/ RegOut(x, ok).mem = "freed"
                          \/ ~x.zero /\ RegOut(x, ok).zero
<1>1. CASE ~x.terminated
  <2>1. RegOut(x, ok) = [x EXCEPT !.tmr = TRUE]
    BY <1>1 DEF RegOut
  <2>. QED BY <2>1, <1>1 DEF Resting, Driven, Registration
<1>2. CASE x.terminated /\ ~x.zero /\ x.registered /\ ok
  <2>1. RegOut(x, ok) = Request(x, TRUE, TRUE)
    BY <1>2 DEF RegOut
  <2>2. RegOut(x, ok) \in Registration /\ Driven(RegOut(x, ok))
        /\ RegOut(x, ok).owner = x.owner
    BY <2>1, SentFacts DEF Resting
  <2>3. RegOut(x, ok).zero
    BY <2>1, <1>2, RequestFacts
  <2>. QED BY <2>2, <2>3, <1>2
<1>3. CASE x.terminated /\ ~(~x.zero /\ x.registered /\ ok)
  <2>1. RegOut(x, ok) = RegFree(x)
    BY <1>3 DEF RegOut
  <2>2. ~x.owner /\ ~x.req
    BY <1>3 DEF Resting
  <2>3. RegFree(x).owner = x.owner
    BY DEF RegFree, Registration
  <2>. QED BY <2>1, <2>2, <2>3, FreeFacts
<1>. QED BY <1>1, <1>2, <1>3

(* A pending request that was taken off leaves a registration resting.       *)
LEMMA TakenFacts ==
    ASSUME NEW x \in Registration, Driven(x), x.req
    PROVE  LET y == [x EXCEPT !.req = FALSE]
           IN  /\ y \in Registration /\ Resting(y)
               /\ y.owner = x.owner /\ y.zero = x.zero
  BY DEF Registration, Driven, Resting

(* A request that ends with an error leaves a driven registration behind.    *)
LEMMA AbortFacts ==
    ASSUME NEW x \in Registration, Driven(x), NEW ok \in BOOLEAN
    PROVE  /\ Aborted(x, ok) \in Registration /\ Driven(Aborted(x, ok))
           /\ Aborted(x, ok).owner = x.owner
           /\ ~x.owner => \/ Aborted(x, ok).mem # "live"
                          \/ ~x.zero /\ Aborted(x, ok).zero
<1>1. CASE x.req
  <2>1. Aborted(x, ok) = RegOut([x EXCEPT !.req = FALSE], ok)
    BY <1>1 DEF Aborted
  <2> DEFINE y == [x EXCEPT !.req = FALSE]
  <2>2. y \in Registration /\ Resting(y) /\ y.owner = x.owner /\ y.zero = x.zero
    BY <1>1, TakenFacts
  <2>. HIDE DEF y
  <2>3. /\ RegOut(y, ok) \in Registration /\ Driven(RegOut(y, ok))
        /\ RegOut(y, ok).owner = y.owner
        /\ ~y.owner => \/ RegOut(y, ok).mem = "freed"
                       \/ ~y.zero /\ RegOut(y, ok).zero
    BY <2>2, OutFacts
  <2>. QED BY <2>1, <2>2, <2>3 DEF y
<1>2. CASE ~x.req
  <2>1. Aborted(x, ok) = x
    BY <1>2 DEF Aborted
  <2>. QED BY <2>1, <1>2 DEF Driven
<1>. QED BY <1>1, <1>2

(* An answer leaves a driven registration behind.                            *)
LEMMA AnswerFacts ==
    ASSUME NEW x \in Registration, Driven(x), x.req,
           NEW code \in Code, NEW again \in BOOLEAN, NEW ok \in BOOLEAN
    PROVE  /\ Answered(x, code, again, ok) \in Registration
           /\ Driven(Answered(x, code, again, ok))
<1> DEFINE y == [x EXCEPT !.req = FALSE]
           granted == [y EXCEPT !.registered = code = "ok" /\ ~x.zero, !.fails = 0]
<1>1. y \in Registration /\ Resting(y)
  BY TakenFacts
<1>2. granted \in Registration /\ Resting(granted)
  <2> DEFINE yes == code = "ok" /\ ~x.zero
  <2>1. yes \in BOOLEAN
    OBVIOUS
  <2>. HIDE DEF y, yes
  <2>. QED BY <1>1, <2>1 DEF Registration, Resting
<1>3. Refused(y, code) \in Registration /\ Resting(Refused(y, code))
  <2> DEFINE brief == code = "brief"
  <2>1. Refused(y, code) = [y EXCEPT !.fails = y.fails + 1, !.brief = brief]
    BY DEF Refused
  <2>2. brief \in BOOLEAN /\ y.fails + 1 \in Nat
    BY <1>1 DEF Registration
  <2>. HIDE DEF y, brief
  <2>. QED BY <1>1, <2>1, <2>2 DEF Registration, Resting
<1>4. CASE code \in {"ok", "ok0"}
  <2>1. Answered(x, code, again, ok) = RegOut(granted, ok)
    <3>1. code \in {"ok", "ok0"} /\ ~(code \notin {"ok", "ok0"})
      BY <1>4
    <3>. QED BY <3>1 DEF Answered, AsksAgain
  <2>. HIDE DEF granted
  <2>. QED BY <2>1, <1>2, OutFacts
<1>5. CASE code \notin {"ok", "ok0"} /\ AsksAgain(x, code) /\ again
  <2>1. Answered(x, code, again, ok) = Request(Refused(y, code), FALSE, TRUE)
    BY <1>5 DEF Answered
  <2>. HIDE DEF y
  <2>. QED BY <2>1, <1>3, SentFacts DEF Resting
<1>6. CASE code \notin {"ok", "ok0"} /\ ~(AsksAgain(x, code) /\ again)
  <2>1. Answered(x, code, again, ok) = RegOut(Refused(y, code), ok)
    BY <1>6 DEF Answered
  <2>. HIDE DEF y
  <2>. QED BY <2>1, <1>3, OutFacts
<1>. QED BY <1>4, <1>5, <1>6

(* What may be chosen about sending is a truth value.                        *)
LEMMA SendIsBoolean == MaySend \subseteq BOOLEAN
  BY DEF MaySend

(* What RegTypeOK says of the wire and of the registrar.                     *)
WireTyped ==
    /\ wire \subseteq RegDatagram
    /\ bound \in BOOLEAN /\ obliging \in BOOLEAN /\ seen \in Nat

(* Nothing is on the wire at first.                                          *)
LEMMA WireInit == RegInit => WireTyped
<1> SUFFICES ASSUME RegInit PROVE WireTyped
  OBVIOUS
<1>1. wire \subseteq RegDatagram
  BY DEF RegInit
<1>2. bound \in BOOLEAN /\ obliging \in BOOLEAN
  BY DEF RegInit
<1>3. seen \in Nat
  <2>1. seen = 0
    BY DEF RegInit
  <2>. QED BY <2>1
<1>. QED BY <1>1, <1>2, <1>3 DEF WireTyped

(* Every step keeps the types of the wire and of the registrar.              *)
LEMMA WireStep ==
    RegInv /\ RegInv' /\ WireTyped /\ [RegNext]_regVars => WireTyped'
<1> SUFFICES ASSUME RegInv, RegInv', WireTyped, [RegNext]_regVars PROVE WireTyped'
  OBVIOUS
<1>0. \A y \in Registration : Register(y) \in RegDatagram
  <2> SUFFICES ASSUME NEW y \in Registration PROVE Register(y) \in RegDatagram
    OBVIOUS
  <2>1. y.seq \in Nat /\ y.zero \in BOOLEAN /\ (y.fails > 0) \in BOOLEAN
    BY DEF Registration
  <2>. QED BY <2>1 DEF Register, RegDatagram
<1>a. ASSUME NEW y, NEW rest \in SUBSET RegDatagram, RegBecomes(y, rest)
      PROVE  WireTyped'
  <2>1. y \in Registration
    BY <1>a DEF RegBecomes, RegInv
  <2>. QED BY <1>0, <1>a, <2>1 DEF RegBecomes, WireTyped
<1>b. \A m \in wire : RegTaken(m) \subseteq SUBSET wire
  BY DEF RegTaken
<1>c. wire \in SUBSET RegDatagram
  BY DEF WireTyped
<1>1. CASE Ua_Register
  BY <1>1, <1>a, <1>c DEF Ua_Register
<1>2. CASE Ua_Unregister
  BY <1>2, <1>a, <1>c DEF Ua_Unregister
<1>3. CASE Reg_Timer
  BY <1>3, <1>a, <1>c DEF Reg_Timer
<1>4. CASE Take_Answer
  <2>1. PICK m \in On("answer") : \E left \in RegTaken(m) : \E y : RegBecomes(y, left)
    BY <1>4 DEF Take_Answer
  <2>2. PICK left \in RegTaken(m) : \E y : RegBecomes(y, left)
    BY <2>1
  <2>3. left \in SUBSET RegDatagram
    BY <2>2, <1>b, <1>c DEF On
  <2>. QED BY <2>2, <2>3, <1>a
<1>5. CASE Request_Fails
  BY <1>5, <1>a, <1>c DEF Request_Fails
<1>6. CASE Request_Again
  <2>1. wire \cup {Register(reg)} \in SUBSET RegDatagram
    BY <1>0, <1>c DEF RegInv
  <2>. QED BY <1>6, <2>1, <1>a DEF Request_Again
<1>7. CASE Reg_Stop
  BY <1>7, <1>a, <1>c DEF Reg_Stop
<1>8. CASE Registrar_Answers
  <2>1. PICK m \in On("register") : \E code \in Says(m) : \E left \in RegTaken(m) :
             /\ seen' = m.seq
             /\ bound' = CASE code = "ok" -> ~m.zero
                           [] code = "ok0" -> FALSE
                           [] OTHER -> bound
             /\ wire' = InTime(left) \cup Reply(m, code)
    BY <1>8 DEF Registrar_Answers
  <2>2. PICK code \in Says(m) : \E left \in RegTaken(m) :
             /\ seen' = m.seq
             /\ bound' = CASE code = "ok" -> ~m.zero
                           [] code = "ok0" -> FALSE
                           [] OTHER -> bound
             /\ wire' = InTime(left) \cup Reply(m, code)
    BY <2>1
  <2>3. code \in Code
    BY <2>2 DEF Says, Code
  <2>4. m.seq \in Nat /\ m.zero \in BOOLEAN
    BY <1>c DEF On, RegDatagram
  <2>5. AnswerTo(m, code) \in RegDatagram
    BY <2>3, <2>4 DEF AnswerTo, RegDatagram
  <2>6. wire' \subseteq RegDatagram
    BY <2>2, <2>5, <1>b, <1>c DEF On, InTime, Reply
  <2>7. bound' \in BOOLEAN
    BY <2>2, <2>4 DEF WireTyped
  <2>. QED BY <1>8, <2>2, <2>4, <2>6, <2>7 DEF WireTyped, Registrar_Answers
<1>9. CASE Binding_Expires
  BY <1>9 DEF Binding_Expires, WireTyped
<1>10. CASE Wire_Loses
  BY <1>10 DEF Wire_Loses, WireTyped
<1>11. CASE UNCHANGED regVars
  BY <1>11 DEF regVars, WireTyped
<1>. QED
  BY <1>1, <1>2, <1>3, <1>4, <1>5, <1>6, <1>7, <1>8, <1>9, <1>10, <1>11 DEF RegNext

-----------------------------------------------------------------------------
(* Before the first REGISTER there is nothing to drive.                      *)
LEMMA DrivenInit == RegInit => RegInv
<1> SUFFICES ASSUME RegInit PROVE RegInv
  OBVIOUS
<1>1. reg \in Registration /\ reg.mem = "none" /\ ~reg.owner /\ ~reg.req /\ ~reg.tmr
  BY DEF RegInit, NewReg, Registration
<1>2. open = TRUE
  BY DEF RegInit
<1>. QED BY <1>1, <1>2 DEF RegInv, RegIsDriven

(* Every step keeps a registration driven.                                   *)
LEMMA DrivenStep == RegInv /\ WireTyped /\ [RegNext]_regVars => RegInv'
<1> SUFFICES ASSUME RegInv, WireTyped, [RegNext]_regVars PROVE RegInv'
  OBVIOUS
<1>. USE SendIsBoolean
<1>a. /\ reg \in Registration /\ Driven(reg)
      /\ open \in BOOLEAN /\ (~open => reg.mem # "live")
  BY InvIsDriven DEF RegInv
<1>b. ASSUME NEW y \in Registration, Driven(y), reg' = y, open' \in BOOLEAN,
             ~open' => y.mem # "live"
      PROVE  RegInv'
  BY <1>b DEF RegInv, RegIsDriven, Driven
<1>c. ASSUME UNCHANGED <<reg, open>> PROVE RegInv'
  BY <1>c DEF RegInv, RegIsDriven
<1>1. CASE Ua_Register
  <2>1. PICK ok \in MaySend :
             reg' = LET x == Request(NewReg, TRUE, ok)
                    IN  IF ok THEN x ELSE DropReg(x, FALSE)
    BY <1>1 DEF Ua_Register, RegBecomes
  <2>2. NewReg \in Registration /\ NewReg.mem = "live" /\ NewReg.owner
        /\ ~NewReg.terminated /\ ~NewReg.tmr
    BY DEF NewReg, Registration
  <2>3. CASE ok
    <3>1. reg' = Request(NewReg, TRUE, TRUE)
      BY <2>1, <2>3
    <3>2. reg' \in Registration /\ Driven(reg')
      BY <3>1, <2>2, SentFacts
    <3>. QED BY <3>2, <1>1, <1>a, <1>b DEF Ua_Register
  <2>4. CASE ~ok
    <3>1. reg' = DropReg(Request(NewReg, TRUE, FALSE), FALSE)
      BY <2>1, <2>4
    <3> DEFINE y == Request(NewReg, TRUE, FALSE)
    <3>2. y \in Registration /\ y.mem = "live"
      BY <2>2, RequestFacts
    <3>. HIDE DEF y
    <3>3. reg' \in Registration /\ Driven(reg')
      BY <3>1, <3>2, DropFacts DEF y
    <3>. QED BY <3>3, <1>1, <1>a, <1>b DEF Ua_Register
  <2>. QED BY <2>3, <2>4
<1>2. CASE Ua_Unregister
  <2>1. PICK ok \in MaySend : reg' = DropReg(reg, ok)
    BY <1>2 DEF Ua_Unregister, RegBecomes
  <2>2. reg.mem = "live" /\ open /\ open' = open
    BY <1>2, <1>a DEF Ua_Unregister, Driven
  <2>. QED BY <2>1, <2>2, <1>a, <1>b, DropFacts
<1>3. CASE Reg_Timer
  <2>1. PICK ok \in MaySend : reg' = [Request(reg, TRUE, ok) EXCEPT !.tmr = ~ok]
    BY <1>3 DEF Reg_Timer, RegBecomes
  <2>2. reg.mem = "live" /\ reg.owner /\ ~reg.terminated /\ open /\ open' = open
    BY <1>3, <1>a DEF Reg_Timer, Driven
  <2>3. Request(reg, TRUE, ok) \in Registration
    BY <1>a, RequestFacts
  <2> DEFINE y == Request(reg, TRUE, ok)
             stopped == ~ok
  <2>4. ok \in BOOLEAN /\ stopped \in BOOLEAN /\ stopped # ok
    OBVIOUS
  <2>5. y.mem = "live" /\ y.owner /\ ~y.terminated /\ (y.req <=> ok)
    <3>1. /\ y.mem = reg.mem /\ y.owner = reg.owner
          /\ y.terminated = reg.terminated /\ (y.req <=> ok)
      BY <2>4, <1>a, RequestFacts
    <3>. QED BY <3>1, <2>2
  <2>6. reg' = [y EXCEPT !.tmr = stopped]
    BY <2>1
  <2>. HIDE DEF y, stopped
  <2>7. y \in Registration
    BY <2>3 DEF y
  <2>8. /\ reg' \in Registration
        /\ reg'.mem = "live" /\ reg'.owner /\ ~reg'.terminated
        /\ (reg'.req <=> ok) /\ reg'.tmr = stopped
    BY <2>4, <2>5, <2>6, <2>7 DEF Registration
  <2>9. Driven(reg')
    BY <2>4, <2>8 DEF Driven
  <2>. QED BY <2>2, <2>8, <2>9, <1>a, <1>b
<1>4. CASE Take_Answer
  <2>1. PICK m \in On("answer"), again \in MaySend, ok \in MaySend :
             /\ reg.req
             /\ reg' = Answered(reg, m.code, again, ok)
    BY <1>4 DEF Take_Answer, RegBecomes
  <2>2. m.code \in Code
    BY <2>1 DEF On, WireTyped, RegDatagram
  <2>3. open /\ open' = open
    BY <1>4 DEF Take_Answer
  <2>. QED BY <2>1, <2>2, <2>3, <1>a, <1>b, AnswerFacts
<1>5. CASE Request_Fails
  <2>1. PICK ok \in MaySend : reg' = Aborted(reg, ok)
    BY <1>5 DEF Request_Fails, RegBecomes
  <2>2. open /\ open' = open
    BY <1>5, <1>a DEF Request_Fails, Driven
  <2>. QED BY <2>1, <2>2, <1>a, <1>b, AbortFacts
<1>6. CASE Request_Again
  BY <1>6, <1>c DEF Request_Again, RegBecomes
<1>7. CASE Reg_Stop
  <2>1. PICK ok \in MaySend :
             reg' = LET x == IF reg.owner THEN DropReg(reg, ok) ELSE reg
                    IN  Aborted(Aborted(x, ok), ok)
    BY <1>7 DEF Reg_Stop, RegBecomes
  <2> DEFINE x == IF reg.owner THEN DropReg(reg, ok) ELSE reg
             once == Aborted(x, ok)
             twice == Aborted(once, ok)
  <2>2. x \in Registration /\ Driven(x) /\ ~x.owner
    BY <1>a, DropFacts DEF Driven
  <2>3. reg' = twice
    BY <2>1
  <2>. HIDE DEF x
  <2>4. /\ once \in Registration /\ Driven(once) /\ ~once.owner
        /\ once.mem # "live" \/ once.zero
    BY <2>2, AbortFacts
  <2>. HIDE DEF once
  <2>5. twice \in Registration /\ Driven(twice)
    BY <2>4, AbortFacts
  <2>6. twice.mem # "live"
    <3>1. CASE once.mem # "live"
      <4>1. twice = once
        BY <3>1, <2>4 DEF Aborted, Driven
      <4>. QED BY <4>1, <3>1
    <3>2. CASE once.zero
      BY <3>2, <2>4, AbortFacts
    <3>. QED BY <3>1, <3>2, <2>4
  <2>. QED BY <2>3, <2>5, <2>6, <1>7, <1>b DEF Reg_Stop
<1>8. CASE Registrar_Answers
  BY <1>8, <1>c DEF Registrar_Answers
<1>9. CASE Binding_Expires
  BY <1>9, <1>c DEF Binding_Expires
<1>10. CASE Wire_Loses
  BY <1>10, <1>c DEF Wire_Loses
<1>11. CASE UNCHANGED regVars
  BY <1>11, <1>c DEF regVars
<1>. QED
  BY <1>1, <1>2, <1>3, <1>4, <1>5, <1>6, <1>7, <1>8, <1>9, <1>10, <1>11 DEF RegNext

(* The invariant of a registration with the types of the rest.               *)
LEMMA RegAlways == RegSpec => [](RegInv /\ WireTyped)
<1>1. RegInit => RegInv /\ WireTyped
  BY DrivenInit, WireInit
<1>2. RegInv /\ WireTyped /\ [RegNext]_regVars => (RegInv /\ WireTyped)'
  BY DrivenStep, WireStep
<1>. QED BY <1>1, <1>2, PTL DEF RegSpec

(* The variables of a registration, its registrar and the network between    *)
(* them keep to their types.                                                 *)
THEOREM RegTyped == RegSpec => []RegTypeOK
<1>1. RegInv /\ WireTyped => RegTypeOK
  BY DEF RegInv, WireTyped, RegTypeOK
<1>. QED BY <1>1, RegAlways, PTL

(* A registration is always driven by a pending request or a timer of its    *)
(* owner, and outlives neither the loss of its owner's interest without a    *)
(* request pending nor the closing of the stack.                             *)
THEOREM RegistrationsDriven == RegSpec => []RegIsDriven
<1>1. RegInv => RegIsDriven
  BY DEF RegInv
<1>. QED BY <1>1, RegAlways, PTL

-----------------------------------------------------------------------------
(* The remainder is the only number of the circle at its distance.           *)
LEMMA ModUnique ==
    ASSUME NEW C \in Nat, C > 0, NEW x \in Int, NEW q \in Int, NEW r \in 0..(C-1),
           x = q * C + r
    PROVE  x % C = r
<1>1. PICK p \in Int : x = p * C + (x % C)
  OBVIOUS
<1>2. x % C \in 0..(C-1)
  OBVIOUS
<1> DEFINE t == x % C
<1>3. t \in 0..(C-1) /\ x = p * C + t
  BY <1>1, <1>2
<1> HIDE DEF t
<1>4. (q - p) * C = t - r
  BY <1>3
<1>5. q - p < 1
  <2>1. ASSUME q - p >= 1 PROVE (q-p) * C >= C
    BY <2>1
  <2>. QED BY <1>3, <1>4, <2>1
<1>6. q - p > -1
  <2>1. ASSUME q - p <= -1 PROVE (q-p) * C <= -C
    BY <2>1
  <2>. QED BY <1>3, <1>4, <2>1
<1>7. q = p
  BY <1>5, <1>6
<1>. QED BY <1>3, <1>7 DEF t

(* The remainder is a number of the circle, whole turns away.                *)
LEMMA ModDef ==
    ASSUME NEW C \in Nat, C > 0, NEW x \in Int
    PROVE  x % C \in 0..(C-1) /\ \E q \in Int : x = q * C + (x % C)
<1>1. x % C \in 0..(C-1)
  OBVIOUS
<1>2. \E q \in Int : x = q * C + (x % C)
  OBVIOUS
<1>. QED BY <1>1, <1>2

(* Numbers of a circle, and how far they are apart.                          *)
LEMMA Apart ==
    ASSUME NEW C \in Nat, C > 1, NEW x \in Int, NEW y \in Int,
           x - y < C \div 2, y - x <= C \div 2
    PROVE  /\ ((x % C) - (y % C)) % C >= C \div 2 <=> x < y
           /\ x % C = y % C <=> x = y
<1>0. C > 0
  OBVIOUS
<1>1. PICK p \in Int : x = p * C + (x % C)
  BY <1>0, ModDef, Zenon
<1>2. PICK q \in Int : y = q * C + (y % C)
  BY <1>0, ModDef, Zenon
<1>3. x % C \in 0..(C-1) /\ y % C \in 0..(C-1)
  BY ModDef
<1> DEFINE a == x % C
           b == y % C
           h == C \div 2
<1>h. h \in Nat /\ h + h <= C /\ h < C
  OBVIOUS
<1>4. /\ a \in 0..(C-1) /\ b \in 0..(C-1)
      /\ x = p * C + a /\ y = q * C + b
      /\ x - y < h /\ y - x <= h
  BY <1>1, <1>2, <1>3
<1> HIDE DEF a, b, h
<1>5. CASE x >= y
  <2>1. (a - b) % C = x - y
    <3>1. a - b = (q - p) * C + (x - y)
      BY <1>4
    <3>2. x - y \in 0..(C-1)
      BY <1>h, <1>4, <1>5
    <3>3. a - b \in Int /\ q - p \in Int
      BY <1>4
    <3>. QED BY <1>0, <3>1, <3>2, <3>3, ModUnique, Zenon
  <2>2. a = b => x = y
    <3>1. a = b => (a - b) % C = 0
      <4>1. 0 = 0 * C + 0 /\ 0 \in 0..(C-1)
        OBVIOUS
      <4>2. 0 % C = 0
        BY <4>1, ModUnique
      <4>. QED BY <1>4, <4>2
    <3>. QED BY <2>1, <3>1
  <2>3. x = y => a = b
    BY DEF a, b
  <2>4. ((a - b) % C >= h <=> x < y) /\ (a = b <=> x = y)
    <3> DEFINE m == (a - b) % C
    <3>1. m = x - y
      BY <2>1
    <3> HIDE DEF m
    <3>2. m >= h <=> x < y
      BY <1>h, <1>4, <1>5, <3>1
    <3>. QED BY <2>2, <2>3, <3>2 DEF m
  <2>. QED BY <2>4 DEF a, b, h
<1>6. CASE x < y
  <2>1. (a - b) % C = C + (x - y)
    <3>1. a - b = (q - p - 1) * C + (C + (x - y))
      <4>1. (q - p - 1) * C = (q - p) * C - C
        BY <1>4
      <4>2. a - b = (q - p) * C + (x - y)
        BY <1>4
      <4>3. (q - p) * C \in Int
        OBVIOUS
      <4>. QED BY <1>4, <4>1, <4>2, <4>3
    <3>2. C + (x - y) \in 0..(C-1)
      BY <1>h, <1>4, <1>6
    <3>3. a - b \in Int /\ q - p - 1 \in Int
      BY <1>4
    <3>. QED BY <1>0, <3>1, <3>2, <3>3, ModUnique, Zenon
  <2>2. a # b
    <3>1. a = b => (a - b) % C = 0
      <4>1. 0 = 0 * C + 0 /\ 0 \in 0..(C-1)
        OBVIOUS
      <4>2. 0 % C = 0
        BY <4>1, ModUnique
      <4>. QED BY <1>4, <4>2
    <3>. QED BY <1>h, <1>4, <1>6, <2>1, <3>1
  <2>. QED BY <1>h, <1>4, <1>6, <2>1, <2>2 DEF a, b, h
<1>. QED BY <1>5, <1>6

(* The number after a number is that of the next position.                   *)
LEMMA NextNumber ==
    ASSUME NEW C \in Nat, C > 1, NEW x \in Int
    PROVE  ((x % C) + 1) % C = (x + 1) % C
<1>0. C > 0
  OBVIOUS
<1>1. PICK p \in Int : x = p * C + (x % C)
  BY <1>0, ModDef, Zenon
<1>2. x % C \in 0..(C-1)
  BY ModDef
<1>3. CASE (x % C) + 1 < C
  <2>1. ((x % C) + 1) % C = (x % C) + 1
    <3>1. (x % C) + 1 = 0 * C + ((x % C) + 1)
      BY <1>2
    <3>. QED BY <1>2, <1>3, <3>1, ModUnique
  <2>2. x + 1 = p * C + ((x % C) + 1)
    BY <1>1, <1>2
  <2>3. (x % C) + 1 \in 0..(C-1) /\ x + 1 \in Int
    BY <1>2, <1>3
  <2>4. (x + 1) % C = (x % C) + 1
    BY <1>0, <2>2, <2>3, ModUnique, Zenon
  <2>. QED BY <2>1, <2>4
<1>4. CASE (x % C) + 1 = C
  <2>1. C % C = 0
    <3>1. C = 1 * C + 0 /\ 0 \in 0..(C-1)
      OBVIOUS
    <3>. QED BY <3>1, ModUnique
  <2>2. x + 1 = (p + 1) * C + 0
    BY <1>1, <1>4
  <2>3. 0 \in 0..(C-1) /\ p + 1 \in Int /\ x + 1 \in Int
    OBVIOUS
  <2>4. (x + 1) % C = 0
    BY <1>0, <2>2, <2>3, ModUnique, Zenon
  <2>. QED BY <1>4, <2>1, <2>4
<1>. QED BY <1>2, <1>3, <1>4

\* How far behind the latest packet the k-th frame from the end can be.
Gap(k) == Lag + k * (Lag + 1)

(* The numbers are enough to tell packets that can meet in the buffer apart:  *)
(* of 65536 in the code, with no more than a few thousand packets late or     *)
(* lost.  That the power of two is a number is said, for the provers cannot   *)
(* derive it.                                                                 *)
EnoughNumbers ==
    /\ Circle \in Nat
    /\ \/ MaxPosition <= Circle \div 2
       \/ (MinFrames + 2) * (Lag + 1) <= Circle \div 2

(* A set of numbers up to a bound has a greatest one.                        *)
LEMMA Greatest ==
    ASSUME NEW n \in Nat, NEW T \in SUBSET (0..n), T # {}
    PROVE  \E i \in T : \A j \in T : j <= i
<1> DEFINE R == OpToRel(<, Nat)
           U == {n - i : i \in T}
<1>1. IsWellFoundedOn(R, Nat)
  BY NatLessThanWellFounded
<1>2. \A x, y \in Nat : <<x, y>> \in R <=> x < y
  BY DEF OpToRel
<1>3. U \subseteq Nat /\ U # {}
  <2>1. \A i \in T : n - i \in Nat
    OBVIOUS
  <2>2. \E i \in T : n - i \in U
    OBVIOUS
  <2>. QED BY <2>1, <2>2
<1> HIDE DEF R
<1>4. PICK x \in U : \A y \in U : ~(<<y, x>> \in R)
  <2> HIDE DEF U
  <2>. QED BY <1>1, <1>3, WFMin
<1>5. \A y \in U : x <= y
  <2> HIDE DEF U
  <2>1. ASSUME NEW y \in U PROVE x <= y
    <3>1. x \in Nat /\ y \in Nat /\ ~(<<y, x>> \in R)
      BY <1>3, <1>4
    <3>. QED BY <1>2, <3>1
  <2>. QED BY <2>1
<1>6. PICK i \in T : x = n - i
  BY <1>4
<1>7. ASSUME NEW j \in T PROVE j <= i
  BY <1>5, <1>6
<1>. QED BY <1>7

\* Packets of one source that are near each other.
Close(p, q) == /\ p \in Packet /\ q \in Packet /\ p.src = q.src
               /\ p.pos - q.pos < Circle \div 2 /\ q.pos - p.pos <= Circle \div 2

(* The circle has more than one number.                                      *)
LEMMA CircleFacts ==
    ASSUME EnoughNumbers
    PROVE  Circle \in Nat /\ Circle > 1
<1>1. (MinFrames + 2) * (Lag + 1) >= 1
  <2> DEFINE a == MinFrames + 2
             b == Lag + 1
  <2>1. a \in Nat /\ b \in Nat /\ a >= 1 /\ b >= 1
    BY JbufAssumption
  <2> HIDE DEF a, b
  <2>2. a * b >= 1
    BY <2>1
  <2>. QED BY <2>2 DEF a, b
<1>2. MaxPosition >= 1
  BY JbufAssumption
<1> DEFINE m == (MinFrames + 2) * (Lag + 1)
<1>3. m \in Int /\ MaxPosition \in Int
  BY JbufAssumption
<1> HIDE DEF m
<1>4. Circle \in Nat /\ (Circle \div 2 >= MaxPosition \/ Circle \div 2 >= m)
  BY <1>3 DEF EnoughNumbers, m
<1>. QED BY <1>1, <1>2, <1>3, <1>4 DEF m

(* seq_less tells which of two packets near each other is the later.         *)
LEMMA NumbersTell ==
    ASSUME EnoughNumbers, JbufTypeOK, NEW p, NEW q, Close(p, q)
    PROVE  /\ SeqLess(Number(p), Number(q)) <=> p.pos < q.pos
           /\ Number(p) = Number(q) <=> p.pos = q.pos
<1> DEFINE f == first[p.src]
           x == f + p.pos
           y == f + q.pos
           C == Circle
<1>1. p.pos \in Int /\ q.pos \in Int /\ f \in Int /\ first[q.src] = f
      /\ C \in Nat /\ C > 1
  BY CircleFacts DEF Close, Packet, JbufTypeOK
<1>2. Number(p) = x % C /\ Number(q) = y % C
  BY <1>1 DEF Number
<1>3. p.pos - q.pos < C \div 2 /\ q.pos - p.pos <= C \div 2
  BY DEF Close
<1>4. SeqLess(x % C, y % C) <=> ((x % C) - (y % C)) % C >= C \div 2
  BY DEF SeqLess
<1> HIDE DEF C, f
<1>5. x \in Int /\ y \in Int /\ x - y = p.pos - q.pos /\ y - x = q.pos - p.pos
      /\ (x < y <=> p.pos < q.pos) /\ (x = y <=> p.pos = q.pos)
  <2> DEFINE a == p.pos
             b == q.pos
  <2>1. a \in Int /\ b \in Int /\ f \in Int
    BY <1>1
  <2> HIDE DEF a, b
  <2>2. /\ f + a \in Int /\ f + b \in Int
        /\ (f + a) - (f + b) = a - b /\ (f + b) - (f + a) = b - a
        /\ (f + a < f + b <=> a < b) /\ (f + a = f + b <=> a = b)
    BY <2>1
  <2>. QED BY <2>2 DEF a, b
<1>6. x - y < C \div 2 /\ y - x <= C \div 2
  BY <1>3, <1>5
<1> HIDE DEF x, y
<1>7. /\ ((x % C) - (y % C)) % C >= C \div 2 <=> x < y
      /\ x % C = y % C <=> x = y
  BY <1>1, <1>5, <1>6, Apart, Zenon
<1>. QED BY <1>2, <1>4, <1>5, <1>7, Zenon

(* jbuf_put takes for too late what is not after the last one played.        *)
LEMMA LateTell ==
    ASSUME EnoughNumbers, JbufTypeOK, NEW p \in Packet, NEW q \in Packet,
           p.src = q.src, p.pos - (q.pos + 1) < Circle \div 2,
           (q.pos + 1) - p.pos <= Circle \div 2, NEW run \in BOOLEAN
    PROVE  TooLate(p, run, q) <=> run /\ SeqGet(q) # 0 /\ p.pos <= q.pos
<1> DEFINE f == first[p.src]
           x == f + p.pos
           z == f + q.pos
           y == z + 1
           C == Circle
<1>1. p.pos \in Int /\ q.pos \in Int /\ f \in Int /\ first[q.src] = f
      /\ C \in Nat /\ C > 1
  BY CircleFacts DEF Packet, JbufTypeOK
<1>2. Number(p) = x % C /\ SeqGet(q) = z % C
  <2>1. q # Nothing
    BY JbufAssumption DEF Packet
  <2>. QED BY <1>1, <2>1 DEF Number, SeqGet
<1>3. p.pos - (q.pos + 1) < C \div 2 /\ (q.pos + 1) - p.pos <= C \div 2
  OBVIOUS
<1>4. SeqLess(x % C, y % C) <=> ((x % C) - (y % C)) % C >= C \div 2
  BY DEF SeqLess
<1>5. TooLate(p, run, q) <=> run /\ SeqGet(q) # 0 /\ SeqLess(x % C, ((z % C) + 1) % C)
  BY <1>2 DEF TooLate
<1> HIDE DEF C, f
<1>6. x \in Int /\ y \in Int /\ z \in Int
      /\ x - y = p.pos - (q.pos + 1) /\ y - x = (q.pos + 1) - p.pos
      /\ (x < y <=> p.pos <= q.pos)
  BY <1>1
<1>7. x - y < C \div 2 /\ y - x <= C \div 2
  BY <1>3, <1>6
<1> HIDE DEF x, z
<1>8. ((z % C) + 1) % C = y % C
  BY <1>1, <1>6, NextNumber, Zenon
<1> HIDE DEF y
<1>9. ((x % C) - (y % C)) % C >= C \div 2 <=> x < y
  BY <1>1, <1>6, <1>7, Apart, Zenon
<1>. QED BY <1>4, <1>5, <1>6, <1>8, <1>9, Zenon

(* The elements of a sequence after one is put at place k.                   *)
LEMMA InsertAtFacts ==
    ASSUME NEW S, NEW s \in Seq(S), NEW k \in 1..(Len(s) + 1), NEW e \in S
    PROVE  /\ InsertAt(s, k, e) \in Seq(S)
           /\ Len(InsertAt(s, k, e)) = Len(s) + 1
           /\ \A i \in 1..(Len(s) + 1) :
                 InsertAt(s, k, e)[i] = IF i < k THEN s[i]
                                        ELSE IF i = k THEN e ELSE s[i - 1]
<1> DEFINE a == SubSeq(s, 1, k - 1)
           b == SubSeq(s, k, Len(s))
           c == a \o <<e>>
           n == Len(s)
<1>0. n \in Nat /\ k \in 1..(n + 1) /\ \A i \in 1..n : s[i] \in S
  BY LenProperties, ElementOfSeq
<1>1. InsertAt(s, k, e) = c \o b
  BY DEF InsertAt
<1>2. /\ a \in Seq(S) /\ Len(a) = k - 1
      /\ \A i \in 1..(k - 1) : a[i] = s[i]
  <2>1. 1 \in Int /\ k - 1 \in Int /\ \A i \in 1..(k - 1) : s[i] \in S
    BY <1>0
  <2>2. /\ a \in Seq(S)
        /\ Len(a) = IF 1 <= k - 1 THEN (k - 1) - 1 + 1 ELSE 0
        /\ \A i \in 1..((k - 1) - 1 + 1) : a[i] = s[1 + i - 1]
    BY <2>1, SubSeqProperties
  <2> HIDE DEF a
  <2>. QED BY <1>0, <2>2
<1>3. /\ b \in Seq(S) /\ Len(b) = n - k + 1
      /\ \A i \in 1..(n - k + 1) : b[i] = s[k + i - 1]
  <2>1. k \in Int /\ n \in Int /\ \A i \in k..n : s[i] \in S
    BY <1>0
  <2>2. /\ b \in Seq(S)
        /\ Len(b) = IF k <= n THEN n - k + 1 ELSE 0
        /\ \A i \in 1..(n - k + 1) : b[i] = s[k + i - 1]
    BY <2>1, SubSeqProperties
  <2> HIDE DEF b
  <2>. QED BY <1>0, <2>2
<1> HIDE DEF a, b
<1>4. <<e>> \in Seq(S) /\ Len(<<e>>) = 1 /\ <<e>>[1] = e
  OBVIOUS
<1>5. /\ c \in Seq(S) /\ Len(c) = k
      /\ \A i \in 1..k : c[i] = IF i < k THEN s[i] ELSE e
  <2>1. /\ c \in Seq(S) /\ Len(c) = Len(a) + Len(<<e>>)
        /\ \A i \in 1..(Len(a) + Len(<<e>>)) :
              c[i] = IF i <= Len(a) THEN a[i] ELSE <<e>>[i - Len(a)]
    BY <1>2, <1>4, ConcatProperties
  <2> HIDE DEF c
  <2>. QED BY <1>0, <1>2, <1>4, <2>1
<1> HIDE DEF c
<1>6. /\ c \o b \in Seq(S) /\ Len(c \o b) = Len(c) + Len(b)
      /\ \A i \in 1..(Len(c) + Len(b)) :
            (c \o b)[i] = IF i <= Len(c) THEN c[i] ELSE b[i - Len(c)]
  BY <1>3, <1>5, ConcatProperties
<1> DEFINE g == c \o b
<1>7. /\ g \in Seq(S) /\ Len(g) = Len(c) + Len(b)
      /\ \A i \in 1..(Len(c) + Len(b)) :
            g[i] = IF i <= Len(c) THEN c[i] ELSE b[i - Len(c)]
  BY <1>6
<1> HIDE DEF g, n
<1>8. Len(g) = n + 1
  BY <1>0, <1>3, <1>5, <1>7
<1>9. ASSUME NEW i \in 1..(n + 1)
      PROVE  g[i] = IF i < k THEN s[i] ELSE IF i = k THEN e ELSE s[i - 1]
  <2>1. CASE i <= k
    BY <1>0, <1>3, <1>5, <1>7, <1>9, <2>1
  <2>2. CASE i > k
    <3>1. g[i] = b[i - k]
      BY <1>0, <1>3, <1>5, <1>7, <1>9, <2>2
    <3>2. i - k \in 1..(n - k + 1)
      BY <1>0, <1>9, <2>2
    <3>3. b[i - k] = s[k + (i - k) - 1]
      BY <1>3, <3>2
    <3>4. k + (i - k) - 1 = i - 1
      BY <1>0, <1>9
    <3>. QED BY <1>0, <1>9, <2>2, <3>1, <3>3, <3>4
  <2>. QED BY <1>0, <1>9, <2>1, <2>2
<1>. QED BY <1>1, <1>7, <1>8, <1>9 DEF g, n

\* Where a packet goes among frames that are in order.
LEMMA InsertFacts ==
    ASSUME EnoughNumbers, JbufTypeOK, NEW fs \in Seq(Packet), NEW p \in Packet,
           \A i \in 1..Len(fs) : Close(fs[i], p),
           \A i, j \in 1..Len(fs) : i < j => fs[i].pos < fs[j].pos
    PROVE  \/ Insert(fs, p) = fs /\ \E i \in 1..Len(fs) : fs[i].pos = p.pos
           \/ \E k \in 1..(Len(fs) + 1) :
                /\ Insert(fs, p) = InsertAt(fs, k, p)
                /\ \A i \in 1..Len(fs) : /\ i < k => fs[i].pos < p.pos
                                         /\ i >= k => fs[i].pos > p.pos
<1> DEFINE n == Len(fs)
           smaller == {i \in DOMAIN fs : SeqLess(Number(fs[i]), Number(p))}
           place == CHOOSE i \in smaller \cup {0} : \A j \in smaller : j <= i
<1>1. n \in Nat /\ DOMAIN fs = 1..n /\ \A i \in 1..n : fs[i] \in Packet
  BY LenProperties, ElementOfSeq
<1>2. \A i \in 1..n : /\ SeqLess(Number(fs[i]), Number(p)) <=> fs[i].pos < p.pos
                      /\ Number(fs[i]) = Number(p) <=> fs[i].pos = p.pos
  BY NumbersTell
<1>3. Insert(fs, p) = IF \E i \in 1..n : Number(fs[i]) = Number(p) THEN fs
                      ELSE InsertAt(fs, place + 1, p)
  BY <1>1 DEF Insert
<1>4. smaller = {i \in 1..n : fs[i].pos < p.pos}
  BY <1>1, <1>2
<1> HIDE DEF smaller, n
<1>5. place \in smaller \cup {0} /\ \A j \in smaller : j <= place
  <2>1. PICK i \in smaller \cup {0} : \A j \in smaller \cup {0} : j <= i
    <3>1. smaller \cup {0} \in SUBSET (0..n) /\ smaller \cup {0} # {}
      BY <1>1, <1>4
    <3>. QED BY <1>1, <3>1, Greatest
  <2>. QED BY <2>1
<1> HIDE DEF place
<1>6. CASE \E i \in 1..n : fs[i].pos = p.pos
  BY <1>2, <1>3, <1>6 DEF n
<1>7. CASE \A i \in 1..n : fs[i].pos # p.pos
  <2>1. Insert(fs, p) = InsertAt(fs, place + 1, p)
    BY <1>2, <1>3, <1>7
  <2>2. place \in 0..n
    BY <1>1, <1>4, <1>5
  <2>3. ASSUME NEW i \in 1..n
        PROVE  /\ i < place + 1 => fs[i].pos < p.pos
               /\ i >= place + 1 => fs[i].pos > p.pos
    <3>0. fs[i].pos \in Int /\ p.pos \in Int /\ fs[i].pos # p.pos
      BY <1>1, <1>7 DEF Packet
    <3>1. ASSUME i < place + 1 PROVE fs[i].pos < p.pos
      <4>1. place \in 1..n /\ fs[place].pos < p.pos
        BY <1>4, <1>5, <2>2, <3>1
      <4>2. i = place \/ fs[i].pos < fs[place].pos
        BY <2>2, <3>1, <4>1 DEF n
      <4>3. fs[place].pos \in Int
        BY <1>1, <4>1 DEF Packet
      <4>. QED BY <3>0, <4>1, <4>2, <4>3
    <3>2. ASSUME i >= place + 1 PROVE fs[i].pos > p.pos
      <4>1. i \notin smaller
        BY <1>5, <2>2, <3>2
      <4>. QED BY <1>4, <3>0, <4>1
    <3>. QED BY <3>1, <3>2
  <2>4. place + 1 \in 1..(n + 1)
    BY <1>1, <2>2
  <2>. QED BY <2>1, <2>3, <2>4 DEF n
<1>. QED BY <1>6, <1>7

(* The gap of a frame grows with its distance from the end.                  *)
LEMMA GapFacts ==
    ASSUME NEW k \in Nat
    PROVE  /\ Gap(k) \in Nat /\ Gap(k) >= Lag /\ Gap(k + 1) = Gap(k) + Lag + 1
           /\ k <= MinFrames => Gap(k) + Lag + 2 <= (MinFrames + 2) * (Lag + 1)
<1> DEFINE c == Lag + 1
           m == MinFrames
<1>1. c \in Nat /\ Lag \in Nat /\ c > Lag /\ m \in Nat
  BY JbufAssumption
<1>2. Gap(k) = Lag + k * c /\ Gap(k + 1) = Lag + (k + 1) * c
  BY DEF Gap
<1> HIDE DEF c, m
<1>3. k * c \in Nat /\ (k + 1) * c = k * c + c
  BY <1>1
<1>4. k <= m => k * c + c + c <= (m + 2) * c
  <2>1. ASSUME k <= m PROVE k * c + c + c <= (m + 2) * c
    <3>1. (m - k) * c >= 0
      BY <1>1, <2>1
    <3>2. (m + 2) * c = k * c + c + c + (m - k) * c
      BY <1>1
    <3> DEFINE u == k * c
               v == (m - k) * c
               w == (m + 2) * c
    <3>3. u \in Int /\ v \in Int /\ v >= 0 /\ w = u + c + c + v
      BY <1>1, <3>1, <3>2
    <3> HIDE DEF u, v, w
    <3>4. u + c + c <= w
      BY <1>1, <3>3
    <3>. QED BY <3>4 DEF u, w
  <2>. QED BY <2>1
<1> DEFINE x == k * c
           y == (m + 2) * c
<1>5. x \in Nat /\ Gap(k) = Lag + x /\ Gap(k + 1) = Lag + (x + c)
      /\ (k <= m => x + c + c <= y) /\ y \in Int
  BY <1>1, <1>2, <1>3, <1>4
<1> HIDE DEF x, y
<1>6. c = Lag + 1
  BY DEF c
<1>7. /\ Gap(k) \in Nat /\ Gap(k) >= Lag /\ Gap(k + 1) = Gap(k) + Lag + 1
      /\ k <= m => Gap(k) + Lag + 2 <= y
  BY <1>1, <1>5, <1>6
<1>. QED BY <1>7 DEF y, c, m

\* A source's frames in the buffer: in order, and near its latest packet.
Buffer(fs, s, top) ==
    /\ fs \in Seq(Packet)
    /\ \A i \in 1..Len(fs) : /\ fs[i].src = s /\ fs[i].pos <= top
                             /\ top - fs[i].pos <= Gap(Len(fs) - i)
    /\ \A i, j \in 1..Len(fs) : i < j => fs[i].pos < fs[j].pos

\* A packet that comes near the latest one, and the latest one after it.
Comes(p, s, top) ==
    /\ p \in Packet /\ p.src = s /\ top \in 0..MaxPosition
    /\ top - p.pos <= Lag /\ p.pos - top <= Lag + 1

Latest(p, top) == IF p.pos > top THEN p.pos ELSE top

(* Frames in the buffer are near every packet that can come.                 *)
LEMMA NearEnough ==
    ASSUME EnoughNumbers, NEW s, NEW top, NEW p, Comes(p, s, top),
           NEW q \in Packet, NEW k \in 0..MinFrames,
           q.src = s, q.pos <= top, top - q.pos <= Gap(k)
    PROVE  /\ Close(q, p)
           /\ p.pos - (q.pos + 1) < Circle \div 2 /\ (q.pos + 1) - p.pos <= Circle \div 2
<1> DEFINE m == (MinFrames + 2) * (Lag + 1)
           h == Circle \div 2
           g == Gap(k)
<1>1. Circle \in Nat /\ Circle > 1
  BY CircleFacts
<1>2. k \in Nat /\ k <= MinFrames /\ Lag \in Nat /\ MinFrames \in Nat /\ MaxPosition \in Nat
  BY JbufAssumption
<1>3. g \in Nat /\ g >= Lag /\ g + Lag + 2 <= m
  BY <1>2, GapFacts
<1>4. p.pos \in 1..MaxPosition /\ q.pos \in 1..MaxPosition /\ top \in 0..MaxPosition
      /\ q.pos <= top /\ top - q.pos <= g
      /\ top - p.pos <= Lag /\ p.pos - top <= Lag + 1
      /\ p \in Packet /\ p.src = q.src
  BY DEF Comes, Packet
<1>5. h \in Nat
  BY <1>1
<1>6. m \in Int
  BY <1>2
<1>7. MaxPosition <= h \/ m <= h
  BY DEF EnoughNumbers
<1> HIDE DEF g, m, h
<1>8. /\ p.pos - q.pos <= h /\ q.pos - p.pos < h
      /\ p.pos - (q.pos + 1) < h /\ (q.pos + 1) - p.pos <= h
  BY <1>2, <1>3, <1>4, <1>5, <1>6, <1>7
<1>. QED BY <1>4, <1>8 DEF Close, h

(* A frame is put among the others, or was there already.                    *)
LEMMA InsertKeeps ==
    ASSUME EnoughNumbers, JbufTypeOK, NEW s, NEW top, NEW p, Comes(p, s, top),
           NEW fs, Buffer(fs, s, top), Len(fs) <= MinFrames
    PROVE  LET g == Insert(fs, p)
           IN  /\ Buffer(g, s, Latest(p, top))
               /\ \/ g = fs /\ Latest(p, top) = top
                  \/ Len(g) = Len(fs) + 1
               /\ \A i \in 1..Len(g) : g[i] = p \/ \E j \in 1..Len(fs) : g[i] = fs[j]
<1> DEFINE g == Insert(fs, p)
           n == Len(fs)
           t == Latest(p, top)
<1>1. fs \in Seq(Packet) /\ n \in Nat /\ n <= MinFrames /\ p \in Packet /\ p.src = s
      /\ \A i \in 1..n : fs[i] \in Packet /\ fs[i].src = s
  BY LenProperties, ElementOfSeq DEF Buffer, Comes
<1>2. \A i \in 1..n : Close(fs[i], p)
  <2>1. ASSUME NEW i \in 1..n PROVE Close(fs[i], p)
    <3>1. n - i \in 0..MinFrames
      BY <1>1, JbufAssumption
    <3>2. fs[i].pos <= top /\ top - fs[i].pos <= Gap(n - i)
      BY DEF Buffer
    <3>. QED BY <1>1, <3>1, <3>2, NearEnough
  <2>. QED BY <2>1
<1>3. \/ g = fs /\ \E i \in 1..n : fs[i].pos = p.pos
      \/ \E k \in 1..(n + 1) :
           /\ g = InsertAt(fs, k, p)
           /\ \A i \in 1..n : /\ i < k => fs[i].pos < p.pos
                              /\ i >= k => fs[i].pos > p.pos
  BY <1>1, <1>2, InsertFacts DEF Buffer
<1>4. /\ p.pos \in Int /\ top \in Int /\ top - p.pos <= Lag /\ p.pos - top <= Lag + 1
      /\ t = IF p.pos > top THEN p.pos ELSE top
  BY DEF Comes, Packet, Latest
<1> HIDE DEF g, t
<1>5. CASE g = fs /\ \E i \in 1..n : fs[i].pos = p.pos
  <2>1. t = top
    BY <1>4, <1>5 DEF Buffer
  <2>. QED BY <1>5, <2>1 DEF g, t
<1>6. CASE \E k \in 1..(n + 1) :
             /\ g = InsertAt(fs, k, p)
             /\ \A i \in 1..n : /\ i < k => fs[i].pos < p.pos
                                /\ i >= k => fs[i].pos > p.pos
  <2>1. PICK k \in 1..(n + 1) :
             /\ g = InsertAt(fs, k, p)
             /\ \A i \in 1..n : /\ i < k => fs[i].pos < p.pos
                                /\ i >= k => fs[i].pos > p.pos
    BY <1>6
  <2>2. /\ g \in Seq(Packet) /\ Len(g) = n + 1
        /\ \A i \in 1..(n + 1) : g[i] = IF i < k THEN fs[i]
                                        ELSE IF i = k THEN p ELSE fs[i - 1]
    <3>1. k \in 1..(Len(fs) + 1)
      BY <2>1
    <3>2. /\ InsertAt(fs, k, p) \in Seq(Packet)
          /\ Len(InsertAt(fs, k, p)) = Len(fs) + 1
          /\ \A i \in 1..(Len(fs) + 1) :
                 InsertAt(fs, k, p)[i] = IF i < k THEN fs[i]
                                         ELSE IF i = k THEN p ELSE fs[i - 1]
      BY <1>1, <3>1, InsertAtFacts
    <3>. QED BY <2>1, <3>2
  <2>3. /\ \A i \in 1..n : /\ fs[i].pos \in Int /\ fs[i].pos <= top
                           /\ top - fs[i].pos <= Gap(n - i)
        /\ \A i, j \in 1..n : i < j => fs[i].pos < fs[j].pos
    BY <1>1 DEF Buffer, Packet
  <2>4. p.pos > top => k = n + 1
    BY <1>1, <1>4, <2>1, <2>3
  <2>5. ASSUME NEW i \in 1..(n + 1)
        PROVE  /\ g[i].src = s /\ g[i].pos <= t /\ t - g[i].pos <= Gap((n + 1) - i)
               /\ g[i] = p \/ \E j \in 1..n : g[i] = fs[j]
    <3>g. (n + 1) - i \in Nat /\ Lag \in Nat
      BY <1>1, JbufAssumption
    <3>1. CASE i < k
      <4>0. g[i] = fs[i]
        BY <2>2, <3>1
      <4>1. i \in 1..n /\ g[i] = fs[i] /\ n - i \in Nat /\ (n - i) + 1 = (n + 1) - i
        <5>1. n \in Nat /\ k \in 1..(n + 1)
          BY <1>1, <2>1
        <5> HIDE DEF n
        <5>. QED BY <3>1, <4>0, <5>1
      <4>2. Gap(n - i) \in Nat /\ Gap((n + 1) - i) = Gap(n - i) + Lag + 1
        BY <4>1, GapFacts
      <4>3. /\ fs[i].src = s /\ fs[i].pos \in Int /\ fs[i].pos <= top
            /\ top - fs[i].pos <= Gap(n - i)
        BY <1>1, <2>3, <4>1
      <4>4. t \in Int /\ t >= top /\ t - top <= Lag + 1
        BY <1>4, <3>g
      <4>5. fs[i].pos <= t /\ t - fs[i].pos <= Gap((n + 1) - i)
        <5> DEFINE a == fs[i].pos
                   b == Gap(n - i)
        <5>1. /\ a \in Int /\ a <= top /\ top - a <= b /\ b \in Nat
              /\ Gap((n + 1) - i) = b + Lag + 1
          BY <4>2, <4>3
        <5> HIDE DEF a, b
        <5>2. a <= t /\ t - a <= b + Lag + 1
          BY <1>4, <3>g, <4>4, <5>1
        <5>. QED BY <5>1, <5>2 DEF a
      <4>. QED BY <4>1, <4>3, <4>5
    <3>2. CASE i = k
      <4>1. g[i] = p
        BY <1>1, <2>2, <3>2
      <4>2. Gap((n + 1) - i) \in Nat /\ Gap((n + 1) - i) >= Lag
        BY <3>g, GapFacts
      <4>. QED BY <1>1, <1>4, <3>g, <4>1, <4>2
    <3>3. CASE i > k
      <4>1. i - 1 \in 1..n /\ g[i] = fs[i - 1] /\ n - (i - 1) = (n + 1) - i
        BY <1>1, <2>2, <3>3
      <4>2. t = top
        BY <1>1, <1>4, <2>4, <3>3
      <4>3. fs[i - 1].src = s /\ fs[i - 1].pos <= top /\ top - fs[i - 1].pos <= Gap((n + 1) - i)
        BY <1>1, <2>3, <4>1
      <4>. QED BY <4>1, <4>2, <4>3
    <3>. QED BY <1>1, <3>1, <3>2, <3>3
  <2>6. ASSUME NEW i \in 1..(n + 1), NEW j \in 1..(n + 1), i < j
        PROVE  g[i].pos < g[j].pos
    <3>1. /\ g[i] = IF i < k THEN fs[i] ELSE IF i = k THEN p ELSE fs[i - 1]
          /\ g[j] = IF j < k THEN fs[j] ELSE IF j = k THEN p ELSE fs[j - 1]
      BY <2>2
    <3>2. CASE j < k
      BY <1>1, <2>3, <2>6, <3>1, <3>2
    <3>3. CASE j = k
      BY <1>1, <2>1, <2>6, <3>1, <3>3
    <3>4. CASE j > k /\ i < k
      <4>1. j - 1 \in 1..n /\ i \in 1..n
        BY <1>1, <2>6, <3>4
      <4>2. fs[i].pos < p.pos /\ p.pos < fs[j - 1].pos
        <5>1. j - 1 >= k
          BY <1>1, <2>1, <2>6, <3>4
        <5> HIDE DEF n
        <5>. QED BY <2>1, <3>4, <4>1, <5>1
      <4>. QED BY <1>4, <2>3, <3>1, <3>4, <4>1, <4>2
    <3>5. CASE j > k /\ i = k
      <4>1. j - 1 \in 1..n /\ j - 1 >= k
        BY <1>1, <2>6, <3>5
      <4>. QED BY <1>1, <2>1, <3>1, <3>5, <4>1
    <3>6. CASE i > k
      <4>1. j - 1 \in 1..n /\ i - 1 \in 1..n /\ i - 1 < j - 1
        BY <1>1, <2>6, <3>6
      <4>. QED BY <1>1, <2>3, <2>6, <3>1, <3>6, <4>1
    <3>. QED BY <1>1, <2>6, <3>2, <3>3, <3>4, <3>5, <3>6
  <2>. QED BY <1>1, <2>2, <2>5, <2>6 DEF Buffer, g, t
<1>. QED BY <1>3, <1>5, <1>6

\* seq_get takes number 0 for no packet at all.
Forgot(last) == last = Nothing \/ SeqGet(last) = 0

\* The buffer between two packets: what was played last is the frame before
\* those in it, unless it is forgotten.
Held(fs, last, s, top) ==
    /\ Buffer(fs, s, top) /\ Len(fs) <= MinFrames
    /\ last # Nothing => /\ last \in Packet /\ last.src = s /\ last.pos <= top
                         /\ top - last.pos <= Gap(MinFrames)
                         /\ Len(fs) = MinFrames
    /\ Forgot(last) \/ \A i \in 1..Len(fs) : last.pos < fs[i].pos

\* The inductive invariant of the buffer.
JbufInv ==
    /\ JbufTypeOK
    /\ ssrc \in Ssrc => Held(frames, played, ssrc, sent[ssrc])
    /\ running => ssrc \in Ssrc
    /\ ~running => frames = <<>> /\ played = Nothing

(* A flushed buffer holds nothing that could be out of order.                *)
LEMMA EmptyHeld ==
    ASSUME NEW s, NEW top
    PROVE  Held(<<>>, Nothing, s, top)
<1>1. <<>> \in Seq(Packet) /\ Len(<<>>) = 0
  BY EmptySeq
<1>2. \A i \in 1..0 : FALSE
  OBVIOUS
<1>. QED BY <1>1, <1>2, JbufAssumption DEF Held, Buffer, Forgot

(* jbuf_get takes the first frame of a full buffer.                          *)
LEMMA GetKeeps ==
    ASSUME NEW s, NEW top, NEW g, Buffer(g, s, top), Len(g) = MinFrames + 1, top \in Int
    PROVE  /\ Held(Tail(g), Head(g), s, top)
           /\ Head(g) = g[1] /\ Head(g) \in Packet /\ Head(g).src = s
<1> DEFINE m == MinFrames
           u == Tail(g)
           e == Head(g)
<1>1. m \in Nat /\ g \in Seq(Packet) /\ g # <<>>
  BY JbufAssumption, EmptySeq DEF Buffer
<1>2. /\ u \in Seq(Packet) /\ Len(u) = m /\ \A i \in 1..m : u[i] = g[i + 1]
      /\ e = g[1] /\ e \in Packet
  <2>1. /\ Head(g) \in Packet /\ Tail(g) \in Seq(Packet) /\ Len(Tail(g)) = Len(g) - 1
        /\ \A i \in 1..Len(Tail(g)) : Tail(g)[i] = g[i + 1]
    BY <1>1, HeadTailProperties
  <2>2. Head(g) = g[1]
    BY <1>1
  <2>. QED BY <1>1, <2>1, <2>2
<1> HIDE DEF u, e
<1>3. /\ \A i \in 1..(m + 1) : /\ g[i].src = s /\ g[i].pos <= top
                               /\ top - g[i].pos <= Gap((m + 1) - i)
      /\ \A i, j \in 1..(m + 1) : i < j => g[i].pos < g[j].pos
  BY DEF Buffer
<1>4. ASSUME NEW i \in 1..m
      PROVE  /\ u[i].src = s /\ u[i].pos <= top /\ top - u[i].pos <= Gap(m - i)
             /\ e.pos < u[i].pos
  <2>1. i + 1 \in 1..(m + 1) /\ 1 \in 1..(m + 1) /\ 1 < i + 1 /\ (m + 1) - (i + 1) = m - i
    BY <1>1
  <2>. QED BY <1>2, <1>3, <2>1
<1>5. ASSUME NEW i \in 1..m, NEW j \in 1..m, i < j PROVE u[i].pos < u[j].pos
  <2>1. i + 1 \in 1..(m + 1) /\ j + 1 \in 1..(m + 1) /\ i + 1 < j + 1
    BY <1>1, <1>5
  <2>. QED BY <1>2, <1>3, <2>1
<1>6. e.src = s /\ e.pos <= top /\ top - e.pos <= Gap(m)
  <2>1. 1 \in 1..(m + 1) /\ (m + 1) - 1 = m
    BY <1>1
  <2>. QED BY <1>2, <1>3, <2>1
<1>7. Buffer(u, s, top)
  BY <1>2, <1>4, <1>5 DEF Buffer
<1>8. Held(u, e, s, top)
  <2>1. e \in Packet /\ Len(u) = MinFrames /\ MinFrames <= MinFrames
    BY <1>1, <1>2
  <2>2. \A i \in 1..Len(u) : e.pos < u[i].pos
    BY <1>2, <1>4
  <2>. QED BY <1>6, <1>7, <2>1, <2>2 DEF Held
<1>. QED BY <1>2, <1>6, <1>8 DEF u, e

(* A packet is put and one is taken out.                                     *)
LEMMA PutAndGetKeeps ==
    ASSUME EnoughNumbers, JbufTypeOK, NEW s, NEW top, NEW p, Comes(p, s, top),
           NEW run \in BOOLEAN, NEW fs, NEW last, NEW started \in BOOLEAN,
           Held(fs, last, s, top), last # Nothing => run,
           PutAndGet(p, run, fs, last, started)
    PROVE  /\ ssrc' = s /\ running' = TRUE
           /\ Held(frames', played', s, Latest(p, top))
           /\ Forgot(last) \/ played' = last \/ Later(played', last)
           /\ Len(fs) = 0 => played' = last
           /\ jbufStarted' \in BOOLEAN
<1> DEFINE g == Insert(fs, p)
           late == TooLate(p, run, last)
           buffer == IF late THEN fs ELSE g
           t == Latest(p, top)
           m == MinFrames
<1>1. /\ m \in Nat /\ m > 0 /\ m < MaxFrames /\ MaxFrames \in Nat
      /\ fs \in Seq(Packet) /\ Len(fs) \in Nat /\ Len(fs) <= m
      /\ p.pos \in Int /\ top \in Int /\ t \in Int
      /\ t = IF p.pos > top THEN p.pos ELSE top
  BY JbufAssumption, LenProperties DEF Held, Buffer, Comes, Packet, Latest
<1>2. Alloc(fs) = fs
  BY <1>1 DEF Alloc
<1>3. /\ ssrc' = p.src /\ running' = TRUE
      /\ frames' = IF Len(buffer) > m THEN Tail(buffer) ELSE buffer
      /\ played' = IF Len(buffer) > m THEN Head(buffer) ELSE last
      /\ jbufStarted' = (started \/ Len(buffer) > m)
  BY <1>2 DEF PutAndGet
<1>4. /\ Buffer(g, s, t)
      /\ (g = fs /\ t = top) \/ Len(g) = Len(fs) + 1
      /\ \A i \in 1..Len(g) : g[i] = p \/ \E j \in 1..Len(fs) : g[i] = fs[j]
  BY <1>1, InsertKeeps DEF Held
<1>5. last # Nothing =>
        (late <=> run /\ SeqGet(last) # 0 /\ p.pos <= last.pos)
  <2> SUFFICES ASSUME last # Nothing
               PROVE  late <=> run /\ SeqGet(last) # 0 /\ p.pos <= last.pos
    OBVIOUS
  <2>1. last \in Packet /\ last.src = s /\ last.pos <= top /\ top - last.pos <= Gap(m)
        /\ p \in Packet /\ p.src = s
    BY DEF Held, Comes
  <2>2. m \in 0..m
    BY <1>1
  <2>3. p.pos - (last.pos + 1) < Circle \div 2 /\ (last.pos + 1) - p.pos <= Circle \div 2
    BY <2>1, <2>2, NearEnough
  <2>. QED BY <2>1, <2>3, LateTell
<1>6. last = Nothing => ~late
  BY DEF TooLate, SeqGet
<1>7. last # Nothing => last \in Packet /\ last.pos \in Int
  BY DEF Held, Packet
<1> HIDE DEF g, late, t, m
<1>8. CASE late
  <2>1. last # Nothing /\ p.pos <= last.pos /\ last.pos <= top
    BY <1>5, <1>6, <1>8 DEF Held
  <2>2. t = top
    BY <1>1, <1>7, <2>1
  <2>3. frames' = fs /\ played' = last /\ jbufStarted' = (started \/ FALSE)
    BY <1>1, <1>3, <1>8
  <2>4. ssrc' = s
    BY <1>3 DEF Comes
  <2>5. Held(frames', played', s, t)
    BY <2>2, <2>3
  <2>. QED BY <1>3, <2>3, <2>4, <2>5 DEF t
<1>9. CASE ~late
  <2>0. ssrc' = s /\ buffer = g
    BY <1>3, <1>9 DEF Comes
  <2>1. ASSUME ~Forgot(last), NEW i \in 1..Len(g) PROVE last.pos < g[i].pos
    <3>1. last # Nothing /\ p.pos > last.pos
      BY <1>1, <1>5, <1>7, <1>9, <2>1 DEF Forgot
    <3>2. \A j \in 1..Len(fs) : last.pos < fs[j].pos
      BY <2>1 DEF Held
    <3>. QED BY <1>1, <1>4, <1>7, <3>1, <3>2
  <2>2. g \in Seq(Packet) /\ Len(g) \in Nat
    BY <1>4, LenProperties DEF Buffer
  <2>3. CASE Len(g) > m
    <3>1. Len(g) = m + 1
      BY <1>1, <1>4, <2>2, <2>3
    <3>2. frames' = Tail(g) /\ played' = Head(g) /\ jbufStarted' = (started \/ TRUE)
      BY <1>3, <2>0, <2>3
    <3>0. Buffer(g, s, t) /\ Len(g) = MinFrames + 1 /\ t \in Int
      BY <1>1, <1>4, <3>1 DEF m
    <3>3. /\ Held(Tail(g), Head(g), s, t)
          /\ Head(g) = g[1] /\ Head(g) \in Packet /\ Head(g).src = s
      BY <3>0, GetKeeps
    <3>4. Held(frames', played', s, t)
      BY <3>2, <3>3
    <3>5. Forgot(last) \/ Later(played', last)
      <4>1. ~Forgot(last) => last # Nothing /\ last.src = s
        BY DEF Forgot, Held
      <4>2. Head(g).pos \in Int
        BY <3>3 DEF Packet
      <4>. QED BY <1>1, <1>7, <2>1, <3>1, <3>2, <3>3, <4>1, <4>2 DEF Later
    <3>6. Len(fs) # 0
      BY <1>1, <1>4, <2>3
    <3>. QED BY <1>3, <2>0, <3>2, <3>4, <3>5, <3>6 DEF t
  <2>4. CASE ~(Len(g) > m)
    <3>1. frames' = g /\ played' = last /\ jbufStarted' = (started \/ FALSE)
      BY <1>3, <2>0, <2>4
    <3>2. last # Nothing => Len(g) = m /\ t = top
      <4>1. last # Nothing => Len(fs) = m
        BY DEF Held, m
      <4>. QED BY <1>1, <1>4, <2>2, <2>4, <4>1
    <3>3. Held(g, last, s, t)
      <4>1. last # Nothing => /\ last \in Packet /\ last.src = s /\ last.pos <= top
                              /\ top - last.pos <= Gap(m)
        BY DEF Held, m
      <4>2. Forgot(last) \/ \A i \in 1..Len(g) : last.pos < g[i].pos
        BY <2>1
      <4>3. Len(g) <= m
        BY <1>1, <2>2, <2>4
      <4>4. last # Nothing => /\ last \in Packet /\ last.src = s /\ last.pos <= t
                              /\ t - last.pos <= Gap(MinFrames) /\ Len(g) = MinFrames
        BY <3>2, <4>1 DEF m
      <4>5. Buffer(g, s, t) /\ Len(g) <= MinFrames
        BY <1>4, <4>3 DEF m
      <4>. QED BY <4>2, <4>4, <4>5 DEF Held
    <3>. QED BY <1>3, <2>0, <3>1, <3>3 DEF t
  <2>. QED BY <2>3, <2>4
<1>. QED BY <1>8, <1>9

(* The buffer is empty at first.                                             *)
LEMMA JbufInitially == JbufInit => JbufInv
<1> SUFFICES ASSUME JbufInit PROVE JbufInv
  OBVIOUS
<1>1. <<>> \in Seq(Packet) /\ Len(<<>>) = 0
  BY EmptySeq
<1>2. JbufTypeOK
  <2>1. sent \in [Ssrc -> 0..MaxPosition]
    BY JbufAssumption DEF JbufInit
  <2>2. frames \in Seq(Packet) /\ Len(frames) <= MaxFrames
    BY <1>1, JbufAssumption DEF JbufInit
  <2>. QED BY <2>1, <2>2 DEF JbufInit, JbufTypeOK
<1>3. ssrc \notin Ssrc
  BY JbufAssumption DEF JbufInit
<1>. QED BY <1>2, <1>3 DEF JbufInit, JbufInv

(* What an operation may never do: play a packet out of order.               *)
InOrder == Forgotten \/ played' \in {Nothing, played} \/ Later(played', played)

(* rtp_handler keeps the invariant and plays in order.                       *)
LEMMA ArrivesKeeps ==
    ASSUME EnoughNumbers, JbufInv, Rtp_Arrives
    PROVE  JbufInv' /\ InOrder
<1>0. PICK s \in Ssrc : \E n \in (sent[s] - Lag)..(sent[s] + 1 + Lag) :
        /\ n \in 1..MaxPosition
        /\ sent' = [sent EXCEPT ![s] = IF n > @ THEN n ELSE @]
        /\ Handle([src |-> s, pos |-> n])
        /\ UNCHANGED first
  BY DEF Rtp_Arrives
<1>1. PICK n \in (sent[s] - Lag)..(sent[s] + 1 + Lag) :
        /\ n \in 1..MaxPosition
        /\ sent' = [sent EXCEPT ![s] = IF n > @ THEN n ELSE @]
        /\ Handle([src |-> s, pos |-> n])
        /\ UNCHANGED first
  BY <1>0
<1> DEFINE p == [src |-> s, pos |-> n]
           top == sent[s]
<1>2. /\ p \in Packet /\ p.src = s /\ p.pos = n
      /\ JbufTypeOK /\ sent \in [Ssrc -> 0..MaxPosition] /\ top \in 0..MaxPosition
  BY <1>1 DEF Packet, JbufInv, JbufTypeOK
<1>3. Comes(p, s, top)
  BY <1>1, <1>2, JbufAssumption DEF Comes
<1>4. /\ sent' \in [Ssrc -> 0..MaxPosition] /\ sent'[s] = Latest(p, top)
      /\ first' = first
  BY <1>1, <1>2, JbufAssumption DEF Latest
<1> HIDE DEF p, top
<1> DEFINE streamFlush == ssrcRx \notin {Nothing, p.src}
           flush == streamFlush \/ ssrc \notin {Nothing, p.src}
<1>5. ssrcRx' = s /\ jbufStarted \in BOOLEAN /\ running \in BOOLEAN
  BY <1>1, <1>2 DEF Handle, p, JbufTypeOK
<1>6. ASSUME NEW run \in BOOLEAN, NEW fs, NEW last, NEW started \in BOOLEAN,
             PutAndGet(p, run, fs, last, started),
             Held(fs, last, s, top), last # Nothing => run,
             \/ last = played
             \/ last = Nothing /\ Len(fs) = 0
      PROVE  /\ ssrc' = s /\ running' = TRUE /\ jbufStarted' \in BOOLEAN
             /\ Held(frames', played', s, Latest(p, top))
             /\ Forgot(played) \/ played' \in {Nothing, played} \/ Later(played', played)
  <2>1. /\ ssrc' = s /\ running' = TRUE
        /\ Held(frames', played', s, Latest(p, top))
        /\ Forgot(last) \/ played' = last \/ Later(played', last)
        /\ Len(fs) = 0 => played' = last
        /\ jbufStarted' \in BOOLEAN
    BY <1>2, <1>3, <1>6, PutAndGetKeeps
  <2>. QED BY <1>6, <2>1
<1>8. /\ ssrc' = s /\ running' = TRUE /\ jbufStarted' \in BOOLEAN
      /\ Held(frames', played', s, Latest(p, top))
      /\ Forgot(played) \/ played' \in {Nothing, played} \/ Later(played', played)
  <2>1. CASE flush
    <3>1. PutAndGet(p, FALSE, <<>>, Nothing, jbufStarted /\ ~streamFlush)
      BY <1>1, <2>1 DEF Handle, p
    <3>2. Held(<<>>, Nothing, s, top) /\ Len(<<>>) = 0
      BY EmptyHeld, EmptySeq
    <3>3. (jbufStarted /\ ~streamFlush) \in BOOLEAN
      OBVIOUS
    <3>. QED BY <1>6, <3>1, <3>2, <3>3
  <2>2. CASE ~flush
    <3>1. PutAndGet(p, running, frames, played, jbufStarted)
      BY <1>1, <2>2 DEF Handle, p
    <3>2. ssrc = Nothing \/ ssrc = s
      BY <1>2, <2>2
    <3>3. Held(frames, played, s, top)
      <4>1. CASE ssrc = s
        BY <4>1 DEF JbufInv, top
      <4>2. CASE ssrc = Nothing
        <5>1. frames = <<>> /\ played = Nothing
          BY <1>5, <4>2, JbufAssumption DEF JbufInv
        <5>. QED BY <5>1, EmptyHeld
      <4>. QED BY <3>2, <4>1, <4>2
    <3>4. played # Nothing => running
      BY DEF JbufInv
    <3>. QED BY <1>5, <1>6, <3>1, <3>3, <3>4
  <2>. QED BY <2>1, <2>2
<1>9. InOrder
  BY <1>8 DEF InOrder, Forgotten, Forgot
<1>10. /\ frames' \in Seq(Packet) /\ Len(frames') <= MaxFrames
       /\ played' \in Packet \cup {Nothing}
  <2>1. /\ frames' \in Seq(Packet) /\ Len(frames') <= MinFrames
        /\ played' \in Packet \cup {Nothing}
    BY <1>8 DEF Held, Buffer
  <2>. QED BY <2>1, LenProperties, JbufAssumption
<1>11. JbufTypeOK'
  BY <1>2, <1>4, <1>5, <1>8, <1>10 DEF JbufTypeOK
<1>12. Held(frames, played, ssrc, sent[ssrc])'
  BY <1>4, <1>8 DEF Held, Forgot, SeqGet, Number
<1>. QED BY <1>8, <1>9, <1>11, <1>12, <1>1 DEF JbufInv

(* So does a flush.                                                          *)
LEMMA BufferFlushed ==
    ASSUME JbufInv, Flush, UNCHANGED <<first, sent, ssrcRx>>, jbufStarted' \in BOOLEAN
    PROVE  JbufInv' /\ InOrder
<1>1. <<>> \in Seq(Packet) /\ Len(<<>>) = 0
  BY EmptySeq
<1>2. JbufTypeOK'
  <2>1. frames' \in Seq(Packet) /\ Len(frames') <= MaxFrames
    BY <1>1, JbufAssumption DEF Flush
  <2>. QED BY <2>1 DEF JbufInv, JbufTypeOK, Flush
<1>3. Held(<<>>, Nothing, ssrc, sent[ssrc])
  BY EmptyHeld
<1>4. Held(frames, played, ssrc, sent[ssrc])'
  BY <1>3 DEF Flush, Held, Forgot, SeqGet, Number
<1>. QED BY <1>2, <1>4 DEF JbufInv, Flush, InOrder

(* So does every step.                                                       *)
LEMMA JbufStep ==
    ASSUME EnoughNumbers, JbufInv, [JbufNext]_jbufVars
    PROVE  JbufInv' /\ InOrder
<1>1. CASE Rtp_Arrives
  BY <1>1, ArrivesKeeps
<1>2. CASE Rtp_Rejected
  <2>1. UNCHANGED <<first, sent, jbufStarted, ssrc, running, frames, played>>
        /\ ssrcRx' \in Ssrc
    BY <1>2 DEF Rtp_Rejected, bufVars
  <2>. QED BY <2>1 DEF JbufInv, JbufTypeOK, InOrder, Held, Forgot, SeqGet, Number
<1>3. CASE Stream_Reset
  BY <1>3, BufferFlushed DEF Stream_Reset, JbufInv, JbufTypeOK
<1>4. CASE Stream_Close
  BY <1>4, BufferFlushed DEF Stream_Close
<1>5. CASE UNCHANGED jbufVars
  <2>1. UNCHANGED <<first, sent, ssrcRx, jbufStarted, ssrc, running, frames, played>>
    BY <1>5 DEF jbufVars, bufVars
  <2>. QED BY <2>1 DEF JbufInv, JbufTypeOK, InOrder, Held, Forgot, SeqGet, Number
<1>. QED BY <1>1, <1>2, <1>3, <1>4, <1>5 DEF JbufNext

(* What the invariant says of the order in the buffer.                       *)
LEMMA HeldInOrder ==
    ASSUME JbufInv
    PROVE  /\ \A i \in 1..(Len(frames) - 1) : Later(frames[i + 1], frames[i])
           /\ Forgotten \/ \A i \in DOMAIN frames : Later(frames[i], played)
<1>1. CASE ssrc \in Ssrc
  <2>1. Held(frames, played, ssrc, sent[ssrc])
    BY <1>1 DEF JbufInv
  <2>2. /\ frames \in Seq(Packet) /\ Len(frames) \in Nat /\ DOMAIN frames = 1..Len(frames)
        /\ \A i \in 1..Len(frames) : frames[i].src = ssrc
        /\ \A i, j \in 1..Len(frames) : i < j => frames[i].pos < frames[j].pos
        /\ \A i \in 1..Len(frames) : frames[i] \in Packet
    BY <2>1, LenProperties, ElementOfSeq DEF Held, Buffer
  <2>3. ASSUME NEW i \in 1..(Len(frames) - 1) PROVE Later(frames[i + 1], frames[i])
    <3>1. i \in 1..Len(frames) /\ i + 1 \in 1..Len(frames) /\ i < i + 1
      BY <2>2
    <3>2. frames[i].pos \in Int /\ frames[i + 1].pos \in Int
      BY <2>2, <3>1 DEF Packet
    <3>. QED BY <2>2, <3>1, <3>2 DEF Later
  <2>4. ASSUME ~Forgotten, NEW i \in DOMAIN frames PROVE Later(frames[i], played)
    <3>1. played # Nothing /\ SeqGet(played) # 0
      BY <2>4 DEF Forgotten
    <3>2. /\ played \in Packet /\ played.src = ssrc /\ played.pos < frames[i].pos
      BY <2>1, <2>2, <2>4, <3>1 DEF Held, Forgot
    <3>3. frames[i] \in Packet /\ frames[i].src = ssrc
      BY <2>2, <2>4
    <3>. QED BY <3>2, <3>3 DEF Later, Packet
  <2>. QED BY <2>3, <2>4
<1>2. CASE ssrc \notin Ssrc
  <2>1. frames = <<>> /\ played = Nothing
    BY <1>2 DEF JbufInv, JbufTypeOK
  <2>2. Len(frames) = 0
    BY <2>1, EmptySeq
  <2>. QED BY <2>1, <2>2 DEF Forgotten
<1>. QED BY <1>1, <1>2

(* The variables of a jitter buffer keep to their types.                     *)
THEOREM FramesTyped == ASSUME EnoughNumbers PROVE JbufSpec => []JbufTypeOK
<1>1. JbufInit => JbufInv
  BY JbufInitially
<1>2. JbufInv /\ [JbufNext]_jbufVars => JbufInv'
  BY JbufStep
<1>3. JbufInv => JbufTypeOK
  BY DEF JbufInv
<1>. QED BY <1>1, <1>2, <1>3, PTL DEF JbufSpec

(* The packets of a source are played in the order they were sent, each at    *)
(* most once, until the buffer is flushed, and those in the buffer are in     *)
(* order and still to be played, wherever the numbers begin and start over:   *)
(* for any sizes and sources, if the numbers are enough to tell packets that  *)
(* can meet in the buffer apart.                                              *)
THEOREM PlaysInOrder == ASSUME EnoughNumbers PROVE JbufSpec => PlayedInOrder
<1> DEFINE Ordered == 
             /\ \A i \in 1..(Len(frames) - 1) : Later(frames[i + 1], frames[i])
             /\ Forgotten \/ \A i \in DOMAIN frames : Later(frames[i], played)
<1>1. JbufInit => JbufInv
  BY JbufInitially
<1>2. JbufInv /\ [JbufNext]_jbufVars => JbufInv' /\ [InOrder]_jbufVars
  BY JbufStep
<1>3. JbufInv => Ordered
  BY HeldInOrder
<1>. HIDE DEF Ordered
<1>4. JbufSpec => []Ordered /\ [][InOrder]_jbufVars
  BY <1>1, <1>2, <1>3, PTL DEF JbufSpec
<1>. QED BY <1>4 DEF PlayedInOrder, Ordered, InOrder

-----------------------------------------------------------------------------
(* A behaviour that is checked is one of each part, in the two that it is not *)
(* about one where nothing happens.                                           *)
THEOREM PartsOfSip == SipSpec => Spec /\ RegSpec /\ JbufSpec
<1>1. SipInit => Init /\ RegInit /\ JbufInit
  BY DEF SipInit
<1>2. [SipNext]_<<vars, regVars, jbufVars, part>> =>
        [Next]_vars /\ [RegNext]_regVars /\ [JbufNext]_jbufVars
  BY DEF SipNext, Only
<1>. QED BY <1>1, <1>2, PTL DEF SipSpec, Spec, RegSpec, JbufSpec

(* The variables of a session, a registration and a buffer keep to their     *)
(* types.                                                                     *)
THEOREM SipTyped == ASSUME EnoughNumbers PROVE SipSpec => []SipTypes
<1>1. SessTypeOK /\ RegTypeOK /\ JbufTypeOK => SipTypes
  BY DEF SipTypes
<1>. QED BY <1>1, PartsOfSip, SessTyped, RegTyped, FramesTyped, PTL

=============================================================================
