-------------------------- MODULE SipSessionProofs --------------------------
(***************************************************************************)
(* The reference counting of SipSession is exact in every network and for   *)
(* every order of requests, answers and time limits.                         *)
(* A session is Sound when its references are those it should have; the      *)
(* operators of the model are shown to keep that, then the actions.          *)
(* The second half is about both sides at once: in a network that is in      *)
(* order no side is left in a call that its peer has given up.               *)
(***************************************************************************)
EXTENDS SipSession, TLAPS

\* What holds of a session between two steps.  Beside the count: who owns a
\* live session has not ended it; nothing is pending that excludes the rest.
Sound(x) ==
    /\ x \in Session
    /\ x.refs = (IF x.owner THEN 1 ELSE 0)
                + (IF x.term > 0 THEN Waits(x) ELSE 0)
    /\ x.mem = "live" => x.refs > 0 /\ (x.owner <=> x.term = 0)
    /\ x.mem # "live" => /\ ~x.owner /\ ~x.reply /\ ~x.st
                         /\ x.req = "none"
    /\ x.st => x.owner /\ x.req = "none" /\ ~x.reply /\ ~x.estab
    /\ x.reply => x.req = "none" /\ ~x.estab
    /\ x.term = 2 => ~x.reply /\ x.req # "invite"
    /\ x.req = "bye" => x.term = 2

\* The inductive invariant: a pending INVITE has its session.
IInv ==
    /\ SessTypeOK
    /\ \A s \in Side : Sound(sess[s])
    /\ Calling => sess["caller"].req = "invite"

-----------------------------------------------------------------------------
(* The session's operators.                                                  *)

(* A session without references, whatever it was waiting for.                *)
LEMMA FreeSound ==
    ASSUME NEW x \in Session, x.refs = 0, ~x.owner
    PROVE  Sound(Free(x)) /\ Free(x).mem = "freed" /\ ~Free(x).owner
<1> DEFINE z == Free(x)
<1>1. z \in Session
  BY DEF Free, Session
<1>2. /\ z.mem = "freed" /\ z.refs = 0 /\ z.owner = x.owner
      /\ z.req = "none" /\ z.reply = FALSE /\ z.st = FALSE
  BY DEF Free, Session
<1> HIDE DEF z
<1>3. Waits(z) = 0
  BY <1>2 DEF Waits
<1>4. Sound(z)
  BY <1>1, <1>2, <1>3 DEF Sound
<1> QED BY <1>2, <1>4 DEF z

(* A session that sends BYE holds one reference for it.                      *)
LEMMA ByeSound ==
    ASSUME NEW x \in Session, x.mem = "live", x.refs = 1, x.term = 2,
           x.req = "bye", ~x.owner, ~x.st, ~x.reply
    PROVE  Sound(x)
<1>1. Waits(x) = 1
  BY DEF Waits
<1> QED BY <1>1 DEF Sound

(* terminate keeps everything but the end it reaches and the BYE it sends.    *)
LEMMA TerminateFields ==
    ASSUME NEW x \in Session
    PROVE  /\ Terminate(x) \in Session
           /\ Terminate(x).term = 2
           /\ Terminate(x).mem = x.mem /\ Terminate(x).owner = x.owner
           /\ Terminate(x).st = x.st /\ Terminate(x).reply = x.reply
           /\ \/ Terminate(x).req = x.req /\ Terminate(x).refs = x.refs
              \/ /\ x.req = "none" /\ x.estab
                 /\ Terminate(x).req = "bye" /\ Terminate(x).refs = x.refs + 1
<1>1. CASE ~x.estab \/ x.peerterm \/ x.req # "none"
  <2>1. Terminate(x) = [x EXCEPT !.term = 2]
    BY <1>1 DEF Terminate
  <2> QED BY <2>1 DEF Session
<1>2. CASE x.estab /\ ~x.peerterm /\ x.req = "none"
  <2> DEFINE t == [x EXCEPT !.term = 2, !.req = "bye", !.refs = @ + 1]
  <2>1. Terminate(x) = t
    BY <1>2 DEF Terminate
  <2>2. t \in Session
    <3> DEFINE a == [x EXCEPT !.term = 2]
               b == [a EXCEPT !.req = "bye"]
    <3>1. a \in Session /\ a.refs = x.refs /\ x.refs + 1 \in Nat
      BY DEF Session
    <3> HIDE DEF a
    <3>2. b \in Session /\ b.refs = x.refs
      BY <3>1 DEF Session
    <3> HIDE DEF b
    <3>3. [b EXCEPT !.refs = x.refs + 1] \in Session
      BY <3>1, <3>2 DEF Session
    <3> QED BY <3>3 DEF a, b
  <2>3. /\ t.term = 2 /\ t.mem = x.mem /\ t.owner = x.owner
        /\ t.st = x.st /\ t.reply = x.reply
    BY DEF Session
  <2>4. t.req = "bye" /\ t.refs = x.refs + 1
    BY DEF Session
  <2> HIDE DEF t
  <2> QED BY <1>2, <2>1, <2>2, <2>3, <2>4
<1>3. x.estab \in BOOLEAN /\ x.peerterm \in BOOLEAN
  BY DEF Session
<1> QED BY <1>1, <1>2, <1>3

(* The last reference goes from an ended session that waits for nothing: it   *)
(* is freed, or a BYE takes the reference.                                    *)
LEMMA LastDeref ==
    ASSUME NEW x \in Session, x.mem = "live", x.refs = 1, x.term > 0,
           ~x.owner, ~x.st, ~x.reply, x.req = "none"
    PROVE  Sound(Deref(x)) /\ ~Deref(x).owner
<1> DEFINE y == [x EXCEPT !.refs = @ - 1]
           t == Terminate(y)
<1>1. /\ y \in Session /\ y.refs = 0 /\ y.term = x.term /\ y.mem = "live"
      /\ ~y.owner /\ ~y.st /\ ~y.reply /\ y.req = "none"
  BY DEF Session
<1>2. Deref(x) = Destruct(y)
  BY <1>1 DEF Deref
<1> HIDE DEF y
<1>3. CASE y.term = 2
  <2>1. Destruct(y) = Free(y)
    BY <1>1, <1>3 DEF Destruct
  <2> QED BY <1>1, <1>2, <2>1, FreeSound
<1>4. CASE y.term = 1
  <2>1. Destruct(y) = IF t.refs > 0 THEN t ELSE Free(t)
    BY <1>1, <1>4 DEF Destruct
  <2>2. /\ t \in Session /\ t.term = 2 /\ t.mem = "live" /\ ~t.owner
        /\ ~t.st /\ ~t.reply
        /\ (t.req = "none" /\ t.refs = 0) \/ (t.req = "bye" /\ t.refs = 1)
    BY <1>1, TerminateFields
  <2> HIDE DEF t
  <2>3. CASE t.refs = 0
    BY <1>2, <2>1, <2>2, <2>3, FreeSound
  <2>4. CASE t.refs = 1
    <3>1. Sound(t)
      BY <2>2, <2>4, ByeSound
    <3> QED BY <1>2, <2>1, <2>2, <2>4, <3>1
  <2> QED BY <2>2, <2>3, <2>4
<1> QED BY <1>1, <1>3, <1>4 DEF Session

(* termwait takes a reference for each answer the session waits for.          *)
LEMMA TermWaitFields ==
    ASSUME NEW x \in Session
    PROVE  /\ TermWait(x) \in Session
           /\ Waits(x) \in 0..2 /\ Waits(TermWait(x)) = Waits(x)
           /\ TermWait(x).refs = x.refs + Waits(x)
           /\ TermWait(x).term = 1 /\ TermWait(x).st = FALSE
           /\ TermWait(x).mem = x.mem /\ TermWait(x).owner = x.owner
           /\ TermWait(x).req = x.req /\ TermWait(x).reply = x.reply
           /\ TermWait(x).estab = x.estab
<1>1. Waits(x) \in 0..2
  BY DEF Waits
<1>2. TermWait(x) \in Session
  <2> DEFINE a == [x EXCEPT !.term = 1]
             b == [a EXCEPT !.st = FALSE]
  <2>1. a \in Session /\ a.refs = x.refs /\ x.refs + Waits(x) \in Nat
    BY <1>1 DEF Session
  <2> HIDE DEF a
  <2>2. b \in Session /\ b.refs = x.refs
    BY <2>1 DEF Session
  <2> HIDE DEF b
  <2>3. [b EXCEPT !.refs = x.refs + Waits(x)] \in Session
    BY <2>1, <2>2 DEF Session
  <2> QED BY <2>3 DEF TermWait, a, b
<1>3. /\ TermWait(x).refs = x.refs + Waits(x)
      /\ TermWait(x).term = 1 /\ TermWait(x).st = FALSE
      /\ TermWait(x).mem = x.mem /\ TermWait(x).owner = x.owner
      /\ TermWait(x).req = x.req /\ TermWait(x).reply = x.reply
      /\ TermWait(x).estab = x.estab
  BY <1>1 DEF TermWait, Session
<1>4. Waits(TermWait(x)) = Waits(x)
  BY <1>3 DEF Waits
<1> QED BY <1>1, <1>2, <1>3, <1>4

(* Giving up a session that is still wanted: it waits, ends or is freed.      *)
LEMMA ReleaseSound ==
    ASSUME NEW x, Sound(x), x.owner
    PROVE  /\ Sound(Release(x)) /\ ~Release(x).owner
           /\ x.req = "invite" => Release(x).req = "invite"
<1> DEFINE o == [x EXCEPT !.owner = FALSE]
           y == [o EXCEPT !.refs = @ - 1]
           w == TermWait(y)
           t == Terminate(w)
<1>1. x \in Session /\ x.mem = "live" /\ x.term = 0 /\ x.refs = 1
      /\ x.req # "bye" /\ (x.reply => x.req = "none" /\ ~x.estab)
  BY DEF Sound, Session
<1>2. o \in Session /\ o.refs = 1 /\ o.owner = FALSE /\ o.term = 0
      /\ o.mem = "live" /\ o.req = x.req /\ o.reply = x.reply
      /\ o.estab = x.estab
  BY <1>1 DEF Session
<1> HIDE DEF o
<1>3. y \in Session /\ y.refs = 0 /\ y.owner = FALSE /\ y.term = 0
      /\ y.mem = "live" /\ y.req = x.req /\ y.reply = x.reply
      /\ y.estab = x.estab
  BY <1>2 DEF Session
<1>4. Release(x) = Destruct(y)
  BY <1>2, <1>3 DEF Release, Deref, o
<1> HIDE DEF y
<1>5. /\ w \in Session /\ w.refs = Waits(y) /\ Waits(w) = Waits(y)
      /\ Waits(y) \in 0..2
      /\ w.term = 1 /\ w.st = FALSE /\ w.mem = "live" /\ w.owner = FALSE
      /\ w.req = x.req /\ w.reply = x.reply /\ w.estab = x.estab
  <2>1. w.refs = 0 + Waits(y) /\ Waits(y) \in 0..2
    BY <1>3, TermWaitFields
  <2>2. w \in Session /\ Waits(w) = Waits(y) /\ w.term = 1 /\ w.st = FALSE
    BY <1>3, TermWaitFields
  <2>3. w.mem = "live" /\ w.owner = FALSE /\ w.req = x.req
        /\ w.reply = x.reply /\ w.estab = x.estab
    BY <1>3, TermWaitFields
  <2> QED BY <2>1, <2>2, <2>3
<1>6. Destruct(y) = IF w.refs > 0 THEN w
                    ELSE IF t.refs > 0 THEN t ELSE Free(t)
  BY <1>3, <1>5 DEF Destruct
<1>7. CASE w.refs > 0
  <2>1. Sound(w)
    BY <1>1, <1>5, <1>7 DEF Sound
  <2> QED BY <1>4, <1>5, <1>6, <1>7, <2>1
<1>8. CASE w.refs = 0
  <2>1. w.req = "none" /\ ~w.reply
    BY <1>5, <1>8 DEF Waits
  <2>2. /\ t \in Session /\ t.term = 2 /\ t.mem = "live" /\ ~t.owner
        /\ ~t.st /\ ~t.reply
        /\ (t.req = "none" /\ t.refs = 0) \/ (t.req = "bye" /\ t.refs = 1)
    BY <1>5, <1>8, <2>1, TerminateFields
  <2>3. x.req # "invite"
    BY <1>5, <2>1
  <2> HIDE DEF t, w
  <2>4. CASE t.refs = 0
    BY <1>4, <1>6, <1>8, <2>2, <2>3, <2>4, FreeSound
  <2>5. CASE t.refs = 1
    <3>1. Sound(t)
      BY <2>2, <2>5, ByeSound
    <3> QED BY <1>4, <1>6, <1>8, <2>2, <2>3, <2>5, <3>1
  <2> QED BY <2>2, <2>4, <2>5
<1> QED BY <1>5, <1>7, <1>8

(* What the close handler leaves of a session that goes on for its answers.   *)
LEMMA ReleaseFields ==
    ASSUME NEW x \in Session, x.refs > 0
    PROVE  \E y \in Session :
              /\ y.refs = x.refs - 1 /\ y.owner = FALSE
              /\ y.mem = x.mem /\ y.term = x.term /\ y.req = x.req
              /\ y.reply = x.reply /\ y.st = x.st /\ y.estab = x.estab
              /\ y.peerterm = x.peerterm
              /\ Release(x) = IF y.refs > 0 THEN y ELSE Destruct(y)
<1> DEFINE o == [x EXCEPT !.owner = FALSE]
           y == [o EXCEPT !.refs = @ - 1]
<1>1. o \in Session /\ o.refs = x.refs /\ o.owner = FALSE
      /\ o.mem = x.mem /\ o.term = x.term /\ o.req = x.req
      /\ o.reply = x.reply /\ o.st = x.st /\ o.estab = x.estab
      /\ o.peerterm = x.peerterm
  BY DEF Session
<1>2. Release(x) = Deref(o)
  BY DEF Release
<1> HIDE DEF o
<1>3. y \in Session /\ y.refs = x.refs - 1 /\ y.owner = FALSE
      /\ y.mem = x.mem /\ y.term = x.term /\ y.req = x.req
      /\ y.reply = x.reply /\ y.st = x.st /\ y.estab = x.estab
      /\ y.peerterm = x.peerterm
  <2>1. o.refs - 1 \in Nat
    BY <1>1 DEF Session
  <2> QED BY <1>1, <2>1 DEF Session
<1>4. Deref(o) = IF y.refs > 0 THEN y ELSE Destruct(y)
  BY DEF Deref
<1> HIDE DEF y
<1> QED BY <1>2, <1>3, <1>4

(* sipsess_terminate, of a session that nobody has ended yet.                 *)
LEMMA SessTerminateSound ==
    ASSUME NEW x, Sound(x), x.owner
    PROVE  /\ Sound(SessTerminate(x)) /\ ~SessTerminate(x).owner
           /\ x.req = "invite" => SessTerminate(x).req = "invite"
<1> DEFINE w == TermWait(x)
           t == Terminate(w)
<1>1. x \in Session /\ x.mem = "live" /\ x.term = 0 /\ x.refs = 1
      /\ x.req # "bye" /\ (x.reply => x.req = "none" /\ ~x.estab)
  BY DEF Sound, Session
<1>2. /\ w \in Session /\ w.refs = 1 + Waits(x) /\ Waits(w) = Waits(x)
      /\ Waits(x) \in 0..2
      /\ w.term = 1 /\ w.st = FALSE /\ w.mem = "live"
      /\ w.req = x.req /\ w.reply = x.reply /\ w.estab = x.estab
  <2>1. w \in Session /\ Waits(w) = Waits(x) /\ w.term = 1 /\ w.st = FALSE
    BY <1>1, TermWaitFields
  <2>2. w.refs = 1 + Waits(x) /\ Waits(x) \in 0..2
    BY <1>1, TermWaitFields
  <2>3. w.mem = "live" /\ w.req = x.req /\ w.reply = x.reply
        /\ w.estab = x.estab
    BY <1>1, TermWaitFields
  <2> QED BY <2>1, <2>2, <2>3
<1>3. SessTerminate(x) = Release(IF w.refs > x.refs THEN w ELSE t)
  BY DEF SessTerminate
<1> HIDE DEF w
<1>4. CASE Waits(x) > 0
  <2>0. w \in Session /\ w.refs > 0
    BY <1>2
  <2>1. PICK y \in Session :
        /\ y.refs = w.refs - 1 /\ y.owner = FALSE
        /\ y.mem = w.mem /\ y.term = w.term /\ y.req = w.req
        /\ y.reply = w.reply /\ y.st = w.st /\ y.estab = w.estab
        /\ Release(w) = IF y.refs > 0 THEN y ELSE Destruct(y)
    BY <2>0, ReleaseFields
  <2>2. SessTerminate(x) = y
    BY <1>1, <1>2, <1>3, <1>4, <2>1
  <2>3. Waits(y) = Waits(x)
    BY <1>2, <2>1 DEF Waits
  <2>4. Sound(y)
    BY <1>1, <1>2, <1>4, <2>1, <2>3 DEF Sound
  <2> QED BY <1>2, <2>1, <2>2, <2>4
<1>5. CASE Waits(x) = 0
  <2>1. x.req = "none" /\ ~x.reply
    BY <1>5 DEF Waits
  <2>2. /\ t \in Session /\ t.term = 2 /\ t.mem = "live"
        /\ ~t.st /\ ~t.reply
        /\ (t.req = "none" /\ t.refs = 1) \/ (t.req = "bye" /\ t.refs = 2)
    BY <1>2, <1>5, <2>1, TerminateFields
  <2>3. SessTerminate(x) = Release(t)
    BY <1>1, <1>2, <1>3, <1>5
  <2> HIDE DEF t
  <2>0. t \in Session /\ t.refs > 0
    BY <2>2
  <2>4. PICK y \in Session :
        /\ y.refs = t.refs - 1 /\ y.owner = FALSE
        /\ y.mem = t.mem /\ y.term = t.term /\ y.req = t.req
        /\ y.reply = t.reply /\ y.st = t.st /\ y.estab = t.estab
        /\ Release(t) = IF y.refs > 0 THEN y ELSE Destruct(y)
    BY <2>0, ReleaseFields
  <2>5. CASE t.refs = 2
    <3>1. Sound(y)
      BY <2>2, <2>4, <2>5, ByeSound
    <3>2. SessTerminate(x) = y
      BY <2>3, <2>4, <2>5
    <3> QED BY <2>1, <2>4, <3>1, <3>2
  <2>6. CASE t.refs = 1
    <3>1. SessTerminate(x) = Destruct(y)
      BY <2>3, <2>4, <2>6
    <3>2. Destruct(y) = Free(y)
      BY <2>2, <2>4, <2>6 DEF Destruct
    <3> QED BY <2>1, <2>4, <2>6, <3>1, <3>2, FreeSound
  <2> QED BY <2>2, <2>5, <2>6
<1> QED BY <1>2, <1>4, <1>5

(* A session that its call has released is freed by a forced stop: it waits   *)
(* for one answer at most, and has nobody left to send a BYE to.              *)
LEMMA FlushSound ==
    ASSUME NEW x, Sound(x), ~x.owner, x.mem = "live"
    PROVE  Sound(Deref(x)) /\ Deref(x).mem = "freed"
<1> DEFINE y == [x EXCEPT !.refs = @ - 1]
           t == Terminate(y)
<1>1. /\ x \in Session /\ x.term \in {1, 2} /\ x.refs = 1
      /\ x.reply => ~x.estab
      /\ x.req = "invite" => x.term = 1
      /\ x.term = 1 => x.req = "invite" \/ x.reply
  <2>a. x \in Session /\ x.term # 0 /\ x.refs > 0
    BY DEF Sound
  <2>b. x.term \in 0..2
    BY <2>a DEF Session
  <2>c. x.refs = 0 + Waits(x)
    BY <2>a, <2>b DEF Sound
  <2>1. x \in Session /\ x.term \in 0..2 /\ x.term # 0 /\ x.refs > 0
        /\ x.refs = Waits(x)
    BY <2>a, <2>b, <2>c DEF Waits
  <2>2. Waits(x) <= 1
    BY DEF Sound, Waits
  <2>3. x.term = 1 => x.req = "invite" \/ x.reply
    BY <2>1 DEF Sound, Waits, Session
  <2>4. (x.reply => ~x.estab) /\ (x.req = "invite" => x.term = 1)
    BY <2>1 DEF Sound
  <2> QED BY <2>1, <2>2, <2>3, <2>4 DEF Session
<1>2. /\ y \in Session /\ y.refs = 0 /\ y.term = x.term /\ ~y.owner
      /\ y.estab = x.estab /\ y.req = x.req
  BY <1>1 DEF Session
<1>3. Deref(x) = Destruct(y)
  BY <1>2 DEF Deref
<1> HIDE DEF y
<1>4. CASE y.term = 2
  <2>1. Destruct(y) = Free(y)
    BY <1>2, <1>4 DEF Destruct
  <2> QED BY <1>2, <1>3, <2>1, FreeSound
<1>5. CASE y.term = 1
  <2>1. t = [y EXCEPT !.term = 2]
    BY <1>1, <1>2, <1>5 DEF Terminate
  <2>2. t \in Session /\ t.refs = 0 /\ ~t.owner
    BY <1>2, <2>1 DEF Session
  <2>3. Destruct(y) = IF t.refs > 0 THEN t ELSE Free(t)
    BY <1>2, <1>5 DEF Destruct
  <2> HIDE DEF t
  <2> QED BY <1>3, <2>2, <2>3, FreeSound
<1> QED BY <1>1, <1>2, <1>4, <1>5

(* An answer that a session waited for, or its time limit: z is x without     *)
(* the pending request, and may have been established by it.                  *)
LEMMA RequestEnds ==
    ASSUME NEW x, Sound(x), x.req # "none",
           NEW z \in Session, z.req = "none", z.refs = x.refs,
           z.term = x.term, z.owner = x.owner, z.mem = x.mem,
           z.st = x.st, z.reply = x.reply
    PROVE  /\ x.term > 0 => Sound(Deref(z))
           /\ x.term = 0 => Sound(z) /\ Sound(SessTerminate(z))
           /\ Sound(Done(z))
<1>1. x \in Session /\ x.mem = "live" /\ ~x.st /\ ~x.reply /\ x.refs > 0
      /\ (x.owner <=> x.term = 0) /\ x.term \in 0..2
  <2>1. x \in Session
    BY DEF Sound
  <2>2. x.term \in 0..2
    BY <2>1 DEF Session
  <2> QED BY <2>1, <2>2 DEF Sound
<1>2. CASE x.term > 0
  <2>1. Waits(x) = 1 /\ ~x.owner
    BY <1>1, <1>2 DEF Waits
  <2>2. x.refs = 0 + 1
    BY <1>1, <1>2, <2>1 DEF Sound
  <2>3. Sound(Deref(z))
    BY <1>1, <1>2, <2>1, <2>2, LastDeref
  <2> QED BY <1>1, <1>2, <2>3 DEF Done
<1>3. CASE x.term = 0
  <2>1. x.owner /\ x.refs = 1 + 0
    BY <1>1, <1>3 DEF Sound
  <2>2. Sound(z) /\ z.owner
    BY <1>1, <1>3, <2>1 DEF Sound
  <2>3. Sound(SessTerminate(z))
    BY <2>2, SessTerminateSound
  <2> QED BY <1>3, <2>2, <2>3 DEF Done
<1> QED BY <1>1, <1>2, <1>3

(* The same for an answer of the session's own, acknowledged or given up.     *)
LEMMA ReplyEnds ==
    ASSUME NEW x, Sound(x), x.reply,
           NEW z \in Session, ~z.reply, z.refs = x.refs,
           z.term = x.term, z.owner = x.owner, z.mem = x.mem,
           z.st = x.st, z.req = x.req
    PROVE  /\ x.term > 0 => Sound(Deref(z))
           /\ x.term = 0 => Sound(z) /\ Sound(SessTerminate(z))
           /\ Sound(Done(z))
<1>1. x \in Session /\ x.mem = "live" /\ ~x.st /\ x.req = "none"
      /\ x.refs > 0 /\ (x.owner <=> x.term = 0) /\ x.term \in 0..2
  <2>1. x \in Session
    BY DEF Sound
  <2>2. x.term \in 0..2
    BY <2>1 DEF Session
  <2> QED BY <2>1, <2>2 DEF Sound
<1>2. CASE x.term > 0
  <2>1. Waits(x) = 1 /\ ~x.owner
    BY <1>1, <1>2 DEF Waits
  <2>2. x.refs = 0 + 1
    BY <1>1, <1>2, <2>1 DEF Sound
  <2>3. Sound(Deref(z))
    BY <1>1, <1>2, <2>1, <2>2, LastDeref
  <2> QED BY <1>1, <1>2, <2>3 DEF Done
<1>3. CASE x.term = 0
  <2>1. x.owner /\ x.refs = 1 + 0
    BY <1>1, <1>3 DEF Sound
  <2>2. Sound(z) /\ z.owner
    BY <1>1, <1>3, <2>1 DEF Sound
  <2>3. Sound(SessTerminate(z))
    BY <2>2, SessTerminateSound
  <2> QED BY <1>3, <2>2, <2>3 DEF Done
<1> QED BY <1>1, <1>2, <1>3

(* What the peer ended: a CANCEL, or a BYE.                                   *)
LEMMA PeerEnds ==
    ASSUME NEW x, Sound(x)
    PROVE  LET z == [x EXCEPT !.peerterm = TRUE] IN
           /\ Sound(z) /\ z.req = x.req /\ z.owner = x.owner
           /\ Sound([z EXCEPT !.st = FALSE])
           /\ [z EXCEPT !.st = FALSE].req = x.req
           /\ [z EXCEPT !.st = FALSE].owner = x.owner
<1> DEFINE z == [x EXCEPT !.peerterm = TRUE]
           w == [z EXCEPT !.st = FALSE]
<1>1. x \in Session
  BY DEF Sound
<1>2. z \in Session /\ z.mem = x.mem /\ z.refs = x.refs /\ z.term = x.term
      /\ z.owner = x.owner /\ z.estab = x.estab /\ z.req = x.req
      /\ z.reply = x.reply /\ z.st = x.st
  BY <1>1 DEF Session
<1>3. Waits(z) = Waits(x)
  BY <1>2 DEF Waits
<1> HIDE DEF z
<1>4. Sound(z)
  BY <1>1, <1>2, <1>3 DEF Sound
<1>5. w \in Session /\ w.mem = x.mem /\ w.refs = x.refs /\ w.term = x.term
      /\ w.owner = x.owner /\ w.estab = x.estab /\ w.req = x.req
      /\ w.reply = x.reply /\ w.st = FALSE
  BY <1>2 DEF Session
<1>6. Waits(w) = Waits(x)
  BY <1>5 DEF Waits
<1> HIDE DEF w
<1>7. Sound(w)
  BY <1>1, <1>5, <1>6 DEF Sound
<1> QED BY <1>2, <1>4, <1>5, <1>7 DEF z, w

-----------------------------------------------------------------------------
(* The actions.                                                              *)

\* What a step sends is datagrams.
LEMMA FarewellType ==
    ASSUME NEW s \in Side, NEW x, NEW y
    PROVE  Farewell(s, x, y) \subseteq Datagram
<1>1. Peer(s) \in Side
  BY DEF Peer, Side
<1>2. \A k \in Kind : To(Peer(s), k) \in Datagram
  BY <1>1 DEF To, Datagram
<1>3. {"refused", "cancel", "bye"} \subseteq Kind
  BY DEF Kind
<1> QED BY <1>2, <1>3 DEF Farewell

\* What stays under way is datagrams.
LEMMA TakeType ==
    ASSUME net \subseteq Datagram, NEW m, NEW out \in SUBSET Datagram,
           Take(m, out)
    PROVE  net' \subseteq Datagram
  BY DEF Take

\* A side that goes to a sound session leaves the types and the other side.
LEMMA BecomesSound ==
    ASSUME IInv, NEW s \in Side, NEW y, Sound(y), Becomes(s, y)
    PROVE  /\ sess' \in [Side -> Session]
           /\ \A r \in Side : Sound(sess'[r])
           /\ sess'[s] = y
           /\ \A r \in Side \ {s} : sess'[r] = sess[r]
           /\ cancel' \in BOOLEAN
           /\ strans' \in {"none", "proceeding", "accepted", "completed",
                           "confirmed"}
<1>1. sess' = [sess EXCEPT ![s] = y] /\ sess \in [Side -> Session]
      /\ y \in Session
  BY DEF Becomes, IInv, SessTypeOK, Sound
<1>2. sess' \in [Side -> Session] /\ sess'[s] = y
      /\ \A r \in Side \ {s} : sess'[r] = sess[r]
  BY <1>1
<1>3. \A r \in Side : Sound(sess'[r])
  BY <1>2 DEF IInv
<1>4. cancel' \in BOOLEAN
  BY DEF Becomes, IInv, SessTypeOK
<1>5. strans' \in {"none", "proceeding", "accepted", "completed", "confirmed"}
  BY DEF Becomes, IInv, SessTypeOK
<1> QED BY <1>2, <1>3, <1>4, <1>5

\* The parts of the invariant, gathered after a step.
LEMMA IInvParts ==
    ASSUME sess' \in [Side -> Session],
           \A r \in Side : Sound(sess'[r]),
           cancel' \in BOOLEAN,
           strans' \in {"none", "proceeding", "accepted", "completed",
                        "confirmed"},
           ct' \in {"none", "calling", "proceeding", "completed", "done"},
           acked' \in BOOLEAN, prompt' \in BOOLEAN, alive' \subseteq Side,
           net' \subseteq Datagram,
           ct' \in {"calling", "proceeding"} => sess'["caller"].req = "invite"
    PROVE  IInv'
<1>1. SessTypeOK'
  BY DEF SessTypeOK
<1>2. (\A s \in Side : Sound(sess[s]))'
  <2> SUFFICES ASSUME NEW s \in Side PROVE Sound(sess[s])'
    OBVIOUS
  <2> QED BY DEF Sound, Waits
<1>3. (Calling => sess["caller"].req = "invite")'
  BY DEF Calling
<1> QED BY <1>1, <1>2, <1>3 DEF IInv

\* The sessions that an INVITE creates, on either side, and those of Init.
LEMMA FreshSound ==
    /\ Sound([Fresh EXCEPT !.req = "invite"])
    /\ [Fresh EXCEPT !.req = "invite"].req = "invite"
    /\ Sound([Fresh EXCEPT !.st = TRUE])
    /\ Sound([Fresh EXCEPT !.mem = "none", !.refs = 0, !.owner = FALSE])
<1>1. Fresh \in Session
  BY DEF Fresh, Session
<1> DEFINE x == [Fresh EXCEPT !.req = "invite"]
           y == [Fresh EXCEPT !.st = TRUE]
           a == [Fresh EXCEPT !.mem = "none"]
           b == [a EXCEPT !.refs = 0]
           z == [b EXCEPT !.owner = FALSE]
<1>2. x \in Session /\ y \in Session /\ a \in Session
  BY <1>1 DEF Session
<1>3. x.mem = "live" /\ x.refs = 1 /\ x.term = 0 /\ x.owner /\ ~x.st
      /\ ~x.reply /\ x.req = "invite"
  BY DEF Fresh
<1>4. y.mem = "live" /\ y.refs = 1 /\ y.term = 0 /\ y.owner /\ ~y.reply
      /\ ~y.estab /\ y.req = "none"
  BY DEF Fresh
<1>5. a.mem = "none" /\ a.term = 0 /\ ~a.reply /\ ~a.st /\ a.req = "none"
  BY DEF Fresh
<1> HIDE DEF x, y, a
<1>6. b \in Session /\ b.mem = "none" /\ b.term = 0 /\ ~b.reply /\ ~b.st
      /\ b.req = "none" /\ b.refs = 0
  BY <1>2, <1>5 DEF Session
<1> HIDE DEF b
<1>7. z \in Session /\ z.mem = "none" /\ z.term = 0 /\ ~z.reply /\ ~z.st
      /\ z.req = "none" /\ z.refs = 0 /\ ~z.owner
  BY <1>6 DEF Session
<1> HIDE DEF z
<1>8. Sound(x)
  BY <1>2, <1>3 DEF Sound
<1>9. Sound(y)
  BY <1>2, <1>4 DEF Sound
<1>10. Sound(z)
  BY <1>7 DEF Sound
<1> QED BY <1>3, <1>8, <1>9, <1>10 DEF x, y, a, b, z

\* No session, no transaction: the invariant holds at the start.
LEMMA InitIInv == Init => IInv
<1> SUFFICES ASSUME Init PROVE IInv
  OBVIOUS
<1>1. \A s \in Side : Sound(sess[s])
  BY FreshSound DEF Init
<1>2. sess \in [Side -> Session]
  BY FreshSound DEF Init, Sound
<1>3. SessTypeOK
  BY <1>2 DEF Init, SessTypeOK
<1> QED BY <1>1, <1>3 DEF Init, IInv, Calling

\* Every datagram of the model is one.
LEMMA ToType == \A s \in Side, k \in Kind : To(s, k) \in Datagram
  BY DEF To, Datagram

\* The operations of the applications.
LEMMA UserStep ==
    ASSUME IInv, Connect \/ Answer \/ \E s \in Side : HangUp(s)
    PROVE  IInv'
<1> USE DEF IInv, SessTypeOK, KeepRest
<1>1. CASE Connect
  <2>1. /\ sess' = [sess EXCEPT !["caller"] = [Fresh EXCEPT !.req = "invite"]]
        /\ ct' = "calling" /\ net' = net \cup {To("callee", "invite")}
        /\ UNCHANGED <<cancel, acked, strans, alive, prompt>>
    BY <1>1 DEF Connect, Send
  <2>2. [Fresh EXCEPT !.req = "invite"] \in Session
    BY FreshSound DEF Sound
  <2>3. sess' \in [Side -> Session] /\ sess'["caller"].req = "invite"
        /\ \A r \in Side : Sound(sess'[r])
    BY <2>1, <2>2, FreshSound DEF Side
  <2>4. net' \subseteq Datagram
    BY <2>1, ToType DEF Side, Kind
  <2> QED BY <2>1, <2>3, <2>4, IInvParts
<1>2. CASE Answer
  <2> DEFINE x == sess["callee"]
             a == [x EXCEPT !.st = FALSE]
             y == [a EXCEPT !.reply = TRUE]
  <2>1. /\ x.owner /\ x.st
        /\ sess' = [sess EXCEPT !["callee"] = y]
        /\ strans' = "accepted" /\ net' = net \cup {To("caller", "answered")}
        /\ UNCHANGED <<ct, cancel, acked, alive, prompt>>
    BY <1>2 DEF Answer, Send
  <2>2. Sound(x) /\ x \in Session
    BY DEF Side, Sound
  <2>3. x.mem = "live" /\ x.term = 0 /\ x.req = "none" /\ ~x.estab
        /\ x.refs = 1
    BY <2>1, <2>2 DEF Sound, Session
  <2> HIDE DEF x
  <2>4. a \in Session /\ a.refs = 1 /\ a.term = 0 /\ a.mem = "live"
        /\ a.req = "none" /\ a.estab = x.estab /\ a.owner = x.owner
        /\ a.st = FALSE
    BY <2>2, <2>3 DEF Session
  <2> HIDE DEF a
  <2>5. y \in Session /\ y.refs = 1 /\ y.term = 0 /\ y.mem = "live"
        /\ y.req = "none" /\ y.estab = x.estab /\ y.owner = x.owner
        /\ y.st = FALSE /\ y.reply = TRUE
    BY <2>4 DEF Session
  <2> HIDE DEF y
  <2>6. Sound(y)
    BY <2>1, <2>3, <2>5 DEF Sound
  <2>7. sess' \in [Side -> Session] /\ sess'["caller"] = sess["caller"]
        /\ \A r \in Side : Sound(sess'[r])
    BY <2>1, <2>5, <2>6 DEF Side
  <2>8. net' \subseteq Datagram
    BY <2>1, ToType DEF Side, Kind
  <2> QED BY <2>1, <2>7, <2>8, IInvParts DEF Calling
<1>3. ASSUME NEW s \in Side, HangUp(s) PROVE IInv'
  <2> DEFINE x == sess[s]
             y == Release(x)
  <2>1. /\ x.owner /\ Becomes(s, y)
        /\ net' = net \cup Farewell(s, x, y)
        /\ UNCHANGED <<ct, acked, alive, prompt>>
    BY <1>3 DEF HangUp, Send
  <2>2. Sound(x)
    OBVIOUS
  <2> HIDE DEF x
  <2>3. Sound(y) /\ (x.req = "invite" => y.req = "invite")
    BY <2>1, <2>2, ReleaseSound
  <2> HIDE DEF y
  <2>4. /\ sess' \in [Side -> Session] /\ \A r \in Side : Sound(sess'[r])
        /\ sess'[s] = y /\ \A r \in Side \ {s} : sess'[r] = sess[r]
        /\ cancel' \in BOOLEAN
        /\ strans' \in {"none", "proceeding", "accepted", "completed",
                        "confirmed"}
    BY <2>1, <2>3, BecomesSound
  <2>5. net' \subseteq Datagram
    BY <2>1, FarewellType
  <2>6. Calling => sess'["caller"].req = "invite"
    BY <2>3, <2>4 DEF x, Side
  <2> QED BY <2>1, <2>4, <2>5, <2>6, IInvParts DEF Calling
<1> QED BY <1>1, <1>2, <1>3

\* A forced stop frees the session, whatever was pending.
LEMMA StopStep ==
    ASSUME IInv, NEW s \in Side, Stop(s)
    PROVE  IInv'
<1> DEFINE x == sess[s]
           u == IF x.owner THEN Release(x) ELSE x
           v == IF u.mem = "live" THEN Deref(u) ELSE u
           w == IF v.mem = "live" THEN Deref([v EXCEPT !.req = "none"]) ELSE v
<1>1. /\ sess' = [sess EXCEPT ![s] = w]
      /\ alive' = alive \ {s} /\ prompt' = prompt
      /\ net' = net \cup (Farewell(s, x, u) \cup Farewell(s, u, v))
      /\ IF s = "caller"
         THEN ct' = "done" /\ cancel' = FALSE /\ acked' = FALSE /\ strans' = strans
         ELSE strans' = "confirmed" /\ UNCHANGED <<ct, cancel, acked>>
  BY DEF Stop, Send
<1>2. Sound(x)
  BY DEF IInv
<1> HIDE DEF x
<1>3. Sound(u) /\ ~u.owner
  BY <1>2, ReleaseSound
<1> HIDE DEF u
<1>4. Sound(v) /\ v.mem # "live"
  BY <1>3, FlushSound
<1> HIDE DEF v
<1>5. w = v
  BY <1>4
<1> HIDE DEF w
<1>6. /\ sess' \in [Side -> Session]
      /\ \A r \in Side : Sound(sess'[r])
      /\ s # "caller" => sess'["caller"] = sess["caller"]
  BY <1>1, <1>4, <1>5 DEF IInv, SessTypeOK, Sound, Side
<1>7. net' \subseteq Datagram
  BY <1>1, FarewellType DEF IInv, SessTypeOK
<1> QED BY <1>1, <1>6, <1>7, IInvParts DEF IInv, SessTypeOK, Calling

\* What only the datagrams and the transactions know of.
LEMMA PlainStep ==
    ASSUME IInv,
           \/ Take_AckRefused \/ Take_Ringing \/ Take_CancelDone
           \/ Cancel_TimesOut \/ Lose \/ \E s \in Side : Retransmit(s)
    PROVE  IInv'
<1> USE DEF IInv, SessTypeOK, KeepRest
<1>1. CASE Take_AckRefused
  <2>1. net' \subseteq Datagram
    BY <1>1, TakeType DEF Take_AckRefused
  <2> QED BY <1>1, <2>1, IInvParts DEF Take_AckRefused, Calling
<1>2. CASE Take_Ringing
  <2>1. net' \subseteq Datagram
    BY <1>2, TakeType, ToType DEF Take_Ringing, Side, Kind
  <2> QED BY <1>2, <2>1, IInvParts DEF Take_Ringing, Calling
<1>3. CASE Take_CancelDone
  <2>1. net' \subseteq Datagram
    BY <1>3, TakeType DEF Take_CancelDone
  <2> QED BY <1>3, <2>1, IInvParts DEF Take_CancelDone, Calling
<1>4. CASE Cancel_TimesOut
  BY <1>4, IInvParts DEF Cancel_TimesOut, Calling
<1>5. CASE Lose
  BY <1>5, IInvParts DEF Lose, Calling
<1>6. ASSUME NEW s \in Side, Retransmit(s) PROVE IInv'
  <2>1. Unanswered(s) \subseteq Datagram
    BY ToType DEF Unanswered, Side, Kind
  <2>2. net' \subseteq Datagram
    BY <1>6, <2>1 DEF Retransmit, Send
  <2> QED BY <1>6, <2>2, IInvParts DEF Retransmit, Calling
<1> QED BY <1>1, <1>2, <1>3, <1>4, <1>5, <1>6

\* What ends with the session going to y: the frame of the steps below.
LEMMA GoesOn ==
    ASSUME IInv, NEW s \in Side, NEW y, Sound(y), Becomes(s, y),
           net' \subseteq Datagram,
           ct' \in {"none", "calling", "proceeding", "completed", "done"},
           acked' \in BOOLEAN, KeepRest,
           ct' \in {"calling", "proceeding"} =>
               Calling /\ (s = "caller" => y.req = sess["caller"].req)
    PROVE  IInv'
<1>1. /\ sess' \in [Side -> Session]
      /\ \A r \in Side : Sound(sess'[r])
      /\ sess'[s] = y
      /\ \A r \in Side \ {s} : sess'[r] = sess[r]
      /\ cancel' \in BOOLEAN
      /\ strans' \in {"none", "proceeding", "accepted", "completed",
                      "confirmed"}
  BY BecomesSound
<1>2. ct' \in {"calling", "proceeding"} => sess'["caller"].req = "invite"
  BY <1>1 DEF IInv, Side
<1> QED BY <1>1, <1>2, IInvParts DEF IInv, SessTypeOK, KeepRest

\* What arrives at the callee.
LEMMA CalleeStep ==
    ASSUME IInv, Take_Invite \/ Take_Cancel \/ Take_Ack
    PROVE  IInv'
<1> USE DEF IInv, SessTypeOK
<1> DEFINE x == sess["callee"]
<1>0. Sound(x) /\ x \in Session /\ "callee" \in Side
  BY DEF Side, Sound
<1>1. CASE Take_Invite
  <2>1. net' \subseteq Datagram
    BY <1>1, TakeType, ToType DEF Take_Invite, Side, Kind
  <2>2. UNCHANGED <<ct, cancel, acked, alive, prompt>>
    BY <1>1 DEF Take_Invite, KeepRest
  <2>3. CASE /\ sess' = [sess EXCEPT !["callee"] = [Fresh EXCEPT !.st = TRUE]]
             /\ strans' = "proceeding"
    <3>1. [Fresh EXCEPT !.st = TRUE] \in Session
      BY FreshSound DEF Sound
    <3>2. sess' \in [Side -> Session] /\ sess'["caller"] = sess["caller"]
          /\ \A r \in Side : Sound(sess'[r])
      BY <2>3, <3>1, FreshSound DEF Side
    <3> QED BY <2>1, <2>2, <2>3, <3>2, IInvParts DEF Calling
  <2>4. CASE sess' = sess /\ strans' \in {strans, "completed"}
    BY <2>1, <2>2, <2>4, IInvParts DEF Calling
  <2> QED BY <1>1, <2>3, <2>4 DEF Take_Invite
<1>2. CASE Take_Cancel
  <2> DEFINE z == [[x EXCEPT !.peerterm = TRUE] EXCEPT !.st = FALSE]
             y == SessTerminate([x EXCEPT !.st = FALSE, !.peerterm = TRUE])
  <2>1. UNCHANGED <<ct, acked>> /\ KeepRest
    BY <1>2 DEF Take_Cancel
  <2>2. net' \subseteq Datagram
    <3>1. Farewell("callee", x, y) \subseteq Datagram
      BY <1>0, FarewellType
    <3>2. {To("caller", "cancelDone")} \subseteq Datagram
      BY ToType DEF Side, Kind
    <3>3. Take(To("callee", "cancel"),
               {To("caller", "cancelDone")}
               \cup (IF x.st THEN Farewell("callee", x, y) ELSE {}))
      BY <1>2 DEF Take_Cancel
    <3> HIDE DEF x, y
    <3> QED BY <3>1, <3>2, <3>3, TakeType
  <2>3. CASE x.st
    <3>1. [x EXCEPT !.st = FALSE, !.peerterm = TRUE] = z
      BY <1>0 DEF Session
    <3>2. Sound(z) /\ z.owner = x.owner
      BY <1>0, PeerEnds
    <3>3. x.owner
      BY <1>0, <2>3 DEF Sound
    <3>4. Becomes("callee", y)
      BY <1>2, <2>3 DEF Take_Cancel
    <3> HIDE DEF z
    <3>5. Sound(y)
      BY <3>1, <3>2, <3>3, SessTerminateSound
    <3> HIDE DEF x, y
    <3> QED BY <1>0, <2>1, <2>2, <3>4, <3>5, GoesOn DEF Calling
  <2>4. CASE ~x.st
    <3>1. UNCHANGED <<sess, cancel, strans>>
      BY <1>2, <2>4 DEF Take_Cancel
    <3> QED BY <2>1, <2>2, <3>1, IInvParts DEF KeepRest, Calling
  <2> QED BY <2>3, <2>4
<1>3. CASE Take_Ack
  <2> DEFINE z == [x EXCEPT !.reply = FALSE, !.estab = TRUE]
             y == IF x.term = 0 THEN z ELSE Deref(z)
  <2>1. UNCHANGED <<ct, acked>> /\ KeepRest
    BY <1>3 DEF Take_Ack
  <2>2. CASE Live("callee") /\ x.reply
    <3>1. z \in Session /\ ~z.reply /\ z.refs = x.refs /\ z.term = x.term
          /\ z.owner = x.owner /\ z.mem = x.mem /\ z.st = x.st
          /\ z.req = x.req
      BY <1>0 DEF Session
    <3>2. Becomes("callee", y)
          /\ Take(To("callee", "ack"), Farewell("callee", x, y))
      BY <1>3, <2>2 DEF Take_Ack
    <3>3. x.term \in 0..2
      BY <1>0 DEF Session
    <3> HIDE DEF z, x
    <3>4. Sound(y)
      BY <1>0, <2>2, <3>1, <3>3, ReplyEnds
    <3> HIDE DEF y
    <3>5. net' \subseteq Datagram
      BY <1>0, <3>2, FarewellType, TakeType
    <3> QED BY <1>0, <2>1, <3>2, <3>4, <3>5, GoesOn DEF Calling
  <2>3. CASE ~(Live("callee") /\ x.reply)
    <3>1. UNCHANGED <<sess, cancel, strans>> /\ Take(To("callee", "ack"), {})
      BY <1>3, <2>3 DEF Take_Ack
    <3>2. net' \subseteq Datagram
      BY <3>1, TakeType
    <3> QED BY <2>1, <3>1, <3>2, IInvParts DEF KeepRest, Calling
  <2> QED BY <2>2, <2>3
<1> QED BY <1>1, <1>2, <1>3

\* The answer to the INVITE, or its time limit.
LEMMA CallerStep ==
    ASSUME IInv, Take_Answered \/ Take_Refused \/ Invite_TimesOut
    PROVE  IInv'
<1> USE DEF IInv, SessTypeOK
<1> DEFINE x == sess["caller"]
           r == [x EXCEPT !.req = "none"]
           z == [r EXCEPT !.estab = TRUE]
<1>1. Sound(x) /\ x \in Session /\ "caller" \in Side /\ x.term \in 0..2
  <2>1. Sound(x) /\ x \in Session /\ "caller" \in Side
    BY DEF Side, Sound
  <2> QED BY <2>1 DEF Session
<1>2. r \in Session /\ r.req = "none" /\ r.refs = x.refs /\ r.term = x.term
      /\ r.owner = x.owner /\ r.mem = x.mem /\ r.st = x.st
      /\ r.reply = x.reply
  BY <1>1 DEF Session
<1>3. z \in Session /\ z.req = "none" /\ z.refs = x.refs /\ z.term = x.term
      /\ z.owner = x.owner /\ z.mem = x.mem /\ z.st = x.st
      /\ z.reply = x.reply
  <2> HIDE DEF r
  <2> QED BY <1>2 DEF Session
<1>4. z = [x EXCEPT !.req = "none", !.estab = TRUE]
  BY <1>1 DEF Session
<1>5. ASSUME x.req # "none"
      PROVE  /\ x.term > 0 => Sound(Deref(z))
             /\ x.term = 0 => Sound(z) /\ Sound(SessTerminate(z))
             /\ Sound(Done(r))
  <2> HIDE DEF x, r, z
  <2>1. Sound(Done(r))
    BY <1>1, <1>2, <1>5, RequestEnds
  <2> QED BY <1>1, <1>3, <1>5, <2>1, RequestEnds
<1>6. {To("callee", "ack"), To("callee", "ackRefused")} \subseteq Datagram
  BY ToType DEF Side, Kind
<1>7. CASE Take_Answered
  <2>1. KeepRest
    BY <1>7 DEF Take_Answered
  <2>2. CASE Calling
    <3>1. x.req # "none"
      BY <2>2
    <3>2. PICK y \in (IF x.term > 0 THEN {Deref(z)}
                      ELSE {z, SessTerminate(z)}) :
             /\ Becomes("caller", y)
             /\ Take(To("caller", "answered"),
                     {To("callee", "ack")} \cup Farewell("caller", x, y))
      BY <1>4, <1>7, <2>2 DEF Take_Answered
    <3>3. ct' = "done" /\ acked' = TRUE
      BY <1>7, <2>2 DEF Take_Answered
    <3> HIDE DEF x, r, z
    <3>4. Sound(y)
      BY <1>1, <1>5, <3>1, <3>2
    <3>5. net' \subseteq Datagram
      BY <1>1, <1>6, <3>2, FarewellType, TakeType
    <3> QED BY <1>1, <2>1, <3>2, <3>3, <3>4, <3>5, GoesOn
  <2>3. CASE ~Calling
    <3>1. /\ UNCHANGED <<sess, ct, cancel, acked, strans>>
          /\ Take(To("caller", "answered"),
                  IF acked THEN {To("callee", "ack")} ELSE {})
      BY <1>7, <2>3 DEF Take_Answered
    <3>2. net' \subseteq Datagram
      BY <1>6, <3>1, TakeType
    <3> QED BY <2>1, <3>1, <3>2, IInvParts DEF KeepRest, Calling
  <2> QED BY <2>2, <2>3
<1>8. CASE Take_Refused
  <2> DEFINE y == Done(r)
  <2>1. KeepRest /\ acked' = acked
    BY <1>8 DEF Take_Refused
  <2>2. CASE Calling
    <3>1. x.req # "none"
      BY <2>2
    <3>2. /\ Becomes("caller", y)
          /\ Take(To("caller", "refused"),
                  {To("callee", "ackRefused")} \cup Farewell("caller", x, y))
          /\ ct' = "completed"
      BY <1>8, <2>2 DEF Take_Refused
    <3>3. Sound(y)
      BY <1>5, <3>1
    <3> HIDE DEF x, y
    <3>4. net' \subseteq Datagram
      BY <1>1, <1>6, <3>2, FarewellType, TakeType
    <3> QED BY <1>1, <2>1, <3>2, <3>3, <3>4, GoesOn
  <2>3. CASE ~Calling
    <3>1. /\ UNCHANGED <<sess, ct, cancel, strans>>
          /\ Take(To("caller", "refused"),
                  IF ct = "completed" THEN {To("callee", "ackRefused")} ELSE {})
      BY <1>8, <2>3 DEF Take_Refused
    <3>2. net' \subseteq Datagram
      BY <1>6, <3>1, TakeType
    <3> QED BY <2>1, <3>1, <3>2, IInvParts DEF KeepRest, Calling
  <2> QED BY <2>2, <2>3
<1>9. CASE Invite_TimesOut
  <2> DEFINE y == Done(r)
  <2>1. /\ KeepRest /\ acked' = acked /\ ct' = "done"
        /\ Becomes("caller", y)
        /\ net' = net \cup Farewell("caller", x, y)
        /\ Calling
    BY <1>9 DEF Invite_TimesOut, Send, Calling
  <2>2. Sound(y)
    BY <1>5, <2>1
  <2> HIDE DEF x, y
  <2>3. net' \subseteq Datagram
    BY <1>1, <2>1, FarewellType
  <2> QED BY <1>1, <2>1, <2>2, <2>3, GoesOn
<1> QED BY <1>7, <1>8, <1>9

\* BYE, its answer and its time limit, and an answer that nobody acknowledged.
LEMMA EndStep ==
    ASSUME IInv, NEW s \in Side,
           Take_Bye(s) \/ Take_ByeDone(s) \/ Bye_TimesOut(s) \/ Answer_TimesOut
    PROVE  IInv'
<1> USE DEF IInv, SessTypeOK
<1>1. CASE Take_Bye(s)
  <2> DEFINE x == sess[s]
             z == [x EXCEPT !.peerterm = TRUE]
             n == [z EXCEPT !.st = FALSE]
             y == IF x.term = 0 THEN SessTerminate(n) ELSE z
             found == Live(s) /\ (s = "caller" => x.estab)
  <2>1. UNCHANGED <<ct, acked>> /\ KeepRest
    BY <1>1 DEF Take_Bye
  <2>2. To(Peer(s), "byeDone") \in Datagram
    BY ToType DEF Peer, Side, Kind
  <2>3. CASE found
    <3>1. /\ Becomes(s, y)
          /\ Take(To(s, "bye"),
                  {To(Peer(s), "byeDone")} \cup Farewell(s, x, y))
          /\ x.mem = "live"
      BY <1>1, <2>3 DEF Take_Bye, Live
    <3>2. Sound(x)
      OBVIOUS
    <3> HIDE DEF x
    <3>3. /\ Sound(z) /\ z.req = x.req
          /\ Sound(n) /\ n.req = x.req /\ n.owner = x.owner
      BY <3>2, PeerEnds
    <3>4. x.term = 0 => x.owner
      BY <3>1, <3>2 DEF Sound
    <3> HIDE DEF z, n
    <3>5. Sound(y) /\ (x.req = "invite" => y.req = "invite")
      BY <3>3, <3>4, SessTerminateSound
    <3> HIDE DEF y
    <3>6. net' \subseteq Datagram
      BY <2>2, <3>1, FarewellType, TakeType
    <3>7. Calling /\ s = "caller" => y.req = sess["caller"].req
      BY <3>5 DEF x
    <3>8. ct' \in {"calling", "proceeding"} => Calling
      BY <2>1 DEF Calling
    <3> QED BY <2>1, <3>1, <3>5, <3>6, <3>7, <3>8, GoesOn
  <2>4. CASE ~found
    <3>1. /\ UNCHANGED <<sess, cancel, strans>>
          /\ Take(To(s, "bye"), {To(Peer(s), "byeDone")})
      BY <1>1, <2>4 DEF Take_Bye
    <3>2. net' \subseteq Datagram
      BY <2>2, <3>1, TakeType
    <3> QED BY <2>1, <3>1, <3>2, IInvParts DEF KeepRest, Calling
  <2> QED BY <2>3, <2>4
<1>2. CASE Take_ByeDone(s) \/ Bye_TimesOut(s)
  <2> DEFINE x == sess[s]
             z == [x EXCEPT !.req = "none"]
  <2>1. UNCHANGED <<ct, acked>> /\ KeepRest
    BY <1>2 DEF Take_ByeDone, Bye_TimesOut
  <2>2. net' \subseteq Datagram
    BY <1>2, TakeType DEF Take_ByeDone, Bye_TimesOut
  <2>3. CASE x.req = "bye"
    <3>1. Becomes(s, Deref(z))
      BY <1>2, <2>3 DEF Take_ByeDone, Bye_TimesOut
    <3>2. Sound(x) /\ x \in Session /\ x.term = 2
      BY <2>3 DEF Sound
    <3>3. z \in Session /\ z.req = "none" /\ z.refs = x.refs
          /\ z.term = x.term /\ z.owner = x.owner /\ z.mem = x.mem
          /\ z.st = x.st /\ z.reply = x.reply
      BY <3>2 DEF Session
    <3>4. Calling => s # "caller"
      BY <2>3
    <3> HIDE DEF x, z
    <3>5. Sound(Deref(z))
      BY <2>3, <3>2, <3>3, RequestEnds
    <3> QED BY <2>1, <2>2, <3>1, <3>4, <3>5, GoesOn DEF Calling
  <2>4. CASE x.req # "bye"
    <3>1. UNCHANGED <<sess, cancel, strans>>
      BY <1>2, <2>4 DEF Take_ByeDone, Bye_TimesOut
    <3> QED BY <2>1, <2>2, <3>1, IInvParts DEF KeepRest, Calling
  <2> QED BY <2>3, <2>4
<1>3. CASE Answer_TimesOut
  <2> DEFINE x == sess["callee"]
             a == [x EXCEPT !.reply = FALSE]
             z == [a EXCEPT !.estab = TRUE]
             y == Done(z)
  <2>1. Sound(x) /\ x \in Session /\ "callee" \in Side
    BY DEF Side, Sound
  <2>2. a \in Session /\ a.reply = FALSE /\ a.refs = x.refs
        /\ a.term = x.term /\ a.owner = x.owner /\ a.mem = x.mem
        /\ a.st = x.st /\ a.req = x.req
    BY <2>1 DEF Session
  <2>3. z = [x EXCEPT !.reply = FALSE, !.estab = TRUE]
    BY <2>1 DEF Session
  <2>4. /\ UNCHANGED <<ct, acked>> /\ KeepRest /\ x.reply
        /\ Becomes("callee", y)
        /\ net' = net \cup Farewell("callee", x, y)
    BY <1>3, <2>3 DEF Answer_TimesOut, Send
  <2> HIDE DEF a
  <2>5. z \in Session /\ ~z.reply /\ z.refs = x.refs
        /\ z.term = x.term /\ z.owner = x.owner /\ z.mem = x.mem
        /\ z.st = x.st /\ z.req = x.req
    BY <2>2 DEF Session
  <2> HIDE DEF x, z
  <2>6. Sound(y)
    BY <2>1, <2>4, <2>5, ReplyEnds
  <2> HIDE DEF y
  <2>7. net' \subseteq Datagram
    BY <2>1, <2>4, FarewellType
  <2> QED BY <2>1, <2>4, <2>6, <2>7, GoesOn DEF Calling
<1> QED BY <1>1, <1>2, <1>3

\* Every step keeps the invariant.
LEMMA StepIInv == IInv /\ [Next]_vars => IInv'
<1> SUFFICES ASSUME IInv, [Next]_vars PROVE IInv'
  OBVIOUS
<1>1. CASE Connect \/ Answer \/ Caller_HangUp \/ Callee_HangUp
           \/ Callee_RingLimit
  BY <1>1, UserStep
     DEF Caller_HangUp, Callee_HangUp, Callee_RingLimit, Side
<1>2. CASE \E s \in Side : Stop(s)
  BY <1>2, StopStep
<1>3. CASE Lose \/ \E s \in Side : Retransmit(s)
  BY <1>3, PlainStep
<1>4. CASE Arrival
  BY <1>4, CalleeStep, CallerStep, PlainStep, EndStep DEF Arrival
<1>5. CASE TimeLimit
  <2>1. "caller" \in Side
    BY DEF Side
  <2> QED BY <1>5, <2>1, CallerStep, PlainStep, EndStep DEF TimeLimit
<1>6. CASE UNCHANGED vars
  BY <1>6, IInvParts DEF vars, IInv, SessTypeOK, Calling
<1> QED BY <1>1, <1>2, <1>3, <1>4, <1>5, <1>6 DEF Next

-----------------------------------------------------------------------------
(* In every behaviour the state is well formed.                              *)
THEOREM SessTyped == Spec => []SessTypeOK
<1>1. IInv => SessTypeOK
  BY DEF IInv
<1> QED BY <1>1, InitIInv, StepIInv, PTL DEF Spec

(* In every behaviour the references of both sessions are exact: no order of  *)
(* answers, copies, time limits and stops uses a freed session or leaks one.   *)
THEOREM ReferencesExact == Spec => []RefsAreExact
<1>1. IInv => RefsAreExact
  BY DEF IInv, Sound, RefsAreExact
<1> QED BY <1>1, InitIInv, StepIInv, PTL DEF Spec

(* In every behaviour nothing is left that would call into a freed session,   *)
(* and a session that nothing is left of has been freed.                      *)
THEOREM FreedSessionsQuiet == Spec => []FreedIsQuiet
<1>1. IInv => FreedIsQuiet
  <2> SUFFICES ASSUME IInv, NEW s \in Side
               PROVE  sess[s].mem = "freed" <=>
                         sess[s].mem # "none" /\ sess[s].refs = 0
                         /\ ~sess[s].owner /\ Waits(sess[s]) = 0
                         /\ ~sess[s].st
    BY DEF FreedIsQuiet
  <2> DEFINE x == sess[s]
  <2>1. Sound(x)
    BY DEF IInv
  <2>2. x \in Session
    BY <2>1 DEF Sound
  <2>3. x.mem \in {"none", "live", "freed"} /\ x.term \in 0..2
    BY <2>2 DEF Session
  <2>4. CASE x.mem = "live"
    BY <2>1, <2>4 DEF Sound
  <2>5. CASE x.mem # "live"
    <3>1. Waits(x) = 0 /\ ~x.owner /\ ~x.st
      BY <2>1, <2>5 DEF Sound, Waits
    <3>2. x.refs = 0 + 0
      BY <2>1, <2>3, <3>1 DEF Sound
    <3> QED BY <2>3, <2>5, <3>1, <3>2
  <2> QED BY <2>4, <2>5
<1> QED BY <1>1, InitIInv, StepIInv, PTL DEF Spec

-----------------------------------------------------------------------------
(* Both sides of a call in a network that is in order.                       *)
Caller == sess["caller"]
Callee == sess["callee"]
Wire(s, k) == To(s, k) \in net

\* What a session of each side can be.
Roles ==
    /\ \A s \in Side : /\ sess[s].owner => ~sess[s].peerterm
                       /\ sess[s].req = "bye" => sess[s].estab
                       /\ s \notin alive => ~Live(s)
    /\ ~Caller.st /\ ~Caller.reply
    /\ Caller.estab => Caller.req # "invite"
    /\ Caller.peerterm => Caller.estab
    /\ Callee.req # "invite"
    /\ Callee.owner => Callee.st \/ Callee.reply \/ Callee.estab
    /\ Callee.st => strans = "proceeding"

\* What has not happened yet: before the INVITE, before its answer, and before
\* the caller has had the answer.
Open == strans \in {"none", "proceeding"}
Before ==
    /\ Caller.mem = "none" =>
         /\ Callee.mem = "none" /\ ~Caller.estab /\ ~Callee.estab /\ ~acked
         /\ ~Wire("callee", "invite") /\ ~Wire("caller", "answered")
         /\ ~Wire("callee", "ack") /\ ~Wire("caller", "bye") /\ ~Wire("callee", "bye")
    /\ strans = "none" => Callee.mem = "none"
    /\ Open => /\ ~Caller.estab /\ ~Callee.estab /\ ~Callee.reply /\ ~acked
               /\ ~Wire("caller", "answered") /\ ~Wire("callee", "ack")
               /\ ~Wire("caller", "bye")
               /\ ~Wire("caller", "refused") /\ ~Wire("callee", "ackRefused")
    /\ Calling => /\ ~acked /\ ~Callee.estab
                  /\ ~Wire("callee", "ack") /\ ~Wire("caller", "bye")
    /\ Callee.reply /\ Calling => Wire("caller", "answered")

\* Who has sent BYE has given the call up, and so has, once it is taken, the
\* other side.
Gone ==
    /\ Wire("caller", "bye") => ~Callee.owner
    /\ Wire("callee", "bye") => ~Caller.owner
    /\ Callee.peerterm /\ Caller.owner =>
         ~Caller.estab /\ ~Callee.reply /\ ~Wire("caller", "answered")

\* A side for which the call is up, or about to be, has its peer, or will hear
\* that it has gone.
Met ==
    /\ Caller.owner /\ (Caller.estab \/ (Calling /\ Wire("caller", "answered"))) =>
         \/ Callee.owner \/ Callee.reply \/ Wire("caller", "bye")
         \/ ("callee" \notin alive /\ ~Callee.estab)
    /\ Callee.owner /\ (Callee.estab \/ acked \/ Wire("callee", "ack")) =>
         (Caller.owner /\ Caller.estab) \/ Wire("callee", "bye")

\* The inductive invariant for NoOrphanCall.
OrphanInv == prompt => Roles /\ Before /\ Gone /\ Met

-----------------------------------------------------------------------------
(* The session's operators, once more: what they leave alone, and when they   *)
(* send BYE.                                                                 *)
LEMMA OpsKeep ==
    ASSUME NEW x \in Session
    PROVE  /\ TermWait(x).estab = x.estab /\ TermWait(x).peerterm = x.peerterm
           /\ Terminate(x).estab = x.estab /\ Terminate(x).peerterm = x.peerterm
           /\ Free(x).estab = x.estab /\ Free(x).peerterm = x.peerterm
           /\ Free(x).owner = x.owner /\ Free(x).mem = "freed"
           /\ Free(x).req = "none" /\ Free(x).reply = FALSE /\ Free(x).st = FALSE
           /\ x.estab /\ ~x.peerterm /\ x.req = "none" => Terminate(x).req = "bye"
           /\ Terminate(x).req = "bye" => x.req = "bye" \/ x.estab
<1>1. TermWait(x).estab = x.estab /\ TermWait(x).peerterm = x.peerterm
  BY DEF TermWait, Session
<1>2. Terminate(x).estab = x.estab /\ Terminate(x).peerterm = x.peerterm
  BY DEF Terminate, Session
<1>3. /\ Free(x).estab = x.estab /\ Free(x).peerterm = x.peerterm
      /\ Free(x).owner = x.owner /\ Free(x).mem = "freed"
      /\ Free(x).req = "none" /\ Free(x).reply = FALSE /\ Free(x).st = FALSE
  BY DEF Free, Session
<1>4. ASSUME x.estab, ~x.peerterm, x.req = "none" PROVE Terminate(x).req = "bye"
  <2>1. Terminate(x) = [x EXCEPT !.term = 2, !.req = "bye", !.refs = @ + 1]
    BY <1>4 DEF Terminate
  <2>. QED BY <2>1 DEF Session
<1>5. Terminate(x).req = "bye" => x.req = "bye" \/ x.estab
  BY TerminateFields
<1>. QED BY <1>1, <1>2, <1>3, <1>4, <1>5

\* What y, in the place of x, does not forget.
Remembers(x, y) ==
    /\ y.estab = x.estab /\ y.peerterm = x.peerterm /\ ~y.owner /\ ~y.st
    /\ y.mem # "none" /\ (y.req = "invite" => x.req = "invite")
    /\ y.req = "bye" => x.req = "bye" \/ x.estab

(* The last reference of a session that was given up: BYE, if it is due.     *)
LEMMA LastDerefSends ==
    ASSUME NEW x \in Session, x.mem = "live", x.refs = 1, x.term > 0,
           ~x.owner, ~x.st, ~x.reply, x.req = "none"
    PROVE  /\ Remembers(x, Deref(x)) /\ ~Deref(x).reply
           /\ x.term = 1 /\ x.estab /\ ~x.peerterm => Deref(x).req = "bye"
<1> DEFINE y == [x EXCEPT !.refs = @ - 1]
           t == Terminate(y)
<1>1. /\ y \in Session /\ y.refs = 0 /\ y.term = x.term /\ y.mem = "live"
      /\ ~y.owner /\ ~y.st /\ ~y.reply /\ y.req = "none"
      /\ y.estab = x.estab /\ y.peerterm = x.peerterm
  BY DEF Session
<1>2. Deref(x) = Destruct(y)
  BY <1>1 DEF Deref
<1> HIDE DEF y
<1>3. CASE y.term = 2
  <2>1. Destruct(y) = Free(y)
    BY <1>1, <1>3 DEF Destruct
  <2>2. /\ Free(y).estab = y.estab /\ Free(y).peerterm = y.peerterm
        /\ Free(y).owner = y.owner /\ Free(y).mem = "freed"
        /\ Free(y).req = "none" /\ Free(y).reply = FALSE /\ Free(y).st = FALSE
    BY <1>1, OpsKeep
  <2> QED BY <1>1, <1>2, <1>3, <2>1, <2>2 DEF Remembers
<1>4. CASE y.term = 1
  <2>1. Destruct(y) = IF t.refs > 0 THEN t ELSE Free(t)
    BY <1>1, <1>4 DEF Destruct
  <2>2. /\ t \in Session /\ t.mem = "live" /\ ~t.owner /\ ~t.st /\ ~t.reply
        /\ (t.req = "none" /\ t.refs = 0) \/ (t.req = "bye" /\ t.refs = 1)
    BY <1>1, TerminateFields
  <2>3. /\ t.estab = x.estab /\ t.peerterm = x.peerterm
        /\ x.estab /\ ~x.peerterm => t.req = "bye"
        /\ t.req = "bye" => x.estab
    BY <1>1, OpsKeep
  <2> HIDE DEF t
  <2>4. CASE t.refs = 0
    <3>1. /\ Free(t).estab = t.estab /\ Free(t).peerterm = t.peerterm
          /\ Free(t).owner = t.owner /\ Free(t).mem = "freed"
          /\ Free(t).req = "none" /\ Free(t).reply = FALSE /\ Free(t).st = FALSE
      BY <2>2, OpsKeep
    <3>. QED BY <1>2, <2>1, <2>2, <2>3, <2>4, <3>1 DEF Remembers
  <2>5. CASE t.refs = 1
    BY <1>2, <2>1, <2>2, <2>3, <2>5 DEF Remembers
  <2> QED BY <2>2, <2>4, <2>5
<1> QED BY <1>1, <1>3, <1>4 DEF Session

(* Giving up the call: BYE, if it was established and the peer has sent none. *)
LEMMA ReleaseSends ==
    ASSUME NEW x, Sound(x), x.owner
    PROVE  /\ Remembers(x, Release(x)) /\ (Release(x).reply <=> x.reply)
           /\ x.estab /\ ~x.peerterm /\ x.req = "none" => Release(x).req = "bye"
<1> DEFINE o == [x EXCEPT !.owner = FALSE]
           y == [o EXCEPT !.refs = @ - 1]
           w == TermWait(y)
           t == Terminate(w)
<1>1. x \in Session /\ x.mem = "live" /\ x.term = 0 /\ x.refs = 1
      /\ x.req # "bye" /\ (x.reply => x.req = "none" /\ ~x.estab)
  BY DEF Sound, Session
<1>2. o \in Session /\ o.refs = 1 /\ o.owner = FALSE /\ o.term = 0
      /\ o.mem = "live" /\ o.req = x.req /\ o.reply = x.reply
      /\ o.estab = x.estab /\ o.peerterm = x.peerterm
  BY <1>1 DEF Session
<1> HIDE DEF o
<1>3. y \in Session /\ y.refs = 0 /\ y.owner = FALSE /\ y.term = 0
      /\ y.mem = "live" /\ y.req = x.req /\ y.reply = x.reply
      /\ y.estab = x.estab /\ y.peerterm = x.peerterm
  BY <1>2 DEF Session
<1>4. Release(x) = Destruct(y)
  BY <1>2, <1>3 DEF Release, Deref, o
<1> HIDE DEF y
<1>5. /\ w \in Session /\ w.refs = Waits(y) /\ Waits(w) = Waits(y)
      /\ Waits(y) \in 0..2
      /\ w.term = 1 /\ w.st = FALSE /\ w.mem = "live" /\ w.owner = FALSE
      /\ w.req = x.req /\ w.reply = x.reply
      /\ w.estab = x.estab /\ w.peerterm = x.peerterm
  <2>1. w.refs = 0 + Waits(y) /\ Waits(y) \in 0..2
    BY <1>3, TermWaitFields
  <2>2. w \in Session /\ Waits(w) = Waits(y) /\ w.term = 1 /\ w.st = FALSE
    BY <1>3, TermWaitFields
  <2>3. w.mem = "live" /\ w.owner = FALSE /\ w.req = x.req /\ w.reply = x.reply
    BY <1>3, TermWaitFields
  <2>4. w.estab = x.estab /\ w.peerterm = x.peerterm
    BY <1>3, OpsKeep
  <2> QED BY <2>1, <2>2, <2>3, <2>4
<1>6. Destruct(y) = IF w.refs > 0 THEN w
                    ELSE IF t.refs > 0 THEN t ELSE Free(t)
  BY <1>3, <1>5 DEF Destruct
<1>7. CASE w.refs > 0
  <2>1. x.req # "none" \/ x.reply
    BY <1>5, <1>7 DEF Waits
  <2> HIDE DEF w
  <2>2. Release(x) = w
    BY <1>4, <1>6, <1>7
  <2> QED BY <1>1, <1>5, <2>1, <2>2 DEF Remembers
<1>8. CASE w.refs = 0
  <2>1. w.req = "none" /\ ~w.reply
    BY <1>5, <1>8 DEF Waits
  <2>2. /\ t \in Session /\ t.mem = "live" /\ ~t.owner /\ ~t.st /\ ~t.reply
        /\ (t.req = "none" /\ t.refs = 0) \/ (t.req = "bye" /\ t.refs = 1)
    BY <1>5, <1>8, <2>1, TerminateFields
  <2>3. /\ t.estab = x.estab /\ t.peerterm = x.peerterm
        /\ x.estab /\ ~x.peerterm => t.req = "bye"
        /\ t.req = "bye" => x.estab
    BY <1>5, <2>1, OpsKeep
  <2>4. x.req = "none" /\ ~x.reply
    BY <1>5, <2>1
  <2> HIDE DEF t, w
  <2>5. CASE t.refs = 0
    <3>1. /\ Free(t).estab = t.estab /\ Free(t).peerterm = t.peerterm
          /\ Free(t).owner = t.owner /\ Free(t).mem = "freed"
          /\ Free(t).req = "none" /\ Free(t).reply = FALSE /\ Free(t).st = FALSE
      BY <2>2, OpsKeep
    <3>. QED BY <1>4, <1>6, <1>8, <2>2, <2>3, <2>4, <2>5, <3>1 DEF Remembers
  <2>6. CASE t.refs = 1
    BY <1>4, <1>6, <1>8, <2>2, <2>3, <2>4, <2>6 DEF Remembers
  <2> QED BY <2>2, <2>5, <2>6
<1> QED BY <1>5, <1>7, <1>8

(* sipsess_terminate does the same.                                          *)
LEMMA SessTerminateSends ==
    ASSUME NEW x, Sound(x), x.owner
    PROVE  /\ Remembers(x, SessTerminate(x)) /\ (SessTerminate(x).reply <=> x.reply)
           /\ x.estab /\ ~x.peerterm /\ x.req = "none" => SessTerminate(x).req = "bye"
<1> DEFINE w == TermWait(x)
           t == Terminate(w)
<1>1. x \in Session /\ x.mem = "live" /\ x.term = 0 /\ x.refs = 1
      /\ x.req # "bye" /\ (x.reply => x.req = "none" /\ ~x.estab)
  BY DEF Sound, Session
<1>2. /\ w \in Session /\ w.refs = 1 + Waits(x) /\ Waits(w) = Waits(x)
      /\ Waits(x) \in 0..2
      /\ w.term = 1 /\ w.st = FALSE /\ w.mem = "live"
      /\ w.req = x.req /\ w.reply = x.reply
      /\ w.estab = x.estab /\ w.peerterm = x.peerterm
  <2>1. w \in Session /\ Waits(w) = Waits(x) /\ w.term = 1 /\ w.st = FALSE
    BY <1>1, TermWaitFields
  <2>2. w.refs = 1 + Waits(x) /\ Waits(x) \in 0..2
    BY <1>1, TermWaitFields
  <2>3. w.mem = "live" /\ w.req = x.req /\ w.reply = x.reply
    BY <1>1, TermWaitFields
  <2>4. w.estab = x.estab /\ w.peerterm = x.peerterm
    BY <1>1, OpsKeep
  <2> QED BY <2>1, <2>2, <2>3, <2>4
<1>3. SessTerminate(x) = Release(IF w.refs > x.refs THEN w ELSE t)
  BY DEF SessTerminate
<1> HIDE DEF w
<1>4. CASE Waits(x) > 0
  <2>0. w \in Session /\ w.refs > 0
    BY <1>2
  <2>1. PICK y \in Session :
        /\ y.refs = w.refs - 1 /\ y.owner = FALSE
        /\ y.mem = w.mem /\ y.term = w.term /\ y.req = w.req
        /\ y.reply = w.reply /\ y.st = w.st /\ y.estab = w.estab
        /\ y.peerterm = w.peerterm
        /\ Release(w) = IF y.refs > 0 THEN y ELSE Destruct(y)
    BY <2>0, ReleaseFields
  <2>2. SessTerminate(x) = y
    BY <1>1, <1>2, <1>3, <1>4, <2>1
  <2>3. x.req # "none" \/ x.reply
    BY <1>4 DEF Waits
  <2> QED BY <1>1, <1>2, <2>1, <2>2, <2>3 DEF Remembers
<1>5. CASE Waits(x) = 0
  <2>1. x.req = "none" /\ ~x.reply
    BY <1>5 DEF Waits
  <2>2. /\ t \in Session /\ t.term = 2 /\ t.mem = "live" /\ ~t.st /\ ~t.reply
        /\ (t.req = "none" /\ t.refs = 1) \/ (t.req = "bye" /\ t.refs = 2)
    BY <1>2, <1>5, <2>1, TerminateFields
  <2>3. /\ t.estab = x.estab /\ t.peerterm = x.peerterm
        /\ x.estab /\ ~x.peerterm => t.req = "bye"
        /\ t.req = "bye" => x.estab
    BY <1>2, <2>1, OpsKeep
  <2>4. SessTerminate(x) = Release(t)
    BY <1>1, <1>2, <1>3, <1>5
  <2> HIDE DEF t
  <2>0. t \in Session /\ t.refs > 0
    BY <2>2
  <2>5. PICK y \in Session :
        /\ y.refs = t.refs - 1 /\ y.owner = FALSE
        /\ y.mem = t.mem /\ y.term = t.term /\ y.req = t.req
        /\ y.reply = t.reply /\ y.st = t.st /\ y.estab = t.estab
        /\ y.peerterm = t.peerterm
        /\ Release(t) = IF y.refs > 0 THEN y ELSE Destruct(y)
    BY <2>0, ReleaseFields
  <2>6. CASE t.refs = 2
    <3>1. SessTerminate(x) = y
      BY <2>4, <2>5, <2>6
    <3> QED BY <2>1, <2>2, <2>3, <2>5, <2>6, <3>1 DEF Remembers
  <2>7. CASE t.refs = 1
    <3>1. SessTerminate(x) = Free(y)
      BY <2>2, <2>4, <2>5, <2>7 DEF Destruct
    <3>2. /\ Free(y).estab = y.estab /\ Free(y).peerterm = y.peerterm
          /\ Free(y).owner = y.owner /\ Free(y).mem = "freed"
          /\ Free(y).req = "none" /\ Free(y).reply = FALSE /\ Free(y).st = FALSE
      BY <2>5, OpsKeep
    <3> QED BY <2>1, <2>2, <2>3, <2>5, <2>7, <3>1, <3>2 DEF Remembers
  <2> QED BY <2>2, <2>6, <2>7
<1> QED BY <1>2, <1>4, <1>5

(* A forced stop forgets nothing either.                                     *)
LEMMA FlushKeeps ==
    ASSUME NEW x, Sound(x), ~x.owner, x.mem = "live"
    PROVE  Deref(x).estab = x.estab /\ Deref(x).peerterm = x.peerterm
<1> DEFINE y == [x EXCEPT !.refs = @ - 1]
           t == Terminate(y)
<1>1. x \in Session /\ x.term # 0 /\ x.refs > 0
  BY DEF Sound
<1>2. /\ y \in Session /\ y.term = x.term
      /\ y.estab = x.estab /\ y.peerterm = x.peerterm
  BY <1>1 DEF Session
<1>3. Deref(x) = IF y.refs > 0 THEN y ELSE Destruct(y)
  BY DEF Deref
<1> HIDE DEF y
<1>4. Destruct(y) = LET u == IF y.refs > 0 \/ y.term = 2 THEN y ELSE Terminate(y)
                    IN  IF u.refs > 0 THEN u ELSE Free(u)
  BY <1>1, <1>2 DEF Destruct
<1>5. t \in Session /\ t.estab = y.estab /\ t.peerterm = y.peerterm
  BY <1>2, TerminateFields, OpsKeep
<1> HIDE DEF t
<1>6. /\ Free(y).estab = y.estab /\ Free(y).peerterm = y.peerterm
      /\ Free(t).estab = t.estab /\ Free(t).peerterm = t.peerterm
  BY <1>2, <1>5, OpsKeep
<1>7. Deref(x) \in {y, t, Free(y), Free(t)}
  BY <1>3, <1>4 DEF t
<1> QED BY <1>2, <1>5, <1>6, <1>7

-----------------------------------------------------------------------------
(* The wire, in a network that is in order.                                  *)
LEMMA ToSame ==
    ASSUME NEW s, NEW k, NEW t, NEW j
    PROVE  To(s, k) = To(t, j) <=> s = t /\ k = j
  BY DEF To

\* A datagram that has arrived is gone, and what is sent is under way.
LEMMA WireTake ==
    ASSUME prompt, NEW t, NEW j, NEW out, Take(To(t, j), out)
    PROVE  /\ Wire(t, j)
           /\ \A s, k : Wire(s, k)' <=> \/ Wire(s, k) /\ ~(s = t /\ k = j)
                                        \/ To(s, k) \in out
<1>1. To(t, j) \in net /\ net' = (net \ {To(t, j)}) \cup out
  BY DEF Take
<1>. QED BY <1>1, ToSame DEF Wire

\* What is sent is added to what is under way.
LEMMA WireSend ==
    ASSUME NEW out, Send(out)
    PROVE  \A s, k : Wire(s, k)' <=> Wire(s, k) \/ To(s, k) \in out
  BY DEF Wire, Send

\* The datagrams that the invariant speaks of.
Heard == {<<"callee", "invite">>, <<"caller", "answered">>, <<"callee", "ack">>,
          <<"caller", "bye">>, <<"callee", "bye">>,
          <<"caller", "refused">>, <<"callee", "ackRefused">>}

(* Of a farewell only BYE and a refusal are among them.                      *)
LEMMA FarewellSays ==
    ASSUME NEW s \in Side, NEW x, NEW y
    PROVE  /\ \A t, k : k \in {"invite", "answered", "ack", "ackRefused"} =>
                          To(t, k) \notin Farewell(s, x, y)
           /\ \A t : To(t, "bye") \in Farewell(s, x, y)
                        <=> t = Peer(s) /\ x.req # "bye" /\ y.req = "bye"
           /\ \A t : To(t, "refused") \in Farewell(s, x, y)
                        <=> t = Peer(s) /\ x.st /\ ~y.st
  BY ToSame DEF Farewell

\* What may be sent, and what may be taken, without a change of a session.
MayBeSent(t, k) ==
    \/ k = "invite" /\ Caller.mem # "none"
    \/ k = "answered" /\ Callee.reply
    \/ k = "ack" /\ acked
    \/ k = "bye" /\ sess[Peer(t)].req = "bye"
    \/ k \in {"refused", "ackRefused"} /\ ~Open'

MayBeTaken(t, k) ==
    \/ k \in {"invite", "ack", "refused", "ackRefused"}
    \/ k = "answered" /\ ~Calling
    \/ k = "bye" /\ ~sess[t].owner
    \/ k = "bye" /\ t = "caller" /\ ~Caller.estab

\* The callee's transaction stays as it is, or is over without an answer.
Settles == strans' = strans \/ (~Open' /\ ~Callee.st)

(* Steps that leave both sessions as they are.                               *)
LEMMA QuietOrphan ==
    ASSUME IInv, OrphanInv, prompt, prompt' = prompt, sess' = sess,
           \A s \in Side : s \notin alive' => ~Live(s),
           alive' \subseteq alive, acked' => acked, Calling' => Calling, Settles,
           \A p \in Heard : /\ Wire(p[1], p[2])' => Wire(p[1], p[2]) \/ MayBeSent(p[1], p[2])
                            /\ Wire(p[1], p[2]) => Wire(p[1], p[2])' \/ MayBeTaken(p[1], p[2])
    PROVE  OrphanInv'
<1>0. /\ Roles /\ Before /\ Gone /\ Met
      /\ Caller' = Caller /\ Callee' = Callee
  BY DEF OrphanInv, Caller, Callee
<1>a. "callee" \notin alive => "callee" \notin alive'
  OBVIOUS
<1>1. /\ Caller.mem = "none" => Caller.req = "none"
      /\ Callee.mem = "none" => Callee.req = "none" /\ ~Callee.reply
      /\ Caller.req = "bye" => ~Caller.owner /\ Caller.estab
      /\ Callee.req = "bye" => ~Callee.owner /\ Callee.estab /\ Callee.mem # "none"
      /\ Calling => ~Caller.estab
  <2>1. Sound(Caller) /\ Sound(Callee) /\ (Calling => Caller.req = "invite")
    BY DEF IInv, Caller, Callee, Side
  <2>2. Sound(Caller) => Caller.mem # "none" \/ Caller.req = "none"
    BY DEF Sound
  <2>3. Sound(Callee) => Callee.mem # "none" \/ (Callee.req = "none" /\ ~Callee.reply)
    BY DEF Sound
  <2>4. \A s \in Side : sess[s].req = "bye" => ~sess[s].owner /\ sess[s].estab
                                               /\ sess[s].mem # "none"
    <3>1. \A s \in Side : Sound(sess[s])
      BY DEF IInv
    <3>. QED BY <1>0, <3>1 DEF Sound, Roles
  <2>. QED BY <1>0, <2>1, <2>2, <2>3, <2>4 DEF Roles, Caller, Callee, Side
<1>2. \A p \in {"callee"} \X {"invite", "ack", "ackRefused"} :
         Wire(p[1], p[2])' => Wire(p[1], p[2]) \/ MayBeSent(p[1], p[2])
  BY DEF Heard
<1>3. /\ Wire("callee", "invite")' => Wire("callee", "invite") \/ Caller.mem # "none"
      /\ Wire("callee", "ack")' => Wire("callee", "ack") \/ acked
      /\ Wire("callee", "ackRefused")' => Wire("callee", "ackRefused") \/ ~Open'
      /\ Wire("caller", "refused")' => Wire("caller", "refused") \/ ~Open'
      /\ Wire("caller", "answered")' => Wire("caller", "answered") \/ Callee.reply
      /\ Wire("caller", "bye")' => Wire("caller", "bye") \/ Callee.req = "bye"
      /\ Wire("callee", "bye")' => Wire("callee", "bye") \/ Caller.req = "bye"
  BY DEF Heard, MayBeSent, Peer, Caller, Callee
<1>4. /\ Wire("caller", "answered") /\ Calling => Wire("caller", "answered")'
      /\ Wire("caller", "bye") /\ Caller.owner /\ Caller.estab => Wire("caller", "bye")'
      /\ Wire("callee", "bye") /\ Callee.owner => Wire("callee", "bye")'
  BY DEF Heard, MayBeTaken, Caller, Callee
<1>5. Roles'
  BY <1>0 DEF Roles, Live, Caller, Callee, Open, Settles
<1>6. Before'
  <2>1. Open' => Open /\ strans' = strans
    BY DEF Open, Settles
  <2>2. (Caller.mem = "none" =>
           /\ Callee.mem = "none" /\ ~Caller.estab /\ ~Callee.estab /\ ~acked
           /\ ~Wire("callee", "invite") /\ ~Wire("caller", "answered")
           /\ ~Wire("callee", "ack") /\ ~Wire("caller", "bye") /\ ~Wire("callee", "bye"))'
    BY <1>0, <1>1, <1>3 DEF Before
  <2>3. (strans = "none" => Callee.mem = "none")'
    BY <1>0, <2>1 DEF Before, Open
  <2>4. (Open => /\ ~Caller.estab /\ ~Callee.estab /\ ~Callee.reply /\ ~acked
                 /\ ~Wire("caller", "answered") /\ ~Wire("callee", "ack")
                 /\ ~Wire("caller", "bye")
                 /\ ~Wire("caller", "refused") /\ ~Wire("callee", "ackRefused"))'
    BY <1>0, <1>1, <1>3, <2>1 DEF Before
  <2>5. (Calling => /\ ~acked /\ ~Callee.estab
                    /\ ~Wire("callee", "ack") /\ ~Wire("caller", "bye"))'
    BY <1>0, <1>1, <1>3 DEF Before
  <2>6. (Callee.reply /\ Calling => Wire("caller", "answered"))'
    BY <1>0, <1>4 DEF Before
  <2>. QED BY <2>2, <2>3, <2>4, <2>5, <2>6 DEF Before
<1>7. Gone'
  BY <1>0, <1>1, <1>3, <1>4 DEF Gone, Before
<1>8. Met'
  BY <1>0, <1>a, <1>1, <1>3, <1>4 DEF Met, Before
<1>. QED BY <1>5, <1>6, <1>7, <1>8 DEF OrphanInv

(* A datagram that arrives and changes no session.                           *)
LEMMA QuietTake ==
    ASSUME IInv, OrphanInv, prompt, KeepRest, sess' = sess,
           acked' = acked, Calling' <=> Calling, Settles,
           NEW t, NEW j, NEW out, Take(To(t, j), out),
           <<t, j>> \in Heard => MayBeTaken(t, j),
           \A p \in Heard : To(p[1], p[2]) \in out => MayBeSent(p[1], p[2])
    PROVE  OrphanInv'
<1>1. prompt' = prompt /\ alive' = alive
  BY DEF KeepRest
<1>2. \A p \in Heard : /\ Wire(p[1], p[2])' => Wire(p[1], p[2]) \/ MayBeSent(p[1], p[2])
                       /\ Wire(p[1], p[2]) => Wire(p[1], p[2])' \/ MayBeTaken(p[1], p[2])
  <2>1. \A s, k : Wire(s, k)' <=> \/ Wire(s, k) /\ ~(s = t /\ k = j)
                                  \/ To(s, k) \in out
    BY WireTake
  <2>2. ASSUME NEW p \in Heard
        PROVE  /\ Wire(p[1], p[2])' => Wire(p[1], p[2]) \/ MayBeSent(p[1], p[2])
               /\ Wire(p[1], p[2]) => Wire(p[1], p[2])' \/ MayBeTaken(p[1], p[2])
    <3>1. p = <<p[1], p[2]>>
      BY DEF Heard
    <3>2. p[1] = t /\ p[2] = j => MayBeTaken(p[1], p[2])
      BY <3>1
    <3>. QED BY <2>1, <3>2
  <2>. QED BY <2>2
<1>3. \A s \in Side : s \notin alive' => ~Live(s)
  BY <1>1 DEF OrphanInv, Roles
<1>. QED BY <1>1, <1>2, <1>3, QuietOrphan

(* Answers, time limits and copies that end or begin no session.             *)
LEMMA PlainOrphan ==
    ASSUME IInv, OrphanInv, prompt,
           \/ Take_AckRefused \/ Take_Ringing \/ Take_CancelDone
           \/ Cancel_TimesOut \/ Lose \/ \E s \in Side : Retransmit(s)
    PROVE  OrphanInv'
<1>0. /\ Roles /\ Before /\ Gone /\ Met
      /\ \A s \in Side : s \notin alive => ~Live(s)
  BY DEF OrphanInv, Roles
<1>1. CASE Take_AckRefused
  <2>1. /\ Take(To("callee", "ackRefused"), {}) /\ strans' = "confirmed"
        /\ UNCHANGED <<sess, ct, cancel, acked>> /\ KeepRest
    BY <1>1 DEF Take_AckRefused
  <2>2. ~Open /\ ~Open'
    BY <1>0, <2>1, WireTake DEF Before, Open
  <2>3. Settles
    BY <1>0, <2>2 DEF Roles, Open, Settles
  <2>4. /\ <<"callee", "ackRefused">> \in Heard => MayBeTaken("callee", "ackRefused")
        /\ Calling' <=> Calling
    BY <2>1 DEF MayBeTaken, Calling
  <2>. QED BY <2>1, <2>3, <2>4, QuietTake
<1>2. CASE Take_Ringing
  <2>1. PICK out \in SUBSET {To("callee", "cancel")} : Take(To("caller", "ringing"), out)
    BY <1>2 DEF Take_Ringing
  <2>2. UNCHANGED <<sess, acked, strans>> /\ KeepRest /\ (Calling' <=> Calling)
    BY <1>2 DEF Take_Ringing, Calling
  <2>3. <<"caller", "ringing">> \notin Heard
    BY DEF Heard
  <2>4. \A p \in Heard : To(p[1], p[2]) \notin out
    BY ToSame DEF Heard
  <2>. QED BY <2>1, <2>2, <2>3, <2>4, QuietTake DEF Settles
<1>3. CASE Take_CancelDone
  <2>1. <<"caller", "cancelDone">> \notin Heard
    BY DEF Heard
  <2>. QED BY <1>3, <2>1, QuietTake DEF Take_CancelDone, Calling, Settles
<1>4. CASE Cancel_TimesOut
  <2>1. UNCHANGED <<sess, ct, acked, strans, net, alive, prompt>>
    BY <1>4 DEF Cancel_TimesOut, KeepRest
  <2>2. \A s, k : Wire(s, k)' <=> Wire(s, k)
    BY <2>1 DEF Wire
  <2>. QED BY <1>0, <2>1, <2>2, QuietOrphan DEF Calling, Settles
<1>5. CASE Lose
  <2>1. UNCHANGED <<sess, ct, acked, strans, alive, prompt>>
    BY <1>5 DEF Lose, KeepRest
  <2>2. PICK m \in net : m.to \notin alive /\ net' = net \ {m}
    BY <1>5 DEF Lose
  <2>3. ASSUME NEW p \in Heard
        PROVE  /\ Wire(p[1], p[2])' => Wire(p[1], p[2])
               /\ Wire(p[1], p[2]) => Wire(p[1], p[2])' \/ MayBeTaken(p[1], p[2])
    <3>1. Wire(p[1], p[2])' => Wire(p[1], p[2])
      BY <2>2 DEF Wire
    <3>2. CASE m = To(p[1], p[2])
      <4>1. p[1] \notin alive /\ p[1] \in Side
        BY <2>2, <3>2 DEF To, Heard, Side
      <4>2. Sound(sess[p[1]]) /\ ~Live(p[1])
        BY <1>0, <4>1 DEF Roles, IInv
      <4>3. ~sess[p[1]].owner /\ sess[p[1]].req = "none"
        BY <4>2 DEF Sound, Live
      <4>4. p[1] = "caller" => ~Calling
        BY <4>3 DEF IInv
      <4>. QED BY <3>1, <4>3, <4>4 DEF MayBeTaken, Heard
    <3>3. CASE m # To(p[1], p[2])
      BY <2>2, <3>1, <3>3 DEF Wire
    <3>. QED BY <3>2, <3>3
  <2>. QED BY <1>0, <2>1, <2>3, QuietOrphan DEF Calling, Settles
<1>6. ASSUME NEW s \in Side, Retransmit(s) PROVE OrphanInv'
  <2>1. /\ UNCHANGED <<sess, ct, acked, strans, alive, prompt>>
        /\ \E m \in Unanswered(s) : Send({m})
    BY <1>6 DEF Retransmit, KeepRest
  <2>2. ASSUME NEW p \in Heard, To(p[1], p[2]) \in Unanswered(s)
        PROVE  MayBeSent(p[1], p[2])
    <3>1. ct = "calling" => Caller.mem # "none"
      <4>1. Sound(Caller)
        BY DEF IInv, Caller, Side
      <4>2. ct = "calling" => Caller.req = "invite"
        BY DEF IInv, Calling, Caller
      <4>. QED BY <4>1, <4>2 DEF Sound
    <3>2. strans = "completed" => ~Open'
      BY <2>1 DEF Open
    <3>3. CASE s = "caller"
      BY <2>2, <3>1, <3>3, ToSame DEF Unanswered, MayBeSent, Heard, Peer
    <3>4. CASE s = "callee"
      BY <2>2, <3>2, <3>4, ToSame DEF Unanswered, MayBeSent, Heard, Peer, Callee
    <3>. QED BY <3>3, <3>4 DEF Side
  <2>3. \A p \in Heard : /\ Wire(p[1], p[2])' => Wire(p[1], p[2]) \/ MayBeSent(p[1], p[2])
                         /\ Wire(p[1], p[2]) => Wire(p[1], p[2])'
    BY <2>1, <2>2, WireSend
  <2>. QED BY <1>0, <2>1, <2>3, QuietOrphan DEF Calling, Settles
<1>. QED BY <1>1, <1>2, <1>3, <1>4, <1>5, <1>6

(* The applications.                                                         *)
LEMMA ConnectOrphan ==
    ASSUME IInv, OrphanInv, prompt, Connect
    PROVE  OrphanInv'
<1> DEFINE y == [Fresh EXCEPT !.req = "invite"]
<1>0. Roles /\ Before /\ Gone /\ Met
  BY DEF OrphanInv
<1>1. /\ Caller.mem = "none" /\ "caller" \in alive /\ ct' = "calling"
      /\ UNCHANGED <<acked, strans, alive, prompt>>
      /\ sess' = [sess EXCEPT !["caller"] = y] /\ Send({To("callee", "invite")})
  BY DEF Connect, KeepRest, Caller
<1>2. /\ y.owner /\ ~y.st /\ ~y.reply /\ ~y.estab /\ ~y.peerterm
      /\ y.req = "invite" /\ y.mem = "live"
  BY DEF Fresh
<1> HIDE DEF y
<1>3. sess' \in [Side -> Session] /\ Caller' = y /\ Callee' = Callee
      /\ sess'["caller"] = y /\ sess'["callee"] = sess["callee"]
  <2>1. y \in Session
    BY FreshSound DEF Sound, y
  <2>. QED BY <1>1, <2>1 DEF IInv, SessTypeOK, Side, Caller, Callee
<1>4. /\ Callee.mem = "none" /\ ~Callee.estab /\ ~acked
      /\ ~Wire("caller", "answered")' /\ ~Wire("callee", "ack")'
      /\ ~Wire("caller", "bye")' /\ ~Wire("callee", "bye")'
      /\ Wire("caller", "refused")' <=> Wire("caller", "refused")
      /\ Wire("callee", "ackRefused")' <=> Wire("callee", "ackRefused")
  BY <1>0, <1>1, WireSend, ToSame DEF Before
<1>5. ~Callee.owner /\ ~Callee.reply /\ Callee.req = "none" /\ ~Callee.st
  BY <1>4 DEF IInv, Sound, Callee, Side
<1>6. Roles'
  BY <1>0, <1>1, <1>2, <1>3, <1>5 DEF Roles, Live, Side
<1>7. Before'
  BY <1>0, <1>1, <1>2, <1>3, <1>4, <1>5 DEF Before, Open
<1>8. Gone' /\ Met'
  BY <1>1, <1>2, <1>3, <1>4, <1>5 DEF Gone, Met
<1>. QED BY <1>6, <1>7, <1>8 DEF OrphanInv

(* The caller's session ends, or goes on ending.                             *)
LEMMA CallerEnds ==
    ASSUME IInv, OrphanInv, prompt, prompt' = prompt, Callee' = Callee, strans' = strans,
           "callee" \in alive' <=> "callee" \in alive,
           "caller" \notin alive' => Caller'.mem # "live",
           Caller.mem # "none", Caller'.mem # "none",
           ~Caller'.owner, ~Caller'.st, ~Caller'.reply,
           Caller'.req = "invite" => ~Caller'.estab,
           Caller'.req = "bye" => Caller'.estab,
           Caller'.peerterm => Caller'.estab,
           Caller'.estab => Caller.estab \/ ~Open,
           Calling' => Calling,
           acked' \/ Wire("callee", "ack")' =>
             acked \/ Wire("callee", "ack") \/ (~Open /\ ~Calling' /\ Wire("callee", "bye")'),
           Wire("caller", "answered")' => Wire("caller", "answered"),
           Calling' /\ Wire("caller", "answered") => Wire("caller", "answered")',
           Wire("caller", "refused")' => Wire("caller", "refused"),
           Wire("callee", "ackRefused")' => Wire("callee", "ackRefused") \/ ~Open,
           Wire("caller", "bye")' => Wire("caller", "bye"),
           Wire("callee", "bye") => Wire("callee", "bye")',
           Caller.owner /\ Caller.estab => Wire("callee", "bye")' \/ ~Callee.owner
    PROVE  OrphanInv'
<1>0. Roles /\ Before /\ Gone /\ Met /\ (Open' <=> Open)
  BY DEF OrphanInv, Open
<1>1. Roles'
  <2>1. \A s \in Side : /\ (sess[s].owner => ~sess[s].peerterm)'
                        /\ (sess[s].req = "bye" => sess[s].estab)'
                        /\ (s \notin alive => ~Live(s))'
    BY <1>0 DEF Roles, Live, Caller, Callee, Side
  <2>. QED BY <1>0, <2>1 DEF Roles
<1>2. Before'
  BY <1>0 DEF Before, Open
<1>3. Gone'
  BY <1>0 DEF Gone
<1>4. Met'
  BY <1>0 DEF Met
<1>. QED BY <1>1, <1>2, <1>3, <1>4 DEF OrphanInv

(* The callee's session is established, ends, or goes on ending.             *)
LEMMA CalleeGoesOn ==
    ASSUME IInv, OrphanInv, prompt, prompt' = prompt, Caller' = Caller,
           acked' = acked, Calling' <=> Calling,
           strans' = strans \/ ~Open',
           "callee" \in alive,
           "caller" \in alive' <=> "caller" \in alive,
           "callee" \notin alive' => Callee'.mem # "live",
           Callee.mem # "none", Callee'.mem # "none",
           ~Callee'.st, Callee'.req # "invite",
           Callee'.req = "bye" => Callee'.estab,
           Callee'.reply => Callee.reply,
           Callee'.owner => /\ Callee.owner /\ Callee'.estab /\ ~Callee'.peerterm
                            /\ Wire("callee", "ack") \/ Callee.estab,
           Callee'.estab => Callee.estab \/ (~Calling /\ ~Open),
           Callee'.peerterm => \/ Callee.peerterm \/ ~Caller.owner
                               \/ Open /\ ~Callee'.reply,
           \/ Callee'.owner \/ Callee'.reply \/ Wire("caller", "bye")' \/ Open
           \/ ~Caller.owner \/ ~(Callee.owner \/ Callee.reply)
           \/ "callee" \notin alive' /\ ~Callee'.estab,
           Wire("callee", "ack")' => Wire("callee", "ack"),
           Wire("caller", "answered")' <=> Wire("caller", "answered"),
           Wire("caller", "refused")' => Wire("caller", "refused") \/ ~Open',
           Wire("callee", "ackRefused")' => Wire("callee", "ackRefused"),
           Wire("caller", "bye")' => \/ Wire("caller", "bye")
                                     \/ Callee'.estab /\ ~Callee'.owner,
           Wire("caller", "bye") => Wire("caller", "bye")',
           Wire("callee", "bye")' => Wire("callee", "bye"),
           Wire("callee", "bye") => Wire("callee", "bye")' \/ ~Callee'.owner
    PROVE  OrphanInv'
<1>0. Roles /\ Before /\ Gone /\ Met /\ Caller.mem # "none"
      /\ (Open' => Open /\ strans' = strans) /\ strans' # "none"
  BY DEF OrphanInv, Open, Before
<1>1. Roles'
  <2>1. \A s \in Side : /\ (sess[s].owner => ~sess[s].peerterm)'
                        /\ (sess[s].req = "bye" => sess[s].estab)'
                        /\ (s \notin alive => ~Live(s))'
    BY <1>0 DEF Roles, Live, Caller, Callee, Side
  <2>. QED BY <1>0, <2>1 DEF Roles
<1>2. Before'
  BY <1>0 DEF Before
<1>3. Gone'
  BY <1>0 DEF Gone, Before
<1>4. Met'
  BY <1>0 DEF Met, Before
<1>. QED BY <1>1, <1>2, <1>3, <1>4 DEF OrphanInv

(* Of the two sessions one becomes y.                                        *)
LEMMA BecomesSides ==
    ASSUME IInv, NEW s \in Side, NEW y, Becomes(s, y)
    PROVE  /\ s = "caller" => Caller' = y /\ Callee' = Callee /\ strans' = strans
           /\ s = "callee" => Callee' = y /\ Caller' = Caller
           /\ (strans' = strans) \/ ~Open'
<1>1. sess' = [sess EXCEPT ![s] = y] /\ sess \in [Side -> Session]
  BY DEF Becomes, IInv, SessTypeOK
<1>2. s = "caller" => strans' = strans
  BY FarewellSays DEF Becomes, Peer
<1>3. strans' = strans \/ ~Open'
  BY DEF Becomes, Open
<1>. QED BY <1>1, <1>2, <1>3 DEF Caller, Callee, Side

(* The call is given up on either side.                                      *)
LEMMA HangUpOrphan ==
    ASSUME IInv, OrphanInv, prompt, NEW s \in Side, HangUp(s)
    PROVE  OrphanInv'
<1> DEFINE x == sess[s]
           y == Release(x)
<1>0. Roles /\ Before /\ Gone /\ Met
  BY DEF OrphanInv
<1>1. /\ x.owner /\ Becomes(s, y) /\ Send(Farewell(s, x, y))
      /\ UNCHANGED <<ct, acked, alive, prompt>>
  BY DEF HangUp, KeepRest
<1>2. Sound(x) /\ x.mem = "live" /\ x.req # "bye" /\ s \in alive
  <2>1. Sound(x)
    BY DEF IInv
  <2>. QED BY <1>0, <1>1, <2>1 DEF Sound, Roles, Live
<1>3. ~x.peerterm
  BY <1>0, <1>1 DEF Roles
<1>w. /\ \A t, k : k \in {"invite", "answered", "ack", "ackRefused"} =>
                 (Wire(t, k)' <=> Wire(t, k))
      /\ \A t : Wire(t, "bye")' <=> \/ Wire(t, "bye")
                                    \/ t = Peer(s) /\ x.req # "bye" /\ y.req = "bye"
      /\ \A t : Wire(t, "refused")' <=> Wire(t, "refused") \/ (t = Peer(s) /\ x.st /\ ~y.st)
  BY <1>1, WireSend, FarewellSays
<1>4. CASE s = "caller"
  <2>1. Caller' = y /\ Callee' = Callee /\ strans' = strans /\ Caller = x
    BY <1>1, <1>4, BecomesSides DEF Caller
  <2> HIDE DEF x
  <2>2. Remembers(x, y) /\ (y.reply <=> x.reply)
        /\ (x.estab /\ ~x.peerterm /\ x.req = "none" => y.req = "bye")
    BY <1>1, <1>2, ReleaseSends
  <2>3. x.req \in {"none", "invite", "bye"}
    BY <1>2 DEF Sound, Session
  <2> HIDE DEF y
  <2>4. /\ x.estab => x.req = "none"
        /\ ~x.reply /\ ~x.st
    BY <1>0, <1>2, <2>1, <2>3 DEF Roles
  <2>5. /\ Wire("callee", "bye")' <=> Wire("callee", "bye") \/ y.req = "bye"
        /\ Wire("caller", "bye")' <=> Wire("caller", "bye")
        /\ Wire("caller", "refused")' <=> Wire("caller", "refused")
    BY <1>2, <1>4, <1>w DEF Peer
  <2>6. Calling' <=> Calling
    BY <1>1 DEF Calling
  <2>. QED BY <1>1, <1>2, <1>3, <1>4, <1>w, <2>1, <2>2, <2>4, <2>5, <2>6, CallerEnds DEF Remembers
<1>5. CASE s = "callee"
  <2>1. Callee' = y /\ Caller' = Caller /\ Callee = x
    BY <1>1, <1>5, BecomesSides DEF Callee
  <2>7. (strans' = strans) \/ ~Open'
    BY <1>1, BecomesSides
  <2>0. x.st /\ ~y.st => ~Open'
    <3>1. x.st /\ ~y.st => To("caller", "refused") \in Farewell(s, x, y)
      BY <1>5, FarewellSays DEF Peer
    <3>. QED BY <1>1, <3>1 DEF Becomes, Open
  <2> HIDE DEF x
  <2>2. Remembers(x, y) /\ (y.reply <=> x.reply)
        /\ (x.estab /\ ~x.peerterm /\ x.req = "none" => y.req = "bye")
    BY <1>1, <1>2, ReleaseSends
  <2>3. x.req \in {"none", "invite", "bye"}
    BY <1>2 DEF Sound, Session
  <2> HIDE DEF y
  <2>4. /\ x.req = "none"
        /\ x.st => Open
        /\ x.st \/ x.reply \/ x.estab
    BY <1>0, <1>1, <1>2, <2>1, <2>3 DEF Roles, Open
  <2>5. /\ Wire("caller", "bye")' <=> Wire("caller", "bye") \/ y.req = "bye"
        /\ Wire("callee", "bye")' <=> Wire("callee", "bye")
        /\ Wire("caller", "refused")' <=> Wire("caller", "refused") \/ (x.st /\ ~y.st)
    BY <1>2, <1>5, <1>w DEF Peer
  <2>6. Calling' <=> Calling
    BY <1>1 DEF Calling
  <2>. QED BY <1>1, <1>2, <1>3, <1>5, <1>w, <2>0, <2>1, <2>2, <2>4, <2>5, <2>6, <2>7,
         CalleeGoesOn DEF Remembers
<1>. QED BY <1>4, <1>5 DEF Side

(* A stack is closed.                                                        *)
LEMMA StopOrphan ==
    ASSUME IInv, OrphanInv, prompt, NEW s \in Side, Stop(s)
    PROVE  OrphanInv'
<1> DEFINE x == sess[s]
           u == IF x.owner THEN Release(x) ELSE x
           v == IF u.mem = "live" THEN Deref(u) ELSE u
           w == IF v.mem = "live" THEN Deref([v EXCEPT !.req = "none"]) ELSE v
           out == Farewell(s, x, u) \cup Farewell(s, u, v)
<1>0. Roles /\ Before /\ Gone /\ Met
  BY DEF OrphanInv
<1>1. /\ sess' = [sess EXCEPT ![s] = w] /\ Send(out)
      /\ s \in alive /\ alive' = alive \ {s} /\ prompt' = prompt
      /\ s = "caller" => ct' = "done" /\ acked' = FALSE /\ strans' = strans
      /\ s = "callee" => strans' = "confirmed" /\ UNCHANGED <<ct, acked>>
  BY DEF Stop
<1>2. Sound(x) /\ x.req \in {"none", "invite", "bye"} /\ (x.owner => ~x.peerterm)
      /\ x.mem \in {"none", "live", "freed"}
  BY <1>0 DEF IInv, Sound, Session, Roles
<1>w. /\ \A t, k : k \in {"invite", "answered", "ack", "ackRefused"} =>
                 (Wire(t, k)' <=> Wire(t, k))
      /\ \A t : t # Peer(s) => (Wire(t, "bye")' <=> Wire(t, "bye"))
      /\ \A t : t # Peer(s) => (Wire(t, "refused")' <=> Wire(t, "refused"))
      /\ \A t : Wire(t, "bye") => Wire(t, "bye")'
      /\ \A t : Wire(t, "refused") => Wire(t, "refused")'
      /\ Wire(Peer(s), "bye")' => \/ Wire(Peer(s), "bye")
                                  \/ x.req # "bye" /\ u.req = "bye"
                                  \/ u.req # "bye" /\ v.req = "bye"
      /\ x.req # "bye" /\ u.req = "bye" => Wire(Peer(s), "bye")'
  <2>1. \A t, k : Wire(t, k)' <=> Wire(t, k) \/ To(t, k) \in out
    BY <1>1, WireSend
  <2> HIDE DEF x, u, v, w
  <2>. QED BY <2>1, FarewellSays
<1> HIDE DEF out
<1>3. CASE x.mem = "none"
  <2>1. w = x /\ ~x.st
    BY <1>2, <1>3 DEF Sound
  <2>2. sess' = sess
    BY <1>1, <2>1 DEF IInv, SessTypeOK
  <2>3. \A r \in Side : r \notin alive' => ~Live(r)
    BY <1>0, <1>1, <1>3 DEF Roles, Live
  <2>4. Settles
    BY <1>1, <2>1 DEF Settles, Open, Callee, Side
  <2>5. u.req = "none" /\ v.req = "none"
    BY <1>2, <1>3 DEF Sound
  <2>6. \A p \in Heard : /\ Wire(p[1], p[2])' => Wire(p[1], p[2]) \/ MayBeSent(p[1], p[2])
                         /\ Wire(p[1], p[2]) => Wire(p[1], p[2])'
    <3>1. CASE s = "caller"
      BY <1>w, <2>5, <3>1 DEF Heard, Peer
    <3>2. CASE s = "callee"
      <4>1. ~Open'
        BY <1>1, <3>2 DEF Open
      <4>. QED BY <1>w, <2>5, <3>2, <4>1 DEF Heard, Peer, MayBeSent
    <3>. QED BY <3>1, <3>2 DEF Side
  <2>7. Calling' => Calling
    BY <1>1 DEF Calling, Side
  <2>8. acked' => acked
    BY <1>1 DEF Side
  <2>. QED BY <1>1, <2>2, <2>3, <2>4, <2>6, <2>7, <2>8, QuietOrphan
<1>4. CASE x.mem # "none"
  <2> HIDE DEF x
  <2>1. /\ Sound(u) /\ ~u.owner /\ u.estab = x.estab /\ u.peerterm = x.peerterm
        /\ x.owner /\ x.estab /\ x.req = "none" => u.req = "bye"
        /\ u.mem # "none"
    <3>1. CASE x.owner
      <4>1. u = Release(x)
        BY <3>1
      <4> HIDE DEF u
      <4>. QED BY <1>2, <3>1, <4>1, ReleaseSound, ReleaseSends DEF Remembers
    <3>2. CASE ~x.owner
      BY <1>2, <1>4, <3>2
    <3>. QED BY <3>1, <3>2
  <2>2. u.req = "bye" => u.estab
    <3>1. x.req = "bye" => x.estab
      BY <1>0 DEF Roles, x
    <3>2. CASE x.owner
      BY <1>2, <3>1, <3>2, ReleaseSends DEF Remembers
    <3>. QED BY <3>1, <3>2
  <2> HIDE DEF u
  <2>3. /\ Sound(v) /\ v.mem # "live" /\ ~v.owner /\ v.mem # "none"
        /\ v.estab = u.estab /\ v.peerterm = u.peerterm
    <3>1. CASE u.mem = "live"
      <4>1. v = Deref(u)
        BY <3>1
      <4> HIDE DEF v
      <4>2. v.mem = "freed" /\ Sound(v)
        BY <2>1, <3>1, <4>1, FlushSound
      <4>3. v.estab = u.estab /\ v.peerterm = u.peerterm
        BY <2>1, <3>1, <4>1, FlushKeeps
      <4>. QED BY <4>2, <4>3 DEF Sound
    <3>2. CASE u.mem # "live"
      BY <2>1, <3>2
    <3>. QED BY <3>1, <3>2
  <2> HIDE DEF v
  <2>4. ~v.owner /\ ~v.st /\ ~v.reply /\ v.req = "none" /\ w = v
    BY <2>3 DEF Sound
  <2> HIDE DEF w
  <2>5. /\ Wire(Peer(s), "bye")' => Wire(Peer(s), "bye") \/ (x.req # "bye" /\ u.req = "bye")
        /\ x.req # "bye" /\ u.req = "bye" => Wire(Peer(s), "bye")'
    BY <1>w, <2>4
  <2>6. x.owner => x.req # "bye"
    BY <1>2 DEF Sound
  <2>7. CASE s = "caller"
    <3>1. Caller' = w /\ Callee' = Callee /\ Caller = x
      BY <1>1, <2>7 DEF IInv, SessTypeOK, Caller, Callee, Side, x
    <3>2. x.owner /\ x.estab => Wire("callee", "bye")'
      BY <1>0, <1>2, <2>1, <2>5, <2>6, <2>7, <3>1 DEF Roles, Peer
    <3>3. /\ Wire("caller", "bye")' <=> Wire("caller", "bye")
          /\ Wire("caller", "refused")' <=> Wire("caller", "refused")
      BY <1>w, <2>7 DEF Peer
    <3>4. ~Calling' /\ ~acked' /\ ("callee" \in alive' <=> "callee" \in alive)
      BY <1>1, <2>7 DEF Calling
    <3>5. Caller.peerterm => Caller.estab
      BY <1>0 DEF Roles
    <3>. QED BY <1>1, <1>4, <1>w, <2>1, <2>3, <2>4, <2>7, <3>1, <3>2, <3>3, <3>4, <3>5, CallerEnds
  <2>8. CASE s = "callee"
    <3>1. Callee' = w /\ Caller' = Caller /\ Callee = x
      BY <1>1, <2>8 DEF IInv, SessTypeOK, Caller, Callee, Side, x
    <3>2. x.owner /\ x.estab => Wire("caller", "bye")'
      BY <1>0, <1>2, <2>1, <2>5, <2>6, <2>8, <3>1 DEF Roles, Peer
    <3>3. /\ Wire("callee", "bye")' <=> Wire("callee", "bye")
          /\ Wire("caller", "bye")' => Wire("caller", "bye") \/ (x.req # "bye" /\ u.req = "bye")
      BY <1>w, <2>5, <2>8 DEF Peer
    <3>4. /\ Calling' <=> Calling
          /\ ~Open' /\ ("caller" \in alive' <=> "caller" \in alive)
      BY <1>1, <2>8 DEF Calling, Open
    <3>5. x.reply => ~x.estab
      BY <1>2 DEF Sound
    <3>6. "callee" \in alive /\ "callee" \notin alive' /\ acked' = acked
      BY <1>1, <2>8
    <3>. QED BY <1>1, <1>4, <1>w, <2>1, <2>2, <2>3, <2>4, <3>1, <3>2, <3>3, <3>4, <3>5, <3>6,
            CalleeGoesOn
  <2>. QED BY <2>7, <2>8 DEF Side
<1>. QED BY <1>3, <1>4

(* What a session waited for has come or is given up, and it ends: it sends  *)
(* BYE, if that is due.                                                      *)
LEMMA DoneSends ==
    ASSUME NEW x, Sound(x), x.req # "none" \/ x.reply,
           NEW z \in Session, z.req = "none", ~z.reply, z.refs = x.refs,
           z.term = x.term, z.owner = x.owner, z.mem = x.mem, z.st = x.st
    PROVE  /\ Remembers(z, Done(z)) /\ ~Done(z).reply
           /\ z.estab /\ ~z.peerterm /\ z.term # 2 => Done(z).req = "bye"
           /\ Done(z) = IF z.term = 0 THEN SessTerminate(z) ELSE Deref(z)
<1>1. x \in Session /\ x.mem = "live" /\ ~x.st /\ x.refs > 0
      /\ (x.owner <=> x.term = 0) /\ x.term \in 0..2
  <2>1. x \in Session
    BY DEF Sound
  <2>2. x.term \in 0..2
    BY <2>1 DEF Session
  <2> QED BY <2>1, <2>2 DEF Sound
<1>2. Done(z) = IF z.term = 0 THEN SessTerminate(z) ELSE Deref(z)
  BY DEF Done
<1>3. CASE x.term > 0
  <2>1. Waits(x) = 1 /\ ~x.owner
    BY <1>1, <1>3 DEF Waits, Sound
  <2>2. x.refs = 0 + 1
    BY <1>1, <1>3, <2>1 DEF Sound
  <2>3. /\ Remembers(z, Deref(z)) /\ ~Deref(z).reply
        /\ z.term = 1 /\ z.estab /\ ~z.peerterm => Deref(z).req = "bye"
    BY <1>1, <1>3, <2>1, <2>2, LastDerefSends
  <2> QED BY <1>1, <1>2, <1>3, <2>3
<1>4. CASE x.term = 0
  <2>1. x.owner /\ x.refs = 1 + 0
    BY <1>1, <1>4 DEF Sound
  <2>2. Sound(z) /\ z.owner
    BY <1>1, <1>4, <2>1 DEF Sound
  <2>3. /\ Remembers(z, SessTerminate(z)) /\ (SessTerminate(z).reply <=> z.reply)
        /\ z.estab /\ ~z.peerterm /\ z.req = "none" => SessTerminate(z).req = "bye"
    BY <2>2, SessTerminateSends
  <2> QED BY <1>2, <1>4, <2>3
<1> QED BY <1>1, <1>3, <1>4

(* The answer to the INVITE, or its time limit.                              *)
LEMMA CallerOrphan ==
    ASSUME IInv, OrphanInv, prompt, Take_Answered \/ Take_Refused \/ Invite_TimesOut
    PROVE  OrphanInv'
<1> DEFINE x == sess["caller"]
           r == [x EXCEPT !.req = "none"]
           z == [r EXCEPT !.estab = TRUE]
<1>0. /\ Roles /\ Before /\ Gone /\ Met /\ Caller = x
      /\ \A s \in Side : s \notin alive => ~Live(s)
  BY DEF OrphanInv, Roles, Caller
<1>1. Sound(x) /\ x \in Session /\ "caller" \in Side
  BY DEF Side, Sound, IInv
<1>2. /\ r \in Session /\ r.req = "none" /\ r.refs = x.refs /\ r.term = x.term
      /\ r.owner = x.owner /\ r.mem = x.mem /\ r.st = x.st /\ r.reply = x.reply
      /\ r.estab = x.estab /\ r.peerterm = x.peerterm
  BY <1>1 DEF Session
<1>3. /\ z \in Session /\ z.req = "none" /\ z.refs = x.refs /\ z.term = x.term
      /\ z.owner = x.owner /\ z.mem = x.mem /\ z.st = x.st /\ z.reply = x.reply
      /\ z.estab = TRUE /\ z.peerterm = x.peerterm
  <2> HIDE DEF r
  <2> QED BY <1>2 DEF Session
<1>4. z = [x EXCEPT !.req = "none", !.estab = TRUE]
  BY <1>1 DEF Session
<1> HIDE DEF r, z
<1>5. ASSUME Calling
      PROVE  /\ x.req = "invite" /\ x.mem = "live" /\ x.term # 2
             /\ ~x.st /\ ~x.reply /\ ~x.estab /\ ~x.peerterm
             /\ (x.term = 0 <=> x.owner)
  <2>1. x.req = "invite"
    BY <1>5 DEF IInv
  <2>2. ~x.st /\ ~x.reply /\ ~x.estab /\ ~x.peerterm
    BY <1>0, <2>1 DEF Roles
  <2>. QED BY <1>1, <2>1, <2>2 DEF Sound
<1>6. ASSUME Calling
      PROVE  /\ Remembers(r, Done(r)) /\ ~Done(r).reply
             /\ Remembers(z, Done(z)) /\ ~Done(z).reply /\ Done(z).req = "bye"
             /\ Done(z) = IF z.term = 0 THEN SessTerminate(z) ELSE Deref(z)
  <2> HIDE DEF x
  <2>1. Remembers(r, Done(r)) /\ ~Done(r).reply
    BY <1>1, <1>2, <1>5, <1>6, DoneSends
  <2>2. /\ Remembers(z, Done(z)) /\ ~Done(z).reply
        /\ z.estab /\ ~z.peerterm /\ z.term # 2 => Done(z).req = "bye"
        /\ Done(z) = IF z.term = 0 THEN SessTerminate(z) ELSE Deref(z)
    BY <1>1, <1>3, <1>5, <1>6, DoneSends
  <2>. QED BY <1>3, <1>5, <1>6, <2>1, <2>2
<1>7. ASSUME Calling, Becomes("caller", Done(r)), ~Calling', acked' = acked, KeepRest,
             Wire("caller", "answered")' <=> Wire("caller", "answered"),
             Wire("callee", "ack")' <=> Wire("callee", "ack"),
             Wire("caller", "refused")' => Wire("caller", "refused"),
             Wire("callee", "ackRefused")' => Wire("callee", "ackRefused") \/ ~Open,
             Wire("caller", "bye")' <=> Wire("caller", "bye"),
             Wire("callee", "bye") => Wire("callee", "bye")'
      PROVE  OrphanInv'
  <2>1. Caller' = Done(r) /\ Callee' = Callee /\ strans' = strans
    BY <1>1, <1>7, BecomesSides
  <2>2. "caller" \in alive /\ alive' = alive /\ prompt' = prompt
    BY <1>0, <1>1, <1>5, <1>7 DEF Live, KeepRest
  <2> HIDE DEF x
  <2>. QED BY <1>0, <1>2, <1>5, <1>6, <1>7, <2>1, <2>2, CallerEnds DEF Remembers
<1>8. CASE Take_Refused
  <2>1. KeepRest /\ acked' = acked
    BY <1>8 DEF Take_Refused
  <2>2. CASE Calling
    <3>1. /\ Becomes("caller", Done(r)) /\ ct' = "completed"
          /\ Take(To("caller", "refused"),
                  {To("callee", "ackRefused")} \cup Farewell("caller", x, Done(r)))
      BY <1>8, <2>2 DEF Take_Refused, r
    <3>2. ~Open
      BY <1>0, <3>1, WireTake DEF Before
    <3> HIDE DEF x
    <3>3. /\ Wire("caller", "answered")' <=> Wire("caller", "answered")
          /\ Wire("callee", "ack")' <=> Wire("callee", "ack")
          /\ Wire("caller", "refused")' => Wire("caller", "refused")
          /\ Wire("caller", "bye")' <=> Wire("caller", "bye")
          /\ Wire("callee", "bye") => Wire("callee", "bye")'
      BY <1>1, <3>1, WireTake, FarewellSays, ToSame DEF Peer
    <3>4. ~Calling'
      BY <3>1 DEF Calling
    <3>. QED BY <1>7, <2>1, <2>2, <3>1, <3>2, <3>3, <3>4
  <2>3. CASE ~Calling
    <3>1. /\ UNCHANGED <<sess, ct, cancel, strans>>
          /\ Take(To("caller", "refused"),
                  IF ct = "completed" THEN {To("callee", "ackRefused")} ELSE {})
      BY <1>8, <2>3 DEF Take_Refused
    <3>2. ~Open'
      BY <1>0, <3>1, WireTake DEF Before, Open
    <3>3. \A p \in Heard :
            To(p[1], p[2]) \in (IF ct = "completed" THEN {To("callee", "ackRefused")} ELSE {})
                          => MayBeSent(p[1], p[2])
      BY <3>2, ToSame DEF Heard, MayBeSent
    <3>4. /\ <<"caller", "refused">> \in Heard => MayBeTaken("caller", "refused")
          /\ Calling' <=> Calling
      BY <3>1 DEF MayBeTaken, Calling
    <3>5. Settles /\ sess' = sess
      BY <3>1 DEF Settles
    <3>. QED BY <2>1, <3>1, <3>3, <3>4, <3>5, QuietTake
  <2>. QED BY <2>2, <2>3
<1>9. CASE Invite_TimesOut
  <2>1. /\ KeepRest /\ acked' = acked /\ ct' = "done" /\ Calling
        /\ Becomes("caller", Done(r)) /\ Send(Farewell("caller", x, Done(r)))
    BY <1>9 DEF Invite_TimesOut, Calling, r
  <2> HIDE DEF x
  <2>2. /\ Wire("caller", "answered")' <=> Wire("caller", "answered")
        /\ Wire("callee", "ack")' <=> Wire("callee", "ack")
        /\ Wire("caller", "refused")' => Wire("caller", "refused")
        /\ Wire("callee", "ackRefused")' <=> Wire("callee", "ackRefused")
        /\ Wire("caller", "bye")' <=> Wire("caller", "bye")
        /\ Wire("callee", "bye") => Wire("callee", "bye")'
    BY <1>1, <2>1, WireSend, FarewellSays, ToSame DEF Peer
  <2>3. ~Calling'
    BY <2>1 DEF Calling
  <2>. QED BY <1>7, <2>1, <2>2, <2>3
<1>10. CASE Take_Answered
  <2>1. KeepRest
    BY <1>10 DEF Take_Answered
  <2>2. CASE Calling
    <3>1. PICK y \in (IF x.term > 0 THEN {Deref(z)} ELSE {z, SessTerminate(z)}) :
             /\ Becomes("caller", y)
             /\ Take(To("caller", "answered"),
                     {To("callee", "ack")} \cup Farewell("caller", x, y))
      BY <1>4, <1>10, <2>2 DEF Take_Answered
    <3>2. ct' = "done" /\ acked' = TRUE
      BY <1>10, <2>2 DEF Take_Answered
    <3>3. ~Calling' /\ ~Open /\ Wire("caller", "answered")
      BY <1>0, <3>1, <3>2, WireTake DEF Before, Calling
    <3>4. Caller' = y /\ Callee' = Callee /\ strans' = strans
      BY <1>1, <3>1, BecomesSides
    <3>5. "caller" \in alive /\ alive' = alive /\ prompt' = prompt
      BY <1>0, <1>1, <1>5, <2>1, <2>2 DEF Live, KeepRest
    <3>6. x.term \in 0..2
      BY <1>1 DEF Session
    <3>7. y = Done(z) \/ (y = z /\ x.owner)
      BY <1>3, <1>5, <1>6, <2>2, <3>1, <3>6
    <3> HIDE DEF x
    <3>8. /\ Wire("caller", "answered")' => Wire("caller", "answered")
          /\ Wire("caller", "refused")' <=> Wire("caller", "refused")
          /\ Wire("callee", "ackRefused")' <=> Wire("callee", "ackRefused")
          /\ Wire("caller", "bye")' <=> Wire("caller", "bye")
          /\ Wire("callee", "bye")' <=> Wire("callee", "bye") \/ (x.req # "bye" /\ y.req = "bye")
      BY <1>1, <3>1, WireTake, FarewellSays, ToSame DEF Peer
    <3>9. CASE y = Done(z)
      BY <1>0, <1>3, <1>5, <1>6, <2>2, <3>2, <3>3, <3>4, <3>5, <3>8, <3>9, CallerEnds DEF Remembers
    <3>10. CASE y = z /\ x.owner
      <4>1. \A s \in Side : /\ (sess[s].owner => ~sess[s].peerterm)'
                            /\ (sess[s].req = "bye" => sess[s].estab)'
                            /\ (s \notin alive => ~Live(s))'
        BY <1>0, <1>3, <1>5, <2>2, <3>4, <3>5, <3>10 DEF Roles, Live, Caller, Callee, Side
      <4>2. Roles'
        BY <1>0, <1>3, <1>5, <2>2, <3>4, <3>10, <4>1 DEF Roles
      <4>3. Before'
        BY <1>0, <1>3, <1>5, <2>2, <3>3, <3>4, <3>10 DEF Before, Open
      <4>4. Gone'
        BY <1>0, <1>3, <1>5, <2>2, <3>3, <3>4, <3>8, <3>10 DEF Gone
      <4>5. Met'
        BY <1>0, <1>3, <1>5, <2>2, <3>3, <3>4, <3>5, <3>8, <3>10 DEF Met
      <4>. QED BY <4>2, <4>3, <4>4, <4>5 DEF OrphanInv
    <3>. QED BY <3>7, <3>9, <3>10
  <2>3. CASE ~Calling
    <3>1. /\ UNCHANGED <<sess, ct, cancel, acked, strans>>
          /\ Take(To("caller", "answered"), IF acked THEN {To("callee", "ack")} ELSE {})
      BY <1>10, <2>3 DEF Take_Answered
    <3>2. \A p \in Heard : To(p[1], p[2]) \in (IF acked THEN {To("callee", "ack")} ELSE {})
                          => MayBeSent(p[1], p[2])
      BY ToSame DEF Heard, MayBeSent
    <3>3. /\ <<"caller", "answered">> \in Heard => MayBeTaken("caller", "answered")
          /\ Calling' <=> Calling
      BY <2>3, <3>1 DEF MayBeTaken, Calling
    <3>4. Settles /\ sess' = sess /\ acked' = acked
      BY <3>1 DEF Settles
    <3>. QED BY <2>1, <3>1, <3>2, <3>3, <3>4, QuietTake
  <2>. QED BY <2>2, <2>3
<1>. QED BY <1>8, <1>9, <1>10

(* The callee answers.                                                       *)
LEMMA AnswerOrphan ==
    ASSUME IInv, OrphanInv, prompt, Answer
    PROVE  OrphanInv'
<1> DEFINE x == sess["callee"]
           y == [x EXCEPT !.st = FALSE, !.reply = TRUE]
<1>0. Roles /\ Before /\ Gone /\ Met /\ Callee = x
  BY DEF OrphanInv, Callee
<1>1. /\ x.owner /\ x.st /\ sess' = [sess EXCEPT !["callee"] = y]
      /\ strans' = "accepted" /\ Send({To("caller", "answered")})
      /\ UNCHANGED <<ct, cancel, acked, alive, prompt>>
  BY DEF Answer, KeepRest
<1>2. Sound(x) /\ x \in Session
  BY DEF IInv, Side, Sound
<1>3. Caller' = Caller /\ Callee' = y
  BY <1>1 DEF IInv, SessTypeOK, Caller, Callee, Side
<1>4. /\ y.owner = x.owner /\ y.peerterm = x.peerterm /\ y.req = x.req
      /\ y.mem = x.mem /\ y.estab = x.estab /\ y.st = FALSE /\ y.reply = TRUE
  BY <1>2 DEF Session
<1>5. ~Open' /\ strans' # "none" /\ (Calling' <=> Calling) /\ Open
  BY <1>0, <1>1 DEF Open, Calling, Roles
<1>6. /\ Wire("caller", "answered")'
      /\ \A t, k : k # "answered" => (Wire(t, k)' <=> Wire(t, k))
  BY <1>1, WireSend, ToSame
<1> HIDE DEF x, y
<1>7. x.mem = "live" /\ x.req = "none" /\ ~x.estab
  BY <1>1, <1>2 DEF Sound
<1>8. Roles'
  <2>1. \A s \in Side : /\ (sess[s].owner => ~sess[s].peerterm)'
                        /\ (sess[s].req = "bye" => sess[s].estab)'
                        /\ (s \notin alive => ~Live(s))'
    BY <1>0, <1>1, <1>3, <1>4 DEF Roles, Live, Caller, Callee, Side
  <2>. QED BY <1>0, <1>3, <1>4, <2>1 DEF Roles
<1>9. Before'
  BY <1>0, <1>1, <1>3, <1>4, <1>5, <1>6, <1>7 DEF Before
<1>10. Gone'
  BY <1>0, <1>1, <1>3, <1>4, <1>6 DEF Gone, Roles, Callee, Side
<1>11. Met'
  BY <1>0, <1>1, <1>3, <1>4, <1>6 DEF Met
<1>. QED BY <1>1, <1>8, <1>9, <1>10, <1>11 DEF OrphanInv

(* What arrives at the callee of a call that is not ended by BYE.            *)
LEMMA CalleeOrphan ==
    ASSUME IInv, OrphanInv, prompt, Take_Invite \/ Take_Cancel \/ Take_Ack
    PROVE  OrphanInv'
<1> DEFINE x == sess["callee"]
<1>0. /\ Roles /\ Before /\ Gone /\ Met /\ Callee = x
      /\ \A s \in Side : s \notin alive => ~Live(s)
  BY DEF OrphanInv, Roles, Callee
<1>1. Sound(x) /\ x \in Session /\ "callee" \in Side
  BY DEF Side, Sound, IInv
<1>2. CASE Take_Invite
  <2>1. /\ UNCHANGED <<ct, cancel, acked>> /\ KeepRest /\ "callee" \in alive
        /\ (Calling' <=> Calling)
    BY <1>2 DEF Take_Invite, Calling
  <2>2. <<"callee", "invite">> \in Heard => MayBeTaken("callee", "invite")
    BY DEF MayBeTaken
  <2>3. CASE /\ strans = "none"
             /\ sess' = [sess EXCEPT !["callee"] = [Fresh EXCEPT !.st = TRUE]]
             /\ strans' = "proceeding"
             /\ Take(To("callee", "invite"), {To("caller", "ringing")})
    <3> DEFINE y == [Fresh EXCEPT !.st = TRUE]
    <3>1. /\ y.owner /\ y.st /\ ~y.reply /\ ~y.estab /\ ~y.peerterm
          /\ y.req = "none" /\ y.mem = "live"
      BY DEF Fresh
    <3>2. y \in Session
      BY FreshSound DEF Sound
    <3> HIDE DEF y
    <3>3. Caller' = Caller /\ Callee' = y
      BY <2>3, <3>2 DEF IInv, SessTypeOK, Caller, Callee, Side, y
    <3>4. /\ Wire("callee", "invite")
          /\ \A p \in Heard : Wire(p[1], p[2])' => Wire(p[1], p[2])
          /\ Wire("callee", "bye") => Wire("callee", "bye")'
      BY <2>3, WireTake, ToSame DEF Heard
    <3>5. /\ Wire("caller", "answered")' => Wire("caller", "answered")
          /\ Wire("callee", "ack")' => Wire("callee", "ack")
          /\ Wire("caller", "bye")' => Wire("caller", "bye")
          /\ Wire("callee", "bye")' => Wire("callee", "bye")
          /\ Wire("caller", "refused")' => Wire("caller", "refused")
          /\ Wire("callee", "ackRefused")' => Wire("callee", "ackRefused")
      BY <3>4 DEF Heard
    <3>6. Open /\ Caller.mem # "none" /\ prompt' = prompt /\ alive' = alive
      BY <1>0, <2>1, <2>3, <3>4 DEF Before, Open, KeepRest
    <3>7. Roles'
      <4>1. \A s \in Side : /\ (sess[s].owner => ~sess[s].peerterm)'
                            /\ (sess[s].req = "bye" => sess[s].estab)'
                            /\ (s \notin alive => ~Live(s))'
        BY <1>0, <2>1, <3>1, <3>3, <3>6 DEF Roles, Live, Caller, Callee, Side
      <4>. QED BY <1>0, <2>3, <3>1, <3>3, <4>1 DEF Roles
    <3>8. Before'
      BY <1>0, <2>1, <2>3, <3>1, <3>3, <3>5, <3>6 DEF Before, Open
    <3>9. Gone'
      BY <1>0, <3>1, <3>3, <3>5, <3>6 DEF Gone, Before
    <3>10. Met'
      BY <1>0, <2>1, <3>1, <3>3, <3>5, <3>6 DEF Met, Before
    <3>. QED BY <3>6, <3>7, <3>8, <3>9, <3>10 DEF OrphanInv
  <2>4. CASE /\ strans = "none" /\ strans' = "completed" /\ sess' = sess
             /\ Take(To("callee", "invite"), {To("caller", "refused")})
    <3>1. ~Open' /\ ~Callee.st
      BY <1>0, <1>1, <2>4 DEF Before, Sound, Open
    <3>2. Settles
      BY <3>1 DEF Settles
    <3>3. \A p \in Heard : To(p[1], p[2]) \in {To("caller", "refused")} => MayBeSent(p[1], p[2])
      BY <3>1, ToSame DEF MayBeSent, Heard
    <3>. QED BY <2>1, <2>2, <2>4, <3>2, <3>3, QuietTake
  <2>5. CASE /\ strans # "none" /\ sess' = sess /\ strans' = strans
             /\ Take(To("callee", "invite"),
                     CASE strans = "proceeding" -> {To("caller", "ringing")}
                       [] strans = "completed" -> {To("caller", "refused")}
                       [] OTHER -> {})
    <3>1. PICK out : /\ Take(To("callee", "invite"), out)
                     /\ \/ out = {To("caller", "ringing")}
                        \/ out = {To("caller", "refused")} /\ strans = "completed"
                        \/ out = {}
      BY <2>5
    <3>2. Settles
      BY <2>5 DEF Settles
    <3>3. \A p \in Heard : To(p[1], p[2]) \in out => MayBeSent(p[1], p[2])
      BY <2>5, <3>1, ToSame DEF MayBeSent, Heard, Open
    <3>. QED BY <2>1, <2>2, <2>5, <3>1, <3>2, <3>3, QuietTake
  <2>. QED BY <1>2, <2>3, <2>4, <2>5 DEF Take_Invite
<1>3. CASE Take_Cancel
  <2> DEFINE a == [x EXCEPT !.st = FALSE]
             z == [a EXCEPT !.peerterm = TRUE]
             y == SessTerminate(z)
  <2>1. /\ UNCHANGED <<ct, acked>> /\ KeepRest /\ "callee" \in alive
        /\ (Calling' <=> Calling)
    BY <1>3 DEF Take_Cancel, Calling
  <2>2. CASE x.st
    <3>1. z = [x EXCEPT !.st = FALSE, !.peerterm = TRUE]
      BY <1>1 DEF Session
    <3>2. /\ Becomes("callee", y)
          /\ Take(To("callee", "cancel"),
                  {To("caller", "cancelDone")} \cup Farewell("callee", x, y))
      BY <1>3, <2>2, <3>1 DEF Take_Cancel
    <3>3. /\ x.owner /\ x.req = "none" /\ ~x.reply /\ ~x.estab /\ x.mem = "live" /\ Open
      BY <1>0, <1>1, <2>2 DEF Sound, Roles, Open
    <3>4. Sound(z) /\ z.owner /\ z.req = "none" /\ ~z.reply /\ ~z.estab /\ z.peerterm
      <4>1. a \in Session /\ a.mem = x.mem /\ a.refs = x.refs /\ a.term = x.term
            /\ a.owner = x.owner /\ a.estab = x.estab /\ a.req = x.req
            /\ a.reply = x.reply /\ a.st = FALSE
        BY <1>1 DEF Session
      <4>2. Waits(a) = Waits(x)
        BY <4>1 DEF Waits
      <4> HIDE DEF a
      <4>3. Sound(a)
        BY <1>1, <4>1, <4>2 DEF Sound
      <4>4. Sound(z) /\ z.req = a.req /\ z.owner = a.owner
        BY <4>3, PeerEnds
      <4>5. z.reply = a.reply /\ z.estab = a.estab /\ z.peerterm = TRUE
        BY <4>1 DEF Session
      <4>. QED BY <3>3, <4>1, <4>4, <4>5
    <3> HIDE DEF z
    <3>5. Remembers(z, y) /\ (y.reply <=> z.reply)
      BY <3>4, SessTerminateSends
    <3> HIDE DEF y, x
    <3>6. Callee' = y /\ Caller' = Caller
      BY <1>1, <3>2, BecomesSides
    <3>7. (strans' = strans) \/ ~Open'
      BY <1>1, <3>2, BecomesSides
    <3>8. y.req # "bye" /\ ~y.st
      BY <3>4, <3>5 DEF Remembers
    <3>9. ~Open'
      <4>1. To("caller", "refused") \in Farewell("callee", x, y)
        BY <1>1, <2>2, <3>8, FarewellSays DEF Peer
      <4>. QED BY <3>2, <4>1 DEF Becomes, Open, x
    <3>10. /\ Wire("caller", "answered")' <=> Wire("caller", "answered")
           /\ Wire("callee", "ack")' => Wire("callee", "ack")
           /\ Wire("callee", "ackRefused")' => Wire("callee", "ackRefused")
           /\ Wire("caller", "bye")' <=> Wire("caller", "bye")
           /\ Wire("callee", "bye")' <=> Wire("callee", "bye")
      BY <1>1, <3>2, <3>8, WireTake, FarewellSays, ToSame DEF Peer
    <3>11. prompt' = prompt /\ alive' = alive
      BY <2>1 DEF KeepRest
    <3>. QED BY <1>0, <2>1, <3>3, <3>4, <3>5, <3>6, <3>7, <3>8, <3>9, <3>10, <3>11, CalleeGoesOn
         DEF Remembers
  <2>3. CASE ~x.st
    <3>1. /\ UNCHANGED <<sess, cancel, strans>>
          /\ Take(To("callee", "cancel"), {To("caller", "cancelDone")} \cup {})
      BY <1>3, <2>3 DEF Take_Cancel
    <3>2. \A p \in Heard : To(p[1], p[2]) \notin {To("caller", "cancelDone")} \cup {}
      BY ToSame DEF Heard
    <3>3. <<"callee", "cancel">> \in Heard => MayBeTaken("callee", "cancel")
      BY DEF Heard
    <3>4. Settles /\ sess' = sess
      BY <3>1 DEF Settles
    <3>. QED BY <2>1, <3>1, <3>2, <3>3, <3>4, QuietTake
  <2>. QED BY <2>2, <2>3
<1>4. CASE Take_Ack
  <2> DEFINE z == [x EXCEPT !.reply = FALSE, !.estab = TRUE]
             y == IF x.term = 0 THEN z ELSE Deref(z)
  <2>1. /\ UNCHANGED <<ct, acked>> /\ KeepRest /\ "callee" \in alive
        /\ (Calling' <=> Calling)
    BY <1>4 DEF Take_Ack, Calling
  <2>2. CASE Live("callee") /\ x.reply
    <3>1. /\ Becomes("callee", y) /\ Take(To("callee", "ack"), Farewell("callee", x, y))
      BY <1>4, <2>2 DEF Take_Ack
    <3>2. z \in Session /\ ~z.reply /\ z.refs = x.refs /\ z.term = x.term
          /\ z.owner = x.owner /\ z.mem = x.mem /\ z.st = x.st
          /\ z.req = x.req /\ z.estab = TRUE /\ z.peerterm = x.peerterm
      BY <1>1 DEF Session
    <3>3. /\ x.req = "none" /\ ~x.st /\ ~x.estab /\ x.term # 2 /\ x.mem = "live"
          /\ (x.term = 0 <=> x.owner)
      BY <1>1, <2>2 DEF Sound
    <3> HIDE DEF z
    <3>4. /\ Remembers(z, Done(z)) /\ ~Done(z).reply
          /\ z.estab /\ ~z.peerterm /\ z.term # 2 => Done(z).req = "bye"
          /\ Done(z) = IF z.term = 0 THEN SessTerminate(z) ELSE Deref(z)
      BY <1>1, <2>2, <3>2, <3>3, DoneSends
    <3>5. \/ y = z /\ x.owner
          \/ y = Done(z) /\ ~x.owner
      BY <3>2, <3>3, <3>4
    <3> HIDE DEF y, x
    <3>6. Callee' = y /\ Caller' = Caller
      BY <1>1, <3>1, BecomesSides
    <3>7. (strans' = strans) \/ ~Open'
      BY <1>1, <3>1, BecomesSides
    <3>8. Wire("callee", "ack") /\ ~Open /\ ~Calling
      BY <1>0, <3>1, WireTake DEF Before
    <3>9. /\ Wire("caller", "answered")' <=> Wire("caller", "answered")
          /\ Wire("callee", "ack")' => Wire("callee", "ack")
          /\ Wire("callee", "ackRefused")' => Wire("callee", "ackRefused")
          /\ Wire("caller", "refused")' => Wire("caller", "refused")
          /\ Wire("caller", "bye")' <=> Wire("caller", "bye") \/ y.req = "bye"
          /\ Wire("callee", "bye")' <=> Wire("callee", "bye")
      BY <1>1, <3>1, <3>3, WireTake, FarewellSays, ToSame DEF Peer
    <3>10. prompt' = prompt /\ alive' = alive
      BY <2>1 DEF KeepRest
    <3>11. x.owner => ~x.peerterm
      BY <1>0, <1>1 DEF Roles, x
    <3>12. x.peerterm => ~Caller.owner
      BY <1>0, <2>2 DEF Gone
    <3>13. CASE y = z /\ x.owner
      BY <1>0, <2>1, <3>2, <3>3, <3>6, <3>7, <3>8, <3>9, <3>10, <3>11, <3>13, CalleeGoesOn
    <3>14. CASE y = Done(z) /\ ~x.owner
      BY <1>0, <2>1, <3>2, <3>3, <3>4, <3>6, <3>7, <3>8, <3>9, <3>10, <3>12, <3>14, CalleeGoesOn
      DEF Remembers
    <3>. QED BY <3>5, <3>13, <3>14
  <2>3. CASE ~(Live("callee") /\ x.reply)
    <3>1. UNCHANGED <<sess, cancel, strans>> /\ Take(To("callee", "ack"), {})
      BY <1>4, <2>3 DEF Take_Ack
    <3>2. <<"callee", "ack">> \in Heard => MayBeTaken("callee", "ack")
      BY DEF MayBeTaken
    <3>3. Settles /\ sess' = sess
      BY <3>1 DEF Settles
    <3>. QED BY <2>1, <3>1, <3>2, <3>3, QuietTake
  <2>. QED BY <2>2, <2>3
<1>. QED BY <1>2, <1>3, <1>4

(* BYE at either side.                                                       *)
LEMMA ByeOrphan ==
    ASSUME IInv, OrphanInv, prompt, NEW s \in Side, Take_Bye(s)
    PROVE  OrphanInv'
<1> DEFINE x == sess[s]
           z == [x EXCEPT !.peerterm = TRUE]
           n == [z EXCEPT !.st = FALSE]
           y == IF x.term = 0 THEN SessTerminate(n) ELSE z
           found == Live(s) /\ (s = "caller" => x.estab)
<1>0. /\ Roles /\ Before /\ Gone /\ Met
      /\ \A r \in Side : /\ sess[r].req = "bye" => sess[r].estab
                         /\ r \notin alive => ~Live(r)
  BY DEF OrphanInv, Roles
<1>1. Sound(x)
  BY DEF IInv
<1>2. /\ UNCHANGED <<ct, acked>> /\ KeepRest /\ (Calling' <=> Calling)
      /\ prompt' = prompt /\ alive' = alive
  BY DEF Take_Bye, Calling, KeepRest
<1>3. CASE found
  <2>1. /\ Becomes(s, y)
        /\ Take(To(s, "bye"), {To(Peer(s), "byeDone")} \cup Farewell(s, x, y))
        /\ x.mem = "live" /\ (s = "caller" => x.estab)
    BY <1>3 DEF Take_Bye, Live
  <2>2. s \in alive
    BY <1>0, <1>3
  <2>3. /\ s = "caller" => Caller' = y /\ Callee' = Callee /\ strans' = strans /\ Caller = x
        /\ s = "callee" => Callee' = y /\ Caller' = Caller /\ Callee = x
        /\ (strans' = strans) \/ ~Open'
    BY <2>1, BecomesSides DEF Caller, Callee
  <2>4. x.st /\ ~y.st /\ s = "callee" => ~Open'
    <3>1. x.st /\ ~y.st /\ s = "callee" => To("caller", "refused") \in Farewell(s, x, y)
      BY FarewellSays DEF Peer
    <3>. QED BY <2>1, <3>1 DEF Becomes, Open
  <2> HIDE DEF x
  <2>5. /\ Sound(n) /\ n.req = x.req /\ n.owner = x.owner
    BY <1>1, PeerEnds
  <2>6. /\ x \in Session /\ (x.term = 0 <=> x.owner)
        /\ x.st => x.owner
        /\ x.reply => ~x.estab
        /\ x.owner => x.req # "bye"
    BY <1>1, <2>1 DEF Sound
  <2>7. /\ z.mem = x.mem /\ z.owner = x.owner /\ z.estab = x.estab /\ z.req = x.req
        /\ z.reply = x.reply /\ z.st = x.st /\ z.peerterm = TRUE /\ z \in Session
    BY <2>6 DEF Session
  <2> HIDE DEF z
  <2>8. n.estab = x.estab /\ n.peerterm = TRUE /\ n.reply = x.reply
    BY <2>7 DEF Session
  <2> HIDE DEF n
  <2>9. /\ ~y.owner /\ ~y.st /\ y.mem # "none" /\ (y.reply <=> x.reply)
        /\ y.estab = x.estab /\ y.peerterm
        /\ y.req = "invite" => x.req = "invite"
        /\ y.req = "bye" => x.req = "bye" \/ x.estab
    <3>1. CASE x.term = 0
      <4>1. Remembers(n, y) /\ (y.reply <=> n.reply)
        BY <2>5, <2>6, <3>1, SessTerminateSends
      <4>. QED BY <2>5, <2>8, <4>1 DEF Remembers
    <3>2. CASE x.term # 0
      BY <2>1, <2>6, <2>7, <3>2
    <3>. QED BY <3>1, <3>2
  <2> HIDE DEF y
  <2>w. /\ \A t, k : k \in {"invite", "answered", "ack", "ackRefused"} =>
                   (Wire(t, k)' <=> Wire(t, k))
        /\ Wire(s, "bye")
        /\ \A t : Wire(t, "bye")' <=> \/ Wire(t, "bye") /\ t # s
                                      \/ t = Peer(s) /\ x.req # "bye" /\ y.req = "bye"
        /\ \A t : Wire(t, "refused")' <=> Wire(t, "refused") \/ (t = Peer(s) /\ x.st /\ ~y.st)
    <3>1. /\ Wire(s, "bye")
          /\ \A t, k : Wire(t, k)' <=> \/ Wire(t, k) /\ ~(t = s /\ k = "bye")
                                       \/ t = Peer(s) /\ k = "byeDone"
                                       \/ To(t, k) \in Farewell(s, x, y)
      BY <2>1, WireTake, ToSame
    <3>. QED BY <3>1, FarewellSays
  <2>10. CASE s = "caller"
    <3>1. /\ Wire("callee", "bye") => Wire("callee", "bye")'
          /\ Wire("caller", "bye")' => Wire("caller", "bye")
          /\ Wire("caller", "refused")' => Wire("caller", "refused")
          /\ Wire("caller", "bye")
      BY <2>w, <2>6, <2>10 DEF Peer
    <3>2. ~Callee.owner /\ x.req # "invite" /\ ~x.reply
      BY <1>0, <2>1, <2>3, <2>10, <3>1 DEF Roles, Gone
    <3>. QED BY <1>1, <1>2, <2>1, <2>2, <2>3, <2>9, <2>w, <2>10, <3>1, <3>2, CallerEnds
  <2>11. CASE s = "callee"
    <3>1. /\ Wire("callee", "bye")
          /\ Wire("callee", "bye")' => Wire("callee", "bye")
          /\ Wire("caller", "bye") => Wire("caller", "bye")'
          /\ Wire("caller", "bye")' => Wire("caller", "bye") \/ (x.req # "bye" /\ y.req = "bye")
          /\ Wire("caller", "refused")' => Wire("caller", "refused") \/ (x.st /\ ~y.st)
      BY <2>w, <2>11 DEF Peer
    <3>2. ~Caller.owner /\ x.req # "invite" /\ (x.req = "bye" => x.estab)
      BY <1>0, <2>3, <2>11, <3>1 DEF Roles, Gone, Callee
    <3>. QED BY <1>2, <2>1, <2>2, <2>3, <2>4, <2>9, <2>w, <2>11, <3>1, <3>2, CalleeGoesOn
  <2>. QED BY <2>10, <2>11 DEF Side
<1>4. CASE ~found
  <2>1. /\ UNCHANGED <<sess, cancel, strans>>
        /\ Take(To(s, "bye"), {To(Peer(s), "byeDone")})
    BY <1>4 DEF Take_Bye
  <2>2. <<s, "bye">> \in Heard => MayBeTaken(s, "bye")
    <3>1. CASE ~Live(s)
      <4>1. ~x.owner
        BY <1>1, <3>1 DEF Sound, Live
      <4>. QED BY <4>1 DEF MayBeTaken
    <3>2. CASE s = "caller" /\ ~x.estab
      BY <3>2 DEF MayBeTaken, Caller
    <3>. QED BY <1>4, <3>1, <3>2
  <2>3. \A p \in Heard : To(p[1], p[2]) \notin {To(Peer(s), "byeDone")}
    BY ToSame DEF Heard
  <2>4. Settles /\ sess' = sess
    BY <2>1 DEF Settles
  <2>. QED BY <1>2, <2>1, <2>2, <2>3, <2>4, QuietTake
<1>. QED BY <1>3, <1>4

(* The answer to BYE, or its time limit: the session had ended before.       *)
LEMMA ByeDoneOrphan ==
    ASSUME IInv, OrphanInv, prompt, NEW s \in Side, Take_ByeDone(s) \/ Bye_TimesOut(s)
    PROVE  OrphanInv'
<1> DEFINE x == sess[s]
           z == [x EXCEPT !.req = "none"]
           y == Deref(z)
<1>0. /\ Roles /\ Before /\ Gone /\ Met
      /\ \A r \in Side : /\ sess[r].req = "bye" => sess[r].estab
                         /\ r \notin alive => ~Live(r)
  BY DEF OrphanInv, Roles
<1>1. Sound(x)
  BY DEF IInv
<1>2. /\ UNCHANGED <<ct, acked>> /\ KeepRest /\ (Calling' <=> Calling)
      /\ prompt' = prompt /\ alive' = alive
  BY DEF Take_ByeDone, Bye_TimesOut, Calling, KeepRest
<1>3. CASE x.req = "bye"
  <2>1. Becomes(s, y)
    BY <1>3 DEF Take_ByeDone, Bye_TimesOut
  <2>2. \A t, k : k # "byeDone" => (Wire(t, k)' <=> Wire(t, k))
    <3>1. CASE Take_ByeDone(s)
      <4>1. Take(To(s, "byeDone"), {})
        BY <3>1 DEF Take_ByeDone
      <4>. QED BY <4>1, WireTake
    <3>2. CASE Bye_TimesOut(s)
      <4>1. net' = net
        BY <3>2 DEF Bye_TimesOut
      <4>. QED BY <4>1 DEF Wire
    <3>. QED BY <3>1, <3>2
  <2>3. /\ s = "caller" => Caller' = y /\ Callee' = Callee /\ strans' = strans /\ Caller = x
        /\ s = "callee" => Callee' = y /\ Caller' = Caller /\ Callee = x
        /\ (strans' = strans) \/ ~Open'
    BY <2>1, BecomesSides DEF Caller, Callee
  <2>4. /\ x \in Session /\ x.mem = "live" /\ x.term = 2 /\ ~x.owner /\ ~x.reply /\ ~x.st
    BY <1>1, <1>3 DEF Sound
  <2>5. s \in alive /\ x.estab
    BY <1>0, <1>3, <2>4 DEF Live
  <2> HIDE DEF x
  <2>6. /\ z \in Session /\ z.req = "none" /\ ~z.reply /\ z.refs = x.refs /\ z.term = x.term
        /\ z.owner = x.owner /\ z.mem = x.mem /\ z.st = x.st
        /\ z.estab = x.estab /\ z.peerterm = x.peerterm
    BY <2>4 DEF Session
  <2> HIDE DEF z
  <2>7. Remembers(z, y) /\ ~y.reply
    <3>1. /\ Remembers(z, Done(z)) /\ ~Done(z).reply
          /\ Done(z) = IF z.term = 0 THEN SessTerminate(z) ELSE Deref(z)
      BY <1>1, <1>3, <2>6, DoneSends
    <3>. QED BY <2>4, <2>6, <3>1
  <2> HIDE DEF y
  <2>8. CASE s = "caller"
    BY <1>0, <1>1, <1>2, <2>2, <2>3, <2>4, <2>5, <2>6, <2>7, <2>8, CallerEnds DEF Remembers
  <2>9. CASE s = "callee"
    BY <1>0, <1>1, <1>2, <2>2, <2>3, <2>4, <2>5, <2>6, <2>7, <2>9, CalleeGoesOn DEF Remembers
  <2>. QED BY <2>8, <2>9 DEF Side
<1>4. CASE x.req # "bye"
  <2>1. UNCHANGED <<sess, cancel, strans>> /\ Take(To(s, "byeDone"), {})
    BY <1>4 DEF Take_ByeDone, Bye_TimesOut
  <2>2. <<s, "byeDone">> \in Heard => MayBeTaken(s, "byeDone")
    BY DEF Heard
  <2>3. Settles /\ sess' = sess
    BY <2>1 DEF Settles
  <2>. QED BY <1>2, <2>1, <2>2, <2>3, QuietTake
<1>. QED BY <1>3, <1>4

(* The answer that nobody acknowledged: in this network the caller has given *)
(* the call up, and has had nothing but this answer to hear of.              *)
LEMMA UnacknowledgedOrphan ==
    ASSUME IInv, OrphanInv, prompt, Answer_TimesOut
    PROVE  OrphanInv'
<1> DEFINE x == sess["callee"]
           a == [x EXCEPT !.reply = FALSE]
           z == [a EXCEPT !.estab = TRUE]
           y == Done(z)
<1>0. /\ Roles /\ Before /\ Gone /\ Met /\ Callee = x
      /\ "callee" \notin alive => ~Live("callee")
  BY DEF OrphanInv, Roles, Side, Callee
<1>1. Sound(x) /\ x \in Session /\ "callee" \in Side
  BY DEF Side, Sound, IInv
<1>2. a \in Session /\ a.reply = FALSE /\ a.refs = x.refs
      /\ a.term = x.term /\ a.owner = x.owner /\ a.mem = x.mem
      /\ a.st = x.st /\ a.req = x.req /\ a.peerterm = x.peerterm
  BY <1>1 DEF Session
<1>3. z = [x EXCEPT !.reply = FALSE, !.estab = TRUE]
  BY <1>1 DEF Session
<1>4. /\ UNCHANGED <<ct, acked, alive, prompt>> /\ x.reply /\ net = {}
      /\ Becomes("callee", y) /\ Send(Farewell("callee", x, y))
  BY <1>3 DEF Answer_TimesOut, Overdue, KeepRest
<1> HIDE DEF a
<1>5. z \in Session /\ ~z.reply /\ z.refs = x.refs
      /\ z.term = x.term /\ z.owner = x.owner /\ z.mem = x.mem
      /\ z.st = x.st /\ z.req = x.req /\ z.estab = TRUE /\ z.peerterm = x.peerterm
  BY <1>2 DEF Session
<1>6. /\ x.mem = "live" /\ x.req = "none" /\ x.term # 2 /\ ~x.st
  BY <1>1, <1>4 DEF Sound
<1>7. "callee" \in alive
  BY <1>0, <1>6 DEF Live
<1>8. Callee' = y /\ Caller' = Caller
  BY <1>1, <1>4, BecomesSides
<1>9. (strans' = strans) \/ ~Open'
  BY <1>1, <1>4, BecomesSides
<1> HIDE DEF x, z
<1>10. /\ Remembers(z, y) /\ ~y.reply
       /\ ~x.peerterm => y.req = "bye"
  BY <1>1, <1>4, <1>5, <1>6, DoneSends
<1> HIDE DEF y
<1>11. ~Open /\ ~Calling /\ (Calling' <=> Calling)
  <2>1. ~Wire("caller", "answered")
    BY <1>4 DEF Wire
  <2>. QED BY <1>0, <1>4, <2>1 DEF Before, Calling
<1>12. x.peerterm => ~Caller.owner
  BY <1>0, <1>4 DEF Gone
<1>13. /\ Wire("caller", "answered")' <=> Wire("caller", "answered")
       /\ Wire("callee", "ack")' => Wire("callee", "ack")
       /\ Wire("callee", "ackRefused")' => Wire("callee", "ackRefused")
       /\ Wire("caller", "refused")' => Wire("caller", "refused")
       /\ Wire("caller", "bye")' <=> Wire("caller", "bye") \/ y.req = "bye"
       /\ Wire("callee", "bye")' <=> Wire("callee", "bye")
  BY <1>1, <1>4, <1>6, WireSend, FarewellSays DEF Peer
<1>. QED BY <1>0, <1>4, <1>5, <1>6, <1>7, <1>8, <1>9, <1>10, <1>11, <1>12, <1>13, CalleeGoesOn
     DEF Remembers

-----------------------------------------------------------------------------
(* The invariant, and what it says when everything has been answered.        *)
LEMMA OrphanInit == Init => OrphanInv
<1> SUFFICES ASSUME Init PROVE Roles /\ Before /\ Gone /\ Met
  BY DEF OrphanInv
<1> DEFINE x == [Fresh EXCEPT !.mem = "none", !.refs = 0, !.owner = FALSE]
<1>1. /\ x.mem = "none" /\ ~x.owner /\ ~x.estab /\ ~x.peerterm
      /\ x.req = "none" /\ ~x.reply /\ ~x.st
  BY DEF Fresh
<1>2. \A s \in Side : sess[s] = x
  BY DEF Init
<1>3. Caller = x /\ Callee = x
  BY <1>2 DEF Caller, Callee, Side
<1> HIDE DEF x
<1>4. /\ ~Calling /\ ~acked /\ strans = "none"
      /\ \A s, k : ~Wire(s, k)
  BY DEF Init, Calling, Wire
<1>5. Roles
  BY <1>1, <1>2, <1>3 DEF Roles, Live
<1>. QED BY <1>1, <1>3, <1>4, <1>5 DEF Before, Gone, Met

(* Every step keeps the invariant: one lemma for each kind of step.          *)
LEMMA OrphanStep == IInv /\ OrphanInv /\ [Next]_vars => OrphanInv'
<1> SUFFICES ASSUME IInv, OrphanInv, [Next]_vars PROVE OrphanInv'
  OBVIOUS
<1>0. prompt' = prompt
  BY DEF Next, vars, Connect, Answer, Caller_HangUp, Callee_HangUp, Callee_RingLimit,
         HangUp, Arrival, Take_Invite, Take_Cancel, Take_Ack, Take_AckRefused, Take_Ringing,
         Take_Answered, Take_Refused, Take_CancelDone, Take_Bye, Take_ByeDone, TimeLimit,
         Invite_TimesOut, Cancel_TimesOut, Answer_TimesOut, Bye_TimesOut, Lose, Stop,
         Retransmit, KeepRest
<1>1. CASE ~prompt
  BY <1>0, <1>1 DEF OrphanInv
<1>2. CASE prompt /\ [Next]_vars
  <2>1. CASE Connect \/ Answer \/ Caller_HangUp \/ Callee_HangUp \/ Callee_RingLimit
    BY <1>2, <2>1, ConnectOrphan, AnswerOrphan, HangUpOrphan
       DEF Caller_HangUp, Callee_HangUp, Callee_RingLimit, Side
  <2>2. CASE \E s \in Side : Stop(s) \/ Retransmit(s)
    BY <1>2, <2>2, StopOrphan, PlainOrphan
  <2>3. CASE Arrival
    BY <1>2, <2>3, PlainOrphan, CalleeOrphan, CallerOrphan, ByeOrphan, ByeDoneOrphan
       DEF Arrival
  <2>4. CASE TimeLimit \/ Lose
    BY <1>2, <2>4, PlainOrphan, CallerOrphan, ByeDoneOrphan, UnacknowledgedOrphan
       DEF TimeLimit
  <2>5. CASE UNCHANGED vars
    BY <2>5 DEF vars, OrphanInv, Roles, Before, Gone, Met, Caller, Callee, Wire, Open,
                Live, Calling
  <2>. QED BY <1>2, <2>1, <2>2, <2>3, <2>4, <2>5 DEF Next
<1>. QED BY <1>1, <1>2

(* In every behaviour whose network is in order nobody is left talking to     *)
(* nobody: whatever crosses on the way, when all requests have had their       *)
(* answer the call is up on both sides or on none.                             *)
THEOREM NobodyOrphaned == Spec => []NoOrphanCall
<1>1. IInv /\ OrphanInv => NoOrphanCall
  <2> SUFFICES ASSUME IInv, OrphanInv, prompt, Quiet,
                      "callee" \in alive \/ Callee.estab
               PROVE  Up("caller") <=> Up("callee")
    BY DEF NoOrphanCall, Callee
  <2>1. Roles /\ Met /\ Before
    BY DEF OrphanInv
  <2>2. \A s, k : ~Wire(s, k)
    BY DEF Quiet, Wire
  <2>3. ~Callee.reply
    <3>1. Waits(Callee) = 0 /\ Callee \in Session
      BY DEF Quiet, Side, Callee, IInv, SessTypeOK
    <3>. QED BY <3>1 DEF Waits
  <2>4. ASSUME Up("caller") PROVE Up("callee")
    <3>1. Caller.owner /\ Caller.estab
      BY <2>4 DEF Up, Caller
    <3>2. Callee.owner /\ ~Open
      BY <2>1, <2>2, <2>3, <3>1 DEF Met, Before
    <3>3. Callee.estab
      BY <2>1, <2>3, <3>2 DEF Roles, Open
    <3>. QED BY <3>2, <3>3 DEF Up, Callee
  <2>5. ASSUME Up("callee") PROVE Up("caller")
    BY <2>1, <2>2, <2>5 DEF Met, Up, Caller, Callee
  <2>. QED BY <2>4, <2>5
<1>2. Init => IInv /\ OrphanInv
  BY InitIInv, OrphanInit
<1>3. IInv /\ OrphanInv /\ [Next]_vars => (IInv /\ OrphanInv)'
  BY StepIInv, OrphanStep
<1>. QED BY <1>1, <1>2, <1>3, PTL DEF Spec

=============================================================================
