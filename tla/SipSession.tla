----------------------------- MODULE SipSession -----------------------------
(***************************************************************************)
(* One call between two of these programs, as the SIP stack under the core  *)
(* carries it: the session objects of the caller and the callee with their  *)
(* reference counts (sipsess), the INVITE, CANCEL and BYE transactions with  *)
(* their retransmissions and time limits (sip), and the datagrams between   *)
(* them, which may be lost, repeated, delayed and overtaken.                 *)
(* Left out: credentials, redirections, re-INVITE, INFO and REFER, and the  *)
(* end of a server transaction, which outlives every copy of its INVITE.     *)
(***************************************************************************)
EXTENDS Integers, FiniteSets

VARIABLES
    sess,      \* the session object of each side
    alive,     \* the sides whose stack has not been closed
    ct,        \* the caller's INVITE transaction
    cancel,    \* the caller's CANCEL transaction waits for its answer
    acked,     \* the caller keeps its ACK, for the answer sent again
    strans,    \* the callee's INVITE transaction
    net,       \* the datagrams under way
    prompt     \* the network is in order: nothing is lost, and an answer
               \* that is coming arrives before the sender's time limit

vars == <<sess, alive, ct, cancel, acked, strans, net, prompt>>

Side == {"caller", "callee"}
Peer(s) == IF s = "caller" THEN "callee" ELSE "caller"

\* "refused" is any final answer from 300 on, "byeDone" any answer to BYE.
Kind == {"invite", "ringing", "answered", "refused", "ack", "ackRefused",
         "cancel", "cancelDone", "bye", "byeDone"}
Datagram == [kind : Kind, to : Side]
To(s, k) == [kind |-> k, to |-> s]

Session == [mem : {"none", "live", "freed"}, refs : Nat, term : 0..2,
            owner : BOOLEAN,      \* the call object still holds it
            estab : BOOLEAN, peerterm : BOOLEAN,
            req : {"none", "invite", "bye"}, reply : BOOLEAN, st : BOOLEAN]

Fresh == [mem |-> "live", refs |-> 1, term |-> 0, owner |-> TRUE,
          estab |-> FALSE, peerterm |-> FALSE,
          req |-> "none", reply |-> FALSE, st |-> FALSE]

Init ==
    /\ sess = [s \in Side |-> [Fresh EXCEPT !.mem = "none", !.refs = 0,
                                            !.owner = FALSE]]
    /\ alive = Side
    /\ ct = "none" /\ strans = "none" /\ cancel = FALSE /\ acked = FALSE
    /\ net = {}
    /\ prompt \in BOOLEAN

-----------------------------------------------------------------------------
(* The reference counting of a session.                                      *)

Waits(x) == (IF x.req # "none" THEN 1 ELSE 0) + (IF x.reply THEN 1 ELSE 0)

\* Mutant: the pending INVITE holds no reference of its own.
TermWait_ReplyOnly(x) ==
    [x EXCEPT !.term = 1, !.st = FALSE, !.refs = @ + (IF x.reply THEN 1 ELSE 0)]

\* termwait: answer what is open, and wait for what is pending.
TermWait(x) == [x EXCEPT !.term = 1, !.st = FALSE, !.refs = @ + Waits(x)]

\* Mutant: BYE is sent only when the call was ended from this side.
Terminate_Quiet(x) ==
    IF ~x.estab \/ x.peerterm \/ x.req # "none" \/ x.term = 1
    THEN [x EXCEPT !.term = 2]
    ELSE [x EXCEPT !.term = 2, !.req = "bye", !.refs = @ + 1]

\* terminate: BYE, unless there is nothing to end or the peer has ended it.
Terminate(x) ==
    IF ~x.estab \/ x.peerterm \/ x.req # "none"
    THEN [x EXCEPT !.term = 2]
    ELSE [x EXCEPT !.term = 2, !.req = "bye", !.refs = @ + 1]

\* Mutant: the unacknowledged answer keeps its timers.
Free_KeepsReply(x) == [x EXCEPT !.mem = "freed", !.req = "none", !.st = FALSE]

Free(x) ==
    [x EXCEPT !.mem = "freed", !.req = "none", !.reply = FALSE, !.st = FALSE]

\* The destructor, which takes references again while something is pending.
Destruct(x) ==
    LET w == IF x.term = 0 THEN TermWait(x) ELSE x
        t == IF w.refs > 0 \/ w.term = 2 THEN w ELSE Terminate(w)
    IN  IF t.refs > 0 THEN t ELSE Free(t)

\* mem_deref
Deref(x) ==
    LET y == [x EXCEPT !.refs = @ - 1]
    IN  IF y.refs > 0 THEN y ELSE Destruct(y)

\* The call object goes, and its reference with it.
Release(x) == Deref([x EXCEPT !.owner = FALSE])

\* sipsess_terminate: the close handler releases the call at once.
SessTerminate(x) ==
    LET w == TermWait(x)
        t == IF w.refs > x.refs THEN w ELSE Terminate(w)
    IN  Release(t)

\* What an answer or a time limit does last: it ends the session, or drops
\* the reference that waited for it.
Done(x) == IF x.term = 0 THEN SessTerminate(x) ELSE Deref(x)

\* Mutant: an open server transaction goes without an answer.
Farewell_NoRefusal(s, x, y) ==
    (IF x.term = 0 /\ y.term > 0 /\ x.req = "invite" /\ ct = "proceeding"
     THEN {To(Peer(s), "cancel")} ELSE {})
    \cup (IF x.req # "bye" /\ y.req = "bye"
          THEN {To(Peer(s), "bye")} ELSE {})

\* What the step from x to y sends on its way out.
Farewell(s, x, y) ==
    (IF x.st /\ ~y.st THEN {To(Peer(s), "refused")} ELSE {})
    \cup (IF x.term = 0 /\ y.term > 0 /\ x.req = "invite" /\ ct = "proceeding"
          THEN {To(Peer(s), "cancel")} ELSE {})
    \cup (IF x.req # "bye" /\ y.req = "bye"
          THEN {To(Peer(s), "bye")} ELSE {})

-----------------------------------------------------------------------------
Send(out) == net' = net \cup out

\* A datagram arrives; in a bad network the same one may arrive again.
Take(m, out) ==
    /\ m \in net
    /\ \E again \in (IF prompt THEN {{}} ELSE {{}, {m}}) :
          net' = (net \ {m}) \cup again \cup out

\* Side s goes to y.  CANCEL starts a transaction of the caller, a refusal
\* ends the open one of the callee.
Becomes(s, y) ==
    LET out == Farewell(s, sess[s], y)
    IN  /\ sess' = [sess EXCEPT ![s] = y]
        /\ cancel' = (cancel \/ To("callee", "cancel") \in out)
        /\ strans' = IF To("caller", "refused") \in out THEN "completed"
                     ELSE strans

KeepRest == UNCHANGED <<alive, prompt>>
Calling == ct \in {"calling", "proceeding"}
Live(s) == sess[s].mem = "live"

(* The applications.                                                         *)

\* sipsess_connect
Connect ==
    /\ sess["caller"].mem = "none" /\ "caller" \in alive
    /\ sess' = [sess EXCEPT !["caller"] = [Fresh EXCEPT !.req = "invite"]]
    /\ ct' = "calling"
    /\ Send({To("callee", "invite")})
    /\ UNCHANGED <<cancel, acked, strans>> /\ KeepRest

\* call_answer: the answer is sent again until it is acknowledged.
Answer ==
    LET x == sess["callee"] IN
    /\ x.owner /\ x.st
    /\ sess' = [sess EXCEPT !["callee"] = [x EXCEPT !.st = FALSE, !.reply = TRUE]]
    /\ strans' = "accepted"
    /\ Send({To("caller", "answered")})
    /\ UNCHANGED <<ct, cancel, acked>> /\ KeepRest

\* ua_hangup, and the ring limit of a call that nobody answered.  The
\* sipsess_reject before it sends the refusal that termwait would send.
HangUp(s) ==
    LET x == sess[s]
        y == Release(x)
    IN  /\ x.owner
        /\ Becomes(s, y)
        /\ Send(Farewell(s, x, y))
        /\ UNCHANGED <<ct, acked>> /\ KeepRest

Caller_HangUp == HangUp("caller")
Callee_HangUp == HangUp("callee")

\* invite_timeout, until the call is established.
Callee_RingLimit == ~sess["callee"].estab /\ HangUp("callee")

\* ua_stop_all(forced): the calls go, every session that is left loses one
\* reference more, and the pending requests are answered with an error.
Stop(s) ==
    LET x == sess[s]
        u == IF x.owner THEN Release(x) ELSE x
        v == IF u.mem = "live" THEN Deref(u) ELSE u
        w == IF v.mem = "live" THEN Deref([v EXCEPT !.req = "none"]) ELSE v
    IN  /\ s \in alive
        /\ alive' = alive \ {s}
        /\ sess' = [sess EXCEPT ![s] = w]
        /\ Send(Farewell(s, x, u) \cup Farewell(s, u, v))
        /\ IF s = "caller"
           THEN ct' = "done" /\ cancel' = FALSE /\ acked' = FALSE /\ strans' = strans
           ELSE strans' = "confirmed" /\ UNCHANGED <<ct, cancel, acked>>
        /\ UNCHANGED prompt

-----------------------------------------------------------------------------
(* What arrives at the callee.                                               *)

\* sipsess_accept, or a refusal without a session; a copy of the INVITE gets
\* the last answer again until a 2xx or an ACK has ended that.
Take_Invite ==
    LET m == To("callee", "invite") IN
    /\ "callee" \in alive
    /\ \/ /\ strans = "none"
          /\ sess' = [sess EXCEPT !["callee"] = [Fresh EXCEPT !.st = TRUE]]
          /\ strans' = "proceeding"
          /\ Take(m, {To("caller", "ringing")})
       \/ /\ strans = "none"
          /\ strans' = "completed"
          /\ Take(m, {To("caller", "refused")})
          /\ UNCHANGED sess
       \/ /\ strans # "none"
          /\ Take(m, CASE strans = "proceeding" -> {To("caller", "ringing")}
                       [] strans = "completed" -> {To("caller", "refused")}
                       [] OTHER -> {})
          /\ UNCHANGED <<sess, strans>>
    /\ UNCHANGED <<ct, cancel, acked>> /\ KeepRest

\* cancel_handler: CANCEL is always answered, and ends what is not answered.
Take_Cancel ==
    LET x == sess["callee"]
        y == SessTerminate([x EXCEPT !.st = FALSE, !.peerterm = TRUE])
    IN  /\ "callee" \in alive
        /\ Take(To("callee", "cancel"),
                {To("caller", "cancelDone")}
                \cup (IF x.st THEN Farewell("callee", x, y) ELSE {}))
        /\ IF x.st THEN Becomes("callee", y)
           ELSE UNCHANGED <<sess, cancel, strans>>
        /\ UNCHANGED <<ct, acked>> /\ KeepRest

\* ack_handler: the answer has arrived.
Take_Ack ==
    LET x == sess["callee"]
        z == [x EXCEPT !.reply = FALSE, !.estab = TRUE]
        y == IF x.term = 0 THEN z ELSE Deref(z)
    IN  /\ "callee" \in alive
        /\ IF Live("callee") /\ x.reply
           THEN /\ Becomes("callee", y)
                /\ Take(To("callee", "ack"), Farewell("callee", x, y))
           ELSE /\ Take(To("callee", "ack"), {})
                /\ UNCHANGED <<sess, cancel, strans>>
        /\ UNCHANGED <<ct, acked>> /\ KeepRest

Take_AckRefused ==
    /\ "callee" \in alive
    /\ Take(To("callee", "ackRefused"), {})
    /\ strans' = "confirmed"
    /\ UNCHANGED <<sess, ct, cancel, acked>> /\ KeepRest

(* What arrives at the caller.                                               *)

\* The first provisional answer stops the time limit; the CANCEL of a call
\* that was hung up before it is sent now, and starts the limit again.
Take_Ringing ==
    LET late == ct = "calling" /\ sess["caller"].term > 0
    IN  /\ "caller" \in alive
        /\ Take(To("caller", "ringing"),
                IF late THEN {To("callee", "cancel")} ELSE {})
        /\ ct' = IF ct = "calling" THEN "proceeding" ELSE ct
        /\ cancel' = (cancel \/ late)
        /\ UNCHANGED <<sess, acked, strans>> /\ KeepRest

\* 2xx: acknowledged whether or not the call is still wanted, and again for
\* every copy.  The media of the answer may be refused.
Take_Answered ==
    LET x == sess["caller"]
        z == [x EXCEPT !.req = "none", !.estab = TRUE]
        m == To("caller", "answered")
        ack == To("callee", "ack")
    IN  /\ "caller" \in alive
        /\ IF Calling
           THEN /\ ct' = "done" /\ acked' = TRUE
                /\ \E y \in (IF x.term > 0 THEN {Deref(z)}
                             ELSE {z, SessTerminate(z)}) :
                      /\ Becomes("caller", y)
                      /\ Take(m, {ack} \cup Farewell("caller", x, y))
           ELSE /\ Take(m, IF acked THEN {ack} ELSE {})
                /\ UNCHANGED <<sess, ct, cancel, acked, strans>>
        /\ KeepRest

\* From 300 on: the transaction acknowledges it, and every copy of it.
Take_Refused ==
    LET x == sess["caller"]
        y == Done([x EXCEPT !.req = "none"])
        m == To("caller", "refused")
        ack == To("callee", "ackRefused")
    IN  /\ "caller" \in alive
        /\ IF Calling
           THEN /\ ct' = "completed"
                /\ Becomes("caller", y)
                /\ Take(m, {ack} \cup Farewell("caller", x, y))
           ELSE /\ Take(m, IF ct = "completed" THEN {ack} ELSE {})
                /\ UNCHANGED <<sess, ct, cancel, strans>>
        /\ UNCHANGED acked /\ KeepRest

Take_CancelDone ==
    /\ "caller" \in alive
    /\ Take(To("caller", "cancelDone"), {})
    /\ cancel' = FALSE
    /\ UNCHANGED <<sess, ct, acked, strans>> /\ KeepRest

(* What arrives at either side.                                              *)

\* bye_handler: a session is found once its dialog exists, which for the
\* caller is when it is established; otherwise the answer is 481.
Take_Bye(s) ==
    LET x == sess[s]
        z == [x EXCEPT !.peerterm = TRUE]
        y == IF x.term = 0 THEN SessTerminate([z EXCEPT !.st = FALSE]) ELSE z
        found == Live(s) /\ (s = "caller" => x.estab)
    IN  /\ s \in alive
        /\ IF found
           THEN /\ Becomes(s, y)
                /\ Take(To(s, "bye"), {To(Peer(s), "byeDone")}
                                      \cup Farewell(s, x, y))
           ELSE /\ Take(To(s, "bye"), {To(Peer(s), "byeDone")})
                /\ UNCHANGED <<sess, cancel, strans>>
        /\ UNCHANGED <<ct, acked>> /\ KeepRest

\* bye_resp_handler
Take_ByeDone(s) ==
    LET y == Deref([sess[s] EXCEPT !.req = "none"])
    IN  /\ s \in alive
        /\ Take(To(s, "byeDone"), {})
        /\ IF sess[s].req = "bye" THEN Becomes(s, y)
           ELSE UNCHANGED <<sess, cancel, strans>>
        /\ UNCHANGED <<ct, acked>> /\ KeepRest

-----------------------------------------------------------------------------
(* Time.  In a prompt network the timers go off when nothing is under way.   *)

Overdue == prompt => net = {}

\* ctrans and strans send their request or refusal again, reply.c its answer.
Unanswered(s) ==
    IF s = "caller"
    THEN (IF ct = "calling" THEN {To("callee", "invite")} ELSE {})
         \cup (IF cancel THEN {To("callee", "cancel")} ELSE {})
         \cup (IF sess[s].req = "bye" THEN {To("callee", "bye")} ELSE {})
    ELSE (IF sess[s].reply THEN {To("caller", "answered")} ELSE {})
         \cup (IF strans = "completed" THEN {To("caller", "refused")} ELSE {})
         \cup (IF sess[s].req = "bye" THEN {To("caller", "bye")} ELSE {})

Retransmit(s) ==
    /\ s \in alive /\ Overdue
    /\ \E m \in Unanswered(s) : Send({m})
    /\ UNCHANGED <<sess, ct, cancel, acked, strans>> /\ KeepRest

\* Mutant: CANCEL does not start the limit again that ringing stopped.
Invite_TimesOut_Silent ==
    LET x == sess["caller"]
        y == Done([x EXCEPT !.req = "none"])
    IN  /\ ct = "calling" /\ Overdue
        /\ ct' = "done"
        /\ Becomes("caller", y)
        /\ Send(Farewell("caller", x, y))
        /\ UNCHANGED acked /\ KeepRest

\* The INVITE is given up while nothing has been heard, or after a CANCEL;
\* one that rings may ring for ever.
Invite_TimesOut ==
    LET x == sess["caller"]
        y == Done([x EXCEPT !.req = "none"])
    IN  /\ ct = "calling" \/ (ct = "proceeding" /\ x.term > 0)
        /\ Overdue
        /\ ct' = "done"
        /\ Becomes("caller", y)
        /\ Send(Farewell("caller", x, y))
        /\ UNCHANGED acked /\ KeepRest

Cancel_TimesOut ==
    /\ cancel /\ Overdue
    /\ cancel' = FALSE
    /\ UNCHANGED <<sess, ct, acked, strans, net>> /\ KeepRest

Bye_TimesOut(s) ==
    LET y == Deref([sess[s] EXCEPT !.req = "none"])
    IN  /\ sess[s].req = "bye" /\ Overdue
        /\ Becomes(s, y)
        /\ UNCHANGED <<ct, acked, net>> /\ KeepRest

\* tmr_handler of reply.c: no ACK came, and the peer may think it is up.
Answer_TimesOut ==
    LET x == sess["callee"]
        y == Done([x EXCEPT !.reply = FALSE, !.estab = TRUE])
    IN  /\ x.reply /\ Overdue
        /\ Becomes("callee", y)
        /\ Send(Farewell("callee", x, y))
        /\ UNCHANGED <<ct, acked>> /\ KeepRest

\* A datagram is lost, or reaches a stack that is closed.
Lose ==
    /\ \E m \in net : /\ prompt => m.to \notin alive
                      /\ net' = net \ {m}
    /\ UNCHANGED <<sess, ct, cancel, acked, strans>> /\ KeepRest

-----------------------------------------------------------------------------
Arrival == \/ Take_Invite \/ Take_Cancel \/ Take_Ack \/ Take_AckRefused
           \/ Take_Ringing \/ Take_Answered \/ Take_Refused \/ Take_CancelDone
           \/ \E s \in Side : Take_Bye(s) \/ Take_ByeDone(s)

TimeLimit == \/ Invite_TimesOut \/ Cancel_TimesOut \/ Answer_TimesOut
             \/ \E s \in Side : Bye_TimesOut(s)

Next == \/ Connect \/ Answer \/ Caller_HangUp \/ Callee_HangUp
        \/ Callee_RingLimit
        \/ Arrival \/ TimeLimit \/ Lose
        \/ \E s \in Side : Stop(s) \/ Retransmit(s)

\* Every timer goes off in the end, however often the request is repeated.
\* A network that is in order delivers; of any other nothing is assumed.
Fairness ==
    /\ WF_vars(Callee_RingLimit)
    /\ SF_vars(Invite_TimesOut) /\ SF_vars(Answer_TimesOut)
    /\ \A s \in Side : SF_vars(Bye_TimesOut(s))
    /\ WF_vars(prompt /\ (Arrival \/ Lose))

Spec == Init /\ [][Next]_vars /\ Fairness

-----------------------------------------------------------------------------
SessTypeOK ==
    /\ sess \in [Side -> Session]
    /\ alive \subseteq Side
    /\ ct \in {"none", "calling", "proceeding", "completed", "done"}
    /\ strans \in {"none", "proceeding", "accepted", "completed", "confirmed"}
    /\ cancel \in BOOLEAN /\ acked \in BOOLEAN /\ prompt \in BOOLEAN
    /\ net \subseteq Datagram

(* The references of a session are those that somebody will drop: the call   *)
(* object's while it is wanted, then one for each answer it waits for.  One   *)
(* too few is a session used after it is freed, one too many a leak.          *)
RefsAreExact ==
    \A s \in Side :
        sess[s].refs = (IF sess[s].owner THEN 1 ELSE 0)
                       + (IF sess[s].term > 0 THEN Waits(sess[s]) ELSE 0)

(* No timer, transaction or call object is left with a freed session: each    *)
(* of them would call its handlers.                                          *)
FreedIsQuiet ==
    \A s \in Side :
        sess[s].mem = "freed" <=>
            sess[s].mem # "none" /\ sess[s].refs = 0 /\ ~sess[s].owner
            /\ Waits(sess[s]) = 0 /\ ~sess[s].st

Up(s) == sess[s].owner /\ sess[s].estab
Quiet == /\ net = {} /\ ~cancel
         /\ \A s \in Side : Waits(sess[s]) = 0

(* In a network that is in order nobody is left talking to nobody: when all   *)
(* requests have had their answer, the call is up on both sides or on none,   *)
(* whatever crossed on the way: an answer and a CANCEL, two BYEs, a stop.      *)
(* The one way to lose a peer is to stop the callee's stack between its       *)
(* answer and the ACK: the call is not established yet, so no BYE is sent.     *)
NoOrphanCall ==
    prompt /\ Quiet /\ ("callee" \in alive \/ sess["callee"].estab)
        => (Up("caller") <=> Up("callee"))

(* A session that its call has released is freed, in any network: every       *)
(* answer it waits for comes or is given up.                                  *)
ReleasedIsFreed ==
    \A s \in Side :
        (sess[s].mem = "live" /\ ~sess[s].owner) ~> (sess[s].mem = "freed")

(* In a network that is in order an outgoing call does not ring for ever,     *)
(* although the caller itself sets no limit once it has heard the ringing.     *)
RingingEnds ==
    (prompt /\ sess["caller"].owner) ~> (Up("caller") \/ ~sess["caller"].owner)

=============================================================================
