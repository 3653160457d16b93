-------------------------------- MODULE MCSip --------------------------------
(* Model checking of what runs under the core: one call on the wire, the      *)
(* registration of a User-Agent, and the jitter buffer of a stream.           *)
(* One behaviour is about one of them, chosen at the start.  The others stay  *)
(* as they begin, where none of their fair actions is enabled, so each of     *)
(* them satisfies its own fairness condition.                                 *)
EXTENDS SipSession, SipReg, JitterBuf, TLC

VARIABLE part     \* "session", "registration" or "stream"

Only(p, quiet) == part = p /\ UNCHANGED <<quiet, part>>

Anywhere == CHOOSE s \in Ssrc : TRUE

\* Those that are not the part need only one of their initial states.  The
\* numbers of two sources are never compared and sources are alike, so only
\* one of them begins anywhere.
SipInit ==
    /\ part \in {"session", "registration", "stream"}
    /\ Init /\ RegInit /\ JbufInit
    /\ part # "session" => prompt
    /\ part # "registration" => obliging
    /\ \A s \in Ssrc : first[s] = 0 \/ (s = Anywhere /\ part = "stream")

SipNext ==
    \/ Only("session", <<regVars, jbufVars>>) /\ Next
    \/ Only("registration", <<vars, jbufVars>>) /\ RegNext
    \/ Only("stream", <<vars, regVars>>) /\ JbufNext

SipSpec ==
    /\ SipInit
    /\ [][SipNext]_<<vars, regVars, jbufVars, part>>
    /\ Fairness /\ RegFairness

(* The variables of every part keep to their types.                          *)
SipTypes == SessTypeOK /\ RegTypeOK /\ JbufTypeOK

=============================================================================
