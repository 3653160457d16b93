------------------------------ MODULE PushToken ------------------------------
(***************************************************************************)
(* PushTokenSender: the push token is sent to the server until it has been   *)
(* accepted once, and the key "device:token" of the last accepted one is     *)
(* remembered across restarts.                                               *)
(*                                                                          *)
(* A sender is one call of sendCurrentTokenIfNeeded, a coroutine: App        *)
(* launches one when it starts and one for every new token, and nothing      *)
(* keeps two of them apart.  The request of an attempt that failed for the   *)
(* sender may still be on its way, and an accepted one may lose its answer.  *)
(***************************************************************************)
EXTENDS Naturals, FiniteSets

CONSTANTS
    Device,       \* answers of Installations.deviceId
    NoKey,        \* no key has been remembered
    MaxToken,     \* bound: tokens issued, 1..MaxToken in that order; 0 is none
    MaxSender,    \* bound: senders launched
    MaxAttempts   \* MAX_ATTEMPTS

ASSUME TokenAssumption ==
    /\ Device # {} /\ NoKey \notin Device \X (1..MaxToken)
    /\ MaxToken \in Nat /\ MaxSender \in Nat /\ MaxAttempts \in Nat \ {0}

VARIABLES
    stable,       \* deviceId answers the same every time: fixed at the start
    calm,         \* senders do not overlap, and no request outlives its attempt:
                  \* fixed at the start
    token,        \* the device's current token
    senders,      \* senders launched so far: numbers 1..senders
    stage,        \* where each sender is
    sends,        \* the token it sends
    key,          \* the key it will remember
    attempt,      \* its attempts so far
    requests,     \* requests on their way to the server
    replies,      \* answers on their way back: success or not
    remembered,   \* lastSentPushTokenKey, in persistent storage
    record,       \* the server's token of every device (0: none)
    accepted      \* what the server has accepted (history)

choiceVars == <<stable, calm>>
senderVars == <<senders, stage, sends, key, attempt>>
netVars == <<requests, replies>>
serverVars == <<record, accepted>>
tokenVars == <<choiceVars, token, senderVars, netVars, remembered, serverVars>>

Token == 1..MaxToken
Sender == 1..MaxSender
Stage == {"none", "check", "try", "asked", "accepted", "delay", "done"}
Key == Device \X Token
Request == [by : Sender, attempt : 1..MaxAttempts, key : Key]
Reply == [by : Sender, attempt : 1..MaxAttempts, success : BOOLEAN]

\* One device's id, if deviceId is stable.
Ids == IF stable THEN {CHOOSE d \in Device : TRUE} ELSE Device

TokenInit ==
    /\ stable \in BOOLEAN /\ calm \in BOOLEAN
    /\ token = 0
    /\ senders = 0
    /\ stage = [s \in Sender |-> "none"] /\ sends = [s \in Sender |-> 0]
    /\ key = [s \in Sender |-> NoKey] /\ attempt = [s \in Sender |-> 0]
    /\ requests = {} /\ replies = {}
    /\ remembered = NoKey
    /\ record = [d \in Device |-> 0] /\ accepted = {}

-----------------------------------------------------------------------------
(* App: LaunchedEffect(Unit) with getToken, and onNewToken.                  *)
Idle == \A s \in Sender : stage[s] \in {"none", "done"}

Launch(t) ==
    /\ senders < MaxSender
    /\ calm => Idle
    /\ senders' = senders + 1
    /\ stage' = [stage EXCEPT ![senders'] = "check"]
    /\ sends' = [sends EXCEPT ![senders'] = t]
    /\ UNCHANGED <<choiceVars, key, attempt, netVars, remembered, serverVars>>

App_Starts == token # 0 /\ Launch(token) /\ UNCHANGED token

App_NewToken == token < MaxToken /\ token' = token + 1 /\ Launch(token')

\* The token has changed while the application was not running.
TokenRotates ==
    /\ Idle /\ token < MaxToken
    /\ token' = token + 1
    /\ UNCHANGED <<choiceVars, senderVars, netVars, remembered, serverVars>>

-----------------------------------------------------------------------------
(* sendCurrentTokenIfNeeded, sender s.                                       *)
Moves(s, from, to) == stage[s] = from /\ stage' = [stage EXCEPT ![s] = to]

\* Mutant: the key is remembered before it is sent.
Sender_CheckAndStore(s) ==
    /\ \E d \in Ids : key' = [key EXCEPT ![s] = <<d, sends[s]>>]
    /\ Moves(s, "check", IF remembered = key'[s] THEN "done" ELSE "try")
    /\ remembered' = key'[s]
    /\ UNCHANGED <<choiceVars, token, senders, sends, attempt, netVars, serverVars>>

\* The key of this sender, and whether it has been remembered already.
Sender_Check(s) ==
    /\ \E d \in Ids : key' = [key EXCEPT ![s] = <<d, sends[s]>>]
    /\ Moves(s, "check", IF remembered = key'[s] THEN "done" ELSE "try")
    /\ UNCHANGED <<choiceVars, token, senders, sends, attempt, netVars, remembered,
                   serverVars>>

\* sendToken asks for the device id again.
Sender_Post(s) ==
    /\ Moves(s, "try", "asked")
    /\ attempt' = [attempt EXCEPT ![s] = @ + 1]
    /\ \E d \in Ids :
         requests' = requests \cup {[by |-> s, attempt |-> attempt'[s],
                                     key |-> <<d, sends[s]>>]}
    /\ UNCHANGED <<choiceVars, token, senders, sends, key, replies, remembered,
                   serverVars>>

Own(s, m) == m.by = s /\ m.attempt = attempt[s]

\* Mutant: one attempt too many.
NextStage_OnceMore(s) == IF attempt[s] <= MaxAttempts THEN "delay" ELSE "done"

\* After a failed attempt: try again later, or give up.
NextStage(s) == IF attempt[s] < MaxAttempts THEN "delay" ELSE "done"

\* Mutant: any answer of the server counts as success.
Sender_ReplyAny(s) ==
    /\ \E m \in replies :
         /\ Own(s, m)
         /\ replies' = replies \ {m}
         /\ Moves(s, "asked", "accepted")
    /\ UNCHANGED <<choiceVars, token, senders, sends, key, attempt, requests,
                   remembered, serverVars>>

Sender_Reply(s) ==
    /\ \E m \in replies :
         /\ Own(s, m)
         /\ replies' = replies \ {m}
         /\ Moves(s, "asked", IF m.success THEN "accepted" ELSE NextStage(s))
    /\ UNCHANGED <<choiceVars, token, senders, sends, key, attempt, requests,
                   remembered, serverVars>>

\* The request throws: refused, timed out, or its answer lost.  If calm it is
\* not on its way any more.
Forget(s, ms) == IF calm THEN {m \in ms : ~Own(s, m)} ELSE ms

Sender_Throws(s) ==
    /\ Moves(s, "asked", NextStage(s))
    /\ requests' = Forget(s, requests)
    /\ replies' = {m \in replies : ~Own(s, m)}
    /\ UNCHANGED <<choiceVars, token, senders, sends, key, attempt, remembered,
                   serverVars>>

Sender_Remember(s) ==
    /\ Moves(s, "accepted", "done")
    /\ remembered' = key[s]
    /\ UNCHANGED <<choiceVars, token, senders, sends, key, attempt, netVars,
                   serverVars>>

Sender_Retry(s) ==
    /\ Moves(s, "delay", "try")
    /\ UNCHANGED <<choiceVars, token, senders, sends, key, attempt, netVars,
                   remembered, serverVars>>

-----------------------------------------------------------------------------
(* The server, and the end of the process.                                   *)
Server_Accepts ==
    /\ \E m \in requests :
         /\ requests' = requests \ {m}
         /\ record' = [record EXCEPT ![m.key[1]] = m.key[2]]
         /\ accepted' = accepted \cup {m.key}
         /\ replies' = replies \cup {[by |-> m.by, attempt |-> m.attempt,
                                      success |-> TRUE]}
    /\ UNCHANGED <<choiceVars, token, senderVars, remembered>>

Server_Refuses ==
    /\ \E m \in requests :
         /\ requests' = requests \ {m}
         /\ replies' = replies \cup {[by |-> m.by, attempt |-> m.attempt,
                                      success |-> FALSE]}
    /\ UNCHANGED <<choiceVars, token, senderVars, remembered, serverVars>>

Process_Killed ==
    /\ ~Idle
    /\ stage' = [s \in Sender |-> IF stage[s] = "none" THEN "none" ELSE "done"]
    /\ requests' = IF calm THEN {} ELSE requests
    /\ replies' = {}
    /\ UNCHANGED <<choiceVars, token, senders, sends, key, attempt, remembered,
                   serverVars>>

-----------------------------------------------------------------------------
SenderRuns(s) ==
    \/ Sender_Check(s) \/ Sender_Post(s) \/ Sender_Reply(s) \/ Sender_Throws(s)
    \/ Sender_Remember(s) \/ Sender_Retry(s)

TokenNext ==
    \/ App_Starts \/ App_NewToken \/ TokenRotates
    \/ \E s \in Sender : SenderRuns(s)
    \/ Server_Accepts \/ Server_Refuses \/ Process_Killed

TokenSpec == TokenInit /\ [][TokenNext]_tokenVars

-----------------------------------------------------------------------------
TokenTypeOK ==
    /\ stable \in BOOLEAN /\ calm \in BOOLEAN
    /\ token \in 0..MaxToken /\ senders \in 0..MaxSender
    /\ stage \in [Sender -> Stage] /\ sends \in [Sender -> 0..MaxToken]
    /\ key \in [Sender -> Key \cup {NoKey}] /\ attempt \in [Sender -> 0..MaxAttempts]
    /\ requests \subseteq Request /\ replies \subseteq Reply
    /\ remembered \in Key \cup {NoKey}
    /\ record \in [Device -> 0..MaxToken] /\ accepted \subseteq Key

(* A remembered key, for which no sender will ever contact the server again, *)
(* is one the server has accepted: through lost answers, retries, kills and  *)
(* senders that overlap.  It takes an id that does not change between the    *)
(* two calls of deviceId, the one for the key and the one for the form.      *)
RememberedWasAccepted == stable /\ remembered # NoKey => remembered \in accepted

(* If the application believes that the server knows its current token, the  *)
(* server does: without this no push ever arrives, and no later start of the *)
(* application sends it again.  Two senders at once, or a request that comes *)
(* through after its sender has given it up, can leave an older token there. *)
CurrentTokenIsKnown ==
    stable /\ calm /\ remembered # NoKey /\ remembered[2] = token
        => record[remembered[1]] = token

=============================================================================
