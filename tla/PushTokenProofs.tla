--------------------------- MODULE PushTokenProofs ---------------------------
(* Two facts about the push token, proved for any number of tokens, senders,  *)
(* attempts and devices: what the application remembers as sent, the server   *)
(* has accepted; and, for senders that do not overlap, the current token it   *)
(* remembers is the one the server has.                                       *)
(* RememberedWasAccepted says nothing of what is still under way.  The        *)
(* inductive invariant AcceptedInv follows the key from the sender through    *)
(* its request and the answer to the sender again.  CurrentInv adds that the  *)
(* one active sender sends the current token, that only the attempt it waits  *)
(* for has something under way, and that a success is about the record the    *)
(* server still has.                                                          *)
EXTENDS PushToken, TLAPS

Shape ==
    /\ token \in Nat /\ senders \in Nat
    /\ stage \in [Sender -> Stage] /\ sends \in [Sender -> Nat]
    /\ key \in [Sender -> (Device \X Nat) \cup {NoKey}]

TheDevice == CHOOSE d \in Device : TRUE
SentKey(s) == <<TheDevice, sends[s]>>

\* What is under way belongs to a sender that was launched, so no later launch
\* changes the token behind it.
Launched ==
    /\ \A s \in Sender : s > senders => stage[s] = "none"
    /\ \A m \in requests \cup replies : m.by \in Sender /\ m.by <= senders

\* A sender past its check has the key of its token,
KeysAgree ==
    /\ \A s \in Sender :
         stage[s] \in {"try", "asked", "accepted", "delay"} => key[s] = SentKey(s)
    /\ \A m \in requests : m.key = SentKey(m.by)

\* and a success, on its way or received, is about a key the server has accepted.
SuccessIsTrue ==
    /\ \A m \in replies : m.success => SentKey(m.by) \in accepted
    /\ \A s \in Sender : stage[s] = "accepted" => SentKey(s) \in accepted

AcceptedInv ==
    /\ Shape /\ Launched
    /\ stable => KeysAgree /\ SuccessIsTrue /\ RememberedWasAccepted

(* One id, if the device id is stable.                                       *)
LEMMA OneId == stable => Ids = {TheDevice}
  BY DEF Ids, TheDevice

(* Nothing has been sent at the start.                                       *)
LEMMA AcceptedInit == TokenInit => AcceptedInv
  BY TokenAssumption
  DEF TokenInit, AcceptedInv, Shape, Launched, KeysAgree, SuccessIsTrue,
      RememberedWasAccepted, Stage, Sender

(* A launch concerns no sender that was launched before.                     *)
LEMMA LaunchKeeps ==
    ASSUME AcceptedInv, NEW t \in Nat, Launch(t), token' \in Nat
    PROVE  AcceptedInv'
<1>1. /\ senders \in Nat /\ senders' = senders + 1 /\ senders' \in Sender
      /\ stage' = [stage EXCEPT ![senders'] = "check"]
      /\ sends' = [sends EXCEPT ![senders'] = t]
      /\ UNCHANGED <<stable, key, requests, replies, remembered, accepted>>
  BY TokenAssumption
  DEF AcceptedInv, Shape, Launch, choiceVars, netVars, serverVars, Sender
<1>2. Shape'
  BY <1>1 DEF AcceptedInv, Shape, Stage
<1>3. Launched'
  BY <1>1 DEF AcceptedInv, Shape, Launched, Sender
<1>4. \A s \in Sender : s # senders' => SentKey(s)' = SentKey(s) /\ stage'[s] = stage[s]
  BY <1>1 DEF AcceptedInv, Shape, SentKey
<1>5. \A m \in requests \cup replies : m.by \in Sender /\ m.by # senders'
  BY <1>1 DEF AcceptedInv, Launched, Sender
<1>6. stage'[senders'] = "check"
  BY <1>1 DEF AcceptedInv, Shape
<1>7. ASSUME stable PROVE KeysAgree'
  <2>1. ASSUME NEW s \in Sender,
               stage'[s] \in {"try", "asked", "accepted", "delay"}
        PROVE  key'[s] = SentKey(s)'
    BY <1>1, <1>4, <1>6, <1>7, <2>1 DEF AcceptedInv, KeysAgree
  <2>2. ASSUME NEW m \in requests PROVE m.key = SentKey(m.by)'
    BY <1>4, <1>5, <1>7 DEF AcceptedInv, KeysAgree
  <2>. QED BY <1>1, <2>1, <2>2 DEF KeysAgree
<1>8. ASSUME stable PROVE SuccessIsTrue'
  BY <1>1, <1>4, <1>5, <1>6, <1>8 DEF AcceptedInv, SuccessIsTrue
<1>9. ASSUME stable PROVE RememberedWasAccepted'
  BY <1>1, <1>9 DEF AcceptedInv, RememberedWasAccepted
<1>. QED BY <1>1, <1>2, <1>3, <1>7, <1>8, <1>9 DEF AcceptedInv

(* A sender that moves on, without success, and may drop what is under way.  *)
LEMMA MoveKeeps ==
    ASSUME AcceptedInv, NEW s \in Sender, NEW from, NEW to \in Stage,
           Moves(s, from, to), from # "none",
           from \in {"try", "asked", "accepted", "delay"},
           to \in {"accepted", "try", "asked", "delay", "done"},
           to = "accepted" /\ stable => SentKey(s) \in accepted,
           UNCHANGED <<stable, token, senders, sends, key, accepted>>,
           \A m \in requests' : m \in requests \/ (m.by = s /\ (stable => m.key = SentKey(s))),
           replies' \subseteq replies,
           remembered' = remembered \/ (remembered' = key[s] /\ from = "accepted")
    PROVE  AcceptedInv'
<1>1. /\ stage[s] = from /\ s <= senders
      /\ stage' = [stage EXCEPT ![s] = to]
  BY DEF Moves, AcceptedInv, Launched, Shape, Sender
<1>2. Shape'
  BY <1>1 DEF AcceptedInv, Shape
<1>3. Launched'
  BY <1>1 DEF AcceptedInv, Launched, Shape
<1>4. \A u \in Sender : SentKey(u)' = SentKey(u)
                        /\ (u # s => stage'[u] = stage[u]) /\ stage'[s] = to
  BY <1>1 DEF SentKey, AcceptedInv, Shape
<1>5. ASSUME stable PROVE KeysAgree'
  <2>1. key[s] = SentKey(s)
    BY <1>1, <1>5 DEF AcceptedInv, KeysAgree
  <2>. QED BY <2>1, <1>4, <1>5, <1>3 DEF AcceptedInv, KeysAgree, Launched
<1>6. ASSUME stable PROVE SuccessIsTrue'
  BY <1>4, <1>6, <1>3 DEF AcceptedInv, SuccessIsTrue, Launched
<1>7. ASSUME stable PROVE RememberedWasAccepted'
  <2>1. from = "accepted" => key[s] \in accepted
    BY <1>1, <1>7 DEF AcceptedInv, KeysAgree, SuccessIsTrue
  <2>. QED BY <2>1, <1>7 DEF AcceptedInv, RememberedWasAccepted
<1>. QED BY <1>2, <1>3, <1>5, <1>6, <1>7 DEF AcceptedInv

(* Every step keeps the invariant.                                           *)
LEMMA AcceptedStep == AcceptedInv /\ [TokenNext]_tokenVars => AcceptedInv'
<1> SUFFICES ASSUME AcceptedInv, [TokenNext]_tokenVars PROVE AcceptedInv'
  OBVIOUS
<1>. USE DEF choiceVars, senderVars, netVars, serverVars
<1>1. CASE App_Starts
  BY <1>1, LaunchKeeps DEF App_Starts, AcceptedInv, Shape
<1>2. CASE App_NewToken
  <2>1. token' \in Nat /\ Launch(token')
    BY <1>2 DEF App_NewToken, AcceptedInv, Shape
  <2>. QED BY <2>1, LaunchKeeps
<1>3. CASE TokenRotates
  BY <1>3 DEF TokenRotates, AcceptedInv, Shape, Launched, KeysAgree, SuccessIsTrue,
              RememberedWasAccepted, SentKey
<1>4. ASSUME NEW s \in Sender, Sender_Check(s) PROVE AcceptedInv'
  <2>1. PICK d \in Ids : key' = [key EXCEPT ![s] = <<d, sends[s]>>]
    BY <1>4 DEF Sender_Check
  <2>2. PICK to \in {"done", "try"} : Moves(s, "check", to)
    BY <1>4 DEF Sender_Check
  <2>3. UNCHANGED <<stable, token, senders, sends, requests, replies, remembered,
                    accepted>>
    BY <1>4 DEF Sender_Check
  <2>4. d \in Device
    BY TokenAssumption DEF Ids
  <2>5. /\ stage[s] = "check" /\ s <= senders
        /\ stage' = [stage EXCEPT ![s] = to]
    BY <2>2 DEF Moves, AcceptedInv, Launched, Shape, Sender
  <2>6. Shape'
    BY <2>1, <2>3, <2>4, <2>5 DEF AcceptedInv, Shape, Stage
  <2>7. Launched'
    BY <2>3, <2>5 DEF AcceptedInv, Launched, Shape
  <2>8. \A u \in Sender : SentKey(u)' = SentKey(u)
    BY <2>3 DEF SentKey
  <2>9. \A u \in Sender \ {s} : stage'[u] = stage[u] /\ key'[u] = key[u]
    BY <2>1, <2>5 DEF AcceptedInv, Shape
  <2>10. stage'[s] # "accepted" /\ key'[s] = <<d, sends[s]>>
    BY <2>1, <2>5 DEF AcceptedInv, Shape
  <2>11. ASSUME stable PROVE KeysAgree'
    <3>1. d = TheDevice
      BY <2>11, OneId
    <3>. QED BY <3>1, <2>3, <2>7, <2>8, <2>9, <2>10, <2>11
             DEF AcceptedInv, KeysAgree, SentKey, Launched
  <2>12. ASSUME stable PROVE SuccessIsTrue'
    BY <2>3, <2>7, <2>8, <2>9, <2>10, <2>12 DEF AcceptedInv, SuccessIsTrue, Launched
  <2>13. ASSUME stable PROVE RememberedWasAccepted'
    BY <2>3, <2>13 DEF AcceptedInv, RememberedWasAccepted
  <2>. QED BY <2>3, <2>6, <2>7, <2>11, <2>12, <2>13 DEF AcceptedInv
<1>5. ASSUME NEW s \in Sender, Sender_Post(s) PROVE AcceptedInv'
  <2>1. PICK d \in Ids :
          requests' = requests \cup {[by |-> s, attempt |-> attempt'[s],
                                      key |-> <<d, sends[s]>>]}
    BY <1>5 DEF Sender_Post
  <2>2. stable => <<d, sends[s]>> = SentKey(s)
    BY OneId DEF SentKey
  <2>3. \A m \in requests' : m \in requests \/ (m.by = s /\ (stable => m.key = SentKey(s)))
    BY <2>1, <2>2
  <2>4. Moves(s, "try", "asked")
        /\ UNCHANGED <<stable, token, senders, sends, key, replies, remembered, accepted>>
    BY <1>5 DEF Sender_Post
  <2>. QED BY <2>3, <2>4, MoveKeeps DEF Stage
<1>6. ASSUME NEW s \in Sender, Sender_Reply(s) PROVE AcceptedInv'
  <2>1. PICK m \in replies :
          /\ Own(s, m) /\ replies' = replies \ {m}
          /\ Moves(s, "asked", IF m.success THEN "accepted" ELSE NextStage(s))
    BY <1>6 DEF Sender_Reply
  <2>2. UNCHANGED <<stable, token, senders, sends, key, requests, remembered, accepted>>
    BY <1>6 DEF Sender_Reply
  <2>3. m.success /\ stable => SentKey(s) \in accepted
    BY <2>1 DEF AcceptedInv, SuccessIsTrue, Own
  <2>4. NextStage(s) \in {"delay", "done"}
    BY DEF NextStage
  <2>5. CASE m.success
    BY <2>1, <2>2, <2>3, <2>5, MoveKeeps DEF Stage
  <2>6. CASE ~m.success
    BY <2>1, <2>2, <2>4, <2>6, MoveKeeps DEF Stage
  <2>. QED BY <2>5, <2>6
<1>7. ASSUME NEW s \in Sender, Sender_Throws(s) PROVE AcceptedInv'
  <2>1. NextStage(s) \in {"delay", "done"}
    BY DEF NextStage
  <2>2. requests' \subseteq requests /\ replies' \subseteq replies
    BY <1>7 DEF Sender_Throws, Forget
  <2>3. Moves(s, "asked", NextStage(s))
        /\ UNCHANGED <<stable, token, senders, sends, key, remembered, accepted>>
    BY <1>7 DEF Sender_Throws
  <2>. QED BY <2>1, <2>2, <2>3, MoveKeeps DEF Stage
<1>8. ASSUME NEW s \in Sender, Sender_Remember(s) PROVE AcceptedInv'
  BY <1>8, MoveKeeps DEF Sender_Remember, Stage
<1>9. ASSUME NEW s \in Sender, Sender_Retry(s) PROVE AcceptedInv'
  BY <1>9, MoveKeeps DEF Sender_Retry, Stage
<1>10. CASE Server_Accepts
  <2>1. PICK m \in requests :
          /\ requests' = requests \ {m}
          /\ accepted' = accepted \cup {m.key}
          /\ replies' = replies \cup {[by |-> m.by, attempt |-> m.attempt,
                                       success |-> TRUE]}
    BY <1>10 DEF Server_Accepts
  <2>2. UNCHANGED <<stable, token, senders, stage, sends, key, remembered>>
    BY <1>10 DEF Server_Accepts
  <2>3. \A n \in replies' : n \in replies \/ n.by = m.by
    BY <2>1
  <2>4. Shape' /\ Launched'
    BY <2>1, <2>2, <2>3 DEF AcceptedInv, Shape, Launched
  <2>5. \A u : SentKey(u)' = SentKey(u)
    BY <2>2 DEF SentKey
  <2>6. ASSUME stable PROVE KeysAgree'
    BY <2>1, <2>2, <2>5, <2>6 DEF AcceptedInv, KeysAgree
  <2>7. ASSUME stable PROVE SuccessIsTrue'
    <3>1. SentKey(m.by) \in accepted'
      BY <2>1, <2>7 DEF AcceptedInv, KeysAgree
    <3>. QED BY <3>1, <2>1, <2>2, <2>3, <2>5, <2>7 DEF AcceptedInv, SuccessIsTrue
  <2>8. ASSUME stable PROVE RememberedWasAccepted'
    BY <2>1, <2>2, <2>8 DEF AcceptedInv, RememberedWasAccepted
  <2>. QED BY <2>2, <2>4, <2>6, <2>7, <2>8 DEF AcceptedInv
<1>11. CASE Server_Refuses
  <2>1. PICK m \in requests :
          /\ requests' = requests \ {m}
          /\ replies' = replies \cup {[by |-> m.by, attempt |-> m.attempt,
                                       success |-> FALSE]}
    BY <1>11 DEF Server_Refuses
  <2>2. UNCHANGED <<stable, token, senders, stage, sends, key, remembered, accepted>>
    BY <1>11 DEF Server_Refuses
  <2>3. \A n \in replies' : n \in replies \/ (n.by = m.by /\ ~n.success)
    BY <2>1
  <2>4. Shape' /\ Launched'
    BY <2>1, <2>2, <2>3 DEF AcceptedInv, Shape, Launched
  <2>5. \A u : SentKey(u)' = SentKey(u)
    BY <2>2 DEF SentKey
  <2>. QED BY <2>1, <2>2, <2>3, <2>4, <2>5
       DEF AcceptedInv, KeysAgree, SuccessIsTrue, RememberedWasAccepted
<1>12. CASE Process_Killed
  <2>1. /\ stage' = [s \in Sender |-> IF stage[s] = "none" THEN "none" ELSE "done"]
        /\ requests' \subseteq requests /\ replies' = {}
        /\ UNCHANGED <<stable, token, senders, sends, key, remembered, accepted>>
    BY <1>12 DEF Process_Killed
  <2>2. Shape' /\ Launched'
    BY <2>1 DEF AcceptedInv, Shape, Launched, Stage
  <2>. QED BY <2>1, <2>2
       DEF AcceptedInv, KeysAgree, SuccessIsTrue, RememberedWasAccepted, SentKey
<1>13. CASE UNCHANGED tokenVars
  BY <1>13 DEF tokenVars, AcceptedInv, Shape, Launched, KeysAgree, SuccessIsTrue,
               RememberedWasAccepted, SentKey
<1>. QED
  BY <1>1, <1>2, <1>3, <1>4, <1>5, <1>6, <1>7, <1>8, <1>9, <1>10, <1>11, <1>12, <1>13
  DEF TokenNext, SenderRuns

(* What the application remembers as sent, the server has accepted, however  *)
(* many senders overlap, answers are lost and processes are killed.          *)
THEOREM NothingRememberedUnsent == TokenSpec => []RememberedWasAccepted
<1>1. AcceptedInv => RememberedWasAccepted
  BY DEF AcceptedInv, RememberedWasAccepted
<1>. QED BY <1>1, AcceptedInit, AcceptedStep, PTL DEF TokenSpec

-----------------------------------------------------------------------------
\* What the server knows, for the application that asks one sender at a time.
NetShape ==
    /\ record \in [Device -> Nat] /\ attempt \in [Sender -> Nat]
    /\ requests \subseteq [by : Sender, attempt : Nat, key : Device \X Nat]
    /\ replies \subseteq [by : Sender, attempt : Nat, success : BOOLEAN]

Active(s) == stage[s] \notin {"none", "done"}

\* One sender at a time, and it sends the current token.
OneActive ==
    /\ \A s, u \in Sender : Active(s) /\ Active(u) => s = u
    /\ \A s \in Sender : Active(s) => sends[s] = token

\* Only the attempt that waits has something under way: one request or one answer.
OnlyOwn ==
    /\ \A m \in requests \cup replies : stage[m.by] = "asked" /\ Own(m.by, m)
    /\ requests = {} \/ replies = {}
    /\ \A m, n \in requests : m = n
    /\ \A m, n \in replies : m = n

TheyKnow == record[TheDevice] = token

\* A success is about the current token, which the server still has.
SuccessIsCurrent ==
    /\ \A m \in replies : m.success => TheyKnow
    /\ \A s \in Sender : stage[s] = "accepted" => TheyKnow

\* What is remembered is of this device and no newer than the current token.
RememberedIsKnown ==
    remembered # NoKey => /\ remembered[1] = TheDevice
                          /\ remembered[2] \in Nat /\ remembered[2] <= token
                          /\ remembered[2] = token => TheyKnow

CurrentInv ==
    /\ NetShape
    /\ stable /\ calm => OneActive /\ OnlyOwn /\ SuccessIsCurrent /\ RememberedIsKnown

(* Nothing is under way at the start.                                        *)
LEMMA CurrentInit == TokenInit => CurrentInv
  BY DEF TokenInit, CurrentInv, NetShape, OneActive, OnlyOwn, SuccessIsCurrent,
         RememberedIsKnown, Active

(* While no sender runs nothing is under way, so the token may change.        *)
LEMMA NewTokenKeeps ==
    ASSUME CurrentInv, Shape, stable, calm, Idle, token' \in Nat, token' >= token,
           UNCHANGED <<requests, replies, remembered, record>>,
           \A s \in Sender : stage'[s] # "accepted"
    PROVE  OnlyOwn' /\ SuccessIsCurrent' /\ RememberedIsKnown'
<1>1. requests = {} /\ replies = {}
  <2>1. ASSUME NEW m \in requests \cup replies PROVE FALSE
    <3>1. stage[m.by] = "asked" /\ m.by \in Sender
      BY <2>1 DEF CurrentInv, OnlyOwn, NetShape, Own
    <3>. QED BY <3>1 DEF Idle
  <2>. QED BY <2>1
<1>2. RememberedIsKnown'
  BY DEF CurrentInv, RememberedIsKnown, TheyKnow, Shape
<1>. QED BY <1>1, <1>2 DEF OnlyOwn, SuccessIsCurrent

(* A launch: no sender runs, and the new one has the current token.           *)
LEMMA LaunchCurrent ==
    ASSUME AcceptedInv, CurrentInv, NEW t \in Nat, Launch(t), token' = t, token' >= token
    PROVE  CurrentInv'
<1>1. /\ senders' \in Sender
      /\ stage' = [stage EXCEPT ![senders'] = "check"]
      /\ sends' = [sends EXCEPT ![senders'] = t]
      /\ UNCHANGED <<stable, calm, attempt, requests, replies, remembered, record>>
  BY TokenAssumption
  DEF AcceptedInv, Shape, Launch, choiceVars, netVars, serverVars, Sender
<1>2. NetShape'
  BY <1>1 DEF CurrentInv, NetShape
<1>3. ASSUME stable, calm
      PROVE  OneActive' /\ OnlyOwn' /\ SuccessIsCurrent' /\ RememberedIsKnown'
  <2>1. Idle
    BY <1>3 DEF Launch
  <2>2. \A s \in Sender : /\ stage'[s] = IF s = senders' THEN "check" ELSE stage[s]
                          /\ sends'[s] = IF s = senders' THEN t ELSE sends[s]
    BY <1>1 DEF AcceptedInv, Shape
  <2>3. \A s \in Sender : s # senders' => stage'[s] \in {"none", "done"}
    BY <2>1, <2>2 DEF Idle
  <2>4. OneActive'
    BY <2>2, <2>3 DEF OneActive, Active
  <2>5. \A s \in Sender : stage'[s] # "accepted"
    BY <2>2, <2>3
  <2>. QED BY <1>1, <1>3, <2>1, <2>4, <2>5, NewTokenKeeps DEF AcceptedInv
<1>. QED BY <1>1, <1>2, <1>3 DEF CurrentInv

(* A step of a sender: it is the only one, it sends the current token, and    *)
(* nothing is under way unless it waits for an answer.                       *)
LEMMA OnlySender ==
    ASSUME AcceptedInv, CurrentInv, stable, calm, NEW s \in Sender, NEW from, NEW to,
           Moves(s, from, to), from \notin {"none", "done"}
    PROVE  /\ stage[s] = from /\ Active(s) /\ sends[s] = token
           /\ stage'[s] = to
           /\ \A u \in Sender : u # s =>
                stage[u] \in {"none", "done"} /\ stage'[u] = stage[u]
           /\ \A m \in requests \cup replies : m.by = s /\ Own(s, m) /\ from = "asked"
           /\ UNCHANGED <<token, sends>> => OneActive'
<1>1. stage[s] = from /\ stage' = [stage EXCEPT ![s] = to] /\ stage \in [Sender -> Stage]
  BY DEF Moves, AcceptedInv, Shape
<1>2. Active(s) /\ sends[s] = token
  BY <1>1 DEF CurrentInv, OneActive, Active
<1>3. stage'[s] = to /\ \A u \in Sender : u # s => stage'[u] = stage[u]
  BY <1>1
<1>4. \A u \in Sender : u # s => stage[u] \in {"none", "done"}
  BY <1>2 DEF CurrentInv, OneActive, Active
<1>5. ASSUME NEW m \in requests \cup replies PROVE m.by = s /\ Own(s, m) /\ from = "asked"
  <2>1. m.by \in Sender /\ stage[m.by] = "asked" /\ Own(m.by, m)
    BY DEF CurrentInv, NetShape, OnlyOwn
  <2>. QED BY <1>1, <1>4, <2>1
<1>6. ASSUME UNCHANGED <<token, sends>> PROVE OneActive'
  <2>1. \A u \in Sender : u # s => ~Active(u)'
    BY <1>3, <1>4 DEF Active
  <2>. QED BY <1>2, <1>6, <2>1 DEF OneActive
<1>. QED BY <1>1, <1>2, <1>3, <1>4, <1>5, <1>6

(* Nothing under way and no success: what is remembered decides alone.        *)
LEMMA NothingUnderWay ==
    ASSUME requests' = {}, replies' = {}
    PROVE  OnlyOwn' /\ ((\A s \in Sender : stage'[s] = "accepted" => TheyKnow')
                           => SuccessIsCurrent')
  BY DEF OnlyOwn, SuccessIsCurrent

(* A step of a sender, in the calm.                                          *)
LEMMA SenderCurrent ==
    ASSUME AcceptedInv, CurrentInv, NEW s \in Sender, SenderRuns(s)
    PROVE  CurrentInv'
<1>0. UNCHANGED <<stable, calm, token, sends, record>>
  BY DEF SenderRuns, Sender_Check, Sender_Post, Sender_Reply, Sender_Throws,
         Sender_Remember, Sender_Retry, choiceVars, serverVars
<1>1. NetShape'
  <2>1. CASE Sender_Post(s)
    <3>1. PICK d \in Ids :
            requests' = requests \cup {[by |-> s, attempt |-> attempt'[s],
                                        key |-> <<d, sends[s]>>]}
      BY <2>1 DEF Sender_Post
    <3>2. d \in Device /\ sends[s] \in Nat
      BY TokenAssumption DEF Ids, AcceptedInv, Shape
    <3>3. attempt' \in [Sender -> Nat]
      BY <2>1 DEF Sender_Post, CurrentInv, NetShape
    <3>. QED BY <1>0, <2>1, <3>1, <3>2, <3>3 DEF Sender_Post, CurrentInv, NetShape
  <2>2. CASE ~Sender_Post(s)
    <3>1. attempt' = attempt /\ requests' \subseteq requests /\ replies' \subseteq replies
      BY <2>2 DEF SenderRuns, Sender_Check, Sender_Reply, Sender_Throws, Sender_Remember,
                  Sender_Retry, Forget, netVars
    <3>. QED BY <1>0, <3>1 DEF CurrentInv, NetShape
  <2>. QED BY <2>1, <2>2
<1>2. ASSUME stable, calm
      PROVE  OneActive' /\ OnlyOwn' /\ SuccessIsCurrent' /\ RememberedIsKnown'
  <2>0. /\ OnlyOwn /\ SuccessIsCurrent /\ RememberedIsKnown /\ (TheyKnow' <=> TheyKnow)
        /\ NetShape
    BY <1>0, <1>2 DEF CurrentInv, TheyKnow
  <2>1. ASSUME remembered' = remembered PROVE RememberedIsKnown'
    BY <1>0, <2>0, <2>1 DEF RememberedIsKnown
  <2>2. CASE Sender_Check(s)
    <3>1. PICK to \in {"done", "try"} : Moves(s, "check", to)
      BY <2>2 DEF Sender_Check
    <3>2. OneActive' /\ requests = {} /\ replies = {}
      BY <1>0, <1>2, <3>1, OnlySender
    <3>3. \A u \in Sender : stage'[u] # "accepted"
      BY <1>2, <3>1, OnlySender
    <3>4. UNCHANGED <<requests, replies, remembered>>
      BY <2>2 DEF Sender_Check, netVars
    <3>. QED BY <2>1, <3>2, <3>3, <3>4, NothingUnderWay
  <2>3. CASE Sender_Post(s)
    <3>1. Moves(s, "try", "asked") /\ UNCHANGED <<replies, remembered>>
      BY <2>3 DEF Sender_Post
    <3>2. /\ OneActive' /\ requests = {} /\ replies = {} /\ stage'[s] = "asked"
          /\ \A u \in Sender : stage'[u] # "accepted"
      BY <1>0, <1>2, <3>1, OnlySender
    <3>3. PICK d \in Ids :
            requests' = requests \cup {[by |-> s, attempt |-> attempt'[s],
                                        key |-> <<d, sends[s]>>]}
      BY <2>3 DEF Sender_Post
    <3>4. OnlyOwn'
      BY <3>1, <3>2, <3>3 DEF OnlyOwn, Own
    <3>5. SuccessIsCurrent'
      BY <3>1, <3>2 DEF SuccessIsCurrent
    <3>. QED BY <2>1, <3>1, <3>2, <3>4, <3>5
  <2>4. CASE Sender_Reply(s)
    <3>1. PICK m \in replies :
            /\ Own(s, m) /\ replies' = replies \ {m}
            /\ Moves(s, "asked", IF m.success THEN "accepted" ELSE NextStage(s))
      BY <2>4 DEF Sender_Reply
    <3>2. UNCHANGED <<requests, remembered>>
      BY <2>4 DEF Sender_Reply
    <3>3. requests' = {} /\ replies' = {}
      BY <2>0, <3>1, <3>2 DEF OnlyOwn
    <3>4. /\ OneActive'
          /\ stage'[s] = IF m.success THEN "accepted" ELSE NextStage(s)
          /\ \A u \in Sender : u # s => stage'[u] \in {"none", "done"}
      BY <1>0, <1>2, <3>1, OnlySender
    <3>5. NextStage(s) # "accepted"
      BY DEF NextStage
    <3>6. m.success => TheyKnow'
      BY <2>0 DEF SuccessIsCurrent
    <3>7. \A u \in Sender : stage'[u] = "accepted" => TheyKnow'
      BY <3>4, <3>5, <3>6
    <3>. QED BY <2>1, <3>2, <3>3, <3>4, <3>7, NothingUnderWay
  <2>5. CASE Sender_Throws(s)
    <3>1. Moves(s, "asked", NextStage(s)) /\ UNCHANGED remembered
      BY <2>5 DEF Sender_Throws
    <3>2. \A m \in requests \cup replies : Own(s, m)
      BY <1>2, <3>1, OnlySender
    <3>3. requests' = {} /\ replies' = {}
      BY <1>2, <2>5, <3>2 DEF Sender_Throws, Forget
    <3>4. /\ OneActive' /\ stage'[s] = NextStage(s)
          /\ \A u \in Sender : u # s => stage'[u] \in {"none", "done"}
      BY <1>0, <1>2, <3>1, OnlySender
    <3>5. \A u \in Sender : stage'[u] # "accepted"
      BY <3>4 DEF NextStage
    <3>. QED BY <2>1, <3>1, <3>3, <3>4, <3>5, NothingUnderWay
  <2>6. CASE Sender_Remember(s)
    <3>1. /\ Moves(s, "accepted", "done") /\ remembered' = key[s]
          /\ UNCHANGED <<requests, replies>>
      BY <2>6 DEF Sender_Remember, netVars
    <3>2. /\ OneActive' /\ requests = {} /\ replies = {} /\ stage[s] = "accepted"
          /\ sends[s] = token
          /\ \A u \in Sender : stage'[u] # "accepted"
      BY <1>0, <1>2, <3>1, OnlySender
    <3>3. TheyKnow'
      BY <2>0, <3>2 DEF SuccessIsCurrent
    <3>4. key[s] = <<TheDevice, token>>
      BY <1>2, <3>2 DEF AcceptedInv, KeysAgree, SentKey
    <3>5. RememberedIsKnown'
      BY <1>0, <3>1, <3>3, <3>4 DEF RememberedIsKnown, AcceptedInv, Shape
    <3>. QED BY <3>1, <3>2, <3>5, NothingUnderWay
  <2>7. CASE Sender_Retry(s)
    <3>1. Moves(s, "delay", "try") /\ UNCHANGED <<requests, replies, remembered>>
      BY <2>7 DEF Sender_Retry, netVars
    <3>2. /\ OneActive' /\ requests = {} /\ replies = {}
          /\ \A u \in Sender : stage'[u] # "accepted"
      BY <1>0, <1>2, <3>1, OnlySender
    <3>. QED BY <2>1, <3>1, <3>2, NothingUnderWay
  <2>. QED BY <2>2, <2>3, <2>4, <2>5, <2>6, <2>7 DEF SenderRuns
<1>. QED BY <1>0, <1>1, <1>2 DEF CurrentInv

(* The server answers: what it accepts is the current token.                 *)
LEMMA ServerCurrent ==
    ASSUME AcceptedInv, CurrentInv, Server_Accepts \/ Server_Refuses
    PROVE  CurrentInv'
<1>1. PICK m \in requests, success \in BOOLEAN :
        /\ requests' = requests \ {m}
        /\ replies' = replies \cup {[by |-> m.by, attempt |-> m.attempt,
                                     success |-> success]}
        /\ IF success THEN record' = [record EXCEPT ![m.key[1]] = m.key[2]]
                      ELSE record' = record
  BY DEF Server_Accepts, Server_Refuses, serverVars
<1>2. UNCHANGED <<stable, calm, token, senders, stage, sends, key, attempt, remembered>>
  BY DEF Server_Accepts, Server_Refuses, choiceVars, senderVars
<1>3. m.by \in Sender /\ m.attempt \in Nat /\ m.key[1] \in Device /\ m.key[2] \in Nat
  BY DEF CurrentInv, NetShape
<1>4. NetShape'
  BY <1>1, <1>2, <1>3 DEF CurrentInv, NetShape
<1>5. ASSUME stable, calm
      PROVE  OneActive' /\ OnlyOwn' /\ SuccessIsCurrent' /\ RememberedIsKnown'
  <2>1. OneActive'
    BY <1>2, <1>5 DEF CurrentInv, OneActive, Active
  <2>2. OnlyOwn /\ SuccessIsCurrent /\ RememberedIsKnown /\ OneActive
    BY <1>5 DEF CurrentInv
  <2>3. requests' = {} /\ replies' = {[by |-> m.by, attempt |-> m.attempt,
                                       success |-> success]}
    BY <1>1, <2>2 DEF OnlyOwn
  <2>4. OnlyOwn'
    BY <1>2, <2>2, <2>3 DEF OnlyOwn, Own
  <2>5. stage[m.by] = "asked" /\ Active(m.by) /\ sends[m.by] = token
    BY <1>3, <2>2 DEF OnlyOwn, OneActive, Active
  <2>6. m.key = <<TheDevice, token>>
    BY <1>5, <2>5 DEF AcceptedInv, KeysAgree, SentKey
  <2>7. success => TheyKnow'
    BY <1>1, <1>2, <1>3, <2>6 DEF TheyKnow, CurrentInv, NetShape
  <2>8. TheyKnow => TheyKnow'
    BY <1>1, <1>2, <2>7 DEF TheyKnow
  <2>9. SuccessIsCurrent'
    BY <1>2, <2>2, <2>3, <2>7, <2>8 DEF SuccessIsCurrent
  <2>10. RememberedIsKnown'
    BY <1>2, <2>2, <2>8 DEF RememberedIsKnown
  <2>. QED BY <2>1, <2>4, <2>9, <2>10
<1>. QED BY <1>2, <1>4, <1>5 DEF CurrentInv

(* Every step, and none at all.                                              *)
LEMMA CurrentStep == AcceptedInv /\ CurrentInv /\ [TokenNext]_tokenVars => CurrentInv'
<1> SUFFICES ASSUME AcceptedInv, CurrentInv, [TokenNext]_tokenVars PROVE CurrentInv'
  OBVIOUS
<1>0. token \in Nat
  BY DEF AcceptedInv, Shape
<1>1. CASE App_Starts
  BY <1>0, <1>1, LaunchCurrent DEF App_Starts
<1>2. CASE App_NewToken
  <2>1. token' = token + 1 /\ Launch(token')
    BY <1>2 DEF App_NewToken
  <2>2. token' \in Nat /\ token' >= token
    BY <1>0, <2>1
  <2>. QED BY <2>1, <2>2, LaunchCurrent
<1>3. CASE TokenRotates
  <2>1. /\ Idle /\ token' = token + 1
        /\ UNCHANGED <<stable, calm, stage, sends, attempt, requests, replies, remembered,
                       record>>
    BY <1>3 DEF TokenRotates, choiceVars, senderVars, netVars, serverVars
  <2>2. NetShape'
    BY <2>1 DEF CurrentInv, NetShape
  <2>3. (\A s \in Sender : ~Active(s)') /\ \A s \in Sender : stage'[s] # "accepted"
    BY <2>1 DEF Idle, Active
  <2>4. OneActive'
    BY <2>3 DEF OneActive
  <2>5. stable /\ calm => OnlyOwn' /\ SuccessIsCurrent' /\ RememberedIsKnown'
    <3>1. token' \in Nat /\ token' >= token
      BY <1>0, <2>1
    <3>. QED BY <2>1, <2>3, <3>1, NewTokenKeeps DEF AcceptedInv
  <2>. QED BY <2>1, <2>2, <2>4, <2>5 DEF CurrentInv
<1>4. CASE \E s \in Sender : SenderRuns(s)
  BY <1>4, SenderCurrent
<1>5. CASE Server_Accepts \/ Server_Refuses
  BY <1>5, ServerCurrent
<1>6. CASE Process_Killed
  <2>1. /\ stage' = [s \in Sender |-> IF stage[s] = "none" THEN "none" ELSE "done"]
        /\ requests' = IF calm THEN {} ELSE requests
        /\ replies' = {}
        /\ UNCHANGED <<stable, calm, token, attempt, remembered, record>>
    BY <1>6 DEF Process_Killed, choiceVars, serverVars
  <2>2. NetShape'
    BY <2>1 DEF CurrentInv, NetShape
  <2>3. (\A s \in Sender : ~Active(s)') /\ \A s \in Sender : stage'[s] # "accepted"
    BY <2>1 DEF Active
  <2>4. OneActive'
    BY <2>3 DEF OneActive
  <2>5. RememberedIsKnown => RememberedIsKnown'
    BY <2>1 DEF RememberedIsKnown, TheyKnow
  <2>6. calm => OnlyOwn' /\ SuccessIsCurrent'
    BY <2>1, <2>3, NothingUnderWay
  <2>. QED BY <2>1, <2>2, <2>4, <2>5, <2>6 DEF CurrentInv
<1>7. CASE UNCHANGED tokenVars
  BY <1>7 DEF tokenVars, choiceVars, senderVars, netVars, serverVars, CurrentInv, NetShape,
              OneActive, OnlyOwn, SuccessIsCurrent, RememberedIsKnown, Active, TheyKnow, Own
<1>. QED BY <1>1, <1>2, <1>3, <1>4, <1>5, <1>6, <1>7 DEF TokenNext

(* If the application believes that the server knows its current token, the  *)
(* server does, as long as senders do not overlap and no request outlives    *)
(* its attempt: whatever is lost, refused, retried or killed.                *)
THEOREM CurrentTokenKnown == TokenSpec => []CurrentTokenIsKnown
<1>1. CurrentInv => CurrentTokenIsKnown
  BY DEF CurrentInv, CurrentTokenIsKnown, RememberedIsKnown, TheyKnow
<1>2. TokenInit => AcceptedInv /\ CurrentInv
  BY AcceptedInit, CurrentInit
<1>3. AcceptedInv /\ CurrentInv /\ [TokenNext]_tokenVars => (AcceptedInv /\ CurrentInv)'
  BY AcceptedStep, CurrentStep
<1>. QED BY <1>1, <1>2, <1>3, PTL DEF TokenSpec
-----------------------------------------------------------------------------
(* Types, and with them the limit of the attempts: a sender that will ask     *)
(* again has an attempt left, and one that has begun sends a token there is.  *)
Begun(s) == stage[s] # "none"

TokenInv ==
    /\ TokenTypeOK
    /\ \A s \in Sender : /\ s > senders => ~Begun(s)
                         /\ stage[s] \in {"none", "check"} => attempt[s] = 0
                         /\ stage[s] \in {"try", "delay"} => attempt[s] < MaxAttempts
                         /\ Begun(s) => sends[s] \in Token

\* Before the first token.
LEMMA TokenStarts == TokenInit => TokenInv
<1> SUFFICES ASSUME TokenInit PROVE TokenInv
  OBVIOUS
<1>. USE TokenAssumption DEF TokenInit
<1>1. token \in 0..MaxToken /\ senders \in 0..MaxSender
  OBVIOUS
<1>2. stage \in [Sender -> Stage] /\ sends \in [Sender -> 0..MaxToken]
  BY DEF Stage
<1>3. key \in [Sender -> Key \cup {NoKey}] /\ attempt \in [Sender -> 0..MaxAttempts]
  OBVIOUS
<1>4. record \in [Device -> 0..MaxToken] /\ remembered \in Key \cup {NoKey}
  OBVIOUS
<1>. QED BY <1>1, <1>2, <1>3, <1>4 DEF TokenInv, TokenTypeOK, Begun

\* A new sender: its number is free, its attempts are all left.
LEMMA LaunchTyped ==
    ASSUME TokenInv, NEW t \in Token, Launch(t), token' \in 0..MaxToken
    PROVE  TokenInv'
<1>1. /\ senders' = senders + 1 /\ senders' \in Sender /\ senders' \in 0..MaxSender
      /\ senders' > senders
  BY TokenAssumption DEF Launch, TokenInv, TokenTypeOK, Sender
<1>2. /\ stage' = [stage EXCEPT ![senders'] = "check"]
      /\ sends' = [sends EXCEPT ![senders'] = t]
      /\ UNCHANGED <<stable, calm, key, attempt, requests, replies, remembered, record,
                     accepted>>
  BY DEF Launch, choiceVars, netVars, serverVars
<1>3. TokenTypeOK'
  BY <1>1, <1>2 DEF TokenInv, TokenTypeOK, Stage, Token
<1>4. ASSUME NEW s \in Sender
      PROVE  /\ s > senders' => ~Begun(s)'
             /\ stage'[s] \in {"none", "check"} => attempt'[s] = 0
             /\ stage'[s] \in {"try", "delay"} => attempt'[s] < MaxAttempts
             /\ Begun(s)' => sends'[s] \in Token
  <2>1. CASE s = senders'
    BY <1>1, <1>2, <2>1 DEF TokenInv, TokenTypeOK, Begun
  <2>2. CASE s # senders'
    <3>1. s > senders' => s > senders
      BY <1>1 DEF TokenInv, TokenTypeOK, Sender
    <3>. QED BY <1>2, <2>2, <3>1 DEF TokenInv, TokenTypeOK, Begun
  <2>. QED BY <2>1, <2>2
<1>. QED BY <1>3, <1>4 DEF TokenInv

\* A sender goes on: it had begun, and keeps to its attempts.
LEMMA SenderTyped ==
    ASSUME TokenInv, NEW s \in Sender, NEW from \in Stage \ {"none"},
           NEW to \in Stage \ {"none", "check"}, Moves(s, from, to),
           UNCHANGED <<choiceVars, token, senders, sends, serverVars>>,
           key' \in [Sender -> Key \cup {NoKey}], requests' \subseteq Request,
           replies' \subseteq Reply, remembered' \in Key \cup {NoKey},
           attempt' \in [Sender -> 0..MaxAttempts],
           \A u \in Sender \ {s} : attempt'[u] = attempt[u],
           to \in {"try", "delay"} => attempt'[s] < MaxAttempts
    PROVE  TokenInv'
<1>1. stage[s] = from /\ stage' = [stage EXCEPT ![s] = to]
  BY DEF Moves
<1>2. TokenTypeOK'
  BY <1>1 DEF TokenInv, TokenTypeOK, choiceVars, serverVars
<1>3. ASSUME NEW u \in Sender
      PROVE  /\ u > senders' => ~Begun(u)'
             /\ stage'[u] \in {"none", "check"} => attempt'[u] = 0
             /\ stage'[u] \in {"try", "delay"} => attempt'[u] < MaxAttempts
             /\ Begun(u)' => sends'[u] \in Token
  <2>1. CASE u = s
    BY <1>1, <2>1 DEF TokenInv, TokenTypeOK, Begun
  <2>2. CASE u # s
    BY <1>1, <2>2 DEF TokenInv, TokenTypeOK, Begun
  <2>. QED BY <2>1, <2>2
<1>. QED BY <1>2, <1>3 DEF TokenInv

\* Every step of a sender keeps to its attempts and its token.
LEMMA RunsTyped == ASSUME TokenInv, NEW s \in Sender, SenderRuns(s) PROVE TokenInv'
<1>. USE DEF netVars, Stage
<1>1. CASE Sender_Check(s)
  <2>1. PICK d \in Ids : key' = [key EXCEPT ![s] = <<d, sends[s]>>]
    BY <1>1 DEF Sender_Check
  <2>2. PICK to \in {"done", "try"} : Moves(s, "check", to)
    BY <1>1 DEF Sender_Check
  <2>3. <<d, sends[s]>> \in Key
    BY <2>2, TokenAssumption DEF Ids, Moves, TokenInv, Begun, Key
  <2>4. key' \in [Sender -> Key \cup {NoKey}]
    BY <2>1, <2>3 DEF TokenInv, TokenTypeOK
  <2>5. attempt[s] = 0
    BY <2>2 DEF Moves, TokenInv
  <2>. QED BY <1>1, <2>2, <2>4, <2>5, TokenAssumption, SenderTyped
           DEF Sender_Check, TokenInv, TokenTypeOK
<1>2. CASE Sender_Post(s)
  <2>1. PICK d \in Ids :
          requests' = requests \cup {[by |-> s, attempt |-> attempt'[s],
                                      key |-> <<d, sends[s]>>]}
    BY <1>2 DEF Sender_Post
  <2>2. /\ Moves(s, "try", "asked") /\ attempt' = [attempt EXCEPT ![s] = @ + 1]
        /\ UNCHANGED <<choiceVars, token, senders, sends, key, replies, remembered, serverVars>>
    BY <1>2 DEF Sender_Post
  <2>3. <<d, sends[s]>> \in Key
    BY <2>2, TokenAssumption DEF Ids, Moves, TokenInv, Begun, Key
  <2>4. attempt[s] \in 0..MaxAttempts /\ attempt[s] < MaxAttempts
    BY <2>2 DEF Moves, TokenInv, TokenTypeOK
  <2>5. attempt[s] + 1 \in 1..MaxAttempts
    BY <2>4, TokenAssumption
  <2>6. attempt' \in [Sender -> 0..MaxAttempts] /\ attempt'[s] = attempt[s] + 1
    BY <2>2, <2>5 DEF TokenInv, TokenTypeOK
  <2>7. requests' \subseteq Request
    BY <2>1, <2>3, <2>5, <2>6 DEF TokenInv, TokenTypeOK, Request
  <2>. QED BY <2>2, <2>6, <2>7, SenderTyped DEF TokenInv, TokenTypeOK
<1>3. attempt[s] \in 0..MaxAttempts /\ NextStage(s) \in {"delay", "done"}
      /\ (NextStage(s) = "delay" => attempt[s] < MaxAttempts)
  BY DEF NextStage, TokenInv, TokenTypeOK
<1>4. CASE Sender_Reply(s)
  <2>1. PICK m \in replies :
          Moves(s, "asked", IF m.success THEN "accepted" ELSE NextStage(s))
    BY <1>4 DEF Sender_Reply
  <2>2. replies' \subseteq Reply
    BY <1>4 DEF Sender_Reply, TokenInv, TokenTypeOK
  <2>. QED BY <1>3, <1>4, <2>1, <2>2, SenderTyped DEF Sender_Reply, TokenInv, TokenTypeOK
<1>5. CASE Sender_Throws(s)
  <2>1. requests' \subseteq Request /\ replies' \subseteq Reply
    BY <1>5 DEF Sender_Throws, Forget, TokenInv, TokenTypeOK
  <2>. QED BY <1>3, <1>5, <2>1, SenderTyped DEF Sender_Throws, TokenInv, TokenTypeOK
<1>6. CASE Sender_Remember(s)
  BY <1>6, SenderTyped DEF Sender_Remember, TokenInv, TokenTypeOK
<1>7. CASE Sender_Retry(s)
  <2>1. attempt[s] < MaxAttempts
    BY <1>7 DEF Sender_Retry, Moves, TokenInv
  <2>. QED BY <1>7, <2>1, SenderTyped DEF Sender_Retry, TokenInv, TokenTypeOK
<1>. QED BY <1>1, <1>2, <1>4, <1>5, <1>6, <1>7 DEF SenderRuns

\* And so does every step of the others.
LEMMA TokenKept == TokenInv /\ [TokenNext]_tokenVars => TokenInv'
<1> SUFFICES ASSUME TokenInv, [TokenNext]_tokenVars PROVE TokenInv'
  OBVIOUS
<1>. USE DEF choiceVars, senderVars, netVars, serverVars
<1>1. CASE App_Starts
  <2>1. token \in Token /\ token' = token /\ Launch(token)
    BY <1>1, TokenAssumption DEF App_Starts, TokenInv, TokenTypeOK, Token
  <2>. QED BY <2>1, LaunchTyped DEF TokenInv, TokenTypeOK
<1>2. CASE App_NewToken
  <2>1. token' \in Token /\ token' \in 0..MaxToken /\ Launch(token')
    BY <1>2, TokenAssumption DEF App_NewToken, TokenInv, TokenTypeOK, Token
  <2>. QED BY <2>1, LaunchTyped
<1>3. CASE TokenRotates
  <2>1. token' \in 0..MaxToken
    BY <1>3, TokenAssumption DEF TokenRotates, TokenInv, TokenTypeOK
  <2>. QED BY <1>3, <2>1 DEF TokenRotates, TokenInv, TokenTypeOK, Begun
<1>4. ASSUME NEW m \in requests PROVE m \in Request /\ m.by \in Sender
             /\ m.attempt \in 1..MaxAttempts /\ m.key \in Key
             /\ m.key[1] \in Device /\ m.key[2] \in 0..MaxToken
  BY DEF TokenInv, TokenTypeOK, Request, Key, Token
<1>5. CASE Server_Accepts
  <2>1. PICK m \in requests :
          /\ requests' = requests \ {m}
          /\ record' = [record EXCEPT ![m.key[1]] = m.key[2]]
          /\ accepted' = accepted \cup {m.key}
          /\ replies' = replies \cup {[by |-> m.by, attempt |-> m.attempt, success |-> TRUE]}
    BY <1>5 DEF Server_Accepts
  <2>2. [by |-> m.by, attempt |-> m.attempt, success |-> TRUE] \in Reply
    BY <1>4, <2>1 DEF Reply
  <2>3. requests' \subseteq Request /\ replies' \subseteq Reply
    BY <2>1, <2>2 DEF TokenInv, TokenTypeOK
  <2>4. record' \in [Device -> 0..MaxToken] /\ accepted' \subseteq Key
    BY <1>4, <2>1 DEF TokenInv, TokenTypeOK
  <2>. QED BY <1>5, <2>3, <2>4 DEF Server_Accepts, TokenInv, TokenTypeOK, Begun
<1>6. CASE Server_Refuses
  <2>1. PICK m \in requests :
          /\ requests' = requests \ {m}
          /\ replies' = replies \cup {[by |-> m.by, attempt |-> m.attempt, success |-> FALSE]}
    BY <1>6 DEF Server_Refuses
  <2>2. [by |-> m.by, attempt |-> m.attempt, success |-> FALSE] \in Reply
    BY <1>4, <2>1 DEF Reply
  <2>3. requests' \subseteq Request /\ replies' \subseteq Reply
    BY <2>1, <2>2 DEF TokenInv, TokenTypeOK
  <2>. QED BY <1>6, <2>3 DEF Server_Refuses, TokenInv, TokenTypeOK, Begun
<1>7. CASE Process_Killed
  <2>1. stage' \in [Sender -> Stage] /\ requests' \subseteq Request /\ replies' \subseteq Reply
    BY <1>7 DEF Process_Killed, TokenInv, TokenTypeOK, Stage
  <2>. QED BY <1>7, <2>1 DEF Process_Killed, TokenInv, TokenTypeOK, Begun
<1>8. CASE UNCHANGED tokenVars
  BY <1>8 DEF tokenVars, TokenInv, TokenTypeOK, Begun
<1>. QED BY <1>1, <1>2, <1>3, <1>5, <1>6, <1>7, <1>8, RunsTyped DEF TokenNext

(* The variables of the push token keep to their types: no sender asks more   *)
(* than MaxAttempts times, through failures, late answers and kills, and no   *)
(* token is sent, remembered or stored that the device never had.             *)
THEOREM TokenTyped == TokenSpec => []TokenTypeOK
<1>1. TokenInv => TokenTypeOK
  BY DEF TokenInv
<1>. QED BY <1>1, TokenStarts, TokenKept, PTL DEF TokenSpec

=============================================================================
