------------------------------ MODULE AppProofs ------------------------------
(* The application's own state, proved for any number of callers, runs,       *)
(* attempts, files and pages:                                                *)
(*   - only one installation id is ever given (DeviceId),                    *)
(*   - the page shows the current number once it has answered (WebViewSync), *)
(*   - the page is told the truth about its files, once (BlobSave),          *)
(*   - no outcome of the simulated engine is lost (SimulatedSip), and only    *)
(*     the player in the field goes on playing (Ringback),                   *)
(*   - all of it holds in the application as it is checked (MCApp).          *)
(* None of the first three is inductive by itself; what each of them rests on *)
(* is the invariant above its lemmas (IdInv, SyncInv, SaveInv).              *)
EXTENDS MCApp, PushTokenProofs, SequenceTheorems, FiniteSetTheorems,
        WellFoundedInduction, TLAPS

-----------------------------------------------------------------------------
(* DeviceId.  IdIsStable counts what was given.  It is inductive together     *)
(* with where the given id is: on the disk, with nobody on the way to another.*)
Trusted == (platform = "android" \/ ~overlap) /\ ~faulty

IdShape ==
    /\ disk \in (1..MaxId) \cup {Absent, Empty}
    /\ made \in 0..MaxId
    /\ pc \in [Caller -> {"idle", "clear", "store"}]
    /\ fresh \in [Caller -> (1..MaxId) \cup {NoId}]
    /\ \A c \in Caller : pc[c] # "idle" => fresh[c] \in 1..MaxId

\* At most one caller is on its way to an id of its own.
Alone ==
    \A c, d \in Caller : pc[c] # "idle" /\ pc[d] # "idle" => c = d

\* An id that was given is the stored one, which every read will find.
GivenIsStored ==
    /\ given \subseteq {disk}
    /\ given # {} => /\ disk # Absent /\ (platform = "jvm" => disk # Empty)
                     /\ \A c \in Caller : pc[c] = "idle"
    /\ cached # NoId => cached \in given

IdInv == IdShape /\ (Trusted => Alone /\ GivenIsStored)

(* No id has been given at the start.                                        *)
LEMMA IdInvInit == IdInit => IdInv
  BY DeviceIdAssumption
  DEF IdInit, IdInv, IdShape, Alone, GivenIsStored

(* The values on the disk are none of the marks of memory.                   *)
LEMMA Marks ==
    /\ Absent # Empty /\ Absent # NoId /\ Empty # NoId
    /\ \A i \in 1..MaxId : i # Absent /\ i # Empty /\ i # NoId
<1> DEFINE S == {Absent, Empty, NoId}
<1>1. \A a, b : Cardinality({a, b}) <= 2
  <2> TAKE a, b
  <2>1. IsFiniteSet({b}) /\ Cardinality({b}) = 1
    BY FS_Singleton
  <2>2. Cardinality({b} \cup {a}) \in {1, 2}
    BY <2>1, FS_AddElement
  <2>3. {a, b} = {b} \cup {a}
    OBVIOUS
  <2>. QED BY <2>2, <2>3
<1>2. Cardinality(S) = 3
  BY DeviceIdAssumption
<1>a. \A a, b : S = {a, b} => FALSE
  <2>. HIDE DEF S
  <2>. QED BY <1>1, <1>2
<1>3. Absent # Empty
  <2>1. Absent = Empty => S = {Empty, NoId}
    OBVIOUS
  <2>. QED BY <2>1, <1>a
<1>4. Absent # NoId
  <2>1. Absent = NoId => S = {Empty, NoId}
    OBVIOUS
  <2>. QED BY <2>1, <1>a
<1>5. Empty # NoId
  <2>1. Empty = NoId => S = {Absent, NoId}
    OBVIOUS
  <2>. QED BY <2>1, <1>a
<1>. QED BY <1>3, <1>4, <1>5, DeviceIdAssumption

(* Every step keeps the invariant.                                           *)
LEMMA IdInvStep == IdInv /\ [IdNext]_idVars => IdInv'
<1> SUFFICES ASSUME IdInv, [IdNext]_idVars PROVE IdInv'
  OBVIOUS
<1>. USE Marks DEF idChoice
<1>1. CASE Id_Kill
  BY <1>1 DEF Id_Kill, IdInv, IdShape, Alone, GivenIsStored, Trusted
<1>2. ASSUME NEW c \in Caller, Id_Read(c) PROVE IdInv'
  <2>1. /\ pc[c] = "idle" /\ disk' = disk
        /\ UNCHANGED <<platform, overlap, faulty>>
        /\ Trusted => NobodyElse(c)
    BY <1>2 DEF Id_Read, MayEnter, Trusted
  <2>2. ASSUME NEW id, Return(c, id), made' = made,
               Trusted => id = disk \/ id \in given,
               Trusted /\ id = disk => disk \in Usable
        PROVE  IdInv'
    <3>1. IdShape'
      BY <2>1, <2>2 DEF Return, IdInv, IdShape
    <3>2. ASSUME Trusted PROVE Alone'
      BY <2>1, <2>2, <3>2 DEF Return, IdInv, IdShape, Alone, NobodyElse
    <3>3. ASSUME Trusted PROVE GivenIsStored'
      <4>1. id = disk \/ id \in given
        BY <2>2, <3>3
      <4>2. id = disk
        BY <4>1, <3>3 DEF IdInv, GivenIsStored
      <4>3. disk \in Usable /\ disk # NoId
        BY <2>2, <3>3, <4>2 DEF IdInv, IdShape
      <4>4. given' = given \cup {disk}
        BY <2>2, <4>2, <4>3 DEF Return
      <4>5. disk # Absent /\ (platform = "jvm" => disk # Empty)
        BY <4>3 DEF Usable
      <4>6. \A d \in Caller : pc'[d] = "idle"
        BY <2>1, <2>2, <3>3 DEF Return, NobodyElse, IdInv, IdShape
      <4>7. cached' # NoId => cached' \in given'
        BY <2>2, <3>3, <4>2, <4>4 DEF Return, IdInv, GivenIsStored
      <4>. QED BY <2>1, <3>3, <4>4, <4>5, <4>6, <4>7 DEF GivenIsStored, IdInv
    <3>. QED BY <2>1, <3>1, <3>2, <3>3 DEF IdInv, Trusted
  <2>3. CASE cached # NoId
    <3>1. Return(c, cached) /\ made' = made
      BY <1>2, <2>3 DEF Id_Read
    <3>2. Trusted => cached \in given
      BY <2>3 DEF IdInv, GivenIsStored
    <3>3. Trusted => disk \in Usable
      BY <3>2 DEF IdInv, GivenIsStored, Usable
    <3>. QED BY <3>1, <3>2, <3>3, <2>2
  <2>4. ASSUME NEW id \in Usable, Return(c, id), made' = made PROVE IdInv'
    <3>1. id = disk
      BY <2>4 DEF Usable
    <3>. QED BY <2>4, <3>1, <2>2
  <2>5. ASSUME Usable = {} \/ (faulty /\ platform = "ios"), MakeUp(c) PROVE IdInv'
    <3>1. made' \in 1..MaxId
      BY <2>5, DeviceIdAssumption DEF MakeUp, IdInv, IdShape
    <3>2. IdShape'
      BY <2>1, <2>5, <3>1 DEF MakeUp, IdInv, IdShape
    <3>3. ASSUME Trusted PROVE Alone' /\ GivenIsStored'
      <4>1. Usable = {}
        BY <2>5, <3>3 DEF Trusted
      <4>2. given = {} /\ cached = NoId
        BY <3>3, <4>1 DEF IdInv, GivenIsStored, Usable
      <4>3. Alone'
        BY <2>1, <2>5, <3>3 DEF MakeUp, IdInv, IdShape, Alone, NobodyElse
      <4>. QED BY <2>5, <4>2, <4>3 DEF MakeUp, GivenIsStored
    <3>. QED BY <2>1, <3>2, <3>3 DEF IdInv, Trusted
  <2>6. ASSUME faulty, Return(c, NoId), made' = made PROVE IdInv'
    BY <2>2, <2>6 DEF Trusted
  <2>. QED BY <1>2, <2>3, <2>4, <2>5, <2>6 DEF Id_Read
<1>3. ASSUME NEW c \in Caller, Id_Clear(c) PROVE IdInv'
  <2>1. /\ pc[c] = "clear" /\ disk' \in {Absent, Empty}
        /\ pc' = [pc EXCEPT ![c] = "store"]
        /\ UNCHANGED <<platform, overlap, faulty, made, cached, fresh, given>>
    BY <1>3 DEF Id_Clear
  <2>2. IdShape'
    BY <2>1 DEF IdInv, IdShape
  <2>3. ASSUME Trusted PROVE Alone' /\ GivenIsStored'
    <3>1. given = {} /\ cached = NoId
      BY <2>1, <2>3 DEF IdInv, GivenIsStored
    <3>2. Alone'
      BY <2>1, <2>3 DEF IdInv, IdShape, Alone
    <3>. QED BY <2>1, <3>1, <3>2 DEF GivenIsStored
  <2>. QED BY <2>1, <2>2, <2>3 DEF IdInv, Trusted
<1>4. ASSUME NEW c \in Caller, Id_Store(c) PROVE IdInv'
  <2>1. /\ pc[c] = "store" /\ disk' = fresh[c] /\ Return(c, fresh[c])
        /\ UNCHANGED <<platform, overlap, faulty, made>>
    BY <1>4 DEF Id_Store
  <2>2. fresh[c] \in 1..MaxId
    BY <2>1 DEF IdInv, IdShape
  <2>3. IdShape'
    BY <2>1, <2>2 DEF Return, IdInv, IdShape
  <2>4. ASSUME Trusted PROVE Alone' /\ GivenIsStored'
    <3>1. given = {} /\ cached = NoId
      BY <2>1, <2>4 DEF IdInv, GivenIsStored
    <3>2. given' = {disk'} /\ cached' \in {NoId, disk'}
      BY <2>1, <2>2, <3>1 DEF Return
    <3>3. \A d \in Caller : pc'[d] = "idle"
      BY <2>1, <2>4 DEF Return, IdInv, IdShape, Alone
    <3>4. disk' # Absent /\ disk' # Empty
      BY <2>1, <2>2
    <3>. QED BY <3>2, <3>3, <3>4 DEF Alone, GivenIsStored
  <2>. QED BY <2>1, <2>3, <2>4 DEF IdInv, Trusted
<1>5. ASSUME NEW c \in Caller, Id_StoreFails(c) PROVE IdInv'
  <2>1. IdShape'
    BY <1>5 DEF Id_StoreFails, Return, IdInv, IdShape
  <2>2. ~Trusted'
    BY <1>5 DEF Id_StoreFails, Trusted
  <2>. QED BY <2>1, <2>2 DEF IdInv
<1>6. CASE UNCHANGED idVars
  BY <1>6 DEF idVars, IdInv, IdShape, Alone, GivenIsStored, Trusted
<1>. QED BY <1>1, <1>2, <1>3, <1>4, <1>5, <1>6 DEF IdNext

(* One id at most is ever given, through kills at any step and restarts.     *)
THEOREM OneInstallationId == IdSpec => []IdIsStable
<1>1. IdInv => IdIsStable
  <2> SUFFICES ASSUME IdInv, Trusted PROVE Cardinality(given) <= 1
    BY DEF IdIsStable, Trusted
  <2>1. given = {} \/ given = {disk}
    BY DEF IdInv, GivenIsStored
  <2>2. Cardinality({}) = 0 /\ Cardinality({disk}) = 1
    BY FS_EmptySet, FS_Singleton
  <2>3. Cardinality(given) = 0 \/ Cardinality(given) = 1
    BY <2>1, <2>2
  <2>. QED BY <2>3
<1>. QED BY <1>1, IdInvInit, IdInvStep, PTL DEF IdSpec

-----------------------------------------------------------------------------
(* WebViewSync.  A run that was answered is the latest one, and the page runs *)
(* the scripts in the order of their runs.                                   *)
\* Only the latest run is under way, and everything sent or answered comes from
\* a run that was started.
LatestRuns ==
    /\ \A r \in Run : r # run => sync[r] \in Ended \cup {"none"}
    /\ \A a \in answers : a.run <= run
    /\ \A i \in 1..Len(scripts) : scripts[i].run <= run

\* The page gets the scripts of earlier runs first.
ScriptsInOrder ==
    \A i, j \in 1..Len(scripts) : i <= j => scripts[i].run <= scripts[j].run

\* The latest run was given a number, and its scripts carry it.
LatestCount ==
    /\ loaded => run > 0
    /\ run > 0 => count[run] \in Unread
    /\ \A i \in 1..Len(scripts) : scripts[i].run = run => scripts[i].count = count[run]

\* The page has run a script of the latest run.
Heard == \/ \E a \in answers : a.run = run /\ a.result = "ok"
         \/ run > 0 /\ sync[run] = "ok"

\* Then it shows the number, and no script of an earlier run is to come.
HeardIsShown ==
    loaded /\ Heard => /\ button = count[run]
                       /\ \A i \in 1..Len(scripts) : scripts[i].run = run

SyncInv == SyncTypeOK /\ LatestRuns /\ ScriptsInOrder /\ LatestCount /\ HeardIsShown

(* The runs that scripts and answers come from.                              *)
LEMMA RunsAreNumbers ==
    ASSUME SyncTypeOK
    PROVE  /\ run \in Nat
           /\ \A i \in 1..Len(scripts) : scripts[i] \in Script /\ scripts[i].run \in Nat
           /\ \A a \in answers : a.run \in Nat
<1>1. \A i \in 1..Len(scripts) : scripts[i] \in Script
  BY DEF SyncTypeOK
<1>2. \A m \in Script : m.run \in Nat
  BY DEF Script, Run
<1>3. \A a \in Answer : a.run \in Nat
  BY DEF Answer, Run
<1>. QED BY <1>1, <1>2, <1>3, SyncAssumption DEF SyncTypeOK

(* A queue without its first script.                                         *)
LEMMA FirstScript ==
    ASSUME SyncTypeOK, scripts # <<>>
    PROVE  /\ Head(scripts) \in Script /\ Head(scripts) = scripts[1]
           /\ 1 \in 1..Len(scripts)
           /\ Tail(scripts) \in Seq(Script) /\ Len(Tail(scripts)) = Len(scripts) - 1
           /\ \A i \in 1..Len(Tail(scripts)) :
                Tail(scripts)[i] = scripts[i + 1] /\ i + 1 \in 1..Len(scripts)
  BY DEF SyncTypeOK

(* A queue with one more script.                                             *)
LEMMA LastScript ==
    ASSUME SyncTypeOK, NEW new \in Script
    PROVE  /\ Append(scripts, new) \in Seq(Script)
           /\ Len(Append(scripts, new)) = Len(scripts) + 1
           /\ Append(scripts, new)[Len(scripts) + 1] = new
           /\ \A i \in 1..Len(scripts) : Append(scripts, new)[i] = scripts[i]
           /\ \A i \in 1..Len(scripts) + 1 : i \in 1..Len(scripts) \/ i = Len(scripts) + 1
  BY DEF SyncTypeOK

(* Before the first page.                                                    *)
LEMMA SyncStarts == SyncInit => SyncInv
<1> SUFFICES ASSUME SyncInit PROVE SyncInv
  OBVIOUS
<1>1. scripts = <<>> /\ Len(<<>>) = 0 /\ <<>> \in Seq(Script) /\ \A i \in 1..0 : FALSE
  BY DEF SyncInit
<1>2. SyncTypeOK
  <2>1. run \in 0..MaxRun /\ \A r \in Run : 0 \in 0..MaxTries
    BY SyncAssumption DEF SyncInit
  <2>2. sync \in [Run -> SyncState] /\ tries \in [Run -> 0..MaxTries]
    BY <2>1 DEF SyncInit, SyncState
  <2>. QED BY <1>1, <2>1, <2>2 DEF SyncInit, SyncTypeOK
<1>. QED BY <1>1, <1>2 DEF SyncInit, SyncInv, LatestRuns, ScriptsInOrder, LatestCount,
                           HeardIsShown

(* The next run begins: what is under way belongs to the ones before.         *)
LEMMA RestartKeeps ==
    ASSUME SyncInv, Restart, loaded' \in BOOLEAN, unread' \in Unread,
           UNCHANGED <<pageVars, tries, scripts, answers>>
    PROVE  SyncInv'
<1>0. /\ run \in Nat /\ run' = run + 1 /\ run' \in Run /\ count' = [count EXCEPT ![run'] = unread']
      /\ sync' = [Cancelled EXCEPT ![run'] = "loop"]
      /\ UNCHANGED <<hasFunction, button, tries, scripts, answers>>
  BY SyncAssumption DEF Restart, Run, pageVars, SyncInv, SyncTypeOK
<1>1. Cancelled \in [Run -> SyncState]
  BY DEF Cancelled, SyncInv, SyncTypeOK, SyncState
<1>2. SyncTypeOK'
  <2>1. sync' \in [Run -> SyncState] /\ count' \in [Run -> Unread \cup {NoButton}]
    BY <1>0, <1>1 DEF SyncInv, SyncTypeOK, SyncState
  <2>2. run' \in 0..MaxRun
    BY <1>0, SyncAssumption DEF Run
  <2>. QED BY <1>0, <2>1, <2>2 DEF SyncInv, SyncTypeOK
<1>3. LatestRuns'
  <2>1. ASSUME NEW r \in Run, r # run' PROVE sync'[r] \in Ended \cup {"none"}
    <3>1. sync'[r] = Cancelled[r]
      BY <1>0, <1>1, <2>1
    <3>. QED BY <3>1 DEF Cancelled, SyncInv, LatestRuns, Ended
  <2>2. \A i \in 1..Len(scripts) : scripts[i].run <= run'
    BY <1>0, RunsAreNumbers DEF SyncInv, LatestRuns
  <2>3. \A a \in answers : a.run <= run'
    BY <1>0, RunsAreNumbers DEF SyncInv, LatestRuns
  <2>. QED BY <1>0, <2>1, <2>2, <2>3 DEF LatestRuns
<1>4. ScriptsInOrder'
  BY <1>0 DEF SyncInv, ScriptsInOrder
<1>5. \A i \in 1..Len(scripts) : scripts[i].run # run'
  BY <1>0, RunsAreNumbers DEF SyncInv, LatestRuns
<1>6. LatestCount'
  BY <1>0, <1>5 DEF SyncInv, SyncTypeOK, LatestCount, Run
<1>7. ~Heard'
  <2>2. \A a \in answers : a.run # run'
    BY <1>0, RunsAreNumbers DEF SyncInv, LatestRuns
  <2>3. sync'[run'] = "loop"
    BY <1>0, <1>1
  <2>. QED BY <1>0, <2>2, <2>3 DEF Heard
<1>. QED BY <1>2, <1>3, <1>4, <1>6, <1>7 DEF SyncInv, HeardIsShown

(* The page runs a script.                                                   *)
LEMMA PageKeeps ==
    ASSUME SyncInv, NEW result \in {"ok", "missing", "error"}, PageRuns(result)
    PROVE  SyncInv'
<1> DEFINE first == Head(scripts)
<1> DEFINE new == [run |-> first.run, try |-> first.try, result |-> result]
<1>0. /\ scripts # <<>> /\ scripts' = Tail(scripts)
      /\ button' = IF result = "ok" THEN first.count ELSE button
      /\ answers' = answers \cup {new}
      /\ UNCHANGED <<unread, loaded, hasFunction, run, sync, count, tries>>
  BY DEF PageRuns
<1>1. /\ first \in Script /\ first = scripts[1] /\ 1 \in 1..Len(scripts)
      /\ scripts' \in Seq(Script) /\ Len(scripts') = Len(scripts) - 1
      /\ \A i \in 1..Len(scripts') : scripts'[i] = scripts[i + 1] /\ i + 1 \in 1..Len(scripts)
  BY <1>0, FirstScript DEF SyncInv
<1>2. new \in Answer /\ first.count \in Unread /\ first.run \in Run
  BY <1>1 DEF Script, Answer
<1> HIDE DEF first
<1>3. SyncTypeOK'
  <2>1. button' \in Unread \cup {NoButton}
    BY <1>0, <1>2 DEF SyncInv, SyncTypeOK
  <2>. QED BY <1>0, <1>1, <1>2, <2>1 DEF SyncInv, SyncTypeOK
<1>4. first.run <= run
  BY <1>1 DEF SyncInv, LatestRuns
<1>5. LatestRuns'
  <2>1. new.run = first.run
    OBVIOUS
  <2>. QED BY <1>0, <1>1, <1>4, <2>1 DEF SyncInv, LatestRuns
<1>6. ScriptsInOrder'
  BY <1>1 DEF SyncInv, ScriptsInOrder
<1>7. LatestCount'
  BY <1>0, <1>1 DEF SyncInv, LatestCount
<1>8. HeardIsShown'
  <2> SUFFICES ASSUME loaded, Heard'
               PROVE  button' = count[run] /\ \A i \in 1..Len(scripts') : scripts'[i].run = run
    BY <1>0 DEF HeardIsShown
  <2>1. CASE Heard
    <3>1. button = count[run] /\ \A i \in 1..Len(scripts) : scripts[i].run = run
      BY <2>1 DEF SyncInv, HeardIsShown
    <3>2. first.count = count[run]
      BY <1>1, <3>1 DEF SyncInv, LatestCount
    <3>. QED BY <1>0, <1>1, <3>1, <3>2
  <2>2. CASE ~Heard
    <3>1. first.run = run /\ result = "ok"
      BY <1>0, <2>2 DEF Heard
    <3>2. first.count = count[run]
      BY <1>1, <3>1 DEF SyncInv, LatestCount
    <3>3. ASSUME NEW i \in 1..Len(scripts') PROVE scripts'[i].run = run
      <4>1. i + 1 \in 1..Len(scripts) /\ scripts'[i] = scripts[i + 1] /\ 1 <= i + 1
        BY <1>1
      <4>2. scripts[1].run <= scripts[i + 1].run /\ scripts[i + 1].run <= run
        BY <1>1, <4>1 DEF SyncInv, ScriptsInOrder, LatestRuns
      <4>3. scripts[i + 1].run \in Nat /\ run \in Nat
        BY <4>1, RunsAreNumbers DEF SyncInv
      <4>. QED BY <1>1, <3>1, <4>1, <4>2, <4>3
    <3>. QED BY <1>0, <3>1, <3>2, <3>3
  <2>. QED BY <2>1, <2>2
<1>. QED BY <1>3, <1>5, <1>6, <1>7, <1>8 DEF SyncInv

(* A run moves on, without success and without a script.                     *)
LEMMA RunKeeps ==
    ASSUME SyncInv, NEW r \in Run, NEW to \in SyncState \ {"ok"}, sync[r] \notin Ended \cup {"none"},
           sync' = [sync EXCEPT ![r] = to], tries' \in [Run -> 0..MaxTries],
           UNCHANGED <<unread, loaded, pageVars, run, count, scripts>>,
           answers' \subseteq answers
    PROVE  SyncInv'
<1>0. r = run /\ UNCHANGED <<hasFunction, button>>
  BY DEF SyncInv, LatestRuns, pageVars
<1>1. SyncTypeOK'
  BY <1>0 DEF SyncInv, SyncTypeOK
<1>2. LatestRuns' /\ ScriptsInOrder' /\ LatestCount'
  BY <1>0 DEF SyncInv, SyncTypeOK, LatestRuns, ScriptsInOrder, LatestCount
<1>3. Heard' => Heard
  BY <1>0 DEF SyncInv, SyncTypeOK, Heard
<1>. QED BY <1>0, <1>1, <1>2, <1>3 DEF SyncInv, HeardIsShown

(* A run asks the page.                                                      *)
LEMMA AskKeeps ==
    ASSUME SyncInv, NEW r \in Run, Sync_Ask(r)
    PROVE  SyncInv'
<1>1. /\ sync[r] = "loop" /\ tries' = [tries EXCEPT ![r] = @ + 1] /\ tries[r] < MaxTries
      /\ UNCHANGED <<unread, loaded, pageVars, run, count, answers>>
  BY DEF Sync_Ask
<1>2. tries' \in [Run -> 0..MaxTries] /\ tries'[r] \in 1..MaxTries
  BY <1>1, SyncAssumption DEF SyncInv, SyncTypeOK
<1>3. r = run /\ run \in Run /\ sync[r] \notin Ended \cup {"none"}
  BY <1>1 DEF SyncInv, LatestRuns, Ended
<1>4. CASE sync' = [sync EXCEPT ![r] = "delay"] /\ UNCHANGED scripts
  BY <1>1, <1>2, <1>3, <1>4, RunKeeps DEF SyncState
<1>5. CASE /\ scripts' = Append(scripts, [run |-> r, try |-> tries'[r], count |-> count[r]])
           /\ sync' = [sync EXCEPT ![r] = "waiting"]
  <2> DEFINE new == [run |-> r, try |-> tries'[r], count |-> count[r]]
  <2>1. count[r] \in Unread
    BY <1>3, SyncAssumption DEF SyncInv, LatestCount, Run
  <2>2. new \in Script /\ new.run = run /\ new.count = count[run]
    BY <1>2, <1>3, <2>1 DEF Script
  <2> HIDE DEF new
  <2>3. /\ scripts' \in Seq(Script) /\ Len(scripts') = Len(scripts) + 1
        /\ scripts'[Len(scripts) + 1] = new
        /\ \A i \in 1..Len(scripts) : scripts'[i] = scripts[i]
        /\ \A i \in 1..Len(scripts') : i \in 1..Len(scripts) \/ i = Len(scripts) + 1
    BY <1>5, <2>2, LastScript DEF SyncInv, new
  <2>4. UNCHANGED <<hasFunction, button>>
    BY <1>1 DEF pageVars
  <2>5. SyncTypeOK'
    <3>1. sync' \in [Run -> SyncState]
      BY <1>5 DEF SyncInv, SyncTypeOK, SyncState
    <3>. QED BY <1>1, <1>2, <2>3, <2>4, <3>1 DEF SyncInv, SyncTypeOK
  <2>6. LatestRuns'
    <3>1. \A u \in Run : u # run => sync'[u] = sync[u]
      BY <1>3, <1>5 DEF SyncInv, SyncTypeOK
    <3>2. \A i \in 1..Len(scripts') : scripts'[i].run <= run
      BY <2>2, <2>3, RunsAreNumbers DEF SyncInv, LatestRuns
    <3>. QED BY <1>1, <3>1, <3>2 DEF SyncInv, LatestRuns
  <2>7. ScriptsInOrder'
    <3>1. ASSUME NEW i \in 1..Len(scripts'), NEW j \in 1..Len(scripts'), i <= j
          PROVE  scripts'[i].run <= scripts'[j].run
      <4>1. CASE j \in 1..Len(scripts)
        <5>1. i \in 1..Len(scripts)
          BY <2>3, <3>1, <4>1
        <5>. QED BY <2>3, <3>1, <4>1, <5>1 DEF SyncInv, ScriptsInOrder
      <4>2. CASE j = Len(scripts) + 1
        BY <1>1, <2>2, <2>3, <2>6, <4>2 DEF LatestRuns
      <4>. QED BY <2>3, <4>1, <4>2
    <3>. QED BY <3>1 DEF ScriptsInOrder
  <2>8. LatestCount'
    BY <1>1, <2>2, <2>3 DEF SyncInv, LatestCount
  <2>9. HeardIsShown'
    <3>1. Heard' => Heard
      BY <1>1, <1>3, <1>5 DEF SyncInv, SyncTypeOK, Heard
    <3>. QED BY <1>1, <2>2, <2>3, <2>4, <3>1 DEF SyncInv, HeardIsShown
  <2>. QED BY <2>5, <2>6, <2>7, <2>8, <2>9 DEF SyncInv
<1>. QED BY <1>4, <1>5 DEF Sync_Ask

(* Another page: nothing is claimed until it has loaded.                     *)
LEMMA PageLoadsKeeps ==
    ASSUME SyncInv, PageLoads
    PROVE  SyncInv'
<1>1. /\ loaded' = FALSE /\ hasFunction' = FALSE /\ button' = NoButton
      /\ sync' = Cancelled /\ scripts' \in {scripts, <<>>}
      /\ UNCHANGED <<unread, run, count, tries, answers>>
  BY DEF PageLoads
<1>2. scripts' \in Seq(Script) /\ (scripts' = scripts \/ Len(scripts') = 0)
  <2>1. <<>> \in Seq(Script) /\ Len(<<>>) = 0
    OBVIOUS
  <2>2. CASE scripts' = scripts
    BY <2>2 DEF SyncInv, SyncTypeOK
  <2>3. CASE scripts' = <<>>
    BY <2>1, <2>3
  <2>. QED BY <1>1, <2>2, <2>3
<1>3. SyncTypeOK'
  BY <1>1, <1>2 DEF SyncInv, SyncTypeOK, Cancelled, SyncState
<1>4. LatestRuns'
  BY <1>1, <1>2 DEF SyncInv, LatestRuns, Cancelled
<1>5. ScriptsInOrder' /\ LatestCount' /\ HeardIsShown'
  BY <1>1, <1>2 DEF SyncInv, ScriptsInOrder, LatestCount, HeardIsShown
<1>. QED BY <1>3, <1>4, <1>5 DEF SyncInv

(* An answer resumes the run that waits for it, which is the latest.         *)
LEMMA AnswerKeeps ==
    ASSUME SyncInv, Callback_Answer
    PROVE  SyncInv'
<1>1. PICK a \in answers : answers' = answers \ {a} /\ sync' = Resumed(a)
  BY DEF Callback_Answer
<1>2. UNCHANGED <<unread, loaded, hasFunction, button, run, count, tries, scripts>>
  BY DEF Callback_Answer, pageVars
<1>3. a.run \in Run
  BY DEF SyncInv, SyncTypeOK, Answer
<1>4. CASE sync[a.run] = "waiting" /\ a.result = "ok" /\ tries[a.run] = a.try
  <2>1. sync' = [sync EXCEPT ![a.run] = "ok"] /\ a.run = run /\ Heard
    BY <1>1, <1>3, <1>4 DEF Resumed, SyncInv, LatestRuns, Ended, Heard
  <2>2. SyncTypeOK'
    BY <1>1, <1>2, <2>1 DEF SyncInv, SyncTypeOK, SyncState
  <2>3. LatestRuns' /\ ScriptsInOrder' /\ LatestCount'
    BY <1>1, <1>2, <2>1 DEF SyncInv, SyncTypeOK, LatestRuns, ScriptsInOrder, LatestCount
  <2>4. HeardIsShown'
    BY <1>2, <2>1 DEF SyncInv, HeardIsShown
  <2>. QED BY <2>2, <2>3, <2>4 DEF SyncInv
<1>5. CASE sync[a.run] = "waiting" /\ a.result # "ok" /\ tries[a.run] = a.try
  <2>1. sync' = [sync EXCEPT ![a.run] = "delay"] /\ sync[a.run] \notin Ended \cup {"none"}
    BY <1>1, <1>5 DEF Resumed, Ended
  <2>2. "delay" \in SyncState \ {"ok"} /\ tries' \in [Run -> 0..MaxTries]
    BY <1>2 DEF SyncState, SyncInv, SyncTypeOK
  <2>. QED BY <1>1, <1>2, <1>3, <2>1, <2>2, RunKeeps DEF pageVars
<1>6. CASE ~(sync[a.run] = "waiting" /\ tries[a.run] = a.try)
  <2>1. sync' = sync /\ answers' \subseteq answers
    BY <1>1, <1>6 DEF Resumed
  <2>. QED BY <1>2, <2>1 DEF SyncInv, SyncTypeOK, LatestRuns, ScriptsInOrder, LatestCount,
                             HeardIsShown, Heard
<1>. QED BY <1>4, <1>5, <1>6

(* Every step, and none at all.                                              *)
LEMMA SyncKept == SyncInv /\ [SyncNext]_syncVars => SyncInv'
<1> SUFFICES ASSUME SyncInv, [SyncNext]_syncVars PROVE SyncInv'
  OBVIOUS
<1>1. CASE CountChanges
  <2>1. /\ unread' \in Unread
        /\ UNCHANGED <<loaded, hasFunction, button, run, sync, count, tries, scripts, answers>>
    BY <1>1 DEF CountChanges, pageVars
  <2>. QED BY <2>1 DEF SyncInv, SyncTypeOK, LatestRuns, ScriptsInOrder, LatestCount,
                       HeardIsShown, Heard
<1>2. CASE PageFinished
  BY <1>2, RestartKeeps DEF PageFinished, SyncInv, SyncTypeOK
<1>3. CASE PageLoads
  BY <1>3, PageLoadsKeeps
<1>4. CASE FunctionAppears
  <2>1. hasFunction' = TRUE /\ UNCHANGED <<unread, loaded, button, run, sync, count, tries,
                                           scripts, answers>>
    BY <1>4 DEF FunctionAppears
  <2>. QED BY <2>1 DEF SyncInv, SyncTypeOK, LatestRuns, ScriptsInOrder, LatestCount,
                       HeardIsShown, Heard
<1>5. CASE PageRunsScript
  BY <1>5, PageKeeps DEF PageRunsScript
<1>6. CASE Callback_Answer
  BY <1>6, AnswerKeeps
<1>7. ASSUME NEW r \in Run, SyncRuns(r) PROVE SyncInv'
  <2>1. CASE Sync_Ask(r)
    BY <2>1, AskKeeps
  <2>2. CASE Sync_GiveUp(r) \/ Sync_Timeout(r) \/ Sync_Again(r)
    <3>1. PICK to \in {"gave up", "expired", "loop"} : sync' = [sync EXCEPT ![r] = to]
      BY <2>2 DEF Sync_GiveUp, Sync_Timeout, Sync_Again
    <3>2. /\ sync[r] \notin Ended \cup {"none"}
          /\ UNCHANGED <<unread, loaded, pageVars, run, count, tries, scripts, answers>>
      BY <2>2 DEF Sync_GiveUp, Sync_Timeout, Sync_Again, Ended
    <3>3. to \in SyncState \ {"ok"} /\ tries' \in [Run -> 0..MaxTries]
      BY <3>1, <3>2 DEF SyncState, SyncInv, SyncTypeOK
    <3>. QED BY <3>1, <3>2, <3>3, RunKeeps
  <2>. QED BY <1>7, <2>1, <2>2 DEF SyncRuns
<1>8. CASE UNCHANGED syncVars
  BY <1>8 DEF syncVars, pageVars, SyncInv, SyncTypeOK, LatestRuns, ScriptsInOrder,
              LatestCount, HeardIsShown, Heard
<1>9. CASE Recompose
  BY <1>9, RestartKeeps DEF Recompose, SyncInv, SyncTypeOK
<1>. QED BY <1>1, <1>2, <1>3, <1>4, <1>5, <1>6, <1>7, <1>8, <1>9 DEF SyncNext

(* Once the latest run has returned true the page shows the number that run  *)
(* was given, for any numbers, runs, attempts and pages, however late the    *)
(* scripts of earlier runs are.                                              *)
THEOREM ButtonShowsUnread == SyncSpec => []ButtonIsCurrent
<1>1. SyncInv => ButtonIsCurrent
  BY DEF SyncInv, HeardIsShown, Heard, LatestCount, ButtonIsCurrent
<1>. QED BY <1>1, SyncStarts, SyncKept, PTL DEF SyncSpec

-----------------------------------------------------------------------------
(* BlobSave.  Whatever is in the place of a file was put there by a call that *)
(* has its outcome, and there are more numbers than files, so that the search *)
(* for a free one ends.                                                      *)
\* An outcome is there once the file was written, or not.
Posted == \A c \in Save : outcome[c] # "none" => work[c] \in {"post", "answered"}

\* The page is called back at the end and not before, once unless a callback of
\* the desktop throws, and with "ok" only for a call that has its outcome.
Throws == os = "desktop" /\ ~obliging

AnsweredLast ==
    \A c \in Save :
        /\ work[c] # "answered" /\ (Throws => outcome[c] = "none") => answer[c] = <<>>
        /\ work[c] = "answered" /\ ~Throws =>
               \E o \in Outcome : answer[c] = <<o>> /\ (o = "ok" => outcome[c] = "ok")
        /\ ToldOk(c) => outcome[c] # "none"

\* Whatever is stored was stored by a call that has its outcome.
StoredBy(d, n, k) == outcome[d] # "none" /\ name[d] = n /\ into[d] = k
Occupied == \A n \in Name, k \in Nr : disc[<<n, k>>] # NoSave => \E d \in Save : StoredBy(d, n, k)

\* A file saved is there, unless another one went to the same place.
MediaGives == os = "android10" => obliging

OkIsStored ==
    MediaGives => \A c \in Save : outcome[c] = "ok" \/ ToldOk(c) =>
                     \/ disc[<<name[c], into[c]>>] = c
                     \/ \E d \in Save \ {c} : SameFile(c, d)

SaveInv == SaveTypeOK /\ Posted /\ AnsweredLast /\ Occupied /\ OkIsStored

(* Every set of numbers has a least one.                                     *)
LEMMA LeastNumber ==
    ASSUME NEW T, T \subseteq Nat, T # {}
    PROVE  \E k \in T : \A j \in T : k <= j
<1> DEFINE R == OpToRel(<, Nat)
<1>1. IsWellFoundedOn(R, Nat)
  BY NatLessThanWellFounded
<1>2. R = {ss \in Nat \X Nat : ss[1] < ss[2]}
  BY DEF OpToRel
<1> HIDE DEF R
<1>3. PICK k \in T : \A j \in T : ~(<<j, k>> \in R)
  BY <1>1, WFMin
<1>4. ASSUME NEW j \in T PROVE k <= j
  <2>1. j \in Nat /\ k \in Nat /\ <<j, k>> \notin R
    BY <1>3
  <2>2. ~(j < k)
    BY <1>2, <2>1
  <2>. QED BY <2>1, <2>2
<1>. QED BY <1>4

(* There is always a number left: there are more of them than files.          *)
LEMMA NumberLeft ==
    ASSUME SaveInv, NEW n \in Name
    PROVE  \E k \in Nr : disc[<<n, k>>] = NoSave
<1> SUFFICES ASSUME \A k \in Nr : disc[<<n, k>>] # NoSave PROVE FALSE
  OBVIOUS
<1> DEFINE f == [k \in Nr |-> CHOOSE d \in Save : StoredBy(d, n, k)]
<1>1. \A k \in Nr : f[k] \in Save /\ StoredBy(f[k], n, k)
  BY DEF SaveInv, Occupied
<1>2. f \in [Nr -> Save]
  BY <1>1
<1> HIDE DEF f
<1>3. IsFiniteSet(Save) /\ Cardinality(Save) \in Nat
  BY SaveAssumption, FS_CardinalityType
<1>4. IsFiniteSet(Nr) /\ Cardinality(Nr) = Cardinality(Save) + 1
  <2>1. Nr = 0..Cardinality(Save)
    BY DEF Nr
  <2>2. 0 \in Int /\ Cardinality(Save) \in Int /\ ~(0 > Cardinality(Save))
    BY <1>3
  <2>3. IsFiniteSet(Nr) /\ Cardinality(Nr) = Cardinality(Save) - 0 + 1
    BY ONLY <1>3, <2>1, <2>2, FS_Interval
  <2>. QED BY ONLY <1>3, <2>3
<1>5. Cardinality(Save) < Cardinality(Nr)
  BY <1>3, <1>4
<1>6. PICK x \in Nr, y \in Nr : x # y /\ f[x] = f[y]
  BY <1>2, <1>3, <1>4, <1>5, FS_PigeonHole
<1>. QED BY <1>1, <1>6 DEF StoredBy

(* resolveUniquePath and MediaStore find a number.                           *)
LEMMA FreeNrFound ==
    ASSUME SaveInv, NEW n \in Name
    PROVE  FreeNr(n) \in Nr
<1> DEFINE T == {k \in Nr : disc[<<n, k>>] = NoSave}
<1>0. Nr \subseteq Nat
  BY DEF Nr
<1>1. T \subseteq Nat /\ T # {}
  BY <1>0, NumberLeft
<1>2. PICK k \in T : \A j \in T : k <= j
  BY <1>1, LeastNumber
<1>3. k \in Nr /\ disc[<<n, k>>] = NoSave
  BY <1>2
<1>4. ASSUME NEW j \in 0..(k - 1) PROVE disc[<<n, j>>] # NoSave
  <2>1. j \in Nr /\ ~(k <= j)
    BY <1>0, <1>3, SaveAssumption, FS_CardinalityType DEF Nr
  <2>. QED BY <1>2, <2>1
<1>5. \E i \in Nr : disc[<<n, i>>] = NoSave /\ \A j \in 0..(i - 1) : disc[<<n, j>>] # NoSave
  BY <1>3, <1>4
<1>. QED BY <1>5 DEF FreeNr

(* Nothing has been saved at the start.                                      *)
LEMMA SaveStarts == SaveInit => SaveInv
<1> SUFFICES ASSUME SaveInit PROVE SaveInv
  OBVIOUS
<1>1. Cardinality(Save) \in Nat
  BY SaveAssumption, FS_CardinalityType
<1>2. 0 \in Nr /\ 0 \in Name /\ <<>> \in Seq(Outcome)
  BY <1>1, SaveAssumption DEF Nr, Name
<1>3. SaveTypeOK
  BY <1>2 DEF SaveInit, SaveTypeOK, Work
<1>4. Occupied
  BY DEF SaveInit, Occupied
<1>5. \A c \in Save : answer[c] = <<>> /\ ~ToldOk(c)
  BY DEF SaveInit, ToldOk
<1>6. Posted /\ AnsweredLast /\ OkIsStored
  BY <1>5 DEF SaveInit, Posted, AnsweredLast, OkIsStored
<1>. QED BY <1>3, <1>4, <1>6 DEF SaveInv

(* Every answer but the last one is there before, and after.                 *)
LEMMA TellMore ==
    ASSUME SaveInv, NEW c \in Save, NEW o \in Outcome, Tell(c, o)
    PROVE  /\ \A d \in Save : d # c => answer'[d] = answer[d]
           /\ answer' \in [Save -> Seq(Outcome)]
           /\ ToldOk(c)' => ToldOk(c) \/ o = "ok"
<1>1. answer \in [Save -> Seq(Outcome)] /\ answer' = [answer EXCEPT ![c] = Append(@, o)]
  BY DEF SaveInv, SaveTypeOK, Tell
<1>2. answer[c] \in Seq(Outcome) /\ answer'[c] = Append(answer[c], o)
  BY <1>1
<1>3. /\ \A d \in Save : d # c => answer'[d] = answer[d]
      /\ answer' \in [Save -> Seq(Outcome)]
  BY <1>1, <1>2
<1>4. ASSUME NEW i \in DOMAIN answer'[c], answer'[c][i] = "ok", o # "ok" PROVE ToldOk(c)
  <2>1. i \in 1..Len(answer[c]) + 1 /\ Append(answer[c], o)[i] = "ok"
    BY <1>2, <1>4
  <2>2. i \in 1..Len(answer[c]) /\ answer[c][i] = "ok"
    BY <1>2, <1>4, <2>1
  <2>. QED BY <1>2, <2>2 DEF ToldOk
<1>. QED BY <1>3, <1>4 DEF ToldOk

(* An answer, to a call that had none.                                       *)
LEMMA TellOnce ==
    ASSUME SaveInv, NEW c \in Save, work[c] # "answered", Throws => outcome[c] = "none",
           NEW o \in Outcome, Tell(c, o)
    PROVE  answer'[c] = <<o>>
<1>1. answer[c] = <<>> /\ answer \in [Save -> Seq(Outcome)]
  BY DEF SaveInv, AnsweredLast, SaveTypeOK
<1>2. Append(answer[c], o) = <<o>> /\ <<o>> \in Seq(Outcome)
  BY <1>1
<1>. QED BY <1>1, <1>2 DEF Tell

(* A call without an outcome has stored nothing: it may go on, choose a name  *)
(* and a number, or be refused.                                              *)
LEMMA BeforeKeeps ==
    ASSUME SaveInv, NEW c \in Save, outcome[c] = "none",
           NEW to \in Work, work[c] # "answered", work' = [work EXCEPT ![c] = to],
           name' \in [Save -> Name], into' \in [Save -> Nr],
           \A d \in Save \ {c} : name'[d] = name[d] /\ into'[d] = into[d],
           UNCHANGED <<os, obliging, clock, disc, outcome>>,
           isBound' \in BOOLEAN, granted' \in BOOLEAN,
           \/ to # "answered" /\ UNCHANGED answer
           \/ \E o \in Outcome \ {"ok"} : to = "answered" /\ Tell(c, o)
    PROVE  SaveInv'
<1>1. /\ answer' \in [Save -> Seq(Outcome)]
      /\ \A d \in Save : d # c => answer'[d] = answer[d]
      /\ IF to = "answered" THEN \E o \in Outcome \ {"ok"} : answer'[c] = <<o>>
                            ELSE answer'[c] = answer[c]
      /\ ToldOk(c)' => ToldOk(c)
  <2>1. CASE to # "answered" /\ UNCHANGED answer
    BY <2>1 DEF SaveInv, SaveTypeOK, ToldOk
  <2>2. ASSUME NEW o \in Outcome \ {"ok"}, to = "answered", Tell(c, o)
        PROVE  /\ answer' \in [Save -> Seq(Outcome)]
               /\ \A d \in Save : d # c => answer'[d] = answer[d]
               /\ answer'[c] = <<o>>
               /\ ToldOk(c)' => ToldOk(c)
    BY <2>2, TellOnce, TellMore
  <2>. QED BY <2>1, <2>2
<1>2. SaveTypeOK'
  BY <1>1 DEF SaveInv, SaveTypeOK
<1>3. work'[c] = to /\ \A d \in Save : d # c => work'[d] = work[d]
  BY DEF SaveInv, SaveTypeOK
<1>4. Posted'
  BY <1>3 DEF SaveInv, Posted
<1>9. \A d \in Save : ToldOk(d)' => ToldOk(d) /\ d # c
  BY <1>1 DEF ToldOk, SaveInv, AnsweredLast
<1>5. AnsweredLast'
  <2> DEFINE P(d) == /\ work[d] # "answered" /\ (Throws => outcome[d] = "none") => answer[d] = <<>>
                     /\ work[d] = "answered" /\ ~Throws =>
                            \E o \in Outcome : answer[d] = <<o>> /\ (o = "ok" => outcome[d] = "ok")
  <2>0. Throws' = Throws
    BY DEF Throws
  <2>1. ASSUME NEW d \in Save, d # c PROVE P(d)'
    BY <1>1, <1>3, <2>0, <2>1 DEF SaveInv, AnsweredLast
  <2>2. P(c)'
    <3>1. CASE to = "answered"
      <4>1. PICK o \in Outcome \ {"ok"} : answer'[c] = <<o>>
        BY <1>1, <3>1
      <4>. QED BY <1>3, <3>1, <4>1
    <3>2. CASE to # "answered"
      BY <1>1, <1>3, <3>2 DEF SaveInv, AnsweredLast
    <3>. QED BY <3>1, <3>2
  <2>3. \A d \in Save : P(d)'
    BY <2>1, <2>2
  <2>4. \A d \in Save : ToldOk(d)' => outcome'[d] # "none"
    BY <1>9 DEF SaveInv, AnsweredLast
  <2>. QED BY <2>3, <2>4 DEF AnsweredLast
<1>6. \A d \in Save : outcome[d] # "none" => d # c /\ name'[d] = name[d] /\ into'[d] = into[d]
  OBVIOUS
<1>7. Occupied'
  <2>1. \A d \in Save, n \in Name, k \in Nr : StoredBy(d, n, k) => StoredBy(d, n, k)'
    BY <1>6 DEF StoredBy
  <2>. QED BY <2>1 DEF SaveInv, Occupied
<1>8. OkIsStored'
  <2> SUFFICES ASSUME MediaGives, NEW d \in Save, outcome[d] = "ok" \/ ToldOk(d), d # c
               PROVE  \/ disc[<<name'[d], into'[d]>>] = d
                      \/ \E e \in Save \ {d} : SameFile(d, e)'
    BY <1>6, <1>9 DEF OkIsStored, MediaGives
  <2>1. outcome[d] # "none"
    BY DEF SaveInv, AnsweredLast
  <2>2. \A e \in Save : SameFile(d, e) => SameFile(d, e)'
    BY <1>6, <2>1 DEF SameFile
  <2>. QED BY <1>6, <2>1, <2>2 DEF SaveInv, OkIsStored
<1>. QED BY <1>2, <1>4, <1>5, <1>7, <1>8 DEF SaveInv

(* A call has its outcome: it has stored its file, something else in its      *)
(* place, or nothing.                                                        *)
LEMMA WriteKeeps ==
    ASSUME SaveInv, NEW c \in Save, Thread_Write(c) \/ Thread_Refused(c)
    PROVE  SaveInv'
<1>1. PICK o \in {"ok", "error"} : Finishes(c, o)
  BY DEF Thread_Write, Thread_Refused
<1>2. /\ work[c] = "write" /\ work' = [work EXCEPT ![c] = "post"]
      /\ outcome' = [outcome EXCEPT ![c] = o]
      /\ UNCHANGED <<os, obliging, isBound, granted, clock, name, answer>>
  BY <1>1 DEF Finishes, At, Thread_Write, Thread_Refused, saveChoice
<1>3. outcome[c] = "none"
  BY <1>2 DEF SaveInv, Posted
<1>4. /\ outcome'[c] = o /\ \A d \in Save : d # c => outcome'[d] = outcome[d]
      /\ work'[c] = "post" /\ \A d \in Save : d # c => work'[d] = work[d]
  BY <1>2 DEF SaveInv, SaveTypeOK
<1>5. name[c] \in Name /\ Where(c) \in Nr
  BY FreeNrFound DEF Where, SaveInv, SaveTypeOK
<1>6. /\ disc' \in [Name \X Nr -> Save \cup {NoSave, Torn}] /\ into' \in [Save -> Nr]
      /\ \A d \in Save : d # c => into'[d] = into[d]
      /\ \A n \in Name, k \in Nr :
           ~(n = name[c] /\ k = into'[c]) => disc'[<<n, k>>] = disc[<<n, k>>]
      /\ o = "ok" /\ MediaGives => disc'[<<name[c], into'[c]>>] = c
  <2>1. CASE \E content \in Save \cup {Torn} :
               Put(c, content) /\ (o = "ok" /\ MediaGives => content = c)
    <3>1. PICK content \in Save \cup {Torn} :
               Put(c, content) /\ (o = "ok" /\ MediaGives => content = c)
      BY <2>1
    <3>2. /\ disc' = [disc EXCEPT ![<<name[c], Where(c)>>] = content]
          /\ into' = [into EXCEPT ![c] = Where(c)]
      BY <3>1 DEF Put
    <3>3. disc \in [Name \X Nr -> Save \cup {NoSave, Torn}] /\ into \in [Save -> Nr]
      BY DEF SaveInv, SaveTypeOK
    <3>4. <<name[c], Where(c)>> \in Name \X Nr
      BY <1>5
    <3>5. into'[c] = Where(c) /\ into' \in [Save -> Nr]
          /\ \A d \in Save : d # c => into'[d] = into[d]
      BY <1>5, <3>2, <3>3
    <3>6. /\ disc' \in [Name \X Nr -> Save \cup {NoSave, Torn}]
          /\ disc'[<<name[c], Where(c)>>] = content
          /\ \A p \in Name \X Nr : p # <<name[c], Where(c)>> => disc'[p] = disc[p]
      BY <3>1, <3>2, <3>3, <3>4
    <3>. QED BY <3>1, <3>5, <3>6
  <2>2. CASE UNCHANGED <<disc, into>> /\ ~(o = "ok" /\ MediaGives)
    BY <2>2 DEF SaveInv, SaveTypeOK
  <2>3. \/ \E content \in Save \cup {Torn} :
              Put(c, content) /\ (o = "ok" /\ MediaGives => content = c)
        \/ UNCHANGED <<disc, into>> /\ ~(o = "ok" /\ MediaGives)
    <3>1. CASE Thread_Refused(c)
      BY <3>1 DEF Thread_Refused, MediaGives
    <3>2. CASE Finishes(c, "ok") /\ Put(c, c)
      BY <3>2
    <3>3. CASE Finishes(c, "error") /\ WriteFails(c)
      <4>1. o = "error"
        <5>1. outcome' = [outcome EXCEPT ![c] = "error"]
          BY <3>3 DEF Finishes
        <5>. QED BY <1>4, <5>1 DEF SaveInv, SaveTypeOK
      <4>. QED BY <3>3, <4>1 DEF WriteFails
    <3>. QED BY <3>1, <3>2, <3>3 DEF Thread_Write
  <2>. QED BY <2>1, <2>2, <2>3
<1>7. SaveTypeOK'
  BY <1>2, <1>6 DEF SaveInv, SaveTypeOK, Work
<1>8. Posted'
  BY <1>4 DEF SaveInv, Posted
<1>12. \A d \in Save : (ToldOk(d)' <=> ToldOk(d)) /\ ~ToldOk(c)
  BY <1>2, <1>3 DEF ToldOk, SaveInv, AnsweredLast
<1>9. AnsweredLast'
  <2>1. Throws' = Throws /\ answer[c] = <<>>
    BY <1>2, <1>3 DEF Throws, SaveInv, AnsweredLast
  <2>. QED BY <1>2, <1>4, <1>12, <2>1 DEF SaveInv, AnsweredLast
<1>10. Occupied'
  <2>1. ASSUME NEW n \in Name, NEW k \in Nr, disc'[<<n, k>>] # NoSave
        PROVE  \E d \in Save : StoredBy(d, n, k)'
    <3>1. CASE n = name[c] /\ k = into'[c]
      <4>1. StoredBy(c, n, k)'
        BY <1>2, <1>4, <3>1 DEF StoredBy
      <4>. QED BY <4>1
    <3>2. CASE ~(n = name[c] /\ k = into'[c])
      <4>1. PICK d \in Save : StoredBy(d, n, k)
        BY <1>6, <2>1, <3>2 DEF SaveInv, Occupied
      <4>2. StoredBy(d, n, k)'
        BY <1>2, <1>3, <1>4, <1>6, <4>1 DEF StoredBy
      <4>. QED BY <4>2
    <3>. QED BY <3>1, <3>2
  <2>. QED BY <2>1 DEF Occupied
<1>11. OkIsStored'
  <2> SUFFICES ASSUME MediaGives, NEW d \in Save, outcome'[d] = "ok" \/ ToldOk(d)
               PROVE  \/ disc'[<<name[d], into'[d]>>] = d
                      \/ \E e \in Save \ {d} : SameFile(d, e)'
    BY <1>2, <1>12 DEF OkIsStored, MediaGives
  <2>1. CASE d = c
    BY <1>4, <1>6, <1>12, <2>1
  <2>2. CASE d # c /\ name[d] = name[c] /\ into'[d] = into'[c]
    <3>1. SameFile(d, c)'
      BY <1>2, <1>4, <2>2 DEF SameFile
    <3>. QED BY <2>2, <3>1
  <2>3. CASE d # c /\ ~(name[d] = name[c] /\ into'[d] = into'[c])
    <3>1. /\ outcome[d] = "ok" \/ ToldOk(d)
          /\ into'[d] = into[d] /\ name[d] \in Name /\ into[d] \in Nr
      BY <1>4, <1>6, <2>3 DEF SaveInv, SaveTypeOK
    <3>2. CASE disc[<<name[d], into[d]>>] = d
      BY <1>6, <2>3, <3>1, <3>2
    <3>3. CASE \E e \in Save \ {d} : SameFile(d, e)
      <4>1. PICK e \in Save \ {d} : SameFile(d, e)
        BY <3>3
      <4>2. SameFile(d, e)'
        BY <1>2, <1>3, <1>4, <1>6, <3>1, <4>1 DEF SameFile
      <4>. QED BY <4>2
    <3>. QED BY <3>1, <3>2, <3>3 DEF SaveInv, OkIsStored
  <2>. QED BY <2>1, <2>2, <2>3
<1>. QED BY <1>7, <1>8, <1>9, <1>10, <1>11 DEF SaveInv

(* The outcome reaches the page, and a callback of the desktop may throw.     *)
LEMMA DispatchKeeps ==
    ASSUME SaveInv, NEW c \in Save, Dispatch(c) \/ Dispatch_Throws(c)
    PROVE  SaveInv'
<1>1. /\ outcome[c] # "none" /\ work[c] = "post"
      /\ UNCHANGED <<os, obliging, isBound, granted, clock, name, disc, into>>
      /\ Tell(c, outcome[c]) \/ UNCHANGED answer
  <2>1. CASE Dispatch(c)
    BY <2>1 DEF Dispatch, At, saveChoice
  <2>2. CASE Dispatch_Throws(c)
    BY <2>2 DEF Dispatch_Throws, saveChoice
  <2>. QED BY <2>1, <2>2
<1>2. outcome[c] \in Outcome /\ c \in DOMAIN outcome
  BY DEF SaveInv, SaveTypeOK, Outcome
<1>3. /\ \A d \in Save : d # c => answer'[d] = answer[d]
      /\ answer' \in [Save -> Seq(Outcome)]
      /\ ToldOk(c)' => ToldOk(c) \/ outcome[c] = "ok"
  <2>1. CASE UNCHANGED answer
    BY <2>1 DEF ToldOk, SaveInv, SaveTypeOK
  <2>. QED BY <1>1, <1>2, <2>1, TellMore
<1>4. /\ \A d \in Save : d # c => work'[d] = work[d] /\ outcome'[d] = outcome[d]
      /\ work'[c] \in {"post", "answered"} /\ work' \in [Save -> Work]
      /\ outcome'[c] \in {outcome[c], "error"} /\ outcome' \in [Save -> {"none", "ok", "error"}]
      /\ ~Throws => work'[c] = "answered" /\ outcome' = outcome /\ Tell(c, outcome[c])
  <2>0. work \in [Save -> Work] /\ outcome \in [Save -> {"none", "ok", "error"}]
    BY DEF SaveInv, SaveTypeOK
  <2>1. CASE Dispatch(c)
    BY <2>0, <2>1 DEF Dispatch, At, Work
  <2>2. CASE Dispatch_Throws(c) /\ outcome[c] = "ok"
    BY <2>0, <2>2 DEF Dispatch_Throws, Throws, Work
  <2>3. CASE Dispatch_Throws(c) /\ outcome[c] # "ok"
    BY <2>0, <2>3 DEF Dispatch_Throws, At, Throws, Work
  <2>. QED BY <2>1, <2>2, <2>3
<1>5. SaveTypeOK' /\ Posted'
  BY <1>1, <1>3, <1>4 DEF SaveInv, SaveTypeOK, Posted
<1>6. /\ Throws' = Throws /\ MediaGives' = MediaGives
      /\ \A d \in Save : /\ outcome[d] # "none" => outcome'[d] # "none"
                         /\ outcome'[d] = "ok" => outcome[d] = "ok"
                         /\ ToldOk(d)' => ToldOk(d) \/ outcome[d] = "ok"
  BY <1>1, <1>3, <1>4 DEF Throws, MediaGives, ToldOk
<1>7. AnsweredLast'
  <2>1. ASSUME NEW d \in Save, work'[d] # "answered", Throws => outcome'[d] = "none"
        PROVE  answer'[d] = <<>>
    <3>1. d # c
      BY <1>1, <1>4, <2>1
    <3>. QED BY <1>3, <1>4, <2>1, <3>1 DEF SaveInv, AnsweredLast
  <2>2. ASSUME NEW d \in Save, work'[d] = "answered", ~Throws
        PROVE  \E o \in Outcome : answer'[d] = <<o>> /\ (o = "ok" => outcome'[d] = "ok")
    <3>1. CASE d = c
      <4>1. answer'[c] = <<outcome[c]>>
        BY <1>1, <1>2, <1>4, <2>2, TellOnce
      <4>. QED BY <1>2, <1>4, <2>2, <3>1, <4>1
    <3>2. CASE d # c
      BY <1>3, <1>4, <2>2, <3>2 DEF SaveInv, AnsweredLast
    <3>. QED BY <3>1, <3>2
  <2>3. \A d \in Save : ToldOk(d)' => outcome'[d] # "none"
    BY <1>6 DEF SaveInv, AnsweredLast
  <2>. QED BY <1>6, <2>1, <2>2, <2>3 DEF AnsweredLast
<1>8. Occupied'
  BY <1>1, <1>6 DEF SaveInv, Occupied, StoredBy
<1>9. OkIsStored'
  <2> SUFFICES ASSUME MediaGives, NEW d \in Save, outcome[d] = "ok" \/ ToldOk(d)
               PROVE  \/ disc[<<name[d], into[d]>>] = d
                      \/ \E e \in Save \ {d} : SameFile(d, e)'
    BY <1>1, <1>6 DEF OkIsStored
  <2>1. \A e \in Save : SameFile(d, e) => SameFile(d, e)'
    BY <1>1, <1>6 DEF SameFile
  <2>. QED BY <2>1 DEF SaveInv, OkIsStored
<1>. QED BY <1>5, <1>7, <1>8, <1>9 DEF SaveInv

(* Every step, and none at all.                                              *)
LEMMA SaveKept == SaveInv /\ [SaveNext]_saveVars => SaveInv'
<1> SUFFICES ASSUME SaveInv, [SaveNext]_saveVars PROVE SaveInv'
  OBVIOUS
<1>0. /\ clock \in Name /\ isBound \in BOOLEAN /\ granted \in BOOLEAN
      /\ name \in [Save -> Name] /\ into \in [Save -> Nr]
  BY DEF SaveInv, SaveTypeOK
<1>1. ASSUME NEW c \in Save, NEW from \in {"none", "prompt"}, StartThread(c, from),
             UNCHANGED <<saveChoice, isBound, clock, disc, into, outcome, answer>>,
             granted' \in BOOLEAN
      PROVE  SaveInv'
  <2>1. PICK to \in {"thread", "write"} : work[c] = from /\ work' = [work EXCEPT ![c] = to]
    BY <1>1 DEF StartThread, At
  <2>2. outcome[c] = "none"
    BY <2>1 DEF SaveInv, Posted
  <2>3. name' \in [Save -> Name] /\ \A d \in Save \ {c} : name'[d] = name[d]
    BY <1>0, <1>1 DEF StartThread, NewName
  <2>4. to \in Work /\ to # "answered" /\ work[c] # "answered"
    BY <2>1 DEF Work
  <2>. QED BY <1>0, <1>1, <2>1, <2>2, <2>3, <2>4, BeforeKeeps DEF saveChoice
<1>2. ASSUME NEW c \in Save, NEW from \in {"none", "prompt"}, NEW to \in Work, At(c, from, to),
             UNCHANGED <<saveChoice, isBound, granted, clock, name, disc, into, outcome>>,
             \/ to # "answered" /\ UNCHANGED answer
             \/ \E o \in Outcome \ {"ok"} : to = "answered" /\ Tell(c, o)
      PROVE  SaveInv'
  <2>1. work[c] = from /\ work' = [work EXCEPT ![c] = to] /\ work[c] # "answered"
    BY <1>2 DEF At
  <2>2. outcome[c] = "none"
    BY <2>1 DEF SaveInv, Posted
  <2>. QED BY <1>0, <1>2, <2>1, <2>2, BeforeKeeps DEF saveChoice
<1>3. ASSUME NEW c \in Save, Js_Invalid(c) PROVE SaveInv'
  BY <1>2, <1>3 DEF Js_Invalid, Work, Outcome
<1>4. ASSUME NEW c \in Save, Js_Save(c) PROVE SaveInv'
  BY <1>0, <1>1, <1>4 DEF Js_Save
<1>5. ASSUME NEW c \in Save, Js_SaveNeedsPermission(c) PROVE SaveInv'
  BY <1>2, <1>5 DEF Js_SaveNeedsPermission, Work
<1>6. ASSUME NEW c \in Save, Js_SaveUnbound(c) PROVE SaveInv'
  BY <1>2, <1>6 DEF Js_SaveUnbound, Work, Outcome
<1>7. ASSUME NEW c \in Save, Prompt_Granted(c) PROVE SaveInv'
  BY <1>1, <1>7 DEF Prompt_Granted
<1>8. ASSUME NEW c \in Save, Prompt_Denied(c) PROVE SaveInv'
  BY <1>2, <1>8 DEF Prompt_Denied, Work
<1>9. ASSUME NEW c \in Save, Thread_Name(c) PROVE SaveInv'
  <2>1. /\ work[c] = "thread" /\ work' = [work EXCEPT ![c] = "write"]
        /\ name' = [name EXCEPT ![c] = clock] /\ into' = [into EXCEPT ![c] = FreeNr(clock)]
        /\ UNCHANGED <<os, obliging, isBound, granted, clock, disc, outcome, answer>>
    BY <1>9 DEF Thread_Name, At, NewName, saveChoice
  <2>2. outcome[c] = "none" /\ work[c] # "answered"
    BY <2>1 DEF SaveInv, Posted
  <2>3. FreeNr(clock) \in Nr
    BY <1>0, FreeNrFound
  <2>4. "write" \in Work
    BY DEF Work
  <2>5. name' \in [Save -> Name] /\ into' \in [Save -> Nr]
        /\ \A d \in Save \ {c} : name'[d] = name[d] /\ into'[d] = into[d]
    BY <1>0, <2>1, <2>3
  <2>. QED BY <1>0, <2>1, <2>2, <2>4, <2>5, BeforeKeeps
<1>10. ASSUME NEW c \in Save, Thread_Write(c) \/ Thread_Refused(c) PROVE SaveInv'
  BY <1>10, WriteKeeps
<1>11. ASSUME NEW c \in Save, Dispatch(c) \/ Dispatch_Throws(c) PROVE SaveInv'
  BY <1>11, DispatchKeeps
<1>12. ASSUME isBound' \in BOOLEAN, clock' \in Name, work' \in [Save -> Work],
              \A c \in Save : work'[c] = work[c] \/ (work[c] = "prompt" /\ work'[c] = "disposed"),
              UNCHANGED <<os, obliging, granted, name, disc, into, outcome, answer>>
       PROVE  SaveInv'
  <2>1. SaveTypeOK' /\ Posted'
    BY <1>12 DEF SaveInv, SaveTypeOK, Posted
  <2>2. AnsweredLast'
    BY <1>12 DEF SaveInv, AnsweredLast, Throws, ToldOk
  <2>3. Occupied' /\ OkIsStored'
    BY <1>12 DEF SaveInv, Occupied, OkIsStored, StoredBy, SameFile, MediaGives, ToldOk
  <2>. QED BY <2>1, <2>2, <2>3 DEF SaveInv
<1>13. work \in [Save -> Work]
  BY DEF SaveInv, SaveTypeOK
<1>14. CASE Tick
  <2>1. clock' \in Name
    BY <1>0, <1>14, SaveAssumption DEF Tick, Name
  <2>. QED BY <1>0, <1>12, <1>13, <1>14, <2>1 DEF Tick, saveChoice
<1>15. CASE Screen_Bind \/ UNCHANGED saveVars
  BY <1>0, <1>12, <1>13, <1>15 DEF Screen_Bind, saveVars, saveChoice
<1>16. CASE Screen_Dispose
  <2>1. work' \in [Save -> Work] /\ isBound' \in BOOLEAN
    BY <1>13, <1>16 DEF Screen_Dispose, Work
  <2>2. \A c \in Save : work'[c] = work[c] \/ (work[c] = "prompt" /\ work'[c] = "disposed")
    BY <1>16 DEF Screen_Dispose
  <2>. QED BY <1>0, <1>12, <1>16, <2>1, <2>2 DEF Screen_Dispose, saveChoice
<1>. QED BY <1>3, <1>4, <1>5, <1>6, <1>7, <1>8, <1>9, <1>10, <1>11, <1>14, <1>15, <1>16
         DEF SaveNext, SaveRuns

(* The page is called back at most once, unless a callback of the desktop     *)
(* throws, and an "ok" is true, unless MediaStore gave nothing to write to or *)
(* another file took the same name: for any number of calls, however they     *)
(* overlap.                                                                  *)
THEOREM AnswersAreTrue == SaveSpec => []AnswerIsTrue
<1>1. SaveInv => AnswerIsTrue
  <2> SUFFICES ASSUME SaveInv, NEW c \in Save
               PROVE  /\ (os = "desktop" => obliging) => AnsweredOnce(c)
                      /\ ToldOk(c) /\ (os = "android10" => obliging) =>
                             \/ disc[<<name[c], into[c]>>] = c
                             \/ \E d \in Save \ {c} : SameFile(c, d)
    BY DEF AnswerIsTrue
  <2>1. (os = "desktop" => obliging) => AnsweredOnce(c)
    <3> SUFFICES ASSUME ~Throws PROVE Len(answer[c]) <= 1
      BY DEF Throws, AnsweredOnce
    <3>1. answer[c] = <<>> \/ \E o \in Outcome : answer[c] = <<o>>
      BY DEF SaveInv, AnsweredLast
    <3>2. CASE answer[c] = <<>>
      BY <3>2
    <3>3. CASE \E o \in Outcome : answer[c] = <<o>>
      <4>1. PICK o \in Outcome : answer[c] = <<o>>
        BY <3>3
      <4>. QED BY <4>1
    <3>. QED BY <3>1, <3>2, <3>3
  <2>. QED BY <2>1 DEF SaveInv, OkIsStored, MediaGives
<1>. QED BY <1>1, SaveStarts, SaveKept, PTL DEF SaveSpec

-----------------------------------------------------------------------------
(* The types of the application.  Those of DeviceId need that whoever stores  *)
(* an id has made one up (IdShape).                                          *)
IdTypes == IdInv /\ IdTypeOK

(* Whoever returns an id gives one that was made up, or the empty one.       *)
LEMMA ReturnTyped ==
    ASSUME IdTypes, NEW c \in Caller, NEW id \in (1..MaxId) \cup {NoId, Empty},
           Return(c, id)
    PROVE  /\ cached' \in (1..MaxId) \cup {NoId, Empty}
           /\ given' \subseteq (1..MaxId) \cup {Empty}
  BY DEF IdTypes, IdTypeOK, Return

(* No step gives or remembers anything but an id.                            *)
LEMMA IdTypesKept == IdTypes /\ [IdNext]_idVars => IdTypes'
<1> SUFFICES ASSUME IdTypes, [IdNext]_idVars PROVE IdTypes'
  OBVIOUS
<1>. USE DEF idChoice
<1>1. IdInv'
  BY IdInvStep DEF IdTypes
<1>2. \A c \in Caller : pc[c] # "idle" => fresh[c] \in 1..MaxId
  BY DEF IdTypes, IdInv, IdShape
<1>3. Usable \subseteq (1..MaxId) \cup {Empty}
  BY DEF Usable, IdTypes, IdTypeOK
<1>4. /\ cached' \in (1..MaxId) \cup {NoId, Empty}
      /\ given' \subseteq (1..MaxId) \cup {Empty}
      /\ UNCHANGED idChoice
  <2>1. CASE Id_Kill
    BY <2>1 DEF Id_Kill, IdTypes, IdTypeOK
  <2>2. ASSUME NEW c \in Caller, Id_Read(c) PROVE <1>4
    <3>1. CASE MakeUp(c)
      BY <2>2, <3>1 DEF Id_Read, MakeUp, IdTypes, IdTypeOK
    <3>2. ASSUME NEW id \in Usable, Return(c, id) PROVE <1>4
      BY <1>3, <2>2, <3>2, ReturnTyped DEF Id_Read
    <3>3. CASE Return(c, NoId)
      BY <2>2, <3>3, ReturnTyped DEF Id_Read
    <3>4. CASE Return(c, cached)
      BY <2>2, <3>4, ReturnTyped DEF Id_Read, IdTypes, IdTypeOK
    <3>. QED BY <2>2, <3>1, <3>2, <3>3, <3>4 DEF Id_Read
  <2>3. ASSUME NEW c \in Caller, Id_Clear(c) PROVE <1>4
    BY <2>3 DEF Id_Clear, IdTypes, IdTypeOK
  <2>4. ASSUME NEW c \in Caller, Id_Store(c) PROVE <1>4
    BY <1>2, <2>4, ReturnTyped DEF Id_Store
  <2>5. ASSUME NEW c \in Caller, Id_StoreFails(c) PROVE <1>4
    <3>1. (IF platform = "ios" THEN fresh[c] ELSE NoId) \in (1..MaxId) \cup {NoId, Empty}
      BY <1>2, <2>5 DEF Id_StoreFails
    <3>. QED BY <2>5, <3>1, ReturnTyped DEF Id_StoreFails
  <2>6. CASE UNCHANGED idVars
    BY <2>6 DEF idVars, IdTypes, IdTypeOK
  <2>. QED BY <2>1, <2>2, <2>3, <2>4, <2>5, <2>6 DEF IdNext
<1>. QED BY <1>1, <1>4 DEF IdTypes, IdTypeOK, IdInv, IdShape

(* The ids keep to their types: nothing but an id that was made up, or the    *)
(* empty one a kill left in the file, is ever cached or given.               *)
THEOREM IdTyped == IdSpec => []IdTypeOK
<1>1. IdInit => IdTypes
  <2>1. IdInit => IdTypeOK
    BY DeviceIdAssumption DEF IdInit, IdTypeOK
  <2>. QED BY <2>1, IdInvInit DEF IdTypes
<1>2. IdTypes => IdTypeOK
  BY DEF IdTypes
<1>. QED BY <1>1, <1>2, IdTypesKept, PTL DEF IdSpec

(* The page and its updates keep to their types.                             *)
THEOREM SyncTyped == SyncInit /\ [][SyncNext]_syncVars => []SyncTypeOK
<1>1. SyncInv => SyncTypeOK
  BY DEF SyncInv
<1>. QED BY <1>1, SyncStarts, SyncKept, PTL

(* The files and their answers keep to their types.                          *)
THEOREM SaveTyped == SaveSpec => []SaveTypeOK
<1>1. SaveInv => SaveTypeOK
  BY DEF SaveInv
<1>. QED BY <1>1, SaveStarts, SaveKept, PTL DEF SaveSpec

-----------------------------------------------------------------------------
(* SimulatedSip: an event is emitted only where there is room for it.        *)

(* Launching a coroutine.                                                    *)
LEMMA LaunchedJob ==
    ASSUME SimTypeOK, NEW k \in {"call", "hangup"}, SimLaunch(k) PROVE SimTypeOK'
<1>1. jobs' \in 0..MaxJob /\ jobs' \in Job /\ jobs' = jobs + 1 /\ jobs \in Nat
  BY SimAssumption DEF SimTypeOK, SimLaunch, Job
<1>2. dropped' \subseteq 1..jobs'
  <2>1. {jobs} \ {0} \subseteq 1..jobs' /\ 1..jobs \subseteq 1..jobs'
    BY <1>1
  <2>. QED BY <2>1 DEF SimTypeOK, SimLaunch
<1>3. kind' \in [Job -> {"none", "call", "hangup"}] /\ at' \in [Job -> SimStage]
  BY <1>1 DEF SimTypeOK, SimLaunch, SimStage
<1>. QED BY <1>1, <1>2, <1>3 DEF SimTypeOK, SimLaunch

(* Emitting an event.                                                        *)
LEMMA EmitTyped ==
    ASSUME SimTypeOK, NEW n \in Job, NEW ev \in {"ringing", "established", "closed"},
           SimEmit(n, ev)
    PROVE  simFlow' \in Seq(SimEvent) /\ Len(simFlow') <= SimBuffer
<1>1. [ev |-> ev, of |-> n] \in SimEvent
  BY DEF SimEvent
<1>2. simFlow \in Seq(SimEvent) /\ Len(simFlow) < SimBuffer /\ Len(simFlow) \in Nat
  BY DEF SimTypeOK, SimEmit
<1>3. simFlow' = Append(simFlow, [ev |-> ev, of |-> n])
  BY DEF SimEmit
<1>4. simFlow' \in Seq(SimEvent) /\ Len(simFlow') = Len(simFlow) + 1
  BY <1>1, <1>2, <1>3
<1>. QED BY <1>2, <1>4, SimAssumption

(* No step of a coroutine or of the application leaves the types.            *)
LEMMA SimKept == SimTypeOK /\ [SimNext]_simVars => SimTypeOK'
<1> SUFFICES ASSUME SimTypeOK, [SimNext]_simVars PROVE SimTypeOK'
  OBVIOUS
<1>1. CASE Sim_PlaceCall \/ Sim_Hangup
  BY <1>1, LaunchedJob DEF Sim_PlaceCall, Sim_Hangup
<1>2. CASE Sim_Shutdown
  BY <1>2 DEF Sim_Shutdown, SimTypeOK
<1>3. CASE Sim_Collect
  <2>1. Head(simFlow) \in SimEvent
    BY <1>3 DEF Sim_Collect, SimTypeOK
  <2>2. Tail(simFlow) \in Seq(SimEvent) /\ Len(Tail(simFlow)) = Len(simFlow) - 1
        /\ Len(simFlow) \in Nat
    BY <1>3 DEF Sim_Collect, SimTypeOK
  <2>3. Len(simFlow') <= SimBuffer
    BY <1>3, <2>2, SimAssumption DEF Sim_Collect, SimTypeOK
  <2>. QED BY <1>3, <2>1, <2>2, <2>3 DEF Sim_Collect, SimTypeOK
<1>4. ASSUME NEW n \in Job, SimJobRuns(n) PROVE SimTypeOK'
  <2>. USE DEF KeepRest, Goes, SimStage
  <2>1. at' \in [Job -> SimStage]
    BY <1>4 DEF SimTypeOK, SimJobRuns, Sim_Cancelled, Sim_Begin, Sim_Wake,
                Sim_Ring, Sim_Establish, Sim_Close
  <2>2. UNCHANGED <<jobs, kind, dropped, simLive, simHeard>>
    BY <1>4 DEF SimJobRuns, Sim_Cancelled, Sim_Begin, Sim_Wake,
                Sim_Ring, Sim_Establish, Sim_Close, SimEmit
  <2>3. UNCHANGED simFlow
        \/ \E ev \in {"ringing", "established", "closed"} : SimEmit(n, ev)
    BY <1>4 DEF SimJobRuns, Sim_Cancelled, Sim_Begin, Sim_Wake,
                Sim_Ring, Sim_Establish, Sim_Close
  <2>4. simFlow' \in Seq(SimEvent) /\ Len(simFlow') <= SimBuffer
    BY <2>3, EmitTyped DEF SimTypeOK
  <2>. QED BY <2>1, <2>2, <2>4 DEF SimTypeOK
<1>5. CASE UNCHANGED simVars
  BY <1>5 DEF simVars, SimTypeOK
<1>. QED BY <1>1, <1>2, <1>3, <1>4, <1>5 DEF SimNext

\* Before the first operation.
LEMMA SimStarts == SimInit => SimTypeOK
<1>1. 0 \in 0..MaxJob /\ 0 <= SimBuffer
  BY SimAssumption
<1>2. SimInit => simFlow \in Seq(SimEvent) /\ Len(simFlow) = 0 /\ dropped = {}
  BY DEF SimInit
<1>. QED BY <1>1, <1>2 DEF SimInit, SimTypeOK, SimStage

(* The simulated engine keeps to its types: its event flow never holds more   *)
(* than its buffer, and only coroutines that were launched are cancelled.    *)
THEOREM SimTyped == SimInit /\ [][SimNext]_simVars => []SimTypeOK
  BY SimStarts, SimKept, PTL

(* What the last operation's outcome rests on: it is emitted by its own       *)
(* coroutine and is not lost.                                                *)
Report(n) == [ev |-> IF kind[n] = "call" THEN "established" ELSE "closed", of |-> n]
Waits(e) == \E i \in 1..Len(simFlow) : simFlow[i] = e

\* Only a call rings and is established, only a hangup closes.
RightWay(n) ==
    /\ n > jobs <=> at[n] = "none"
    /\ at[n] \in {"delay1", "ring", "delay2", "establish"} => kind[n] = "call"
    /\ at[n] = "close" => kind[n] # "call"

ReportIsKept ==
    \A n \in Job : at[n] = "done" /\ n \notin dropped /\ simLive
                   => Report(n) \in simHeard \/ Waits(Report(n))

SimInv == SimTypeOK /\ (\A n \in Job : RightWay(n)) /\ ReportIsKept

\* An event in the flow waits on until it is heard.
LEMMA WaitsOn ==
    ASSUME SimTypeOK, [SimNext]_simVars, NEW e, e \in simHeard \/ Waits(e)
    PROVE  e \in simHeard' \/ Waits(e)'
<1>0. simFlow \in Seq(SimEvent)
  BY DEF SimTypeOK
<1>1. CASE UNCHANGED <<simFlow, simHeard>>
  BY <1>1 DEF Waits
<1>2. ASSUME NEW n \in Job, NEW ev, SimEmit(n, ev) PROVE e \in simHeard' \/ Waits(e)'
  <2> DEFINE x == [ev |-> ev, of |-> n]
  <2>1. simFlow' = Append(simFlow, x) /\ UNCHANGED simHeard
    BY <1>2 DEF SimEmit, KeepRest
  <2>. HIDE DEF x
  <2>2. \A i \in 1..Len(simFlow) : i \in 1..Len(simFlow') /\ simFlow'[i] = simFlow[i]
    BY <1>0, <2>1
  <2>. QED BY <2>1, <2>2 DEF Waits
<1>3. CASE Sim_Collect
  <2>1. ASSUME NEW i \in 1..Len(simFlow), simFlow[i] = e PROVE e \in simHeard' \/ Waits(e)'
    <3>1. CASE i = 1
      BY <1>0, <1>3, <2>1, <3>1 DEF Sim_Collect
    <3>2. CASE i # 1
      <4>1. i - 1 \in 1..Len(simFlow') /\ simFlow'[i - 1] = simFlow[i]
        BY <1>0, <1>3, <2>1, <3>2 DEF Sim_Collect
      <4>. QED BY <2>1, <4>1 DEF Waits
    <3>. QED BY <3>1, <3>2
  <2>. QED BY <1>3, <2>1 DEF Sim_Collect, Waits
<1>4. ASSUME NEW n \in Job, SimJobRuns(n) PROVE e \in simHeard' \/ Waits(e)'
  BY <1>1, <1>2, <1>4 DEF SimJobRuns, Sim_Cancelled, Sim_Begin, Sim_Wake, Sim_Ring,
     Sim_Establish, Sim_Close, KeepRest
<1>. QED BY <1>1, <1>3, <1>4
         DEF SimNext, Sim_PlaceCall, Sim_Hangup, SimLaunch, Sim_Shutdown, simVars

\* A step of one coroutine: it ends cancelled, or with its report.
LEMMA OneJobKeeps ==
    ASSUME SimInv, NEW n \in Job, SimJobRuns(n)
    PROVE  (\A m \in Job : RightWay(m)') /\ ReportIsKept'
<1>. USE DEF Goes, KeepRest
<1>0. /\ UNCHANGED <<jobs, kind, dropped, simLive, simHeard>>
      /\ at' = [at EXCEPT ![n] = at'[n]] /\ at \in [Job -> SimStage]
  BY DEF SimInv, SimTypeOK, SimJobRuns, Sim_Cancelled, Sim_Begin, Sim_Wake, Sim_Ring,
     Sim_Establish, Sim_Close, SimEmit
<1>1. \A m \in Job \ {n} : at'[m] = at[m]
  BY <1>0
<1>2. RightWay(n)' /\ (at'[n] = "done" => n \in dropped \/ at[n] \in {"establish", "close"})
  BY <1>0 DEF SimInv, SimTypeOK, RightWay, SimJobRuns, Sim_Cancelled, Sim_Begin, Sim_Wake,
     Sim_Ring, Sim_Establish, Sim_Close, SimEmit
<1>3. ASSUME at'[n] = "done", n \notin dropped PROVE Waits(Report(n))'
  <2>1. simFlow' = Append(simFlow, Report(n))
    <3>1. Sim_Establish(n) \/ Sim_Close(n)
      BY <1>0, <1>3 DEF SimInv, SimTypeOK, SimJobRuns, Sim_Cancelled, Sim_Begin, Sim_Wake,
         Sim_Ring
    <3>2. CASE Sim_Establish(n)
      BY <3>2 DEF Sim_Establish, SimEmit, Report, SimInv, RightWay
    <3>3. CASE Sim_Close(n)
      BY <3>3 DEF Sim_Close, SimEmit, Report, SimInv, RightWay
    <3>. QED BY <3>1, <3>2, <3>3
  <2>2. Len(simFlow') \in 1..Len(simFlow') /\ simFlow'[Len(simFlow')] = Report(n)
    BY <2>1 DEF SimInv, SimTypeOK
  <2>3. Report(n)' = Report(n)
    BY <1>0 DEF Report
  <2>. QED BY <2>2, <2>3 DEF Waits
<1>4. \A m \in Job \ {n} : RightWay(m)'
  BY <1>0, <1>1 DEF SimInv, RightWay
<1>5. ASSUME NEW m \in Job \ {n}, at'[m] = "done", m \notin dropped', simLive'
      PROVE  Report(m)' \in simHeard' \/ Waits(Report(m))'
  <2>1. Report(m)' = Report(m) /\ (Report(m) \in simHeard \/ Waits(Report(m)))
    BY <1>0, <1>1, <1>5 DEF SimInv, ReportIsKept, Report
  <2>2. SimTypeOK /\ [SimNext]_simVars
    BY DEF SimInv, SimNext
  <2>3. PICK e : e = Report(m) /\ (e \in simHeard \/ Waits(e))
    BY <2>1
  <2>4. e \in simHeard' \/ Waits(e)'
    BY <2>2, <2>3, WaitsOn
  <2>. QED BY <2>1, <2>3, <2>4 DEF Waits
<1>. QED BY <1>0, <1>2, <1>3, <1>4, <1>5 DEF ReportIsKept

\* Nor does any other step lose a report.
LEMMA ReportKept == SimInv /\ [SimNext]_simVars => SimInv'
<1> SUFFICES ASSUME SimInv, [SimNext]_simVars PROVE SimInv'
  OBVIOUS
<1>1. SimTypeOK'
  BY SimKept DEF SimInv
<1>2. ASSUME NEW n \in Job, SimJobRuns(n) PROVE SimInv'
  BY <1>1, <1>2, OneJobKeeps DEF SimInv
<1>3. CASE Sim_PlaceCall \/ Sim_Hangup
  <2>1. PICK k \in {"call", "hangup"} : SimLaunch(k)
    BY <1>3 DEF Sim_PlaceCall, Sim_Hangup
  <2>2. /\ jobs' = jobs + 1 /\ jobs' \in Job /\ jobs \in Nat
        /\ kind' = [kind EXCEPT ![jobs'] = k]
        /\ at' = [at EXCEPT ![jobs'] = IF simLive THEN "launched" ELSE "done"]
        /\ dropped \subseteq dropped' /\ UNCHANGED <<simLive, simFlow, simHeard>>
    BY <2>1, SimAssumption DEF SimLaunch, SimInv, SimTypeOK, Job
  <2>3. ASSUME NEW n \in Job, n # jobs' PROVE kind'[n] = kind[n] /\ at'[n] = at[n]
                                              /\ (n > jobs <=> n > jobs')
    BY <2>2, <2>3 DEF SimInv, SimTypeOK, Job
  <2>4. at'[jobs'] \in {"launched", "done"} /\ (at'[jobs'] = "done" => ~simLive)
    BY <2>2 DEF SimInv, SimTypeOK
  <2>5. \A n \in Job : RightWay(n)'
    BY <2>2, <2>3, <2>4 DEF SimInv, RightWay
  <2>6. ReportIsKept'
    BY <2>2, <2>3, <2>4 DEF SimInv, ReportIsKept, Report, Waits
  <2>. QED BY <1>1, <2>5, <2>6 DEF SimInv
<1>4. CASE Sim_Shutdown
  BY <1>1, <1>4 DEF Sim_Shutdown, SimInv, ReportIsKept, RightWay
<1>5. CASE Sim_Collect \/ UNCHANGED simVars
  <2>1. UNCHANGED <<jobs, kind, at, dropped, simLive>>
    BY <1>5 DEF Sim_Collect, simVars
  <2>2. ASSUME NEW n \in Job, at'[n] = "done", n \notin dropped', simLive'
        PROVE  Report(n)' \in simHeard' \/ Waits(Report(n))'
    <3>0. PICK e : e = Report(n)
      OBVIOUS
    <3>1. Report(n)' = e /\ (e \in simHeard \/ Waits(e))
      BY <2>1, <2>2, <3>0 DEF SimInv, ReportIsKept, Report
    <3>2. e \in simHeard' \/ Waits(e)'
      BY <3>1, WaitsOn DEF SimInv
    <3>. QED BY <3>1, <3>2 DEF Waits
  <2>. QED BY <1>1, <2>1, <2>2 DEF SimInv, ReportIsKept, RightWay
<1>. QED BY <1>2, <1>3, <1>4, <1>5 DEF SimNext

(* An operation of the simulated engine whose coroutine is over, and which no *)
(* later one and no shutdown has cancelled, has had its outcome emitted: the  *)
(* application has heard it or will find it in the flow.                     *)
THEOREM ReportsKept == SimInit /\ [][SimNext]_simVars => []ReportIsKept
<1>1. SimInit => SimInv
  <2>1. SimInit => SimTypeOK
    BY SimStarts
  <2>2. SimInit => (\A n \in Job : RightWay(n)) /\ ReportIsKept
    BY SimAssumption DEF SimInit, RightWay, ReportIsKept, Job
  <2>. QED BY <2>1, <2>2 DEF SimInv
<1>2. SimInv => ReportIsKept
  BY DEF SimInv
<1>. QED BY <1>1, <1>2, ReportKept, PTL

-----------------------------------------------------------------------------
(* No step of the main thread or of a player leaves the types of Ringback.   *)
LEMMA RingKept == RingTypeOK /\ [RingNext]_ringVars => RingTypeOK'
<1> SUFFICES ASSUME RingTypeOK, [RingNext]_ringVars PROVE RingTypeOK'
  OBVIOUS
<1>1. CASE StartRingback
  <2>1. players' \in 1..MaxPlayer /\ players' \in 0..MaxPlayer /\ players' \in 1..players'
    BY <1>1, RingbackAssumption DEF StartRingback, RingTypeOK
  <2>. QED BY <1>1, <2>1 DEF StartRingback, RingTypeOK, Player, PlayerState
<1>2. CASE StopRingback
  BY <1>2 DEF StopRingback, RingTypeOK, PlayerState
<1>3. ASSUME NEW p \in Player, PlayerRuns(p) PROVE RingTypeOK'
  BY <1>3 DEF PlayerRuns, Player_Test, Player_StartTone, Player_Wait, Player_WaitEnds,
              PlayerGoes, RingTypeOK, PlayerState
<1>4. CASE UNCHANGED ringVars
  BY <1>4 DEF ringVars, RingTypeOK
<1>. QED BY <1>1, <1>2, <1>3, <1>4 DEF RingNext

(* The ringback tone keeps to its types: the field holds a player that was    *)
(* created, or none.                                                         *)
THEOREM RingTyped == RingInit /\ [][RingNext]_ringVars => []RingTypeOK
<1>1. RingInit => RingTypeOK
  BY RingbackAssumption DEF RingInit, RingTypeOK, PlayerState
<1>. QED BY <1>1, RingKept, PTL

(* What the end of a forgotten player rests on.                              *)
OnlyFieldPlays ==
    \A p \in Player : /\ playing[p] => tonePlayer = p
                      /\ p > players => where[p] = "none" /\ ~playing[p]

(* Only the player in the field mTonePlayer may go on playing: stopTone has   *)
(* reset mPlaying of every other, whether or not its notification was missed, *)
(* so that its next test of mPlaying ends it.                                *)
THEOREM FieldPlays == RingInit /\ [][RingNext]_ringVars => []OnlyFieldPlays
<1>1. RingInit => OnlyFieldPlays
  BY DEF RingInit, OnlyFieldPlays
<1>2. RingTypeOK /\ OnlyFieldPlays /\ [RingNext]_ringVars => OnlyFieldPlays'
  <2> SUFFICES ASSUME RingTypeOK, OnlyFieldPlays, [RingNext]_ringVars
               PROVE  OnlyFieldPlays'
    OBVIOUS
  <2>. USE DEF OnlyFieldPlays
  <2>1. CASE StartRingback
    <3>1. players' = players + 1 /\ players \in Nat /\ tonePlayer' = players'
      BY <2>1 DEF StartRingback, RingTypeOK
    <3>2. ASSUME NEW p \in Player, p # players'
          PROVE  playing'[p] = playing[p] /\ where'[p] = where[p] /\ ~playing[p]
                 /\ (p > players' => p > players)
      BY <2>1, <3>1, <3>2, RingbackAssumption DEF StartRingback, RingTypeOK, Player
    <3>. QED BY <3>1, <3>2
  <2>2. CASE StopRingback
    BY <2>2 DEF StopRingback, RingTypeOK, Player
  <2>3. ASSUME NEW p \in Player, PlayerRuns(p) PROVE OnlyFieldPlays'
    BY <2>3 DEF PlayerRuns, Player_Test, Player_StartTone, Player_Wait, Player_WaitEnds,
                PlayerGoes, RingTypeOK
  <2>4. CASE UNCHANGED ringVars
    BY <2>4 DEF ringVars
  <2>. QED BY <2>1, <2>2, <2>3, <2>4 DEF RingNext
<1>. QED BY <1>1, <1>2, RingTyped, PTL

-----------------------------------------------------------------------------
(* MCApp runs one part at a time.                                            *)

(* Every part makes its own steps there, or none: what is proved of a part    *)
(* by itself holds of it in the application.                                 *)
THEOREM PartsOfApp ==
    AppSpec => /\ TokenSpec /\ IdSpec /\ SaveSpec
               /\ SyncInit /\ [][SyncNext]_syncVars
               /\ SimInit /\ [][SimNext]_simVars
               /\ RingInit /\ [][RingNext]_ringVars
<1>1. [AppNext]_<<appVars, soundVars, part>> =>
        /\ [TokenNext]_tokenVars /\ [SyncNext]_syncVars /\ [IdNext]_idVars
        /\ [SaveNext]_saveVars /\ [SimNext]_simVars /\ [RingNext]_ringVars
  BY DEF AppNext, Only, appVars, soundVars
<1>2. AppInit => TokenInit /\ SyncInit /\ IdInit /\ SaveInit /\ SimInit /\ RingInit
  BY DEF AppInit
<1>. QED BY <1>1, <1>2, PTL DEF AppSpec, TokenSpec, IdSpec, SaveSpec

(* The variables of every part of the application keep to their types, for    *)
(* any number of tokens, senders, attempts, callers, files, runs, operations  *)
(* and players.                                                              *)
THEOREM AppTyped == AppSpec => []AppTypes
<1>1. TokenTypeOK /\ SyncTypeOK /\ IdTypeOK /\ SaveTypeOK /\ SimTypeOK /\ RingTypeOK
        => AppTypes
  BY DEF AppTypes
<1>. QED BY <1>1, PartsOfApp, TokenTyped, SyncTyped, IdTyped, SaveTyped, SimTyped,
            RingTyped, PTL

=============================================================================
