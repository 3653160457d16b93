------------------------------- MODULE DeviceId -------------------------------
(***************************************************************************)
(* The id that Installation makes up on its first call and must give ever    *)
(* after: installId of Android (a file, a cache and a monitor), readOrCreate *)
(* of the JVM (a file), deviceId of iOS (an item of the keychain).           *)
(*                                                                          *)
(* The process may be killed at any step; the file or item survives.  A      *)
(* fresh id has never been made up before.  PushToken needs ids that do not  *)
(* change (its variable stable).                                             *)
(***************************************************************************)
EXTENDS Naturals, FiniteSets

CONSTANTS
    Caller,       \* threads that ask for the id
    MaxId,        \* bound: ids made up
    Absent,       \* no file or item
    Empty,        \* a file with nothing in it; the empty id
    NoId          \* null

ASSUME DeviceIdAssumption ==
    /\ MaxId \in Nat \ {0}
    /\ Cardinality({Absent, Empty, NoId}) = 3
    /\ {Absent, Empty, NoId} \cap (1..MaxId) = {}

VARIABLES
    platform,     \* "android", "jvm" or "ios": fixed at the start
    overlap,      \* two threads may ask at the same time: fixed at the start
    faulty,       \* the keychain or file system may refuse: fixed at the start
    made,         \* ids made up so far
    disk,         \* what the file or the keychain holds
    cached,       \* cachedInstallId of Android
    pc,           \* where each caller is
    fresh,        \* the id it has made up
    given         \* the ids that were returned (history)

idVars == <<platform, overlap, faulty, made, disk, cached, pc, fresh, given>>
idChoice == <<platform, overlap, faulty>>

IdInit ==
    /\ platform \in {"android", "jvm", "ios"}
    /\ overlap \in BOOLEAN /\ faulty \in BOOLEAN
    /\ made = 0 /\ disk = Absent /\ cached = NoId
    /\ pc = [c \in Caller |-> "idle"] /\ fresh = [c \in Caller |-> NoId]
    /\ given = {}

-----------------------------------------------------------------------------
NobodyElse(c) == \A d \in Caller \ {c} : pc[d] = "idle"

\* installId of Android is @Synchronized.
MayEnter(c) == (overlap /\ platform # "android") \/ NobodyElse(c)

Return(c, id) ==
    /\ pc' = [pc EXCEPT ![c] = "idle"]
    /\ fresh' = [fresh EXCEPT ![c] = NoId]
    /\ given' = given \cup ({id} \ {NoId})
    /\ cached' = IF platform = "android" THEN id ELSE cached

MakeUp(c) ==
    /\ made < MaxId
    /\ made' = made + 1
    /\ fresh' = [fresh EXCEPT ![c] = made']
    /\ pc' = [pc EXCEPT ![c] = "clear"]
    /\ UNCHANGED <<given, cached>>

\* What a stored value is good for: the JVM ignores an empty file.
Usable == {disk} \ (IF platform = "jvm" THEN {Absent, Empty} ELSE {Absent})

Id_Read(c) ==
    /\ pc[c] = "idle" /\ MayEnter(c)
    /\ IF cached # NoId THEN Return(c, cached) /\ UNCHANGED made
       ELSE \/ \E id \in Usable : Return(c, id) /\ UNCHANGED made
            \/ (Usable = {} \/ (faulty /\ platform = "ios")) /\ MakeUp(c)
            \/ faulty /\ platform # "ios" /\ Return(c, NoId) /\ UNCHANGED made
    /\ UNCHANGED <<idChoice, disk>>

\* Create or truncate the file; delete the item.
Id_Clear(c) ==
    /\ pc[c] = "clear"
    /\ disk' = IF platform = "ios" THEN Absent ELSE Empty
    /\ pc' = [pc EXCEPT ![c] = "store"]
    /\ UNCHANGED <<idChoice, made, cached, fresh, given>>

\* Mutant: only a file that did not exist is written.
Id_StoreNew(c) ==
    /\ pc[c] = "store"
    /\ disk' = IF disk = Absent THEN fresh[c] ELSE disk
    /\ Return(c, fresh[c])
    /\ UNCHANGED <<idChoice, made>>

Id_Store(c) ==
    /\ pc[c] = "store"
    /\ disk' = fresh[c]
    /\ Return(c, fresh[c])
    /\ UNCHANGED <<idChoice, made>>

\* SecItemAdd fails unnoticed; an exception leaves Android without an id and
\* ends the caller on the JVM.
Id_StoreFails(c) ==
    /\ faulty
    /\ pc[c] = "store"
    /\ Return(c, IF platform = "ios" THEN fresh[c] ELSE NoId)
    /\ UNCHANGED <<idChoice, made, disk>>

Id_Kill ==
    /\ cached # NoId \/ \E c \in Caller : pc[c] # "idle"
    /\ cached' = NoId
    /\ pc' = [c \in Caller |-> "idle"] /\ fresh' = [c \in Caller |-> NoId]
    /\ UNCHANGED <<idChoice, made, disk, given>>

IdNext == Id_Kill \/ \E c \in Caller : Id_Read(c) \/ Id_Clear(c) \/ Id_Store(c)
                                       \/ Id_StoreFails(c)

IdSpec == IdInit /\ [][IdNext]_idVars

-----------------------------------------------------------------------------
IdTypeOK ==
    /\ platform \in {"android", "jvm", "ios"} /\ {overlap, faulty} \subseteq BOOLEAN
    /\ made \in 0..MaxId /\ disk \in (1..MaxId) \cup {Absent, Empty}
    /\ cached \in (1..MaxId) \cup {NoId, Empty}
    /\ pc \in [Caller -> {"idle", "clear", "store"}]
    /\ fresh \in [Caller -> (1..MaxId) \cup {NoId}]
    /\ given \subseteq (1..MaxId) \cup {Empty}

(* Only one id is ever given, through kills at any step and restarts, as     *)
(* long as the storage works: on Android to any number of threads, thanks to *)
(* the monitor, elsewhere to one caller at a time.                           *)
IdIsStable ==
    (platform = "android" \/ ~overlap) /\ ~faulty => Cardinality(given) <= 1

=============================================================================
