------------------------------ MODULE InboxProofs ------------------------------
(***************************************************************************)
(* Inbox for any number of letters, users, threads and operations: it keeps *)
(* its types, never mixes mailboxes and never holds a letter twice, whatever*)
(* the texts and the interleavings; where one operation runs at a time its  *)
(* counts are right, and with plain texts it implements Mailbox.            *)
(***************************************************************************)
EXTENDS Inbox, FiniteSetTheorems, TLAPS

\* A thread is inside a profile only with an operation that changes one.
ProfileInv ==
    \A a \in Actor :
       pc[a] \in Profiling => job[a].op \in {"add", "restore", "delete", "read"}

\* The letters a thread holds, like those on the screen, belong to the mailbox
\* they are held for.
MemInv ==
    \A a \in Actor :
       pc[a] \in Profiling =>
         /\ \A l \in job[a].letters : To[l.id] = job[a].owner
         /\ pc[a] # "restorePublic" =>
              \A p \in mem[a] : To[p[1].id] = IF p[2] THEN job[a].owner ELSE NoUser

ScreenInv == \A e \in shown \cup detail \cup undo : To[e.letter.id] = e.owner

\* The inductive invariant: MailboxesSeparate alone says nothing of what a
\* thread is about to store.
SeparateInv == TypeOK /\ ProfileInv /\ MemInv /\ ScreenInv /\ MailboxesSeparate

-----------------------------------------------------------------------------
\* What reading an array back can return: letters of the array, cut off or not.
LEMMA DecodeType ==
    ASSUME NEW b, NEW S \in SUBSET Letter
    PROVE  /\ DecodeArray(b, S) \subseteq Letter
           /\ \A l \in DecodeArray(b, S) : \E m \in S : m.id = l.id
  BY DEF DecodeArray, Letter

\* A restored profile is typed.
LEMMA RestoredType ==
    ASSUME TypeOK, NEW b \in Box
    PROVE  Restored(b) \subseteq Letter \X BOOLEAN
  BY DecodeType DEF Restored, TypeOK

\* There are finitely many letters, so any profile can be counted.
LEMMA CountType ==
    ASSUME NEW P \in SUBSET (Letter \X BOOLEAN)
    PROVE  CountOf(P) \in Count
  <1>1. IsFiniteSet(Letter \X BOOLEAN)
    <2>1. IsFiniteSet(BOOLEAN)
      <3>1. IsFiniteSet({TRUE}) /\ IsFiniteSet({FALSE})
        BY FS_Singleton
      <3>2. BOOLEAN = {TRUE} \cup {FALSE}
        OBVIOUS
      <3>3. IsFiniteSet({TRUE} \cup {FALSE})
        BY <3>1, FS_Union, Zenon
      <3> QED BY <3>2, <3>3, Zenon
    <2>2. IsFiniteSet(Id \X (BOOLEAN \X BOOLEAN))
      BY <2>1, FS_Product, IdAssumption
    <2> DEFINE f == [t \in Id \X (BOOLEAN \X BOOLEAN) |->
                        [id |-> t[1], whole |-> t[2][1], unread |-> t[2][2]]]
    <2>3. f \in Surjection(Id \X (BOOLEAN \X BOOLEAN), Letter)
      <3>1. f \in [Id \X (BOOLEAN \X BOOLEAN) -> Letter]
        BY DEF Letter
      <3>2. ASSUME NEW l \in Letter
            PROVE  \E t \in Id \X (BOOLEAN \X BOOLEAN) : f[t] = l
        <4>1. <<l.id, <<l.whole, l.unread>>>> \in Id \X (BOOLEAN \X BOOLEAN)
          BY DEF Letter
        <4>2. f[<<l.id, <<l.whole, l.unread>>>>] = l
          BY <4>1 DEF Letter
        <4> QED BY <4>1, <4>2
      <3> QED BY <3>1, <3>2 DEF Surjection
    <2>4. IsFiniteSet(Letter)
      BY <2>2, <2>3, FS_Surjection
    <2> QED BY <2>1, <2>4, FS_Product
  <1>2. IsFiniteSet(P) /\ IsFiniteSet({p \in P : p[1].unread})
    BY <1>1, FS_Subset
  <1> QED BY <1>2, FS_CardinalityType DEF CountOf, Count

-----------------------------------------------------------------------------
\* The empty inbox is typed.
LEMMA InitType == Init => TypeOK
  <1> SUFFICES ASSUME Init PROVE TypeOK
    OBVIOUS
  <1>1. NoUser \in Box /\ Zero \in Count /\ Idle \in Job
    BY DEF Box, Zero, Count, Idle, Job, Op
  <1>2. /\ store \in [Box -> SUBSET Letter]
        /\ mem \in [Actor -> SUBSET (Letter \X BOOLEAN)]
    BY DEF Init
  <1>3. job \in [Actor -> Job] /\ loaded \in [Actor -> Box]
    BY <1>1 DEF Init
  <1>4. pc \in [Actor -> Label]
    BY DEF Init, Label
  <1>5. auth \in Box /\ login \in Box /\ counts \in Count /\ shownFor \in Count
    BY <1>1 DEF Init
  <1>6. /\ shown \subseteq Entry /\ detail \subseteq Entry /\ undo \subseteq Entry
        /\ fresh \in BOOLEAN
    BY DEF Init
  <1>7. ops \in 0..MaxOps
    BY BoundAssumption DEF Init
  <1> QED BY <1>2, <1>3, <1>4, <1>5, <1>6, <1>7 DEF TypeOK

\* An operation begins with the letters and the mailbox it is called with.
LEMMA BeginType ==
    ASSUME TypeOK, NEW a \in Actor, NEW op \in Op, NEW letters \in SUBSET Letter,
           NEW owner \in Box, NEW label \in Label,
           Begin(a, op, letters, owner, label),
           shown' \subseteq Entry, shownFor' \in Count, detail' \subseteq Entry,
           undo' \subseteq Entry
    PROVE  TypeOK'
  BY BoundAssumption DEF Begin, Goto, TypeOK, Job

\* What PushInbox.listInboxEntries lists is a set of entries.
LEMMA ListedType ==
    ASSUME TypeOK, NEW u \in Box PROVE Listed(u) \subseteq Entry
  <1>1. \A b \in Box : DecodeArray(b, store[b]) \subseteq Letter
    BY DecodeType DEF TypeOK
  <1>2. NoUser \in Box
    BY DEF Box
  <1> QED BY <1>1, <1>2 DEF Listed, Entry

\* Each thing the user does on the inbox screen keeps the types.
LEMMA ScreenType == TypeOK /\ Screen => TypeOK'
  <1> SUFFICES ASSUME TypeOK, Screen PROVE TypeOK'
    OBVIOUS
  <1> USE ActorAssumption
  <1>0. NoUser \in Box
    BY DEF Box
  <1>1. ASSUME NEW e \in InFront, Screen_Delete(e) PROVE TypeOK'
    BY <1>1, BeginType DEF Screen_Delete, InFront, TypeOK, Entry, Op, Label
  <1>2. ASSUME NEW e \in shown, Screen_Tap(e) PROVE TypeOK'
    BY <1>2, BeginType DEF Screen_Tap, TypeOK, Entry, Op, Label
  <1>3. ASSUME NEW e \in undo, Screen_Undo(e) PROVE TypeOK'
    BY <1>3, BeginType DEF Screen_Undo, TypeOK, Entry, Op, Label
  <1>4. CASE Screen_Forget
    BY <1>4 DEF Screen_Forget, TypeOK, threadVars
  <1>5. CASE Screen_Recompose
    BY <1>5, ListedType DEF Screen_Recompose, TypeOK, threadVars
  <1>6. CASE Screen_Reopen
    BY <1>6, ListedType DEF Screen_Reopen, TypeOK, threadVars
  <1>7. CASE Launch
    BY <1>0, <1>7, BeginType DEF Launch, screenVars, TypeOK, Op, Label
  <1>8. ASSUME NEW e \in shown, Screen_Detail(e) PROVE TypeOK'
    BY <1>8 DEF Screen_Detail, TypeOK, threadVars
  <1>9. CASE Screen_CloseDetail
    BY <1>9 DEF Screen_CloseDetail, TypeOK, threadVars
  <1>10. ASSUME NEW n \in Drawn, Test(n) PROVE TypeOK'
    <2>1. counts' \in Count /\ ops' \in 0..MaxOps
      BY <1>10, BoundAssumption DEF Test, TypeOK, Count
    <2> QED BY <1>10, <2>1 DEF Test, TypeOK, threadVars
  <1> QED BY <1>1, <1>2, <1>3, <1>4, <1>5, <1>6, <1>7, <1>8, <1>9, <1>10 DEF Screen

\* Each push that arrives and each login or logout keeps the types.
LEMMA CallType == TypeOK /\ Call => TypeOK'
  <1> SUFFICES ASSUME TypeOK, Call PROVE TypeOK'
    OBVIOUS
  <1>1. ASSUME NEW a \in Actor, NEW i \in Id, Receive(a, i) PROVE TypeOK'
    <2>1. {Arrived(i)} \in SUBSET Letter /\ To[i] \in Box
      BY ToAssumption DEF Arrived, Letter
    <2>2. "add" \in Op /\ "restorePublic" \in Label
      BY DEF Op, Label
    <2>3. /\ shown' \subseteq Entry /\ shownFor' \in Count
          /\ detail' \subseteq Entry /\ undo' \subseteq Entry
      BY <1>1 DEF Receive, screenVars, TypeOK
    <2> QED BY <1>1, <2>1, <2>2, <2>3, BeginType DEF Receive
  <1>2. ASSUME NEW a \in Actor, NEW u \in Box, Authorize(a, u) PROVE TypeOK'
    BY <1>2, BeginType DEF Authorize, screenVars, TypeOK, Op, Label
  <1> QED BY <1>1, <1>2 DEF Call

\* What an operation makes of a profile is a profile.
LEMMA ChangedType ==
    ASSUME TypeOK, NEW a \in Actor,
           job[a].op \in {"add", "restore", "delete", "read"}
    PROVE  Changed(a) \subseteq Letter \X BOOLEAN
  <1>1. mem[a] \subseteq Letter \X BOOLEAN /\ job[a].letters \subseteq Letter
    BY DEF TypeOK, Job
  <1>2. CASE job[a].op \in {"add", "restore"}
    BY <1>1, <1>2 DEF Changed
  <1>3. CASE job[a].op = "delete"
    BY <1>1, <1>3 DEF Changed
  <1>4. CASE job[a].op = "read"
    <2>1. \A p \in mem[a] : <<[p[1] EXCEPT !.unread = FALSE], p[2]>> \in Letter \X BOOLEAN
      BY <1>1 DEF Letter
    <2> QED BY <1>1, <1>4, <2>1 DEF Changed
  <1> QED BY <1>2, <1>3, <1>4

\* Each step of a thread keeps the types.
LEMMA StepType == ASSUME TypeOK, NEW a \in Actor, Step(a), ProfileInv PROVE TypeOK'
  <1> USE DEF Goto, screenVars, Label
  <1>0. NoUser \in Box
    BY DEF Box
  <1>1. CASE RestorePublic(a)
    BY <1>0, <1>1, RestoredType DEF RestorePublic, TypeOK
  <1>2. CASE RestoreUser(a)
    BY <1>2, RestoredType DEF RestoreUser, TypeOK, Job
  <1>3. CASE Change(a)
    <2>1. Changed(a) \subseteq Letter \X BOOLEAN
      BY <1>3, ChangedType DEF Change, ProfileInv, Profiling
    <2>2. /\ mem' = [mem EXCEPT ![a] = Changed(a)]
          /\ \E label \in {"idle", "storePublic", "storePrivate"} :
                pc' = [pc EXCEPT ![a] = label]
      BY <1>3 DEF Change
    <2>3. mem' \in [Actor -> SUBSET (Letter \X BOOLEAN)] /\ pc' \in [Actor -> Label]
      BY <2>1, <2>2 DEF TypeOK
    <2> QED BY <1>3, <2>3 DEF Change, TypeOK
  <1>4. CASE StorePrivate(a)
    <2>1. InBox(mem[a], TRUE) \subseteq Letter
      BY DEF InBox, TypeOK
    <2> QED BY <1>4, <2>1 DEF StorePrivate, TypeOK, Job
  <1>5. CASE StorePublic(a)
    <2>1. InBox(mem[a], FALSE) \subseteq Letter
      BY DEF InBox, TypeOK
    <2> QED BY <1>5, <2>1 DEF StorePublic, TypeOK
  <1>6. CASE SaveAuth(a)
    BY <1>6 DEF SaveAuth, TypeOK, Job
  <1>7. CASE SetSession(a)
    BY <1>7 DEF SetSession, TypeOK, Job
  <1>8. CASE LoadAuth(a)
    BY <1>8 DEF LoadAuth, TypeOK
  <1>9. CASE RestoreSession(a)
    BY <1>9 DEF RestoreSession, TypeOK
  <1>10. CASE CountPublic(a)
    BY <1>0, <1>10, RestoredType DEF CountPublic, TypeOK
  <1>11. CASE CountPrivate(a)
    BY <1>11, RestoredType DEF CountPrivate, TypeOK
  <1>12. CASE Publish(a)
    BY <1>12, CountType DEF Publish, TypeOK
  <1> QED BY <1>1, <1>2, <1>3, <1>4, <1>5, <1>6, <1>7, <1>8, <1>9, <1>10,
             <1>11, <1>12 DEF Step

\* A process killed at any point keeps the types.
LEMMA KillType == TypeOK /\ Kill => TypeOK'
  <1> SUFFICES ASSUME TypeOK, Kill PROVE TypeOK'
    OBVIOUS
  <1>1. NoUser \in Box /\ Zero \in Count /\ Idle \in Job
    BY DEF Box, Zero, Count, Idle, Job, Op
  <1>2. /\ mem' \in [Actor -> SUBSET (Letter \X BOOLEAN)]
        /\ job' \in [Actor -> Job]
        /\ pc' \in [Actor -> Label]
        /\ loaded' \in [Actor -> Box]
    BY <1>1 DEF Kill, Label
  <1>3. /\ login' \in Box /\ counts' \in Count
        /\ shown' \subseteq Entry /\ shownFor' \in Count
        /\ detail' \subseteq Entry /\ undo' \subseteq Entry
        /\ fresh' \in BOOLEAN
    BY <1>1 DEF Kill
  <1> QED BY <1>2, <1>3 DEF Kill, TypeOK

-----------------------------------------------------------------------------
\* The empty inbox satisfies the inductive invariant.
LEMMA InitSeparate == Init => SeparateInv
  BY InitType DEF Init, SeparateInv, ProfileInv, MemInv, ScreenInv,
                  MailboxesSeparate, Profiling

\* A restored profile holds its own mailbox's letters.
LEMMA RestoredSeparate ==
    ASSUME TypeOK, MailboxesSeparate, NEW b \in Box
    PROVE  /\ \A l \in DecodeArray(b, store[b]) : To[l.id] = b
           /\ \A p \in Restored(b) : To[p[1].id] = IF p[2] THEN b ELSE NoUser
  <1>1. \A l \in DecodeArray(b, store[b]) : To[l.id] = b
    BY DecodeType DEF TypeOK, MailboxesSeparate
  <1>2. CASE b = NoUser
    BY <1>1, <1>2 DEF Restored
  <1>3. CASE b # NoUser
    BY <1>1, <1>3 DEF Restored
  <1> QED BY <1>1, <1>2, <1>3

\* listInboxEntries lists each letter under its own mailbox.
LEMMA ListedSeparate ==
    ASSUME TypeOK, MailboxesSeparate, NEW u \in Box
    PROVE  \A e \in Listed(u) : To[e.letter.id] = e.owner
  BY RestoredSeparate DEF Listed, Box

\* An operation begun for letters of its mailbox, by a thread outside any
\* profile, leaves the others' as they are.
LEMMA BeginSeparate ==
    ASSUME SeparateInv, NEW a \in Actor, NEW op, NEW letters, NEW owner, NEW label,
           Begin(a, op, letters, owner, label),
           \/ label \notin Profiling
           \/ /\ label = "restorePublic"
              /\ op \in {"add", "restore", "delete", "read"}
              /\ \A l \in letters : To[l.id] = owner,
           shown' \cup detail' \cup undo' \subseteq shown \cup detail \cup undo
    PROVE  ProfileInv' /\ MemInv' /\ ScreenInv' /\ MailboxesSeparate'
  <1>1. store' = store
    BY DEF Begin
  <1>2. /\ pc' = [pc EXCEPT ![a] = label]
        /\ job' = [job EXCEPT ![a] = [op |-> op, letters |-> letters, owner |-> owner]]
        /\ mem' = [mem EXCEPT ![a] = {}]
    BY DEF Begin, Goto
  <1>3. ProfileInv' /\ MemInv'
    <2> SUFFICES ASSUME NEW b \in Actor, pc'[b] \in Profiling
        PROVE  /\ job'[b].op \in {"add", "restore", "delete", "read"}
               /\ \A l \in job'[b].letters : To[l.id] = job'[b].owner
               /\ pc'[b] # "restorePublic" =>
                    \A p \in mem'[b] : To[p[1].id] = IF p[2] THEN job'[b].owner
                                                      ELSE NoUser
      BY DEF ProfileInv, MemInv
    <2>1. CASE b = a
      BY <1>2, <2>1 DEF SeparateInv, TypeOK
    <2>2. CASE b # a
      BY <1>2, <2>2 DEF SeparateInv, TypeOK, ProfileInv, MemInv
    <2> QED BY <2>1, <2>2
  <1>4. ScreenInv' /\ MailboxesSeparate'
    BY <1>1 DEF SeparateInv, ScreenInv, MailboxesSeparate
  <1> QED BY <1>3, <1>4

\* Nothing done on the inbox screen breaks the inductive invariant.
LEMMA ScreenSeparate == SeparateInv /\ Screen => SeparateInv'
  <1> SUFFICES ASSUME SeparateInv, Screen
               PROVE  ProfileInv' /\ MemInv' /\ ScreenInv' /\ MailboxesSeparate'
    BY ScreenType DEF SeparateInv
  <1> USE ActorAssumption
  <1>1. ASSUME NEW e \in InFront, Screen_Delete(e)
        PROVE  ProfileInv' /\ MemInv' /\ ScreenInv' /\ MailboxesSeparate'
    <2>1. To[e.letter.id] = e.owner
      BY DEF SeparateInv, ScreenInv, InFront
    <2> QED BY <1>1, <2>1, BeginSeparate DEF Screen_Delete, InFront
  <1>2. ASSUME NEW e \in shown, Screen_Tap(e)
        PROVE  ProfileInv' /\ MemInv' /\ ScreenInv' /\ MailboxesSeparate'
    <2>1. To[e.letter.id] = e.owner
      BY DEF SeparateInv, ScreenInv
    <2> QED BY <1>2, <2>1, BeginSeparate DEF Screen_Tap
  <1>3. ASSUME NEW e \in undo, Screen_Undo(e)
        PROVE  ProfileInv' /\ MemInv' /\ ScreenInv' /\ MailboxesSeparate'
    <2>1. To[e.letter.id] = e.owner
      BY DEF SeparateInv, ScreenInv
    <2> QED BY <1>3, <2>1, BeginSeparate DEF Screen_Undo
  <1>4. CASE \/ Screen_Forget \/ Screen_CloseDetail
             \/ (\E e \in shown : Screen_Detail(e)) \/ (\E n \in Drawn : Test(n))
    BY <1>4 DEF Screen_Forget, Screen_CloseDetail, Screen_Detail, Test, threadVars, SeparateInv, ProfileInv, MemInv,
                ScreenInv, MailboxesSeparate
  <1>5. CASE Screen_Recompose \/ Screen_Reopen
    <2>1. \A e \in Listed(login) : To[e.letter.id] = e.owner
      BY ListedSeparate DEF SeparateInv, TypeOK
    <2> QED BY <1>5, <2>1 DEF Screen_Recompose, Screen_Reopen, threadVars,
                SeparateInv, ProfileInv, MemInv, ScreenInv, MailboxesSeparate
  <1>6. CASE Launch
    <2>1. "loadAuth" \notin Profiling
      BY DEF Profiling
    <2> QED BY <1>6, <2>1, BeginSeparate DEF Launch, screenVars
  <1> QED BY <1>1, <1>2, <1>3, <1>4, <1>5, <1>6 DEF Screen

\* No push, login or logout breaks the inductive invariant.
LEMMA CallSeparate == SeparateInv /\ Call => SeparateInv'
  <1> SUFFICES ASSUME SeparateInv, Call
               PROVE  ProfileInv' /\ MemInv' /\ ScreenInv' /\ MailboxesSeparate'
    BY CallType DEF SeparateInv
  <1>1. ASSUME NEW a \in Actor, NEW i \in Id, Receive(a, i)
        PROVE  ProfileInv' /\ MemInv' /\ ScreenInv' /\ MailboxesSeparate'
    <2>1. \A l \in {Arrived(i)} : To[l.id] = To[i]
      BY DEF Arrived
    <2> QED BY <1>1, <2>1, BeginSeparate DEF Receive, screenVars
  <1>2. ASSUME NEW a \in Actor, NEW u \in Box, Authorize(a, u)
        PROVE  ProfileInv' /\ MemInv' /\ ScreenInv' /\ MailboxesSeparate'
    <2>1. "saveAuth" \notin Profiling
      BY DEF Profiling
    <2> QED BY <1>2, <2>1, BeginSeparate DEF Authorize, screenVars
  <1> QED BY <1>1, <1>2 DEF Call

\* The change of a profile keeps every letter with its mailbox.
LEMMA ChangedSeparate ==
    ASSUME SeparateInv, NEW a \in Actor, pc[a] = "change"
    PROVE  \A p \in Changed(a) :
              To[p[1].id] = IF p[2] THEN job[a].owner ELSE NoUser
  <1>1. /\ \A l \in job[a].letters : To[l.id] = job[a].owner
        /\ \A p \in mem[a] : To[p[1].id] = IF p[2] THEN job[a].owner ELSE NoUser
        /\ job[a].op \in {"add", "restore", "delete", "read"}
    BY DEF SeparateInv, MemInv, ProfileInv, Profiling
  <1>2. mem[a] \subseteq Letter \X BOOLEAN /\ job[a].letters \subseteq Letter
    BY DEF SeparateInv, TypeOK, Job
  <1>3. CASE job[a].op \in {"add", "restore"}
    <2>1. \A p \in job[a].letters \X {job[a].owner # NoUser} :
             To[p[1].id] = IF p[2] THEN job[a].owner ELSE NoUser
      BY <1>1
    <2>2. Changed(a) \subseteq mem[a] \cup (job[a].letters \X {job[a].owner # NoUser})
      BY <1>3 DEF Changed
    <2> QED BY <1>1, <2>1, <2>2
  <1>4. CASE job[a].op = "delete"
    BY <1>1, <1>4 DEF Changed
  <1>5. CASE job[a].op = "read"
    <2>1. \A p \in Changed(a) : \E q \in mem[a] : p[1].id = q[1].id /\ p[2] = q[2]
      BY <1>2, <1>5 DEF Changed, Letter
    <2> QED BY <1>1, <2>1
  <1> QED BY <1>1, <1>3, <1>4, <1>5

\* No step of a running operation breaks it: what is stored is what was
\* restored from, or is meant for, the mailbox it is stored in.
LEMMA StepSeparate == ASSUME SeparateInv, NEW a \in Actor, Step(a) PROVE SeparateInv'
  <1> SUFFICES ProfileInv' /\ MemInv' /\ ScreenInv' /\ MailboxesSeparate'
    BY StepType DEF SeparateInv
  <1> DEFINE Held(b, P) == \A p \in P : To[p[1].id] = IF p[2] THEN job[b].owner
                                                         ELSE NoUser
  <1>0. NoUser \in Box
    BY DEF Box
  \* A step that stores nothing keeps the invariant if it leaves the profile,
  \* or goes on in it with letters of the right mailboxes.
  <1>1. ASSUME NEW label, pc' = [pc EXCEPT ![a] = label],
               label \in Profiling => pc[a] \in Profiling,
               label \in Profiling => label # "restorePublic" /\ Held(a, mem'[a]),
               \A b \in Actor \ {a} : mem'[b] = mem[b],
               job' = job, UNCHANGED <<shown, detail, undo>>
        PROVE  ProfileInv' /\ MemInv' /\ ScreenInv'
    <2>1. ProfileInv'
      BY <1>1 DEF SeparateInv, TypeOK, ProfileInv
    <2>2. ASSUME NEW b \in Actor, pc'[b] \in Profiling
          PROVE  /\ \A l \in job'[b].letters : To[l.id] = job'[b].owner
                 /\ pc'[b] # "restorePublic" =>
                      \A p \in mem'[b] : To[p[1].id] = IF p[2] THEN job'[b].owner
                                                        ELSE NoUser
      <3>1. CASE b = a
        BY <1>1, <2>2, <3>1 DEF SeparateInv, TypeOK, MemInv
      <3>2. CASE b # a
        BY <1>1, <2>2, <3>2 DEF SeparateInv, TypeOK, MemInv
      <3> QED BY <3>1, <3>2
    <2>3. ScreenInv'
      BY <1>1 DEF SeparateInv, ScreenInv
    <2> QED BY <2>1, <2>2, <2>3 DEF MemInv
  <1>2. store' = store => MailboxesSeparate'
    BY DEF SeparateInv, MailboxesSeparate
  <1>3. CASE RestorePublic(a)
    <2>1. Held(a, Restored(NoUser))
      <3>1. \A p \in Restored(NoUser) : p[2] = FALSE /\ To[p[1].id] = NoUser
        BY <1>0, RestoredSeparate DEF SeparateInv, Restored
      <3> QED BY <3>1
    <2>2. mem'[a] = Restored(NoUser) /\ \A b \in Actor \ {a} : mem'[b] = mem[b]
      BY <1>3 DEF RestorePublic, SeparateInv, TypeOK
    <2>3. \E label \in {"change", "restoreUser"} : pc' = [pc EXCEPT ![a] = label]
      BY <1>3 DEF RestorePublic, Goto
    <2>4. pc[a] \in Profiling /\ job' = job /\ store' = store
          /\ UNCHANGED <<shown, detail, undo>>
      BY <1>3 DEF RestorePublic, screenVars, Profiling
    <2> QED BY <1>1, <1>2, <2>1, <2>2, <2>3, <2>4
  <1>4. CASE RestoreUser(a)
    <2>1. Held(a, Restored(job[a].owner)) /\ Held(a, mem[a])
      <3>1. job[a].owner \in Box
        BY DEF SeparateInv, TypeOK, Job
      <3>2. Held(a, mem[a])
        BY <1>4 DEF RestoreUser, SeparateInv, MemInv, Profiling
      <3> QED BY <3>1, <3>2, RestoredSeparate DEF SeparateInv
    <2>2. /\ mem'[a] = mem[a] \cup Restored(job[a].owner)
          /\ \A b \in Actor \ {a} : mem'[b] = mem[b]
      BY <1>4 DEF RestoreUser, SeparateInv, TypeOK
    <2>3. /\ pc' = [pc EXCEPT ![a] = "change"] /\ pc[a] \in Profiling
          /\ job' = job /\ UNCHANGED <<shown, detail, undo>> /\ store' = store
      BY <1>4 DEF RestoreUser, screenVars, Profiling, Goto
    <2> QED BY <1>1, <1>2, <2>1, <2>2, <2>3
  <1>5. CASE Change(a)
    <2>1. Held(a, Changed(a))
      BY <1>5, ChangedSeparate DEF Change
    <2>2. mem'[a] = Changed(a) /\ \A b \in Actor \ {a} : mem'[b] = mem[b]
      BY <1>5 DEF Change, SeparateInv, TypeOK
    <2>3. \E label \in {"idle", "storePublic", "storePrivate"} : pc' = [pc EXCEPT ![a] = label]
      BY <1>5 DEF Change, Goto
    <2>4. pc[a] \in Profiling /\ job' = job /\ store' = store
          /\ UNCHANGED <<shown, detail, undo>>
      BY <1>5 DEF Change, screenVars, Profiling
    <2> QED BY <1>1, <1>2, <2>1, <2>2, <2>3, <2>4
  <1>6. CASE StorePrivate(a)
    <2>1. Held(a, mem[a])
      BY <1>6 DEF StorePrivate, SeparateInv, MemInv, Profiling
    <2>2. /\ pc' = [pc EXCEPT ![a] = "storePublic"] /\ pc[a] \in Profiling /\ mem' = mem
          /\ job' = job /\ UNCHANGED <<shown, detail, undo>>
      BY <1>6 DEF StorePrivate, screenVars, Profiling, Goto
    <2>3. MailboxesSeparate'
      <3>1. \A l \in InBox(mem[a], TRUE) : To[l.id] = job[a].owner
        BY <2>1 DEF InBox
      <3> QED BY <1>6, <3>1 DEF StorePrivate, SeparateInv, TypeOK, MailboxesSeparate
    <2> QED BY <1>1, <2>1, <2>2, <2>3
  <1>7. CASE StorePublic(a)
    <2>1. Held(a, mem[a])
      BY <1>7 DEF StorePublic, SeparateInv, MemInv, Profiling
    <2>2. /\ pc' = [pc EXCEPT ![a] = "loadAuth"] /\ "loadAuth" \notin Profiling
          /\ mem' = mem /\ job' = job /\ UNCHANGED <<shown, detail, undo>>
      BY <1>7 DEF StorePublic, screenVars, Profiling, Goto
    <2>3. MailboxesSeparate'
      <3>1. \A l \in InBox(mem[a], FALSE) : To[l.id] = NoUser
        BY <2>1 DEF InBox
      <3> QED BY <1>7, <3>1 DEF StorePublic, SeparateInv, TypeOK, MailboxesSeparate
    <2> QED BY <1>1, <2>2, <2>3
  <1>8. CASE SaveAuth(a) \/ SetSession(a) \/ LoadAuth(a) \/ RestoreSession(a)
             \/ CountPublic(a) \/ CountPrivate(a) \/ Publish(a)
    <2>1. \E label \in {"setSession", "loadAuth", "restoreSession", "countPublic",
                         "countPrivate", "publish", "idle"} :
             pc' = [pc EXCEPT ![a] = label]
      BY <1>8 DEF SaveAuth, SetSession, LoadAuth, RestoreSession, CountPublic,
                  CountPrivate, Publish, Goto
    <2>2. \A b \in Actor \ {a} : mem'[b] = mem[b]
      BY <1>8 DEF SaveAuth, SetSession, LoadAuth, RestoreSession, CountPublic,
                  CountPrivate, Publish, SeparateInv, TypeOK
    <2>3. job' = job /\ UNCHANGED <<shown, detail, undo>> /\ store' = store
      BY <1>8 DEF SaveAuth, SetSession, LoadAuth, RestoreSession, CountPublic,
                  CountPrivate, Publish, screenVars
    <2> QED BY <1>1, <1>2, <2>1, <2>2, <2>3 DEF Profiling
  <1> QED BY <1>3, <1>4, <1>5, <1>6, <1>7, <1>8 DEF Step

\* Killing the process between any two steps does not break it either.
LEMMA KillSeparate == SeparateInv /\ Kill => SeparateInv'
  BY KillType DEF SeparateInv, Kill, ProfileInv, MemInv, ScreenInv,
                  MailboxesSeparate, Profiling

\* The inductive invariant holds in every reachable state.
LEMMA SeparateCorrect == Spec => []SeparateInv
  <1>1. Init => SeparateInv
    BY InitSeparate
  <1>2. SeparateInv /\ [Next]_vars => SeparateInv'
    <2> SUFFICES ASSUME SeparateInv, [Next]_vars PROVE SeparateInv'
      OBVIOUS
    <2>1. CASE Next
      BY <2>1, ScreenSeparate, CallSeparate, StepSeparate, KillSeparate DEF Next
    <2>2. CASE UNCHANGED vars
      BY <2>2 DEF vars, threadVars, screenVars, SeparateInv, TypeOK, ProfileInv,
                  MemInv, ScreenInv, MailboxesSeparate
    <2> QED BY <2>1, <2>2
  <1> QED BY <1>1, <1>2, PTL DEF Spec

\* Inbox keeps its types.
THEOREM InboxTypeCorrect == Spec => []TypeOK
  BY SeparateCorrect, PTL DEF SeparateInv

\* No letter is ever stored in a mailbox it is not addressed to: whatever
\* PushInbox, the screen and the session do at once, on any number of threads.
THEOREM MailboxesNeverMix == Spec => []MailboxesSeparate
  BY SeparateCorrect, PTL DEF SeparateInv

-----------------------------------------------------------------------------
\* One letter of each id.
Unique(S) == \A l, m \in S : l.id = m.id => l = m

\* A profile has one letter of each id on each side, public and private; until
\* the user's letters join it, it has none of those.
UniqueMem ==
    \A a \in Actor :
       pc[a] \in Profiling =>
         /\ Unique(job[a].letters)
         /\ pc[a] # "restorePublic" =>
              Unique(InBox(mem[a], TRUE)) /\ Unique(InBox(mem[a], FALSE))
         /\ pc[a] = "restoreUser" =>
              job[a].owner # NoUser /\ \A p \in mem[a] : p[2] = FALSE

\* The inductive invariant for OneOfEach: what is about to be stored, too, has
\* one letter of each id.
UniqueInv == SeparateInv /\ UniqueMem /\ OneOfEach

\* A letter that is cut off when its array is read back is the newest of those
\* that break it, and comes back alone.
LEMMA DecodeUnique ==
    ASSUME NEW b, NEW S \in SUBSET Letter, Unique(S)
    PROVE  Unique(DecodeArray(b, S))
<1> DEFINE Kept == {l \in S : \A x \in S : Breaks(b, x) => Time(x) < Time(l)}
<1> DEFINE Cut == {x \in S : /\ Breaks(b, x) /\ Text[x.id] = "closing"
                             /\ \A y \in S : Breaks(b, y) => Time(y) <= Time(x)}
<1> DEFINE Short(x) == [x EXCEPT !.whole = FALSE, !.unread = TRUE]
<1>1. \A l \in S : Time(l) \in Nat
  BY IdAssumption DEF Time, Letter
<1>2. \A x, y \in Cut : x = y
  <2> SUFFICES ASSUME NEW x \in Cut, NEW y \in Cut PROVE x = y
    OBVIOUS
  <2>1. Time(x) = Time(y)
    BY <1>1
  <2>2. Time(x) = x.id /\ Time(y) = y.id
    BY DEF Breaks, Time
  <2>. QED BY <2>1, <2>2 DEF Unique
<1>3. \A x \in S : Short(x).id = x.id
  BY DEF Letter
<1>4. \A x \in Cut, l \in Kept : x.id # l.id
  <2> SUFFICES ASSUME NEW x \in Cut, NEW l \in Kept, x.id = l.id PROVE FALSE
    OBVIOUS
  <2>1. x = l
    BY DEF Unique
  <2>2. Time(x) < Time(x)
    BY <2>1
  <2>. QED BY <1>1, <2>2
<1>5. DecodeArray(b, S) = Kept \cup {Short(x) : x \in Cut}
  BY DEF DecodeArray
<1>6. Kept \subseteq S /\ Cut \subseteq S
  OBVIOUS
<1> HIDE DEF Kept, Cut, Short
<1>. QED BY <1>2, <1>3, <1>4, <1>5, <1>6 DEF Unique

\* A restored profile has one letter of each id, all on one side.
LEMMA RestoredUnique ==
    ASSUME TypeOK, OneOfEach, NEW b \in Box
    PROVE  /\ Unique(InBox(Restored(b), TRUE)) /\ Unique(InBox(Restored(b), FALSE))
           /\ \A p \in Restored(b) : p[2] = (b # NoUser)
<1>1. Unique(DecodeArray(b, store[b]))
  BY DecodeUnique DEF TypeOK, OneOfEach, Unique
<1>2. \A private \in BOOLEAN : InBox(Restored(b), private) \subseteq DecodeArray(b, store[b])
  BY DEF InBox, Restored
<1>3. \A p \in Restored(b) : p[2] = (b # NoUser)
  BY DEF Restored
<1>. QED BY <1>1, <1>2, <1>3 DEF Unique

\* An operation is begun with one letter, or with none.
LEMMA BeginUnique ==
    ASSUME UniqueInv, NEW a \in Actor, NEW op, NEW letters, NEW owner, NEW label,
           Begin(a, op, letters, owner, label),
           label \notin Profiling \/ label = "restorePublic",
           Unique(letters)
    PROVE  UniqueMem' /\ OneOfEach'
<1>1. store' = store
  BY DEF Begin
<1>2. /\ pc' = [pc EXCEPT ![a] = label]
      /\ job' = [job EXCEPT ![a] = [op |-> op, letters |-> letters, owner |-> owner]]
      /\ mem' = [mem EXCEPT ![a] = {}]
  BY DEF Begin, Goto
<1>3. UniqueMem'
  <2> SUFFICES ASSUME NEW b \in Actor, pc'[b] \in Profiling
      PROVE  /\ Unique(job'[b].letters)
             /\ pc'[b] # "restorePublic" =>
                  Unique(InBox(mem'[b], TRUE)) /\ Unique(InBox(mem'[b], FALSE))
             /\ pc'[b] = "restoreUser" =>
                  job'[b].owner # NoUser /\ \A p \in mem'[b] : p[2] = FALSE
    BY DEF UniqueMem, InBox, Unique
  <2>1. CASE b = a
    <3>1. pc'[a] = label /\ job'[a].letters = letters
      BY <1>2 DEF UniqueInv, SeparateInv, TypeOK
    <3>. QED BY <2>1, <3>1
  <2>2. CASE b # a
    <3>1. pc'[b] = pc[b] /\ job'[b] = job[b] /\ mem'[b] = mem[b]
      BY <1>2, <2>2 DEF UniqueInv, SeparateInv, TypeOK
    <3>. QED BY <3>1 DEF UniqueInv, UniqueMem
  <2>. QED BY <2>1, <2>2
<1>4. OneOfEach'
  BY <1>1 DEF UniqueInv, OneOfEach
<1>. QED BY <1>3, <1>4

\* Whatever is done on the inbox screen is done with one entry.
LEMMA ScreenUnique == UniqueInv /\ Screen => UniqueMem' /\ OneOfEach'
<1> SUFFICES ASSUME UniqueInv, Screen PROVE UniqueMem' /\ OneOfEach'
  OBVIOUS
<1>0. \A l : Unique({l}) /\ Unique({})
  BY DEF Unique
<1> USE ActorAssumption
<1>1. CASE (\E e \in InFront : Screen_Delete(e)) \/ (\E e \in shown : Screen_Tap(e))
  BY <1>0, <1>1, BeginUnique DEF Screen_Delete, Screen_Tap
<1>2. CASE \E e \in undo : Screen_Undo(e)
  BY <1>0, <1>2, BeginUnique DEF Screen_Undo
<1>3. CASE \/ Screen_Forget \/ Screen_Recompose \/ Screen_Reopen \/ Screen_CloseDetail
           \/ (\E e \in shown : Screen_Detail(e)) \/ (\E n \in Drawn : Test(n))
  BY <1>3 DEF Screen_Forget, Screen_Recompose, Screen_Reopen, Screen_CloseDetail,
              Screen_Detail, Test, threadVars, UniqueInv,
              UniqueMem, OneOfEach, InBox
<1>4. CASE Launch
  <2>1. "loadAuth" \notin Profiling
    BY DEF Profiling
  <2>. QED BY <1>0, <1>4, <2>1, BeginUnique DEF Launch
<1>. QED BY <1>1, <1>2, <1>3, <1>4 DEF Screen

\* So is a push that arrives; a login has no letter.
LEMMA CallUnique == UniqueInv /\ Call => UniqueMem' /\ OneOfEach'
<1> SUFFICES ASSUME UniqueInv, Call PROVE UniqueMem' /\ OneOfEach'
  OBVIOUS
<1>0. \A l : Unique({l}) /\ Unique({})
  BY DEF Unique
<1>1. ASSUME NEW a \in Actor, NEW i \in Id, Receive(a, i)
      PROVE  UniqueMem' /\ OneOfEach'
  BY <1>0, <1>1, BeginUnique DEF Receive
<1>2. ASSUME NEW a \in Actor, NEW u \in Box, Authorize(a, u)
      PROVE  UniqueMem' /\ OneOfEach'
  <2>1. "saveAuth" \notin Profiling
    BY DEF Profiling
  <2>. QED BY <1>0, <1>2, <2>1, BeginUnique DEF Authorize
<1>. QED BY <1>1, <1>2 DEF Call

\* addMessage adds no letter the profile has; the others add none.
LEMMA ChangedUnique ==
    ASSUME UniqueInv, NEW a \in Actor, pc[a] = "change", NEW private \in BOOLEAN
    PROVE  Unique(InBox(Changed(a), private))
<1>1. /\ Unique(job[a].letters) /\ Unique(InBox(mem[a], private))
      /\ job[a].op \in {"add", "restore", "delete", "read"}
  BY DEF UniqueInv, UniqueMem, SeparateInv, ProfileInv, Profiling
<1>2. mem[a] \subseteq Letter \X BOOLEAN /\ job[a].letters \subseteq Letter
  BY DEF UniqueInv, SeparateInv, TypeOK, Job
<1>3. CASE job[a].op \in {"add", "restore"}
  <2> DEFINE New == {l \in job[a].letters : ~HasId(mem[a], l.id)}
  <2>1. InBox(Changed(a), private) \subseteq InBox(mem[a], private) \cup New
    <3>1. Changed(a) = mem[a] \cup (New \X {job[a].owner # NoUser})
      BY <1>3 DEF Changed
    <3>. QED BY <3>1 DEF InBox
  <2>2. \A l \in New, m \in InBox(mem[a], private) : l.id # m.id
    BY DEF HasId, InBox
  <2>. QED BY <1>1, <2>1, <2>2 DEF Unique
<1>4. CASE job[a].op = "delete"
  <2>1. InBox(Changed(a), private) \subseteq InBox(mem[a], private)
    BY <1>4 DEF Changed, InBox
  <2>. QED BY <1>1, <2>1 DEF Unique
<1>5. CASE job[a].op = "read"
  <2> DEFINE Is(p) == \E l \in job[a].letters : p[1].id = l.id
  <2> DEFINE Read(l) == [l EXCEPT !.unread = FALSE]
  <2>1. ASSUME NEW l \in InBox(Changed(a), private)
        PROVE  \E m \in InBox(mem[a], private) :
                  /\ m.id = l.id
                  /\ l = IF \E x \in job[a].letters : m.id = x.id THEN Read(m) ELSE m
    <3>1. PICK p \in mem[a] :
             /\ l = (IF Is(p) THEN <<Read(p[1]), p[2]>> ELSE p)[1]
             /\ private = (IF Is(p) THEN <<Read(p[1]), p[2]>> ELSE p)[2]
      BY <1>5 DEF Changed, InBox
    <3>2. p[1] \in InBox(mem[a], private)
      BY <3>1 DEF InBox
    <3>3. p[1] \in Letter /\ p = <<p[1], p[2]>>
      BY <1>2
    <3>4. l = IF Is(p) THEN Read(p[1]) ELSE p[1]
      BY <3>1, <3>3
    <3>5. Read(p[1]).id = p[1].id
      BY <3>3 DEF Letter
    <3>. QED BY <3>2, <3>4, <3>5
  <2>2. ASSUME NEW l \in InBox(Changed(a), private),
               NEW k \in InBox(Changed(a), private), l.id = k.id
        PROVE  l = k
    <3>1. PICK m \in InBox(mem[a], private) :
             /\ m.id = l.id
             /\ l = IF \E x \in job[a].letters : m.id = x.id THEN Read(m) ELSE m
      BY <2>1
    <3>2. PICK n \in InBox(mem[a], private) :
             /\ n.id = k.id
             /\ k = IF \E x \in job[a].letters : n.id = x.id THEN Read(n) ELSE n
      BY <2>1
    <3>3. m = n
      BY <1>1, <2>2, <3>1, <3>2 DEF Unique
    <3>. QED BY <3>1, <3>2, <3>3
  <2>. QED BY <2>2 DEF Unique
<1>. QED BY <1>1, <1>3, <1>4, <1>5

\* No step of a thread doubles a letter, in its memory or in the settings.
LEMMA StepUnique == ASSUME UniqueInv, NEW a \in Actor, Step(a) PROVE UniqueMem' /\ OneOfEach'
<1> DEFINE Sound(P) == Unique(InBox(P, TRUE)) /\ Unique(InBox(P, FALSE))
<1>0. NoUser \in Box /\ job[a].owner \in Box
  BY DEF Box, UniqueInv, SeparateInv, TypeOK, Job
<1>1. ASSUME NEW label, pc' = [pc EXCEPT ![a] = label],
             label \in Profiling => /\ pc[a] \in Profiling /\ label # "restorePublic"
                                    /\ Sound(mem'[a]),
             label = "restoreUser" => /\ job[a].owner # NoUser
                                      /\ \A p \in mem'[a] : p[2] = FALSE,
             \A b \in Actor \ {a} : mem'[b] = mem[b], job' = job
      PROVE  UniqueMem'
  <2> SUFFICES ASSUME NEW b \in Actor, pc'[b] \in Profiling
      PROVE  /\ Unique(job'[b].letters)
             /\ pc'[b] # "restorePublic" => Sound(mem'[b])
             /\ pc'[b] = "restoreUser" =>
                  job'[b].owner # NoUser /\ \A p \in mem'[b] : p[2] = FALSE
    BY DEF UniqueMem, InBox, Unique
  <2>1. pc'[a] = label /\ \A c \in Actor \ {a} : pc'[c] = pc[c]
    BY <1>1 DEF UniqueInv, SeparateInv, TypeOK
  <2>2. CASE b = a
    BY <1>1, <2>1, <2>2 DEF UniqueInv, UniqueMem
  <2>3. CASE b # a
    BY <1>1, <2>1, <2>3 DEF UniqueInv, UniqueMem
  <2>. QED BY <2>2, <2>3
<1>2. store' = store => OneOfEach'
  BY DEF UniqueInv, OneOfEach
<1>3. ASSUME NEW b \in Box, NEW S, store' = [store EXCEPT ![b] = S], Unique(S)
      PROVE  OneOfEach'
  BY <1>3 DEF UniqueInv, SeparateInv, TypeOK, OneOfEach, Unique
<1>4. CASE RestorePublic(a)
  <2>1. Sound(Restored(NoUser)) /\ \A p \in Restored(NoUser) : p[2] = FALSE
    BY <1>0, RestoredUnique DEF UniqueInv, SeparateInv
  <2>2. mem'[a] = Restored(NoUser) /\ \A b \in Actor \ {a} : mem'[b] = mem[b]
    BY <1>4 DEF RestorePublic, UniqueInv, SeparateInv, TypeOK
  <2>3. pc[a] \in Profiling /\ job' = job /\ store' = store
    BY <1>4 DEF RestorePublic, Profiling
  <2>4. Sound(mem'[a]) /\ \A p \in mem'[a] : p[2] = FALSE
    BY <2>1, <2>2
  <2>5. ASSUME NEW label, pc' = [pc EXCEPT ![a] = label],
               label # "restorePublic", label = "restoreUser" => job[a].owner # NoUser
        PROVE  UniqueMem'
    BY <1>1, <2>2, <2>3, <2>4, <2>5
  <2>6. UniqueMem'
    <3>1. CASE job[a].owner = NoUser
      <4>1. pc' = [pc EXCEPT ![a] = "change"]
        BY <1>4, <3>1 DEF RestorePublic, Goto
      <4>. QED BY <2>5, <4>1
    <3>2. CASE job[a].owner # NoUser
      <4>1. pc' = [pc EXCEPT ![a] = "restoreUser"]
        BY <1>4, <3>2 DEF RestorePublic, Goto
      <4>. QED BY <2>5, <3>2, <4>1
    <3>. QED BY <3>1, <3>2
  <2>. QED BY <1>2, <2>3, <2>6
<1>5. CASE RestoreUser(a)
  <2> DEFINE R == Restored(job[a].owner)
  <2>1. /\ job[a].owner # NoUser /\ \A p \in mem[a] : p[2] = FALSE
        /\ Sound(mem[a]) /\ pc[a] \in Profiling
    BY <1>5 DEF RestoreUser, UniqueInv, UniqueMem, Profiling
  <2>2. Sound(R) /\ \A p \in R : p[2] = TRUE
    BY <1>0, <2>1, RestoredUnique DEF UniqueInv, SeparateInv
  <2>3. /\ InBox(mem[a] \cup R, TRUE) = InBox(R, TRUE)
        /\ InBox(mem[a] \cup R, FALSE) = InBox(mem[a], FALSE)
    BY <2>1, <2>2 DEF InBox
  <2>4. mem'[a] = mem[a] \cup R /\ \A b \in Actor \ {a} : mem'[b] = mem[b]
    BY <1>5 DEF RestoreUser, UniqueInv, SeparateInv, TypeOK
  <2>5. Sound(mem'[a])
    BY <2>1, <2>2, <2>3, <2>4
  <2>6. pc' = [pc EXCEPT ![a] = "change"] /\ job' = job /\ store' = store
    BY <1>5 DEF RestoreUser, Goto
  <2>. QED BY <1>1, <1>2, <2>1, <2>4, <2>5, <2>6
<1>6. CASE Change(a)
  <2>1. Sound(Changed(a)) /\ pc[a] \in Profiling
    BY <1>6, ChangedUnique DEF Change, Profiling
  <2>2. mem'[a] = Changed(a) /\ \A b \in Actor \ {a} : mem'[b] = mem[b]
    BY <1>6 DEF Change, UniqueInv, SeparateInv, TypeOK
  <2>3. \E label \in {"idle", "storePublic", "storePrivate"} : pc' = [pc EXCEPT ![a] = label]
    BY <1>6 DEF Change, Goto
  <2>4. job' = job /\ store' = store
    BY <1>6 DEF Change
  <2>. QED BY <1>1, <1>2, <2>1, <2>2, <2>3, <2>4
<1>7. CASE StorePrivate(a) \/ StorePublic(a)
  <2>1. Sound(mem[a]) /\ pc[a] \in Profiling
    BY <1>7 DEF StorePrivate, StorePublic, UniqueInv, UniqueMem, Profiling
  <2>2. /\ \E label \in {"storePublic", "loadAuth"} : pc' = [pc EXCEPT ![a] = label]
        /\ mem' = mem /\ job' = job
    BY <1>7 DEF StorePrivate, StorePublic, Goto
  <2>3. \E b \in Box, private \in BOOLEAN :
           store' = [store EXCEPT ![b] = InBox(mem[a], private)]
    BY <1>0, <1>7 DEF StorePrivate, StorePublic
  <2>4. OneOfEach'
    BY <1>3, <2>1, <2>3
  <2>. QED BY <1>1, <2>1, <2>2, <2>4
<1>8. CASE SaveAuth(a) \/ SetSession(a) \/ LoadAuth(a) \/ RestoreSession(a)
           \/ CountPublic(a) \/ CountPrivate(a) \/ Publish(a)
  <2>1. \E label \in {"setSession", "loadAuth", "restoreSession", "countPublic",
                       "countPrivate", "publish", "idle"} :
           pc' = [pc EXCEPT ![a] = label]
    BY <1>8 DEF SaveAuth, SetSession, LoadAuth, RestoreSession, CountPublic,
                CountPrivate, Publish, Goto
  <2>2. \A b \in Actor \ {a} : mem'[b] = mem[b]
    BY <1>8 DEF SaveAuth, SetSession, LoadAuth, RestoreSession, CountPublic,
                CountPrivate, Publish, UniqueInv, SeparateInv, TypeOK
  <2>3. job' = job /\ store' = store
    BY <1>8 DEF SaveAuth, SetSession, LoadAuth, RestoreSession, CountPublic,
                CountPrivate, Publish
  <2>. QED BY <1>1, <1>2, <2>1, <2>2, <2>3 DEF Profiling
<1>. QED BY <1>4, <1>5, <1>6, <1>7, <1>8 DEF Step

\* The invariant holds in every reachable state.
LEMMA UniqueCorrect == Spec => []UniqueInv
<1>1. Init => UniqueInv
  BY InitSeparate DEF Init, UniqueInv, UniqueMem, OneOfEach, Profiling
<1>2. SeparateInv /\ SeparateInv' /\ UniqueInv /\ [Next]_vars => UniqueInv'
  <2> SUFFICES ASSUME SeparateInv', UniqueInv, [Next]_vars PROVE UniqueMem' /\ OneOfEach'
    BY DEF UniqueInv
  <2>1. CASE Kill
    BY <2>1 DEF Kill, UniqueInv, UniqueMem, OneOfEach, Profiling
  <2>2. CASE UNCHANGED vars
    BY <2>2 DEF vars, threadVars, UniqueInv, UniqueMem, OneOfEach, InBox
  <2>. QED BY <2>1, <2>2, ScreenUnique, CallUnique, StepUnique DEF Next
<1>. QED BY <1>1, <1>2, SeparateCorrect, PTL DEF Spec

\* A letter is in its mailbox once: pushes that arrive twice, deletions undone
\* after the letter came back and arrays cut off by their own text add none.
THEOREM NoLetterTwice == Spec => []OneOfEach
  BY UniqueCorrect, PTL DEF UniqueInv

-----------------------------------------------------------------------------
\* What the counts promise, at rest or not.
Agree == login = auth /\ counts = CountOf(Visible(auth))

\* What the thread whose operation is under way knows of the session and the
\* letters; until it has changed something, the counts are still right.
CountMem ==
    \A a \in Actor :
       /\ pc[a] = "restoreSession" => loaded[a] = auth
       /\ pc[a] \in {"countPublic", "countPrivate", "publish"} => login = auth
       /\ pc[a] = "countPrivate" =>
             auth # NoUser /\ loaded[a] = auth /\ mem[a] = Restored(NoUser)
       /\ pc[a] = "publish" => mem[a] = Visible(auth)

Unchanged == {"idle", "restorePublic", "restoreUser", "change"}

\* The inductive invariant for CountsAgree, when one operation runs at a time.
CountInv ==
    /\ TypeOK
    /\ \A a, b \in Actor : pc[a] # "idle" /\ pc[b] # "idle" => a = b
    /\ fresh /\ (\A a \in Actor : pc[a] \in Unchanged) => Agree
    /\ CountMem

\* An operation begins where none is under way: the counts are still right.
LEMMA BeginCount ==
    ASSUME CountInv, TypeOK', Serial, NEW a \in Actor, NEW op, NEW letters, NEW owner,
           NEW label \in {"restorePublic", "saveAuth", "loadAuth"},
           Begin(a, op, letters, owner, label)
    PROVE  CountInv'
<1>1. /\ pc' = [pc EXCEPT ![a] = label] /\ \A b \in Actor : pc[b] = "idle"
      /\ UNCHANGED <<store, auth, login, counts, loaded, fresh>>
  BY DEF Begin, Goto
<1>2. pc'[a] = label /\ \A b \in Actor \ {a} : pc'[b] = "idle"
  BY <1>1 DEF CountInv, TypeOK
<1>3. fresh => Agree
  BY <1>1 DEF CountInv, Unchanged
<1>4. Agree => Agree'
  BY <1>1 DEF Agree, Visible, Restored
<1>5. CountMem'
  BY <1>2 DEF CountMem
<1>. QED BY <1>1, <1>2, <1>3, <1>4, <1>5 DEF CountInv

\* What touches neither threads, settings nor counts.
LEMMA RestCount ==
    ASSUME CountInv, TypeOK', UNCHANGED <<store, auth, login, counts, threadVars, fresh>>
    PROVE  CountInv'
  BY DEF CountInv, CountMem, Agree, Visible, Restored, threadVars

\* The inbox screen leaves the counts right.
LEMMA ScreenCount == CountInv /\ TypeOK' /\ Serial /\ Screen => CountInv'
<1> SUFFICES ASSUME CountInv, TypeOK', Serial, Screen PROVE CountInv'
  OBVIOUS
<1>1. CASE Launch \/ (\E e \in InFront : Screen_Delete(e))
           \/ (\E e \in shown : Screen_Tap(e)) \/ (\E e \in undo : Screen_Undo(e))
  BY <1>1, BeginCount, ActorAssumption
  DEF Launch, Screen_Delete, Screen_Tap, Screen_Undo
<1>2. CASE \/ Screen_Forget \/ Screen_Recompose \/ Screen_Reopen \/ Screen_CloseDetail
           \/ \E e \in shown : Screen_Detail(e)
  BY <1>2, RestCount DEF Screen_Forget, Screen_Recompose, Screen_Reopen,
                         Screen_CloseDetail, Screen_Detail
\* Random counts wait for the next refreshCounts.
<1>3. CASE \E n \in Drawn : Test(n)
  BY <1>3 DEF Test, CountInv, CountMem, Visible, Restored, threadVars
<1>. QED BY <1>1, <1>2, <1>3 DEF Screen

\* So do pushes, logins and logouts when they begin.
LEMMA CallCount == CountInv /\ TypeOK' /\ Serial /\ Call => CountInv'
  BY BeginCount DEF Call, Receive, Authorize

\* A step of the one operation that is under way.
LEMMA StepCount ==
    ASSUME CountInv, TypeOK', NEW a \in Actor, Step(a)
    PROVE  CountInv'
<1>1. /\ pc[a] # "idle"
      /\ \A b \in Actor \ {a} : pc[b] = "idle" /\ pc'[b] = "idle"
  <2>1. pc[a] # "idle"
    BY DEF Step, RestorePublic, RestoreUser, Change, StorePrivate, StorePublic, SaveAuth,
           SetSession, LoadAuth, RestoreSession, CountPublic, CountPrivate, Publish
  <2>2. \A b \in Actor \ {a} : pc'[b] = pc[b]
    BY DEF Step, RestorePublic, RestoreUser, Change, StorePrivate, StorePublic, SaveAuth,
           SetSession, LoadAuth, RestoreSession, CountPublic, CountPrivate, Publish,
           Goto, CountInv, TypeOK
  <2>. QED BY <2>1, <2>2 DEF CountInv
<1>2. (\A b \in Actor : pc'[b] \in Unchanged) <=> pc'[a] \in Unchanged
  BY <1>1 DEF Unchanged
<1>3. ASSUME /\ pc'[a] = "restoreSession" => loaded'[a] = auth'
             /\ pc'[a] \in {"countPublic", "countPrivate", "publish"} => login' = auth'
             /\ pc'[a] = "countPrivate" =>
                   auth' # NoUser /\ loaded'[a] = auth' /\ mem'[a] = Restored(NoUser)'
             /\ pc'[a] = "publish" => mem'[a] = Visible(auth)',
             fresh' /\ pc'[a] \in Unchanged => Agree'
      PROVE  CountInv'
  <2>1. CountMem'
    BY <1>1, <1>3 DEF CountMem
  <2>. QED BY <1>1, <1>2, <1>3, <2>1 DEF CountInv
<1>4. CASE RestorePublic(a) \/ RestoreUser(a) \/ Change(a)
  <2>1. /\ pc[a] \in Unchanged /\ UNCHANGED <<store, auth, login, counts, fresh>>
        /\ pc'[a] \in Unchanged \cup {"storePublic", "storePrivate"}
    BY <1>4 DEF RestorePublic, RestoreUser, Change, Goto, CountInv, TypeOK, Unchanged
  <2>2. fresh => Agree
    BY <1>1, <2>1 DEF CountInv, Unchanged
  <2>3. Agree => Agree'
    BY <2>1 DEF Agree, Visible, Restored
  <2>. QED BY <1>3, <2>1, <2>2, <2>3 DEF Unchanged
<1>5. CASE StorePrivate(a) \/ StorePublic(a) \/ SaveAuth(a) \/ SetSession(a)
  <2>1. pc'[a] \in {"storePublic", "loadAuth", "setSession"}
    BY <1>5 DEF StorePrivate, StorePublic, SaveAuth, SetSession, Goto, CountInv, TypeOK
  <2>. QED BY <1>3, <2>1 DEF Unchanged
<1>6. CASE LoadAuth(a)
  <2>1. pc'[a] = "restoreSession" /\ loaded'[a] = auth'
    BY <1>6 DEF LoadAuth, Goto, CountInv, TypeOK
  <2>. QED BY <1>3, <2>1 DEF Unchanged
<1>7. CASE RestoreSession(a)
  <2>1. pc'[a] = "countPublic" /\ login' = auth'
    BY <1>7 DEF RestoreSession, Goto, CountInv, CountMem, TypeOK
  <2>. QED BY <1>3, <2>1 DEF Unchanged
<1>8. CASE CountPublic(a)
  <2>1. /\ loaded'[a] = login /\ mem'[a] = Restored(NoUser) /\ login = auth
        /\ UNCHANGED <<store, auth, login>>
    BY <1>8 DEF CountPublic, CountInv, CountMem, TypeOK
  <2>2. Restored(NoUser)' = Restored(NoUser) /\ Visible(auth)' = Visible(auth)
    BY <2>1 DEF Restored, Visible
  <2>3. CASE login = NoUser
    <3>1. pc'[a] = "publish"
      BY <1>8, <2>3 DEF CountPublic, Goto, CountInv, TypeOK
    <3>2. mem'[a] = Visible(auth)
      BY <2>1, <2>3 DEF Visible
    <3>. QED BY <1>3, <2>1, <2>2, <3>1, <3>2 DEF Unchanged
  <2>4. CASE login # NoUser
    <3>1. pc'[a] = "countPrivate"
      BY <1>8, <2>4 DEF CountPublic, Goto, CountInv, TypeOK
    <3>. QED BY <1>3, <2>1, <2>2, <2>4, <3>1 DEF Unchanged
  <2>. QED BY <2>3, <2>4
<1>9. CASE CountPrivate(a)
  <2>1. /\ pc'[a] = "publish" /\ mem'[a] = mem[a] \cup Restored(loaded[a])
        /\ UNCHANGED <<store, auth, login>>
    BY <1>9 DEF CountPrivate, Goto, CountInv, TypeOK
  <2>2. login = auth /\ auth # NoUser /\ loaded[a] = auth /\ mem[a] = Restored(NoUser)
    BY <1>9 DEF CountPrivate, CountInv, CountMem
  <2>3. mem'[a] = Visible(auth) /\ Visible(auth)' = Visible(auth)
    BY <2>1, <2>2 DEF Visible, Restored
  <2>. QED BY <1>3, <2>1, <2>2, <2>3 DEF Unchanged
<1>10. CASE Publish(a)
  <2>1. login = auth /\ mem[a] = Visible(auth)
    BY <1>10 DEF Publish, CountInv, CountMem
  <2>2. /\ pc'[a] = "idle" /\ counts' = CountOf(mem[a])
        /\ UNCHANGED <<store, auth, login>>
    BY <1>10 DEF Publish, Goto, CountInv, TypeOK
  <2>3. Agree'
    BY <2>1, <2>2 DEF Agree, Visible, Restored
  <2>. QED BY <1>3, <2>2, <2>3
<1>. QED BY <1>4, <1>5, <1>6, <1>7, <1>8, <1>9, <1>10 DEF Step

\* If one operation runs at a time, the counts are right whenever none does and
\* refreshCounts was the last to set them, not the test button: logins, letters read back cut off and
\* operations that change nothing included.
THEOREM CountsRight == ASSUME Serial PROVE Spec => []CountsAgree
<1>1. Init /\ TypeOK => CountInv
  BY DEF Init, CountInv, CountMem
<1>2. CountInv /\ TypeOK' /\ [Next]_vars => CountInv'
  <2> SUFFICES ASSUME CountInv, TypeOK', [Next]_vars PROVE CountInv'
    OBVIOUS
  <2>1. CASE Kill
    BY <2>1 DEF Kill, CountInv, CountMem
  <2>2. CASE UNCHANGED vars
    BY <2>2, RestCount DEF vars
  <2>. QED BY <2>1, <2>2, ScreenCount, CallCount, StepCount DEF Next
<1>3. CountInv => CountsAgree
  BY DEF CountInv, CountsAgree, Quiet, Agree, Unchanged
<1>. QED BY <1>1, <1>2, <1>3, InboxTypeCorrect, PTL DEF Spec

-----------------------------------------------------------------------------
\* A letter as Mailbox knows it, and what an operation makes of a mailbox.
Seen(S) == {[id |-> l.id, unread |-> l.unread] : l \in S}

Applied(op, l, S) ==
    CASE op \in {"add", "restore"} -> IF \E m \in S : m.id = l.id THEN S ELSE S \cup {l}
      [] op = "delete" -> {m \in S : m.id # l.id}
      [] op = "read" -> {IF m.id = l.id THEN [m EXCEPT !.unread = FALSE] ELSE m : m \in S}

\* What the thread of a profile operation holds is what the settings hold, and
\* then that with the operation applied to its own mailbox.
HoldsMail(a, l) ==
    /\ job[a].letters = {l}
    /\ pc[a] = "restoreUser" => mem[a] = Restored(NoUser)
    /\ pc[a] = "change" => mem[a] = Visible(job[a].owner)
    /\ pc[a] = "storePrivate" =>
          /\ job[a].owner # NoUser
          /\ InBox(mem[a], TRUE) = Applied(job[a].op, l, store[job[a].owner])
    /\ pc[a] \in {"storePrivate", "storePublic"} =>
          InBox(mem[a], FALSE) = IF job[a].owner = NoUser
                                 THEN Applied(job[a].op, l, store[NoUser])
                                 ELSE store[NoUser]

MailMem == \A a \in Actor : pc[a] \in Profiling => \E l \in Letter : HoldsMail(a, l)

\* The inductive invariant of the step simulation.
MailInv ==
    /\ SeparateInv
    /\ \A a, b \in Actor : pc[a] # "idle" /\ pc[b] # "idle" => a = b
    /\ MailMem

\* The request of a thread, and what Mailbox allows in a step, said of Mail
\* and Asked.
RequestOf(a, l) ==
    [op |-> job[a].op, box |-> job[a].owner, id |-> l.id, unread |-> l.unread]

Given(i, M) == {e \in M : e.id = i}

Fulfils(op, i, unread, M, N) ==
    \/ /\ op \in {"add", "restore"} /\ Given(i, M) = {}
       /\ N = M \cup {[id |-> i, unread |-> unread]}
    \/ op = "delete" /\ N = M \ Given(i, M)
    \/ /\ op = "read"
       /\ N = (M \ Given(i, M)) \cup {[e EXCEPT !.unread = FALSE] : e \in Given(i, M)}

MailStep ==
    \/ \E r \in Promise!Request : Asked' = Asked \cup {r} /\ Mail' = Mail
    \/ \E r \in Promise!Request :
          /\ r \in Asked /\ Asked' \in {Asked, Asked \ {r}}
          /\ Fulfils(r.op, r.id, r.unread, Mail[r.box], Mail'[r.box])
          /\ Mail' = [Mail EXCEPT ![r.box] = Mail'[r.box]]
    \/ Asked' \subseteq Asked /\ Mail' = Mail

\* Such a step is a step of Mailbox.
LEMMA MailStepAllowed == MailStep => Promise!Next
<1> SUFFICES ASSUME MailStep PROVE Promise!Next
  OBVIOUS
<1>1. ASSUME NEW r \in Promise!Request, Asked' = Asked \cup {r}, Mail' = Mail
      PROVE  Promise!Ask(r)
  BY <1>1 DEF Promise!Ask, Mail, Asked
<1>2. ASSUME NEW r \in Promise!Request, r \in Asked, Asked' \in {Asked, Asked \ {r}},
             Fulfils(r.op, r.id, r.unread, Mail[r.box], Mail'[r.box]),
             Mail' = [Mail EXCEPT ![r.box] = Mail'[r.box]]
      PROVE  Promise!Put(r) \/ Promise!Remove(r) \/ Promise!MarkRead(r)
  <2>1. Promise!Entries(r) = Given(r.id, Mail[r.box])
    BY DEF Promise!Entries, Given, Mail
  <2>2. ASSUME NEW S, S = Mail'[r.box] PROVE Promise!Replace(r, S)
    BY <1>2, <2>2 DEF Promise!Replace, Mail, Asked
  <2>3. ASSUME /\ r.op \in {"add", "restore"} /\ Given(r.id, Mail[r.box]) = {}
               /\ Mail'[r.box] = Mail[r.box] \cup {[id |-> r.id, unread |-> r.unread]}
        PROVE  Promise!Put(r)
    <3>1. Promise!Replace(r, Mail[r.box] \cup {[id |-> r.id, unread |-> r.unread]})
      BY <2>2, <2>3
    <3>. QED BY <2>1, <2>3, <3>1 DEF Promise!Put, Mail
  <2>4. ASSUME r.op = "delete", Mail'[r.box] = Mail[r.box] \ Given(r.id, Mail[r.box])
        PROVE  Promise!Remove(r)
    <3>1. Promise!Replace(r, Mail[r.box] \ Promise!Entries(r))
      BY <2>1, <2>2, <2>4
    <3>. QED BY <2>4, <3>1 DEF Promise!Remove, Mail
  <2>5. ASSUME /\ r.op = "read"
               /\ Mail'[r.box] = (Mail[r.box] \ Given(r.id, Mail[r.box]))
                                 \cup {[e EXCEPT !.unread = FALSE] : e \in Given(r.id, Mail[r.box])}
        PROVE  Promise!MarkRead(r)
    <3>1. Promise!Replace(r, (Mail[r.box] \ Promise!Entries(r))
                     \cup {[e EXCEPT !.unread = FALSE] : e \in Promise!Entries(r)})
      BY <2>1, <2>2, <2>5
    <3>. QED BY <2>5, <3>1 DEF Promise!MarkRead, Mail
  <2>. QED BY <1>2, <2>3, <2>4, <2>5 DEF Fulfils
<1>3. Asked' \subseteq Asked /\ Mail' = Mail => Promise!Drop
  BY DEF Promise!Drop, Mail, Asked
<1>. QED BY <1>1, <1>2, <1>3 DEF MailStep, Promise!Next

-----------------------------------------------------------------------------
Plain == \A i \in Id : Text[i] = "plain"

\* Plain texts come back as they were written.
LEMMA RestoredPlain ==
    ASSUME Plain, TypeOK, NEW b \in Box
    PROVE  Restored(b) = store[b] \X {b # NoUser}
<1>1. \A l \in store[b] : ~Breaks(b, l)
  BY DEF Breaks, Plain, TypeOK, Letter
<1>2. DecodeArray(b, store[b]) = store[b]
  BY <1>1 DEF DecodeArray
<1>. QED BY <1>2 DEF Restored

\* A side of a profile: the letters paired with its flag.
LEMMA InBoxMember ==
    ASSUME NEW A, NEW B, NEW P \in SUBSET (A \X B), NEW side
    PROVE  \A l : l \in InBox(P, side) <=> <<l, side>> \in P
<1>1. ASSUME NEW l, l \in InBox(P, side) PROVE <<l, side>> \in P
  <2>1. PICK p \in P : p[2] = side /\ p[1] = l
    BY <1>1 DEF InBox
  <2>2. p = <<p[1], p[2]>>
    OBVIOUS
  <2>. QED BY <2>1, <2>2
<1>2. ASSUME NEW l, <<l, side>> \in P PROVE l \in InBox(P, side)
  BY <1>2 DEF InBox
<1>. QED BY <1>1, <1>2

\* The side of letters that were all paired with one flag.
LEMMA InBoxProduct ==
    ASSUME NEW S, NEW side
    PROVE  /\ InBox(S \X {side}, side) = S
           /\ \A other : other # side => InBox(S \X {side}, other) = {}
<1>1. \A other, l : l \in InBox(S \X {side}, other) <=> l \in S /\ other = side
  <2>1. \A other, l : <<l, other>> \in S \X {side} <=> l \in S /\ other = side
    OBVIOUS
  <2>2. S \X {side} \in SUBSET (S \X {side})
    OBVIOUS
  <2>. QED BY <2>1, <2>2, InBoxMember
<1>. QED BY <1>1

\* The sides of two profiles joined.
LEMMA InBoxUnion ==
    ASSUME NEW P, NEW Q, NEW side
    PROVE  InBox(P \cup Q, side) = InBox(P, side) \cup InBox(Q, side)
  BY DEF InBox

\* What is restored for a mailbox is, side by side, what the settings hold.
LEMMA VisiblePlain ==
    ASSUME Plain, TypeOK, NEW b \in Box
    PROVE  /\ InBox(Visible(b), FALSE) = store[NoUser]
           /\ b # NoUser => InBox(Visible(b), TRUE) = store[b]
<1>1. NoUser \in Box
  BY DEF Box
<1>2. Restored(NoUser) = store[NoUser] \X {FALSE}
  BY <1>1, RestoredPlain
<1>3. CASE b = NoUser
  <2>1. Visible(b) = store[NoUser] \X {FALSE}
    BY <1>2, <1>3 DEF Visible
  <2>. QED BY <1>3, <2>1, InBoxProduct
<1>4. CASE b # NoUser
  <2>1. Visible(b) = (store[NoUser] \X {FALSE}) \cup (store[b] \X {TRUE})
    BY <1>2, <1>4, RestoredPlain DEF Visible
  <2>2. /\ InBox(store[NoUser] \X {FALSE}, FALSE) = store[NoUser]
        /\ InBox(store[NoUser] \X {FALSE}, TRUE) = {}
        /\ InBox(store[b] \X {TRUE}, FALSE) = {}
        /\ InBox(store[b] \X {TRUE}, TRUE) = store[b]
    BY InBoxProduct
  <2>3. \A side : InBox(Visible(b), side) = InBox(store[NoUser] \X {FALSE}, side)
                                            \cup InBox(store[b] \X {TRUE}, side)
    <3>1. \A side : InBox((store[NoUser] \X {FALSE}) \cup (store[b] \X {TRUE}), side)
                      = InBox(store[NoUser] \X {FALSE}, side)
                        \cup InBox(store[b] \X {TRUE}, side)
      BY DEF InBox
    <3>. QED BY <2>1, <3>1, Zenon
  <2>. QED BY <2>2, <2>3
<1>. QED BY <1>3, <1>4

\* What an operation does to a mailbox is what Mailbox allows its request.
LEMMA AppliedSeen ==
    ASSUME NEW S \in SUBSET Letter, NEW l \in Letter, NEW M, M = Seen(S),
           NEW op \in {"add", "restore", "delete", "read"}
    PROVE  \/ Seen(Applied(op, l, S)) = M
           \/ Fulfils(op, l.id, l.unread, M, Seen(Applied(op, l, S)))
<1> DEFINE E == {e \in M : e.id = l.id}
<1>0. Given(l.id, M) = E
  BY DEF Given
<1> DEFINE B(m) == [id |-> m.id, unread |-> m.unread]
<1>1. \A m : B(m).id = m.id /\ B(m).unread = m.unread
  OBVIOUS
<1>2. E = {} <=> ~\E m \in S : m.id = l.id
  <2>1. \A m \in S : B(m) \in M
    BY DEF Seen
  <2>2. \A e \in M : \E m \in S : e = B(m)
    BY DEF Seen
  <2>3. ASSUME NEW e \in E PROVE \E m \in S : m.id = l.id
    BY <1>1, <2>2
  <2>4. ASSUME NEW m \in S, m.id = l.id PROVE B(m) \in E
    BY <1>1, <2>1, <2>4
  <2>. QED BY <2>3, <2>4
<1>3. ASSUME op \in {"add", "restore"}, E = {}
      PROVE  Seen(Applied(op, l, S)) = M \cup {B(l)}
  <2>1. Applied(op, l, S) = S \cup {l}
    BY <1>2, <1>3 DEF Applied
  <2>. QED BY <2>1 DEF Seen
<1>4. ASSUME op \in {"add", "restore"}, E # {} PROVE Seen(Applied(op, l, S)) = M
  BY <1>2, <1>4 DEF Applied
<1>5. ASSUME op = "delete" PROVE Seen(Applied(op, l, S)) = M \ E
  <2>1. Applied(op, l, S) = {m \in S : m.id # l.id}
    BY <1>5 DEF Applied
  <2>. QED BY <2>1, <1>1 DEF Seen
<1>6. ASSUME op = "read"
      PROVE  Seen(Applied(op, l, S)) = (M \ E) \cup {[e EXCEPT !.unread = FALSE] : e \in E}
  <2> DEFINE R(m) == IF m.id = l.id THEN [m EXCEPT !.unread = FALSE] ELSE m
  <2>1. Applied(op, l, S) = {R(m) : m \in S}
    BY <1>6 DEF Applied
  <2>2. \A m \in S : B(R(m)) = IF m.id = l.id THEN [B(m) EXCEPT !.unread = FALSE]
                                              ELSE B(m)
    BY DEF Letter
  <2>3. Seen(Applied(op, l, S)) = {B(R(m)) : m \in S}
    <3>1. Seen({R(m) : m \in S}) = {B(x) : x \in {R(m) : m \in S}}
      BY DEF Seen
    <3> HIDE DEF B, R
    <3>. QED BY <2>1, <3>1
  <2>4. M = {B(m) : m \in S}
    BY DEF Seen
  <2> DEFINE Q(e) == [e EXCEPT !.unread = FALSE]
  <2>5. \A m \in S : B(R(m)) = IF m.id = l.id THEN Q(B(m)) ELSE B(m)
    BY <2>2
  <2> HIDE DEF B, R, Q
  <2>6. ASSUME NEW x PROVE x \in {B(R(m)) : m \in S} <=>
                              x \in (M \ E) \cup {Q(e) : e \in E}
    <3>1. ASSUME NEW m \in S, x = B(R(m)) PROVE x \in (M \ E) \cup {Q(e) : e \in E}
      <4>1. CASE m.id = l.id
        BY <1>1, <2>4, <2>5, <3>1, <4>1
      <4>2. CASE m.id # l.id
        BY <1>1, <2>4, <2>5, <3>1, <4>2
      <4>. QED BY <4>1, <4>2
    <3>2. ASSUME x \in M \ E PROVE x \in {B(R(m)) : m \in S}
      <4>1. PICK m \in S : x = B(m)
        BY <2>4, <3>2
      <4>2. m.id # l.id
        BY <1>1, <3>2, <4>1
      <4>. QED BY <2>5, <4>1, <4>2
    <3>3. ASSUME NEW e \in E, x = Q(e) PROVE x \in {B(R(m)) : m \in S}
      <4>1. PICK m \in S : e = B(m)
        BY <2>4
      <4>2. m.id = l.id
        BY <1>1, <4>1
      <4>. QED BY <2>5, <3>3, <4>1, <4>2
    <3>. QED BY <3>1, <3>2, <3>3
  <2>. QED BY <2>3, <2>6 DEF Q
<1>. QED BY <1>0, <1>3, <1>4, <1>5, <1>6 DEF Fulfils

\* addMessage, deleteMessage and setMessageRead change the letter's
\* own mailbox only, since no other mailbox holds its id.
LEMMA ChangedApplied ==
    ASSUME Plain, MailInv, NEW a \in Actor, pc[a] = "change",
           NEW l \in Letter, job[a].letters = {l}, mem[a] = Visible(job[a].owner)
    PROVE  IF job[a].owner = NoUser
           THEN InBox(Changed(a), FALSE) = Applied(job[a].op, l, store[NoUser])
           ELSE /\ InBox(Changed(a), FALSE) = store[NoUser]
                /\ InBox(Changed(a), TRUE) = Applied(job[a].op, l, store[job[a].owner])
<1> DEFINE b == job[a].owner
<1> DEFINE private == b # NoUser
<1>1. /\ b \in Box /\ NoUser \in Box /\ mem[a] \subseteq Letter \X BOOLEAN
      /\ store[b] \subseteq Letter /\ store[NoUser] \subseteq Letter
    BY DEF MailInv, SeparateInv, TypeOK, Job, Box
<1>2. /\ To[l.id] = b /\ job[a].op \in {"add", "restore", "delete", "read"}
      /\ \A p \in mem[a] : To[p[1].id] = IF p[2] THEN b ELSE NoUser
  BY DEF MailInv, SeparateInv, MemInv, ProfileInv, Profiling
<1>3. /\ InBox(mem[a], FALSE) = store[NoUser]
      /\ private => InBox(mem[a], TRUE) = store[b]
  BY <1>1, VisiblePlain DEF MailInv, SeparateInv
<1>4. \A p \in mem[a] : p[1].id = l.id => p[2] = private
  <2>1. \A p \in mem[a] : p[2] \in BOOLEAN
    BY <1>1
  <2>2. ASSUME NEW p \in mem[a], p[1].id = l.id PROVE p[2] = private
    <3>1. b = IF p[2] THEN b ELSE NoUser
      BY <1>2, <2>2
    <3>2. CASE p[2] = TRUE
      <4>1. b = NoUser => p \in Restored(NoUser)
        BY DEF Visible
      <4>. QED BY <3>2, <4>1 DEF Restored
    <3>3. CASE p[2] = FALSE
      BY <3>1, <3>3
    <3>. QED BY <2>1, <3>2, <3>3
  <2>. QED BY <2>2
<1>5. InBox(mem[a], private) = store[b]
  BY <1>3
<1>6. CASE job[a].op \in {"add", "restore"}
  <2>1. HasId(mem[a], l.id) <=> \E m \in store[b] : m.id = l.id
    <3>1. ASSUME HasId(mem[a], l.id) PROVE \E m \in store[b] : m.id = l.id
      BY <1>4, <1>5, <3>1 DEF HasId, InBox
    <3>2. ASSUME NEW m \in store[b], m.id = l.id PROVE HasId(mem[a], l.id)
      BY <1>5, <3>2 DEF HasId, InBox
    <3>. QED BY <3>1, <3>2
  <2>2. Changed(a) = mem[a] \cup ((IF HasId(mem[a], l.id) THEN {} ELSE {l}) \X {private})
    BY <1>6 DEF Changed
  <2>3. CASE HasId(mem[a], l.id)
    <3>1. Changed(a) = mem[a] /\ Applied(job[a].op, l, store[b]) = store[b]
      BY <1>6, <2>1, <2>2, <2>3 DEF Applied
    <3>. QED BY <1>3, <3>1
  <2>4. CASE ~HasId(mem[a], l.id)
    <3>1. Changed(a) = mem[a] \cup ({l} \X {private})
      BY <2>2, <2>4
    <3>2. Applied(job[a].op, l, store[b]) = store[b] \cup {l}
      BY <1>6, <2>1, <2>4 DEF Applied
    <3>3. InBox(Changed(a), private) = store[b] \cup {l}
      <4>1. InBox({l} \X {private}, private) = {l}
        BY InBoxProduct
      <4>. QED BY <1>5, <3>1, <4>1, InBoxUnion
    <3>4. private => InBox(Changed(a), FALSE) = InBox(mem[a], FALSE)
      <4>1. private => InBox({l} \X {private}, FALSE) = {}
        BY InBoxProduct
      <4>2. InBox(Changed(a), FALSE) = InBox(mem[a], FALSE)
                                       \cup InBox({l} \X {private}, FALSE)
        <5>1. InBox(mem[a] \cup ({l} \X {private}), FALSE)
                = InBox(mem[a], FALSE) \cup InBox({l} \X {private}, FALSE)
          BY DEF InBox
        <5>. QED BY <3>1, <5>1, Zenon
      <4>. QED BY <4>1, <4>2
    <3>. QED BY <1>3, <3>2, <3>3, <3>4
  <2>. QED BY <2>3, <2>4
<1>7. CASE job[a].op = "delete"
  <2>1. Changed(a) = {p \in mem[a] : p[1].id # l.id}
    BY <1>7 DEF Changed
  <2>2. Applied(job[a].op, l, store[b]) = {m \in store[b] : m.id # l.id}
    BY <1>7 DEF Applied
  <2>3. InBox(Changed(a), private) = {m \in store[b] : m.id # l.id}
    BY <1>5, <2>1 DEF InBox
  <2>4. private => InBox(Changed(a), FALSE) = InBox(mem[a], FALSE)
    BY <1>4, <2>1 DEF InBox
  <2>. QED BY <1>3, <2>2, <2>3, <2>4
<1>8. CASE job[a].op = "read"
  <2> DEFINE R(m) == IF m.id = l.id THEN [m EXCEPT !.unread = FALSE] ELSE m
  <2>1. Changed(a) = {<<R(p[1]), p[2]>> : p \in mem[a]}
    <3>1. Changed(a) = {IF p[1].id = l.id THEN <<[p[1] EXCEPT !.unread = FALSE], p[2]>>
                                          ELSE p : p \in mem[a]}
      BY <1>8 DEF Changed
    <3>2. ASSUME NEW p \in mem[a]
          PROVE  <<R(p[1]), p[2]>> =
                    IF p[1].id = l.id THEN <<[p[1] EXCEPT !.unread = FALSE], p[2]>> ELSE p
      <4>1. p = <<p[1], p[2]>>
        BY <1>1
      <4>. QED BY <4>1
    <3>. QED BY <3>1, <3>2
  <2>2. Applied(job[a].op, l, store[b]) = {R(m) : m \in store[b]}
    BY <1>8 DEF Applied
  <2>3. \A side \in BOOLEAN : InBox(Changed(a), side) = {R(m) : m \in InBox(mem[a], side)}
    <3> HIDE DEF R
    <3> SUFFICES ASSUME NEW side \in BOOLEAN
                 PROVE  InBox(Changed(a), side) = {R(m) : m \in InBox(mem[a], side)}
      OBVIOUS
    <3>1. \A p \in mem[a] : <<R(p[1]), p[2]>>[1] = R(p[1]) /\ <<R(p[1]), p[2]>>[2] = p[2]
      OBVIOUS
    <3>2. ASSUME NEW x \in InBox(Changed(a), side) PROVE x \in {R(m) : m \in InBox(mem[a], side)}
      <4>1. PICK q \in Changed(a) : q[2] = side /\ q[1] = x
        BY <3>2 DEF InBox
      <4>2. PICK p \in mem[a] : q = <<R(p[1]), p[2]>>
        BY <2>1
      <4>3. p[1] \in InBox(mem[a], side)
        BY <3>1, <4>1, <4>2 DEF InBox
      <4>. QED BY <3>1, <4>1, <4>2, <4>3
    <3>3. ASSUME NEW m \in InBox(mem[a], side) PROVE R(m) \in InBox(Changed(a), side)
      <4>1. PICK p \in mem[a] : p[2] = side /\ p[1] = m
        BY <3>3 DEF InBox
      <4>2. <<R(p[1]), p[2]>> \in Changed(a)
        BY <2>1
      <4>. QED BY <3>1, <4>1, <4>2 DEF InBox
    <3>. QED BY <3>2, <3>3
  <2>4. private => \A m \in InBox(mem[a], FALSE) : R(m) = m
    BY <1>4 DEF InBox
  <2> HIDE DEF R
  <2>5. private => InBox(Changed(a), FALSE) = InBox(mem[a], FALSE)
    BY <2>3, <2>4
  <2>6. InBox(Changed(a), private) = {R(m) : m \in store[b]}
    BY <1>5, <2>3
  <2>. QED BY <1>3, <2>2, <2>5, <2>6
<1>. QED BY <1>2, <1>6, <1>7, <1>8

-----------------------------------------------------------------------------
\* Asked, of the program counters and jobs of a state.
Requests(P, J) ==
    UNION {[op : {J[a].op}, box : {J[a].owner}, id : {l.id : l \in J[a].letters},
            unread : {l.unread : l \in J[a].letters}] :
              a \in {x \in Actor : P[x] \in Profiling}}

\* Asked is made of the program counters and the jobs.
LEMMA AskedIs == Asked = Requests(pc, job) /\ Asked' = Requests(pc', job')
  BY DEF Asked, Requests

\* A single thread in a profile makes a single request.
LEMMA OneRequest ==
    ASSUME NEW P, NEW J, NEW a \in Actor, P[a] \in Profiling,
           \A b \in Actor \ {a} : P[b] \notin Profiling,
           NEW l, J[a].letters = {l}
    PROVE  Requests(P, J) = {[op |-> J[a].op, box |-> J[a].owner, id |-> l.id,
                              unread |-> l.unread]}
<1>1. {x \in Actor : P[x] \in Profiling} = {a}
  OBVIOUS
<1>2. Requests(P, J) = [op : {J[a].op}, box : {J[a].owner},
                        id : {k.id : k \in J[a].letters},
                        unread : {k.unread : k \in J[a].letters}]
  BY <1>1 DEF Requests
<1>3. {k.id : k \in J[a].letters} = {l.id} /\ {k.unread : k \in J[a].letters} = {l.unread}
  OBVIOUS
<1>4. Requests(P, J) = [op : {J[a].op}, box : {J[a].owner}, id : {l.id}, unread : {l.unread}]
  BY <1>2, <1>3
<1> DEFINE r == [op |-> J[a].op, box |-> J[a].owner, id |-> l.id, unread |-> l.unread]
<1>5. \A q \in Requests(P, J) : q = r
  BY <1>4
<1>6. r \in Requests(P, J)
  BY <1>4
<1>. QED BY <1>5, <1>6

\* No thread in a profile, no request.
LEMMA NoRequest ==
    ASSUME NEW P, NEW J, \A b \in Actor : P[b] \notin Profiling
    PROVE  Requests(P, J) = {}
  BY DEF Requests

\* A mailbox as Mailbox sees it.
LEMMA MailIs ==
    /\ \A b \in Box : Mail[b] = Seen(store[b])
    /\ \A b \in Box : Mail'[b] = Seen(store'[b])
    /\ DOMAIN Mail = Box /\ DOMAIN Mail' = Box
  BY DEF Mail, Seen

\* The request of a letter in its mailbox is one Mailbox knows.
LEMMA RequestType ==
    ASSUME SeparateInv, NEW a \in Actor, pc[a] \in Profiling, NEW l \in Letter,
           job[a].letters = {l}
    PROVE  RequestOf(a, l) \in Promise!Request
<1>1. /\ job[a].op \in {"add", "restore", "delete", "read"} /\ job[a].owner \in Box
      /\ To[l.id] = job[a].owner
  BY DEF SeparateInv, TypeOK, Job, ProfileInv, MemInv
<1>2. l.id \in Id /\ l.unread \in BOOLEAN
  BY DEF Letter
<1>. QED BY <1>1, <1>2 DEF RequestOf, Promise!Request

\* Storing the changed mailbox fulfils the request, or changes nothing.
LEMMA StoreMail ==
    ASSUME SeparateInv, NEW a \in Actor, pc[a] \in Profiling, NEW l \in Letter,
           job[a].letters = {l}, Asked = {RequestOf(a, l)},
           Asked' \in {Asked, {}},
           store' = [store EXCEPT ![job[a].owner] =
                        Applied(job[a].op, l, store[job[a].owner])]
    PROVE  MailStep
<1> DEFINE r == RequestOf(a, l)
<1> DEFINE S == store[r.box]
<1>1. r \in Promise!Request /\ r \in Asked /\ Asked' \in {Asked, Asked \ {r}}
  BY RequestType
<1>2. /\ r.op = job[a].op /\ r.box = job[a].owner /\ r.id = l.id /\ r.unread = l.unread
      /\ r.op \in {"add", "restore", "delete", "read"} /\ r.box \in Box
  BY DEF RequestOf, SeparateInv, ProfileInv, TypeOK, Job
<1>3. S \in SUBSET Letter
  BY <1>2 DEF SeparateInv, TypeOK
<1>4. Mail[r.box] = Seen(S) /\ Mail'[r.box] = Seen(Applied(r.op, l, S))
  BY <1>2, MailIs DEF SeparateInv, TypeOK
<1>5. Mail' = [Mail EXCEPT ![r.box] = Mail'[r.box]]
  <2>1. \A b \in Box \ {r.box} : Mail'[b] = Mail[b]
    BY <1>2, MailIs DEF SeparateInv, TypeOK
  <2>. QED BY <2>1, MailIs DEF Mail
<1> HIDE DEF r, S
<1>6. CASE Mail'[r.box] = Mail[r.box]
  <2>1. Mail' = Mail
    BY <1>5, <1>6 DEF Mail
  <2>. QED BY <1>1, <2>1 DEF MailStep
<1>7. CASE Mail'[r.box] # Mail[r.box]
  <2>1. Fulfils(r.op, l.id, l.unread, Mail[r.box], Mail'[r.box])
    BY <1>2, <1>3, <1>4, <1>7, AppliedSeen
  <2>. QED BY <1>1, <1>2, <1>5, <2>1 DEF MailStep
<1>. QED BY <1>6, <1>7

\* One thread is busy, and its profile is as HoldsMail says.
LEMMA OneBusy ==
    ASSUME NEW a \in Actor, \A b \in Actor \ {a} : pc'[b] = "idle",
           pc'[a] \in Profiling => \E l \in Letter : HoldsMail(a, l)'
    PROVE  /\ \A b, c \in Actor : pc'[b] # "idle" /\ pc'[c] # "idle" => b = c
           /\ MailMem'
<1>1. \A b, c \in Actor : pc'[b] # "idle" /\ pc'[c] # "idle" => b = c
  OBVIOUS
<1>2. "idle" \notin Profiling
  BY DEF Profiling
<1>3. ASSUME NEW b \in Actor, pc'[b] \in Profiling
      PROVE  \E l \in Letter : HoldsMail(b, l)'
  <2>1. b = a
    BY <1>2, <1>3
  <2>. QED BY <1>3, <2>1
<1>. QED BY <1>1, <1>3 DEF MailMem

\* An operation begins: its request is made, if it changes a mailbox.
LEMMA BeginMail ==
    ASSUME MailInv, SeparateInv', Serial, NEW a \in Actor, NEW op, NEW letters,
           NEW owner, NEW label \in {"restorePublic", "saveAuth", "loadAuth"},
           Begin(a, op, letters, owner, label),
           label = "restorePublic" => \E l \in Letter : letters = {l}
    PROVE  MailInv' /\ MailStep
<1>1. /\ \A b \in Actor : pc[b] = "idle" /\ pc' = [pc EXCEPT ![a] = label]
      /\ job' = [job EXCEPT ![a] = [op |-> op, letters |-> letters, owner |-> owner]]
      /\ store' = store
  BY DEF Begin, Goto
<1>2. /\ pc'[a] = label /\ job'[a].letters = letters
      /\ \A b \in Actor \ {a} : pc'[b] = "idle"
  BY <1>1 DEF MailInv, SeparateInv, TypeOK
<1>3. "idle" \notin Profiling /\ (label \in Profiling <=> label = "restorePublic")
  BY DEF Profiling
<1>4. Mail' = Mail
  BY <1>1 DEF Mail
<1>5. Asked = {}
  BY <1>1, <1>3, AskedIs, NoRequest
<1>6. CASE label = "restorePublic"
  <2>1. PICK l \in Letter : letters = {l}
    BY <1>6
  <2>2. HoldsMail(a, l)'
    BY <1>2, <1>6, <2>1 DEF HoldsMail
  <2>3. MailInv'
    BY <1>2, <2>2, OneBusy DEF MailInv
  <2>4. Asked' = {RequestOf(a, l)'}
    BY <1>2, <1>3, <1>6, <2>1, AskedIs, OneRequest DEF RequestOf
  <2>5. RequestOf(a, l)' \in Promise!Request
    <3>1. /\ job'[a].op \in {"add", "restore", "delete", "read"}
          /\ job'[a].owner \in Box /\ To[l.id] = job'[a].owner
      BY <1>2, <1>3, <1>6, <2>1 DEF SeparateInv, TypeOK, Job, ProfileInv, MemInv
    <3>2. l.id \in Id /\ l.unread \in BOOLEAN
      BY DEF Letter
    <3>. QED BY <3>1, <3>2 DEF RequestOf, Promise!Request
  <2>. QED BY <1>4, <1>5, <2>3, <2>4, <2>5 DEF MailStep
<1>7. CASE label # "restorePublic"
  <2>1. Asked' = {}
    BY <1>2, <1>3, <1>7, AskedIs, NoRequest
  <2>2. MailInv'
    BY <1>2, <1>3, <1>7, OneBusy DEF MailInv
  <2>. QED BY <1>4, <1>5, <2>1, <2>2 DEF MailStep
<1>. QED BY <1>6, <1>7

\* What touches neither the threads nor the settings.
LEMMA RestMail ==
    ASSUME MailInv, SeparateInv', UNCHANGED <<store, threadVars>>
    PROVE  MailInv' /\ MailStep
<1>1. Mail' = Mail /\ Asked' = Asked
  BY AskedIs DEF Mail, threadVars
<1>2. MailMem'
  BY DEF MailInv, MailMem, HoldsMail, threadVars, Visible, Restored
<1>. QED BY <1>1, <1>2 DEF MailInv, MailStep, threadVars

\* What is done on the inbox screen asks for something, or for nothing.
LEMMA ScreenMail ==
    ASSUME MailInv, SeparateInv', Serial, Screen PROVE MailInv' /\ MailStep
<1>1. CASE (\E e \in InFront : Screen_Delete(e)) \/ (\E e \in shown : Screen_Tap(e))
  BY <1>1, BeginMail, ActorAssumption
  DEF Screen_Delete, Screen_Tap, InFront, MailInv, SeparateInv, TypeOK, Entry
<1>2. CASE \E e \in undo : Screen_Undo(e)
  BY <1>2, BeginMail, ActorAssumption DEF Screen_Undo, MailInv, SeparateInv, TypeOK, Entry
<1>3. CASE Launch
  BY <1>3, BeginMail, ActorAssumption DEF Launch
<1>4. CASE \/ Screen_Forget \/ Screen_Recompose \/ Screen_Reopen \/ Screen_CloseDetail
           \/ (\E e \in shown : Screen_Detail(e)) \/ (\E n \in Drawn : Test(n))
  BY <1>4, RestMail DEF Screen_Forget, Screen_Recompose, Screen_Reopen,
                        Screen_CloseDetail, Screen_Detail, Test
<1>. QED BY <1>1, <1>2, <1>3, <1>4 DEF Screen

\* A push asks for its letter; a login asks for nothing.
LEMMA CallMail ==
    ASSUME MailInv, SeparateInv', Serial, Call PROVE MailInv' /\ MailStep
<1>1. ASSUME NEW a \in Actor, NEW i \in Id, Receive(a, i) PROVE MailInv' /\ MailStep
  <2>1. Arrived(i) \in Letter
    BY DEF Arrived, Letter
  <2>. QED BY <1>1, <2>1, BeginMail DEF Receive
<1>2. ASSUME NEW a \in Actor, NEW u \in Box, Authorize(a, u) PROVE MailInv' /\ MailStep
  BY <1>2, BeginMail DEF Authorize
<1>. QED BY <1>1, <1>2 DEF Call

\* The steps of the operation under way.
LEMMA StepMail ==
    ASSUME Plain, MailInv, SeparateInv', NEW a \in Actor, Step(a)
    PROVE  MailInv' /\ MailStep
<1>1. /\ pc[a] # "idle" /\ \A b \in Actor \ {a} : pc[b] = "idle" /\ pc'[b] = "idle"
      /\ job' = job
  <2>1. pc[a] # "idle" /\ job' = job
    BY DEF Step, RestorePublic, RestoreUser, Change, StorePrivate, StorePublic, SaveAuth,
           SetSession, LoadAuth, RestoreSession, CountPublic, CountPrivate, Publish
  <2>2. \A b \in Actor \ {a} : pc'[b] = pc[b]
    BY DEF Step, RestorePublic, RestoreUser, Change, StorePrivate, StorePublic, SaveAuth,
           SetSession, LoadAuth, RestoreSession, CountPublic, CountPrivate, Publish,
           Goto, MailInv, SeparateInv, TypeOK
  <2>. QED BY <2>1, <2>2 DEF MailInv
<1>2. (pc'[a] \in Profiling => \E l \in Letter : HoldsMail(a, l)') => MailInv'
  BY <1>1, OneBusy DEF MailInv
<1>3. "idle" \notin Profiling
  BY DEF Profiling
<1>4. pc'[a] \notin Profiling => Asked' = {}
  BY <1>1, <1>3, AskedIs, NoRequest
<1>5. ASSUME NEW l \in Letter, job[a].letters = {l}
      PROVE  /\ pc[a] \in Profiling => Asked = {RequestOf(a, l)}
             /\ pc'[a] \in Profiling => Asked' = {RequestOf(a, l)}
  <2>1. ASSUME pc[a] \in Profiling PROVE Asked = {RequestOf(a, l)}
    <3>1. \A b \in Actor \ {a} : pc[b] \notin Profiling
      BY <1>1, <1>3
    <3>2. Requests(pc, job) = {RequestOf(a, l)}
      <4>1. Requests(pc, job) = {[op |-> job[a].op, box |-> job[a].owner,
                                  id |-> l.id, unread |-> l.unread]}
        <5>1. job[a].letters = {l}
          BY <1>5
        <5>. QED BY ONLY <5>1, <2>1, <3>1, OneRequest
      <4>. QED BY <4>1 DEF RequestOf
    <3>. QED BY <3>2, AskedIs
  <2>2. pc'[a] \in Profiling => Asked' = {RequestOf(a, l)}
    BY <1>1, <1>3, <1>5, AskedIs, OneRequest DEF RequestOf
  <2>. QED BY <2>1, <2>2
<1>6. pc[a] \in Profiling => \E l \in Letter : HoldsMail(a, l)
  BY DEF MailInv, MailMem
<1>7. store' = store => Mail' = Mail /\ \A b \in Box : /\ Restored(b)' = Restored(b)
                                                       /\ Visible(b)' = Visible(b)
  BY DEF Mail, Restored, Visible
<1>8. job[a].owner \in Box /\ NoUser \in Box
  BY DEF MailInv, SeparateInv, TypeOK, Job, Box
<1>9. CASE RestorePublic(a) \/ RestoreUser(a) \/ Change(a)
  <2>1. /\ pc[a] \in Profiling /\ store' = store /\ pc'[a] \in Profiling \cup {"idle"}
        /\ pc'[a] \notin {"restorePublic"}
    BY <1>9 DEF RestorePublic, RestoreUser, Change, Goto, Profiling, MailInv,
                SeparateInv, TypeOK
  <2>2. PICK l \in Letter : HoldsMail(a, l)
    BY <1>6, <2>1
  <2>3. job[a].letters = {l}
    BY <2>2 DEF HoldsMail
  <2>4. Asked' \subseteq Asked /\ Mail' = Mail
    BY <1>4, <1>5, <1>7, <2>1, <2>3
  <2>5. pc'[a] \in Profiling => HoldsMail(a, l)'
    <3>1. CASE RestorePublic(a)
      <4>1. mem'[a] = Restored(NoUser)
        BY <3>1 DEF RestorePublic, MailInv, SeparateInv, TypeOK
      <4>2. IF job[a].owner = NoUser THEN pc'[a] = "change" ELSE pc'[a] = "restoreUser"
        BY <3>1 DEF RestorePublic, Goto, MailInv, SeparateInv, TypeOK
      <4>3. job[a].owner = NoUser => Visible(job[a].owner) = Restored(NoUser)
        BY DEF Visible
      <4>. QED BY <1>1, <1>7, <1>8, <2>1, <2>3, <4>1, <4>2, <4>3 DEF HoldsMail
    <3>2. CASE RestoreUser(a)
      <4>1. mem'[a] = mem[a] \cup Restored(job[a].owner) /\ pc'[a] = "change"
        BY <3>2 DEF RestoreUser, Goto, MailInv, SeparateInv, TypeOK
      <4>2. mem[a] = Restored(NoUser)
        BY <2>2, <3>2 DEF RestoreUser, HoldsMail
      <4>3. mem'[a] = Visible(job[a].owner)
        BY <4>1, <4>2 DEF Visible
      <4>. QED BY <1>1, <1>7, <1>8, <2>1, <2>3, <4>1, <4>3 DEF HoldsMail
    <3>3. CASE Change(a)
      <4>1. /\ pc[a] = "change" /\ mem'[a] = Changed(a)
            /\ pc'[a] \in {"idle", "storePublic", "storePrivate"}
            /\ pc'[a] = "storePublic" => job[a].owner = NoUser
            /\ pc'[a] = "storePrivate" => job[a].owner # NoUser
        BY <3>3 DEF Change, Goto, MailInv, SeparateInv, TypeOK
      <4>2. mem[a] = Visible(job[a].owner)
        BY <2>2, <4>1 DEF HoldsMail
      <4>3. IF job[a].owner = NoUser
            THEN InBox(Changed(a), FALSE) = Applied(job[a].op, l, store[NoUser])
            ELSE /\ InBox(Changed(a), FALSE) = store[NoUser]
                 /\ InBox(Changed(a), TRUE) = Applied(job[a].op, l, store[job[a].owner])
        BY <2>3, <4>1, <4>2, ChangedApplied
      <4>. QED BY <1>1, <1>3, <2>1, <2>3, <4>1, <4>3 DEF HoldsMail
    <3>. QED BY <1>9, <3>1, <3>2, <3>3
  <2>. QED BY <1>2, <2>4, <2>5 DEF MailStep
<1>10. CASE StorePrivate(a)
  <2>1. /\ pc[a] = "storePrivate" /\ pc'[a] = "storePublic" /\ mem' = mem
        /\ store' = [store EXCEPT ![job[a].owner] = InBox(mem[a], TRUE)]
        /\ pc[a] \in Profiling /\ pc'[a] \in Profiling
    BY <1>10 DEF StorePrivate, Goto, Profiling, MailInv, SeparateInv, TypeOK
  <2>2. PICK l \in Letter : HoldsMail(a, l)
    BY <1>6, <2>1
  <2>3. /\ job[a].letters = {l} /\ job[a].owner # NoUser
        /\ InBox(mem[a], TRUE) = Applied(job[a].op, l, store[job[a].owner])
        /\ InBox(mem[a], FALSE) = store[NoUser]
    BY <2>1, <2>2 DEF HoldsMail
  <2>4. MailStep
    BY <1>5, <2>1, <2>3, StoreMail DEF MailInv
  <2>5. store'[NoUser] = store[NoUser]
    BY <1>8, <2>1, <2>3 DEF MailInv, SeparateInv, TypeOK
  <2>6. HoldsMail(a, l)'
    BY <1>1, <2>1, <2>3, <2>5 DEF HoldsMail
  <2>. QED BY <1>2, <2>4, <2>6
<1>11. CASE StorePublic(a)
  <2>1. /\ pc[a] = "storePublic" /\ pc'[a] = "loadAuth"
        /\ store' = [store EXCEPT ![NoUser] = InBox(mem[a], FALSE)]
        /\ pc[a] \in Profiling /\ pc'[a] \notin Profiling
    BY <1>11 DEF StorePublic, Goto, Profiling, MailInv, SeparateInv, TypeOK
  <2>2. PICK l \in Letter : HoldsMail(a, l)
    BY <1>6, <2>1
  <2>3. job[a].letters = {l} /\ Asked = {RequestOf(a, l)} /\ Asked' = {}
    BY <1>4, <1>5, <2>1, <2>2 DEF HoldsMail
  <2>4. CASE job[a].owner = NoUser
    <3>1. InBox(mem[a], FALSE) = Applied(job[a].op, l, store[job[a].owner])
      BY <2>1, <2>2, <2>4 DEF HoldsMail
    <3>. QED BY <1>2, <2>1, <2>3, <2>4, <3>1, StoreMail DEF MailInv
  <2>5. CASE job[a].owner # NoUser
    <3>1. InBox(mem[a], FALSE) = store[NoUser]
      BY <2>1, <2>2, <2>5 DEF HoldsMail
    <3>2. store' = store
      BY <2>1, <3>1 DEF MailInv, SeparateInv, TypeOK
    <3>. QED BY <1>2, <1>7, <2>1, <2>3, <3>2 DEF MailStep
  <2>. QED BY <2>4, <2>5
<1>12. CASE SaveAuth(a) \/ SetSession(a) \/ LoadAuth(a) \/ RestoreSession(a)
            \/ CountPublic(a) \/ CountPrivate(a) \/ Publish(a)
  <2>1. store' = store /\ pc'[a] \notin Profiling
    BY <1>12 DEF SaveAuth, SetSession, LoadAuth, RestoreSession, CountPublic,
                 CountPrivate, Publish, Goto, Profiling, MailInv, SeparateInv, TypeOK
  <2>. QED BY <1>2, <1>4, <1>7, <2>1 DEF MailStep
<1>. QED BY <1>9, <1>10, <1>11, <1>12 DEF Step

\* If one operation runs at a time and texts come back as they were written,
\* the inbox implements Mailbox: whatever else an operation rewrites, and
\* wherever the process is killed, a mailbox changes only as asked.
THEOREM InboxIsMailbox == ASSUME Serial, Plain PROVE Spec => ImplementsMailbox
<1>1. Init => Promise!Init
  <2> SUFFICES ASSUME Init PROVE Promise!Init
    OBVIOUS
  <2>1. Mail = [b \in Box |-> {}]
    BY DEF Init, Mail
  <2>2. Asked = {}
    BY AskedIs, NoRequest DEF Init, Profiling
  <2>. QED BY <2>1, <2>2 DEF Promise!Init, Mail, Asked
<1>2. Init /\ SeparateInv => MailInv
  BY DEF Init, MailInv, MailMem, Profiling
<1>3. MailInv /\ SeparateInv' /\ [Next]_vars => MailInv' /\ MailStep
  <2> SUFFICES ASSUME MailInv, SeparateInv', [Next]_vars PROVE MailInv' /\ MailStep
    OBVIOUS
  <2>1. CASE Kill
    <3>1. MailInv'
      BY <2>1 DEF Kill, MailInv, MailMem, Profiling
    <3>2. Asked' = {} /\ Mail' = Mail
      BY <2>1, AskedIs, NoRequest DEF Kill, Mail, Profiling
    <3>. QED BY <3>1, <3>2 DEF MailStep
  <2>2. CASE UNCHANGED vars
    BY <2>2, RestMail DEF vars
  <2>. QED BY <2>1, <2>2, ScreenMail, CallMail, StepMail DEF Next
<1>4. MailStep => [Promise!Next]_<<Mail, Asked>>
  BY MailStepAllowed
<1>. QED BY <1>1, <1>2, <1>3, <1>4, SeparateCorrect, PTL
         DEF Spec, ImplementsMailbox, Promise!Spec, Mail, Asked

================================================================================
