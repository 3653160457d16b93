--------------------------------- MODULE Inbox ---------------------------------
(***************************************************************************)
(* The push inbox (PushInbox, MessagesProfile, LetterJson,                  *)
(* PushSettingsStorage), the session it depends on (WebAppSession,          *)
(* WebAppAuthStorage) and the inbox screen (PushMessagesInboxScreen).       *)
(*                                                                          *)
(* Every operation of PushInbox restores a profile from the settings,       *)
(* changes it in memory, stores it and recounts, without a lock.  The       *)
(* callers are several threads: the Firebase worker, the main thread with   *)
(* the inbox screen, and the thread of the WebView's JavaScript bridge.  On *)
(* iOS all three are the main thread, which is what Serial stands for.      *)
(* Each access to the settings or to a StateFlow is one step; the process   *)
(* may be killed between any two.                                           *)
(*                                                                          *)
(* The texts matter only for what LetterJson does with them: a closing      *)
(* brace, an opening brace or a closing bracket that has no partner.        *)
(* Letters are numbered by their time.                                      *)
(***************************************************************************)
EXTENDS Integers, FiniteSets

CONSTANTS
    Id,        \* the letters the server sends, later ones have larger numbers
    User,      \* logins
    NoUser,    \* no login; as a mailbox, the public one
    Actor,     \* the threads that run operations
    Ui,        \* the thread of the inbox screen
    To,        \* the mailbox each letter is addressed to
    Text,      \* what kind of text each letter has
    Serial,    \* one operation runs at a time
    MaxOps,    \* bound: operations begun in a run
    Drawn      \* bound: which of the numbers 0..99 test() draws

Box == User \cup {NoUser}
TextKind == {"plain", "closing", "opening", "bracket"}

ASSUME IdAssumption == Id \subseteq Nat \ {0} /\ IsFiniteSet(Id)
ASSUME UserAssumption == NoUser \notin User
ASSUME ActorAssumption == Ui \in Actor /\ Serial \in BOOLEAN
ASSUME BoundAssumption == MaxOps \in Nat /\ Drawn \subseteq 0..99
ASSUME ToAssumption == To \in [Id -> Box]
ASSUME TextAssumption == Text \in [Id -> TextKind]
\* Texts with both kinds of unpaired braces can make one letter out of two;
\* those are left out.
ASSUME BraceAssumption ==
    \A i, j \in Id : ~(Text[i] = "closing" /\ Text[j] = "opening")

VARIABLES
    store,     \* the settings: common.messages and cabinet.<user>
    auth,      \* the settings: auth_session.user_id
    login,     \* WebAppSession.session
    counts,    \* PushInbox.counts
    pc, job,   \* where each thread is, and in which operation
    mem,       \* the profile, or the list being counted, in its memory
    loaded,    \* the session it has read from the settings
    shown,     \* the entries on the inbox screen
    shownFor,  \* ... remembered for these counts
    detail,    \* the entry in the dialog over the screen: none or one
    undo,      \* the entries the snackbar can restore: none or one
    fresh,     \* the counts were last set by refreshCounts, in this process
    ops

threadVars == <<pc, job, mem, loaded>>
screenVars == <<shown, shownFor, detail, undo>>
vars == <<store, auth, login, counts, threadVars, screenVars, fresh, ops>>

-----------------------------------------------------------------------------
Letter == [id : Id, whole : BOOLEAN, unread : BOOLEAN]
Entry == [letter : Letter, owner : Box]
Op == {"none", "add", "delete", "read", "restore", "login", "refresh"}
Job == [op : Op, letters : SUBSET Letter, owner : Box]
Count == [total : Nat, unread : Nat]

Idle == [op |-> "none", letters |-> {}, owner |-> NoUser]
Zero == [total |-> 0, unread |-> 0]
Arrived(i) == [id |-> i, whole |-> TRUE, unread |-> TRUE]

\* A letter that lost the end of its JSON lost its time with it.
Time(l) == IF l.whole THEN l.id ELSE 0

\* LetterJson: unwrapPrivateMessages counts brackets and splitObjects counts
\* braces, those inside a quoted text included.
Breaks(b, l) == /\ l.whole
                /\ \/ Text[l.id] \in {"closing", "opening"}
                   \/ Text[l.id] = "bracket" /\ b # NoUser

\* The array is written newest first.  Reading it, everything behind the first
\* letter that breaks it is lost; that letter itself comes back cut off if its
\* brace closes the object, with the defaults for what follows its text.
DecodeArray(b, S) ==
    {l \in S : \A x \in S : Breaks(b, x) => Time(x) < Time(l)}
    \cup {[l EXCEPT !.whole = FALSE, !.unread = TRUE] :
             l \in {x \in S : /\ Breaks(b, x) /\ Text[x.id] = "closing"
                              /\ \A y \in S : Breaks(b, y) => Time(y) <= Time(x)}}

\* restorePublicProfile and restoreUserProfile: letters with their isPrivate.
Restored(b) == DecodeArray(b, store[b]) \X {b # NoUser}

InBox(P, private) == {p[1] : p \in {q \in P : q[2] = private}}
\* Mutant: letters are compared, not their ids.
HasId_Same(P, i) == \E p \in P : p[1] = Arrived(i)

HasId(P, i) == \E p \in P : p[1].id = i

CountOf(P) == [total |-> Cardinality(P),
               unread |-> Cardinality({p \in P : p[1].unread})]

-----------------------------------------------------------------------------
Init ==
    /\ store = [b \in Box |-> {}]
    /\ auth = NoUser /\ login = NoUser
    /\ counts = Zero
    /\ pc = [a \in Actor |-> "idle"]
    /\ job = [a \in Actor |-> Idle]
    /\ mem = [a \in Actor |-> {}]
    /\ loaded = [a \in Actor |-> NoUser]
    /\ shown = {} /\ shownFor = Zero /\ detail = {} /\ undo = {}
    /\ fresh = FALSE
    /\ ops = 0

Goto(a, label) == pc' = [pc EXCEPT ![a] = label]

Begin(a, op, letters, owner, label) ==
    /\ pc[a] = "idle"
    /\ Serial => \A b \in Actor : pc[b] = "idle"
    /\ ops < MaxOps
    /\ ops' = ops + 1
    /\ job' = [job EXCEPT ![a] = [op |-> op, letters |-> letters, owner |-> owner]]
    /\ mem' = [mem EXCEPT ![a] = {}]
    /\ Goto(a, label)
    /\ UNCHANGED <<store, auth, login, counts, loaded, fresh>>

-----------------------------------------------------------------------------
(* persist(parsed), for a push that arrives, arrives again, or is opened (on *)
(* the main thread).  The list of known user names it keeps is never read.   *)
Receive(a, i) ==
    /\ Begin(a, "add", {Arrived(i)}, To[i], "restorePublic")
    /\ UNCHANGED screenVars

(* The inbox screen: swipe to delete, undo in the snackbar, tap to read.  It *)
(* works on the entries it shows.  A tap also opens a dialog, which covers   *)
(* the screen and keeps its entry when the list is computed again.           *)
InFront == IF detail = {} THEN shown ELSE detail

Screen_Delete(e) ==
    /\ e \in InFront
    /\ Begin(Ui, "delete", {e.letter}, e.owner, "restorePublic")
    /\ undo' = {e} /\ detail' = {}
    /\ UNCHANGED <<shown, shownFor>>

Screen_Undo(e) ==
    /\ e \in undo /\ detail = {}
    /\ Begin(Ui, "restore", {e.letter}, e.owner, "restorePublic")
    /\ undo' = {}
    /\ UNCHANGED <<shown, shownFor, detail>>

Screen_Tap(e) ==
    /\ e \in shown /\ detail = {}
    /\ e.letter.unread
    /\ Begin(Ui, "read", {e.letter}, e.owner, "restorePublic")
    /\ detail' = {e}
    /\ UNCHANGED <<shown, shownFor, undo>>

ScreenIdle == pc[Ui] = "idle" /\ (Serial => \A a \in Actor : pc[a] = "idle")

\* A letter that has been read is only shown again.
Screen_Detail(e) ==
    /\ ScreenIdle
    /\ e \in shown /\ detail = {}
    /\ ~e.letter.unread
    /\ detail' = {e}
    /\ UNCHANGED <<store, auth, login, counts, threadVars, shown, shownFor, undo,
                   fresh, ops>>

Screen_CloseDetail ==
    /\ ScreenIdle
    /\ detail # {} /\ detail' = {}
    /\ UNCHANGED <<store, auth, login, counts, threadVars, shown, shownFor, undo,
                   fresh, ops>>

\* The snackbar goes away.
Screen_Forget ==
    /\ undo # {}
    /\ undo' = {}
    /\ UNCHANGED <<store, auth, login, counts, threadVars, shown, shownFor, detail,
                   fresh, ops>>

\* remember(pushCounts) { listInboxEntries() }
Listed(u) ==
    [letter : DecodeArray(NoUser, store[NoUser]), owner : {NoUser}]
    \cup (IF u = NoUser THEN {}
          ELSE [letter : DecodeArray(u, store[u]), owner : {u}])

Screen_Recompose ==
    /\ ScreenIdle
    /\ shownFor # counts
    /\ shownFor' = counts
    /\ shown' = Listed(login)
    /\ UNCHANGED <<store, auth, login, counts, threadVars, detail, undo, fresh, ops>>

\* The screen is closed and opened again.
Screen_Reopen ==
    /\ ScreenIdle
    /\ shownFor' = counts
    /\ shown' = Listed(login)
    /\ detail' = {} /\ undo' = {}
    /\ UNCHANGED <<store, auth, login, counts, threadVars, fresh, ops>>

(* PushInbox.test: the button "test msg" of the top bar, which the inbox     *)
(* screen covers while it is open.                                           *)
Test(n) ==
    /\ ScreenIdle
    /\ ops < MaxOps /\ ops' = ops + 1
    /\ counts' = [total |-> n, unread |-> n] /\ fresh' = FALSE
    /\ shown' = {} /\ detail' = {} /\ undo' = {}
    /\ UNCHANGED <<store, auth, login, threadVars, shownFor>>

(* WebAppSession.onAuthorized and onLogout (u = NoUser).                     *)
Authorize(a, u) ==
    /\ Begin(a, "login", {}, u, "saveAuth")
    /\ UNCHANGED screenVars

(* refreshCounts when App starts.                                            *)
Launch ==
    /\ Begin(Ui, "refresh", {}, NoUser, "loadAuth")
    /\ UNCHANGED screenVars

-----------------------------------------------------------------------------
(* The steps of a profile operation.                                         *)
\* Mutant: the public profile is only restored for a public letter.
RestorePublic_Skips(a) ==
    /\ pc[a] = "restorePublic"
    /\ mem' = [mem EXCEPT ![a] = IF job[a].owner = NoUser THEN Restored(NoUser) ELSE {}]
    /\ Goto(a, IF job[a].owner = NoUser THEN "change" ELSE "restoreUser")
    /\ UNCHANGED <<store, auth, login, counts, job, loaded, screenVars, fresh, ops>>

RestorePublic(a) ==
    /\ pc[a] = "restorePublic"
    /\ mem' = [mem EXCEPT ![a] = Restored(NoUser)]
    /\ Goto(a, IF job[a].owner = NoUser THEN "change" ELSE "restoreUser")
    /\ UNCHANGED <<store, auth, login, counts, job, loaded, screenVars, fresh, ops>>

RestoreUser(a) ==
    /\ pc[a] = "restoreUser"
    /\ mem' = [mem EXCEPT ![a] = @ \cup Restored(job[a].owner)]
    /\ Goto(a, "change")
    /\ UNCHANGED <<store, auth, login, counts, job, loaded, screenVars, fresh, ops>>

\* addMessage, deleteMessage and setMessageRead of MessagesProfile.
Changed(a) ==
    LET private == job[a].owner # NoUser
        Is(p) == \E l \in job[a].letters : p[1].id = l.id
    IN CASE job[a].op \in {"add", "restore"} ->
                mem[a] \cup ({l \in job[a].letters : ~HasId(mem[a], l.id)} \X {private})
         [] job[a].op = "delete" -> {p \in mem[a] : ~Is(p)}
         [] job[a].op = "read" ->
                {IF Is(p) THEN <<[p[1] EXCEPT !.unread = FALSE], p[2]>> ELSE p :
                    p \in mem[a]}

\* persist stops here when addMessage finds the id.
Change(a) ==
    /\ pc[a] = "change"
    /\ mem' = [mem EXCEPT ![a] = Changed(a)]
    /\ Goto(a, IF job[a].op = "add" /\ \E l \in job[a].letters : HasId(mem[a], l.id)
               THEN "idle"
               ELSE IF job[a].owner = NoUser THEN "storePublic" ELSE "storePrivate")
    /\ UNCHANGED <<store, auth, login, counts, job, loaded, screenVars, fresh, ops>>

StorePrivate(a) ==
    /\ pc[a] = "storePrivate"
    /\ store' = [store EXCEPT ![job[a].owner] = InBox(mem[a], TRUE)]
    /\ Goto(a, "storePublic")
    /\ UNCHANGED <<auth, login, counts, job, mem, loaded, screenVars, fresh, ops>>

\* Mutant: isPrivate is not looked at.
StorePublic_All(a) ==
    /\ pc[a] = "storePublic"
    /\ store' = [store EXCEPT ![NoUser] = InBox(mem[a], FALSE) \cup InBox(mem[a], TRUE)]
    /\ Goto(a, "loadAuth")
    /\ UNCHANGED <<auth, login, counts, job, mem, loaded, screenVars, fresh, ops>>

StorePublic(a) ==
    /\ pc[a] = "storePublic"
    /\ store' = [store EXCEPT ![NoUser] = InBox(mem[a], FALSE)]
    /\ Goto(a, "loadAuth")
    /\ UNCHANGED <<auth, login, counts, job, mem, loaded, screenVars, fresh, ops>>

-----------------------------------------------------------------------------
(* The steps of saveSession and clearSession.                                *)
SaveAuth(a) ==
    /\ pc[a] = "saveAuth"
    /\ auth' = job[a].owner
    /\ Goto(a, "setSession")
    /\ UNCHANGED <<store, login, counts, job, mem, loaded, screenVars, fresh, ops>>

SetSession(a) ==
    /\ pc[a] = "setSession"
    /\ login' = job[a].owner
    /\ Goto(a, "loadAuth")
    /\ UNCHANGED <<store, auth, counts, job, mem, loaded, screenVars, fresh, ops>>

-----------------------------------------------------------------------------
(* The steps of refreshCounts: restoreFromStorage, then listInboxEntries.    *)
LoadAuth(a) ==
    /\ pc[a] = "loadAuth"
    /\ loaded' = [loaded EXCEPT ![a] = auth]
    /\ Goto(a, "restoreSession")
    /\ UNCHANGED <<store, auth, login, counts, job, mem, screenVars, fresh, ops>>

RestoreSession(a) ==
    /\ pc[a] = "restoreSession"
    /\ login' = loaded[a]
    /\ Goto(a, "countPublic")
    /\ UNCHANGED <<store, auth, counts, job, mem, loaded, screenVars, fresh, ops>>

CountPublic(a) ==
    /\ pc[a] = "countPublic"
    /\ loaded' = [loaded EXCEPT ![a] = login]
    /\ mem' = [mem EXCEPT ![a] = Restored(NoUser)]
    /\ Goto(a, IF login = NoUser THEN "publish" ELSE "countPrivate")
    /\ UNCHANGED <<store, auth, login, counts, job, screenVars, fresh, ops>>

CountPrivate(a) ==
    /\ pc[a] = "countPrivate"
    /\ mem' = [mem EXCEPT ![a] = @ \cup Restored(loaded[a])]
    /\ Goto(a, "publish")
    /\ UNCHANGED <<store, auth, login, counts, job, loaded, screenVars, fresh, ops>>

\* Mutant: only the total is refreshed.
Publish_Total(a) ==
    /\ pc[a] = "publish"
    /\ counts' = [counts EXCEPT !.total = Cardinality(mem[a])]
    /\ fresh' = TRUE
    /\ Goto(a, "idle")
    /\ UNCHANGED <<store, auth, login, job, mem, loaded, screenVars, ops>>

\* Mutant: the counts are adjusted by the operation instead of recounted.
Publish_Delta(a) ==
    /\ pc[a] = "publish"
    /\ counts' = CASE job[a].op \in {"add", "restore"} ->
                          [total |-> counts.total + 1, unread |-> counts.unread + 1]
                   [] job[a].op = "delete" ->
                          [total |-> counts.total - 1, unread |-> counts.unread - 1]
                   [] OTHER -> CountOf(mem[a])
    /\ fresh' = TRUE
    /\ Goto(a, "idle")
    /\ UNCHANGED <<store, auth, login, job, mem, loaded, screenVars, ops>>

Publish(a) ==
    /\ pc[a] = "publish"
    /\ counts' = CountOf(mem[a])
    /\ fresh' = TRUE
    /\ Goto(a, "idle")
    /\ UNCHANGED <<store, auth, login, job, mem, loaded, screenVars, ops>>

(* The process is killed; the settings remain.                               *)
Kill ==
    /\ login' = NoUser /\ counts' = Zero
    /\ pc' = [a \in Actor |-> "idle"]
    /\ job' = [a \in Actor |-> Idle]
    /\ mem' = [a \in Actor |-> {}]
    /\ loaded' = [a \in Actor |-> NoUser]
    /\ shown' = {} /\ shownFor' = Zero /\ detail' = {} /\ undo' = {}
    /\ fresh' = FALSE
    /\ UNCHANGED <<store, auth, ops>>

-----------------------------------------------------------------------------
Step(a) == \/ RestorePublic(a) \/ RestoreUser(a) \/ Change(a)
           \/ StorePrivate(a) \/ StorePublic(a)
           \/ SaveAuth(a) \/ SetSession(a)
           \/ LoadAuth(a) \/ RestoreSession(a)
           \/ CountPublic(a) \/ CountPrivate(a) \/ Publish(a)

Screen == \/ \E e \in InFront : Screen_Delete(e)
          \/ \E e \in shown : Screen_Tap(e) \/ Screen_Detail(e)
          \/ \E e \in undo : Screen_Undo(e)
          \/ Screen_CloseDetail \/ Screen_Forget
          \/ Screen_Recompose \/ Screen_Reopen
          \/ Launch
          \/ \E n \in Drawn : Test(n)

Call == \/ \E a \in Actor, i \in Id : Receive(a, i)
        \/ \E a \in Actor \ {Ui}, u \in Box : Authorize(a, u)

Next == Screen \/ Call \/ (\E a \in Actor : Step(a)) \/ Kill

Spec == Init /\ [][Next]_vars

-----------------------------------------------------------------------------
Label == {"idle", "restorePublic", "restoreUser", "change", "storePrivate",
          "storePublic", "saveAuth", "setSession", "loadAuth",
          "restoreSession", "countPublic", "countPrivate", "publish"}

\* Inside a profile operation, before refreshCounts.
Profiling == {"restorePublic", "restoreUser", "change", "storePrivate",
              "storePublic"}

TypeOK ==
    /\ store \in [Box -> SUBSET Letter]
    /\ auth \in Box /\ login \in Box
    /\ counts \in Count
    /\ pc \in [Actor -> Label]
    /\ job \in [Actor -> Job]
    /\ mem \in [Actor -> SUBSET (Letter \X BOOLEAN)]
    /\ loaded \in [Actor -> Box]
    /\ shown \subseteq Entry /\ shownFor \in Count
    /\ detail \subseteq Entry /\ undo \subseteq Entry
    /\ fresh \in BOOLEAN /\ ops \in 0..MaxOps

(* A private letter never leaves its user's mailbox, and no mailbox takes a  *)
(* letter addressed to another, whatever the threads do to each other, who   *)
(* logs in meanwhile, which texts break the JSON and when the process dies.  *)
MailboxesSeparate == \A b \in Box : \A l \in store[b] : To[l.id] = b

(* A mailbox never holds two letters of one id: a push that is delivered     *)
(* twice, or restored after it came back, is there once.                     *)
OneOfEach == \A b \in Box : \A l, m \in store[b] : l.id = m.id => l = m

(* Between operations the counts are those of the letters the user may see,  *)
(* and the session is the stored one, from the first refreshCounts of a      *)
(* process on and again from the first one after each press of "test msg":   *)
(* until then they are 0, or random numbers.                                 *)
Quiet == \A a \in Actor : pc[a] = "idle"
Visible(u) == Restored(NoUser) \cup (IF u = NoUser THEN {} ELSE Restored(u))

CountsAgree == Quiet /\ fresh => login = auth /\ counts = CountOf(Visible(auth))

(* The inbox implements Mailbox: nothing changes in a mailbox but the letter *)
(* an operation under way was asked to change, even if the process is killed *)
(* in the middle of it and whatever else that operation rewrites.            *)
Mail == [b \in Box |-> {[id |-> l.id, unread |-> l.unread] : l \in store[b]}]

Asked == UNION {[op : {job[a].op}, box : {job[a].owner}, id : {l.id : l \in job[a].letters},
                 unread : {l.unread : l \in job[a].letters}] :
                   a \in {x \in Actor : pc[x] \in Profiling}}

Promise == INSTANCE Mailbox WITH mail <- Mail, asked <- Asked
ImplementsMailbox == Promise!Spec

(* PushInbox: private letters are listed for the current login only.         *)
ShownToOwner ==
    Quiet /\ shownFor = counts => \A e \in shown : e.owner \in {NoUser, login}

(* LetterJson: what is stored as the description is the text of the letter.  *)
DescriptionIsText == \A b \in Box : \A l \in store[b] : l.whole

================================================================================
