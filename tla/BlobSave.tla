------------------------------- MODULE BlobSave -------------------------------
(***************************************************************************)
(* saveBlob: the page hands a file to SaveBlobJsHandler and is called back   *)
(* with the outcome.                                                         *)
(*                                                                          *)
(* Before Android 10 the file needs a permission: the first attempt asks for *)
(* it through the handler the screen has bound, the second follows when it   *)
(* is granted.  The file is written on a thread of its own, except on iOS,   *)
(* and the outcome comes back on the main thread, except on desktop.  Two    *)
(* files get the same name when they are saved in the same millisecond.      *)
(***************************************************************************)
EXTENDS Naturals, Sequences, FiniteSets

CONSTANTS
    Save,         \* bound: the calls of saveBlob
    MaxClock,     \* bound: milliseconds that pass
    NoSave,       \* no call
    Torn          \* what a write that failed leaves behind

ASSUME SaveAssumption ==
    /\ IsFiniteSet(Save) /\ MaxClock \in Nat
    /\ NoSave # Torn /\ {NoSave, Torn} \cap Save = {}

VARIABLES
    os,           \* "android9", "android10", "desktop" or "ios"
    obliging,     \* MediaStore gives a uri and a stream, and no callback throws:
                  \* fixed at the start
    isBound,      \* requestAccess # null: the screen is shown
    granted,      \* the storage permission
    clock,        \* the time in milliseconds, which names the files
    work,         \* where each call is
    name,         \* the name it saves under: the time of its last attempt
    disc,         \* whose content is stored under a name and a number
    into,         \* the number it chose to make the name unique
    outcome,      \* what is on its way back to the page
    answer        \* the answers the page has got

saveVars == <<os, obliging, isBound, granted, clock, work, name, disc, into, outcome, answer>>

saveChoice == <<os, obliging>>

Name == 0..MaxClock
Nr == 0..Cardinality(Save)
Work == {"none", "prompt", "thread", "write", "post", "answered", "denied", "disposed"}
Outcome == {"none", "ok", "error", "invalid", "permission required"}

SaveInit ==
    /\ os \in {"android9", "android10", "desktop", "ios"}
    /\ obliging \in BOOLEAN
    /\ isBound = FALSE /\ granted = FALSE /\ clock = 0
    /\ work = [c \in Save |-> "none"] /\ name = [c \in Save |-> 0]
    /\ disc = [p \in Name \X Nr |-> NoSave] /\ into = [c \in Save |-> 0]
    /\ outcome = [c \in Save |-> "none"] /\ answer = [c \in Save |-> <<>>]

-----------------------------------------------------------------------------
At(c, from, to) == work[c] = from /\ work' = [work EXCEPT ![c] = to]
Tell(c, o) == answer' = [answer EXCEPT ![c] = Append(@, o)]

NewName(c) == name' = [name EXCEPT ![c] = clock]

\* resolveUniquePath of the desktop: the first number nobody has used.
FreeNr(n) == CHOOSE k \in Nr : /\ disc[<<n, k>>] = NoSave
                               /\ \A j \in 0..(k - 1) : disc[<<n, j>>] # NoSave

\* saveBase64File, once nothing is in the way of writing: the thread starts.
StartThread(c, from) ==
    /\ At(c, from, IF os = "desktop" THEN "thread" ELSE "write")
    /\ IF os = "desktop" THEN UNCHANGED name ELSE NewName(c)

Js_Invalid(c) ==
    /\ At(c, "none", "answered") /\ Tell(c, "invalid")
    /\ UNCHANGED <<saveChoice, isBound, granted, clock, name, disc, into, outcome>>

Js_Save(c) ==
    /\ os = "android9" => granted
    /\ StartThread(c, "none")
    /\ UNCHANGED <<saveChoice, isBound, granted, clock, disc, into, outcome, answer>>

Js_SaveNeedsPermission(c) ==
    /\ os = "android9" /\ ~granted
    /\ isBound
    /\ At(c, "none", "prompt")
    /\ UNCHANGED <<saveChoice, isBound, granted, clock, name, disc, into, outcome, answer>>

\* With no handler bound the second attempt follows at once, and fails too.
Js_SaveUnbound(c) ==
    /\ os = "android9" /\ ~granted
    /\ ~isBound
    /\ At(c, "none", "answered") /\ Tell(c, "permission required")
    /\ UNCHANGED <<saveChoice, isBound, granted, clock, name, disc, into, outcome>>

-----------------------------------------------------------------------------
(* The permission dialog, and the screen that shows it.                      *)
Prompt_Granted(c) ==
    /\ granted' = TRUE
    /\ StartThread(c, "prompt")
    /\ UNCHANGED <<saveChoice, isBound, clock, disc, into, outcome, answer>>

Prompt_Denied(c) ==
    /\ ~granted
    /\ At(c, "prompt", "denied")
    /\ UNCHANGED <<saveChoice, isBound, granted, clock, name, disc, into, outcome, answer>>

Screen_Bind ==
    /\ ~isBound /\ isBound' = TRUE
    /\ UNCHANGED <<saveChoice, granted, clock, work, name, disc, into, outcome, answer>>

\* Leaving the screen cancels the coroutines that wait for the dialog.
Screen_Dispose ==
    /\ isBound /\ isBound' = FALSE
    /\ work' = [c \in Save |-> IF work[c] = "prompt" THEN "disposed" ELSE work[c]]
    /\ UNCHANGED <<saveChoice, granted, clock, name, disc, into, outcome, answer>>

-----------------------------------------------------------------------------
(* The thread that writes, and the outcome.                                  *)
\* Only the desktop chooses the name here, and then looks whether it is taken.
Thread_Name(c) ==
    /\ At(c, "thread", "write")
    /\ NewName(c)
    /\ into' = [into EXCEPT ![c] = FreeNr(clock)]
    /\ UNCHANGED <<saveChoice, isBound, granted, clock, disc, outcome, answer>>

\* MediaStore makes the name unique itself; elsewhere an older file is lost.
Where(c) == IF os = "android10" THEN FreeNr(name[c]) ELSE into[c]

Put(c, content) == /\ disc' = [disc EXCEPT ![<<name[c], Where(c)>>] = content]
                   /\ into' = [into EXCEPT ![c] = Where(c)]

Finishes(c, o) == At(c, "write", "post") /\ outcome' = [outcome EXCEPT ![c] = o]

\* It fails before it has opened the file, or while it writes; the write of iOS
\* is atomic.
WriteFails(c) == \/ UNCHANGED <<disc, into>>
                 \/ os # "ios" /\ Put(c, Torn)

\* Mutant: the exception is caught and forgotten.
Thread_WriteBlindly(c) ==
    /\ \/ Finishes(c, "ok") /\ Put(c, c)
       \/ Finishes(c, "ok") /\ WriteFails(c)
    /\ UNCHANGED <<saveChoice, isBound, granted, clock, name, answer>>

Thread_Write(c) ==
    /\ \/ Finishes(c, "ok") /\ Put(c, c)
       \/ Finishes(c, "error") /\ WriteFails(c)
    /\ UNCHANGED <<saveChoice, isBound, granted, clock, name, answer>>

\* insert returns a null uri, or openOutputStream a null stream for the entry it
\* made: nothing is written, no exception is thrown, and Success is reported.
Thread_Refused(c) ==
    /\ os = "android10" /\ ~obliging
    /\ Finishes(c, "ok")
    /\ UNCHANGED <<disc, into>> \/ Put(c, Torn)
    /\ UNCHANGED <<saveChoice, isBound, granted, clock, name, answer>>

Dispatch(c) ==
    /\ outcome[c] # "none"
    /\ At(c, "post", "answered") /\ Tell(c, outcome[c])
    /\ UNCHANGED <<saveChoice, isBound, granted, clock, name, disc, into, outcome>>

\* On desktop Success is reported inside runCatching: when the callback throws,
\* before or after it has told the page, Error is reported too.
Dispatch_Throws(c) ==
    /\ os = "desktop" /\ ~obliging
    /\ outcome[c] # "none" /\ work[c] = "post"
    /\ IF outcome[c] = "ok"
       THEN outcome' = [outcome EXCEPT ![c] = "error"] /\ UNCHANGED work
       ELSE At(c, "post", "answered") /\ UNCHANGED outcome
    /\ Tell(c, outcome[c]) \/ UNCHANGED answer
    /\ UNCHANGED <<saveChoice, isBound, granted, clock, name, disc, into>>

Tick ==
    /\ clock < MaxClock /\ clock' = clock + 1
    /\ UNCHANGED <<saveChoice, isBound, granted, work, name, disc, into, outcome, answer>>

-----------------------------------------------------------------------------
SaveRuns(c) == Thread_Name(c) \/ Thread_Write(c) \/ Thread_Refused(c)
               \/ Dispatch(c) \/ Dispatch_Throws(c)

SaveNext ==
    \/ Tick \/ Screen_Bind \/ Screen_Dispose
    \/ \E c \in Save :
         \/ Js_Invalid(c) \/ Js_Save(c) \/ Js_SaveNeedsPermission(c)
         \/ Js_SaveUnbound(c)
         \/ Prompt_Granted(c) \/ Prompt_Denied(c)
         \/ SaveRuns(c)

SaveSpec == SaveInit /\ [][SaveNext]_saveVars

-----------------------------------------------------------------------------
SaveTypeOK ==
    /\ os \in {"android9", "android10", "desktop", "ios"} /\ obliging \in BOOLEAN
    /\ isBound \in BOOLEAN /\ granted \in BOOLEAN /\ clock \in Name
    /\ work \in [Save -> Work] /\ name \in [Save -> Name] /\ into \in [Save -> Nr]
    /\ disc \in [Name \X Nr -> Save \cup {NoSave, Torn}]
    /\ outcome \in [Save -> {"none", "ok", "error"}]
    /\ answer \in [Save -> Seq(Outcome)]

SameFile(c, d) == name[c] = name[d] /\ into[c] = into[d] /\ outcome[d] # "none"

(* The page is called back at most once, through the retry and whatever      *)
(* screens come and go, and if it is told "ok" its file is stored, unless    *)
(* another file was saved in the same millisecond: before Android 10 and on  *)
(* iOS that one then takes its place, on desktop only if the two threads     *)
(* overlap.                                                                  *)
(* It does not hold, and is not claimed, where the code reports what did not *)
(* happen: Android 10 says "ok" to nothing when MediaStore gives no uri or   *)
(* no stream, and the desktop answers twice when the callback throws.        *)
AnsweredOnce(c) == Len(answer[c]) <= 1
ToldOk(c) == \E i \in DOMAIN answer[c] : answer[c][i] = "ok"

AnswerIsTrue ==
    \A c \in Save :
        /\ (os = "desktop" => obliging) => AnsweredOnce(c)
        /\ ToldOk(c) /\ (os = "android10" => obliging) =>
               \/ disc[<<name[c], into[c]>>] = c
               \/ \E d \in Save \ {c} : SameFile(c, d)

=============================================================================
