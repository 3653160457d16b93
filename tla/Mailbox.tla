-------------------------------- MODULE Mailbox --------------------------------
(***************************************************************************)
(* What the push inbox promises: a mailbox for everybody and one for each   *)
(* user, in which a letter is put once and stays, read or unread, until it  *)
(* is removed.  Whatever changes was asked for: while a request is under    *)
(* way it may touch its own letter in its own mailbox, in one step, and     *)
(* nothing else; it may also be given up, with the process.                 *)
(***************************************************************************)
EXTENDS Integers

CONSTANTS
    Id,     \* the letters
    Box,    \* the mailboxes
    To      \* the mailbox a letter is addressed to

VARIABLES
    mail,   \* the letters in each mailbox, with their unread flag
    asked   \* the requests under way

Request == {r \in [op : {"add", "restore", "delete", "read"}, box : Box,
                   id : Id, unread : BOOLEAN] : To[r.id] = r.box}

Entries(r) == {e \in mail[r.box] : e.id = r.id}

Init == mail = [b \in Box |-> {}] /\ asked = {}

Ask(r) == asked' = asked \cup {r} /\ UNCHANGED mail

\* The mailbox of r becomes S; r may be over with that.
Replace(r, S) ==
    /\ r \in asked
    /\ mail' = [mail EXCEPT ![r.box] = S]
    /\ asked' \in {asked, asked \ {r}}

Put(r) ==
    /\ r.op \in {"add", "restore"}
    /\ Entries(r) = {}
    /\ Replace(r, mail[r.box] \cup {[id |-> r.id, unread |-> r.unread]})

Remove(r) ==
    /\ r.op = "delete"
    /\ Replace(r, mail[r.box] \ Entries(r))

MarkRead(r) ==
    /\ r.op = "read"
    /\ Replace(r, (mail[r.box] \ Entries(r))
                  \cup {[e EXCEPT !.unread = FALSE] : e \in Entries(r)})

Drop == asked' \in SUBSET asked /\ UNCHANGED mail

Next == \/ \E r \in Request : Ask(r) \/ Put(r) \/ Remove(r) \/ MarkRead(r)
        \/ Drop

Spec == Init /\ [][Next]_<<mail, asked>>
================================================================================
