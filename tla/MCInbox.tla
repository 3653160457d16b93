-------------------------------- MODULE MCInbox --------------------------------
(* Model checking of Inbox on a few letters, two users and three threads.    *)
EXTENDS Inbox, TLC

CONSTANTS alice, bob, ui, fcm, js

MCUser == {alice, bob}
MCTo == 1 :> NoUser @@ 2 :> alice @@ 3 :> bob
MCToAlice == 1 :> NoUser @@ 2 :> alice @@ 3 :> alice
MCPlain == [i \in Id |-> "plain"]
MCBroken == 1 :> "plain" @@ 2 :> "bracket" @@ 3 :> "closing"
================================================================================
