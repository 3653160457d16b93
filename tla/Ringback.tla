------------------------------- MODULE Ringback -------------------------------
(***************************************************************************)
(* The ringback tone of SipService: startRingbackPlayer and                  *)
(* stopRingbackPlayer on the main thread, and the thread of every TonePlayer. *)
(* AndroidSip has one flag for all of it.                                    *)
(*                                                                          *)
(* A player sounds one second of tone, waits five, and starts again until    *)
(* mPlaying is false.  stopTone notifies it; a player that has tested        *)
(* mPlaying and does not wait yet misses that.                               *)
(***************************************************************************)
EXTENDS Naturals

CONSTANTS
    MaxPlayer,    \* bound: players created
    NoPlayer      \* null

ASSUME RingbackAssumption == MaxPlayer \in Nat \ {0} /\ NoPlayer \notin 1..MaxPlayer

VARIABLES
    players,      \* players created so far: numbers 1..players
    tonePlayer,   \* field mTonePlayer
    playing,      \* mPlaying of each
    where         \* where the thread of each is

ringVars == <<players, tonePlayer, playing, where>>

Player == 1..MaxPlayer
PlayerState == {"none", "test", "sound", "pause", "wait", "ended"}

RingInit ==
    /\ players = 0 /\ tonePlayer = NoPlayer
    /\ playing = [p \in Player |-> FALSE]
    /\ where = [p \in Player |-> "none"]

-----------------------------------------------------------------------------
StartRingback ==
    /\ tonePlayer = NoPlayer /\ players < MaxPlayer
    /\ players' = players + 1 /\ tonePlayer' = players'
    /\ playing' = [playing EXCEPT ![players'] = TRUE]
    /\ where' = [where EXCEPT ![players'] = "test"]

\* The notification reaches a player that waits, and is lost otherwise.
StopRingback ==
    /\ tonePlayer # NoPlayer
    /\ playing' = [playing EXCEPT ![tonePlayer] = FALSE]
    /\ where' = [where EXCEPT ![tonePlayer] = IF @ = "wait" THEN "test" ELSE @]
    /\ tonePlayer' = NoPlayer
    /\ UNCHANGED players

-----------------------------------------------------------------------------
(* TonePlayer.run                                                            *)
PlayerGoes(p, from, to) == where[p] = from /\ where' = [where EXCEPT ![p] = to]

Player_Test(p) ==
    /\ PlayerGoes(p, "test", IF playing[p] THEN "sound" ELSE "ended")
    /\ UNCHANGED <<players, tonePlayer, playing>>

Player_StartTone(p) ==
    /\ PlayerGoes(p, "sound", "pause")
    /\ UNCHANGED <<players, tonePlayer, playing>>

Player_Wait(p) ==
    /\ PlayerGoes(p, "pause", "wait")
    /\ UNCHANGED <<players, tonePlayer, playing>>

\* Mutant: wait() without a limit, which only the notification ends.
Player_WaitsOn(p) == where[p] = "wait" /\ UNCHANGED ringVars

Player_WaitEnds(p) ==
    /\ PlayerGoes(p, "wait", "test")
    /\ UNCHANGED <<players, tonePlayer, playing>>

PlayerRuns(p) == \/ Player_Test(p) \/ Player_StartTone(p) \/ Player_Wait(p)
                 \/ Player_WaitEnds(p)

RingNext == StartRingback \/ StopRingback \/ \E p \in Player : PlayerRuns(p)

\* Every thread is scheduled, and a wait of five seconds ends.
RingFairness == \A p \in Player : WF_ringVars(PlayerRuns(p))

RingSpec == RingInit /\ [][RingNext]_ringVars /\ RingFairness

-----------------------------------------------------------------------------
RingTypeOK ==
    /\ players \in 0..MaxPlayer /\ tonePlayer \in 1..players \cup {NoPlayer}
    /\ playing \in [Player -> BOOLEAN] /\ where \in [Player -> PlayerState]

(* A player that is not the one in the field ends and releases its tone      *)
(* generator: no tone goes on for ever out of stopRingbackPlayer's reach, and *)
(* a notification that came too early is not missed for good.                *)
ForgottenPlayerEnds ==
    \A p \in Player :
        (where[p] # "none" /\ tonePlayer # p) ~> (where[p] = "ended")

=============================================================================
