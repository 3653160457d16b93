------------------------------ MODULE JitterBuf ------------------------------
(***************************************************************************)
(* The jitter buffer of an audio stream, of the fixed kind this application  *)
(* configures: rtp_handler puts every packet that arrives and takes one out, *)
(* all on the thread of the loop.                                            *)
(*                                                                          *)
(* A source numbers its packets with a few bits, from any number on; they    *)
(* are lost, repeated and overtaken on their way.  A packet here carries its *)
(* true position besides, which the code does not know.                      *)
(* Left out: the adaptive kind, statistics, and what becomes of a frame.     *)
(***************************************************************************)
EXTENDS Integers, Sequences, SequencesExt

CONSTANTS
    Ssrc,         \* the sources, one after another or both at a time
    NumberBits,   \* 16: the width of a sequence number
    MinFrames,    \* the two of jitter_buffer_delay
    MaxFrames,
    MaxPosition,  \* bound: packets a source sends, 1..MaxPosition
    Lag,          \* bound: how far a packet falls behind, and how many are lost
    Nothing       \* no source, no frame

ASSUME JbufAssumption ==
    /\ MinFrames \in Nat \ {0} /\ MaxFrames \in Nat /\ MinFrames < MaxFrames
    /\ NumberBits \in Nat \ {0} /\ MaxPosition \in Nat \ {0} /\ Lag \in Nat
    /\ Nothing \notin Ssrc \cup [src : Ssrc, pos : 1..MaxPosition]

VARIABLES
    first,        \* the number before a source's first: fixed at the start
    sent,         \* the latest position put of each source
    ssrcRx,       \* ssrc_rx of the stream
    jbufStarted,  \* jbuf_started of the stream
    ssrc,         \* ssrc of the buffer
    running,
    frames,       \* framel: the packets in the buffer
    played        \* the last frame taken out, of which seq_get is the number

bufVars == <<ssrc, running, frames, played>>
jbufVars == <<first, sent, ssrcRx, jbufStarted, bufVars>>

Circle == 2 ^ NumberBits
Packet == [src : Ssrc, pos : 1..MaxPosition]
Number(p) == (first[p.src] + p.pos) % Circle

JbufInit ==
    /\ first \in [Ssrc -> 0..(Circle - 1)]
    /\ sent = [s \in Ssrc |-> 0]
    /\ ssrcRx = Nothing /\ jbufStarted = FALSE
    /\ ssrc = Nothing /\ running = FALSE /\ frames = <<>> /\ played = Nothing

-----------------------------------------------------------------------------
(* jbuf                                                                      *)
\* seq_less: the difference, as a signed number of that width, is negative.
SeqLess(x, y) == (x - y) % Circle >= Circle \div 2

SeqGet(last) == IF last = Nothing THEN 0 ELSE Number(last)

\* Mutant: the comparison with the last number is left out.
TooLate_Never(p, run, last) == FALSE

\* jbuf_put: the last number played, or a later one, has gone by; a last
\* number of 0 counts as none.
TooLate(p, run, last) ==
    /\ run /\ SeqGet(last) # 0
    /\ SeqLess(Number(p), (SeqGet(last) + 1) % Circle)

\* frame_alloc: when the pool is empty the oldest frame is lost.
Alloc(fs) == IF Len(fs) = MaxFrames THEN Tail(fs) ELSE fs

\* Behind the last frame with a smaller number; a duplicate is dropped.
Insert(fs, p) ==
    LET smaller == {i \in DOMAIN fs : SeqLess(Number(fs[i]), Number(p))}
        place == CHOOSE i \in smaller \cup {0} : \A j \in smaller : j <= i
    IN  IF \E i \in DOMAIN fs : Number(fs[i]) = Number(p) THEN fs
        ELSE InsertAt(fs, place + 1, p)

-----------------------------------------------------------------------------
(* stream                                                                    *)
\* jbuf_put, and jbuf_get behind it, into a buffer that was flushed or not.
PutAndGet(p, run, fs, last, started) ==
    LET buffer == IF TooLate(p, run, last) THEN fs ELSE Insert(Alloc(fs), p)
        gets == Len(buffer) > MinFrames
    IN  /\ ssrc' = p.src /\ running' = TRUE
        /\ frames' = IF gets THEN Tail(buffer) ELSE buffer
        /\ played' = IF gets THEN Head(buffer) ELSE last
        /\ jbufStarted' = (started \/ gets)

\* rtp_handler; a change of the source flushes the buffer, in the stream and
\* again in jbuf_put.
Handle(p) ==
    LET streamFlush == ssrcRx \notin {Nothing, p.src}
        flush == streamFlush \/ ssrc \notin {Nothing, p.src}
    IN  /\ ssrcRx' = p.src
        /\ IF flush THEN PutAndGet(p, FALSE, <<>>, Nothing, jbufStarted /\ ~streamFlush)
           ELSE PutAndGet(p, running, frames, played, jbufStarted)

\* Packets come near the latest one, before it or behind it, and more than once.
Rtp_Arrives ==
    \E s \in Ssrc : \E n \in (sent[s] - Lag)..(sent[s] + 1 + Lag) :
        /\ n \in 1..MaxPosition
        /\ sent' = [sent EXCEPT ![s] = IF n > @ THEN n ELSE @]
        /\ Handle([src |-> s, pos |-> n])
        /\ UNCHANGED first

\* A packet of an unknown payload type gets no further than the source, and
\* counts as lost.
Rtp_Rejected ==
    /\ \E s \in Ssrc : ssrcRx' = s
    /\ UNCHANGED <<first, sent, jbufStarted, bufVars>>

Flush == running' = FALSE /\ frames' = <<>> /\ played' = Nothing /\ UNCHANGED ssrc

\* stream_reset: the decoder changes, or the call is resumed.
Stream_Reset ==
    /\ jbufStarted
    /\ Flush
    /\ UNCHANGED <<first, sent, ssrcRx, jbufStarted>>

Stream_Close ==
    /\ Flush /\ jbufStarted' = FALSE
    /\ UNCHANGED <<first, sent, ssrcRx>>

-----------------------------------------------------------------------------
JbufNext == Rtp_Arrives \/ Rtp_Rejected \/ Stream_Reset \/ Stream_Close

JbufSpec == JbufInit /\ [][JbufNext]_jbufVars

-----------------------------------------------------------------------------
JbufTypeOK ==
    /\ first \in [Ssrc -> 0..(Circle - 1)] /\ sent \in [Ssrc -> 0..MaxPosition]
    /\ {ssrc, ssrcRx} \subseteq Ssrc \cup {Nothing}
    /\ running \in BOOLEAN /\ jbufStarted \in BOOLEAN
    /\ frames \in Seq(Packet) /\ Len(frames) <= MaxFrames
    /\ played \in Packet \cup {Nothing}

Later(p, q) == p.src = q.src /\ p.pos > q.pos

\* seq_get takes number 0 for no packet at all.
Forgotten == played = Nothing \/ SeqGet(played) = 0

(* The packets of a source are played in the order they were sent, each at    *)
(* most once, wherever its numbers begin and wherever they start over, until  *)
(* the buffer is flushed; and those in the buffer are one source's, in order, *)
(* and still to be played.  The exception is what follows number 0: a packet  *)
(* that comes late then is played.                                           *)
PlayedInOrder ==
    /\ [](/\ \A i \in 1..(Len(frames) - 1) : Later(frames[i + 1], frames[i])
          /\ Forgotten \/ \A i \in DOMAIN frames : Later(frames[i], played))
    /\ [][Forgotten \/ played' \in {Nothing, played} \/ Later(played', played)]_jbufVars

=============================================================================
