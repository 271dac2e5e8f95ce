--------------------------- MODULE Shaping_proofs ---------------------------
(***************************************************************************)
(* Proofs about Shaping for every set of loads: whatever is flushed and    *)
(* however long the writes take, a frame stays within the size model of    *)
(* its personality and the pacer's delays stay bounded.                    *)
(*                                                                         *)
(* What the bisection of Sample computes is not proved by induction: it is *)
(* SampleInverts, which Shaping assumes and TLC evaluates for all five     *)
(* personalities and all random numbers.                                   *)
(***************************************************************************)
EXTENDS Shaping, TLAPS

-----------------------------------------------------------------------------
(* The sizes of the personalities.                                         *)

\* The largest record of a personality.
Top(n) == ParsePersonality(n).size[Len(ParsePersonality(n).size)]

\* The sizes of each personality are between 64 and its largest one, and its
\* congestion threshold is a number.
LEMMA Sizes ==
    ASSUME NEW n \in Names
    PROVE  /\ \A i \in DOMAIN ParsePersonality(n).size :
                  ParsePersonality(n).size[i] \in 64..Top(n)
           /\ Top(n) \in Nat
           /\ ParsePersonality(n).threshold \in Nat
<1>1. CASE n = "browser"
    <2>1. ParsePersonality(n) = Browser
        BY <1>1 DEF ParsePersonality
    <2>2. QED BY <2>1 DEF Top, Browser
<1>2. CASE n = "grpc"
    <2>1. ParsePersonality(n) = GRPC
        BY <1>2 DEF ParsePersonality
    <2>2. QED BY <2>1 DEF Top, GRPC
<1>3. CASE n = "video"
    <2>1. ParsePersonality(n) = VideoStream
        BY <1>3 DEF ParsePersonality
    <2>2. QED BY <2>1 DEF Top, VideoStream
<1>4. CASE n = "mobile"
    <2>1. ParsePersonality(n) = Mobile
        BY <1>4 DEF ParsePersonality
    <2>2. QED BY <2>1 DEF Top, Mobile
<1>5. CASE n = "relay"
    <2>1. ParsePersonality(n) = Relay
        BY <1>5 DEF ParsePersonality
    <2>2. QED BY <2>1 DEF Top, Relay
<1>6. QED BY <1>1, <1>2, <1>3, <1>4, <1>5 DEF Names

\* Whatever the sampler returns, in either mode, is a size of the personality.
LEMMA DrawnSizes ==
    ASSUME NEW n \in Names, NEW m \in BOOLEAN, NEW t \in Drawn[n][m]
    PROVE  t \in 64..Top(n)
<1>1. t \in Draws(ParsePersonality(n), m)
    BY Zenon DEF Drawn
<1>2. PICK u \in 0..99 : t = Sample(ParsePersonality(n), u)
    BY <1>1, Zenon DEF Draws
<1>3. \E i \in DOMAIN ParsePersonality(n).size :
          Sample(ParsePersonality(n), u) = ParsePersonality(n).size[i]
    BY SampleInverts, Zenon
<1>4. QED BY <1>2, <1>3, Sizes, Zenon

-----------------------------------------------------------------------------
(* The frames.                                                             *)

\* Where fragmentAndSend is decides what is known of the frame in the making.
FrameInv ==
    /\ load \in Loads /\ large \in BOOLEAN /\ left \in Nat
    /\ pc \in {"idle", "size", "draw", "frame", "pad", "drawPad", "write"}
    /\ pc \in {"size", "draw", "frame"} => left > 0
    /\ pc = "frame" => target \in 64..Top(load.name)
    /\ pc \in {"pad", "drawPad", "write"} =>
           payload \in Nat \ {0} /\ Header + payload <= Top(load.name)
    /\ pc = "write" => pad \in Nat /\ Header + payload + pad <= Top(load.name)

LEMMA FrameInit ==
    ASSUME Init
    PROVE  FrameInv
BY Zenon DEF Init, FrameInv

LEMMA FrameStep ==
    ASSUME FrameInv, [Next]_vars
    PROVE  FrameInv'
<1> DEFINE name == load.name
<1>1. /\ name \in Names /\ load.sizes \subseteq Nat \ {0}
    BY ShapingAssumption, Zenon DEF FrameInv
<1>2. Top(name) \in Nat
    BY <1>1, Sizes, Zenon
<1>3. \A m \in BOOLEAN : \A t \in Drawn[name][m] : t \in 64..Top(name)
    BY <1>1, DrawnSizes, Zenon
<1>4. CASE Flush
    BY <1>1, <1>4 DEF FrameInv, Flush
<1>5. CASE SampleApparentSize
    BY <1>5 DEF FrameInv, SampleApparentSize
<1>6. CASE DrawSize
    BY <1>3, <1>6 DEF FrameInv, DrawSize
<1>7. CASE FillFrame
    BY <1>2, <1>7 DEF FrameInv, FillFrame, AtMost, Header, MaxPayload
<1>8. CASE SelectPadding
    BY <1>2, <1>8 DEF FrameInv, SelectPadding, Header
<1>9. CASE DrawPadding
    <2>1. PICK t \in Drawn[name][large] :
              pad' = IF t - Header - payload <= 0 THEN 0
                     ELSE AtMost(t - Header - payload, MaxPadding)
        BY <1>9, Zenon DEF DrawPadding
    <2>2. t \in 64..Top(name)
        BY <1>3, <2>1, Zenon DEF FrameInv
    <2>3. QED BY <1>2, <1>9, <2>1, <2>2
              DEF FrameInv, DrawPadding, AtMost, Header, MaxPadding
<1>10. CASE WriteFrame
    BY <1>10 DEF FrameInv, WriteFrame
<1>11. CASE ProcessPong
    BY <1>11 DEF FrameInv, ProcessPong, frame
<1>12. CASE UNCHANGED vars
    BY <1>12 DEF FrameInv, vars
<1>13. QED BY <1>4, <1>5, <1>6, <1>7, <1>8, <1>9, <1>10, <1>11, <1>12 DEF Next

\* A frame of any personality carries data, and with its header and its padding it
\* is never larger than the largest record of the model (fragmentAndSend and
\* SelectPadding take two independent samples), whatever is flushed.
THEOREM Frames == Spec => []FrameWithinModel
<1>1. FrameInv => FrameWithinModel
    BY DEF FrameInv, FrameWithinModel, Top, Largest, P
<1>2. QED BY <1>1, FrameInit, FrameStep, PTL DEF Spec

-----------------------------------------------------------------------------
(* The pacer.                                                              *)

\* The rate and the average stay numbers, the rate between its floor and full speed.
PacerInv ==
    /\ load \in Loads
    /\ ewma \in Nat /\ rate \in MinRate..MaxRate

LEMMA ObserveStep ==
    ASSUME PacerInv, NEW w \in load.waits, ObserveWrite(w)
    PROVE  ewma' \in Nat /\ rate' \in MinRate..MaxRate
<1>1. w \in Nat /\ MaxRate = 80
    BY ShapingAssumption, Zenon DEF PacerInv
<1>2. P.threshold \in Nat
    BY ShapingAssumption, Sizes, Zenon DEF PacerInv, P
<1>3. ewma' \in Nat
    BY <1>1 DEF PacerInv, ObserveWrite
<1>4. QED BY <1>1, <1>2, <1>3 DEF PacerInv, ObserveWrite, AtMost, MinRate

LEMMA PacerStep ==
    ASSUME PacerInv, [Next]_vars
    PROVE  PacerInv'
<1>1. CASE UNCHANGED <<load, pacer>>
    BY <1>1, Zenon DEF PacerInv, pacer
<1>2. CASE /\ UNCHANGED load
           /\ \E w \in load.waits : ObserveWrite(w)
    BY <1>2, ObserveStep, Zenon DEF PacerInv
<1>3. UNCHANGED <<load, pacer>>
      \/ (UNCHANGED load /\ \E w \in load.waits : ObserveWrite(w))
    BY Zenon DEF Next, vars, pacer, Flush, SampleApparentSize, DrawSize, FillFrame,
        SelectPadding, DrawPadding, WriteFrame, ProcessPong
<1>4. QED BY <1>1, <1>2, <1>3, Zenon

\* A division by a rate of at least MinRate.
LEMMA Scaled ==
    ASSUME NEW r \in MinRate..80
    PROVE  /\ (10000 * 80) \div r <= 100000
           /\ (2000 * 80) \div r <= 20000
BY DEF MinRate

\* However long the writes and the round trips take, the pacer's rate keeps its
\* limits, each call of BurstDelay gives 100 ms and each of InterFrameDelay 20 ms at
\* most, and without congestion BurstDelay gives none (pacing.go).
THEOREM Delays == Spec => []DelayBounded
<1>1. Init => PacerInv
    BY ShapingAssumption DEF Init, PacerInv, MinRate
<1>2. PacerInv => DelayBounded
    <2>1. SUFFICES ASSUME PacerInv PROVE DelayBounded
        OBVIOUS
    <2>2. MaxRate = 80 /\ rate \in MinRate..80
        BY <2>1, ShapingAssumption DEF PacerInv
    <2>3. BurstDelay <= 100000
        BY <2>2, Scaled DEF BurstDelay
    <2>4. InterFrameDelay(2000) <= 20000
        BY <2>2, Scaled DEF InterFrameDelay
    <2>5. ~Congested => BurstDelay = 0
        BY DEF BurstDelay
    <2>6. QED BY <2>1, <2>3, <2>4, <2>5 DEF DelayBounded, PacerInv
<1>3. QED BY <1>1, <1>2, PacerStep, PTL DEF Spec
=============================================================================
