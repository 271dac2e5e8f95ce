------------------------------ MODULE Shaping -------------------------------
(***************************************************************************)
(* What shapes the frames of a flush: fragmentAndSend of internal/bcl with *)
(* the size model and its sampler (math.go), the padding selector          *)
(* (padding.go), the pacer (pacing.go) and the five personalities.  BCLConn *)
(* leaves the sizes and the delays open; here they are what the module is  *)
(* about.                                                                  *)
(*                                                                         *)
(* Probabilities are in hundredths, rates in eightieths and latencies in   *)
(* units of 10 ms; the code has floats.  Random numbers are choices.       *)
(***************************************************************************)
EXTENDS Integers, Sequences

Browser == [size |-> <<128, 256, 512, 1024, 2048, 4096, 8192, 16384>>,
            weight |-> <<6, 8, 9, 12, 11, 15, 14, 25>>, threshold |-> 5]
GRPC == [size |-> <<64, 128, 256, 512, 1024, 2048, 4096>>,
         weight |-> <<10, 15, 18, 20, 17, 12, 8>>, threshold |-> 3]
VideoStream == [size |-> <<4096, 8192, 16384>>, weight |-> <<5, 10, 85>>, threshold |-> 10]
Mobile == [size |-> <<128, 256, 512, 1024, 2048, 4096>>,
           weight |-> <<15, 20, 25, 20, 12, 8>>, threshold |-> 8]
Relay == [size |-> <<512, 1024, 2048, 4096, 8192, 16384>>,
          weight |-> <<10, 10, 15, 20, 20, 25>>, threshold |-> 4]

Names == {"browser", "grpc", "video", "mobile", "relay"}
ParsePersonality(n) ==
    CASE n = "browser" -> Browser [] n = "grpc" -> GRPC [] n = "video" -> VideoStream
      [] n = "mobile" -> Mobile [] n = "relay" -> Relay

CONSTANTS
    Loads,     \* [name, sizes, waits]: a personality, what is flushed, how long writes take
    MaxRate    \* the full rate: 80

ASSUME ShapingAssumption ==
    /\ \A l \in Loads : l.name \in Names /\ l.sizes \subseteq Nat \ {0} /\ l.waits \subseteq Nat
    /\ MaxRate = 80

Header == 11
MaxPayload == 65535
MaxPadding == 1024
MinRate == 8    \* 0.10

VARIABLES
    load,     \* the load of this behaviour
    pc,       \* where fragmentAndSend is
    left,     \* bytes of the flush that are still to send
    large,    \* inLargeMode
    target,   \* the apparent size sampled last
    payload, pad,   \* of the frame in the making
    ewma, rate,     \* of the pacer
    wait      \* how long the last write took

vars == <<load, pc, left, large, target, payload, pad, ewma, rate, wait>>
frame == <<left, large, target, payload, pad>>
pacer == <<ewma, rate, wait>>

P == ParsePersonality(load.name)

Init ==
    /\ load \in Loads
    /\ pc = "idle" /\ left = 0 /\ large = FALSE
    /\ target = 0 /\ payload = 0 /\ pad = 0
    /\ ewma = 0 /\ rate = MaxRate /\ wait = 0

-----------------------------------------------------------------------------
(* The size model.                                                         *)

\* cumWeights of NewSizeModel; Cum(p)[0] is 0 for convenience.
Cum(p) ==
    LET c[i \in 0..Len(p.weight)] == IF i = 0 THEN 0 ELSE c[i - 1] + p.weight[i] IN c

\* The bisection of Sample.
Sample(p, u) ==
    LET n == Len(p.size)
        b[lo \in 1..n, hi \in 1..n] ==
            IF lo >= hi THEN lo
            ELSE LET mid == (lo + hi) \div 2
                 IN  IF Cum(p)[mid] < u THEN b[mid + 1, hi] ELSE b[lo, mid]
    IN  p.size[b[1, n]]

\* A sample is the bucket its random number falls into: the bisection and the linear
\* definition of the inverse distribution agree.
ASSUME SampleInverts ==
    \A n \in Names, u \in 0..99 :
        LET p == ParsePersonality(n)
        IN  \E i \in DOMAIN p.size :
                /\ Sample(p, u) = p.size[i]
                /\ u <= Cum(p)[i] /\ (i > 1 => Cum(p)[i - 1] < u)

\* quantile: the weight below the first bucket that is as large as the size.
Quantile(p, s) ==
    LET above == {i \in DOMAIN p.size : p.size[i] >= s}
        first == CHOOSE i \in above : \A j \in above : i <= j
    IN  IF above = {} THEN 100 ELSE Cum(p)[first - 1]

\* A mistake: large is the top fifth.
LargeFloorHigh == 80

LargeFloor == 60

\* What sampleBiased may return: its loop draws until the quantile reaches the floor.
Draws(p, inLarge) ==
    {s \in {Sample(p, u) : u \in 0..99} : inLarge => Quantile(p, s) >= LargeFloor}

\* The same, computed once.
Drawn == [n \in Names |-> [m \in BOOLEAN |-> Draws(ParsePersonality(n), m)]]

-----------------------------------------------------------------------------
(* fragmentAndSend.                                                        *)

Flush ==
    /\ pc = "idle"
    /\ \E n \in load.sizes : left' = n
    /\ pc' = "size"
    /\ UNCHANGED <<load, large, target, payload, pad, pacer>>

\* SampleApparentSize: perhaps the mode changes, then the loop of sampleBiased.
SampleApparentSize ==
    /\ pc = "size" /\ pc' = "draw"
    /\ large' \in BOOLEAN
    /\ UNCHANGED <<load, left, target, payload, pad, pacer>>

\* The draw with which the loop ends.
DrawSize ==
    /\ pc = "draw" /\ pc' = "frame"
    /\ target' \in Drawn[load.name][large]
    /\ UNCHANGED <<load, left, large, payload, pad, pacer>>

AtMost(a, b) == IF a > b THEN b ELSE a

FillFrame ==
    /\ pc = "frame" /\ pc' = "pad"
    /\ LET room == IF target - Header <= 0 THEN 1 ELSE AtMost(target - Header, MaxPayload)
       IN  payload' = AtMost(left, room) /\ left' = left - payload'
    /\ target' = 0
    /\ UNCHANGED <<load, large, pad, pacer>>

\* SelectPadding: no padding, or a second sample that the frame is filled up to.
SelectPadding ==
    /\ pc = "pad"
    /\ \/ pad' = 0 /\ pc' = "write" /\ UNCHANGED large
       \/ pc' = "drawPad" /\ large' \in BOOLEAN /\ UNCHANGED pad
    /\ UNCHANGED <<load, left, target, payload, pacer>>

\* A mistake: the padding is the whole sample.
DrawPaddingWhole ==
    /\ pc = "drawPad" /\ pc' = "write"
    /\ \E t \in Drawn[load.name][large] : pad' = AtMost(t, MaxPadding)
    /\ UNCHANGED <<load, left, large, target, payload, pacer>>

DrawPadding ==
    /\ pc = "drawPad" /\ pc' = "write"
    /\ \E t \in Drawn[load.name][large] :
           LET gap == t - Header - payload
           IN  pad' = IF gap <= 0 THEN 0 ELSE AtMost(gap, MaxPadding)
    /\ UNCHANGED <<load, left, large, target, payload, pacer>>

Congested == ewma > P.threshold

\* A mistake: the rate has no floor.
ObserveWriteNoFloor(w) ==
    /\ wait' = w
    /\ ewma' = (w + 3 * ewma) \div 4
    /\ rate' = IF ewma' > P.threshold THEN rate \div 2 ELSE AtMost(rate + 4, MaxRate)

\* A mistake: the rate never recovers.
ObserveWriteOnlyDown(w) ==
    /\ wait' = w
    /\ ewma' = (w + 3 * ewma) \div 4
    /\ rate' = IF ewma' > P.threshold /\ rate \div 2 >= MinRate THEN rate \div 2 ELSE rate

\* ObserveWrite: a moving average; halve the rate, or add 0.05.
ObserveWrite(w) ==
    /\ wait' = w
    /\ ewma' = (w + 3 * ewma) \div 4
    /\ rate' = IF ewma' > P.threshold
               THEN IF rate \div 2 < MinRate THEN MinRate ELSE rate \div 2
               ELSE AtMost(rate + 4, MaxRate)

\* The frame is written and observed; the pause before the next one is InterFrameDelay.
WriteFrame ==
    /\ pc = "write"
    /\ \E w \in load.waits : ObserveWrite(w)
    /\ pc' = IF left > 0 THEN "size" ELSE "idle"
    /\ payload' = 0 /\ pad' = 0
    /\ UNCHANGED <<load, left, large, target>>

\* A PONG counts as a write that took the round trip.
ProcessPong ==
    /\ \E w \in load.waits : ObserveWrite(w)
    /\ UNCHANGED <<load, pc, frame>>

\* In microseconds: the base is between 300 and 2000; scaled when the rate is low.
InterFrameDelay(base) == IF rate >= MaxRate THEN base ELSE (base * MaxRate) \div rate
BurstDelay == IF ~Congested \/ rate >= MaxRate THEN 0 ELSE (10000 * MaxRate) \div rate

-----------------------------------------------------------------------------
Next ==
    \/ Flush \/ SampleApparentSize \/ DrawSize \/ FillFrame \/ SelectPadding
    \/ DrawPadding \/ WriteFrame \/ ProcessPong

Spec == Init /\ [][Next]_vars

\* The sender runs, the sampler's loop ends when it can, and there is more to send.
Sender ==
    Flush \/ SampleApparentSize \/ DrawSize \/ FillFrame \/ SelectPadding \/ DrawPadding \/ WriteFrame
FairSpec == Spec /\ WF_vars(Sender)

-----------------------------------------------------------------------------
(* Properties.                                                             *)

Largest == P.size[Len(P.size)]

\* A frame carries data, and with header and padding it is never larger than the
\* largest record of the personality, although payload and padding come from two
\* independent samples ("We target apparentSize", padding.go:58).
FrameWithinModel ==
    pc = "write" => payload > 0 /\ Header + payload + pad <= Largest

\* However long writes take, the rate keeps its limits; a turn of the loop that
\* collects a burst sleeps 100 ms at most, so a burst of n slices may wait n + 1 times
\* that; the pause after a frame is 20 ms at most; and a path that is not congested
\* makes no turn sleep (the pacer of pacing.go, collectLoop of conn.go).
DelayBounded ==
    /\ rate \in MinRate..MaxRate
    /\ BurstDelay <= 100000 /\ InterFrameDelay(2000) <= 20000
    /\ ~Congested => BurstDelay = 0

\* Every flush ends, and with it every loop of sampleBiased.  The video personality
\* is the exception: the quantile of each of its sizes is below the floor of 0.6, so
\* its sender never comes back from the first draw in large mode.
FlushEnds == load.name # "video" => (pc # "idle" ~> pc = "idle")

\* When writes are fast again the rate comes back to full speed.
RateRecovers ==
    load.name # "video" => (<>[](wait = 0) => <>[](rate = MaxRate))
=============================================================================
