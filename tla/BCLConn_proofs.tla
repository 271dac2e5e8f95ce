--------------------------- MODULE BCLConn_proofs ---------------------------
(***************************************************************************)
(* The theorems about BCLConn: its state keeps its types, what is written  *)
(* is read once, in order and in full, for every capacity, frame size and  *)
(* bound, and a connection implements two byte streams.                    *)
(*                                                                         *)
(* Lemmas about slices and queues of slices come first, then what Write,   *)
(* the sender and the frame buffer do to the stream of an end, then a      *)
(* frame that goes out and Read; conservation rests on these.              *)
(***************************************************************************)
EXTENDS BCLConn, SequenceTheorems, TLAPS

-----------------------------------------------------------------------------
(* Slices of the byte stream.                                               *)

(* A counter per end stays one when a natural number is added.                *)
LEMMA CountType ==
  ASSUME NEW f \in [Ends -> Nat], NEW e \in Ends, NEW n \in Nat
  PROVE  [f EXCEPT ![e] = @ + n] \in [Ends -> Nat]
OBVIOUS

(* The empty slice follows every position.                                  *)
LEMMA RunEmpty == \A b : IsRun(<<>>, b)
  BY DEF IsRun

(* Two slices, the second starting where the first ends, join to one        *)
(* (coalesceBurst, and the bytes Read returns one after the other).         *)
LEMMA RunConcat ==
  ASSUME NEW s \in Seq(Nat), NEW t \in Seq(Nat), NEW b \in Nat,
         IsRun(s, b), IsRun(t, b + Len(s))
  PROVE  IsRun(s \o t, b) /\ s \o t \in Seq(Nat) /\ Len(s \o t) = Len(s) + Len(t)
  BY DEF IsRun

(* A slice cut in two (fragmentAndSend, and Read into a short buffer).      *)
LEMMA RunSplit ==
  ASSUME NEW s \in Seq(Nat), NEW b \in Nat, NEW n \in 0..Len(s), IsRun(s, b)
  PROVE  /\ SubSeq(s, 1, n) \in Seq(Nat) /\ Len(SubSeq(s, 1, n)) = n
         /\ SubSeq(s, n + 1, Len(s)) \in Seq(Nat)
         /\ Len(SubSeq(s, n + 1, Len(s))) = Len(s) - n
         /\ IsRun(SubSeq(s, 1, n), b)
         /\ IsRun(SubSeq(s, n + 1, Len(s)), b + n)
<1> DEFINE u == SubSeq(s, 1, n)
           v == SubSeq(s, n + 1, Len(s))
<1>1. u \in Seq(Nat) /\ Len(u) = n /\ \A k \in 1..n : u[k] = s[k]
  OBVIOUS
<1>2. v \in Seq(Nat) /\ Len(v) = Len(s) - n /\ \A k \in 1..(Len(s) - n) : v[k] = s[n + k]
  OBVIOUS
<1> HIDE DEF u, v
<1>3. IsRun(u, b)
  BY <1>1 DEF IsRun
<1>4. IsRun(v, b + n)
  BY <1>2 DEF IsRun
<1>5. QED BY <1>1, <1>2, <1>3, <1>4, Zenon DEF u, v

-----------------------------------------------------------------------------
(* Queues of slices.                                                        *)

(* An empty queue spans nothing.                                            *)
LEMMA LaidEmpty ==
  ASSUME NEW a \in Nat, NEW b \in Nat
  PROVE  Laid(<<>>, a, b) <=> a = b
<1>1. ASSUME a = b PROVE Laid(<<>>, a, b)
  <2> DEFINE pos == [i \in 1..1 |-> a]
  <2>1. pos \in [1..(Len(<<>>) + 1) -> 0..b] /\ pos[1] = a /\ pos[Len(<<>>) + 1] = b
    BY <1>1
  <2>2. 1..Len(<<>>) = {}
    OBVIOUS
  <2> HIDE DEF pos
  <2>3. QED BY <2>1, <2>2, Zenon DEF Laid
<1>2. ASSUME Laid(<<>>, a, b) PROVE a = b
  BY <1>2 DEF Laid
<1>3. QED BY <1>1, <1>2, Zenon

(* A queue starts before it ends.                                           *)
LEMMA LaidOrder ==
  ASSUME NEW q \in Seq(Seq(Nat)), NEW a \in Nat, NEW b \in Nat, Laid(q, a, b)
  PROVE  a <= b
<1>1. PICK pos \in [1..(Len(q) + 1) -> 0..b] : pos[1] = a
  BY Zenon DEF Laid
<1>2. 1 \in 1..(Len(q) + 1)
  OBVIOUS
<1>3. pos[1] \in 0..b
  BY <1>1, <1>2, Zenon
<1>4. QED BY <1>1, <1>3

(* A slice that continues the queue is appended to it (a send on the inbox   *)
(* channel, a frame written to the wire).                                    *)
LEMMA LaidAppend ==
  ASSUME NEW q \in Seq(Seq(Nat)), NEW a \in Nat, NEW b \in Nat, Laid(q, a, b),
         NEW s \in Seq(Nat), IsRun(s, b)
  PROVE  Laid(Append(q, s), a, b + Len(s))
<1> DEFINE n == Len(q)
           r == Append(q, s)
           c == b + Len(s)
<1>1. PICK pos \in [1..(n + 1) -> 0..b] :
        /\ pos[1] = a
        /\ pos[n + 1] = b
        /\ \A i \in 1..n : IsRun(q[i], pos[i]) /\ pos[i + 1] = pos[i] + Len(q[i])
  BY ZenonT(30) DEF Laid
<1> DEFINE npos == [i \in 1..(n + 2) |-> IF i = n + 2 THEN c ELSE pos[i]]
<1>2. /\ n \in Nat /\ c \in Nat /\ b <= c
      /\ Len(r) = n + 1
      /\ r[n + 1] = s
      /\ \A i \in 1..n : r[i] = q[i]
  OBVIOUS
<1>3. npos \in [1..(Len(r) + 1) -> 0..c]
  BY SMTT(40), <1>1, <1>2
<1>4. npos[1] = a /\ npos[Len(r) + 1] = c
  BY <1>1, <1>2
<1>5. ASSUME NEW i \in 1..Len(r)
      PROVE  IsRun(r[i], npos[i]) /\ npos[i + 1] = npos[i] + Len(r[i])
  <2>1. CASE i \in 1..n
    <3>1. npos[i] = pos[i] /\ npos[i + 1] = pos[i + 1] /\ r[i] = q[i]
      BY SMTT(40), <2>1, <1>2
    <3>2. IsRun(q[i], pos[i]) /\ pos[i + 1] = pos[i] + Len(q[i])
      BY <2>1, <1>1, Zenon
    <3>3. QED BY Zenon, <3>1, <3>2
  <2>2. CASE i = n + 1
    <3>1. npos[i] = b /\ npos[i + 1] = c /\ r[i] = s
      BY <2>2, <1>1, <1>2
    <3>2. QED BY Zenon, <3>1
  <2>3. QED BY <2>1, <2>2, <1>2
<1> HIDE DEF npos, r, c
<1>6. Laid(r, a, c)
  BY ZenonT(30), <1>3, <1>4, <1>5 DEF Laid
<1>7. QED BY <1>6, Zenon DEF r, c

(* The first slice is taken off the queue (a receive from the inbox channel, *)
(* a frame read from the wire).                                              *)
LEMMA LaidTail ==
  ASSUME NEW q \in Seq(Seq(Nat)), NEW a \in Nat, NEW b \in Nat, Laid(q, a, b),
         q # <<>>
  PROVE  /\ Head(q) \in Seq(Nat)
         /\ Tail(q) \in Seq(Seq(Nat))
         /\ IsRun(Head(q), a)
         /\ Laid(Tail(q), a + Len(Head(q)), b)
<1> DEFINE n == Len(q)
           r == Tail(q)
<1>1. PICK pos \in [1..(n + 1) -> 0..b] :
        /\ pos[1] = a
        /\ pos[n + 1] = b
        /\ \A i \in 1..n : IsRun(q[i], pos[i]) /\ pos[i + 1] = pos[i] + Len(q[i])
  BY ZenonT(30) DEF Laid
<1> DEFINE npos == [i \in 1..n |-> pos[i + 1]]
<1>2. /\ n \in Nat /\ n >= 1
      /\ Head(q) = q[1] /\ q[1] \in Seq(Nat)
      /\ r \in Seq(Seq(Nat)) /\ Len(r) = n - 1
      /\ \A i \in 1..(n - 1) : r[i] = q[i + 1]
  OBVIOUS
<1>3. IsRun(Head(q), a) /\ npos[1] = a + Len(Head(q))
  BY <1>1, <1>2
<1>4. npos \in [1..(Len(r) + 1) -> 0..b] /\ npos[Len(r) + 1] = b
  BY SMTT(40), <1>1, <1>2
<1>5. ASSUME NEW i \in 1..Len(r)
      PROVE  IsRun(r[i], npos[i]) /\ npos[i + 1] = npos[i] + Len(r[i])
  BY <1>1, <1>2
<1> HIDE DEF npos, r
<1>6. Laid(r, a + Len(Head(q)), b)
  BY ZenonT(30), <1>3, <1>4, <1>5 DEF Laid
<1>7. QED BY <1>2, <1>3, <1>6, Zenon DEF r

-----------------------------------------------------------------------------
(* Type correctness.                                                        *)

(* The frames the code builds are frames.                                   *)
LEMMA FrameType ==
  /\ \A s \in Seq(Nat) : DataFrame(s) \in Frames
  /\ \A i \in Nat : PingFrame(i) \in Frames /\ PongFrame(i) \in Frames
  /\ NoFrame \in Frames
  /\ Garbled \in Frames
<1>1. <<>> \in Seq(Nat)
  OBVIOUS
<1>2. QED
  BY <1>1, Zenon DEF DataFrame, PingFrame, PongFrame, NoFrame, Garbled, Frames, Bytes

(* Each end has one peer, and is its peer's peer.                           *)
LEMMA PeerType ==
  ASSUME NEW e \in Ends
  PROVE  Peer(e) \in Ends /\ Peer(Peer(e)) = e /\ Peer(e) # e
  BY Zenon DEF Ends, Peer

(* Filling the shared buffer keeps the types of the frame writer's state.    *)
LEMMA FillType ==
  ASSUME TypeOK, NEW e \in Ends, NEW g \in Goroutines, NEW f \in Frames,
         FillFrame(e, g, f)
  PROVE  /\ wframe' \in [Ends -> [Goroutines -> Frames]]
         /\ overlap' \in [Ends -> [Goroutines -> SUBSET Frames]]
         /\ raced' \in [Ends -> BOOLEAN]
         /\ broken' \in [Ends -> BOOLEAN]
<1>1. OtherOf(g) \in Goroutines
  BY Zenon DEF OtherOf, Goroutines
<1>2. wframe' \in [Ends -> [Goroutines -> Frames]] /\ broken' \in [Ends -> BOOLEAN]
  BY Zenon DEF TypeOK, FillFrame
<1>3. raced' \in [Ends -> BOOLEAN]
  BY Zenon DEF TypeOK, FillFrame
<1>4. overlap' \in [Ends -> [Goroutines -> SUBSET Frames]]
  <2> DEFINE h == OtherOf(g)
             ne == [x \in Goroutines |-> IF x = g THEN {wframe[e][h]}
                                                  ELSE overlap[e][h] \union {f}]
  <2>1. ne \in [Goroutines -> SUBSET Frames]
    BY <1>1 DEF TypeOK
  <2>2. overlap' = overlap \/ overlap' = [overlap EXCEPT ![e] = ne]
    BY Zenon DEF FillFrame
  <2> HIDE DEF ne
  <2>3. QED BY ZenonT(30), <2>1, <2>2 DEF TypeOK
<1>5. QED BY <1>2, <1>3, <1>4, Zenon

(* The write to the TLS connection, whether it succeeds or fails, keeps the  *)
(* types of the frame writer's state and of the wire.                        *)
LEMMA TlsType ==
  ASSUME TypeOK, NEW e \in Ends, NEW g \in Goroutines,
         TlsWriteOk(e, g) \/ TlsWriteFails(e, g)
  PROVE  /\ wframe' \in [Ends -> [Goroutines -> Frames]]
         /\ overlap' \in [Ends -> [Goroutines -> SUBSET Frames]]
         /\ raced' \in [Ends -> BOOLEAN]
         /\ broken' \in [Ends -> BOOLEAN]
         /\ wire' \in [Ends -> Seq(Frames)]
<1>1. Leave(e, g)
  BY Zenon DEF TlsWriteOk, TlsWriteFails
<1>2. wframe' \in [Ends -> [Goroutines -> Frames]] /\ raced' \in [Ends -> BOOLEAN]
  BY <1>1, FrameType, Zenon DEF TypeOK, Leave
<1>3. overlap' \in [Ends -> [Goroutines -> SUBSET Frames]]
  BY <1>1, Zenon DEF TypeOK, Leave
<1>4. broken' \in [Ends -> BOOLEAN]
  BY ZenonT(30) DEF TypeOK, TlsWriteOk, TlsWriteFails
<1>5. wire' \in [Ends -> Seq(Frames)]
  <2>1. Emitted(e, g) \subseteq Frames
    BY FrameType, SMTT(40) DEF TypeOK, Emitted
  <2>2. CASE TlsWriteOk(e, g)
    <3>1. PICK f \in Frames : wire' = [wire EXCEPT ![e] = Append(@, f)]
      BY ZenonT(30), <2>1, <2>2 DEF TlsWriteOk
    <3>2. QED BY <3>1 DEF TypeOK
  <2>3. CASE TlsWriteFails(e, g)
    BY <2>3, Zenon DEF TypeOK, TlsWriteFails
  <2>4. QED BY <2>2, <2>3, Zenon
<1>6. QED BY <1>2, <1>3, <1>4, <1>5, Zenon

(* The part of a slice that fits the caller's buffer, and the rest.         *)
LEMMA FitType ==
  ASSUME NEW s \in Seq(Nat), NEW n \in Nat
  PROVE  \E m \in 0..Len(s) :
           /\ Fit(s, n) = SubSeq(s, 1, m)
           /\ Rest(s, n) = SubSeq(s, m + 1, Len(s))
           /\ Fit(s, n) \in Seq(Nat) /\ Rest(s, n) \in Seq(Nat)
<1> DEFINE m == IF Len(s) < n THEN Len(s) ELSE n
<1>1. m \in 0..Len(s)
  OBVIOUS
<1>2. Fit(s, n) = SubSeq(s, 1, m) /\ Rest(s, n) = SubSeq(s, m + 1, Len(s))
  BY Zenon DEF Fit, Rest
<1> HIDE DEF m
<1>3. SubSeq(s, 1, m) \in Seq(Nat) /\ SubSeq(s, m + 1, Len(s)) \in Seq(Nat)
  BY <1>1
<1>4. QED BY ZenonT(30), <1>1, <1>2, <1>3

(* The length of the payload that fragmentAndSend takes from the burst is   *)
(* within the burst, and is not zero when the burst is not empty.           *)
LEMMA PayloadLenType ==
  ASSUME TypeOK, NEW e \in Ends, NEW size \in ApparentSizes
  PROVE  /\ PayloadLen(e, size) \in 0..Len(burst[e])
         /\ burst[e] # <<>> => PayloadLen(e, size) # 0
  BY SMTT(40), SizeAssumption DEF TypeOK, PayloadLen, MaxPayload, Bytes

(* The slice that Write puts in the inbox continues the stream.             *)
LEMMA NextBytesType ==
  ASSUME NEW e \in Ends, accepted[e] \in Nat, NEW n \in Nat
  PROVE  /\ NextBytes(e, n) \in Seq(Nat)
         /\ Len(NextBytes(e, n)) = n
         /\ IsRun(NextBytes(e, n), accepted[e])
<1> DEFINE s == NextBytes(e, n)
<1>1. s \in [1..n -> Nat]
  BY DEF NextBytes
<1>2. s \in Seq(Nat)
  BY <1>1, SeqDef, Zenon
<1>3. Len(s) = n
  BY <1>1, <1>2, LenProperties
<1>4. \A k \in 1..n : s[k] = accepted[e] + k
  BY Zenon DEF NextBytes
<1> HIDE DEF s
<1>5. IsRun(s, accepted[e])
  BY <1>3, <1>4, Zenon DEF IsRun
<1>6. QED BY <1>2, <1>3, <1>5, Zenon DEF s

(* The initial state has its types.                                          *)
LEMMA TypeInit == Init => TypeOK
<1>1. <<>> \in Seq(Seq(Nat)) /\ <<>> \in Seq(Nat) /\ <<>> \in Seq(Frames)
  OBVIOUS
<1> SUFFICES ASSUME Init PROVE TypeOK
  OBVIOUS
<1>2. /\ accepted \in [Ends -> Nat] /\ writing \in [Ends -> Nat]
      /\ writeErr \in [Ends -> BOOLEAN] /\ inbox \in [Ends -> Seq(Seq(Bytes))]
  BY <1>1, Zenon DEF Init, Bytes
<1>3. /\ spc \in [Ends -> {"select", "begin", "collect", "send", "drain", "think", "exited"}]
      /\ state \in [Ends -> {"IDLE", "BURST", "DRAIN", "THINK"}]
      /\ burst \in [Ends -> Seq(Bytes)] /\ abandoned \in [Ends -> BOOLEAN]
      /\ flushed \in [Ends -> Nat]
  BY <1>1, Zenon DEF Init, Bytes
<1>4. /\ kpc \in [Ends -> {"wait", "ping", "exited"}]
      /\ pings \in [Ends -> Nat] /\ pending \in [Ends -> Nat]
  BY Zenon DEF Init
<1>5. wframe \in [Ends -> [Goroutines -> Frames]]
  BY FrameType, Zenon DEF Init
<1>6. overlap \in [Ends -> [Goroutines -> SUBSET Frames]]
  BY Zenon DEF Init
<1>7. /\ raced \in [Ends -> BOOLEAN] /\ broken \in [Ends -> BOOLEAN]
      /\ closing \in [Ends -> {"open", "cancelled", "connClosed", "closed"}]
      /\ netDown \in BOOLEAN
  BY ZenonT(30) DEF Init
<1>8. /\ wire \in [Ends -> Seq(Frames)] /\ pingCh \in [Ends -> Seq(Frames)]
      /\ pongCh \in [Ends -> Seq(Frames)]
  BY <1>1, Zenon DEF Init
<1>9. /\ received \in [Ends -> Seq(Bytes)] /\ readBuf \in [Ends -> Seq(Bytes)]
      /\ desync \in [Ends -> BOOLEAN] /\ readErr \in [Ends -> BOOLEAN]
  BY <1>1, Zenon DEF Init, Bytes
<1>10. QED BY <1>2, <1>3, <1>4, <1>5, <1>6, <1>7, <1>8, <1>9, Zenon DEF TypeOK

(* Every step keeps the types: one case per action of the five actors.       *)
LEMMA TypeStep == TypeOK /\ [Next]_vars => TypeOK'
<1> SUFFICES ASSUME TypeOK, [Next]_vars PROVE TypeOK'
  OBVIOUS
<1> USE DEF writeVars, senderVars, keepVars, frameVars, readVars, chanVars
<1>1. CASE UNCHANGED vars
  BY <1>1, Zenon DEF TypeOK, vars
<1>2. CASE NetFails
  BY ZenonT(30), <1>2 DEF TypeOK, NetFails
<1>3. ASSUME NEW e \in Ends, WriteNext(e) PROVE TypeOK'
  <2>1. ASSUME NEW n \in WriteSizes, WriteBegin(e, n) PROVE TypeOK'
    BY ZenonT(30), <2>1, SizeAssumption DEF TypeOK, WriteBegin
  <2>2. CASE WriteAccept(e)
    <3>1. NextBytes(e, writing[e]) \in Seq(Bytes)
      BY NextBytesType, Zenon DEF TypeOK, Bytes
    <3>2. inbox' \in [Ends -> Seq(Seq(Bytes))]
      BY <2>2, <3>1 DEF TypeOK, WriteAccept
    <3>3. accepted' \in [Ends -> Nat] /\ writing' \in [Ends -> Nat]
      BY SMTT(40), <2>2 DEF TypeOK, WriteAccept
    <3>4. QED BY ZenonT(30), <2>2, <3>2, <3>3 DEF TypeOK, WriteAccept
  <2>3. CASE WriteClosed(e)
    BY <2>3, Zenon DEF TypeOK, WriteClosed
  <2>4. QED BY <1>3, <2>1, <2>2, <2>3, Zenon DEF WriteNext
<1>4. ASSUME NEW e \in Ends, SenderNext(e) PROVE TypeOK'
  <2> "sender" \in Goroutines
    BY Zenon DEF Goroutines
  <2>0. ASSUME inbox[e] # <<>>
        PROVE  Head(inbox[e]) \in Seq(Bytes) /\ Tail(inbox[e]) \in Seq(Seq(Bytes))
    <3>1. inbox[e] \in Seq(Seq(Bytes))
      BY Zenon DEF TypeOK
    <3>2. QED BY <2>0, <3>1
  <2>1. CASE SenderTakeItem(e)
    <3>1. inbox' \in [Ends -> Seq(Seq(Bytes))] /\ burst' \in [Ends -> Seq(Bytes)]
      BY <2>0, <2>1, Zenon DEF TypeOK, SenderTakeItem
    <3>2. QED BY ZenonT(30), <2>1, <3>1 DEF TypeOK, SenderTakeItem
  <2>12. CASE SenderBurst(e)
    BY ZenonT(30), <2>12 DEF TypeOK, SenderBurst
  <2>2. CASE SenderCollect(e)
    <3>1. burst[e] \o Head(inbox[e]) \in Seq(Bytes)
      <4>1. burst[e] \in Seq(Bytes)
        BY Zenon DEF TypeOK
      <4>2. QED BY <2>0, <2>2, <4>1 DEF SenderCollect
    <3>2. inbox' \in [Ends -> Seq(Seq(Bytes))] /\ burst' \in [Ends -> Seq(Bytes)]
      BY ZenonT(30), <2>0, <2>2, <3>1 DEF TypeOK, SenderCollect
    <3>3. spc' \in [Ends -> {"select", "begin", "collect", "send", "drain", "think", "exited"}]
      BY <2>2, Zenon DEF TypeOK, SenderCollect
    <3>4. QED BY ZenonT(30), <2>2, <3>2, <3>3 DEF TypeOK, SenderCollect
  <2>3. CASE SenderTimer(e)
    BY ZenonT(30), <2>3 DEF TypeOK, SenderTimer
  <2>4. CASE SenderDone(e)
    BY SMTT(40), <2>4 DEF TypeOK, SenderDone
  <2>5. ASSUME NEW size \in ApparentSizes, SenderFill(e, size) PROVE TypeOK'
    <3> DEFINE n == PayloadLen(e, size)
               f == DataFrame(SubSeq(burst[e], 1, n))
    <3>1. n \in 0..Len(burst[e])
      BY PayloadLenType, Zenon
    <3>2. SubSeq(burst[e], 1, n) \in Seq(Bytes) /\ SubSeq(burst[e], n + 1, Len(burst[e])) \in Seq(Bytes)
      <4>1. burst[e] \in Seq(Bytes)
        BY Zenon DEF TypeOK
      <4> HIDE DEF n
      <4>2. QED BY <3>1, <4>1
    <3>3. f \in Frames
      BY ZenonT(30), <3>2, FrameType DEF Bytes
    <3> HIDE DEF n
    <3>4. FillFrame(e, "sender", f)
      BY <2>5, Zenon DEF SenderFill, n
    <3>5. burst' = [burst EXCEPT ![e] = SubSeq(@, n + 1, Len(@))]
      BY <2>5, Zenon DEF SenderFill, n
    <3> HIDE DEF f
    <3>6. burst' \in [Ends -> Seq(Bytes)]
      BY ZenonT(30), <3>2, <3>5 DEF TypeOK
    <3>7. /\ wframe' \in [Ends -> [Goroutines -> Frames]]
          /\ overlap' \in [Ends -> [Goroutines -> SUBSET Frames]]
          /\ raced' \in [Ends -> BOOLEAN] /\ broken' \in [Ends -> BOOLEAN]
      BY <3>3, <3>4, FillType, Zenon
    <3>8. UNCHANGED <<writeVars, spc, state, abandoned, flushed, keepVars, closing,
                      netDown, wire, readVars, chanVars>>
      BY <2>5, Zenon DEF SenderFill
    <3>9. QED BY ZenonT(30), <3>6, <3>7, <3>8 DEF TypeOK
  <2>6. CASE SenderFillPong(e)
    <3>1. Head(pingCh[e]) \in Frames /\ Tail(pingCh[e]) \in Seq(Frames)
      BY <2>6, SMTT(40) DEF TypeOK, SenderFillPong
    <3>2. PongFrame(Head(pingCh[e]).id) \in Frames
      BY ZenonT(30), <3>1, FrameType DEF Frames
    <3>3. QED BY ZenonT(30), <2>6, <3>1, <3>2, FillType DEF TypeOK, SenderFillPong
  <2>7. CASE SenderSent(e)
    <3>1. wframe[e]["sender"] \in Frames
      BY DEF TypeOK
    <3> DEFINE k == Len(wframe[e]["sender"].payload)
    <3>2. k \in Nat /\ flushed' = [flushed EXCEPT ![e] = @ + k]
      <4>1. k \in Nat
        BY <3>1 DEF Frames
      <4>2. flushed' = [flushed EXCEPT ![e] = @ + k]
        BY <2>7, Zenon DEF SenderSent
      <4>3. QED BY <4>1, <4>2, Zenon
    <3>3. flushed' \in [Ends -> Nat]
      <4> HIDE DEF k
      <4>1. flushed \in [Ends -> Nat]
        BY Zenon DEF TypeOK
      <4>2. QED BY Zenon, <3>2, <4>1, CountType
    <3>4. /\ spc' \in [Ends -> {"select", "begin", "collect", "send", "drain", "think", "exited"}]
          /\ state' \in [Ends -> {"IDLE", "BURST", "DRAIN", "THINK"}]
      BY <2>7, Zenon DEF TypeOK, SenderSent
    <3>5. QED BY ZenonT(30), <2>7, <3>3, <3>4, TlsType DEF TypeOK, SenderSent
  <2>8. CASE SenderSendFails(e)
    <3>1. /\ writeErr' \in [Ends -> BOOLEAN]
          /\ spc' \in [Ends -> {"select", "begin", "collect", "send", "drain", "think", "exited"}]
      BY ZenonT(30), <2>8 DEF TypeOK, SenderSendFails
    <3>2. burst' \in [Ends -> Seq(Bytes)]
      <4>1. <<>> \in Seq(Bytes)
        OBVIOUS
      <4>2. QED BY <2>8, <4>1, Zenon DEF TypeOK, SenderSendFails
    <3>3. QED BY ZenonT(30), <2>8, <3>1, <3>2, TlsType DEF TypeOK, SenderSendFails
  <2>9. CASE SenderPonged(e)
    BY ZenonT(30), <2>9, TlsType DEF TypeOK, SenderPonged
  <2>10. CASE SenderPong(e)
    BY SMTT(40), <2>10 DEF TypeOK, SenderPong
  <2>11. QED BY <1>4, <2>1, <2>2, <2>3, <2>4, <2>5, <2>6, <2>7, <2>8, <2>9, <2>10,
            <2>12, Zenon DEF SenderNext
<1>5. ASSUME NEW e \in Ends, KeepaliveNext(e) PROVE TypeOK'
  <2> "keepalive" \in Goroutines
    BY Zenon DEF Goroutines
  <2>1. CASE KeepaliveFires(e)
    BY <2>1, Zenon DEF TypeOK, KeepaliveFires
  <2>2. CASE KeepaliveFill(e)
    <3>1. PingFrame(pings[e] + 1) \in Frames
      BY FrameType DEF TypeOK
    <3>2. pings' \in [Ends -> Nat] /\ pending' \in [Ends -> Nat]
      BY <2>2, SMTT(40) DEF TypeOK, KeepaliveFill
    <3>3. QED BY ZenonT(30), <2>2, <3>1, <3>2, FillType DEF TypeOK, KeepaliveFill
  <2>3. CASE KeepaliveSent(e)
    BY ZenonT(30), <2>3, TlsType DEF TypeOK, KeepaliveSent
  <2>4. CASE KeepaliveFails(e)
    BY ZenonT(30), <2>4, TlsType DEF TypeOK, KeepaliveFails
  <2>5. CASE KeepaliveDone(e)
    BY <2>5, Zenon DEF TypeOK, KeepaliveDone
  <2>6. QED BY <1>5, <2>1, <2>2, <2>3, <2>4, <2>5, Zenon DEF KeepaliveNext
<1>6. ASSUME NEW e \in Ends, ReadNext(e) PROVE TypeOK'
  <2> DEFINE p == Peer(e)
  <2>1. p \in Ends
    BY PeerType, Zenon
  <2>2. ASSUME ReadFrame(e)
        PROVE  /\ NextFrame(e) \in Frames
               /\ NextFrame(e).payload \in Seq(Bytes)
               /\ wire' \in [Ends -> Seq(Frames)]
    <3>1. wire[p] # <<>> /\ wire[p] \in Seq(Frames) /\ wire' = [wire EXCEPT ![p] = Tail(@)]
      BY <2>1, <2>2, Zenon DEF ReadFrame, TypeOK
    <3> HIDE DEF p
    <3>2. Head(wire[p]) \in Frames /\ Tail(wire[p]) \in Seq(Frames)
      BY <3>1
    <3> wire' \in [Ends -> Seq(Frames)]
      BY <2>1, <3>1, <3>2, Zenon DEF TypeOK
    <3>3. Head(wire[p]).payload \in Seq(Bytes)
      BY <3>2, Zenon DEF Frames
    <3>4. QED BY <3>2, <3>3, Zenon DEF NextFrame, p
  <2> HIDE DEF p
  <2>3. ASSUME NEW n \in ReadSizes, ReadLeftover(e, n) PROVE TypeOK'
    <3>1. Fit(readBuf[e], n) \in Seq(Bytes) /\ Rest(readBuf[e], n) \in Seq(Bytes)
      BY FitType, SizeAssumption, Zenon DEF TypeOK, Bytes
    <3>2. received[e] \o Fit(readBuf[e], n) \in Seq(Bytes)
      <4>1. received[e] \in Seq(Bytes)
        BY Zenon DEF TypeOK
      <4>2. QED BY <3>1, <4>1
    <3>3. received' \in [Ends -> Seq(Bytes)] /\ readBuf' \in [Ends -> Seq(Bytes)]
      BY <2>3, <3>1, <3>2, Zenon DEF TypeOK, ReadLeftover
    <3>4. QED BY ZenonT(30), <2>3, <3>3 DEF TypeOK, ReadLeftover
  <2>4. ASSUME NEW n \in ReadSizes, ReadData(e, n) PROVE TypeOK'
    <3> DEFINE s == NextFrame(e).payload
    <3>1. s \in Seq(Bytes) /\ wire' \in [Ends -> Seq(Frames)]
      BY <2>2, <2>4, Zenon DEF ReadData
    <3>2. Fit(s, n) \in Seq(Bytes) /\ Rest(s, n) \in Seq(Bytes)
      BY ZenonT(30), <3>1, FitType, SizeAssumption DEF Bytes
    <3>3. /\ received' = [received EXCEPT ![e] = @ \o Fit(s, n)]
          /\ readBuf' = [readBuf EXCEPT ![e] = Rest(s, n)]
      BY <2>4, Zenon DEF ReadData
    <3> HIDE DEF s
    <3>4. received' \in [Ends -> Seq(Bytes)] /\ readBuf' \in [Ends -> Seq(Bytes)]
      BY SMTT(40), <3>2, <3>3 DEF TypeOK
    <3>5. QED BY ZenonT(30), <2>4, <3>1, <3>4 DEF TypeOK, ReadData
  <2>5. ASSUME NEW ch \in Seq(Frames), ReadFrame(e)
        PROVE  Offer(ch, NextFrame(e)) \in Seq(Frames)
    BY <2>2, <2>5 DEF Offer
  <2>6. CASE ReadPing(e)
    BY ZenonT(30), <2>2, <2>5, <2>6 DEF TypeOK, ReadPing
  <2>7. CASE ReadPong(e)
    BY ZenonT(30), <2>2, <2>5, <2>7 DEF TypeOK, ReadPong
  <2>8. CASE ReadDesynced(e)
    <3>1. Append(received[e], 0) \in Seq(Bytes)
      BY DEF TypeOK, Bytes
    <3>2. received' \in [Ends -> Seq(Bytes)]
      BY ZenonT(30), <2>8, <3>1 DEF TypeOK, ReadDesynced
    <3>3. readErr' \in [Ends -> BOOLEAN] /\ desync' \in [Ends -> BOOLEAN]
      BY ZenonT(30), <2>8 DEF TypeOK, ReadDesynced
    <3>4. QED BY ZenonT(30), <2>2, <2>8, <3>2, <3>3 DEF TypeOK, ReadDesynced
  <2>9. CASE ReadFails(e)
    BY ZenonT(30), <2>9 DEF TypeOK, ReadFails
  <2>10. QED BY <1>6, <2>3, <2>4, <2>6, <2>7, <2>8, <2>9, Zenon DEF ReadNext
<1>7. ASSUME NEW e \in Ends, CloseCancel(e) \/ CloseProceeds(e) PROVE TypeOK'
  BY ZenonT(30), <1>7 DEF TypeOK, CloseCancel, CloseProceeds, CloseConn, CloseReturns
<1>8. QED BY <1>1, <1>2, <1>3, <1>4, <1>5, <1>6, <1>7, Zenon DEF Next

(* The state of both ends of a BCL connection keeps its types, whatever the  *)
(* capacities, the frame sizes and the number of bytes and PINGs.            *)
THEOREM TypeCorrect == Spec => []TypeOK
  BY TypeInit, TypeStep, PTL DEF Spec

-----------------------------------------------------------------------------
(* Conservation of the stream.                                              *)

(* An end that is not writing holds no bytes in a frame.                     *)
LEMMA NoFrameHolds == NoFrame.type = "none" /\ NoFrame.payload = <<>>
  BY Zenon DEF NoFrame

(* What StreamConserved says of the stream of end d, and the state it says   *)
(* it about: the write side of d and the read side of its peer.              *)
Safe(d)     == WriterShape(d) /\ (~raced[d] /\ ~abandoned[d] => Conserved(d))
OutState(d) == <<accepted[d], inbox[d], spc[d], burst[d], abandoned[d], flushed[d],
                 wframe[d], overlap[d], raced[d], broken[d], wire[d]>>
InState(d)  == <<received[d], readBuf[d], desync[d]>>

(* A step that touches neither side of a stream keeps it conserved.         *)
LEMMA Untouched ==
  ASSUME NEW d \in Ends, Safe(d), OutState(d)' = OutState(d),
         InState(Peer(d))' = InState(Peer(d))
  PROVE  Safe(d)'
<1> DEFINE p == Peer(d)
<1>1. /\ accepted'[d] = accepted[d] /\ inbox'[d] = inbox[d] /\ spc'[d] = spc[d]
      /\ burst'[d] = burst[d] /\ abandoned'[d] = abandoned[d]
      /\ flushed'[d] = flushed[d] /\ wframe'[d] = wframe[d]
      /\ overlap'[d] = overlap[d] /\ raced'[d] = raced[d]
      /\ broken'[d] = broken[d] /\ wire'[d] = wire[d]
      /\ received'[p] = received[p] /\ readBuf'[p] = readBuf[p]
      /\ desync'[p] = desync[p]
  BY Zenon DEF OutState, InState
<1>2. WriterShape(d)'
  BY <1>1, Zenon DEF Safe, WriterShape, Held
<1>3. ASSUME ~raced'[d], ~abandoned'[d] PROVE Conserved(d)'
  <2>1. Conserved(d)
    BY <1>1, <1>3, ZenonT(40) DEF Safe
  <2>2. Held(d)' = Held(d)
    BY <1>1, Zenon DEF Held
  <2> HIDE DEF p
  <2>3. QED BY ZenonT(30), <1>1, <2>1, <2>2 DEF Conserved, p
<1>4. QED BY <1>2, <1>3, Zenon DEF Safe

(* The payloads of the frames on the wire, in order.                        *)
LEMMA PayloadsType ==
  ASSUME NEW w \in Seq(Frames)
  PROVE  /\ Payloads(w) \in Seq(Seq(Nat))
         /\ Len(Payloads(w)) = Len(w)
         /\ \A i \in 1..Len(w) : Payloads(w)[i] = w[i].payload
<1> DEFINE q == Payloads(w)
<1>1. \A i \in 1..Len(w) : w[i] \in Frames
  OBVIOUS
<1>2. \A i \in 1..Len(w) : w[i].payload \in Seq(Nat)
  BY <1>1, Zenon DEF Frames, Bytes
<1>3. q \in [1..Len(w) -> Seq(Nat)]
  BY <1>2, Zenon DEF Payloads
<1>4. Len(w) \in Nat
  OBVIOUS
<1>5. q \in Seq(Seq(Nat))
  BY <1>3, <1>4, SeqDef
<1>6. Len(q) = Len(w)
  BY <1>3, <1>4, <1>5, LenProperties
<1>7. QED BY <1>5, <1>6, Zenon DEF Payloads

(* WriteFrame puts one more payload on the wire.                            *)
LEMMA PayloadsAppend ==
  ASSUME NEW w \in Seq(Frames), NEW f \in Frames
  PROVE  /\ f.payload \in Seq(Nat)
         /\ Payloads(Append(w, f)) = Append(Payloads(w), f.payload)
<1> DEFINE v == Append(w, f)
           q == Payloads(v)
           r == Append(Payloads(w), f.payload)
<1>1. f.payload \in Seq(Nat)
  BY Zenon DEF Frames, Bytes
<1>2. v \in Seq(Frames) /\ Len(v) = Len(w) + 1 /\ v[Len(w) + 1] = f
      /\ \A i \in 1..Len(w) : v[i] = w[i]
  OBVIOUS
<1>3. r \in Seq(Seq(Nat)) /\ Len(r) = Len(w) + 1 /\ r[Len(w) + 1] = f.payload
      /\ \A i \in 1..Len(w) : r[i] = Payloads(w)[i]
  BY <1>1, PayloadsType
<1> HIDE DEF v
<1>4. q \in Seq(Seq(Nat)) /\ Len(q) = Len(v) /\ \A i \in 1..Len(v) : q[i] = v[i].payload
  BY <1>2, PayloadsType, Zenon
<1> HIDE DEF q, r
<1>5. \A i \in 1..Len(q) : q[i] = r[i]
  <2> SUFFICES ASSUME NEW i \in 1..Len(q) PROVE q[i] = r[i]
    OBVIOUS
  <2>1. CASE i \in 1..Len(w)
    <3>1. q[i] = v[i].payload /\ v[i] = w[i] /\ r[i] = Payloads(w)[i]
      BY <2>1, <1>2, <1>3, <1>4, Zenon
    <3>2. Payloads(w)[i] = w[i].payload
      BY <2>1, PayloadsType, Zenon
    <3>3. QED BY <3>1, <3>2, Zenon
  <2>2. CASE i = Len(w) + 1
    BY <2>2, <1>2, <1>3, <1>4, Zenon
  <2>3. QED BY <2>1, <2>2, <1>2, <1>4
<1>6. q = r
  BY <1>2, <1>3, <1>4, <1>5, SeqEqual
<1>7. QED BY <1>1, <1>6, Zenon DEF q, r, v

(* ReadFrame takes the first payload off the wire.                          *)
LEMMA PayloadsTail ==
  ASSUME NEW w \in Seq(Frames), w # <<>>
  PROVE  /\ Head(Payloads(w)) = Head(w).payload
         /\ Payloads(w) # <<>>
         /\ Payloads(Tail(w)) = Tail(Payloads(w))
<1> DEFINE v == Tail(w)
           q == Payloads(v)
           r == Tail(Payloads(w))
<1>1. Len(w) \in Nat \ {0} /\ v \in Seq(Frames) /\ Len(v) = Len(w) - 1
      /\ Head(w) = w[1] /\ \A i \in 1..Len(v) : v[i] = w[i + 1]
  OBVIOUS
<1>2. Payloads(w) # <<>> /\ Head(Payloads(w)) = Head(w).payload
  BY <1>1, PayloadsType
<1>3. r \in Seq(Seq(Nat)) /\ Len(r) = Len(w) - 1
      /\ \A i \in 1..(Len(w) - 1) : r[i] = Payloads(w)[i + 1]
  BY <1>1, <1>2, PayloadsType
<1> HIDE DEF v
<1>4. q \in Seq(Seq(Nat)) /\ Len(q) = Len(v) /\ \A i \in 1..Len(v) : q[i] = v[i].payload
  BY <1>1, PayloadsType, Zenon
<1> HIDE DEF q, r
<1>5. \A i \in 1..Len(q) : q[i] = r[i]
  <2> SUFFICES ASSUME NEW i \in 1..Len(q) PROVE q[i] = r[i]
    OBVIOUS
  <2>1. i + 1 \in 1..Len(w) /\ i \in 1..(Len(w) - 1) /\ i \in 1..Len(v)
    BY <1>1, <1>4
  <2>2. Payloads(w)[i + 1] = w[i + 1].payload
    BY <2>1, PayloadsType, Zenon
  <2>3. q[i] = v[i].payload /\ v[i] = w[i + 1] /\ r[i] = Payloads(w)[i + 1]
    BY <2>1, <1>1, <1>3, <1>4, Zenon
  <2>4. QED BY <2>2, <2>3, Zenon
<1>6. q = r
  BY ZenonT(30), <1>1, <1>3, <1>4, <1>5, SeqEqual
<1>7. QED BY <1>2, <1>6, Zenon DEF q, r, v

(* The types of what Conserved(e) speaks of.                                *)
LEMMA StreamTypes ==
  ASSUME TypeOK, NEW e \in Ends
  PROVE  /\ accepted[e] \in Nat /\ writing[e] \in Nat /\ flushed[e] \in Nat
         /\ inbox[e] \in Seq(Seq(Nat))
         /\ burst[e] \in Seq(Nat)
         /\ Held(e) \in Seq(Nat)
         /\ \A g \in Goroutines : wframe[e][g] \in Frames
         /\ wire[e] \in Seq(Frames)
         /\ received[Peer(e)] \in Seq(Nat) /\ readBuf[Peer(e)] \in Seq(Nat)
<1>1. Peer(e) \in Ends
  BY PeerType, Zenon
<1>2. wframe[e]["sender"] \in Frames
  BY DEF TypeOK, Goroutines
<1>3. Held(e) \in Seq(Nat)
  BY <1>2, Zenon DEF Held, Frames, Bytes
<1>4. QED BY <1>1, <1>3, Zenon DEF TypeOK, Bytes

(* The number of bytes that have left the wire.                             *)
LEMMA ReadPosType ==
  ASSUME TypeOK, NEW e \in Ends
  PROVE  /\ Len(received[Peer(e)]) \in Nat /\ Len(readBuf[Peer(e)]) \in Nat
         /\ Len(received[Peer(e)]) + Len(readBuf[Peer(e)]) \in Nat
<1> DEFINE r == received[Peer(e)]
           b == readBuf[Peer(e)]
<1>1. r \in Seq(Nat) /\ b \in Seq(Nat)
  BY StreamTypes, Zenon
<1> HIDE DEF r, b
<1>2. Len(r) \in Nat /\ Len(b) \in Nat /\ Len(r) + Len(b) \in Nat
  BY <1>1, SMTT(40)
<1>3. QED BY ZenonT(30), <1>2 DEF r, b

(* Write: the accepted slice goes to the end of the inbox.                  *)
LEMMA SafeWriteAccept ==
  ASSUME TypeOK, NEW e \in Ends, Safe(e), WriteAccept(e)
  PROVE  Safe(e)'
<1> DEFINE p == Peer(e)
           s == NextBytes(e, writing[e])
<1>1. /\ inbox'[e] = Append(inbox[e], s)
      /\ accepted'[e] = accepted[e] + writing[e]
      /\ UNCHANGED <<senderVars, frameVars, wire, readVars>>
  BY Zenon DEF TypeOK, WriteAccept
<1>2. WriterShape(e)'
  BY <1>1, Zenon DEF Safe, WriterShape, Held, senderVars, frameVars
<1>3. ASSUME ~raced'[e], ~abandoned'[e] PROVE Conserved(e)'
  <2>1. Conserved(e)
    BY <1>1, <1>3, ZenonT(40) DEF Safe, senderVars, frameVars
  <2>2. s \in Seq(Nat) /\ Len(s) = writing[e] /\ IsRun(s, accepted[e])
    BY NextBytesType, StreamTypes, ZenonT(40)
  <2>3. flushed'[e] <= accepted'[e]
    BY <1>1, <2>1, StreamTypes, SMTT(40) DEF Conserved, senderVars
  <2>4. ASSUME ~broken[e]
        PROVE  Laid(inbox'[e], flushed[e] + Len(Held(e)) + Len(burst[e]), accepted'[e])
    <3> DEFINE a == flushed[e] + Len(Held(e)) + Len(burst[e])
    <3>1. Laid(inbox[e], a, accepted[e])
      BY <2>1, <2>4, Zenon DEF Conserved
    <3>2. a \in Nat
      BY StreamTypes, SMTT(40)
    <3> HIDE DEF a, s
    <3>3. Laid(Append(inbox[e], s), a, accepted[e] + Len(s))
      BY ZenonT(30), <2>2, <3>1, <3>2, LaidAppend, StreamTypes
    <3>4. QED BY <1>1, <2>2, <3>3, Zenon DEF a
  <2>5. Held(e)' = Held(e)
    BY <1>1, Zenon DEF Held, frameVars
  <2> HIDE DEF p, s
  <2>6. QED BY ZenonT(30), <1>1, <2>1, <2>3, <2>4, <2>5
        DEF Conserved, senderVars, frameVars, readVars
<1>4. QED BY <1>2, <1>3, Zenon DEF Safe

(* runBurstCycle takes slices from the inbox, in order, to the burst.       *)
LEMMA SafeTake ==
  ASSUME TypeOK, NEW e \in Ends, Safe(e), SenderTakeItem(e) \/ SenderCollect(e)
  PROVE  Safe(e)'
<1> DEFINE h == Head(inbox[e])
<1>1. /\ inbox[e] # <<>>
      /\ inbox'[e] = Tail(inbox[e])
      /\ spc'[e] \in {"begin", "collect", "send"}
      /\ SenderFree(e)
      /\ UNCHANGED <<accepted, abandoned, flushed, frameVars, wire, readVars>>
  BY ZenonT(30) DEF TypeOK, SenderTakeItem, SenderCollect
<1>2. burst'[e] = burst[e] \o h
  <2>1. CASE SenderTakeItem(e)
    <3>1. burst'[e] = h /\ spc[e] \in {"select", "drain", "think"}
      BY <2>1, Zenon DEF TypeOK, SenderTakeItem
    <3>2. burst[e] = <<>>
      BY <3>1, ZenonT(40) DEF Safe, WriterShape
    <3>3. h \in Seq(Nat)
      <4>1. inbox[e] \in Seq(Seq(Nat))
        BY StreamTypes, Zenon
      <4>2. QED BY <1>1, <4>1
    <3>4. QED BY <3>1, <3>2, <3>3, SMTT(40)
  <2>2. CASE SenderCollect(e)
    BY ZenonT(30), <2>2 DEF TypeOK, SenderCollect
  <2>3. QED BY ZenonT(30), <2>1, <2>2
<1>3. WriterShape(e)'
  BY <1>1, NoFrameHolds, Zenon DEF Safe, WriterShape, Held, frameVars, SenderFree
<1>4. ASSUME ~raced'[e], ~abandoned'[e] PROVE Conserved(e)'
  <2>1. Conserved(e)
    BY <1>1, <1>4, Zenon DEF Safe, frameVars
  <2>2. ASSUME ~broken[e]
        PROVE  /\ IsRun(burst'[e], flushed[e] + Len(Held(e)))
               /\ Laid(inbox'[e], flushed[e] + Len(Held(e)) + Len(burst'[e]), accepted[e])
    <3> DEFINE a == flushed[e] + Len(Held(e))
               b == a + Len(burst[e])
    <3>1. a \in Nat /\ b \in Nat
      BY StreamTypes, SMTT(40)
    <3>2. IsRun(burst[e], a) /\ Laid(inbox[e], b, accepted[e])
      BY <2>1, <2>2, Zenon DEF Conserved
    <3> HIDE DEF b
    <3>3. h \in Seq(Nat) /\ IsRun(h, b) /\ Laid(Tail(inbox[e]), b + Len(h), accepted[e])
      BY ZenonT(30), <1>1, <3>1, <3>2, LaidTail, StreamTypes
    <3> HIDE DEF a, h
    <3>4. IsRun(burst[e] \o h, a) /\ Len(burst[e] \o h) = Len(burst[e]) + Len(h)
      BY ZenonT(30), <3>1, <3>2, <3>3, RunConcat, StreamTypes DEF b
    <3>5. Len(burst[e]) \in Nat /\ Len(h) \in Nat
      BY <3>3, StreamTypes
    <3>6. a + Len(burst'[e]) = b + Len(h)
      BY <1>2, <3>1, <3>4, <3>5 DEF b
    <3>7. QED BY <1>1, <1>2, <3>3, <3>4, <3>6, Zenon DEF a
  <2>3. Held(e)' = Held(e)
    BY <1>1, Zenon DEF Held, frameVars
  <2>4. QED BY ZenonT(30), <1>1, <2>1, <2>2, <2>3 DEF Conserved, frameVars, readVars
<1>5. QED BY <1>3, <1>4, Zenon DEF Safe

(* Its state, its timers and processPong move the sender between phases in which *)
(* it holds the same bytes.                                                   *)
LEMMA SafePhase ==
  ASSUME TypeOK, NEW e \in Ends, Safe(e), SenderBurst(e) \/ SenderTimer(e) \/ SenderPong(e)
  PROVE  Safe(e)'
<1>1. /\ SenderFree(e)
      /\ spc[e] \in {"begin", "collect", "drain", "think"}
      /\ spc[e] = "begin" => spc'[e] = "collect"
      /\ spc[e] = "collect" => spc'[e] = "send"
      /\ UNCHANGED <<accepted, inbox, burst, abandoned, flushed, frameVars, wire, readVars>>
  BY Zenon DEF TypeOK, SenderBurst, SenderTimer, SenderPong, writeVars
<1>2. WriterShape(e)'
  BY ZenonT(30), <1>1, NoFrameHolds DEF Safe, WriterShape, Held, SenderFree, frameVars
<1>3. ASSUME ~raced'[e], ~abandoned'[e] PROVE Conserved(e)'
  <2>1. Conserved(e)
    BY ZenonT(30), <1>1, <1>3 DEF Safe, frameVars
  <2>2. Held(e)' = Held(e)
    BY <1>1, ZenonT(40) DEF Held, frameVars
  <2>3. QED BY ZenonT(30), <1>1, <2>1, <2>2 DEF Conserved, frameVars, readVars
<1>4. QED BY <1>2, <1>3, Zenon DEF Safe

(* ctx.Done: the sender drops a burst only where abandoned records it.      *)
LEMMA SafeDone ==
  ASSUME TypeOK, NEW e \in Ends, Safe(e), SenderDone(e)
  PROVE  Safe(e)'
<1>1. /\ SenderFree(e)
      /\ burst'[e] = <<>>
      /\ abandoned'[e] = (abandoned[e] \/ spc[e] = "collect")
      /\ spc[e] \in {"select", "collect", "drain", "think"}
      /\ spc'[e] \in {"select", "exited"}
      /\ UNCHANGED <<accepted, inbox, flushed, frameVars, wire, readVars>>
  BY Zenon DEF TypeOK, SenderDone, writeVars
<1>2. WriterShape(e)'
  BY <1>1, NoFrameHolds, Zenon DEF Safe, WriterShape, Held, SenderFree, frameVars
<1>3. ASSUME ~raced'[e], ~abandoned'[e] PROVE Conserved(e)'
  <2>1. Conserved(e)
    BY ZenonT(30), <1>1, <1>3 DEF Safe, frameVars
  <2>2. burst[e] = <<>>
    BY ZenonT(30), <1>1, <1>3 DEF Safe, WriterShape
  <2>3. Held(e)' = Held(e)
    BY <1>1, Zenon DEF Held, frameVars
  <2>4. QED BY ZenonT(30), <1>1, <2>1, <2>2, <2>3 DEF Conserved, frameVars, readVars
<1>4. QED BY <1>2, <1>3, Zenon DEF Safe

(* The buffer is filled by goroutine g: the frame of the other goroutine is  *)
(* as it was, and an overlap with it is recorded in raced.                   *)
LEMMA FillEffect ==
  ASSUME TypeOK, NEW e \in Ends, NEW g \in Goroutines, NEW f \in Frames,
         FillFrame(e, g, f), WriterShape(e)
  PROVE  /\ wframe[e][g] = NoFrame
         /\ wframe'[e][g] = f
         /\ wframe'[e][OtherOf(g)] = wframe[e][OtherOf(g)]
         /\ broken' = broken
         /\ raced[e] => raced'[e]
         /\ \A x \in Goroutines : overlap'[e][x] # {} => raced'[e]
<1>1. OtherOf(g) \in Goroutines /\ OtherOf(g) # g
  BY Zenon DEF OtherOf, Goroutines
<1>2. wframe[e][g] = NoFrame /\ wframe'[e][g] = f /\ broken' = broken
  BY Zenon DEF FillFrame, TypeOK
<1>3. wframe'[e][OtherOf(g)] = wframe[e][OtherOf(g)]
  BY <1>1, Zenon DEF FillFrame, TypeOK
<1>4. raced'[e] = (raced[e] \/ wframe[e][OtherOf(g)] # NoFrame)
  BY Zenon DEF FillFrame, TypeOK
<1>5. wframe[e][OtherOf(g)] = NoFrame => overlap' = overlap
  BY Zenon DEF FillFrame
<1>6. \A x \in Goroutines : overlap'[e][x] # {} => raced'[e]
  BY ZenonT(30), <1>4, <1>5 DEF WriterShape
<1>7. QED BY ZenonT(30), <1>2, <1>3, <1>4, <1>6

(* fragmentAndSend: the first bytes of the burst go to the frame buffer.    *)
LEMMA SafeFill ==
  ASSUME TypeOK, NEW e \in Ends, Safe(e), NEW size \in ApparentSizes, SenderFill(e, size)
  PROVE  Safe(e)'
<1> DEFINE n == PayloadLen(e, size)
           s == SubSeq(burst[e], 1, n)
           t == SubSeq(burst[e], n + 1, Len(burst[e]))
           f == DataFrame(s)
<1>1. n \in 0..Len(burst[e])
  BY PayloadLenType, Zenon
<1>2. FillFrame(e, "sender", f) /\ burst'[e] = t /\ spc[e] = "send"
  BY ZenonT(30) DEF SenderFill, TypeOK
<1>3. UNCHANGED <<accepted, inbox, spc, abandoned, flushed, wire, readVars>>
  BY Zenon DEF SenderFill, writeVars
<1> HIDE DEF n
<1>4. s \in Seq(Nat) /\ t \in Seq(Nat) /\ f \in Frames
  <2>1. burst[e] \in Seq(Nat)
    BY StreamTypes, Zenon
  <2>2. s \in Seq(Nat) /\ t \in Seq(Nat)
    BY <1>1, <2>1, SMTT(40)
  <2>3. QED BY ZenonT(30), <2>2, FrameType
<1>5. f.type = "DATA" /\ f.payload = s
  BY ZenonT(30) DEF DataFrame
<1> HIDE DEF s, t, f
<1>6. /\ wframe[e]["sender"] = NoFrame
      /\ wframe'[e]["sender"] = f
      /\ wframe'[e]["keepalive"] = wframe[e]["keepalive"]
      /\ broken' = broken
      /\ raced[e] => raced'[e]
      /\ \A x \in Goroutines : overlap'[e][x] # {} => raced'[e]
  BY <1>2, <1>4, FillEffect, ZenonT(40) DEF Safe, Goroutines, OtherOf
<1>7. WriterShape(e)'
  BY <1>2, <1>3, <1>5, <1>6, Zenon DEF Safe, WriterShape, Held
<1>8. ASSUME ~raced'[e], ~abandoned'[e] PROVE Conserved(e)'
  <2>1. Conserved(e)
    BY ZenonT(30), <1>3, <1>6, <1>8 DEF Safe
  <2>2. Held(e) = <<>> /\ Held(e)' = s
    BY <1>5, <1>6, NoFrameHolds, Zenon DEF Held
  <2>3. ASSUME ~broken[e]
        PROVE  /\ IsRun(s, flushed[e])
               /\ IsRun(t, flushed[e] + Len(s))
               /\ Laid(inbox[e], flushed[e] + Len(s) + Len(t), accepted[e])
    <3>1. flushed[e] + Len(Held(e)) = flushed[e] /\ flushed[e] \in Nat
      BY <2>2, StreamTypes, SMTT(40)
    <3>2. IsRun(burst[e], flushed[e]) /\ Laid(inbox[e], flushed[e] + Len(burst[e]), accepted[e])
      BY <2>1, <2>3, <3>1, Zenon DEF Conserved
    <3>3. /\ Len(s) = n /\ Len(t) = Len(burst[e]) - n
          /\ IsRun(s, flushed[e]) /\ IsRun(t, flushed[e] + n)
      BY ZenonT(30), <1>1, <3>1, <3>2, RunSplit, StreamTypes DEF s, t
    <3>4. flushed[e] + Len(s) + Len(t) = flushed[e] + Len(burst[e])
      <4>1. Len(burst[e]) \in Nat
        BY StreamTypes, SMTT(40)
      <4>2. QED BY <1>1, <3>1, <3>3, <4>1, SMTT(40)
    <3>5. QED BY <3>2, <3>3, <3>4, Zenon
  <2>4. QED BY ZenonT(30), <1>2, <1>3, <1>6, <2>1, <2>2, <2>3 DEF Conserved, readVars
<1>9. QED BY <1>7, <1>8, Zenon DEF Safe

(* writePong and sendPing fill the buffer with a frame that carries no byte  *)
(* of the stream.                                                            *)
LEMMA SafeFillControl ==
  ASSUME TypeOK, NEW e \in Ends, Safe(e), SenderFillPong(e) \/ KeepaliveFill(e)
  PROVE  Safe(e)'
<1>1. UNCHANGED <<accepted, inbox, spc, burst, abandoned, flushed, wire, readVars>>
  BY ZenonT(40) DEF SenderFillPong, KeepaliveFill, writeVars, senderVars
<1>2. /\ broken' = broken
      /\ raced[e] => raced'[e]
      /\ WriterShape(e)'
      /\ Held(e)' = Held(e)
  <2>1. CASE SenderFillPong(e)
    <3> DEFINE f == PongFrame(Head(pingCh[e]).id)
    <3>1. Head(pingCh[e]) \in Frames
      <4>1. pingCh[e] \in Seq(Frames)
        BY Zenon DEF TypeOK
      <4>2. pingCh[e] # <<>>
        BY <2>1, Zenon DEF SenderFillPong
      <4>3. QED BY <4>1, <4>2
    <3>2. f \in Frames
      BY ZenonT(30), <3>1, FrameType DEF Frames
    <3>3. FillFrame(e, "sender", f) /\ spc[e] # "send"
      BY <2>1, Zenon DEF SenderFillPong
    <3>4. f.type = "PONG" /\ f.payload = <<>>
      BY Zenon DEF PongFrame
    <3> HIDE DEF f
    <3>5. /\ wframe[e]["sender"] = NoFrame
          /\ wframe'[e]["sender"] = f
          /\ wframe'[e]["keepalive"] = wframe[e]["keepalive"]
          /\ broken' = broken
          /\ raced[e] => raced'[e]
          /\ \A x \in Goroutines : overlap'[e][x] # {} => raced'[e]
      BY <3>2, <3>3, FillEffect, Zenon DEF Safe, Goroutines, OtherOf
    <3>6. Held(e)' = Held(e)
      BY <3>4, <3>5, NoFrameHolds, Zenon DEF Held
    <3>7. QED BY <1>1, <3>3, <3>4, <3>5, <3>6, Zenon DEF Safe, WriterShape, Held
  <2>2. CASE KeepaliveFill(e)
    <3> DEFINE f == PingFrame(pings[e] + 1)
    <3>1. f \in Frames
      BY FrameType DEF TypeOK
    <3>2. FillFrame(e, "keepalive", f)
      BY <2>2, Zenon DEF KeepaliveFill
    <3>3. f.type = "PING" /\ f.payload = <<>>
      BY Zenon DEF PingFrame
    <3> HIDE DEF f
    <3>4. /\ wframe'[e]["keepalive"] = f
          /\ wframe'[e]["sender"] = wframe[e]["sender"]
          /\ broken' = broken
          /\ raced[e] => raced'[e]
          /\ \A x \in Goroutines : overlap'[e][x] # {} => raced'[e]
      BY <3>1, <3>2, FillEffect, Zenon DEF Safe, Goroutines, OtherOf
    <3>5. QED BY ZenonT(30), <1>1, <3>3, <3>4 DEF Safe, WriterShape, Held
  <2>3. QED BY <2>1, <2>2, Zenon
<1>3. ASSUME ~raced'[e], ~abandoned'[e] PROVE Conserved(e)'
  <2>1. Conserved(e)
    BY ZenonT(30), <1>1, <1>2, <1>3 DEF Safe
  <2>2. QED BY ZenonT(30), <1>1, <1>2, <2>1 DEF Conserved, readVars
<1>4. QED BY <1>2, <1>3, Zenon DEF Safe

(* A goroutine that was not overlapped writes its own frame; either way it    *)
(* gives the buffer up and the other goroutine's frame is as it was.          *)
LEMMA TlsEffect ==
  ASSUME TypeOK, NEW e \in Ends, NEW g \in Goroutines, WriterShape(e),
         TlsWriteOk(e, g) \/ TlsWriteFails(e, g)
  PROVE  /\ wframe'[e][g] = NoFrame
         /\ wframe'[e][OtherOf(g)] = wframe[e][OtherOf(g)]
         /\ raced' = raced
         /\ \A x \in Goroutines : overlap'[e][x] # {} => raced[e]
         /\ TlsWriteFails(e, g) => broken'[e] /\ wire'[e] = wire[e]
         /\ TlsWriteOk(e, g) /\ ~raced[e] =>
              broken'[e] = broken[e] /\ wire'[e] = Append(wire[e], wframe[e][g])
<1>1. OtherOf(g) \in Goroutines /\ OtherOf(g) # g
  BY Zenon DEF OtherOf, Goroutines
<1>2. Leave(e, g)
  BY Zenon DEF TlsWriteOk, TlsWriteFails
<1>3. wframe'[e][g] = NoFrame /\ raced' = raced
  BY <1>2, Zenon DEF Leave, TypeOK
<1>4. wframe'[e][OtherOf(g)] = wframe[e][OtherOf(g)]
  BY <1>1, <1>2, Zenon DEF Leave, TypeOK
<1>5. \A x \in Goroutines : overlap'[e][x] # {} => raced[e]
  BY ZenonT(30), <1>2 DEF Leave, TypeOK, WriterShape
<1>6. TlsWriteFails(e, g) => broken'[e] /\ wire'[e] = wire[e]
  BY Zenon DEF TlsWriteFails, TypeOK
<1>7. ASSUME TlsWriteOk(e, g), ~raced[e]
      PROVE  broken'[e] = broken[e] /\ wire'[e] = Append(wire[e], wframe[e][g])
  <2>1. Emitted(e, g) = {wframe[e][g]}
    BY <1>7, Zenon DEF Emitted, WriterShape
  <2>2. QED BY <1>7, <2>1, SMTT(40) DEF TlsWriteOk, TypeOK
<1>8. QED BY <1>3, <1>4, <1>5, <1>6, <1>7, Zenon

-----------------------------------------------------------------------------
(* Frames that leave an end, and what Read takes.                            *)

(* A frame f that carries the bytes after position b, or none, goes on the    *)
(* wire behind the frames that carry the bytes up to b.                       *)
LEMMA WireAppend ==
  ASSUME NEW w \in Seq(Frames), NEW f \in Frames, NEW a \in Nat, NEW b \in Nat,
         Laid(Payloads(w), a, b), IsRun(f.payload, b),
         f.type # "garbled", f.type # "DATA" => f.payload = <<>>,
         \A i \in 1..Len(w) :
           w[i].type # "garbled" /\ (w[i].type # "DATA" => w[i].payload = <<>>)
  PROVE  /\ Laid(Payloads(Append(w, f)), a, b + Len(f.payload))
         /\ \A i \in 1..Len(Append(w, f)) :
              /\ Append(w, f)[i].type # "garbled"
              /\ Append(w, f)[i].type # "DATA" => Append(w, f)[i].payload = <<>>
<1>1. Payloads(w) \in Seq(Seq(Nat)) /\ f.payload \in Seq(Nat)
      /\ Payloads(Append(w, f)) = Append(Payloads(w), f.payload)
  BY PayloadsType, PayloadsAppend, Zenon
<1>2. Laid(Append(Payloads(w), f.payload), a, b + Len(f.payload))
  BY ZenonT(40), <1>1, LaidAppend
<1>3. Len(Append(w, f)) = Len(w) + 1 /\ Append(w, f)[Len(w) + 1] = f
      /\ Len(w) \in Nat /\ \A i \in 1..Len(w) : Append(w, f)[i] = w[i]
  OBVIOUS
<1>4. ASSUME NEW i \in 1..Len(Append(w, f))
      PROVE  /\ Append(w, f)[i].type # "garbled"
             /\ Append(w, f)[i].type # "DATA" => Append(w, f)[i].payload = <<>>
  <2>1. CASE i = Len(w) + 1
    BY <1>3, <2>1, Zenon
  <2>2. CASE i # Len(w) + 1
    <3>1. i \in 1..Len(w)
      BY <1>3, <2>2, SMTT(40)
    <3>2. QED BY <1>3, <3>1, Zenon
  <2>3. QED BY <2>1, <2>2, Zenon
<1>5. QED BY ZenonT(40), <1>1, <1>2, <1>4

(* fragmentAndSend: a DATA frame is out.                                    *)
LEMMA SafeSent ==
  ASSUME TypeOK, NEW e \in Ends, Safe(e), SenderSent(e)
  PROVE  Safe(e)'
<1> DEFINE p == Peer(e)
           f == wframe[e]["sender"]
<1>1. /\ f.type = "DATA" /\ f \in Frames
      /\ flushed'[e] = flushed[e] + Len(Held(e))
      /\ spc'[e] = (IF burst[e] = <<>> THEN "drain" ELSE spc[e])
      /\ UNCHANGED <<accepted, inbox, burst, abandoned, readVars>>
  BY StreamTypes, Zenon DEF SenderSent, TypeOK, writeVars, Held, Goroutines
<1>2. TlsWriteOk(e, "sender") /\ ~broken[e]
  BY ZenonT(40) DEF SenderSent, TlsWriteOk
<1>3. /\ wframe'[e]["sender"] = NoFrame
      /\ wframe'[e]["keepalive"] = wframe[e]["keepalive"]
      /\ raced' = raced
      /\ \A x \in Goroutines : overlap'[e][x] # {} => raced[e]
      /\ ~raced[e] => broken'[e] = broken[e] /\ wire'[e] = Append(wire[e], f)
  BY ZenonT(40), <1>2, TlsEffect DEF Safe, Goroutines, OtherOf
<1>4. WriterShape(e)'
  BY <1>1, <1>3, NoFrameHolds, Zenon DEF Safe, WriterShape, Held
<1>5. ASSUME ~raced'[e], ~abandoned'[e] PROVE Conserved(e)'
  <2>1. Conserved(e)
    BY ZenonT(40), <1>1, <1>3, <1>5 DEF Safe
  <2>2. Held(e)' = <<>> /\ Held(e) = f.payload
    BY <1>3, NoFrameHolds, Zenon DEF Held
  <2> DEFINE a == Len(received[p]) + Len(readBuf[p])
  <2>3. a \in Nat /\ flushed[e] \in Nat /\ wire[e] \in Seq(Frames)
    BY ZenonT(40), ReadPosType, StreamTypes
  <2> HIDE DEF f
  <2>4. /\ IsRun(f.payload, flushed[e])
        /\ IsRun(burst[e], flushed[e] + Len(f.payload))
        /\ Laid(inbox[e], flushed[e] + Len(f.payload) + Len(burst[e]), accepted[e])
        /\ Laid(Payloads(wire[e]), a, flushed[e])
        /\ \A i \in 1..Len(wire[e]) :
             wire[e][i].type # "garbled" /\ (wire[e][i].type # "DATA" => wire[e][i].payload = <<>>)
    BY ZenonT(40), <1>2, <2>1, <2>2 DEF Conserved
  <2>5. /\ Laid(Payloads(wire'[e]), a, flushed[e] + Len(f.payload))
        /\ \A i \in 1..Len(wire'[e]) :
             wire'[e][i].type # "garbled" /\ (wire'[e][i].type # "DATA" => wire'[e][i].payload = <<>>)
    <3> HIDE DEF a
    <3>1. wire'[e] = Append(wire[e], f)
      BY <1>3, <1>5, ZenonT(40)
    <3>2. QED BY ZenonT(40), <1>1, <2>3, <2>4, <3>1, WireAppend
  <2>6. flushed'[e] = flushed[e] + Len(f.payload)
    BY <1>1, <2>2, ZenonT(40)
  <2>7. /\ Len(f.payload) \in Nat /\ Len(burst[e]) \in Nat /\ accepted[e] \in Nat
        /\ inbox[e] \in Seq(Seq(Nat))
    BY <2>2, StreamTypes
  <2>8. flushed'[e] <= accepted'[e]
    <3>1. flushed[e] + Len(f.payload) + Len(burst[e]) <= accepted[e]
      BY <2>3, <2>4, <2>7, LaidOrder, SMTT(40)
    <3>2. QED BY <1>1, <2>3, <2>6, <2>7, <3>1, SMTT(40)
  <2>9. IsRun(Held(e)', flushed'[e])
    BY <2>2, RunEmpty, Zenon
  <2>10. Len(Held(e)') = 0
    BY <2>2
  <2>11. /\ IsRun(burst'[e], flushed'[e] + Len(Held(e)'))
         /\ Laid(inbox'[e], flushed'[e] + Len(Held(e)') + Len(burst'[e]), accepted'[e])
    <3>1. flushed'[e] + Len(Held(e)') = flushed[e] + Len(f.payload)
      BY <2>3, <2>6, <2>7, <2>10
    <3>2. QED BY ZenonT(40), <1>1, <2>4, <3>1
  <2>12. Laid(Payloads(wire'[e]), Len(received'[p]) + Len(readBuf'[p]), flushed'[e])
    BY ZenonT(40), <1>1, <2>5, <2>6 DEF readVars
  <2> HIDE DEF p
  <2>13. QED BY ZenonT(40), <1>1, <2>1, <2>5, <2>8, <2>9, <2>11, <2>12 DEF Conserved, readVars, p
<1>6. QED BY <1>4, <1>5, Zenon DEF Safe

(* A failed write of a DATA frame: what was not written is never written.   *)
LEMMA SafeSendFails ==
  ASSUME TypeOK, NEW e \in Ends, Safe(e), SenderSendFails(e)
  PROVE  Safe(e)'
<1>1. /\ burst'[e] = <<>>
      /\ spc'[e] = "select"
      /\ UNCHANGED <<accepted, inbox, abandoned, flushed, readVars>>
  BY Zenon DEF SenderSendFails, TypeOK
<1>2. TlsWriteFails(e, "sender")
  BY ZenonT(40) DEF SenderSendFails
<1>3. /\ wframe'[e]["sender"] = NoFrame
      /\ wframe'[e]["keepalive"] = wframe[e]["keepalive"]
      /\ raced' = raced
      /\ \A x \in Goroutines : overlap'[e][x] # {} => raced[e]
      /\ broken'[e] /\ wire'[e] = wire[e]
  BY <1>2, TlsEffect, ZenonT(40) DEF Safe, Goroutines, OtherOf
<1>4. WriterShape(e)'
  BY <1>1, <1>3, NoFrameHolds, Zenon DEF Safe, WriterShape, Held
<1>5. ASSUME ~raced'[e], ~abandoned'[e] PROVE Conserved(e)'
  <2>1. Conserved(e)
    BY <1>1, <1>3, <1>5, Zenon DEF Safe
  <2>2. QED BY ZenonT(40), <1>1, <1>3, <2>1 DEF Conserved, readVars
<1>6. QED BY <1>4, <1>5, Zenon DEF Safe

(* A PING or a PONG is out, or has failed.                                  *)
LEMMA SafeControlOut ==
  ASSUME TypeOK, NEW e \in Ends, Safe(e), NEW g \in Goroutines,
         wframe[e][g].type # "DATA",
         TlsWriteOk(e, g) \/ TlsWriteFails(e, g),
         spc'[e] = spc[e] \/ (g = "sender" /\ spc[e] = "drain" /\ spc'[e] = "think"),
         UNCHANGED <<accepted, inbox, burst, abandoned, flushed, readVars>>
  PROVE  Safe(e)'
<1> DEFINE p == Peer(e)
           f == wframe[e][g]
<1>1. f \in Frames
  BY StreamTypes, ZenonT(40)
<1>2. f.type \in {"none", "PING", "PONG"} /\ f.payload = <<>>
  <2>1. CASE g = "sender"
    BY <2>1, ZenonT(40) DEF Safe, WriterShape, Held
  <2>2. CASE g = "keepalive"
    BY <2>2, Zenon DEF Safe, WriterShape
  <2>3. QED BY <2>1, <2>2, Zenon DEF Goroutines
<1>3. /\ wframe'[e][g] = NoFrame
      /\ wframe'[e][OtherOf(g)] = wframe[e][OtherOf(g)]
      /\ raced' = raced
      /\ \A x \in Goroutines : overlap'[e][x] # {} => raced[e]
      /\ TlsWriteFails(e, g) => broken'[e] /\ wire'[e] = wire[e]
      /\ TlsWriteOk(e, g) /\ ~raced[e] =>
           broken'[e] = broken[e] /\ wire'[e] = Append(wire[e], f)
  BY TlsEffect, ZenonT(40) DEF Safe
<1>4. WriterShape(e)'
  <2>1. CASE g = "sender"
    BY <1>3, <2>1, NoFrameHolds, ZenonT(40) DEF Safe, WriterShape, Held, OtherOf
  <2>2. CASE g = "keepalive"
    BY <1>3, <2>2, NoFrameHolds, Zenon DEF Safe, WriterShape, Held, OtherOf
  <2>3. QED BY <2>1, <2>2, ZenonT(40) DEF Goroutines
<1>5. Held(e)' = Held(e)
  <2>1. CASE g = "sender"
    BY <1>2, <1>3, <2>1, NoFrameHolds, ZenonT(40) DEF Held
  <2>2. CASE g = "keepalive"
    BY <1>3, <2>2, ZenonT(40) DEF Held, OtherOf
  <2>3. QED BY <2>1, <2>2, ZenonT(40) DEF Goroutines
<1>6. ASSUME ~raced'[e], ~abandoned'[e] PROVE Conserved(e)'
  <2>1. Conserved(e)
    BY <1>3, <1>6, Zenon DEF Safe
  <2>2. CASE TlsWriteFails(e, g)
    BY ZenonT(40), <1>3, <2>1, <2>2 DEF Conserved, readVars
  <2>3. CASE TlsWriteOk(e, g)
    <3> DEFINE a == Len(received[p]) + Len(readBuf[p])
    <3>1. a \in Nat /\ flushed[e] \in Nat /\ wire[e] \in Seq(Frames)
      BY ZenonT(40), ReadPosType, StreamTypes
    <3>2. /\ Laid(Payloads(wire[e]), a, flushed[e])
          /\ \A i \in 1..Len(wire[e]) :
               wire[e][i].type # "garbled" /\ (wire[e][i].type # "DATA" => wire[e][i].payload = <<>>)
      BY ZenonT(40), <2>1 DEF Conserved
    <3>3. IsRun(f.payload, flushed[e]) /\ flushed[e] + Len(f.payload) = flushed[e]
      BY <1>2, <3>1, RunEmpty
    <3>4. wire'[e] = Append(wire[e], f) /\ broken'[e] = broken[e]
      BY <1>3, <1>6, <2>3, ZenonT(40)
    <3>5. f.type # "garbled" /\ (f.type # "DATA" => f.payload = <<>>)
      BY <1>2, Zenon
    <3> HIDE DEF a, f
    <3>6. /\ Laid(Payloads(wire'[e]), a, flushed[e])
          /\ \A i \in 1..Len(wire'[e]) :
               wire'[e][i].type # "garbled" /\ (wire'[e][i].type # "DATA" => wire'[e][i].payload = <<>>)
      BY ZenonT(40), <1>1, <3>1, <3>2, <3>3, <3>4, <3>5, WireAppend
    <3>7. QED BY ZenonT(40), <1>5, <2>1, <3>4, <3>6 DEF Conserved, readVars, a
  <2>4. QED BY <2>2, <2>3, Zenon
<1>7. QED BY <1>4, <1>6, ZenonT(40) DEF Safe

(* Read returns bytes of a slice s that follows what it has returned, up to   *)
(* the caller's n, and keeps the rest.                                        *)
LEMMA ReadSlice ==
  ASSUME NEW r \in Seq(Nat), NEW s \in Seq(Nat), NEW n \in Nat,
         IsRun(r, 0), IsRun(s, Len(r))
  PROVE  /\ IsRun(r \o Fit(s, n), 0)
         /\ IsRun(Rest(s, n), Len(r \o Fit(s, n)))
         /\ Len(r \o Fit(s, n)) + Len(Rest(s, n)) = Len(r) + Len(s)
<1>1. PICK m \in 0..Len(s) :
        /\ Fit(s, n) = SubSeq(s, 1, m)
        /\ Rest(s, n) = SubSeq(s, m + 1, Len(s))
        /\ Fit(s, n) \in Seq(Nat) /\ Rest(s, n) \in Seq(Nat)
  BY ZenonT(40), FitType
<1> DEFINE u == Fit(s, n)
           v == Rest(s, n)
<1>2. Len(r) \in Nat /\ Len(s) \in Nat
  OBVIOUS
<1>3. Len(u) = m /\ Len(v) = Len(s) - m /\ IsRun(u, Len(r)) /\ IsRun(v, Len(r) + m)
  BY <1>1, <1>2, RunSplit
<1>4. u \in Seq(Nat) /\ v \in Seq(Nat)
  BY <1>1, Zenon
<1> HIDE DEF u, v
<1>5. 0 + Len(r) = Len(r)
  BY <1>2
<1>6. IsRun(r \o u, 0) /\ Len(r \o u) = Len(r) + Len(u)
  BY ZenonT(40), <1>3, <1>4, <1>5, RunConcat
<1>7. IsRun(v, Len(r \o u)) /\ Len(r \o u) + Len(v) = Len(r) + Len(s)
  BY <1>1, <1>2, <1>3, <1>6
<1>8. QED BY <1>6, <1>7, Zenon DEF u, v

(* Read of the rest of a partly read DATA frame.                            *)
LEMMA SafeReadLeftover ==
  ASSUME TypeOK, NEW e \in Ends, Safe(Peer(e)), NEW n \in ReadSizes, ReadLeftover(e, n)
  PROVE  Safe(Peer(e))'
<1> DEFINE d == Peer(e)
           r == received[e]
           s == readBuf[e]
<1>1. d \in Ends /\ Peer(d) = e
  BY PeerType, Zenon
<1>2. /\ received'[e] = r \o Fit(s, n)
      /\ readBuf'[e] = Rest(s, n)
      /\ UNCHANGED <<writeVars, senderVars, frameVars, wire, desync>>
  BY Zenon DEF ReadLeftover, TypeOK
<1> HIDE DEF d
<1>3. WriterShape(d)'
  BY <1>2, Zenon DEF Safe, WriterShape, Held, senderVars, frameVars, d
<1>4. ASSUME ~raced'[d], ~abandoned'[d] PROVE Conserved(d)'
  <2>1. Conserved(d)
    BY <1>2, <1>4, ZenonT(40) DEF Safe, senderVars, frameVars, d
  <2>2. /\ r \in Seq(Nat) /\ s \in Seq(Nat) /\ n \in Nat
        /\ IsRun(r, 0) /\ IsRun(s, Len(r))
        /\ Laid(Payloads(wire[d]), Len(r) + Len(s), flushed[d])
    BY <1>1, <2>1, SizeAssumption, ZenonT(40) DEF Conserved, TypeOK, Bytes
  <2> HIDE DEF r, s
  <2>3. /\ IsRun(received'[e], 0)
        /\ IsRun(readBuf'[e], Len(received'[e]))
        /\ Len(received'[e]) + Len(readBuf'[e]) = Len(r) + Len(s)
    BY <1>2, <2>2, ReadSlice, ZenonT(40)
  <2>4. Held(d)' = Held(d)
    BY <1>2, Zenon DEF Held, frameVars
  <2>5. Laid(Payloads(wire'[d]), Len(received'[e]) + Len(readBuf'[e]), flushed'[d])
    BY <1>2, <2>2, <2>3, ZenonT(40) DEF senderVars
  <2>6. QED BY ZenonT(40), <1>1, <1>2, <2>1, <2>3, <2>4, <2>5
        DEF Conserved, writeVars, senderVars, frameVars
<1>5. Safe(d)'
  BY <1>3, <1>4, Zenon DEF Safe
<1>6. QED BY <1>5, Zenon DEF d

(* ReadFrame takes the first frame off the peer's wire: if the stream was     *)
(* conserved, the frame is whole, and a DATA frame continues what was read.   *)
LEMMA ReadFrameEffect ==
  ASSUME TypeOK, NEW e \in Ends, NEW d \in Ends, Peer(d) = e, Peer(e) = d,
         ReadFrame(e), Conserved(d)
  PROVE  LET s == NextFrame(e).payload
             w == wire'[d]
         IN  /\ ~desync[e] /\ readBuf[e] = <<>>
             /\ NextFrame(e).type # "garbled"
             /\ NextFrame(e).type # "DATA" => s = <<>>
             /\ s \in Seq(Nat)
             /\ IsRun(s, Len(received[e]))
             /\ Laid(Payloads(w), Len(received[e]) + Len(s), flushed[d])
             /\ \A i \in 1..Len(w) :
                  w[i].type # "garbled" /\ (w[i].type # "DATA" => w[i].payload = <<>>)
<1> DEFINE v == wire[d]
           f == Head(v)
           a == Len(received[e])
<1>1. /\ v # <<>> /\ v \in Seq(Frames) /\ wire'[d] = Tail(v)
      /\ NextFrame(e) = f /\ readBuf[e] = <<>>
      /\ flushed[d] \in Nat /\ a \in Nat
  BY ReadPosType, Zenon DEF ReadFrame, NextFrame, TypeOK
<1>2. /\ ~desync[e]
      /\ \A i \in 1..Len(v) : v[i].type # "garbled" /\ (v[i].type # "DATA" => v[i].payload = <<>>)
      /\ Laid(Payloads(v), Len(received[e]) + Len(readBuf[e]), flushed[d])
  BY ZenonT(40) DEF Conserved
<1> HIDE DEF v, a
<1>3. Laid(Payloads(v), a, flushed[d])
  <2>1. Len(readBuf[e]) = 0
    BY <1>1, Zenon
  <2>2. Len(received[e]) + Len(readBuf[e]) = a
    BY <1>1, <2>1 DEF a
  <2>3. QED BY <1>2, <2>2, ZenonT(40)
<1>4. /\ Payloads(v) \in Seq(Seq(Nat)) /\ Payloads(v) # <<>>
      /\ Head(Payloads(v)) = f.payload
      /\ Payloads(Tail(v)) = Tail(Payloads(v))
  BY <1>1, PayloadsType, PayloadsTail, Zenon
<1>5. f.payload \in Seq(Nat) /\ IsRun(f.payload, a)
      /\ Laid(Payloads(Tail(v)), a + Len(f.payload), flushed[d])
  BY ZenonT(40), <1>1, <1>3, <1>4, LaidTail
<1>6. /\ f = v[1] /\ 1 \in 1..Len(v) /\ Len(Tail(v)) = Len(v) - 1 /\ Len(v) \in Nat
      /\ \A i \in 1..(Len(v) - 1) : Tail(v)[i] = v[i + 1] /\ i + 1 \in 1..Len(v)
  BY <1>1
<1>7. f.type # "garbled" /\ (f.type # "DATA" => f.payload = <<>>)
  BY <1>2, <1>6, Zenon
<1>8. \A i \in 1..Len(Tail(v)) :
        Tail(v)[i].type # "garbled" /\ (Tail(v)[i].type # "DATA" => Tail(v)[i].payload = <<>>)
  BY <1>2, <1>6, ZenonT(40)
<1>9. QED BY ZenonT(40), <1>1, <1>2, <1>5, <1>7, <1>8 DEF a

(* Read of a frame: data is returned or kept, PINGs and PONGs are queued and  *)
(* carry no data; a conserved stream is never found garbled.                  *)
LEMMA SafeReadFrame ==
  ASSUME TypeOK, NEW e \in Ends, Safe(Peer(e)),
         \/ \E n \in ReadSizes : ReadData(e, n)
         \/ ReadPing(e) \/ ReadPong(e) \/ ReadDesynced(e)
  PROVE  Safe(Peer(e))'
<1> DEFINE d == Peer(e)
           s == NextFrame(e).payload
<1>1. d \in Ends /\ Peer(d) = e /\ Peer(e) = d
  BY PeerType, Zenon
<1>2. ReadFrame(e) /\ UNCHANGED <<writeVars, senderVars, frameVars>>
  BY ZenonT(40) DEF ReadData, ReadPing, ReadPong, ReadDesynced
<1> HIDE DEF d
<1>3. WriterShape(d)'
  BY <1>2, Zenon DEF Safe, WriterShape, Held, senderVars, frameVars, d
<1>4. ASSUME ~raced'[d], ~abandoned'[d] PROVE Conserved(d)'
  <2>1. Conserved(d)
    BY ZenonT(40), <1>2, <1>4 DEF Safe, senderVars, frameVars, d
  <2>2. /\ ~desync[e] /\ readBuf[e] = <<>>
        /\ NextFrame(e).type # "garbled"
        /\ NextFrame(e).type # "DATA" => s = <<>>
        /\ s \in Seq(Nat)
        /\ IsRun(s, Len(received[e]))
        /\ Laid(Payloads(wire'[d]), Len(received[e]) + Len(s), flushed[d])
        /\ \A i \in 1..Len(wire'[d]) :
             wire'[d][i].type # "garbled" /\ (wire'[d][i].type # "DATA" => wire'[d][i].payload = <<>>)
    BY ZenonT(40), <1>1, <1>2, <2>1, ReadFrameEffect
  <2> HIDE DEF s
  <2>3. received[e] \in Seq(Nat) /\ IsRun(received[e], 0)
    BY ZenonT(40), <1>1, <2>1 DEF Conserved, TypeOK, Bytes
  <2>4. /\ ~desync'[e]
        /\ IsRun(received'[e], 0)
        /\ IsRun(readBuf'[e], Len(received'[e]))
        /\ Len(received'[e]) + Len(readBuf'[e]) = Len(received[e]) + Len(s)
    <3>1. ASSUME NEW n \in ReadSizes, ReadData(e, n)
          PROVE  /\ ~desync'[e]
                 /\ received'[e] = received[e] \o Fit(s, n)
                 /\ readBuf'[e] = Rest(s, n)
                 /\ n \in Nat
      <4>1. /\ received' = [received EXCEPT ![e] = @ \o Fit(s, n)]
            /\ readBuf' = [readBuf EXCEPT ![e] = Rest(s, n)]
            /\ desync' = desync
        BY <3>1, Zenon DEF ReadData, s
      <4>2. n \in Nat
        BY SizeAssumption, Zenon
      <4>3. QED BY ZenonT(40), <2>2, <4>1, <4>2 DEF TypeOK
    <3>2. CASE \E n \in ReadSizes : ReadData(e, n)
      <4>1. PICK n \in ReadSizes : ReadData(e, n)
        BY <3>2, Zenon
      <4> DEFINE r == received[e]
      <4>2. /\ ~desync'[e] /\ n \in Nat
            /\ received'[e] = r \o Fit(s, n) /\ readBuf'[e] = Rest(s, n)
        BY <3>1, <4>1, ZenonT(40)
      <4>3. r \in Seq(Nat) /\ IsRun(r, 0) /\ IsRun(s, Len(r)) /\ s \in Seq(Nat)
        BY <2>2, <2>3, Zenon
      <4> HIDE DEF r
      <4>4. /\ IsRun(r \o Fit(s, n), 0)
            /\ IsRun(Rest(s, n), Len(r \o Fit(s, n)))
            /\ Len(r \o Fit(s, n)) + Len(Rest(s, n)) = Len(r) + Len(s)
        BY ZenonT(40), <4>2, <4>3, ReadSlice
      <4>5. QED BY <4>2, <4>4, Zenon DEF r
    <3>3. CASE ReadPing(e) \/ ReadPong(e)
      <4>1. UNCHANGED <<received, readBuf, desync>> /\ s = <<>>
        BY <2>2, <3>3, Zenon DEF ReadPing, ReadPong, readVars
      <4>2. QED BY ZenonT(40), <2>2, <2>3, <4>1, RunEmpty
    <3>4. CASE ReadDesynced(e)
      BY ZenonT(40), <2>2, <3>4 DEF ReadDesynced
    <3>5. QED BY ZenonT(40), <3>2, <3>3, <3>4
  <2>5. Held(d)' = Held(d)
    BY <1>2, Zenon DEF Held, frameVars
  <2>6. Laid(Payloads(wire'[d]), Len(received'[e]) + Len(readBuf'[e]), flushed'[d])
    BY ZenonT(40), <1>2, <2>2, <2>4 DEF senderVars
  <2>7. QED BY ZenonT(40), <1>1, <1>2, <2>1, <2>2, <2>4, <2>5, <2>6
        DEF Conserved, writeVars, senderVars, frameVars
<1>5. Safe(d)'
  BY <1>3, <1>4, Zenon DEF Safe
<1>6. QED BY <1>5, Zenon DEF d

-----------------------------------------------------------------------------
(* Conservation of both streams.                                           *)

(* A step of end e on its write side keeps both streams conserved, if it     *)
(* keeps its own: the stream of the peer is untouched.                        *)
LEMMA WriteSide ==
  ASSUME NEW e \in Ends, StreamConserved, Safe(e)',
         \A d \in Ends : d # e => OutState(d)' = OutState(d),
         UNCHANGED <<received, readBuf, desync>>
  PROVE  StreamConserved'
<1>1. \A d \in Ends : Safe(d)
  BY Zenon DEF StreamConserved, Safe
<1>2. ASSUME NEW d \in Ends PROVE Safe(d)'
  <2>1. CASE d = e
    BY <2>1, Zenon
  <2>2. CASE d # e
    BY <1>1, <2>2, Untouched, Zenon DEF InState
  <2>3. QED BY <2>1, <2>2, Zenon
<1>3. QED BY <1>2, Zenon DEF StreamConserved, Safe

(* A step of end e on its read side concerns the stream of its peer.          *)
LEMMA ReadSide ==
  ASSUME NEW e \in Ends, StreamConserved, Safe(Peer(e))',
         OutState(e)' = OutState(e), InState(Peer(e))' = InState(Peer(e))
  PROVE  StreamConserved'
<1>1. \A d \in Ends : Safe(d)
  BY Zenon DEF StreamConserved, Safe
<1>2. ASSUME NEW d \in Ends PROVE Safe(d)'
  <2>1. CASE d = e
    BY <1>1, <2>1, Untouched, Zenon
  <2>2. CASE d = Peer(e)
    BY <2>2, Zenon
  <2>3. QED BY <2>1, <2>2, Zenon DEF Ends, Peer
<1>3. QED BY <1>2, Zenon DEF StreamConserved, Safe

(* A step that leaves every stream alone.                                     *)
LEMMA NeitherSide ==
  ASSUME StreamConserved,
         UNCHANGED <<accepted, inbox, senderVars, frameVars, wire, received, readBuf, desync>>
  PROVE  StreamConserved'
<1>1. \A d \in Ends : Safe(d)
  BY Zenon DEF StreamConserved, Safe
<1>2. ASSUME NEW d \in Ends PROVE Safe(d)'
  BY <1>1, Untouched, Zenon DEF OutState, InState, senderVars, frameVars
<1>3. QED BY <1>2, Zenon DEF StreamConserved, Safe

(* What the steps of the shared frame writer leave alone at the other end.    *)
LEMMA FrameWriterLocal ==
  ASSUME TypeOK, NEW e \in Ends, NEW g \in Goroutines,
         \/ (\E f \in Frames : FillFrame(e, g, f)) /\ UNCHANGED wire
         \/ TlsWriteOk(e, g)
         \/ TlsWriteFails(e, g)
  PROVE  \A d \in Ends : d # e =>
           /\ wframe'[d] = wframe[d] /\ overlap'[d] = overlap[d]
           /\ raced'[d] = raced[d] /\ broken'[d] = broken[d] /\ wire'[d] = wire[d]
<1>1. CASE (\E f \in Frames : FillFrame(e, g, f)) /\ UNCHANGED wire
  BY <1>1 DEF FillFrame, TypeOK
<1>2. CASE TlsWriteOk(e, g)
  BY <1>2, ZenonT(40) DEF TlsWriteOk, Leave, TypeOK
<1>3. CASE TlsWriteFails(e, g)
  BY <1>3, Zenon DEF TlsWriteFails, Leave, TypeOK
<1>4. QED BY <1>1, <1>2, <1>3, Zenon

(* In the initial state nothing is anywhere.                                  *)
LEMMA ConservedInit == Init => StreamConserved
<1> SUFFICES ASSUME Init, NEW e \in Ends PROVE WriterShape(e) /\ Conserved(e)
  BY Zenon DEF StreamConserved
<1> DEFINE p == Peer(e)
<1>1. p \in Ends
  BY PeerType, Zenon
<1> HIDE DEF p
<1>2. /\ wframe[e]["sender"] = NoFrame /\ wframe[e]["keepalive"] = NoFrame
      /\ \A g \in Goroutines : overlap[e][g] = {}
  BY Zenon DEF Init, Goroutines
<1>3. /\ accepted[e] = 0 /\ flushed[e] = 0 /\ inbox[e] = <<>> /\ burst[e] = <<>>
      /\ wire[e] = <<>> /\ received[p] = <<>> /\ readBuf[p] = <<>> /\ ~desync[p]
  BY <1>1, Zenon DEF Init
<1>4. WriterShape(e)
  BY <1>2, <1>3, NoFrameHolds, Zenon DEF WriterShape, Held
<1>5. Held(e) = <<>>
  BY <1>2, NoFrameHolds, Zenon DEF Held
<1>6. Payloads(<<>>) = <<>>
  BY DEF Payloads
<1>7. Len(<<>>) = 0
  OBVIOUS
<1>8. Laid(<<>>, 0, 0)
  BY LaidEmpty, Zenon
<1>9. Conserved(e)
  BY <1>3, <1>5, <1>6, <1>7, <1>8, RunEmpty DEF Conserved, p
<1>10. QED BY <1>4, <1>9, Zenon

(* Every step keeps the streams conserved: one case per action.               *)
LEMMA ConservedStep == TypeOK /\ StreamConserved /\ [Next]_vars => StreamConserved'
<1> SUFFICES ASSUME TypeOK, StreamConserved, [Next]_vars PROVE StreamConserved'
  OBVIOUS
<1>0. \A d \in Ends : Safe(d)
  BY Zenon DEF StreamConserved, Safe
<1> USE DEF writeVars, senderVars, keepVars, frameVars, readVars, chanVars
<1>1. CASE UNCHANGED vars
  BY <1>1, NeitherSide, Zenon DEF vars
<1>2. CASE NetFails
  BY <1>2, NeitherSide, Zenon DEF NetFails
<1>3. ASSUME NEW e \in Ends, WriteNext(e) PROVE StreamConserved'
  <2>1. CASE \E n \in WriteSizes : WriteBegin(e, n)
    BY <2>1, NeitherSide, Zenon DEF WriteBegin
  <2>2. CASE WriteAccept(e)
    <3>1. Safe(e)'
      BY <1>0, <2>2, SafeWriteAccept, Zenon
    <3>2. /\ UNCHANGED <<received, readBuf, desync>>
          /\ \A d \in Ends : d # e => OutState(d)' = OutState(d)
      BY <2>2, Zenon DEF WriteAccept, OutState, TypeOK
    <3>3. QED BY <3>1, <3>2, WriteSide, Zenon
  <2>3. CASE WriteClosed(e)
    BY <2>3, NeitherSide, Zenon DEF WriteClosed
  <2>4. QED BY <1>3, <2>1, <2>2, <2>3, Zenon DEF WriteNext
<1>4. ASSUME NEW e \in Ends, SenderNext(e) PROVE StreamConserved'
  <2> "sender" \in Goroutines
    BY Zenon DEF Goroutines
  <2>1. CASE SenderTakeItem(e) \/ SenderCollect(e)
    <3>1. Safe(e)'
      BY <1>0, <2>1, SafeTake, Zenon
    <3>2. /\ UNCHANGED <<received, readBuf, desync>>
          /\ \A d \in Ends : d # e => OutState(d)' = OutState(d)
      BY ZenonT(40), <2>1 DEF SenderTakeItem, SenderCollect, OutState, TypeOK
    <3>3. QED BY <3>1, <3>2, WriteSide, Zenon
  <2>2. CASE SenderBurst(e) \/ SenderTimer(e) \/ SenderPong(e)
    <3>1. Safe(e)'
      BY <1>0, <2>2, SafePhase, Zenon
    <3>2. /\ UNCHANGED <<received, readBuf, desync>>
          /\ \A d \in Ends : d # e => OutState(d)' = OutState(d)
      BY ZenonT(40), <2>2 DEF SenderBurst, SenderTimer, SenderPong, OutState, TypeOK
    <3>3. QED BY <3>1, <3>2, WriteSide, Zenon
  <2>3. CASE SenderDone(e)
    <3>1. Safe(e)'
      BY <1>0, <2>3, SafeDone, Zenon
    <3>2. /\ UNCHANGED <<received, readBuf, desync>>
          /\ \A d \in Ends : d # e => OutState(d)' = OutState(d)
      BY <2>3, ZenonT(40) DEF SenderDone, OutState, TypeOK
    <3>3. QED BY <3>1, <3>2, WriteSide, Zenon
  <2>4. ASSUME NEW size \in ApparentSizes, SenderFill(e, size) PROVE StreamConserved'
    <3>1. Safe(e)'
      BY <1>0, <2>4, SafeFill, Zenon
    <3>2. PICK f : f = DataFrame(SubSeq(burst[e], 1, PayloadLen(e, size)))
      OBVIOUS
    <3>3. f \in Frames
      <4> DEFINE b == burst[e]
                 n == PayloadLen(e, size)
      <4>1. b \in Seq(Nat) /\ n \in 0..Len(b)
        BY PayloadLenType, StreamTypes, Zenon
      <4> HIDE DEF b, n
      <4>2. SubSeq(b, 1, n) \in Seq(Nat)
        BY <4>1, SMTT(40)
      <4>3. QED BY ZenonT(40), <3>2, <4>2, FrameType DEF b, n
    <3>4. FillFrame(e, "sender", f) /\ UNCHANGED wire
      BY <2>4, <3>2, Zenon DEF SenderFill
    <3>5. \A d \in Ends : d # e => burst'[d] = burst[d]
      BY <2>4, Zenon DEF SenderFill, TypeOK
    <3>6. UNCHANGED <<accepted, inbox, spc, abandoned, flushed, received, readBuf, desync>>
      BY <2>4, Zenon DEF SenderFill
    <3>7. \A d \in Ends : d # e => OutState(d)' = OutState(d)
      BY ZenonT(40), <3>3, <3>4, <3>5, <3>6, FrameWriterLocal DEF OutState
    <3>8. QED BY <3>1, <3>6, <3>7, WriteSide, Zenon
  <2>5. CASE SenderFillPong(e)
    <3>1. Safe(e)'
      BY <1>0, <2>5, SafeFillControl, ZenonT(40)
    <3>2. Head(pingCh[e]) \in Frames
      BY <2>5, SMTT(40) DEF SenderFillPong, TypeOK
    <3>3. PongFrame(Head(pingCh[e]).id) \in Frames
      BY ZenonT(40), <3>2, FrameType DEF Frames
    <3>4. UNCHANGED <<accepted, inbox, spc, burst, abandoned, flushed, received, readBuf, desync>>
      BY <2>5, Zenon DEF SenderFillPong
    <3>5. \A d \in Ends : d # e => OutState(d)' = OutState(d)
      BY <2>5, <3>3, <3>4, FrameWriterLocal, Zenon DEF SenderFillPong, OutState
    <3>6. QED BY <3>1, <3>4, <3>5, WriteSide, Zenon
  <2>6. CASE SenderSent(e)
    <3>1. Safe(e)'
      BY <1>0, <2>6, SafeSent, Zenon
    <3>2. UNCHANGED <<accepted, inbox, burst, abandoned, received, readBuf, desync>>
      BY <2>6, Zenon DEF SenderSent
    <3>3. \A d \in Ends : d # e => spc'[d] = spc[d] /\ flushed'[d] = flushed[d]
      BY <2>6, Zenon DEF SenderSent, TypeOK
    <3>4. TlsWriteOk(e, "sender")
      BY ZenonT(40), <2>6 DEF SenderSent
    <3>5. \A d \in Ends : d # e => OutState(d)' = OutState(d)
      BY <3>2, <3>3, <3>4, FrameWriterLocal, Zenon DEF OutState
    <3>6. QED BY <3>1, <3>2, <3>5, WriteSide, Zenon
  <2>7. CASE SenderSendFails(e)
    <3>1. Safe(e)'
      BY <1>0, <2>7, SafeSendFails, Zenon
    <3>2. UNCHANGED <<accepted, inbox, abandoned, flushed, received, readBuf, desync>>
      BY <2>7, Zenon DEF SenderSendFails
    <3>3. \A d \in Ends : d # e => spc'[d] = spc[d] /\ burst'[d] = burst[d]
      BY <2>7, Zenon DEF SenderSendFails, TypeOK
    <3>4. TlsWriteFails(e, "sender")
      BY <2>7, Zenon DEF SenderSendFails
    <3>5. \A d \in Ends : d # e => OutState(d)' = OutState(d)
      BY <3>2, <3>3, <3>4, FrameWriterLocal, Zenon DEF OutState
    <3>6. QED BY <3>1, <3>2, <3>5, WriteSide, Zenon
  <2>8. CASE SenderPonged(e)
    <3>1. /\ UNCHANGED <<accepted, inbox, burst, abandoned, flushed, received, readBuf, desync, readErr>>
          /\ TlsWriteOk(e, "sender") \/ TlsWriteFails(e, "sender")
          /\ wframe[e]["sender"].type # "DATA"
          /\ spc' = [spc EXCEPT ![e] = IF @ = "drain" THEN "think" ELSE @]
      BY ZenonT(40), <2>8 DEF SenderPonged
    <3>2. /\ spc'[e] = spc[e] \/ (spc[e] = "drain" /\ spc'[e] = "think")
          /\ \A d \in Ends : d # e => spc'[d] = spc[d]
      BY <3>1, Zenon DEF TypeOK
    <3>3. Safe(e)'
      BY <1>0, <3>1, <3>2, SafeControlOut, Zenon
    <3>4. \A d \in Ends : d # e => OutState(d)' = OutState(d)
      BY ZenonT(40), <3>1, <3>2, FrameWriterLocal DEF OutState
    <3>5. QED BY <3>1, <3>3, <3>4, WriteSide, Zenon
  <2>9. QED BY <1>4, <2>1, <2>2, <2>3, <2>4, <2>5, <2>6, <2>7, <2>8, Zenon DEF SenderNext
<1>5. ASSUME NEW e \in Ends, KeepaliveNext(e) PROVE StreamConserved'
  <2> "keepalive" \in Goroutines
    BY Zenon DEF Goroutines
  <2>1. CASE KeepaliveFires(e) \/ KeepaliveDone(e)
    BY ZenonT(40), <2>1, NeitherSide DEF KeepaliveFires, KeepaliveDone
  <2>2. CASE KeepaliveFill(e)
    <3>1. Safe(e)'
      BY <1>0, <2>2, SafeFillControl, Zenon
    <3>2. PingFrame(pings[e] + 1) \in Frames
      BY FrameType DEF TypeOK
    <3>3. UNCHANGED <<accepted, inbox, spc, burst, abandoned, flushed, received, readBuf, desync>>
      BY ZenonT(40), <2>2 DEF KeepaliveFill
    <3>4. \A d \in Ends : d # e => OutState(d)' = OutState(d)
      BY ZenonT(40), <2>2, <3>2, <3>3, FrameWriterLocal DEF KeepaliveFill, OutState
    <3>5. QED BY <3>1, <3>3, <3>4, WriteSide, Zenon
  <2>3. CASE KeepaliveSent(e) \/ KeepaliveFails(e)
    <3>1. /\ UNCHANGED <<accepted, inbox, spc, burst, abandoned, flushed, received, readBuf, desync, readErr>>
          /\ TlsWriteOk(e, "keepalive") \/ TlsWriteFails(e, "keepalive")
      BY <2>3, Zenon DEF KeepaliveSent, KeepaliveFails
    <3>2. wframe[e]["keepalive"].type # "DATA"
      BY <1>0, Zenon DEF Safe, WriterShape
    <3>3. Safe(e)'
      BY ZenonT(40), <1>0, <3>1, <3>2, SafeControlOut
    <3>4. \A d \in Ends : d # e => OutState(d)' = OutState(d)
      BY ZenonT(40), <3>1, FrameWriterLocal DEF OutState
    <3>5. QED BY <3>1, <3>3, <3>4, WriteSide, Zenon
  <2>4. QED BY <1>5, <2>1, <2>2, <2>3, Zenon DEF KeepaliveNext
<1>6. ASSUME NEW e \in Ends, ReadNext(e) PROVE StreamConserved'
  <2> DEFINE d == Peer(e)
  <2>1. d \in Ends /\ d # e
    BY PeerType, Zenon
  <2>2. Safe(d)
    BY <1>0, <2>1, Zenon
  <2>3. CASE \E n \in ReadSizes : ReadLeftover(e, n)
    <3>1. Safe(d)'
      BY <2>2, <2>3, SafeReadLeftover, Zenon
    <3> HIDE DEF d
    <3>2. OutState(e)' = OutState(e)
      BY <2>3, Zenon DEF ReadLeftover, OutState
    <3>3. InState(d)' = InState(d)
      BY <2>1, <2>3 DEF ReadLeftover, InState, TypeOK
    <3>4. QED BY <3>1, <3>2, <3>3, ReadSide, Zenon DEF d
  <2>4. CASE (\E n \in ReadSizes : ReadData(e, n)) \/ ReadPing(e) \/ ReadPong(e) \/ ReadDesynced(e)
    <3>1. Safe(d)'
      BY <2>2, <2>4, SafeReadFrame, Zenon
    <3>2. UNCHANGED <<writeVars, senderVars, frameVars>> /\ wire' = [wire EXCEPT ![d] = Tail(@)]
      BY ZenonT(40), <2>4 DEF ReadData, ReadPing, ReadPong, ReadDesynced, ReadFrame
    <3> HIDE DEF d
    <3>3. OutState(e)' = OutState(e)
      BY <2>1, <3>2, Zenon DEF OutState, TypeOK
    <3>4. received'[d] = received[d] /\ readBuf'[d] = readBuf[d] /\ desync'[d] = desync[d]
      <4>1. CASE \E n \in ReadSizes : ReadData(e, n)
        <5>1. PICK x, y : /\ received' = [received EXCEPT ![e] = x]
                          /\ readBuf' = [readBuf EXCEPT ![e] = y]
                          /\ desync' = desync
          BY ZenonT(40), <4>1 DEF ReadData
        <5>2. QED BY <2>1, <5>1, Zenon DEF TypeOK
      <4>2. CASE ReadPing(e) \/ ReadPong(e)
        BY <4>2, Zenon DEF ReadPing, ReadPong
      <4>3. CASE ReadDesynced(e)
        <5>1. /\ received' = received \/ received' = [received EXCEPT ![e] = Append(@, 0)]
              /\ readBuf' = readBuf
              /\ desync' = [desync EXCEPT ![e] = TRUE]
          BY <4>3, Zenon DEF ReadDesynced
        <5>2. QED BY ZenonT(40), <2>1, <5>1 DEF TypeOK
      <4>4. QED BY ZenonT(40), <2>4, <4>1, <4>2, <4>3
    <3>5. QED BY ZenonT(40), <3>1, <3>3, <3>4, ReadSide DEF d, InState
  <2>5. CASE ReadFails(e)
    BY <2>5, NeitherSide, Zenon DEF ReadFails
  <2>6. QED BY <1>6, <2>3, <2>4, <2>5, Zenon DEF ReadNext
<1>7. ASSUME NEW e \in Ends, CloseCancel(e) \/ CloseProceeds(e) PROVE StreamConserved'
  BY <1>7, NeitherSide, Zenon DEF CloseCancel, CloseProceeds, CloseConn, CloseReturns
<1>8. QED BY <1>1, <1>2, <1>3, <1>4, <1>5, <1>6, <1>7, Zenon DEF Next

-----------------------------------------------------------------------------
(* The theorems.                                                              *)

(* Every byte that Write accepted is in exactly one place between Write and   *)
(* the peer's Read, in stream order, whatever the interleaving of the two     *)
(* ends' goroutines, the capacities, the burst limit and the frame sizes.     *)
THEOREM Conservation == Spec => []StreamConserved
<1>1. Init => TypeOK /\ StreamConserved
  BY TypeInit, ConservedInit, Zenon
<1>2. (TypeOK /\ StreamConserved) /\ [Next]_vars => (TypeOK /\ StreamConserved)'
  BY TypeStep, ConservedStep, Zenon
<1>3. QED BY <1>1, <1>2, PTL DEF Spec

(* What conservation says of the bytes that Read returned.                    *)
LEMMA ConservedInOrder ==
  ASSUME TypeOK, NEW e \in Ends, Conserved(e)
  PROVE  InOrder(e)
<1> DEFINE r == received[Peer(e)]
           a == Len(r) + Len(readBuf[Peer(e)])
<1>1. IsRun(r, 0) /\ r \in Seq(Nat)
  BY ZenonT(40), StreamTypes DEF Conserved
<1>2. a \in Nat /\ Len(r) \in Nat /\ Len(r) <= a
  <2> DEFINE x == Len(r)
             y == Len(readBuf[Peer(e)])
  <2>1. x \in Nat /\ y \in Nat
    BY ReadPosType, Zenon
  <2> HIDE DEF x, y
  <2>2. x + y \in Nat /\ x <= x + y
    BY <2>1
  <2>3. QED BY ZenonT(40), <2>1, <2>2 DEF x, y
<1>3. Laid(Payloads(wire[e]), a, flushed[e]) /\ flushed[e] <= accepted[e]
  BY ZenonT(40) DEF Conserved
<1>4. Payloads(wire[e]) \in Seq(Seq(Nat)) /\ flushed[e] \in Nat /\ accepted[e] \in Nat
  BY ZenonT(40), StreamTypes, PayloadsType
<1> HIDE DEF a
<1>5. a <= flushed[e]
  BY ZenonT(40), <1>2, <1>3, <1>4, LaidOrder
<1>6. \A w, x, y, z \in Nat : w <= x /\ x <= y /\ y <= z => w <= z
  OBVIOUS
<1>7. Len(r) <= accepted[e]
  BY Zenon, <1>2, <1>3, <1>4, <1>5, <1>6
<1> HIDE DEF r
<1>8. \A i \in 1..Len(r) : r[i] = i
  BY <1>1 DEF IsRun
<1>9. QED BY <1>7, <1>8, Zenon DEF InOrder, r

(* Read never returns a byte out of order, twice or with a gap before it,     *)
(* unless two WriteFrame calls overlapped or Close dropped a collected burst.  *)
THEOREM OrderedDelivery == Spec => []DeliveredInOrder
<1>1. TypeOK /\ StreamConserved => DeliveredInOrder
  BY ConservedInOrder, Zenon DEF StreamConserved, DeliveredInOrder
<1>2. QED BY <1>1, TypeCorrect, Conservation, PTL

(* When the sender rests and nothing is on the way, all that was accepted has *)
(* been read.                                                                 *)
LEMMA ConservedQuiet ==
  ASSUME TypeOK, NEW e \in Ends, WriterShape(e), Conserved(e), AtRest(e), ~broken[e]
  PROVE  Len(received[Peer(e)]) = accepted[e]
<1> DEFINE p == Peer(e)
<1>1. Held(e) = <<>> /\ burst[e] = <<>> /\ inbox[e] = <<>> /\ wire[e] = <<>>
      /\ readBuf[p] = <<>>
  BY ZenonT(40), NoFrameHolds DEF WriterShape, AtRest, SenderFree, Held
<1>2. /\ Laid(Payloads(wire[e]), Len(received[p]) + Len(readBuf[p]), flushed[e])
      /\ Laid(inbox[e], flushed[e] + Len(Held(e)) + Len(burst[e]), accepted[e])
  BY ZenonT(40) DEF Conserved
<1>3. Len(received[p]) \in Nat /\ flushed[e] \in Nat /\ accepted[e] \in Nat
  BY ZenonT(40), ReadPosType, StreamTypes
<1> HIDE DEF p
<1>4. Payloads(<<>>) = <<>> /\ Len(<<>>) = 0
  BY DEF Payloads
<1>5. Laid(<<>>, Len(received[p]), flushed[e]) /\ Laid(<<>>, flushed[e], accepted[e])
  <2>1. /\ Len(received[p]) + Len(readBuf[p]) = Len(received[p])
        /\ flushed[e] + Len(Held(e)) + Len(burst[e]) = flushed[e]
    BY SMTT(40), <1>1, <1>3, <1>4
  <2>2. QED BY <1>1, <1>2, <1>4, <2>1, ZenonT(40)
<1>6. Len(received[p]) = flushed[e] /\ flushed[e] = accepted[e]
  BY <1>3, <1>5, LaidEmpty, ZenonT(40)
<1>7. QED BY <1>6, Zenon DEF p

(* No byte is stranded between two phases of runBurstCycle: with empty        *)
(* queues and a sender at rest, the peer has read all that Write accepted.    *)
THEOREM QuietDelivery == Spec => []QuietMeansDelivered
<1>1. TypeOK /\ StreamConserved => QuietMeansDelivered
  BY ConservedQuiet, Zenon DEF StreamConserved, QuietMeansDelivered
<1>2. QED BY <1>1, TypeCorrect, Conservation, PTL

-----------------------------------------------------------------------------
(* An open end is served.                                                   *)

(* A sender has ended, or dropped a burst, only after ctx was cancelled; a   *)
(* Read has failed only for one of the three reasons it has.                 *)
ReadCause(e) == netDown \/ connClosed(e) \/ connClosed(Peer(e)) \/ desync[e]
ServedInv ==
  \A e \in Ends :
    /\ spc[e] = "exited" \/ abandoned[e] => ctxDone(e)
    /\ readErr[e] => ReadCause(e)

(* What has happened to a connection stays: Close goes only forward, a path  *)
(* that failed and a lost frame boundary are not repaired.                   *)
LEMMA CauseStays ==
  ASSUME TypeOK, [Next]_vars, NEW d \in Ends
  PROVE  /\ ctxDone(d) => ctxDone(d)'
         /\ connClosed(d) => connClosed(d)'
         /\ netDown => netDown'
         /\ desync[d] => desync'[d]
<1> USE DEF writeVars, senderVars, keepVars, frameVars, readVars, chanVars
<1>0. closing \in [Ends -> {"open", "cancelled", "connClosed", "closed"}] /\ desync \in [Ends -> BOOLEAN]
  BY Zenon DEF TypeOK
<1>1. CASE UNCHANGED <<closing, netDown, desync>>
  BY <1>1, Zenon DEF ctxDone, connClosed
<1>2. ASSUME NEW e \in Ends, SenderNext(e)
      PROVE  UNCHANGED <<closing, netDown, desync>>
  BY ZenonT(40), <1>2 DEF SenderNext, SenderTakeItem, SenderBurst, SenderCollect, SenderTimer,
     SenderDone,
     SenderFill, SenderFillPong, SenderSent, SenderSendFails, SenderPonged, SenderPong
<1>3. ASSUME NEW e \in Ends, WriteNext(e) \/ KeepaliveNext(e)
      PROVE  UNCHANGED <<closing, netDown, desync>>
  BY ZenonT(40), <1>3 DEF WriteNext, WriteBegin, WriteAccept, WriteClosed, KeepaliveNext,
     KeepaliveFires, KeepaliveFill, KeepaliveSent, KeepaliveFails, KeepaliveDone
<1>4. ASSUME NEW e \in Ends, ReadNext(e)
      PROVE  /\ UNCHANGED <<closing, netDown>>
             /\ desync' = desync \/ desync' = [desync EXCEPT ![e] = TRUE]
  BY ZenonT(40), <1>4 DEF ReadNext, ReadLeftover, ReadData, ReadPing, ReadPong, ReadDesynced,
     ReadFails
<1>5. ASSUME NEW e \in Ends, CloseCancel(e) \/ CloseProceeds(e)
      PROVE  /\ UNCHANGED <<netDown, desync>>
             /\ \/ closing[e] = "open" /\ closing' = [closing EXCEPT ![e] = "cancelled"]
                \/ closing' = [closing EXCEPT ![e] = "connClosed"]
                \/ closing' = [closing EXCEPT ![e] = "closed"]
  BY ZenonT(40), <1>5 DEF CloseCancel, CloseProceeds, CloseConn, CloseReturns
<1>6. CASE NetFails
  BY <1>6, Zenon DEF NetFails, ctxDone, connClosed
<1>7. CASE UNCHANGED vars
  BY <1>1, <1>7, Zenon DEF vars
<1>8. ASSUME NEW e \in Ends, ReadNext(e)
      PROVE  desync[d] => desync'[d]
  BY <1>0, <1>4, <1>8, Zenon
<1>9. ASSUME NEW e \in Ends, CloseCancel(e) \/ CloseProceeds(e)
      PROVE  (ctxDone(d) => ctxDone(d)') /\ (connClosed(d) => connClosed(d)')
  BY <1>0, <1>5, <1>9, ZenonT(30) DEF ctxDone, connClosed
<1>10. ASSUME NEW e \in Ends, ReadNext(e)
       PROVE  (ctxDone(d) => ctxDone(d)') /\ (connClosed(d) => connClosed(d)') /\ netDown' = netDown
  BY <1>4, <1>10, Zenon DEF ctxDone, connClosed
<1>11. QED BY <1>1, <1>2, <1>3, <1>5, <1>6, <1>7, <1>8, <1>9, <1>10, ZenonT(30) DEF Next

(* The sender goroutine ends, and drops a burst, only when ctx is done.       *)
LEMMA SenderLeaves ==
  ASSUME TypeOK, [Next]_vars, NEW d \in Ends
  PROVE  /\ spc'[d] = "exited" => spc[d] = "exited" \/ ctxDone(d)
         /\ abandoned'[d] => abandoned[d] \/ ctxDone(d)
<1> USE DEF writeVars, senderVars, keepVars, frameVars, readVars, chanVars
<1>0. /\ spc \in [Ends -> {"select", "begin", "collect", "send", "drain", "think", "exited"}]
      /\ abandoned \in [Ends -> BOOLEAN]
  BY Zenon DEF TypeOK
<1>1. CASE UNCHANGED <<spc, abandoned>>
  BY <1>1, Zenon
<1>2. ASSUME NEW e \in Ends, SenderDone(e)
      PROVE  /\ spc'[d] = "exited" => spc[d] = "exited" \/ ctxDone(d)
             /\ abandoned'[d] => abandoned[d] \/ ctxDone(d)
  <2>1. /\ ctxDone(e)
        /\ \A x \in Ends : x # e => spc'[x] = spc[x] /\ abandoned'[x] = abandoned[x]
    BY <1>0, <1>2, Zenon DEF SenderDone
  <2>2. QED BY <2>1, Zenon
<1>3. ASSUME NEW e \in Ends, SenderNext(e), ~SenderDone(e)
      PROVE  /\ spc'[d] = "exited" => spc[d] = "exited"
             /\ abandoned' = abandoned
  <2>1. abandoned' = abandoned
    BY ZenonT(40), <1>3 DEF SenderNext, SenderTakeItem, SenderBurst, SenderCollect, SenderTimer,
       SenderFill, SenderFillPong, SenderSent, SenderSendFails, SenderPonged, SenderPong
  <2>2. PICK t \in {"select", "begin", "collect", "send", "drain", "think"} :
          spc' = spc \/ spc' = [spc EXCEPT ![e] = t]
    <3>1. CASE SenderTakeItem(e) \/ SenderBurst(e) \/ SenderCollect(e) \/ SenderTimer(e)
      BY ZenonT(30), <3>1 DEF SenderTakeItem, SenderBurst, SenderCollect, SenderTimer
    <3>2. CASE (\E size \in ApparentSizes : SenderFill(e, size)) \/ SenderFillPong(e)
      BY ZenonT(30), <3>2 DEF SenderFill, SenderFillPong
    <3>3. CASE SenderSent(e)
      <4>1. \/ spc' = [spc EXCEPT ![e] = "drain"]
            \/ spc' = [spc EXCEPT ![e] = @]
        BY ZenonT(30), <3>3 DEF SenderSent
      <4>2. QED BY <1>0, <4>1, Zenon
    <3>4. CASE SenderSendFails(e) \/ SenderPong(e)
      BY ZenonT(30), <3>4 DEF SenderSendFails, SenderPong
    <3>5. CASE SenderPonged(e)
      <4>1. spc' = [spc EXCEPT ![e] = "think"] \/ spc' = [spc EXCEPT ![e] = @]
        BY ZenonT(30), <3>5 DEF SenderPonged
      <4>2. QED BY <1>0, <4>1, Zenon
    <3>6. QED BY <1>3, <3>1, <3>2, <3>3, <3>4, <3>5, Zenon DEF SenderNext
  <2>3. QED BY <1>0, <2>1, <2>2, Zenon
<1>4. ASSUME NEW e \in Ends, WriteNext(e) \/ KeepaliveNext(e)
      PROVE  UNCHANGED <<spc, abandoned>>
  BY ZenonT(40), <1>4 DEF WriteNext, WriteBegin, WriteAccept, WriteClosed, KeepaliveNext,
     KeepaliveFires, KeepaliveFill, KeepaliveSent, KeepaliveFails, KeepaliveDone
<1>5. ASSUME NEW e \in Ends, ReadNext(e) \/ CloseCancel(e) \/ CloseProceeds(e)
      PROVE  UNCHANGED <<spc, abandoned>>
  BY ZenonT(40), <1>5 DEF ReadNext, ReadLeftover, ReadData, ReadPing, ReadPong, ReadDesynced,
     ReadFails, CloseCancel, CloseProceeds, CloseConn, CloseReturns
<1>6. CASE NetFails \/ UNCHANGED vars
  BY <1>1, <1>6, Zenon DEF NetFails, vars
<1>7. QED BY <1>1, <1>2, <1>3, <1>4, <1>5, <1>6, ZenonT(30) DEF Next

(* Read returns an error only at a lost frame boundary or a closed or broken  *)
(* connection.                                                                *)
LEMMA ReadStops ==
  ASSUME TypeOK, [Next]_vars, NEW d \in Ends, readErr'[d], ~readErr[d]
  PROVE  desync'[d] \/ ReadCause(d)
<1> USE DEF writeVars, senderVars, keepVars, frameVars, readVars, chanVars
<1>0. readErr \in [Ends -> BOOLEAN] /\ desync \in [Ends -> BOOLEAN]
  BY Zenon DEF TypeOK
<1>1. CASE readErr' = readErr
  BY <1>1, Zenon
<1>2. ASSUME NEW e \in Ends, ReadDesynced(e) PROVE desync'[d]
  <2>1. readErr' = readErr \/ readErr' = [readErr EXCEPT ![e] = TRUE]
    BY <1>2, Zenon DEF ReadDesynced
  <2>2. d = e
    BY <1>0, <2>1, Zenon
  <2>3. QED BY <1>0, <1>2, <2>2, Zenon DEF ReadDesynced
<1>3. ASSUME NEW e \in Ends, ReadFails(e) PROVE ReadCause(d)
  <2>1. d = e
    BY <1>0, <1>3, Zenon DEF ReadFails
  <2>2. QED BY <1>3, <2>1, Zenon DEF ReadFails, ReadCause
<1>4. ASSUME NEW e \in Ends, ReadNext(e), ~ReadDesynced(e), ~ReadFails(e)
      PROVE  readErr' = readErr
  BY ZenonT(40), <1>4 DEF ReadNext, ReadLeftover, ReadData, ReadPing, ReadPong
<1>5. ASSUME NEW e \in Ends, SenderNext(e)
      PROVE  readErr' = readErr
  BY ZenonT(40), <1>5 DEF SenderNext, SenderTakeItem, SenderBurst, SenderCollect, SenderTimer,
     SenderDone,
     SenderFill, SenderFillPong, SenderSent, SenderSendFails, SenderPonged, SenderPong
<1>6. ASSUME NEW e \in Ends, WriteNext(e) \/ KeepaliveNext(e)
      PROVE  readErr' = readErr
  BY ZenonT(40), <1>6 DEF WriteNext, WriteBegin, WriteAccept, WriteClosed, KeepaliveNext,
     KeepaliveFires, KeepaliveFill, KeepaliveSent, KeepaliveFails, KeepaliveDone
<1>7. ASSUME NEW e \in Ends, CloseCancel(e) \/ CloseProceeds(e)
      PROVE  readErr' = readErr
  BY Zenon, <1>7 DEF CloseCancel, CloseProceeds, CloseConn, CloseReturns
<1>8. CASE NetFails \/ UNCHANGED vars
  BY <1>1, <1>8, Zenon DEF NetFails, vars
<1>9. QED BY <1>1, <1>2, <1>3, <1>4, <1>5, <1>6, <1>7, <1>8, ZenonT(30) DEF Next

(* Every step keeps the invariant.                                            *)
LEMMA ServedStep == TypeOK /\ ServedInv /\ [Next]_vars => ServedInv'
<1> SUFFICES ASSUME TypeOK, ServedInv, [Next]_vars, NEW d \in Ends
             PROVE  /\ spc'[d] = "exited" \/ abandoned'[d] => ctxDone(d)'
                    /\ readErr'[d] => ReadCause(d)'
  BY Zenon DEF ServedInv
<1>1. spc'[d] = "exited" \/ abandoned'[d] => ctxDone(d)'
  BY CauseStays, SenderLeaves, Zenon DEF ServedInv
<1>2. ReadCause(d) \/ desync'[d] => ReadCause(d)'
  <2>1. Peer(d) \in Ends
    BY PeerType, Zenon
  <2>2. QED BY <2>1, CauseStays, Zenon DEF ReadCause
<1>3. readErr[d] => ReadCause(d)
  BY Zenon DEF ServedInv
<1>4. QED BY <1>1, <1>2, <1>3, ReadStops, Zenon

(* Whatever fails, an end that is not being closed keeps its sender, and the   *)
(* reader at the other end stops only when the writes of this end fail too:    *)
(* no Write waits for ever for somebody who is gone.                           *)
THEOREM Served == Spec => []OpenMeansServed
<1>1. Init => ServedInv
  BY Zenon DEF Init, ServedInv
<1>2. TypeOK /\ ServedInv /\ [Next]_vars => ServedInv'
  BY ServedStep, Zenon
<1>3. StreamConserved /\ ServedInv => OpenMeansServed
  <2> SUFFICES ASSUME StreamConserved, ServedInv, NEW e \in Ends, ~ctxDone(e)
               PROVE  /\ spc[e] # "exited"
                      /\ readErr[Peer(e)] => raced[e] \/ netDown \/ connClosed(Peer(e))
    BY Zenon DEF OpenMeansServed
  <2>1. Peer(e) \in Ends /\ Peer(Peer(e)) = e
    BY PeerType, Zenon
  <2>2. spc[e] # "exited" /\ ~abandoned[e]
    BY Zenon DEF ServedInv
  <2>3. desync[Peer(e)] => raced[e]
    BY <2>2, Zenon DEF StreamConserved, Conserved
  <2>4. ~connClosed(e)
    BY Zenon DEF ctxDone, connClosed
  <2>5. QED BY <2>1, <2>2, <2>3, <2>4, Zenon DEF ServedInv, ReadCause
<1>4. QED BY <1>1, <1>2, <1>3, TypeCorrect, Conservation, PTL DEF Spec

-----------------------------------------------------------------------------
(* A connection implements two byte streams.                               *)

(* Nothing that the users of the connection see has changed.                  *)
LEMMA StutterStep ==
  ASSUME UNCHANGED <<accepted, received, readErr, raced, abandoned>>
  PROVE  [Stream!Next]_(Stream!streamVars)
BY Zenon DEF Stream!streamVars, StreamDelivered, StreamEnded, StreamSpoiled

(* Write accepts bytes.                                                       *)
LEMMA AcceptStep ==
  ASSUME TypeOK, NEW e \in Ends, NEW n \in Nat, n # 0,
         accepted' = [accepted EXCEPT ![e] = @ + n],
         UNCHANGED <<received, readErr, raced, abandoned>>
  PROVE  [Stream!Next]_(Stream!streamVars)
<1>1. accepted \in [Ends -> Nat]
  BY Zenon DEF TypeOK
<1>2. accepted'[e] > accepted[e] /\ accepted' = [accepted EXCEPT ![e] = accepted'[e]]
  BY <1>1
<1>3. UNCHANGED <<StreamDelivered, StreamEnded, StreamSpoiled>>
  BY Zenon DEF StreamDelivered, StreamEnded, StreamSpoiled
<1>4. Stream!Accept(e)
  BY <1>2, <1>3, Zenon DEF Stream!Accept
<1>5. QED BY <1>4, Zenon DEF Stream!Next

(* The writers of one end overlap, or the sender drops a burst.               *)
LEMMA SpoilStep ==
  ASSUME TypeOK, NEW e \in Ends, NEW a \in BOOLEAN, NEW b \in BOOLEAN,
         raced' = [raced EXCEPT ![e] = @ \/ a],
         abandoned' = [abandoned EXCEPT ![e] = @ \/ b],
         UNCHANGED <<accepted, received, readErr>>
  PROVE  [Stream!Next]_(Stream!streamVars)
<1>1. raced \in [Ends -> BOOLEAN] /\ abandoned \in [Ends -> BOOLEAN]
  BY Zenon DEF TypeOK
<1>2. UNCHANGED <<accepted, StreamDelivered, StreamEnded>>
  BY Zenon DEF StreamDelivered, StreamEnded
<1>3. \A d \in Ends : d # e => raced'[d] = raced[d] /\ abandoned'[d] = abandoned[d]
  BY <1>1, Zenon
<1>4. raced'[e] = (raced[e] \/ a) /\ abandoned'[e] = (abandoned[e] \/ b)
  BY <1>1, Zenon
<1>5. CASE StreamSpoiled[e] \/ ~(a \/ b)
  <2>1. \A d \in Ends : (raced'[d] \/ abandoned'[d]) = (raced[d] \/ abandoned[d])
    BY <1>1, <1>3, <1>4, <1>5, Zenon DEF StreamSpoiled
  <2>2. StreamSpoiled' = StreamSpoiled
    BY <2>1, Zenon DEF StreamSpoiled
  <2>3. QED BY <1>2, <2>2, Zenon DEF Stream!streamVars
<1>6. CASE ~StreamSpoiled[e] /\ (a \/ b)
  <2>1. \A d \in Ends : StreamSpoiled'[d] = [StreamSpoiled EXCEPT ![e] = TRUE][d]
    BY <1>1, <1>3, <1>4, <1>6, Zenon DEF StreamSpoiled
  <2>2. StreamSpoiled' = [StreamSpoiled EXCEPT ![e] = TRUE]
    BY <2>1, Zenon DEF StreamSpoiled
  <2>3. Stream!Spoil(e)
    BY <1>2, <1>6, <2>2, Zenon DEF Stream!Spoil
  <2>4. QED BY <2>3, Zenon DEF Stream!Next
<1>7. QED BY <1>5, <1>6, Zenon

(* Read returns an error for the first time.                                  *)
LEMMA EndStep ==
  ASSUME TypeOK, NEW e \in Ends, ~readErr[e],
         readErr' = [readErr EXCEPT ![e] = TRUE],
         UNCHANGED <<accepted, received, raced, abandoned>>
  PROVE  [Stream!Next]_(Stream!streamVars)
<1> DEFINE p == Peer(e)
<1>1. p \in Ends /\ Peer(p) = e /\ \A d \in Ends : Peer(d) \in Ends /\ (Peer(d) = e => d = p)
  BY Zenon DEF Ends, Peer
<1>2. readErr \in [Ends -> BOOLEAN]
  BY Zenon DEF TypeOK
<1>3. UNCHANGED <<accepted, StreamDelivered, StreamSpoiled>>
  BY Zenon DEF StreamDelivered, StreamSpoiled
<1> HIDE DEF p
<1>4. StreamEnded' = [StreamEnded EXCEPT ![p] = TRUE] /\ ~StreamEnded[p]
  BY <1>1, <1>2, Zenon DEF StreamEnded
<1>5. Stream!End(p)
  BY <1>3, <1>4, Zenon DEF Stream!End
<1>6. QED BY <1>1, <1>5, Zenon DEF Stream!Next

(* Read returns x, which may be empty.  That the bytes are the next ones is   *)
(* DeliveredInOrder of the state after the step.                              *)
LEMMA DeliverStep ==
  ASSUME TypeOK, DeliveredInOrder', NEW e \in Ends, NEW x \in Seq(Nat), ~readErr[e],
         received' = [received EXCEPT ![e] = @ \o x],
         UNCHANGED <<accepted, readErr, raced, abandoned>>
  PROVE  [Stream!Next]_(Stream!streamVars)
<1> DEFINE p == Peer(e)
<1>1. p \in Ends /\ Peer(p) = e /\ \A d \in Ends : Peer(d) \in Ends /\ (Peer(d) = e => d = p)
  BY Zenon DEF Ends, Peer
<1>2. received \in [Ends -> Seq(Nat)] /\ received[e] \in Seq(Nat)
  BY Zenon DEF TypeOK, Bytes
<1>3. UNCHANGED <<accepted, StreamEnded, StreamSpoiled>> /\ ~StreamEnded[p]
  BY <1>1, Zenon DEF StreamEnded, StreamSpoiled
<1>4. StreamSpoiled[p] = (raced[p] \/ abandoned[p])
  BY <1>1, Zenon DEF StreamSpoiled
<1> HIDE DEF p
<1> DEFINE old == received[e]
           new == received'[e]
<1>5. new = old \o x
  BY <1>2, Zenon
<1>6. old = StreamDelivered[p] /\ new = StreamDelivered'[p]
  BY <1>1 DEF StreamDelivered
<1>7. StreamDelivered' = [StreamDelivered EXCEPT ![p] = new]
  BY <1>1, <1>2, Zenon DEF StreamDelivered
<1>8. CASE x = <<>>
  <2>1. old \o x = old
    BY <1>2, <1>8
  <2>2. received' = received
    BY <1>2, <2>1, Zenon
  <2>3. QED BY <2>2, StutterStep, Zenon
<1>9. CASE x # <<>>
  <2>1. Len(x) \in Nat /\ Len(x) # 0 /\ Len(old) \in Nat
    BY <1>2, <1>9
  <2>2. /\ Len(old \o x) > Len(old)
        /\ \A i \in 1..Len(old) : (old \o x)[i] = old[i]
    BY <1>2, <2>1
  <2>3. ~StreamSpoiled[p] => Len(new) <= accepted[p] /\ \A i \in 1..Len(new) : new[i] = i
    BY <1>1, <1>4, ZenonT(40) DEF DeliveredInOrder, InOrder
  <2> HIDE DEF old, new
  <2>4. /\ Len(new) > Len(old)
        /\ \A i \in 1..Len(old) : new[i] = old[i]
    BY <1>5, <2>2, Zenon
  <2>5. Stream!Deliver(p)
    <3>1. StreamEnded' \in {StreamEnded, [StreamEnded EXCEPT ![p] = TRUE]}
      BY <1>3, Zenon
    <3>2. QED BY <1>3, <1>6, <1>7, <2>3, <2>4, <3>1, Zenon DEF Stream!Deliver
  <2>6. QED BY <1>1, <2>5, Zenon DEF Stream!Next
<1>10. QED BY <1>8, <1>9, Zenon

(* Every step of the implementation is a step of the streams, or no step.     *)
LEMMA RefinementStep ==
  TypeOK /\ DeliveredInOrder' /\ [Next]_vars => [Stream!Next]_(Stream!streamVars)
<1> SUFFICES ASSUME TypeOK, DeliveredInOrder', [Next]_vars
             PROVE  [Stream!Next]_(Stream!streamVars)
  OBVIOUS
<1> USE DEF writeVars, senderVars, keepVars, frameVars, readVars, chanVars
<1>1. CASE UNCHANGED vars
  BY <1>1, StutterStep, Zenon DEF vars
<1>2. CASE NetFails
  BY <1>2, StutterStep, Zenon DEF NetFails
<1>3. ASSUME NEW e \in Ends, WriteNext(e) PROVE [Stream!Next]_(Stream!streamVars)
  <2>1. CASE WriteAccept(e)
    <3>1. writing[e] \in Nat
      BY Zenon DEF TypeOK
    <3>2. QED BY <2>1, <3>1, AcceptStep, ZenonT(40) DEF WriteAccept
  <2>2. CASE (\E n \in WriteSizes : WriteBegin(e, n)) \/ WriteClosed(e)
    BY <2>2, StutterStep, Zenon DEF WriteBegin, WriteClosed
  <2>3. QED BY <1>3, <2>1, <2>2, Zenon DEF WriteNext
(* The three steps that fill the frame buffer are those that may overlap.     *)
<1>4. ASSUME NEW e \in Ends, NEW g \in Goroutines, NEW f, FillFrame(e, g, f),
             UNCHANGED <<accepted, received, readErr, abandoned>>
      PROVE  [Stream!Next]_(Stream!streamVars)
  <2>1. raced' = [raced EXCEPT ![e] = @ \/ (wframe[e][OtherOf(g)] # NoFrame)]
    BY <1>4, Zenon DEF FillFrame
  <2>2. abandoned' = [abandoned EXCEPT ![e] = @ \/ FALSE]
    BY <1>4, ZenonT(40) DEF TypeOK
  <2>3. QED BY <1>4, <2>1, <2>2, SpoilStep, ZenonT(40)
<1>5. ASSUME NEW e \in Ends, SenderNext(e) PROVE [Stream!Next]_(Stream!streamVars)
  <2> "sender" \in Goroutines
    BY Zenon DEF Goroutines
  <2>1. CASE SenderDone(e)
    <3>1. raced' = [raced EXCEPT ![e] = @ \/ FALSE]
      BY <2>1, Zenon DEF SenderDone, TypeOK
    <3>2. abandoned' = [abandoned EXCEPT ![e] = @ \/ (spc[e] = "collect")]
      BY <2>1, Zenon DEF SenderDone
    <3>3. UNCHANGED <<accepted, received, readErr>>
      BY <2>1, Zenon DEF SenderDone
    <3>4. QED BY <3>1, <3>2, <3>3, SpoilStep, ZenonT(40)
  <2>2. CASE \E size \in ApparentSizes : SenderFill(e, size)
    <3>1. /\ \E f : FillFrame(e, "sender", f)
          /\ UNCHANGED <<accepted, received, readErr, abandoned>>
      BY ZenonT(40), <2>2 DEF SenderFill
    <3>2. QED BY <3>1, <1>4, Zenon
  <2>3. CASE SenderFillPong(e)
    <3>1. /\ \E f : FillFrame(e, "sender", f)
          /\ UNCHANGED <<accepted, received, readErr, abandoned>>
      BY ZenonT(40), <2>3 DEF SenderFillPong
    <3>2. QED BY <3>1, <1>4, Zenon
  <2>4. CASE \/ SenderTakeItem(e) \/ SenderBurst(e) \/ SenderCollect(e)
             \/ SenderTimer(e) \/ SenderPong(e)
    <3>1. UNCHANGED <<accepted, received, readErr, raced, abandoned>>
      BY ZenonT(40), <2>4 DEF SenderTakeItem, SenderBurst, SenderCollect, SenderTimer, SenderPong
    <3>2. QED BY <3>1, StutterStep, Zenon
  <2>5. CASE SenderSent(e) \/ SenderSendFails(e) \/ SenderPonged(e)
    <3>1. UNCHANGED <<accepted, received, readErr, raced, abandoned>>
      BY ZenonT(40), <2>5
         DEF SenderSent, SenderSendFails, SenderPonged, TlsWriteOk, TlsWriteFails, Leave
    <3>2. QED BY <3>1, StutterStep, Zenon
  <2>6. QED BY <1>5, <2>1, <2>2, <2>3, <2>4, <2>5, Zenon DEF SenderNext
<1>6. ASSUME NEW e \in Ends, KeepaliveNext(e) PROVE [Stream!Next]_(Stream!streamVars)
  <2> "keepalive" \in Goroutines
    BY Zenon DEF Goroutines
  <2>1. CASE KeepaliveFill(e)
    <3>1. /\ \E f : FillFrame(e, "keepalive", f)
          /\ UNCHANGED <<accepted, received, readErr, abandoned>>
      BY ZenonT(40), <2>1 DEF KeepaliveFill
    <3>2. QED BY <3>1, <1>4, Zenon
  <2>2. CASE KeepaliveFires(e) \/ KeepaliveSent(e) \/ KeepaliveFails(e) \/ KeepaliveDone(e)
    <3>1. UNCHANGED <<accepted, received, readErr, raced, abandoned>>
      BY ZenonT(40), <2>2 DEF KeepaliveFires, KeepaliveSent, KeepaliveFails, KeepaliveDone,
                              TlsWriteOk, TlsWriteFails, Leave
    <3>2. QED BY <3>1, StutterStep, Zenon
  <2>3. QED BY <1>6, <2>1, <2>2, Zenon DEF KeepaliveNext
<1>7. ASSUME NEW e \in Ends, ReadNext(e) PROVE [Stream!Next]_(Stream!streamVars)
  <2>1. ASSUME NEW n \in ReadSizes, NEW s \in Seq(Nat), ~readErr[e],
               received' = [received EXCEPT ![e] = @ \o Fit(s, n)],
               UNCHANGED <<accepted, readErr, raced, abandoned>>
        PROVE  [Stream!Next]_(Stream!streamVars)
    <3>1. Fit(s, n) \in Seq(Nat)
      BY FitType, SizeAssumption, Zenon
    <3>2. QED BY <2>1, <3>1, DeliverStep, Zenon
  <2>2. ASSUME NEW n \in ReadSizes, ReadLeftover(e, n) PROVE [Stream!Next]_(Stream!streamVars)
    <3>1. readBuf[e] \in Seq(Nat)
      BY Zenon DEF TypeOK, Bytes
    <3>2. QED BY <2>1, <2>2, <3>1, ZenonT(40) DEF ReadLeftover
  <2>3. ASSUME NEW n \in ReadSizes, ReadData(e, n) PROVE [Stream!Next]_(Stream!streamVars)
    <3>1. wire[Peer(e)] \in Seq(Frames) /\ wire[Peer(e)] # <<>>
      BY <2>3, PeerType, Zenon DEF TypeOK, ReadData, ReadFrame
    <3>2. NextFrame(e) \in Frames
      BY ZenonT(40), <3>1, HeadTailProperties DEF NextFrame
    <3>3. NextFrame(e).payload \in Seq(Nat)
      BY <3>2, Zenon DEF Frames, Bytes
    <3>4. QED BY ZenonT(40), <2>1, <2>3, <3>3 DEF ReadData, ReadFrame
  <2>4. CASE ReadPing(e) \/ ReadPong(e)
    <3>1. UNCHANGED <<accepted, received, readErr, raced, abandoned>>
      BY ZenonT(40), <2>4 DEF ReadPing, ReadPong
    <3>2. QED BY <3>1, StutterStep, Zenon
  <2>5. CASE ReadDesynced(e)
    <3>1. UNCHANGED <<accepted, raced, abandoned>> /\ ~readErr[e]
      BY ZenonT(40), <2>5 DEF ReadDesynced, ReadFrame
    <3>2. CASE readErr' = [readErr EXCEPT ![e] = TRUE] /\ received' = received
      BY <3>1, <3>2, EndStep, Zenon
    <3>3. CASE received' = received /\ readErr' = readErr
      BY <3>1, <3>3, StutterStep, Zenon
    <3>4. CASE received' = [received EXCEPT ![e] = Append(@, 0)] /\ readErr' = readErr
      <4>1. received[e] \in Seq(Nat) /\ <<0>> \in Seq(Nat)
        BY DEF TypeOK, Bytes
      <4>2. Append(received[e], 0) = received[e] \o <<0>>
        BY <4>1
      <4>3. received' = [received EXCEPT ![e] = @ \o <<0>>]
        BY <3>4, <4>2, Zenon
      <4>4. QED BY <3>1, <3>4, <4>1, <4>3, DeliverStep, ZenonT(40)
    <3>5. QED BY <2>5, <3>2, <3>3, <3>4, Zenon DEF ReadDesynced
  <2>6. CASE ReadFails(e)
    BY <2>6, EndStep, ZenonT(40) DEF ReadFails
  <2>7. QED BY <1>7, <2>2, <2>3, <2>4, <2>5, <2>6, Zenon DEF ReadNext
<1>8. ASSUME NEW e \in Ends, CloseCancel(e) \/ CloseProceeds(e)
      PROVE  [Stream!Next]_(Stream!streamVars)
  BY <1>8, StutterStep, Zenon DEF CloseCancel, CloseProceeds, CloseConn, CloseReturns
<1>9. QED BY <1>1, <1>2, <1>3, <1>5, <1>6, <1>7, <1>8, Zenon DEF Next

(* For every capacity, frame size and bound, a connection with its goroutines, *)
(* frames, bursts and failures is indistinguishable from two byte streams.     *)
THEOREM Refinement == Spec => ImplementsByteStream
<1>1. Init => Stream!Init
  <2> SUFFICES ASSUME Init PROVE Stream!Init
    OBVIOUS
  <2>1. accepted = [e \in Ends |-> 0]
    BY Zenon DEF Init
  <2>2. StreamDelivered = [e \in Ends |-> <<>>] /\ StreamEnded = [e \in Ends |-> FALSE]
    BY PeerType, Zenon DEF Init, StreamDelivered, StreamEnded
  <2>3. \A e \in Ends : raced[e] = FALSE /\ abandoned[e] = FALSE
    BY Zenon DEF Init
  <2>4. StreamSpoiled = [e \in Ends |-> FALSE]
    BY <2>3, Zenon DEF StreamSpoiled
  <2>5. QED BY <2>1, <2>2, <2>4, Zenon DEF Stream!Init
<1>2. TypeOK /\ DeliveredInOrder' /\ [Next]_vars => [Stream!Next]_(Stream!streamVars)
  BY RefinementStep, Zenon
<1>3. QED BY <1>1, <1>2, TypeCorrect, OrderedDelivery, PTL DEF Spec, Stream!Spec, ImplementsByteStream
=============================================================================
