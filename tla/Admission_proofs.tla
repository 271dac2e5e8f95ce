-------------------------- MODULE Admission_proofs --------------------------
(***************************************************************************)
(* The theorems about the handshakes and their records, for any number of  *)
(* connections, any clients and clocks, and any length of the probe record.*)
(***************************************************************************)
EXTENDS Admission, SequenceTheorems, FiniteSetTheorems, TLAPS

Failed(c) == \E i \in 1..Len(failures) : failures[i] = c

\* The probe record is the newest part of the history, as much as fits.
ProbesOK ==
    /\ failures \in Seq(Conns) /\ probes \in Seq(Conns)
    /\ Len(probes) = IF Len(failures) <= ProbeCap THEN Len(failures) ELSE ProbeCap
    /\ \A i \in 1..Len(probes) : probes[i] = failures[Len(failures) - Len(probes) + i]

\* TypeOK without the gauge, whose type needs TelemetryTrue.
Typed ==
    /\ role \in {"serve", "daxsond", "relay"} /\ client \in Scenes
    /\ now \in Times
    /\ cpc \in [Conns -> {"idle", "dialled", "waiting", "ok", "failed"}]
    /\ stamp \in [Conns -> Int] /\ req \in [Conns -> {"none", "first", "whole"}]
    /\ cut \subseteq Conns
    /\ spc \in [Conns -> {"none", "version", "hmac", "device", "bootstrap", "admitted",
                          "counted", "serving", "leaving", "forward", "closed"}]
    /\ reply \in [Conns -> {"none", "ok", "fail"}]
    /\ age \in [Conns -> Int] /\ unsaved \subseteq Conns /\ muxed \subseteq Conns
    /\ ProbesOK

\* Who can be at which point of handleConn.
PhaseOK(c) ==
    /\ cpc[c] = "idle" <=> spc[c] = "none"
    /\ spc[c] # "none" => client[c].kind # "nobody"
    /\ spc[c] = "device" => client[c].kind = "device" /\ role = "serve"
    /\ spc[c] = "bootstrap" => client[c].kind = "bootstrap" /\ role = "serve"
    /\ spc[c] = "hmac" /\ role # "relay" => client[c].kind = "hmac"
    /\ spc[c] = "counted" => role = "serve"

\* Before its verdict a handler has answered, checked and recorded nothing.
FreshOK(c) ==
    spc[c] \in Handshaking \cup {"none"} =>
        reply[c] = "none" /\ age[c] = NoAge /\ c \notin unsaved /\ ~Failed(c)

\* An OK, from the moment it is sent, means what ToldMeansAdmitted says of one
\* that was read.
ToldOK(c) ==
    /\ cpc[c] = "ok" => reply[c] = "ok"
    /\ reply[c] = "ok" =>
          (spc[c] = "admitted" \/ c \in muxed \/ c \in unsaved) /\ ~Failed(c)

\* ClockTolerance, for one connection.
ClockOK(c) ==
    /\ client[c].kind = "device" /\ role = "serve" /\ age[c] # NoAge =>
          /\ client[c].good /\ age[c] \in -30..30 => reply[c] = "ok"
          /\ age[c] <= -60 \/ age[c] >= 60 => reply[c] = "fail"
    /\ client[c].kind = "hmac" /\ age[c] # NoAge =>
          /\ client[c].good /\ age[c] \in 0..30 => reply[c] # "fail"
          /\ age[c] <= -60 \/ age[c] >= 60 => reply[c] = "fail"

ConnOK(c) == PhaseOK(c) /\ FreshOK(c) /\ ToldOK(c) /\ ClockOK(c)

\* A step of c leaves the other connections as they are.
Frame(c) ==
    /\ UNCHANGED param
    /\ \A d \in Conns \ {c} :
          /\ cpc'[d] = cpc[d] /\ spc'[d] = spc[d] /\ reply'[d] = reply[d]
          /\ age'[d] = age[d] /\ (d \in unsaved' <=> d \in unsaved)
          /\ (d \in muxed' <=> d \in muxed)
          /\ (Failed(d)' <=> Failed(d))

-----------------------------------------------------------------------------
(* The probe record.                                                       *)

\* A part of a list.
LEMMA PartFacts ==
    ASSUME NEW S, NEW s \in Seq(S), NEW m \in Int, NEW n \in Int,
           1 <= m, m <= n + 1, n <= Len(s)
    PROVE  /\ SubSeq(s, m, n) \in Seq(S) /\ Len(SubSeq(s, m, n)) = n - m + 1
           /\ \A i \in 1..(n - m + 1) : SubSeq(s, m, n)[i] = s[m + i - 1]
<1>1. \A i \in m..n : s[i] \in S
    BY LenProperties
<1>2. /\ SubSeq(s, m, n) \in Seq(S)
      /\ Len(SubSeq(s, m, n)) = IF m <= n THEN n - m + 1 ELSE 0
      /\ \A i \in 1..(n - m + 1) : SubSeq(s, m, n)[i] = s[m + i - 1]
    BY <1>1, SubSeqProperties
<1>3. (IF m <= n THEN n - m + 1 ELSE 0) = n - m + 1
    OBVIOUS
<1>4. QED BY <1>2, <1>3, Zenon

\* RecordProbe keeps the record the newest part of the history.
LEMMA RecordKept ==
    ASSUME ProbesOK, NEW c \in Conns, RecordProbe(c)
    PROVE  ProbesOK' /\ (\A d \in Conns \ {c} : Failed(d)' <=> Failed(d))
<1> DEFINE n == Len(failures)
           m == Len(probes)
           p == Append(probes, c)
           t == SubSeq(p, 2, m + 1)
<1> HIDE DEF n, m, p, t
<1>1. ProbeCap \in Nat /\ ProbeCap > 0
    BY AdmissionAssumption
<1>2. /\ failures \in Seq(Conns) /\ probes \in Seq(Conns)
      /\ m = IF n <= ProbeCap THEN n ELSE ProbeCap
      /\ \A i \in 1..m : probes[i] = failures[n - m + i]
    BY Zenon DEF ProbesOK, n, m
<1>3. n \in Nat /\ m \in Nat
    BY <1>2, LenProperties, Zenon DEF n, m
<1>4. /\ failures' = Append(failures, c)
      /\ probes' = IF Len(p) > ProbeCap
                   THEN SubSeq(p, Len(p) - ProbeCap + 1, Len(p)) ELSE p
    BY Zenon DEF RecordProbe, p
<1>5. /\ p \in Seq(Conns) /\ Len(p) = m + 1 /\ p[m + 1] = c
      /\ \A i \in 1..m : p[i] = probes[i]
    BY <1>2, AppendProperties, SMTT(30) DEF p, m
<1>6. /\ failures' \in Seq(Conns) /\ Len(failures') = n + 1
      /\ failures'[n + 1] = c /\ (\A i \in 1..n : failures'[i] = failures[i])
    BY <1>2, <1>4, AppendProperties, SMTT(30) DEF n
<1>7. \A i \in 1..(m + 1) : p[i] = failures'[n - m + i]
    <2>1. ASSUME NEW i \in 1..m PROVE p[i] = failures'[n - m + i]
        <3>1. n - m + i \in 1..n
            BY <1>1, <1>2, <1>3
        <3>2. QED BY <1>2, <1>5, <1>6, <3>1, Zenon
    <2>2. n - m + (m + 1) = n + 1 /\ (\A i \in 1..(m + 1) : i \in 1..m \/ i = m + 1)
        BY <1>3
    <2>3. QED BY <1>5, <1>6, <2>1, <2>2, Zenon
<1>8. ProbesOK'
    <2>1. CASE n < ProbeCap
        <3>1. m = n /\ probes' = p
            BY <1>1, <1>2, <1>3, <1>4, <1>5, <2>1
        <3>2. /\ Len(probes') = n + 1 /\ n + 1 <= ProbeCap
              /\ \A i \in 1..(n + 1) : probes'[i] = failures'[(n + 1) - (n + 1) + i]
            BY <1>1, <1>3, <1>5, <1>7, <2>1, <3>1
        <3>3. QED BY <1>5, <1>6, <3>1, <3>2, Zenon DEF ProbesOK
    <2>2. CASE n >= ProbeCap
        <3>0. Len(p) > ProbeCap /\ Len(p) - ProbeCap + 1 = 2 /\ m = ProbeCap
            BY <1>1, <1>2, <1>3, <1>5, <2>2
        <3>1. m = ProbeCap /\ probes' = t
            BY <1>4, <1>5, <3>0, Zenon DEF t
        <3>2. /\ t \in Seq(Conns) /\ Len(t) = (m + 1) - 2 + 1
              /\ \A i \in 1..((m + 1) - 2 + 1) : t[i] = p[2 + i - 1]
            BY <1>3, <1>5, PartFacts DEF t
        <3>3. Len(t) = m /\ (\A i \in 1..m : t[i] = p[i + 1])
            BY <1>3, <3>2
        <3>4. ASSUME NEW i \in 1..m PROVE t[i] = failures'[(n + 1) - m + i]
            <4>1. i + 1 \in 1..(m + 1) /\ n - m + (i + 1) = (n + 1) - m + i
                BY <1>3
            <4>2. QED BY <1>7, <3>3, <4>1, Zenon
        <3>5. ~(n + 1 <= ProbeCap)
            BY <1>1, <1>3, <2>2
        <3>6. QED BY <1>6, <3>1, <3>2, <3>3, <3>4, <3>5, Zenon DEF ProbesOK
    <2>3. QED BY <1>1, <1>3, <2>1, <2>2
<1>9. ASSUME NEW d \in Conns \ {c} PROVE Failed(d)' <=> Failed(d)
    BY <1>3, <1>6 DEF Failed, n
<1>10. QED BY <1>8, <1>9, Zenon

\* What ProbesOK says in terms of TelemetryTrue.
LEMMA ProbesNewest ==
    ASSUME ProbesOK
    PROVE  /\ probes = SubSeq(failures, Len(failures) - Len(probes) + 1, Len(failures))
           /\ Len(failures) >= ProbeCap => Len(probes) = ProbeCap
           /\ Len(probes) <= ProbeCap
<1> DEFINE n == Len(failures)
           m == Len(probes)
           k == n - m + 1
           t == SubSeq(failures, k, n)
<1> HIDE DEF n, m, k, t
<1>1. ProbeCap \in Nat
    BY AdmissionAssumption, Zenon
<1>2. /\ failures \in Seq(Conns) /\ probes \in Seq(Conns)
      /\ m = IF n <= ProbeCap THEN n ELSE ProbeCap
      /\ \A i \in 1..m : probes[i] = failures[n - m + i]
    BY Zenon DEF ProbesOK, n, m
<1>3. n \in Nat /\ m \in Nat /\ m <= n
    BY <1>1, <1>2, LenProperties DEF n, m
<1>4. /\ t \in Seq(Conns) /\ Len(t) = n - k + 1
      /\ \A i \in 1..(n - k + 1) : t[i] = failures[k + i - 1]
    <2>1. k \in Int /\ n \in Int /\ 1 <= k /\ k <= n + 1
        BY <1>3 DEF k
    <2>2. n <= Len(failures)
        BY <1>3 DEF n
    <2>3. QED BY <1>2, <2>1, <2>2, PartFacts DEF t
<1>5. Len(t) = m /\ (\A i \in 1..m : t[i] = failures[n - m + i])
    BY <1>3, <1>4 DEF k
<1>6. probes = t
    BY <1>2, <1>4, <1>5, SeqEqual, Zenon DEF m
<1>7. (n >= ProbeCap => m = ProbeCap) /\ m <= ProbeCap
    BY <1>1, <1>2, <1>3
<1>8. QED BY <1>6, <1>7, Zenon DEF n, m, k, t

-----------------------------------------------------------------------------
(* The 30 s buckets.                                                       *)

\* What the bucket comparisons mean in seconds.
LEMMA BucketFacts ==
    ASSUME NEW t \in Int, NEW s \in Int
    PROVE  /\ t - s \in -30..30 => DeviceFresh(s, t)
           /\ t - s <= -60 \/ t - s >= 60 => ~DeviceFresh(s, t)
           /\ t - s \in 0..30 => HmacFresh(s, t)
           /\ t - s <= -60 \/ t - s >= 60 => ~HmacFresh(s, t)
<1>1. t - s \in -30..30 => DeviceFresh(s, t)
    BY DEF DeviceFresh, Bucket
<1>2. t - s <= -60 \/ t - s >= 60 => ~DeviceFresh(s, t)
    BY DEF DeviceFresh, Bucket
<1>3. t - s \in 0..30 => HmacFresh(s, t)
    BY DEF HmacFresh, Bucket
<1>4. t - s <= -60 \/ t - s >= 60 => ~HmacFresh(s, t)
    BY DEF HmacFresh, Bucket
<1>5. QED BY <1>1, <1>2, <1>3, <1>4, Zenon

-----------------------------------------------------------------------------
(* One lemma per group of actions: what a step of c does to c, and that it *)
(* leaves the others alone.                                                *)

ClientPlaces == {"idle", "dialled", "waiting", "ok", "failed"}
Places == {"none", "version", "hmac", "device", "bootstrap", "admitted",
           "counted", "serving", "leaving", "forward", "closed"}

\* The parts of Typed that the steps below need.
LEMMA TypedFacts ==
    ASSUME Typed
    PROVE  /\ cpc \in [Conns -> ClientPlaces] /\ spc \in [Conns -> Places]
           /\ reply \in [Conns -> {"none", "ok", "fail"}]
           /\ age \in [Conns -> Int] /\ stamp \in [Conns -> Int] /\ now \in Int
           /\ ProbesOK
           /\ \A c \in Conns : client[c].skew \in Int /\ client[c].kind \in Kinds
<1>1. client \in [Conns -> [kind : Kinds, good : BOOLEAN, skew : Int]] /\ now \in Nat
    BY AdmissionAssumption, Zenon DEF Typed
<1>2. \A c \in Conns : client[c].skew \in Int /\ client[c].kind \in Kinds
    BY <1>1, Zenon
<1>3. QED BY <1>1, <1>2 DEF Typed, ClientPlaces, Places

\* An update at c.
LEMMA Update ==
    ASSUME NEW T, NEW f \in [Conns -> T], NEW c \in Conns, NEW v \in T
    PROVE  /\ [f EXCEPT ![c] = v] \in [Conns -> T]
           /\ [f EXCEPT ![c] = v][c] = v
           /\ \A d \in Conns \ {c} : [f EXCEPT ![c] = v][d] = f[d]
OBVIOUS

\* What the others see of a step of c is nothing, so ConnOK is c's affair.
LEMMA OthersKeep ==
    ASSUME NEW c \in Conns, Frame(c), \A d \in Conns : ConnOK(d), ConnOK(c)'
    PROVE  \A d \in Conns : ConnOK(d)'
<1>1. SUFFICES ASSUME NEW d \in Conns \ {c} PROVE ConnOK(d)'
    OBVIOUS
<1>2. /\ role' = role /\ client' = client
      /\ cpc'[d] = cpc[d] /\ spc'[d] = spc[d] /\ reply'[d] = reply[d]
      /\ age'[d] = age[d] /\ (d \in unsaved' <=> d \in unsaved)
      /\ (d \in muxed' <=> d \in muxed)
      /\ (Failed(d)' <=> Failed(d))
    BY Zenon DEF Frame, param
<1>3. PhaseOK(d)' /\ FreshOK(d)'
    BY <1>2 DEF ConnOK, PhaseOK, FreshOK
<1>4. ToldOK(d)' /\ ClockOK(d)'
    BY <1>2 DEF ConnOK, ToldOK, ClockOK
<1>5. QED BY <1>3, <1>4, Zenon DEF ConnOK

\* Steps that move the clock or the path, or only the client.
LEMMA PathStep ==
    ASSUME Typed, NEW c \in Conns, ConnOK(c), RequestArrives(c) \/ PathDies(c)
    PROVE  Typed' /\ Frame(c) /\ ConnOK(c)'
<1>1. /\ UNCHANGED <<param, now, cpc, stamp, spc, reply, probes, age, unsaved, muxed, failures>>
      /\ req' \in [Conns -> {"none", "first", "whole"}] /\ cut' \subseteq Conns
    <2>1. CASE RequestArrives(c)
        BY <2>1 DEF RequestArrives, Typed
    <2>2. CASE PathDies(c)
        BY <2>2, Zenon DEF PathDies, Typed
    <2>3. QED BY <2>1, <2>2, Zenon
<1>2. Typed'
    BY <1>1, Zenon DEF Typed, ProbesOK, param
<1>3. Frame(c)
    BY <1>1, Zenon DEF Frame, Failed
<1>4. ConnOK(c)'
    BY <1>1, ZenonT(40) DEF ConnOK, PhaseOK, FreshOK, ToldOK, ClockOK, Failed, param
<1>5. QED BY <1>2, <1>3, <1>4, Zenon

LEMMA ClientStepOK ==
    ASSUME Typed, NEW c \in Conns, ConnOK(c),
           Connect(c) \/ ClientStep(c) \/ ClientLeaves(c)
    PROVE  Typed' /\ Frame(c) /\ ConnOK(c)'
<1>0. /\ cpc \in [Conns -> ClientPlaces] /\ spc \in [Conns -> Places]
      /\ stamp \in [Conns -> Int] /\ now \in Int /\ client[c].skew \in Int
    BY TypedFacts, Zenon
<1>1. UNCHANGED <<param, now, req, cut, reply, probes, age, unsaved, muxed, failures>>
    BY Zenon DEF Connect, ClientStep, ClientSend, ClientReads, ClientReadEnds,
                 ClientTimesOut, ClientLeaves, ClientOnly
<1>2. stamp' \in [Conns -> Int]
    <2>1. CASE ClientSend(c)
        BY <1>0, <2>1 DEF ClientSend
    <2>2. CASE ~ClientSend(c)
        BY <1>0, <2>2, Zenon DEF Connect, ClientStep, ClientReads, ClientReadEnds,
                 ClientTimesOut, ClientLeaves
    <2>3. QED BY <2>1, <2>2, Zenon
<1>3. PICK to \in ClientPlaces \ {"idle"} :
          cpc' = [cpc EXCEPT ![c] = to] /\ (to = "ok" => reply[c] = "ok")
    BY DEF Connect, ClientStep, ClientSend, ClientReads, ClientReadEnds,
           ClientTimesOut, ClientLeaves, Client, ClientPlaces
<1>4. /\ cpc' \in [Conns -> ClientPlaces] /\ cpc'[c] = to
      /\ \A d \in Conns \ {c} : cpc'[d] = cpc[d]
    BY <1>0, <1>3, Update, Zenon
<1>5. CASE Connect(c)
    <2>1. PICK at \in {"hmac", "version"} :
              /\ spc' = [spc EXCEPT ![c] = at] /\ (at = "hmac" => role = "relay")
              /\ cpc[c] = "idle" /\ client[c].kind # "nobody"
        BY <1>5, Zenon DEF Connect, Client
    <2>2. /\ spc' \in [Conns -> Places] /\ spc'[c] = at
          /\ \A d \in Conns \ {c} : spc'[d] = spc[d]
        BY <1>0, <2>1, Zenon DEF Places
    <2>3. Typed'
        BY <1>1, <1>2, <1>4, <2>2, ZenonT(40) DEF Typed, ProbesOK, param, ClientPlaces, Places
    <2>4. Frame(c)
        BY <1>1, <1>4, <2>2, Zenon DEF Frame, Failed
    <2>5. PhaseOK(c)' /\ FreshOK(c)'
        BY <1>1, <1>4, <2>1, <2>2, Zenon
           DEF ConnOK, PhaseOK, FreshOK, Failed, param, Handshaking
    <2>6. ToldOK(c)' /\ ClockOK(c)'
        BY <1>1, <1>3, <1>4, <2>1, <2>2, Zenon
           DEF ConnOK, PhaseOK, FreshOK, ToldOK, ClockOK, Failed, param
    <2>7. QED BY <2>3, <2>4, <2>5, <2>6, Zenon DEF ConnOK
<1>6. CASE ~Connect(c)
    <2>1. spc' = spc /\ cpc[c] # "idle"
        BY <1>6, Zenon DEF ClientStep, ClientSend, ClientReads, ClientReadEnds, ClientTimesOut,
                    ClientLeaves, Client, ClientOnly
    <2>2. Typed'
        BY <1>1, <1>2, <1>4, <2>1, Zenon DEF Typed, ProbesOK, param, ClientPlaces
    <2>3. Frame(c)
        BY <1>1, <1>4, <2>1, Zenon DEF Frame, Failed
    <2>4. PhaseOK(c)' /\ FreshOK(c)' /\ ClockOK(c)'
        BY <1>1, <1>4, <2>1, ZenonT(40) DEF ConnOK, PhaseOK, FreshOK, ClockOK, Failed, param
    <2>5. ToldOK(c)'
        BY <1>1, <1>3, <1>4, <2>1, Zenon DEF ConnOK, ToldOK, Failed
    <2>6. QED BY <2>2, <2>3, <2>4, <2>5, Zenon DEF ConnOK
<1>7. QED BY <1>5, <1>6, Zenon

\* The steps after the verdict, with the session and its records.
LEMMA SessionStep ==
    ASSUME Typed, NEW c \in Conns, ConnOK(c),
           \/ MuxFails(c) \/ RecordSessionOpen(c) \/ OpenSession(c)
           \/ CloseSession(c) \/ RecordSessionClose(c) \/ ForwardEnds(c)
    PROVE  Typed' /\ Frame(c) /\ ConnOK(c)'
<1>0. spc \in [Conns -> Places]
    BY TypedFacts, Zenon
<1>1. UNCHANGED <<param, now, cpc, stamp, req, cut, reply, probes, age, unsaved, failures>>
    BY Zenon DEF MuxFails, RecordSessionOpen, OpenSession, CloseSession,
                 RecordSessionClose, ForwardEnds, HandlerOnly
<1>2. PICK at \in {"counted", "serving", "leaving", "closed"} :
          /\ spc' = [spc EXCEPT ![c] = at] /\ (at = "counted" => role = "serve")
          /\ spc[c] \in {"admitted", "counted", "serving", "leaving", "forward"}
          /\ muxed' = muxed \cup {c} \/ (muxed' = muxed /\ spc[c] # "admitted")
    BY Zenon DEF MuxFails, RecordSessionOpen, OpenSession, CloseSession,
           RecordSessionClose, ForwardEnds, Return
<1>3. /\ spc' \in [Conns -> Places] /\ spc'[c] = at
      /\ \A d \in Conns \ {c} : spc'[d] = spc[d]
    BY <1>0, <1>2, Zenon DEF Places
<1>4. Typed'
    BY <1>1, <1>2, <1>3, Zenon DEF Typed, ProbesOK, param, Places
<1>5. Frame(c)
    BY <1>1, <1>2, <1>3, Zenon DEF Frame, Failed
<1>6. PhaseOK(c)' /\ FreshOK(c)'
    BY <1>1, <1>2, <1>3, Zenon DEF ConnOK, PhaseOK, FreshOK, Handshaking, param
<1>7. ToldOK(c)' /\ ClockOK(c)'
    BY <1>1, <1>2, <1>3 DEF ConnOK, ToldOK, ClockOK, Failed, param
<1>8. QED BY <1>4, <1>5, <1>6, <1>7, Zenon DEF ConnOK

\* errAuthFailed: a probe is recorded, for c, or nothing is.
LEMMA AuthFailedStep ==
    ASSUME Typed, NEW c \in Conns, AuthFailed(c)
    PROVE  /\ ProbesOK' /\ \A d \in Conns \ {c} : Failed(d)' <=> Failed(d)
           /\ \E at \in {"closed", "forward"} : spc' = [spc EXCEPT ![c] = at]
<1>1. ProbesOK' /\ \A d \in Conns \ {c} : Failed(d)' <=> Failed(d)
    <2>1. CASE role = "serve"
        <3>1. RecordProbe(c)
            BY <2>1, Zenon DEF AuthFailed
        <3>2. QED BY <3>1, TypedFacts, RecordKept, Zenon
    <2>2. CASE role # "serve"
        <3>1. UNCHANGED <<probes, failures>>
            BY <2>2, Zenon DEF AuthFailed
        <3>2. QED BY <3>1, TypedFacts, Zenon DEF ProbesOK, Failed
    <2>3. QED BY <2>1, <2>2, Zenon
<1>2. \E at \in {"closed", "forward"} : spc' = [spc EXCEPT ![c] = at]
    BY Zenon DEF AuthFailed, Return
<1>3. QED BY <1>1, <1>2, Zenon

\* A step of the handler before its verdict changes what it may change, at c only.
LEMMA HandlerFrame ==
    ASSUME Typed, NEW c \in Conns, UNCHANGED <<param, now, cpc, req, cut, muxed>>,
           NEW at \in Places, spc' = [spc EXCEPT ![c] = at],
           NEW r \in {"none", "ok", "fail"}, reply' = [reply EXCEPT ![c] = r],
           NEW a \in Int, age' = [age EXCEPT ![c] = a],
           stamp' \in [Conns -> Int], unsaved' = unsaved \/ unsaved' = unsaved \cup {c},
           ProbesOK', \A d \in Conns \ {c} : Failed(d)' <=> Failed(d)
    PROVE  /\ Typed' /\ Frame(c)
           /\ spc'[c] = at /\ reply'[c] = r /\ age'[c] = a
<1>1. /\ spc \in [Conns -> Places] /\ reply \in [Conns -> {"none", "ok", "fail"}]
      /\ age \in [Conns -> Int]
    BY TypedFacts, Zenon
<1>2. /\ spc' \in [Conns -> Places] /\ spc'[c] = at
      /\ \A d \in Conns \ {c} : spc'[d] = spc[d]
    BY <1>1, Update, Zenon
<1>3. /\ reply' \in [Conns -> {"none", "ok", "fail"}] /\ reply'[c] = r
      /\ \A d \in Conns \ {c} : reply'[d] = reply[d]
    BY <1>1, Update, Zenon
<1>4. /\ age' \in [Conns -> Int] /\ age'[c] = a
      /\ \A d \in Conns \ {c} : age'[d] = age[d]
    BY <1>1, Update, Zenon
<1>5. unsaved' \subseteq Conns /\ \A d \in Conns \ {c} : d \in unsaved' <=> d \in unsaved
    BY Zenon DEF Typed
<1>6. Typed'
    BY <1>2, <1>3, <1>4, <1>5, Zenon DEF Typed, Places, param
<1>7. Frame(c)
    BY <1>2, <1>3, <1>4, <1>5, Zenon DEF Frame
<1>8. QED BY <1>2, <1>3, <1>4, <1>6, <1>7, Zenon

\* An update that changes nothing.
LEMMA SameUpdate ==
    ASSUME NEW T, NEW f \in [Conns -> T], NEW c \in Conns
    PROVE  f = [f EXCEPT ![c] = f[c]]
OBVIOUS

\* What is known of a handler before its verdict.
LEMMA BeforeVerdict ==
    ASSUME Typed, NEW c \in Conns, ConnOK(c), spc[c] \in Handshaking
    PROVE  /\ reply[c] = "none" /\ age[c] = NoAge /\ c \notin unsaved /\ ~Failed(c)
           /\ cpc[c] # "idle" /\ cpc[c] # "ok" /\ client[c].kind # "nobody"
           /\ reply = [reply EXCEPT ![c] = "none"] /\ age = [age EXCEPT ![c] = NoAge]
<1>1. /\ reply[c] = "none" /\ age[c] = NoAge /\ c \notin unsaved /\ ~Failed(c)
      /\ cpc[c] # "idle" /\ cpc[c] # "ok" /\ client[c].kind # "nobody"
    BY Zenon DEF ConnOK, FreshOK, PhaseOK, ToldOK, Handshaking
<1>2. reply = [reply EXCEPT ![c] = "none"] /\ age = [age EXCEPT ![c] = NoAge]
    BY <1>1, TypedFacts, SameUpdate, Zenon
<1>3. QED BY <1>1, <1>2, Zenon

\* The connection is given up, or goes on to be checked: nothing is answered but
\* possibly a refusal.
LEMMA DispatchStep ==
    ASSUME Typed, NEW c \in Conns, ConnOK(c),
           ServerDispatch(c) \/ ReadTimesOut(c) \/ ReadEnds(c)
    PROVE  Typed' /\ Frame(c) /\ ConnOK(c)'
<1>0. /\ UNCHANGED <<param, now, cpc, req, cut, muxed, stamp, age, unsaved>>
      /\ spc[c] \in Handshaking /\ (ServerDispatch(c) => spc[c] = "version")
    BY Zenon DEF ServerDispatch, ReadTimesOut, ReadEnds, CheckOnly, NotChecked, Handshaking
<1>1. /\ reply[c] = "none" /\ age[c] = NoAge /\ c \notin unsaved /\ ~Failed(c)
      /\ cpc[c] # "idle" /\ cpc[c] # "ok" /\ client[c].kind # "nobody"
      /\ reply = [reply EXCEPT ![c] = "none"] /\ age = [age EXCEPT ![c] = NoAge]
    BY <1>0, BeforeVerdict, Zenon
<1>2. /\ stamp \in [Conns -> Int] /\ NoAge \in Int /\ ProbesOK
      /\ client[c].kind \in Kinds
    BY TypedFacts DEF NoAge
\* It goes on.
<1>3. CASE /\ UNCHANGED <<reply, probes, failures>>
           /\ \E at \in {"hmac", "device", "bootstrap"} :
                 /\ spc' = [spc EXCEPT ![c] = at] /\ at = client[c].kind
                 /\ at # "hmac" => role = "serve"
    <2>1. PICK at \in {"hmac", "device", "bootstrap"} :
              /\ spc' = [spc EXCEPT ![c] = at] /\ at = client[c].kind
              /\ at # "hmac" => role = "serve"
        BY <1>3, Zenon
    <2>2. at \in Places
        BY Zenon DEF Places
    <2>3. ProbesOK' /\ (\A d \in Conns : Failed(d)' <=> Failed(d))
        BY <1>2, <1>3, Zenon DEF ProbesOK, Failed
    <2>4. /\ Typed' /\ Frame(c)
          /\ spc'[c] = at /\ reply'[c] = "none" /\ age'[c] = NoAge
        <3>1. /\ UNCHANGED <<param, now, cpc, req, cut, muxed>> /\ "none" \in {"none", "ok", "fail"}
              /\ reply' = [reply EXCEPT ![c] = "none"] /\ age' = [age EXCEPT ![c] = NoAge]
              /\ stamp' \in [Conns -> Int] /\ (unsaved' = unsaved \/ unsaved' = unsaved \cup {c})
              /\ \A d \in Conns \ {c} : Failed(d)' <=> Failed(d)
            BY <1>0, <1>1, <1>2, <1>3, <2>3, Zenon
        <3>2. QED BY <1>2, <2>1, <2>2, <2>3, <3>1, HandlerFrame, Zenon
    <2>5. PhaseOK(c)' /\ FreshOK(c)'
        BY <1>0, <1>1, <2>1, <2>3, <2>4, Zenon DEF PhaseOK, FreshOK, param
    <2>6. ToldOK(c)' /\ ClockOK(c)'
        BY <1>0, <1>1, <2>4, Zenon DEF ToldOK, ClockOK, param
    <2>7. QED BY <2>4, <2>5, <2>6, Zenon DEF ConnOK
\* It is given up.
<1>4. CASE /\ \E r \in {"none", "fail"} : reply' = [reply EXCEPT ![c] = r]
           /\ \E at \in {"closed", "forward"} : spc' = [spc EXCEPT ![c] = at]
           /\ ProbesOK' /\ \A d \in Conns \ {c} : Failed(d)' <=> Failed(d)
    <2>1. PICK r \in {"none", "fail"} : reply' = [reply EXCEPT ![c] = r]
        BY <1>4, Zenon
    <2>2. PICK at \in {"closed", "forward"} : spc' = [spc EXCEPT ![c] = at]
        BY <1>4, Zenon
    <2>3. at \in Places /\ r \in {"none", "ok", "fail"}
        BY Zenon DEF Places
    <2>4. /\ Typed' /\ Frame(c)
          /\ spc'[c] = at /\ reply'[c] = r /\ age'[c] = NoAge
        <3>1. /\ UNCHANGED <<param, now, cpc, req, cut, muxed>> /\ age' = [age EXCEPT ![c] = NoAge]
              /\ stamp' \in [Conns -> Int] /\ (unsaved' = unsaved \/ unsaved' = unsaved \cup {c})
            BY <1>0, <1>1, <1>2, ZenonT(40)
        <3>2. QED BY <1>2, <1>4, <2>1, <2>2, <2>3, <3>1, HandlerFrame, Zenon
    <2>5. PhaseOK(c)' /\ FreshOK(c)'
        BY <1>0, <1>1, <2>4, Zenon DEF PhaseOK, FreshOK, param, Handshaking
    <2>6. ToldOK(c)' /\ ClockOK(c)'
        BY <1>0, <1>1, <2>4, Zenon DEF ToldOK, ClockOK, param
    <2>7. QED BY <2>4, <2>5, <2>6, Zenon DEF ConnOK
<1>5. CASE ReadTimesOut(c) \/ ReadEnds(c)
    <2>1. reply' = reply /\ spc' = [spc EXCEPT ![c] = "closed"] /\ UNCHANGED <<probes, failures>>
        BY <1>5, Zenon DEF ReadTimesOut, ReadEnds, Refuse, Return
    <2>2. ProbesOK' /\ \A d \in Conns \ {c} : Failed(d)' <=> Failed(d)
        BY <1>2, <2>1, Zenon DEF ProbesOK, Failed
    <2>3. QED BY <1>1, <1>4, <2>1, <2>2, Zenon
<1>6. CASE ServerDispatch(c)
    <2>1. CASE client[c].kind = "hmac"
        BY <1>3, <1>6, <2>1, Zenon DEF ServerDispatch
    <2>2. CASE client[c].kind = "other"
        <3>1. AuthFailed(c) /\ reply' = reply
            BY <1>6, <2>2, Zenon DEF ServerDispatch
        <3>2. QED BY <1>1, <1>4, <3>1, AuthFailedStep, Zenon
    <2>3. CASE client[c].kind \in {"device", "bootstrap"}
        <3>1. CASE role = "serve"
            BY <1>3, <1>6, <2>3, <3>1, Zenon DEF ServerDispatch
        <3>2. CASE role # "serve"
            <4>1. reply' = [reply EXCEPT ![c] = "fail"] /\ AuthFailed(c)
                BY <1>6, <2>3, <3>2, Zenon DEF ServerDispatch, Reply
            <4>2. QED BY <1>4, <4>1, AuthFailedStep, Zenon
        <3>3. QED BY <3>1, <3>2, Zenon
    <2>4. QED BY <1>1, <1>2, <2>1, <2>2, <2>3, Zenon DEF Kinds
<1>7. QED BY <1>5, <1>6, Zenon

\* What a check comes to: the answer r and the place at where the handler goes on.
Outcome(c, r, at) ==
    /\ reply' = [reply EXCEPT ![c] = r] /\ spc' = [spc EXCEPT ![c] = at]
    /\ unsaved' = unsaved \/ unsaved' = unsaved \cup {c}
    /\ ProbesOK' /\ \A d \in Conns \ {c} : Failed(d)' <=> Failed(d)
    /\ r = "ok" => (c \in unsaved' \/ at = "admitted") /\ (Failed(c)' <=> Failed(c))
    /\ client[c].kind = "device" /\ role = "serve" =>
          /\ client[c].good /\ DeviceFresh(stamp[c], now) => r = "ok"
          /\ ~DeviceFresh(stamp[c], now) => r = "fail"
    /\ client[c].kind = "hmac" =>
          /\ client[c].good /\ HmacFresh(stamp[c], now) => r # "fail"
          /\ ~HmacFresh(stamp[c], now) => r = "fail"

Answers == {"none", "ok", "fail"}
Exits == {"admitted", "closed", "forward"}

\* Admit and Refuse record no probe.
LEMMA NoProbe ==
    ASSUME Typed, UNCHANGED <<probes, failures>>
    PROVE  ProbesOK' /\ \A d \in Conns : Failed(d)' <=> Failed(d)
BY TypedFacts, Zenon DEF ProbesOK, Failed

LEMMA HmacOutcome ==
    ASSUME Typed, NEW c \in Conns, ConnOK(c), HmacCheck(c)
    PROVE  \E r \in Answers, at \in Exits : Outcome(c, r, at)
<1> DEFINE fine == client[c].kind = "hmac" /\ client[c].good /\ HmacFresh(stamp[c], now)
<1>0. /\ spc[c] = "hmac" /\ unsaved' = unsaved
      /\ reply = [reply EXCEPT ![c] = "none"]
      /\ ~(client[c].kind = "device" /\ role = "serve")
    <2>1. spc[c] = "hmac" /\ unsaved' = unsaved
        BY Zenon DEF HmacCheck
    <2>2. QED BY <2>1, BeforeVerdict, Zenon DEF ConnOK, PhaseOK, Handshaking
<1>1. /\ "none" \in Answers /\ "ok" \in Answers /\ "fail" \in Answers
      /\ "admitted" \in Exits /\ "closed" \in Exits /\ "forward" \in Exits
    BY Zenon DEF Answers, Exits
<1>2. CASE fine /\ Reply(c, "ok") /\ Admit(c)
    <2>1. /\ reply' = [reply EXCEPT ![c] = "ok"] /\ spc' = [spc EXCEPT ![c] = "admitted"]
          /\ UNCHANGED <<probes, failures>>
        BY <1>2, Zenon DEF Reply, Admit
    <2>2. Outcome(c, "ok", "admitted")
        BY <1>0, <1>2, <2>1, NoProbe, Zenon DEF Outcome
    <2>3. QED BY <1>1, <2>2, Zenon
<1>3. CASE fine /\ Refuse(c) /\ UNCHANGED reply
    <2>1. /\ reply' = [reply EXCEPT ![c] = "none"] /\ spc' = [spc EXCEPT ![c] = "closed"]
          /\ UNCHANGED <<probes, failures>>
        BY <1>0, <1>3, Zenon DEF Refuse, Return
    <2>2. Outcome(c, "none", "closed")
        BY <1>0, <1>3, <2>1, NoProbe, Zenon DEF Outcome
    <2>3. QED BY <1>1, <2>2, Zenon
<1>4. CASE ~fine /\ Reply(c, "fail") /\ AuthFailed(c)
    <2>1. PICK at \in {"closed", "forward"} : spc' = [spc EXCEPT ![c] = at]
        BY <1>4, AuthFailedStep, Zenon
    <2>2. reply' = [reply EXCEPT ![c] = "fail"]
        BY <1>4, Zenon DEF Reply
    <2>3. ProbesOK' /\ \A d \in Conns \ {c} : Failed(d)' <=> Failed(d)
        BY <1>4, AuthFailedStep, Zenon
    <2>4. Outcome(c, "fail", at)
        BY <1>0, <1>4, <2>1, <2>2, <2>3, Zenon DEF Outcome
    <2>5. QED BY <1>1, <2>4, Zenon DEF Exits
<1>5. QED BY <1>2, <1>3, <1>4, Zenon DEF HmacCheck

LEMMA DeviceOutcome ==
    ASSUME Typed, NEW c \in Conns, ConnOK(c), DeviceCheck(c)
    PROVE  \E r \in Answers, at \in Exits : Outcome(c, r, at)
<1> DEFINE fresh == DeviceFresh(stamp[c], now)
<1>0. client[c].kind = "device" /\ unsaved' = unsaved
    <2>1. spc[c] = "device" /\ unsaved' = unsaved
        BY Zenon DEF DeviceCheck
    <2>2. QED BY <2>1, Zenon DEF ConnOK, PhaseOK
<1>1. /\ "ok" \in Answers /\ "fail" \in Answers
      /\ "admitted" \in Exits /\ "closed" \in Exits /\ "forward" \in Exits
    BY Zenon DEF Answers, Exits
<1>2. CASE fresh /\ Reply(c, "ok") /\ Admit(c)
    <2>1. /\ reply' = [reply EXCEPT ![c] = "ok"] /\ spc' = [spc EXCEPT ![c] = "admitted"]
          /\ UNCHANGED <<probes, failures>>
        BY <1>2, Zenon DEF Reply, Admit
    <2>2. Outcome(c, "ok", "admitted")
        BY <1>0, <1>2, <2>1, NoProbe, Zenon DEF Outcome
    <2>3. QED BY <1>1, <2>2, Zenon
<1>3. CASE (~fresh \/ ~client[c].good) /\ Reply(c, "fail") /\ Refuse(c)
    <2>1. /\ reply' = [reply EXCEPT ![c] = "fail"] /\ spc' = [spc EXCEPT ![c] = "closed"]
          /\ UNCHANGED <<probes, failures>>
        BY <1>3, Zenon DEF Reply, Refuse, Return
    <2>2. Outcome(c, "fail", "closed")
        BY <1>0, <1>3, <2>1, NoProbe, Zenon DEF Outcome
    <2>3. QED BY <1>1, <2>2, Zenon
<1>4. CASE ~client[c].good /\ Reply(c, "fail") /\ AuthFailed(c)
    <2>1. PICK at \in {"closed", "forward"} : spc' = [spc EXCEPT ![c] = at]
        BY <1>4, AuthFailedStep, Zenon
    <2>2. reply' = [reply EXCEPT ![c] = "fail"]
        BY <1>4, Zenon DEF Reply
    <2>3. ProbesOK' /\ \A d \in Conns \ {c} : Failed(d)' <=> Failed(d)
        BY <1>4, AuthFailedStep, Zenon
    <2>4. Outcome(c, "fail", at)
        BY <1>0, <1>4, <2>1, <2>2, <2>3, Zenon DEF Outcome
    <2>5. QED BY <1>1, <2>4, Zenon DEF Exits
<1>5. QED BY <1>2, <1>3, <1>4, Zenon DEF DeviceCheck

LEMMA BootstrapOutcome ==
    ASSUME Typed, NEW c \in Conns, ConnOK(c), BootstrapCheck(c)
    PROVE  \E r \in Answers, at \in Exits : Outcome(c, r, at)
<1>0. client[c].kind = "bootstrap"
    <2>1. spc[c] = "bootstrap"
        BY Zenon DEF BootstrapCheck
    <2>2. QED BY <2>1, Zenon DEF ConnOK, PhaseOK
<1>1. /\ "ok" \in Answers /\ "fail" \in Answers
      /\ "admitted" \in Exits /\ "closed" \in Exits /\ "forward" \in Exits
    BY Zenon DEF Answers, Exits
<1>2. CASE Reply(c, "ok") /\ Admit(c) /\ UNCHANGED unsaved
    <2>1. /\ reply' = [reply EXCEPT ![c] = "ok"] /\ spc' = [spc EXCEPT ![c] = "admitted"]
          /\ UNCHANGED <<probes, failures>>
        BY <1>2, Zenon DEF Reply, Admit
    <2>2. Outcome(c, "ok", "admitted")
        BY <1>0, <1>2, <2>1, NoProbe, Zenon DEF Outcome
    <2>3. QED BY <1>1, <2>2, Zenon
<1>3. CASE Reply(c, "ok") /\ Refuse(c) /\ unsaved' = unsaved \cup {c}
    <2>1. /\ reply' = [reply EXCEPT ![c] = "ok"] /\ spc' = [spc EXCEPT ![c] = "closed"]
          /\ UNCHANGED <<probes, failures>>
        BY <1>3, Zenon DEF Reply, Refuse, Return
    <2>2. Outcome(c, "ok", "closed")
        BY <1>0, <1>3, <2>1, NoProbe, Zenon DEF Outcome
    <2>3. QED BY <1>1, <2>2, Zenon
<1>4. CASE Reply(c, "fail") /\ AuthFailed(c) /\ UNCHANGED unsaved
    <2>1. PICK at \in {"closed", "forward"} : spc' = [spc EXCEPT ![c] = at]
        BY <1>4, AuthFailedStep, Zenon
    <2>2. reply' = [reply EXCEPT ![c] = "fail"]
        BY <1>4, Zenon DEF Reply
    <2>3. ProbesOK' /\ \A d \in Conns \ {c} : Failed(d)' <=> Failed(d)
        BY <1>4, AuthFailedStep, Zenon
    <2>4. Outcome(c, "fail", at)
        BY <1>0, <1>4, <2>1, <2>2, <2>3, Zenon DEF Outcome
    <2>5. QED BY <1>1, <2>4, Zenon DEF Exits
<1>5. QED BY <1>2, <1>3, <1>4, Zenon DEF BootstrapCheck

\* The verdict of a handshake, and the place where ClockTolerance is decided.
LEMMA CheckStep ==
    ASSUME Typed, NEW c \in Conns, ConnOK(c),
           HmacCheck(c) \/ DeviceCheck(c) \/ BootstrapCheck(c)
    PROVE  Typed' /\ Frame(c) /\ ConnOK(c)'
<1>0. /\ UNCHANGED <<param, now, cpc, req, cut, muxed>> /\ Checked(c) /\ spc[c] \in Handshaking
    BY Zenon DEF HmacCheck, DeviceCheck, BootstrapCheck, CheckOnly, Handshaking
<1>1. /\ c \notin unsaved /\ ~Failed(c) /\ cpc[c] # "idle" /\ cpc[c] # "ok"
      /\ client[c].kind # "nobody"
    BY <1>0, BeforeVerdict, Zenon
<1>2. PICK r \in Answers, at \in Exits : Outcome(c, r, at)
    BY HmacOutcome, DeviceOutcome, BootstrapOutcome, Zenon
<1>3. PICK a \in Int : a = now - stamp[c]
    BY TypedFacts
<1>4. now \in Int /\ stamp[c] \in Int /\ stamp \in [Conns -> Int]
    BY TypedFacts, Zenon
<1>5. age' = [age EXCEPT ![c] = a] /\ stamp' \in [Conns -> Int]
    BY <1>0, <1>3, <1>4 DEF Checked
<1>6. /\ Typed' /\ Frame(c) /\ spc'[c] = at /\ reply'[c] = r /\ age'[c] = a
    <2>1. at \in Places /\ r \in {"none", "ok", "fail"}
        BY Zenon DEF Places, Exits, Answers
    <2>2. /\ reply' = [reply EXCEPT ![c] = r] /\ spc' = [spc EXCEPT ![c] = at]
          /\ unsaved' = unsaved \/ unsaved' = unsaved \cup {c}
          /\ ProbesOK' /\ \A d \in Conns \ {c} : Failed(d)' <=> Failed(d)
        BY <1>2, Zenon DEF Outcome
    <2>3. QED BY <1>0, <1>5, <2>1, <2>2, HandlerFrame, Zenon
<1>7. PhaseOK(c)' /\ FreshOK(c)'
    BY <1>0, <1>1, <1>6, Zenon DEF PhaseOK, FreshOK, param, Handshaking, Exits
<1>8. ToldOK(c)'
    BY <1>0, <1>1, <1>2, <1>6, Zenon DEF ToldOK, Outcome
<1>9. ClockOK(c)'
    <2>1. /\ client[c].kind = "device" /\ role = "serve" =>
                /\ client[c].good /\ DeviceFresh(stamp[c], now) => r = "ok"
                /\ ~DeviceFresh(stamp[c], now) => r = "fail"
          /\ client[c].kind = "hmac" =>
                /\ client[c].good /\ HmacFresh(stamp[c], now) => r # "fail"
                /\ ~HmacFresh(stamp[c], now) => r = "fail"
        BY <1>2, Zenon DEF Outcome
    <2>2. /\ a \in -30..30 => DeviceFresh(stamp[c], now)
          /\ a <= -60 \/ a >= 60 => ~DeviceFresh(stamp[c], now)
          /\ a \in 0..30 => HmacFresh(stamp[c], now)
          /\ a <= -60 \/ a >= 60 => ~HmacFresh(stamp[c], now)
        BY <1>3, <1>4, BucketFacts, Zenon
    <2>3. role' = role /\ client' = client
        BY <1>0, Zenon DEF param
    <2>4. QED BY <1>6, <2>1, <2>2, <2>3, Zenon DEF ClockOK
<1>10. QED BY <1>6, <1>7, <1>8, <1>9, Zenon DEF ConnOK

-----------------------------------------------------------------------------
(* The inductive invariant of the connections.                             *)

ConnInv == Typed /\ \A c \in Conns : ConnOK(c)

\* The initial states.
LEMMA ConnInit == Init => ConnInv
<1> SUFFICES ASSUME Init PROVE ConnInv
    OBVIOUS
<1>1. failures = <<>> /\ probes = <<>> /\ <<>> \in Seq(Conns) /\ Len(<<>>) = 0
    BY EmptySeq, Zenon DEF Init
<1>2. ProbeCap \in Nat /\ NoAge \in Int
    BY AdmissionAssumption DEF NoAge
<1>3. ProbesOK /\ \A c \in Conns : ~Failed(c)
    BY <1>1, <1>2 DEF ProbesOK, Failed
<1>4. Typed
    BY <1>2, <1>3 DEF Init, Typed
<1>5. ASSUME NEW c \in Conns PROVE ConnOK(c)
    <2>1. /\ cpc[c] = "idle" /\ spc[c] = "none" /\ reply[c] = "none"
          /\ age[c] = NoAge /\ c \notin unsaved
        BY Zenon DEF Init
    <2>2. QED BY <1>3, <2>1, Zenon DEF ConnOK, PhaseOK, FreshOK, ToldOK, ClockOK
<1>6. QED BY <1>4, <1>5, Zenon DEF ConnInv

\* Every step keeps it.
LEMMA ConnStep == ConnInv /\ [Next]_vars => ConnInv'
<1> SUFFICES ASSUME ConnInv, [Next]_vars PROVE ConnInv'
    OBVIOUS
<1>1. Typed /\ \A c \in Conns : ConnOK(c)
    BY Zenon DEF ConnInv
<1>2. ASSUME NEW c \in Conns, Typed', Frame(c), ConnOK(c)' PROVE ConnInv'
    BY <1>1, <1>2, OthersKeep, Zenon DEF ConnInv
<1>3. CASE UNCHANGED <<param, cpc, stamp, req, cut, spc, reply, probes, age, unsaved, muxed, failures>>
           /\ now' \in Times
    <2>1. Typed'
        BY <1>1, <1>3, Zenon DEF Typed, ProbesOK, param
    <2>2. \A c \in Conns : ConnOK(c)'
        BY <1>1, <1>3, ZenonT(40)
           DEF ConnOK, PhaseOK, FreshOK, ToldOK, ClockOK, Failed, param
    <2>3. QED BY <2>1, <2>2, Zenon DEF ConnInv
<1>4. CASE Tick
    <2>1. UNCHANGED <<param, cpc, stamp, req, cut, spc, reply, probes, age, unsaved, muxed, failures>>
          /\ now' \in Times
        BY <1>4, Zenon DEF Tick
    <2>2. QED BY <1>3, <2>1, Zenon
<1>5. CASE UNCHANGED vars
    <2>1. UNCHANGED <<param, cpc, stamp, req, cut, spc, reply, probes, age, unsaved, muxed, failures>>
          /\ now' \in Times
        BY <1>1, <1>5, Zenon DEF vars, Typed
    <2>2. QED BY <1>3, <2>1, Zenon
<1>6. ASSUME NEW c \in Conns,
             \/ Connect(c) \/ ClientStep(c) \/ ClientLeaves(c) \/ HandlerStep(c)
             \/ CloseSession(c) \/ ForwardEnds(c) \/ RequestArrives(c) \/ PathDies(c)
      PROVE  ConnInv'
    <2>1. CASE RequestArrives(c) \/ PathDies(c)
        BY <1>1, <1>2, <2>1, PathStep, Zenon
    <2>2. CASE Connect(c) \/ ClientStep(c) \/ ClientLeaves(c)
        BY <1>1, <1>2, <2>2, ClientStepOK, Zenon
    <2>3. CASE \/ MuxFails(c) \/ RecordSessionOpen(c) \/ OpenSession(c)
               \/ CloseSession(c) \/ RecordSessionClose(c) \/ ForwardEnds(c)
        BY <1>1, <1>2, <2>3, SessionStep, Zenon
    <2>4. CASE ServerDispatch(c) \/ ReadTimesOut(c) \/ ReadEnds(c)
        BY <1>1, <1>2, <2>4, DispatchStep, Zenon
    <2>5. CASE HmacCheck(c) \/ DeviceCheck(c) \/ BootstrapCheck(c)
        BY <1>1, <1>2, <2>5, CheckStep, Zenon
    <2>6. QED BY <1>6, <2>1, <2>2, <2>3, <2>4, <2>5, Zenon DEF HandlerStep
<1>7. QED BY <1>4, <1>5, <1>6, Zenon DEF Next

\* A client that was told OK has a handler that sets up its session or did so, or a
\* bootstrap that could not be saved; and the connection was never recorded as a probe
\* (ServerDispatch, handleConn).
THEOREM Told == Spec => []ToldMeansAdmitted
<1>1. ConnInv => ToldMeansAdmitted
    <2> SUFFICES ASSUME ConnInv, NEW c \in Conns, cpc[c] = "ok"
                 PROVE  /\ spc[c] = "admitted" \/ c \in muxed \/ c \in unsaved
                        /\ \A i \in DOMAIN failures : failures[i] # c
        BY Zenon DEF ToldMeansAdmitted
    <2>1. (spc[c] = "admitted" \/ c \in muxed \/ c \in unsaved) /\ ~Failed(c)
        BY Zenon DEF ConnInv, ConnOK, ToldOK
    <2>2. DOMAIN failures = 1..Len(failures)
        BY LenProperties, Zenon DEF ConnInv, Typed, ProbesOK
    <2>3. QED BY <2>1, <2>2, Zenon DEF Failed
<1>2. QED BY <1>1, ConnInit, ConnStep, PTL DEF Spec

\* The clock tolerances of the device and the PSK handshake are those ClockTolerance
\* states in seconds, for every pair of clocks (bucket comparisons of device.go and
\* hmac.go).
THEOREM Clocks == Spec => []ClockTolerance
<1>1. ConnInv => ClockTolerance
    BY Zenon DEF ConnInv, ConnOK, ClockOK, ClockTolerance
<1>2. QED BY <1>1, ConnInit, ConnStep, PTL DEF Spec

-----------------------------------------------------------------------------
(* The records.                                                            *)

Active == {c \in Conns : spc[c] \in {"counted", "serving", "leaving"}}
Shown == {c \in Conns : role = "serve" /\ spc[c] = "serving"}

\* The gauge and the session records.
RecordsOK == sessions = Shown /\ gauge = Cardinality(Active)

LEMMA ActiveFinite == IsFiniteSet(Active) /\ Cardinality(Active) \in Nat
<1>1. IsFiniteSet(Conns) /\ Active \in SUBSET Conns
    BY AdmissionAssumption, Zenon DEF Active
<1>2. QED BY <1>1, FS_Subset, FS_CardinalityType, Zenon

\* A step of c between places that neither record knows of.
LEMMA RecordsQuiet ==
    ASSUME NEW c \in Conns, Frame(c), UNCHANGED <<gauge, sessions>>, RecordsOK,
           spc[c] \notin {"counted", "serving", "leaving"},
           spc'[c] \notin {"counted", "serving", "leaving"}
    PROVE  RecordsOK'
<1>1. role' = role /\ \A d \in Conns \ {c} : spc'[d] = spc[d]
    BY Zenon DEF Frame, param
<1>2. Active' = Active /\ Shown' = Shown
    BY <1>1, Zenon DEF Active, Shown
<1>3. QED BY <1>2, Zenon DEF RecordsOK

LEMMA RecordsStep == ConnInv /\ RecordsOK /\ [Next]_vars => RecordsOK'
<1> SUFFICES ASSUME ConnInv, RecordsOK, [Next]_vars PROVE RecordsOK'
    OBVIOUS
<1>1. Typed /\ \A c \in Conns : ConnOK(c)
    BY Zenon DEF ConnInv
<1>2. sessions = Shown /\ gauge = Cardinality(Active) /\ spc \in [Conns -> Places]
    BY <1>1, TypedFacts, Zenon DEF RecordsOK
<1>3. CASE Tick \/ UNCHANGED vars
    <2>1. UNCHANGED <<role, spc, sessions, gauge>>
        BY <1>3, Zenon DEF Tick, vars, param
    <2>2. QED BY <1>2, <2>1, Zenon DEF RecordsOK, Active, Shown
<1>4. ASSUME NEW c \in Conns, RequestArrives(c) \/ PathDies(c) \/ ClientStep(c) \/ ClientLeaves(c)
      PROVE  RecordsOK'
    <2>1. UNCHANGED <<role, spc, sessions, gauge>>
        BY <1>4, Zenon DEF RequestArrives, PathDies, ClientStep, ClientSend, ClientReads,
              ClientReadEnds, ClientTimesOut, ClientLeaves, ClientOnly, param
    <2>2. QED BY <1>2, <2>1, Zenon DEF RecordsOK, Active, Shown
<1>5. ASSUME NEW c \in Conns, Connect(c) PROVE RecordsOK'
    <2>1. spc[c] = "none" /\ UNCHANGED <<gauge, sessions>>
        BY <1>1, <1>5, Zenon DEF Connect, Client, ConnOK, PhaseOK
    <2>2. spc'[c] \in {"hmac", "version"}
        BY <1>2, <1>5, Zenon DEF Connect
    <2>3. Frame(c)
        BY <1>1, <1>5, ClientStepOK, Zenon
    <2>4. QED BY <2>1, <2>2, <2>3, RecordsQuiet, Zenon
<1>6. ASSUME NEW c \in Conns, ServerDispatch(c) \/ ReadTimesOut(c) \/ ReadEnds(c)
      PROVE  RecordsOK'
    <2>1. spc[c] \in Handshaking /\ UNCHANGED <<gauge, sessions>>
        BY <1>6, Zenon DEF ServerDispatch, ReadTimesOut, ReadEnds, CheckOnly, Handshaking
    <2>2. Frame(c) /\ PhaseOK(c)'
        BY <1>1, <1>6, DispatchStep, Zenon DEF ConnOK
    <2>3. spc'[c] \in {"hmac", "device", "bootstrap", "closed", "forward"}
        <3>1. CASE ReadTimesOut(c) \/ ReadEnds(c)
            BY <1>2, <3>1, Zenon DEF ReadTimesOut, ReadEnds, Refuse, Return
        <3>2. CASE ServerDispatch(c)
            <4>1. client[c].kind \in Kinds /\ client[c].kind # "nobody"
                BY <1>1, <2>1, TypedFacts, BeforeVerdict, Zenon
            <4>2. CASE AuthFailed(c)
                BY <1>1, <1>2, <4>2, AuthFailedStep, Zenon
            <4>3. CASE ~AuthFailed(c)
                <5>1. spc' = [spc EXCEPT ![c] = client[c].kind]
                      /\ client[c].kind \in {"hmac", "device", "bootstrap"}
                    BY <3>2, <4>1, <4>3, Zenon DEF ServerDispatch, Kinds
                <5>2. QED BY <1>2, <5>1, Zenon
            <4>4. QED BY <4>2, <4>3, Zenon
        <3>3. QED BY <1>6, <3>1, <3>2, Zenon
    <2>4. QED BY <2>1, <2>2, <2>3, RecordsQuiet, Zenon DEF Handshaking
<1>7. ASSUME NEW c \in Conns, HmacCheck(c) \/ DeviceCheck(c) \/ BootstrapCheck(c)
      PROVE  RecordsOK'
    <2>1. spc[c] \in Handshaking /\ UNCHANGED <<gauge, sessions>>
        BY <1>7, Zenon DEF HmacCheck, DeviceCheck, BootstrapCheck, CheckOnly, Handshaking
    <2>2. PICK r \in Answers, at \in Exits : Outcome(c, r, at)
        BY <1>1, <1>7, HmacOutcome, DeviceOutcome, BootstrapOutcome, ZenonT(40)
    <2>3. spc'[c] = at
        BY <1>2, <2>2, Zenon DEF Outcome
    <2>4. Frame(c)
        BY <1>1, <1>7, CheckStep, Zenon
    <2>5. QED BY <2>1, <2>3, <2>4, RecordsQuiet, Zenon DEF Handshaking, Exits
<1>8. ASSUME NEW c \in Conns, MuxFails(c) \/ ForwardEnds(c) PROVE RecordsOK'
    <2>1. /\ spc[c] \in {"admitted", "forward"} /\ UNCHANGED <<gauge, sessions>>
          /\ spc' = [spc EXCEPT ![c] = "closed"]
        BY <1>8, Zenon DEF MuxFails, ForwardEnds, Return
    <2>2. Frame(c)
        BY <1>1, <1>8, SessionStep, Zenon
    <2>3. QED BY <1>2, <2>1, <2>2, RecordsQuiet, Zenon
<1>9. ASSUME NEW c \in Conns, RecordSessionOpen(c) PROVE RecordsOK'
    <2>1. /\ spc[c] = "admitted" /\ sessions' = sessions /\ gauge' = gauge + 1 /\ role' = role
          /\ spc' = [spc EXCEPT ![c] = IF role = "serve" THEN "counted" ELSE "serving"]
        BY <1>9, Zenon DEF RecordSessionOpen, HandlerOnly, param
    <2>2. Shown' = Shown /\ Active' = Active \cup {c} /\ c \notin Active
        BY <1>2, <2>1, Zenon DEF Shown, Active
    <2>3. Cardinality(Active') = Cardinality(Active) + 1
        BY <2>2, ActiveFinite, FS_AddElement, Zenon
    <2>4. QED BY <1>2, <2>1, <2>2, <2>3, Zenon DEF RecordsOK
<1>10. ASSUME NEW c \in Conns, OpenSession(c) PROVE RecordsOK'
    <2>1. /\ spc[c] = "counted" /\ sessions' = sessions \cup {c} /\ gauge' = gauge /\ role' = role
          /\ spc' = [spc EXCEPT ![c] = "serving"]
        BY <1>10, Zenon DEF OpenSession, HandlerOnly, param
    <2>2. role = "serve"
        BY <1>1, <2>1, Zenon DEF ConnOK, PhaseOK
    <2>3. Shown' = Shown \cup {c} /\ Active' = Active
        BY <1>2, <2>1, <2>2, Zenon DEF Shown, Active
    <2>4. QED BY <1>2, <2>1, <2>3, Zenon DEF RecordsOK
<1>11. ASSUME NEW c \in Conns, CloseSession(c) PROVE RecordsOK'
    <2>1. /\ spc[c] = "serving" /\ sessions' = sessions \ {c} /\ gauge' = gauge /\ role' = role
          /\ spc' = [spc EXCEPT ![c] = "leaving"]
        BY <1>11, Zenon DEF CloseSession, HandlerOnly, param
    <2>2. Shown' = Shown \ {c} /\ Active' = Active
        BY <1>2, <2>1, Zenon DEF Shown, Active
    <2>3. QED BY <1>2, <2>1, <2>2, Zenon DEF RecordsOK
<1>12. ASSUME NEW c \in Conns, RecordSessionClose(c) PROVE RecordsOK'
    <2>1. /\ spc[c] = "leaving" /\ sessions' = sessions /\ gauge' = gauge - 1 /\ role' = role
          /\ spc' = [spc EXCEPT ![c] = "closed"]
        BY <1>12, Zenon DEF RecordSessionClose, HandlerOnly, Return, param
    <2>2. Shown' = Shown /\ Active' = Active \ {c} /\ c \in Active
        BY <1>2, <2>1, Zenon DEF Shown, Active
    <2>3. Cardinality(Active') = Cardinality(Active) - 1
        BY <2>2, ActiveFinite, FS_RemoveElement, Zenon
    <2>4. QED BY <1>2, <2>1, <2>2, <2>3, Zenon DEF RecordsOK
<1>13. QED BY <1>3, <1>4, <1>5, <1>6, <1>7, <1>8, <1>9, <1>10, <1>11, <1>12, ZenonT(40)
           DEF Next, HandlerStep

AdmissionInv == ConnInv /\ RecordsOK

\* AdmissionInv is inductive.
LEMMA AdmissionInvariant == Spec => []AdmissionInv
<1>1. Init => RecordsOK
    <2> SUFFICES ASSUME Init PROVE RecordsOK
        OBVIOUS
    <2>1. Active = {} /\ Shown = {} /\ sessions = {} /\ gauge = 0
        BY Zenon DEF Init, Active, Shown
    <2>2. QED BY <2>1, FS_EmptySet, Zenon DEF RecordsOK
<1>2. AdmissionInv /\ [Next]_vars => AdmissionInv'
    BY ConnStep, RecordsStep, Zenon DEF AdmissionInv
<1>3. Init => AdmissionInv
    BY <1>1, ConnInit, Zenon DEF AdmissionInv
<1>4. QED BY <1>2, <1>3, PTL DEF Spec

\* The session records, the gauge and the probe record always show what happened, for
\* any number of connections and any ProbeCap (OpenSession, CloseSession and
\* RecordProbe of collector.go, the gauge of handleConn).
THEOREM Telemetry == Spec => []TelemetryTrue
<1>1. AdmissionInv => TelemetryTrue
    <2> SUFFICES ASSUME AdmissionInv PROVE TelemetryTrue
        OBVIOUS
    <2>1. ProbesOK /\ RecordsOK
        BY Zenon DEF AdmissionInv, ConnInv, Typed
    <2>2. QED BY <2>1, ProbesNewest, Zenon DEF RecordsOK, Active, Shown, TelemetryTrue
<1>2. QED BY <1>1, AdmissionInvariant, PTL

\* Every variable keeps its type; in particular the gauge is never negative.
THEOREM AdmissionTypes == Spec => []TypeOK
<1>1. AdmissionInv => TypeOK
    <2> SUFFICES ASSUME AdmissionInv PROVE TypeOK
        OBVIOUS
    <2>1. Typed /\ RecordsOK /\ ProbesOK
        BY Zenon DEF AdmissionInv, ConnInv, Typed
    <2>2. gauge \in Nat /\ sessions \subseteq Conns
        BY <2>1, ActiveFinite, Zenon DEF RecordsOK, Shown
    <2>3. Len(probes) <= ProbeCap
        BY <2>1, ProbesNewest, Zenon
    <2>4. QED BY <2>1, <2>2, <2>3, Zenon DEF Typed, ProbesOK, TypeOK
<1>2. QED BY <1>1, AdmissionInvariant, PTL
=============================================================================
