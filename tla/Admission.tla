----------------------------- MODULE Admission ------------------------------
(***************************************************************************)
(* How a connection is admitted: the three handshakes of internal/auth,    *)
(* both sides, handleConn of the server (and of the relay) around them,    *)
(* and the session and probe records of internal/telemetry.                *)
(*                                                                         *)
(* Every connection has a client and a handler.  Between them the path may *)
(* deliver a request in two parts, or die without either side being told.  *)
(* Deadlines are actions that may fire at any time.  The clocks matter for *)
(* the 30 s buckets only: `now' is the server's, in seconds, the client of *)
(* c is ahead by c's skew.                                                 *)
(*                                                                         *)
(* What the registry answers is left open (Registry has the details); so   *)
(* is what happens inside a session (StreamPath).                          *)
(***************************************************************************)
EXTENDS Integers, Sequences, FiniteSets

Kinds == {"hmac", "device", "bootstrap", "other", "nobody"}

CONSTANTS
    Conns,      \* connections
    Scenes,     \* who connects: functions from Conns to Clients
    Times,      \* instants of the server's clock
    ProbeCap    \* probe events that are kept (1000)

ASSUME AdmissionAssumption ==
    /\ IsFiniteSet(Conns)
    /\ Scenes \subseteq [Conns -> [kind : Kinds, good : BOOLEAN, skew : Int]]
    /\ Times \subseteq Nat /\ Times # {}
    /\ ProbeCap \in Nat \ {0}

VARIABLES
    role,      \* "serve", "daxsond" (no registry, no telemetry) or "relay"
    client,    \* conn -> who connects
    now,       \* the server's clock
    cpc,       \* conn -> where the client is
    stamp,     \* conn -> the client's time when it made its request
    req,       \* conn -> how much of the request has arrived
    cut,       \* conns whose path is dead, unnoticed
    spc,       \* conn -> where the handler is
    reply,     \* conn -> the status byte on its way to the client
    gauge,     \* sessionsActive of the metrics
    sessions,  \* sessions of the Collector
    probes,    \* probe events of the Collector
    age,       \* history: the handler's time less the stamp, at the check
    unsaved,   \* history: bootstraps answered OK whose save failed
    muxed,     \* history: conns whose handler went on to NewServerSession
    failures   \* history: all probe events

param == <<role, client>>
vars == <<param, now, cpc, stamp, req, cut, spc, reply, gauge, sessions, probes,
          age, unsaved, muxed, failures>>

NoAge == 1000000

Bucket(t) == t \div 30

\* The device's bucket may be the handler's or one next to it.
DeviceFresh(t, s) == Bucket(t) >= Bucket(s) - 1 /\ Bucket(t) <= Bucket(s) + 1

\* A PSK token is compared with those of the bucket of now and of 30 s ago.
HmacFresh(t, s) == Bucket(t) \in {Bucket(s), Bucket(s - 30)}

Init ==
    /\ role \in {"serve", "daxsond", "relay"}
    /\ client \in Scenes
    /\ now \in Times
    /\ cpc = [c \in Conns |-> "idle"]
    /\ stamp = [c \in Conns |-> 0]
    /\ req = [c \in Conns |-> "none"]
    /\ cut = {}
    /\ spc = [c \in Conns |-> "none"]
    /\ reply = [c \in Conns |-> "none"]
    /\ gauge = 0 /\ sessions = {} /\ probes = <<>>
    /\ age = [c \in Conns |-> NoAge] /\ unsaved = {} /\ muxed = {}
    /\ failures = <<>>

-----------------------------------------------------------------------------
(* The path and the clock.                                                 *)

Tick ==
    /\ \E t \in Times : t > now /\ now' = t
    /\ UNCHANGED <<param, cpc, stamp, req, cut, spc, reply, gauge, sessions, probes,
                   age, unsaved, muxed, failures>>

\* The first byte of the request arrives, or the rest.
RequestArrives(c) ==
    /\ cpc[c] # "idle" /\ cpc[c] # "dialled" /\ c \notin cut
    /\ \/ req[c] = "none" /\ \E r \in {"first", "whole"} : req' = [req EXCEPT ![c] = r]
       \/ req[c] = "first" /\ req' = [req EXCEPT ![c] = "whole"]
    /\ UNCHANGED <<param, now, cpc, stamp, cut, spc, reply, gauge, sessions, probes,
                   age, unsaved, muxed, failures>>

PathDies(c) ==
    /\ spc[c] # "none" /\ c \notin cut
    /\ cut' = cut \cup {c}
    /\ UNCHANGED <<param, now, cpc, stamp, req, spc, reply, gauge, sessions, probes,
                   age, unsaved, muxed, failures>>

-----------------------------------------------------------------------------
(* The client: ClientHandshake, DeviceAuth.Handshake, BootstrapClient.     *)

Client(c, from, to) == cpc[c] = from /\ cpc' = [cpc EXCEPT ![c] = to]
ClientOnly == UNCHANGED <<param, now, req, cut, spc, reply, gauge, sessions, probes,
                          age, unsaved, muxed, failures>>

\* The listener accepts.  The relay goes to the PSK handshake at once, the server
\* looks at the first byte.
Connect(c) ==
    /\ client[c].kind # "nobody" /\ Client(c, "idle", "dialled")
    /\ spc' = [spc EXCEPT ![c] = IF role = "relay" THEN "hmac" ELSE "version"]
    /\ UNCHANGED <<param, now, stamp, req, cut, reply, gauge, sessions, probes,
                   age, unsaved, muxed, failures>>

ClientSend(c) ==
    /\ Client(c, "dialled", "waiting")
    /\ stamp' = [stamp EXCEPT ![c] = now + client[c].skew]
    /\ ClientOnly

ClientReads(c) ==
    /\ c \notin cut /\ reply[c] # "none"
    /\ Client(c, "waiting", IF reply[c] = "ok" THEN "ok" ELSE "failed")
    /\ ClientOnly /\ UNCHANGED stamp

\* A handler that returned has closed the connection.
ClientReadEnds(c) ==
    /\ c \notin cut /\ reply[c] = "none" /\ spc[c] = "closed"
    /\ Client(c, "waiting", "failed")
    /\ ClientOnly /\ UNCHANGED stamp

\* 10 s for a device, 15 s for a bootstrap; the PSK handshake has no deadline.
ClientTimesOut(c) ==
    /\ client[c].kind \in {"device", "bootstrap"}
    /\ Client(c, "waiting", "failed")
    /\ ClientOnly /\ UNCHANGED stamp

\* An unrelated client, or one that was admitted, leaves.
ClientLeaves(c) ==
    /\ cpc[c] = "ok" \/ (cpc[c] = "waiting" /\ client[c].kind = "other")
    /\ cpc' = [cpc EXCEPT ![c] = "failed"]
    /\ ClientOnly /\ UNCHANGED stamp

-----------------------------------------------------------------------------
(* The handler: handleConn and what it calls.                              *)

\* Nothing is left to read and the client has closed.
ConnEnds(c) == cpc[c] = "failed" /\ c \notin cut

\* The defers of handleConn before a session exists: the connection is closed.
Return(c) == spc' = [spc EXCEPT ![c] = "closed"]

RecordProbe(c) ==
    /\ failures' = Append(failures, c)
    /\ LET p == Append(probes, c)
       IN  probes' = IF Len(p) > ProbeCap
                     THEN SubSeq(p, Len(p) - ProbeCap + 1, Len(p)) ELSE p

\* errAuthFailed: the server records a probe and passes the connection to the probe
\* upstream, if there is one and it can be dialled; the relay returns.
AuthFailed(c) ==
    /\ IF role = "serve" THEN RecordProbe(c) ELSE UNCHANGED <<probes, failures>>
    /\ \/ Return(c)
       \/ role # "relay" /\ spc' = [spc EXCEPT ![c] = "forward"]

Reply(c, s) == reply' = [reply EXCEPT ![c] = s]
Admit(c) == spc' = [spc EXCEPT ![c] = "admitted"] /\ UNCHANGED <<probes, failures>>
Refuse(c) == Return(c) /\ UNCHANGED <<probes, failures>>
CheckOnly == UNCHANGED <<param, now, cpc, req, cut, gauge, sessions, muxed>>
NotChecked == UNCHANGED <<stamp, age, unsaved>>

\* The moment of the check; the stamp is of no use afterwards.
Checked(c) ==
    /\ age' = [age EXCEPT ![c] = now - stamp[c]]
    /\ stamp' = [stamp EXCEPT ![c] = 0]

\* ServerDispatch: the first byte decides.
ServerDispatch(c) ==
    /\ spc[c] = "version" /\ req[c] # "none"
    /\ CASE client[c].kind = "hmac" ->
              /\ spc' = [spc EXCEPT ![c] = "hmac"]
              /\ UNCHANGED <<reply, probes, failures>>
         [] client[c].kind = "other" -> AuthFailed(c) /\ UNCHANGED reply
         [] OTHER ->
              IF role = "serve"
              THEN /\ spc' = [spc EXCEPT ![c] = client[c].kind]
                   /\ UNCHANGED <<reply, probes, failures>>
              ELSE Reply(c, "fail") /\ AuthFailed(c)
    /\ CheckOnly /\ NotChecked

\* A mistake: the server puts no deadline on the rest of a request either.
ReadTimesOutEarly(c) ==
    /\ spc[c] = "version" \/ (role = "relay" /\ spc[c] = "hmac")
    /\ req[c] # "whole" /\ (spc[c] = "version" => req[c] = "none")
    /\ Refuse(c) /\ CheckOnly /\ NotChecked /\ UNCHANGED reply

\* A read deadline passes: 15 s for the first byte, 10 s or 15 s for the rest of a
\* device or bootstrap request.  ServerDispatch has cleared the deadline before the
\* rest of a PSK request is read; at the relay the one of the connection stands.
ReadTimesOut(c) ==
    /\ spc[c] \in {"version", "device", "bootstrap"} \/ (role = "relay" /\ spc[c] = "hmac")
    /\ req[c] # "whole" /\ (spc[c] = "version" => req[c] = "none")
    /\ Refuse(c) /\ CheckOnly /\ NotChecked /\ UNCHANGED reply

\* The client has closed before the request was complete.
ReadEnds(c) ==
    /\ spc[c] \in {"version", "hmac", "device", "bootstrap"} /\ ConnEnds(c)
    /\ req[c] # "whole" /\ (spc[c] = "version" => req[c] = "none")
    /\ Refuse(c) /\ CheckOnly /\ NotChecked /\ UNCHANGED reply

\* ServerHandshake.  The relay sends every request here, whatever its version byte.
\* The write of the answer may fail, and then there is no session.
HmacCheck(c) ==
    /\ spc[c] = "hmac" /\ req[c] = "whole"
    /\ Checked(c)
    /\ IF client[c].kind = "hmac" /\ client[c].good /\ HmacFresh(stamp[c], now)
       THEN \/ Reply(c, "ok") /\ Admit(c)
            \/ (ConnEnds(c) \/ c \in cut) /\ Refuse(c) /\ UNCHANGED reply
       ELSE Reply(c, "fail") /\ AuthFailed(c)
    /\ CheckOnly /\ UNCHANGED unsaved

\* A mistake: the bound on the other side is forgotten.
DeviceCheckOneSided(c) ==
    /\ spc[c] = "device" /\ req[c] = "whole"
    /\ Checked(c)
    /\ \/ /\ ~(Bucket(stamp[c]) <= Bucket(now) + 1)
          /\ Reply(c, "fail") /\ Refuse(c)
       \/ /\ Bucket(stamp[c]) <= Bucket(now) + 1
          /\ IF client[c].good THEN Reply(c, "ok") /\ Admit(c)
                               ELSE Reply(c, "fail") /\ AuthFailed(c)
    /\ CheckOnly /\ UNCHANGED unsaved

\* A mistake: the answer is written before AuthorizeDevice is asked.
DeviceCheckRepliesFirst(c) ==
    /\ spc[c] = "device" /\ req[c] = "whole"
    /\ Checked(c)
    /\ IF DeviceFresh(stamp[c], now)
       THEN Reply(c, "ok") /\ (IF client[c].good THEN Admit(c) ELSE AuthFailed(c))
       ELSE Reply(c, "fail") /\ Refuse(c)
    /\ CheckOnly /\ UNCHANGED unsaved

\* deviceServerHandshake.  A stale bucket and a bad signature are plain errors; a
\* device the registry refuses counts as a probe.  Whether the answer can be
\* written is not looked at.
DeviceCheck(c) ==
    /\ spc[c] = "device" /\ req[c] = "whole"
    /\ Checked(c)
    /\ IF ~DeviceFresh(stamp[c], now)
       THEN Reply(c, "fail") /\ Refuse(c)
       ELSE IF client[c].good
            THEN Reply(c, "ok") /\ Admit(c)
            ELSE Reply(c, "fail") /\ (Refuse(c) \/ AuthFailed(c))
    /\ CheckOnly /\ UNCHANGED unsaved

\* bootstrapServerHandshake.  Bootstrap answers OK also when its save fails; then
\* the client is told OK and the handler returns.
BootstrapCheck(c) ==
    /\ spc[c] = "bootstrap" /\ req[c] = "whole"
    /\ Checked(c)
    /\ \/ client[c].good /\ Reply(c, "ok") /\ Admit(c) /\ UNCHANGED unsaved
       \/ /\ client[c].good /\ Reply(c, "ok") /\ Refuse(c)
          /\ unsaved' = unsaved \cup {c}
       \/ ~client[c].good /\ Reply(c, "fail") /\ AuthFailed(c) /\ UNCHANGED unsaved
    /\ CheckOnly

HandlerOnly == UNCHANGED <<param, now, cpc, stamp, req, cut, reply, probes, age,
                           unsaved, failures>>

\* Relay between the client and the probe upstream ends when either side closes.
ForwardEnds(c) ==
    /\ spc[c] = "forward"
    /\ Return(c)
    /\ HandlerOnly /\ UNCHANGED <<gauge, sessions, muxed>>

\* NewServerSession fails, or the session is counted.
MuxFails(c) ==
    /\ spc[c] = "admitted"
    /\ Return(c) /\ muxed' = muxed \cup {c}
    /\ HandlerOnly /\ UNCHANGED <<gauge, sessions>>

RecordSessionOpen(c) ==
    /\ spc[c] = "admitted"
    /\ spc' = [spc EXCEPT ![c] = IF role = "serve" THEN "counted" ELSE "serving"]
    /\ gauge' = gauge + 1 /\ muxed' = muxed \cup {c}
    /\ HandlerOnly /\ UNCHANGED sessions

OpenSession(c) ==
    /\ spc[c] = "counted"
    /\ spc' = [spc EXCEPT ![c] = "serving"]
    /\ sessions' = sessions \cup {c}
    /\ HandlerOnly /\ UNCHANGED <<gauge, muxed>>

\* A mistake: the record of the session stays.
CloseSessionForgotten(c) ==
    /\ spc[c] = "serving"
    /\ spc' = [spc EXCEPT ![c] = "leaving"]
    /\ HandlerOnly /\ UNCHANGED <<gauge, sessions, muxed>>

\* AcceptStream returns an error: the client closed, the path died (smux keepalive)
\* or the connection failed.  The defers run in reverse order.
CloseSession(c) ==
    /\ spc[c] = "serving"
    /\ spc' = [spc EXCEPT ![c] = "leaving"]
    /\ sessions' = sessions \ {c}
    /\ HandlerOnly /\ UNCHANGED <<gauge, muxed>>

RecordSessionClose(c) ==
    /\ spc[c] = "leaving"
    /\ Return(c)
    /\ gauge' = gauge - 1
    /\ HandlerOnly /\ UNCHANGED <<sessions, muxed>>

-----------------------------------------------------------------------------
ClientStep(c) ==
    ClientSend(c) \/ ClientReads(c) \/ ClientReadEnds(c) \/ ClientTimesOut(c)

HandlerStep(c) ==
    \/ ServerDispatch(c) \/ ReadTimesOut(c) \/ ReadEnds(c)
    \/ HmacCheck(c) \/ DeviceCheck(c) \/ BootstrapCheck(c)
    \/ MuxFails(c) \/ RecordSessionOpen(c) \/ OpenSession(c) \/ RecordSessionClose(c)

Next ==
    \/ Tick
    \/ \E c \in Conns :
          \/ Connect(c) \/ ClientStep(c) \/ ClientLeaves(c) \/ HandlerStep(c)
          \/ CloseSession(c) \/ ForwardEnds(c) \/ RequestArrives(c) \/ PathDies(c)

Spec == Init /\ [][Next]_vars

\* Goroutines run and deadlines pass.  The path owes nothing, and a session or a
\* forwarded connection may last.
FairSpec ==
    Spec /\ \A c \in Conns : WF_vars(ClientStep(c)) /\ WF_vars(HandlerStep(c))

-----------------------------------------------------------------------------
(* Properties.                                                             *)

\* Every variable keeps its type.
TypeOK ==
    /\ role \in {"serve", "daxsond", "relay"} /\ client \in Scenes
    /\ now \in Times
    /\ cpc \in [Conns -> {"idle", "dialled", "waiting", "ok", "failed"}]
    /\ stamp \in [Conns -> Int] /\ req \in [Conns -> {"none", "first", "whole"}]
    /\ cut \subseteq Conns
    /\ spc \in [Conns -> {"none", "version", "hmac", "device", "bootstrap", "admitted",
                          "counted", "serving", "leaving", "forward", "closed"}]
    /\ reply \in [Conns -> {"none", "ok", "fail"}]
    /\ gauge \in Nat /\ sessions \subseteq Conns
    /\ probes \in Seq(Conns) /\ failures \in Seq(Conns) /\ Len(probes) <= ProbeCap
    /\ age \in [Conns -> Int] /\ unsaved \subseteq Conns /\ muxed \subseteq Conns

Handshaking == {"version", "hmac", "device", "bootstrap"}

\* A client that was told OK has a handler that goes on to set up the session, or
\* that did: no handler answers OK and then gives the connection up or treats it as a
\* probe.  The one exception is a bootstrap whose save failed after the answer.
ToldMeansAdmitted ==
    \A c \in Conns : cpc[c] = "ok" =>
        /\ spc[c] = "admitted" \/ c \in muxed \/ c \in unsaved
        /\ \A i \in DOMAIN failures : failures[i] # c

\* A device whose clock and delay add up to 30 s or less, in either direction, is
\* never refused for its time bucket, and one that is 60 s or more off always is
\* ("accept current and adjacent buckets (+-30s)", device.go).  A PSK client may be
\* up to 30 s late and is refused at 60 s either way.  Nothing is said of one that is
\* early by less: hmac.go speaks of one bucket to each side, and ServerHandshake
\* accepts the current one and the one before.
ClockTolerance ==
    \A c \in Conns :
        /\ client[c].kind = "device" /\ role = "serve" /\ age[c] # NoAge =>
              /\ client[c].good /\ age[c] \in -30..30 => reply[c] = "ok"
              /\ age[c] <= -60 \/ age[c] >= 60 => reply[c] = "fail"
        /\ client[c].kind = "hmac" /\ age[c] # NoAge =>
              /\ client[c].good /\ age[c] \in 0..30 => reply[c] # "fail"
              /\ age[c] <= -60 \/ age[c] >= 60 => reply[c] = "fail"

\* What the dashboard and the metrics show is what happened: a session record for
\* every handler between OpenSession and CloseSession, the gauge ahead of the records
\* only by handlers between the two; and the newest probe events, oldest first
\* ("Keep only the last 1000 probe events", collector.go).
TelemetryTrue ==
    /\ sessions = {c \in Conns : role = "serve" /\ spc[c] = "serving"}
    /\ gauge = Cardinality({c \in Conns : spc[c] \in {"counted", "serving", "leaving"}})
    /\ probes = SubSeq(failures, Len(failures) - Len(probes) + 1, Len(failures))
    /\ Len(failures) >= ProbeCap => Len(probes) = ProbeCap

\* Both sides leave the handshake, whatever the path does.  The exceptions are the
\* PSK reads without a deadline: a server that has the first byte only, and a
\* client whose path died or whose server is such a one.
HandshakeEnds ==
    \A c \in Conns :
        LET stalled == role # "relay" /\ spc[c] = "hmac" /\ req[c] # "whole"
        IN  /\ spc[c] \in Handshaking ~> spc[c] \notin Handshaking \/ stalled
            /\ cpc[c] = "waiting" /\ client[c].kind \in {"device", "bootstrap"}
                 ~> cpc[c] # "waiting"
            /\ cpc[c] = "waiting" /\ client[c].kind = "hmac"
                 ~> cpc[c] # "waiting" \/ c \in cut \/ stalled
=============================================================================
