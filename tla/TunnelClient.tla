--------------------------- MODULE TunnelClient ---------------------------
(***************************************************************************)
(* The long-lived client of internal/tunnel/client.go: Run dials, keeps    *)
(* one mux session and redials with backoff; proxy handlers call           *)
(* OpenStream, which waits for a session in waitSession.                   *)
(*                                                                         *)
(* Run is one goroutine and every opener is another.  c.session is guarded *)
(* by c.mu, so reading or replacing it is one step; everything between two *)
(* lock regions is a step of its own.  Sessions are numbered in the order  *)
(* they are made; "live" holds the ones the mux has not closed.  Time is   *)
(* the order of the steps.                                                 *)
(***************************************************************************)
EXTENDS Integers

CONSTANTS
    Openers,        \* goroutines that call OpenStream
    Configs,        \* what a client may be built with
    BaseDelay,      \* reconnect.base_delay
    MaxDelay,       \* reconnect.max_delay
    MulNum,         \* reconnect.multiplier is MulNum / MulDen, 1.5 for instance
    MulDen,
    MaxOutages,     \* bound: how often the path to the server fails
    AttemptCap      \* bound: the attempt counter stops growing here

ASSUME DelayAssumption ==
    /\ BaseDelay \in Nat /\ MaxDelay \in Nat
    /\ MulNum \in Nat /\ MulDen \in Nat \ {0}

\* In a configuration retries is reconnect.max_retries (-1 is unlimited), auth the
\* ClientAuth in use ("device" or "hmac"), muxOK whether smux accepts the frame and
\* buffer sizes.
ASSUME ConfigAssumption ==
    \A c \in Configs : c.auth \in {"device", "hmac"} /\ c.muxOK \in BOOLEAN

ASSUME RetryAssumption ==
    /\ AttemptCap \in Nat /\ MaxOutages \in Nat
    /\ \A c \in Configs : c.retries \in Int /\ c.retries < AttemptCap

Min2(a, b) == IF a <= b THEN a ELSE b

\* The delay after a delay of d: multiplied, cut at max_delay, whole again.
NextDelay(d) == Min2(MaxDelay, (d * MulNum) \div MulDen)

\* What Run adds to a delay: less than a quarter of it.
Jitters(d) == IF d <= 0 THEN {0} ELSE 0..(d \div 4 - 1)

\* The delay when n delays have passed since the last success.  The first is
\* base_delay, also where that is more than max_delay.
NthDelay[n \in Nat] == IF n = 0 THEN BaseDelay ELSE NextDelay(NthDelay[n - 1])

\* The counters stop where the delay does.  The first two lines are the recursion.
ASSUME StepAssumption ==
    /\ AttemptCap >= 1 /\ NthDelay[0] = BaseDelay
    /\ \A n \in 0..AttemptCap : NthDelay[n + 1] = NextDelay(NthDelay[n])
    /\ NthDelay[AttemptCap] = NthDelay[AttemptCap - 1]

\* rand.Int63n(0) panics: no delay is as short as 1, 2 or 3 (nanoseconds).
ASSUME JitterAssumption == \A n \in 0..AttemptCap : Jitters(NthDelay[n]) # {}

VARIABLES
    conf,       \* what the client was built with
    rpc,        \* where Run is
    attempt,    \* attempt in Run
    backoff,    \* backoff in Run
    timer,      \* what Run waits for in its select; 0 elsewhere
    session,    \* c.session; 0 is nil
    old,        \* the session that connect replaced and closes next; 0 if none
    live,       \* sessions the mux has not closed
    opc,        \* where an opener is
    osess,      \* the session an opener works with
    streams,    \* openers that hold an open mux stream
    pathUp,     \* whether the server is reachable and accepts this client
    outages,    \* how often it stopped being so
    cancelled,  \* whether ctx is done
    failures    \* history: failed connects since the last success

openVars == <<opc, osess, streams>>
envVars == <<pathUp, outages, cancelled>>
vars == <<conf, rpc, attempt, backoff, timer, session, old, live, failures, openVars, envVars>>

RunStates == {"dial", "auth", "mux", "closeOld", "session", "failed",
              "backoff", "stopped", "gaveUp"}
Waiting == {"load", "test", "wait"}
OpenStates == {"idle", "open", "request", "response", "stream"} \cup Waiting

Init ==
    /\ conf \in Configs
    /\ rpc = "dial" /\ attempt = 0 /\ backoff = BaseDelay /\ timer = 0
    /\ session = 0 /\ old = 0 /\ live = {}
    /\ opc = [o \in Openers |-> "idle"] /\ osess = [o \in Openers |-> 0]
    /\ streams = {}
    /\ pathUp = TRUE /\ outages = 0 /\ cancelled = FALSE
    /\ failures = 0

-----------------------------------------------------------------------------
(* Run and connect.                                                        *)

\* A step of Run that only moves on.
Proceed(from, to) ==
    /\ rpc = from /\ rpc' = to
    /\ UNCHANGED <<conf, attempt, backoff, timer, session, old, live, failures,
                   openVars, envVars>>

\* connect returns an error, which Run looks at next.
ConnectError(from) ==
    /\ rpc = from /\ rpc' = "failed"
    /\ failures' = Min2(failures + 1, AttemptCap)
    /\ UNCHANGED <<conf, attempt, backoff, timer, session, old, live, openVars, envVars>>

\* tr.Dial: TCP and the TLS handshake, both under ctx.
DialOK == pathUp /\ ~cancelled /\ Proceed("dial", "auth")
DialFails == (~pathUp \/ cancelled) /\ ConnectError("dial")

\* clientAuth.Handshake: an answer, a refusal or a broken connection.
AuthOK == pathUp /\ Proceed("auth", "mux")
AuthFails == ~pathUp /\ ConnectError("auth")

\* A mutant: a handshake without deadlines.
AuthNeverTimesOut == FALSE /\ ConnectError("auth")

\* DeviceAuth has deadlines of 10 s on its write and its read, the HMAC
\* handshake has none and nothing else bounds it.
AuthTimesOut == conf.auth = "device" /\ ~pathUp /\ ConnectError("auth")

\* NewClientSession: smux only checks its configuration.
MuxFails == ~conf.muxOK /\ ConnectError("mux")

\* The new session replaces the old one under c.mu.  The send on the unbuffered
\* sessionReady does not block: it wakes one opener that waits in its select, if
\* there is one.
Publish ==
    /\ rpc = "mux" /\ conf.muxOK
    /\ rpc' = "closeOld"
    /\ session' = session + 1 /\ old' = session
    /\ live' = live \cup {session + 1}
    /\ \/ \E o \in Openers : opc[o] = "wait" /\ opc' = [opc EXCEPT ![o] = "load"]
       \/ (\A o \in Openers : opc[o] # "wait") /\ opc' = opc
    /\ UNCHANGED <<conf, attempt, backoff, timer, failures, osess, streams, envVars>>

\* Mutants: the retry counter, or the delay, survives a successful connect.
ConnectedKeepsAttempt ==
    /\ rpc = "closeOld" /\ rpc' = "session"
    /\ live' = live \ {old} /\ old' = 0
    /\ backoff' = BaseDelay /\ failures' = 0
    /\ UNCHANGED <<conf, attempt, timer, session, openVars, envVars>>

ConnectedKeepsDelay ==
    /\ rpc = "closeOld" /\ rpc' = "session"
    /\ live' = live \ {old} /\ old' = 0
    /\ attempt' = 0 /\ failures' = 0
    /\ UNCHANGED <<conf, backoff, timer, session, openVars, envVars>>

\* connect closes the session it replaced; Run resets its retry state.
Connected ==
    /\ rpc = "closeOld" /\ rpc' = "session"
    /\ live' = live \ {old} /\ old' = 0
    /\ attempt' = 0 /\ backoff' = BaseDelay /\ failures' = 0
    /\ UNCHANGED <<conf, timer, session, openVars, envVars>>

\* Mutants: the tick does not ask whether the session is closed, or never fires.
SessionTickBlind == Proceed("session", "dial")
SessionTickNever == FALSE /\ Proceed("session", "dial")

\* runSession: the 5 s tick finds the session closed.
SessionTick == session \notin live /\ Proceed("session", "dial")

\* runSession: ctx is done.  Run dials once more, under the cancelled ctx.
SessionCancelled ==
    /\ rpc = "session" /\ cancelled
    /\ rpc' = "dial"
    /\ live' = live \ {session}
    /\ UNCHANGED <<conf, attempt, backoff, timer, session, old, failures, openVars, envVars>>

\* Run after an error: stop, give up or wait.
RunStops == cancelled /\ Proceed("failed", "stopped")

RetriesSpent == conf.retries >= 0 /\ attempt >= conf.retries
RunGivesUp == ~cancelled /\ RetriesSpent /\ Proceed("failed", "gaveUp")

RunBacksOff ==
    /\ rpc = "failed" /\ ~cancelled /\ ~RetriesSpent
    /\ rpc' = "backoff"
    /\ \E j \in Jitters(backoff) : timer' = backoff + j
    /\ UNCHANGED <<conf, attempt, backoff, session, old, live, failures, openVars, envVars>>

BackoffCancelled ==
    /\ rpc = "backoff" /\ cancelled
    /\ rpc' = "stopped" /\ timer' = 0
    /\ UNCHANGED <<conf, attempt, backoff, session, old, live, failures, openVars, envVars>>

BackoffElapsed ==
    /\ rpc = "backoff"
    /\ rpc' = "dial" /\ timer' = 0
    /\ backoff' = NextDelay(backoff)
    /\ attempt' = Min2(attempt + 1, AttemptCap)
    /\ UNCHANGED <<conf, session, old, live, failures, openVars, envVars>>

RunStep ==
    \/ DialOK \/ DialFails \/ AuthOK \/ AuthFails \/ AuthTimesOut
    \/ MuxFails \/ Publish \/ Connected
    \/ SessionTick \/ SessionCancelled
    \/ RunStops \/ RunGivesUp \/ RunBacksOff \/ BackoffCancelled \/ BackoffElapsed

-----------------------------------------------------------------------------
(* OpenStream and waitSession.                                             *)

Opener(o, from, to) ==
    /\ opc[o] = from /\ opc' = [opc EXCEPT ![o] = to]
    /\ UNCHANGED <<conf, rpc, attempt, backoff, timer, session, old, live, failures, envVars>>

\* OpenStream returns an error, or the handler that has the stream ends.
Return(o, from) == Opener(o, from, "idle") /\ osess' = [osess EXCEPT ![o] = 0]

\* A proxy handler calls OpenStream.
OpenStream(o) == Opener(o, "idle", "load") /\ UNCHANGED <<osess, streams>>

\* waitSession reads c.session, then asks it whether it is closed.
LoadSession(o) ==
    /\ Opener(o, "load", "test")
    /\ osess' = [osess EXCEPT ![o] = session]
    /\ UNCHANGED streams

TestSession(o) ==
    /\ Opener(o, "test", IF osess[o] \in live THEN "open" ELSE "wait")
    /\ UNCHANGED <<osess, streams>>

\* A mutant: an opener relies on the wake-up alone.
WaitPollNever(o) == FALSE /\ Opener(o, "wait", "load") /\ UNCHANGED <<osess, streams>>

\* The select of waitSession: ctx, or 100 ms; sessionReady is in Publish.
WaitCancelled(o) == cancelled /\ Return(o, "wait") /\ UNCHANGED streams
WaitPoll(o) == Opener(o, "wait", "load") /\ UNCHANGED <<osess, streams>>

\* sess.OpenStream and the CONNECT request, on a session that may have closed.
OpenMux(o) ==
    IF osess[o] \in live
    THEN /\ Opener(o, "open", "request") /\ streams' = streams \cup {o}
         /\ UNCHANGED osess
    ELSE Return(o, "open") /\ UNCHANGED streams

\* The stream is closed on every error, and by the proxy handler at its end.
CloseStream(o, from) == Return(o, from) /\ streams' = streams \ {o}

SendRequest(o) ==
    IF osess[o] \in live
    THEN Opener(o, "request", "response") /\ UNCHANGED <<osess, streams>>
    ELSE CloseStream(o, "request")

\* readConnectResponse has no deadline: it ends with an answer or the session.
ReadOK(o) ==
    /\ osess[o] \in live
    /\ Opener(o, "response", "stream") /\ UNCHANGED <<osess, streams>>

\* A mutant: the stream stays open when the answer is a refusal.
ReadRefusedLeak(o) == Return(o, "response") /\ UNCHANGED streams

ReadRefused(o) == CloseStream(o, "response")

StreamEnds(o) == CloseStream(o, "stream")

OpenerStep(o) ==
    \/ LoadSession(o) \/ TestSession(o) \/ WaitCancelled(o) \/ WaitPoll(o)
    \/ OpenMux(o) \/ SendRequest(o) \/ ReadOK(o) \/ ReadRefused(o)

-----------------------------------------------------------------------------
(* The environment.                                                        *)

PathFails ==
    /\ pathUp /\ outages < MaxOutages
    /\ pathUp' = FALSE /\ outages' = outages + 1
    /\ UNCHANGED <<conf, rpc, attempt, backoff, timer, session, old, live, failures,
                   openVars, cancelled>>

PathRecovers ==
    /\ ~pathUp /\ pathUp' = TRUE
    /\ UNCHANGED <<conf, rpc, attempt, backoff, timer, session, old, live, failures,
                   openVars, outages, cancelled>>

\* The mux closes a session whose connection broke or went silent.
SessionBreaks ==
    /\ ~pathUp /\ \E s \in live : live' = live \ {s}
    /\ UNCHANGED <<conf, rpc, attempt, backoff, timer, session, old, failures, openVars, envVars>>

Cancel ==
    /\ ~cancelled /\ cancelled' = TRUE
    /\ UNCHANGED <<conf, rpc, attempt, backoff, timer, session, old, live, failures,
                   openVars, pathUp, outages>>

Next ==
    \/ RunStep
    \/ \E o \in Openers : OpenStream(o) \/ OpenerStep(o) \/ StreamEnds(o)
    \/ PathFails \/ PathRecovers \/ SessionBreaks \/ Cancel

Spec == Init /\ [][Next]_vars

\* Run and the openers are goroutines whose timers fire.  The server answers
\* while the path works.  A dial into a dead path ends for sure only with ctx, an
\* HMAC handshake on one need not end, and nobody has to end a stream, cancel or
\* break the path.
RunFair ==
    \/ DialOK \/ (cancelled /\ DialFails) \/ AuthOK \/ AuthTimesOut
    \/ MuxFails \/ Publish \/ Connected \/ SessionTick \/ SessionCancelled
    \/ RunStops \/ RunGivesUp \/ RunBacksOff \/ BackoffCancelled \/ BackoffElapsed

FairSpec ==
    /\ Spec
    /\ WF_vars(RunFair)
    /\ \A o \in Openers : WF_vars(OpenerStep(o))

-----------------------------------------------------------------------------
(* Properties.                                                             *)

\* Every variable keeps the type its field or local has in client.go.
TypeOK ==
    /\ conf \in Configs
    /\ rpc \in RunStates
    /\ attempt \in 0..AttemptCap /\ failures \in 0..AttemptCap
    /\ backoff \in Nat /\ timer \in Nat
    /\ session \in Nat /\ old \in Nat /\ live \subseteq 1..session
    /\ opc \in [Openers -> OpenStates] /\ osess \in [Openers -> Nat]
    /\ streams \subseteq Openers
    /\ pathUp \in BOOLEAN /\ outages \in 0..MaxOutages /\ cancelled \in BOOLEAN

\* The client never holds two live sessions: Run redials only when the session it
\* kept is closed, so connect never cuts the streams of a working session
\* (runSession and connect in client.go).
OneLiveSession ==
    /\ live \subseteq {session}
    /\ rpc \notin {"closeOld", "session"} => live = {}

\* With max_retries = n Run gives up after exactly n + 1 failed connects in a row,
\* and never before: a success in between starts the count again.
GivesUpAfterRetries ==
    /\ rpc = "gaveUp" => conf.retries >= 0 /\ failures = conf.retries + 1
    /\ rpc = "backoff" /\ conf.retries >= 0 => failures <= conf.retries

\* After n failures since the last success Run waits for the n-th delay and less than
\* a quarter more ("exponential backoff + jitter"); the jitter can take it beyond
\* max_delay.  A success starts the delays again ("reset backoff").
BackoffExponential ==
    rpc = "backoff" =>
        LET d == NthDelay[failures - 1]
        IN  timer = d \/ (timer > d /\ 4 * (timer - d) < d)

\* An opener holds a mux stream exactly from OpenStream to the end of the proxied
\* connection: each error path of OpenStream closes the stream it opened.
NoStreamLeak == streams = {o \in Openers : opc[o] \in {"request", "response", "stream"}}

\* While a live session stays, no opener is stuck in waitSession, although one
\* wake-up is sent per session however many openers wait.
WaitersServed ==
    <>[](session \in live) => \A o \in Openers : []<>(opc[o] \notin Waiting)

\* When the path works for good, the client ends up with a live session for good,
\* unless it gave up before (or smux refuses its configuration).
RecoversWithPath ==
    (conf.muxOK /\ <>[](pathUp /\ ~cancelled))
        => (<>(rpc = "gaveUp") \/ <>[](session \in live))

\* "It blocks until ctx is cancelled": with device authentication Run ends after a
\* cancel, with every session closed.  With the HMAC handshake it may not end.
CancelStopsRun ==
    (conf.auth = "device" /\ cancelled)
        ~> (rpc \in {"stopped", "gaveUp"} /\ live = {})
=============================================================================
