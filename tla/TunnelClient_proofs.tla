------------------------ MODULE TunnelClient_proofs ------------------------
(***************************************************************************)
(* The safety theorems about the tunnel client, for any number of openers, *)
(* any configurations and delays.                                          *)
(***************************************************************************)
EXTENDS TunnelClient, TLAPS

-----------------------------------------------------------------------------
(* Types.                                                                  *)

\* A delay is no less than 0, and the jitter is less than a quarter of it.
LEMMA DelayType ==
    ASSUME NEW d \in Nat
    PROVE  NextDelay(d) \in Nat
<1>1. PICK x \in Nat : x = d * MulNum
    BY DelayAssumption
<1>2. x \div MulDen \in Nat
    BY DelayAssumption
<1>3. QED BY <1>1, <1>2, DelayAssumption DEF NextDelay, Min2

LEMMA JitterBound ==
    ASSUME NEW d \in Nat, NEW j \in Jitters(d)
    PROVE  j \in Nat /\ (j = 0 \/ 4 * j < d)
BY DEF Jitters

LEMMA CountType ==
    ASSUME NEW n \in 0..AttemptCap
    PROVE  Min2(n + 1, AttemptCap) \in 0..AttemptCap
BY RetryAssumption DEF Min2

LEMMA TypeInit == Init => TypeOK
<1> SUFFICES ASSUME Init PROVE TypeOK
    OBVIOUS
<1>1. /\ conf \in Configs /\ rpc \in RunStates /\ attempt \in 0..AttemptCap
      /\ failures \in 0..AttemptCap /\ backoff \in Nat /\ timer \in Nat
    BY DelayAssumption, RetryAssumption DEF Init, RunStates
<1>2. /\ session \in Nat /\ old \in Nat /\ live \subseteq 1..session /\ streams \subseteq Openers
      /\ opc \in [Openers -> OpenStates] /\ osess \in [Openers -> Nat]
    BY DEF Init, OpenStates
<1>3. outages \in 0..MaxOutages
    BY RetryAssumption DEF Init
<1>4. pathUp \in BOOLEAN /\ cancelled \in BOOLEAN
    BY Zenon DEF Init
<1>5. QED BY <1>1, <1>2, <1>3, <1>4 DEF TypeOK

\* What an opener touches: its own place, session and stream.
OtherVars == <<conf, rpc, attempt, backoff, timer, session, old, live, failures, pathUp, outages, cancelled>>

LEMMA OpenerEffect ==
    ASSUME TypeOK, NEW o \in Openers, OpenStream(o) \/ OpenerStep(o) \/ StreamEnds(o)
    PROVE  /\ UNCHANGED OtherVars
           /\ \E to \in OpenStates : opc' = [opc EXCEPT ![o] = to]
           /\ \E s \in Nat : osess' = [osess EXCEPT ![o] = s]
           /\ streams' \in {streams, streams \cup {o}, streams \ {o}}
<1>1. osess = [osess EXCEPT ![o] = osess[o]] /\ osess[o] \in Nat /\ session \in Nat /\ 0 \in Nat
    BY DEF TypeOK
<1>2. {"idle", "open", "request", "response", "stream", "load", "test", "wait"} \subseteq OpenStates
    BY DEF OpenStates, Waiting
<1> USE DEF Opener, OtherVars, envVars
<1>3. CASE OpenStream(o) \/ LoadSession(o) \/ TestSession(o) \/ WaitPoll(o) \/ ReadOK(o)
    BY ZenonT(30), <1>1, <1>2, <1>3 DEF OpenStream, LoadSession, TestSession, WaitPoll, ReadOK
<1>4. CASE WaitCancelled(o) \/ ReadRefused(o) \/ StreamEnds(o)
    BY ZenonT(30), <1>1, <1>2, <1>4 DEF WaitCancelled, ReadRefused, StreamEnds, Return, CloseStream
<1>5. CASE OpenMux(o)
    BY ZenonT(30), <1>1, <1>2, <1>5 DEF OpenMux, Return
<1>6. CASE SendRequest(o)
    BY ZenonT(30), <1>1, <1>2, <1>6 DEF SendRequest, Return, CloseStream
<1>7. QED BY <1>3, <1>4, <1>5, <1>6 DEF OpenerStep

\* The steps of Run, the openers and the environment keep every type.
LEMMA TypeStep == TypeOK /\ [Next]_vars => TypeOK'
<1> SUFFICES ASSUME TypeOK, [Next]_vars PROVE TypeOK'
    OBVIOUS
<1> USE DEF openVars, envVars
<1>1. CASE UNCHANGED vars
    BY <1>1 DEF TypeOK, vars
<1>2. ASSUME NEW a, NEW b \in RunStates, Proceed(a, b) PROVE TypeOK'
    BY <1>2 DEF TypeOK, Proceed
<1>3. ASSUME NEW a, ConnectError(a) PROVE TypeOK'
    <2>1. failures' \in 0..AttemptCap
        BY <1>3, CountType DEF TypeOK, ConnectError
    <2>2. QED BY <1>3, <2>1 DEF TypeOK, ConnectError, RunStates
<1>4. CASE RunStep
    <2>1. CASE \/ DialOK \/ AuthOK \/ SessionTick \/ RunStops \/ RunGivesUp
        BY <1>2, <2>1 DEF DialOK, AuthOK, SessionTick, RunStops, RunGivesUp, RunStates
    <2>2. CASE DialFails \/ AuthFails \/ AuthTimesOut \/ MuxFails
        BY <1>3, <2>2 DEF DialFails, AuthFails, AuthTimesOut, MuxFails
    <2>3. CASE Publish
        <3>1. opc' \in [Openers -> OpenStates]
            BY <2>3 DEF TypeOK, Publish, OpenStates, Waiting
        <3>2. session' \in Nat /\ old' \in Nat /\ live' \subseteq 1..session'
            BY <2>3 DEF TypeOK, Publish
        <3>3. QED BY <2>3, <3>1, <3>2 DEF TypeOK, Publish, RunStates
    <2>4. CASE Connected
        <3>1. attempt' \in 0..AttemptCap /\ failures' \in 0..AttemptCap /\ backoff' \in Nat
            BY <2>4, RetryAssumption, DelayAssumption DEF Connected
        <3>2. QED BY <2>4, <3>1 DEF TypeOK, Connected, RunStates
    <2>5. CASE SessionCancelled
        BY <2>5 DEF TypeOK, SessionCancelled, RunStates
    <2>6. CASE BackoffElapsed
        <3>1. attempt' \in 0..AttemptCap /\ backoff' \in Nat
            BY <2>6, CountType, DelayType DEF TypeOK, BackoffElapsed
        <3>2. QED BY <2>6, <3>1 DEF TypeOK, BackoffElapsed, RunStates
    <2>7. CASE RunBacksOff \/ BackoffCancelled
        <3>1. timer' \in Nat
            BY <2>7, JitterBound DEF TypeOK, RunBacksOff, BackoffCancelled
        <3>2. QED BY <2>7, <3>1 DEF TypeOK, RunBacksOff, BackoffCancelled, RunStates
    <2>8. QED BY <1>4, <2>1, <2>2, <2>3, <2>4, <2>5, <2>6, <2>7 DEF RunStep
<1>5. ASSUME NEW o \in Openers, OpenStream(o) \/ OpenerStep(o) \/ StreamEnds(o) PROVE TypeOK'
    <2>1. opc' \in [Openers -> OpenStates] /\ osess' \in [Openers -> Nat] /\ streams' \subseteq Openers
        BY <1>5, OpenerEffect DEF TypeOK
    <2>2. QED BY <1>5, <2>1, OpenerEffect, Zenon DEF TypeOK, OtherVars
<1>6. CASE PathFails \/ PathRecovers \/ SessionBreaks \/ Cancel
    <2>1. CASE PathFails
        <3>1. outages' \in 0..MaxOutages
            BY <2>1, RetryAssumption DEF TypeOK, PathFails
        <3>2. pathUp' \in BOOLEAN
            BY Zenon, <2>1 DEF PathFails
        <3>3. QED BY <2>1, <3>1, <3>2 DEF TypeOK, PathFails
    <2>2. CASE PathRecovers \/ Cancel
        <3>1. pathUp' \in BOOLEAN /\ cancelled' \in BOOLEAN
            BY <2>2, Zenon DEF TypeOK, PathRecovers, Cancel
        <3>2. QED BY <2>2, <3>1, Zenon DEF TypeOK, PathRecovers, Cancel
    <2>3. CASE SessionBreaks
        <3>1. live' \subseteq 1..session'
            BY <2>3 DEF TypeOK, SessionBreaks
        <3>2. QED BY <2>3, <3>1 DEF TypeOK, SessionBreaks
    <2>4. QED BY <1>6, <2>1, <2>2, <2>3
<1>7. QED BY <1>1, <1>4, <1>5, <1>6 DEF Next

\* Every variable of the client keeps its type.
THEOREM ClientTypeCorrect == Spec => []TypeOK
<1>1. TypeOK /\ [Next]_vars => TypeOK'
    BY TypeStep
<1>2. QED BY <1>1, TypeInit, PTL DEF Spec

-----------------------------------------------------------------------------
(* Sessions.                                                               *)

LEMMA SessionStep == TypeOK /\ OneLiveSession /\ [Next]_vars => OneLiveSession'
<1> SUFFICES ASSUME TypeOK, OneLiveSession, [Next]_vars PROVE OneLiveSession'
    OBVIOUS
<1>1. CASE UNCHANGED vars
    BY <1>1 DEF OneLiveSession, vars
<1>2. ASSUME NEW a, NEW b, Proceed(a, b), a \notin {"closeOld", "session"} \/ live = {}
      PROVE  OneLiveSession'
    BY <1>2 DEF OneLiveSession, Proceed
<1>3. ASSUME NEW a, ConnectError(a), a \notin {"closeOld", "session"} PROVE OneLiveSession'
    BY <1>3 DEF OneLiveSession, ConnectError
<1>4. CASE RunStep
    <2>1. CASE DialOK \/ AuthOK \/ RunStops \/ RunGivesUp
        BY <1>2, <2>1 DEF DialOK, AuthOK, RunStops, RunGivesUp
    <2>2. CASE SessionTick
        <3>1. live = {}
            BY <2>2 DEF SessionTick, OneLiveSession
        <3>2. QED BY <1>2, <2>2, <3>1 DEF SessionTick
    <2>3. CASE DialFails \/ AuthFails \/ AuthTimesOut \/ MuxFails
        BY <1>3, <2>3 DEF DialFails, AuthFails, AuthTimesOut, MuxFails
    <2>4. CASE Publish
        BY <2>4 DEF Publish, OneLiveSession
    <2>5. CASE \/ Connected \/ SessionCancelled
               \/ RunBacksOff \/ BackoffCancelled \/ BackoffElapsed
        BY <2>5 DEF Connected, SessionCancelled, RunBacksOff, BackoffCancelled,
                    BackoffElapsed, OneLiveSession
    <2>6. QED BY <1>4, <2>1, <2>2, <2>3, <2>4, <2>5 DEF RunStep
<1>5. ASSUME NEW o \in Openers, OpenStream(o) \/ OpenerStep(o) \/ StreamEnds(o)
      PROVE  OneLiveSession'
    BY <1>5, OpenerEffect DEF OneLiveSession, OtherVars
<1>6. CASE PathFails \/ PathRecovers \/ SessionBreaks \/ Cancel
    BY <1>6 DEF OneLiveSession, PathFails, PathRecovers, SessionBreaks, Cancel
<1>7. QED BY <1>1, <1>4, <1>5, <1>6 DEF Next

\* However often the path fails and whatever the openers do, connect never replaces
\* a session that works and the client never holds two.
THEOREM SingleSession == Spec => []OneLiveSession
<1>1. Init => OneLiveSession
    BY DEF Init, OneLiveSession
<1>2. TypeOK /\ OneLiveSession /\ [Next]_vars => OneLiveSession'
    BY SessionStep
<1>3. QED BY <1>1, <1>2, ClientTypeCorrect, PTL DEF Spec

-----------------------------------------------------------------------------
(* Retries.                                                                *)

\* The local attempt counts the failures since the last success, one behind while
\* Run looks at an error; it never passes max_retries.
RetryInv ==
    /\ rpc \in {"dial", "auth", "mux", "closeOld"} => failures = attempt
    /\ rpc = "session" => failures = 0 /\ attempt = 0
    /\ rpc \in {"failed", "backoff", "gaveUp"} => failures = Min2(attempt + 1, AttemptCap)
    /\ conf.retries >= 0 => attempt <= conf.retries
    /\ rpc = "backoff" => ~RetriesSpent
    /\ rpc = "gaveUp" => RetriesSpent

RetryVars == <<conf, rpc, attempt, failures>>

LEMMA RetryStep == TypeOK /\ RetryInv /\ [Next]_vars => RetryInv'
<1> SUFFICES ASSUME TypeOK, RetryInv, [Next]_vars PROVE RetryInv'
    OBVIOUS
<1>1. ASSUME UNCHANGED RetryVars PROVE RetryInv'
    BY <1>1 DEF RetryInv, RetryVars, RetriesSpent
<1>2. /\ conf.retries \in Int /\ conf.retries < AttemptCap /\ AttemptCap \in Nat
      /\ attempt \in 0..AttemptCap /\ failures \in 0..AttemptCap
    BY RetryAssumption DEF TypeOK
<1>3. ASSUME NEW a \in {"dial", "auth", "mux"}, ConnectError(a) PROVE RetryInv'
    BY <1>2, <1>3 DEF RetryInv, ConnectError, RetriesSpent
<1>4. CASE RunStep
    <2>1. CASE DialOK \/ AuthOK \/ SessionTick
        BY <1>2, <2>1 DEF DialOK, AuthOK, SessionTick, Proceed, RetryInv, RetriesSpent
    <2>2. CASE RunStops \/ BackoffCancelled
        BY <1>2, <2>2 DEF RunStops, BackoffCancelled, Proceed, RetryInv, RetriesSpent
    <2>3. CASE RunGivesUp \/ RunBacksOff
        BY <1>2, <2>3 DEF RunGivesUp, RunBacksOff, Proceed, RetryInv, RetriesSpent
    <2>4. CASE DialFails \/ AuthFails \/ AuthTimesOut \/ MuxFails
        BY <1>3, <2>4 DEF DialFails, AuthFails, AuthTimesOut, MuxFails
    <2>5. CASE Publish \/ Connected \/ SessionCancelled
        BY <1>2, <2>5 DEF Publish, Connected, SessionCancelled, RetryInv, RetriesSpent
    <2>6. CASE BackoffElapsed
        BY <1>2, <2>6 DEF BackoffElapsed, RetryInv, RetriesSpent, Min2
    <2>7. QED BY <1>4, <2>1, <2>2, <2>3, <2>4, <2>5, <2>6 DEF RunStep
<1>5. ASSUME NEW o \in Openers, OpenStream(o) \/ OpenerStep(o) \/ StreamEnds(o) PROVE RetryInv'
    BY <1>1, <1>5, OpenerEffect DEF RetryVars, OtherVars
<1>6. CASE PathFails \/ PathRecovers \/ SessionBreaks \/ Cancel \/ UNCHANGED vars
    BY <1>1, <1>6 DEF RetryVars, PathFails, PathRecovers, SessionBreaks, Cancel, vars
<1>7. QED BY <1>4, <1>5, <1>6 DEF Next

\* Run gives up after exactly max_retries + 1 failures in a row, and waits only
\* while there are retries left.
THEOREM RetriesCounted == Spec => []GivesUpAfterRetries
<1>1. Init => RetryInv
    BY RetryAssumption DEF Init, RetryInv
<1>2. TypeOK /\ RetryInv /\ [Next]_vars => RetryInv'
    BY RetryStep
<1>3. TypeOK /\ RetryInv => GivesUpAfterRetries
    <2> SUFFICES ASSUME TypeOK, RetryInv PROVE GivesUpAfterRetries
        OBVIOUS
    <2>1. /\ conf.retries \in Int /\ conf.retries < AttemptCap /\ AttemptCap \in Nat
          /\ attempt \in 0..AttemptCap /\ failures \in 0..AttemptCap
        BY RetryAssumption DEF TypeOK
    <2>2. QED BY <2>1 DEF RetryInv, RetriesSpent, GivesUpAfterRetries, Min2
<1>4. QED BY <1>1, <1>2, <1>3, ClientTypeCorrect, PTL DEF Spec

-----------------------------------------------------------------------------
(* The delay.                                                              *)

\* While Run connects, the delay is the one for the failures so far; while it looks at
\* an error and waits, it is one behind.
DelayInv ==
    /\ rpc \in {"dial", "auth", "mux", "closeOld", "session"} => backoff = NthDelay[failures]
    /\ rpc \in {"failed", "backoff"} => failures >= 1 /\ backoff = NthDelay[failures - 1]
    /\ rpc = "backoff" => \E j \in Jitters(backoff) : timer = backoff + j

DelayVars == <<rpc, backoff, timer, failures>>

LEMMA DelayStep == TypeOK /\ DelayInv /\ [Next]_vars => DelayInv'
<1> SUFFICES ASSUME TypeOK, DelayInv, [Next]_vars PROVE DelayInv'
    OBVIOUS
<1>1. ASSUME UNCHANGED DelayVars PROVE DelayInv'
    BY <1>1, Zenon DEF DelayInv, DelayVars
<1>2. failures \in 0..AttemptCap /\ AttemptCap \in Nat
    BY RetryAssumption DEF TypeOK
<1>3. ASSUME NEW a \in {"dial", "auth", "mux"}, ConnectError(a) PROVE DelayInv'
    <2>1. /\ rpc' = "failed" /\ backoff' = backoff /\ backoff = NthDelay[failures]
          /\ failures' = Min2(failures + 1, AttemptCap)
        BY <1>3, Zenon DEF ConnectError, DelayInv
    <2>2. /\ failures' >= 1
          /\ failures' - 1 = failures \/ (failures = AttemptCap /\ failures' = AttemptCap)
        <3>1. AttemptCap >= 1
            BY StepAssumption, Zenon
        <3>2. QED BY <1>2, <2>1, <3>1 DEF Min2
    <2>3. NthDelay[AttemptCap] = NthDelay[AttemptCap - 1]
        BY StepAssumption, Zenon
    <2>4. backoff' = NthDelay[failures' - 1]
        BY <2>1, <2>2, <2>3, Zenon
    <2>5. QED BY <2>1, <2>2, <2>4, Zenon DEF DelayInv
<1>4. CASE RunStep
    <2>1. CASE \/ DialOK \/ AuthOK \/ SessionTick \/ RunStops
               \/ RunGivesUp \/ Publish \/ SessionCancelled
        BY <2>1, Zenon DEF DialOK, AuthOK, SessionTick, RunStops, RunGivesUp,
            Publish, SessionCancelled, Proceed, DelayInv
    <2>2. CASE DialFails \/ AuthFails \/ AuthTimesOut \/ MuxFails
        BY <1>3, <2>2 DEF DialFails, AuthFails, AuthTimesOut, MuxFails
    <2>3. CASE Connected
        <3>1. rpc' = "session" /\ backoff' = BaseDelay /\ failures' = 0
            BY <2>3, Zenon DEF Connected
        <3>2. NthDelay[0] = BaseDelay
            BY StepAssumption, Zenon
        <3>3. QED BY <3>1, <3>2, Zenon DEF DelayInv
    <2>4. CASE BackoffElapsed
        <3>1. /\ rpc' = "dial" /\ failures' = failures /\ failures >= 1
              /\ backoff' = NextDelay(NthDelay[failures - 1])
            BY <2>4, Zenon DEF BackoffElapsed, DelayInv
        <3>2. PICK n \in 0..AttemptCap : n = failures - 1 /\ n + 1 = failures
            BY <1>2, <3>1
        <3>3. NthDelay[n + 1] = NextDelay(NthDelay[n])
            BY StepAssumption, Zenon
        <3>4. backoff' = NthDelay[failures]
            BY <3>1, <3>2, <3>3, Zenon
        <3>5. QED BY <3>1, <3>4, Zenon DEF DelayInv
    <2>5. CASE RunBacksOff \/ BackoffCancelled
        BY <2>5, Zenon DEF RunBacksOff, BackoffCancelled, DelayInv
    <2>6. QED BY <1>4, <2>1, <2>2, <2>3, <2>4, <2>5 DEF RunStep
<1>5. ASSUME NEW o \in Openers, OpenStream(o) \/ OpenerStep(o) \/ StreamEnds(o) PROVE DelayInv'
    BY <1>1, <1>5, OpenerEffect DEF DelayVars, OtherVars
<1>6. CASE PathFails \/ PathRecovers \/ SessionBreaks \/ Cancel \/ UNCHANGED vars
    BY <1>1, <1>6 DEF DelayVars, PathFails, PathRecovers, SessionBreaks, Cancel, vars
<1>7. QED BY <1>4, <1>5, <1>6 DEF Next

\* Before each dial Run waits for the delay that belongs to the failures since the last
\* success, and less than a quarter more, for any delays and multiplier.
THEOREM DelaysExponential == Spec => []BackoffExponential
<1>1. Init => DelayInv
    <2> SUFFICES ASSUME Init PROVE DelayInv
        OBVIOUS
    <2>1. rpc = "dial" /\ backoff = BaseDelay /\ failures = 0 /\ NthDelay[0] = BaseDelay
        BY StepAssumption, Zenon DEF Init
    <2>2. QED BY <2>1, Zenon DEF DelayInv
<1>2. TypeOK /\ DelayInv => BackoffExponential
    <2> SUFFICES ASSUME TypeOK, DelayInv, rpc = "backoff" PROVE BackoffExponential
        BY Zenon DEF BackoffExponential
    <2>1. PICK j \in Jitters(backoff) : timer = backoff + j
        BY Zenon DEF DelayInv
    <2>2. backoff \in Nat /\ backoff = NthDelay[failures - 1]
        BY Zenon DEF TypeOK, DelayInv
    <2>3. j \in Nat /\ (j = 0 \/ 4 * j < backoff)
        BY <2>2, JitterBound, Zenon
    <2>4. timer = backoff \/ (timer > backoff /\ 4 * (timer - backoff) < backoff)
        BY <2>1, <2>2, <2>3
    <2>5. QED BY <2>2, <2>4, Zenon DEF BackoffExponential
<1>3. QED BY <1>1, <1>2, DelayStep, ClientTypeCorrect, PTL DEF Spec

-----------------------------------------------------------------------------
(* Streams.                                                                *)

LEMMA StreamStep == TypeOK /\ NoStreamLeak /\ [Next]_vars => NoStreamLeak'
<1> SUFFICES ASSUME TypeOK, NoStreamLeak, [Next]_vars PROVE NoStreamLeak'
    OBVIOUS
<1> DEFINE Holds(p) == p \in {"request", "response", "stream"}
<1>1. CASE UNCHANGED <<opc, streams>>
    BY <1>1 DEF NoStreamLeak
<1>2. opc \in [Openers -> OpenStates]
    BY DEF TypeOK
<1>3. ASSUME NEW o \in Openers, NEW from, NEW to, opc[o] = from,
             opc' = [opc EXCEPT ![o] = to],
             \/ streams' = streams /\ (Holds(from) <=> Holds(to))
             \/ streams' = streams \cup {o} /\ Holds(to)
             \/ streams' = streams \ {o} /\ ~Holds(to)
      PROVE  NoStreamLeak'
    <2>1. opc'[o] = to /\ \A x \in Openers : x # o => opc'[x] = opc[x]
        BY <1>2, <1>3
    <2>2. \A x : x \in streams' <=> x \in Openers /\ Holds(opc'[x])
        BY <1>3, <2>1 DEF NoStreamLeak
    <2>3. QED BY <2>2 DEF NoStreamLeak
<1> HIDE DEF Holds
<1>4. /\ ~Holds("idle") /\ ~Holds("load") /\ ~Holds("test") /\ ~Holds("wait") /\ ~Holds("open")
      /\ Holds("request") /\ Holds("response") /\ Holds("stream")
    BY DEF Holds
<1>5. ASSUME NEW o \in Openers, OpenStream(o) \/ OpenerStep(o) \/ StreamEnds(o) PROVE NoStreamLeak'
    <2> DEFINE Moves(from, to) == opc[o] = from /\ opc' = [opc EXCEPT ![o] = to]
    <2>1. \/ /\ Moves("idle", "load") \/ Moves("load", "test") \/ Moves("wait", "load")
                \/ Moves("wait", "idle") \/ Moves("open", "idle") \/ Moves("test", "open")
                \/ Moves("test", "wait") \/ Moves("request", "response") \/ Moves("response", "stream")
             /\ streams' = streams
          \/ Moves("open", "request") /\ streams' = streams \cup {o}
          \/ /\ Moves("request", "idle") \/ Moves("response", "idle") \/ Moves("stream", "idle")
             /\ streams' = streams \ {o}
        <3> USE DEF Opener, Return, CloseStream
        <3>1. CASE OpenStream(o) \/ LoadSession(o) \/ WaitCancelled(o) \/ WaitPoll(o)
            BY <3>1 DEF OpenStream, LoadSession, WaitCancelled, WaitPoll
        <3>2. CASE TestSession(o) \/ OpenMux(o) \/ SendRequest(o)
            BY <3>2 DEF TestSession, OpenMux, SendRequest
        <3>3. CASE ReadOK(o) \/ ReadRefused(o) \/ StreamEnds(o)
            BY <3>3 DEF ReadOK, ReadRefused, StreamEnds
        <3>4. QED BY <1>5, <3>1, <3>2, <3>3 DEF OpenerStep
    <2>2. QED BY ZenonT(30), <1>3, <1>4, <2>1
<1>6. CASE Publish
    <2>1. CASE opc' = opc
        BY <1>1, <1>6, <2>1 DEF Publish
    <2>2. CASE \E o \in Openers : opc[o] = "wait" /\ opc' = [opc EXCEPT ![o] = "load"]
        <3>1. streams' = streams
            BY <1>6 DEF Publish
        <3>2. QED BY ZenonT(30), <1>3, <1>4, <2>2, <3>1
    <2>3. QED BY <1>6, <2>1, <2>2 DEF Publish
<1>7. CASE RunStep /\ ~Publish
    <2>1. UNCHANGED <<opc, streams>>
        BY <1>7 DEF RunStep, DialOK, DialFails, AuthOK, AuthFails, AuthTimesOut, MuxFails, Connected,
           SessionTick, SessionCancelled, RunStops, RunGivesUp, RunBacksOff, BackoffCancelled,
           BackoffElapsed, Proceed, ConnectError, openVars
    <2>2. QED BY <1>1, <2>1
<1>8. CASE PathFails \/ PathRecovers \/ SessionBreaks \/ Cancel \/ UNCHANGED vars
    BY <1>1, <1>8 DEF PathFails, PathRecovers, SessionBreaks, Cancel, vars, openVars
<1>9. QED BY <1>5, <1>6, <1>7, <1>8 DEF Next

\* OpenStream closes the mux stream on each of its error paths, for any number of
\* concurrent openers.
THEOREM StreamsAccounted == Spec => []NoStreamLeak
<1>1. Init => NoStreamLeak
    BY DEF Init, NoStreamLeak
<1>2. TypeOK /\ NoStreamLeak /\ [Next]_vars => NoStreamLeak'
    BY StreamStep
<1>3. QED BY <1>1, <1>2, ClientTypeCorrect, PTL DEF Spec
=============================================================================
