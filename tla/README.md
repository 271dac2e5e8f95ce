# Formal model of the Daxson tunnel

TLA+ specifications of the Daxson tunnel, the TLC runs that check them and the
proofs that TLAPS checks. File names below are relative to `src/`.

## 1. The system

| part | code | module | what makes it hard |
|---|---|---|---|
| BCL connection | `internal/bcl/conn.go`, `pkg/protocol/frame.go` | `BCLConn`, `ByteStream` | four goroutines per end, an unlocked frame buffer, an unsynchronised state word, timers, Close against blocked writes |
| size and pacing models | `internal/bcl/padding.go`, `pacing.go`, `math.go`, `personality.go` | `Shaping` | a sampling loop that must end, sums of two samples, a rate with feedback |
| tunnel client | `internal/tunnel/client.go` | `TunnelClient` | reconnection against stream opening, retry counts, waiters |
| proxies, relay, server, mux | `internal/proxy`, `internal/relay`, `internal/tunnel/server.go`, `internal/mux` | `StreamPath`, `ByteStream` | three handlers in a row, each with two copy loops, half-close, sessions that break |
| handshakes, telemetry | `internal/auth`, `handleConn` in server and relay, `internal/telemetry` | `Admission` | time buckets, deadlines set and cleared, answers before effects |
| registry | `internal/registry`, commands `invite`, `devices`, dashboard | `Registry` | two processes on one file, crashes inside a save, failed saves, a server that never rereads |
| device commands, keys | `pkg/identity`, `cmd/daxson/cmd` | `DeviceSetup` | commands that overlap or are killed, four files, a lost answer |

An application talks to a proxy, whose handler opens a mux stream on the client's
session (`TunnelClient`) and copies (`StreamPath`). The session runs over a BCL
connection (`BCLConn`, `Shaping`) over TLS. The server, or a relay in between,
admits the connection (`Admission`), for a device by asking the registry
(`Registry`). The device got there by `import`, which registers its key and saves
a profile (`DeviceSetup`).

The modules meet at these points. `BCLConn` implements `ByteStream`, and a byte
stream that ends is what the mux links of `StreamPath` and the sessions of
`TunnelClient` assume. `StreamPath` composes proxy, relays and server as nodes of
one path, which implements `ByteStream` again, from end to end. `Admission` composes
clients with handlers and their shared counters;
the registry's answer is open in it, and `Registry` says when which is given.
`DeviceSetup` composes the commands of one device with one invite of the server.

## 2. Modules

**BCLConn** models both ends of one connection. A byte is its position in the
stream, so order, loss and duplication are visible. Each goroutine has a program
counter (`spc`, `kpc`); a `select` is a choice between actions; `Write` is two
steps because the check of `writeErr` and the send on the inbox are. `WriteFrame`
is also two steps, fill and write: when the steps of sender and keepalive overlap,
either may emit its own frame, the other's, or garbage, as the unlocked buffer
allows. The recursion of `runBurstCycle` is a jump, since it returns straight to
`sender`. Time is the order in which timers fire; `lastActivityNs` is not tracked,
so the idle check may pass whenever the timer fires. That a slice is taken and that
the state says BURST are two steps, since the keepalive goroutine may look in between.
Sampling a frame size is a choice that returns at once. With the video personality the
sampler need not return (`internal/bcl/padding.go:113`), and it does not look at the
context: there the sender hangs, and Close with it in `wg.Wait`. What `BCLConn` says
is therefore about the other four personalities. PING ids exist for the
properties only: the code fills every PING with the same bytes.

**ByteStream** is what a connection promises: bytes accepted come out in order,
until the stream ends for good. `ImplementsByteStream` maps `BCLConn` to it; a
stream is `spoiled` where the code breaks the promise, and that is where two writers
overlapped or Close dropped a burst. `PathImplementsByteStream` maps `StreamPath` to
it: accepted is what an end has sent, delivered what the other has received (the
application behind its answer), ended that a read returns nothing more; no stream is
ever spoiled.

**Shaping** is one flush after another: `fragmentAndSend` with the size sampler,
the padding and the pacer, which `BCLConn` leaves open. The five personalities
have the numbers of `personality.go`, with probabilities in hundredths, rates in
eightieths and latencies in 10 ms. Random numbers are choices. `FrameWithinModel` bounds
a frame by the largest size; that it is itself a size of the model is not promised, as
payload and padding come from two samples.

**TunnelClient**: `Run` is one process and each `OpenStream` another. What is done
under `c.mu` is one step. `conf` is the configuration a client was built with;
`failures` counts what `attempt` should. The path fails and comes back. `NextDelay` is
the truncated product with the multiplier, cut at the limit, and `timer` what Run really
waits for, the delay and a jitter; `NthDelay` is the reference for `BackoffExponential`.
`JitterAssumption` leaves out delays of 1 to 3 ns, for which `jitter` panics. The client
here has metrics; without them, as in `connect`, its first attempt panics, at
`client.go:203` when it succeeds and at `client.go:87` when it fails (`ClientPanics` in
`DeviceSetup`).

**StreamPath**: node 1 is a proxy handler, the last node `handleStream`, between
them `bridgeStream` of relays. All have one shape: read the request, open the next
link, answer, copy both ways, close. A `Close` is of both directions, as for
`net.Conn`; only application and target may end one direction alone. `buf` is
what the HTTP proxy's reader has taken beyond the request. Mux sessions break;
the request deadline of the relay and the dial timeout of the server may fire. A link
that is `dead` was reset, by a session that broke or by a Close with data unread.
`OpenStream` tests the session and opens the stream in one step: an open that fails
because the session was lost or replaced in between fails in the model while that
session is down, with the same effect. After an answer that cannot be written
(`AnswerFails`) the handler closes both conns; the HTTP proxy gets there by its copy
loops.

**Admission**: connections with a client and a handler each, in the roles `serve`,
`daxsond` (no registry, no telemetry) and `relay`. A request arrives in two parts
or not at all; a path may die without anyone being told. A deadline is an action
that exists only while the code has one set. Clocks are in seconds. `muxed` records the
handlers that went on to `NewServerSession`, for `ToldMeansAdmitted`.

**Registry** models the server and one command at a time on one file. The lock is
held for a whole operation, so a process has one operation in progress; the save
is open and truncate, write, rename, and any of them may be followed by a crash.
A file is absent, empty, torn or a whole store. `fd` says what the file a process
has open is called now, since a rename does not close it. Nothing keeps the processes
apart and none reads the file twice, so three histories record what goes wrong: a
process is `behind` when another has saved since it loaded the file, an update is
`lost` when such a process saves its copy, and saves are `mixed` when two processes
have the temporary file at a time. The properties say what holds up to there.
Revocation by the dashboard is left out: its routes are registered without a trailing
slash, so `DELETE /api/v1/devices/{id}` and `/invites/{id}` never reach their handlers.
When the configuration names another registry file than the default, the commands
and the server do not share one, and none of the three happens.

**DeviceSetup**: processes that run a command each, on the identity, its backup,
the profile and the status file. `os.WriteFile` is truncate and write. A process
may be killed at any step; the status alone is written in one step, since a reader that
meets it truncated only says so for once. `fd` is as in `Registry`. Histories (`forced`,
`stale`, `profiled`, `cutShort`, `died`) record what the code cannot undo. `import` starts
with a link that has been accepted, and dials with no deadline. `init` asks whether to
run `doctor`, which loads the identity again. The truth that `StatusConverges` compares
the status with is whether a `connect` is up, not whether its tunnel is.

`MCBCLConn`, `MCRegistry`, `MCShaping`, `MCTunnelClient` and `MCAdmission` give
constants their values; `StreamPath` and `DeviceSetup` get theirs from the `.cfg`.
Definitions whose comment says "mutant" or "a mistake" are wrong on purpose and
are used by no specification; they show that a property notices the mistake.

## 3. Runs

| run | checks | shows |
|---|---|---|
| `bcl_stream` | `StreamConserved`, `QuietMeansDelivered`, `OpenMeansServed`, `ImplementsByteStream` | no byte is lost, repeated or reordered, with Close, a failing path and a keepalive goroutine; an open end keeps its sender and its reader |
| `bcl_live` | `EventuallyDelivered`, `CloseTerminates`, `WriteTerminates` | accepted bytes arrive on a healthy connection; Close returns, and so does a blocked Write, also after a write error |
| `sizes` | `FrameWithinModel`, `DelayBounded`, `FlushEnds`, `RateRecovers` | no frame exceeds the largest size, each sleep is bounded, a slow spell is forgotten, flushes end (not for video) |
| `client` | `OneLiveSession`, `GivesUpAfterRetries`, `BackoffExponential`, `NoStreamLeak`, `WaitersServed`, `RecoversWithPath`, `CancelStopsRun` | one session at a time through two outages, exact retry count, the delay and its jitter, no opener stuck |
| `path` | `OkMeansConnected`, `DoneMeansClosed`, `TruncationHasCause`, `RestsOnlyWhenEnded`, `PathImplementsByteStream` | data arrives in order, OK is end to end, nothing is left open, the three ways data is cut off, and when a path whose ends closed may still stand |
| `admission` | `ToldMeansAdmitted`, `ClockTolerance`, `TelemetryTrue`, `HandshakeEnds` | who gets in with which clock, what the client is told, what is counted, who waits without limit |
| `registry` | `FileReadable`, `InviteUsable`, `AckedDurable`, `AdmissionsBounded`, `DevicesMatchUses`, `RevocationHolds` | server and commands on one file, with crashes and failing saves: what was answered holds until a copy that lacks it is saved, and the file parses until two saves overlap |
| `setup` | `RegisteredKeyKept`, `ProfileMeansRegistered`, `StrandedHasCause`, `CommandsEnd`, `StatusConverges` | two commands at a time, kills, lost answers and failing writes: when a key can be lost, a device stranded, a status wrong |

`TypeOK` of each module, `DeliveredInOrder`, `DeliveredPrefix` and `StatusMeansUp` are
proved (section 4) and are not repeated in the runs; `ImplementsByteStream` contains
`DeliveredInOrder`, and `PathImplementsByteStream` all of `DeliveredPrefix` but the
answer the application reads first. That the size
sampler's bisection inverts the distribution is `ASSUME SampleInverts` in `Shaping`:
TLC evaluates it for every personality and every random number in hundredths.

Four runs state what the repository says and are refuted:

| run | what TLC finds |
|---|---|
| `bcl_single_writer` | sender and keepalive overlap in `WriteFrame` and garble the stream |
| `path_jam` | application and target close while the mux stream between two nodes is full both ways: at each node the loop that fails to write ends and closes the conn it wrote to (`internal/mux/session.go:110`), nobody reads the stream any more, and the two loops that write to it wait for ever, where line 104 says that Relay returns when either side closes |
| `registry_beside` | the command revokes a device beside the running server and says that it "will be rejected at next re-auth" (`cmd/daxson/cmd/devices.go:91`); the server, which never reads the file again, authorizes it, and the save that follows takes the revocation back |
| `setup_profile` | `import` saves a profile that `connect` cannot read: `Duration` (`internal/config/config.go:167`) reads a string and is written as a mapping |

More disagreements are visible in the models and have no run of their own:

* a PING may be written in BURST (against `internal/bcl/conn.go:45`), and a PONG is
  measured against the last PING, not its own (`conn.go:82`);
* data in DRAIN starts a burst at once, where `internal/bcl/pacing.go:134` says it
  is held;
* the video sampler never ends in large mode, where `internal/bcl/padding.go:111`
  expects about 2.5 iterations (`FlushEnds` excludes it);
* the PSK handshake takes the current and the previous bucket, where
  `internal/auth/hmac.go:14` says one on either side and the next line what the code
  does (`ClockTolerance` says nothing of a PSK client that is early by less than 60 s);
* the PSK reads have no deadline (`HandshakeEnds`), so `Run` may outlive its
  context (`CancelStopsRun` is for device authentication);
* a registry saved by two processes at a time may be unreadable (`registry.go:8` calls
  writes atomic; `FileReadable` excludes `mixed`), a running server calls an invite
  invalid that the command created after its start, which is the order of
  `docs/setup.md` (server started in 2.11, line 266, invite created in 2.12, line 292;
  `InviteUsable` excludes a server that is behind), and a device is told OK although
  the save failed (`registry.go:157`; such answers count in no property);
* `--max-uses 0` admits one device (`Limit` in `Registry`), where the help text
  (`cmd/daxson/cmd/invite_cmd.go:44`) and what `invite list` prints (lines 140-141) say
  it is unlimited (`AdmissionsBounded` is about positive limits);
* a half-close of the application cuts off the answer of the target
  (`TruncationHasCause`, first case), as `mux.Relay` closes both directions;
* `connect` passes no metrics (`connect.go:85`), so the first attempt panics, whether it
  succeeds (`client.go:203`) or fails (`client.go:87`), and leaves the status file
  (`died` in `DeviceSetup`).

### Bounds

* BCL: two bytes from the client (three in `bcl_live`), slices of one or two,
  frames of one or two bytes, reads of one or two (one in `bcl_live`), queues of one,
  one PING, of the client or in `bcl_live` of the server, which the client answers.
  Enough for a burst of two slices, a slice over two frames, a frame
  over two reads, a full inbox and a full wire. Only the client writes; the ends
  are symmetric in the code.
* `sizes`: for each personality flushes of 1 byte, of exactly the smallest frame,
  one more, and of several frames; latencies below, above and far above the
  threshold for one of them.
* `client`: two openers, two outages, delays 8, 12, 14 (8 times 3/2, then cut at the
  limit), one retry
  and unlimited retries, both kinds of authentication, a refused mux configuration.
* `path`: a proxy, a relay and a server; one byte each way, one slot per link, one
  broken session. More bytes repeat the same step of a copy loop, but for one case:
  a stream that is full behind a loop that holds a byte takes three bytes (one on
  the far side of the stream, one in it, one before it). `path_jam` has them, with
  two nodes and no broken session. `RestsOnlyWhenEnded` excludes this case
  (`collided`) and is proved for any number of bytes.
* `admission`: two connections; skews of 0, 1, 30 and 60 s to both sides, met at
  the last second of two successive buckets; a probe ring of one.
* `registry`: one token with the limits 0 and 2, two keys with the same device id, three
  process starts, of the server and of commands in any order: invite, server, revocation
  beside it or before a restart, and a second registration of a revoked key.
* `setup`: two processes, four commands, two keys, an invite for one device. The
  invariants also hold with five commands, three keys and an invite for two.

Deadlock is not checked because a closed connection, a stopped process and a
path without traffic may rest. `RestsOnlyWhenEnded` says where `StreamPath` may.

### Fairness

Every fairness assumption is weak and is about a goroutine or a timer of the
program, which the Go scheduler and runtime run. `BCLConn`: goroutines and timers
go on, the mux keeps reading and stays in the Write it began; nobody has to start
a Write or a Close, and the network never has to work. `Shaping`: the sender's
steps; the sampler's loop ends if it can, which holds with probability 1.
`TunnelClient`: Run and each opener go on and timers that exist fire; the server
answers while the path works, and a dial into a dead path ends for sure only with
its context. `Admission`: client and handler, where a read ends only by data or by
a deadline that is set. `DeviceSetup`: a command goes on, its deadlines pass, the
ticker of `connect` rewrites the status every ten seconds and a status nobody
rewrites grows old. Nobody has to start, kill or end a command, and the server owes
no answer, nor does the user of `init`, and the dial of `import`, which has no deadline,
need not end. `[]<>P` stands for `~P ~> P`, which is the same and quicker to check.
The runs of `StreamPath` and `Registry` need no fairness.

## 4. Proofs

For all values of the constants that satisfy the named assumptions:

* `BCLConn_proofs`: `TypeCorrect`, `Conservation`, `OrderedDelivery`,
  `QuietDelivery`, `Served`. Ordered delivery is not
  inductive: it says nothing about bytes on their way. `StreamConserved` does. It
  places every accepted byte in one of received, read buffer, wire, frame being
  written, burst, inbox, in that order, and each action moves a run of bytes from
  one place to the next. The lemmas for the steps of Write, of the sender, and for a
  frame that goes out or is read come first. After a failed write the
  part before the wire is given up, as the connection never writes again. The
  exceptions are the two the code has: overlapping writers (`raced`) and a burst
  dropped when Close cancels (`abandoned`). `Served` is the safety part of
  `WriteTerminates`: a sender ends, and a burst is dropped, only after cancel, and a
  Read fails only at a closed or broken connection or a lost frame boundary
  (`ServedInv`); by conservation the last takes overlapping writers. So while an
  end is open its sender is there, and when it is blocked on a full wire the peer
  reads or the write fails.
* `Refinement` (`BCLConn_proofs`): every step of `BCLConn` is a step of
  `ByteStream` or changes nothing there. It rests on the conservation invariant: a
  Read returns the next bytes because nothing else can be first.
* `Shaping_proofs`, for flushes and latencies of any size: `Frames` and `Delays`.
  `FrameInv` says what is known of the frame in the making at each step of
  `fragmentAndSend`, `PacerInv` keeps the rate within its limits. The distributions
  are those of the code, and what the bisection of `Sample` returns is the
  assumption `SampleInverts`, which TLC evaluates for every personality and every
  random number.
* `TunnelClient_proofs`: `ClientTypeCorrect`; `SingleSession`; `RetriesCounted`,
  from the fact that `attempt` and `failures` agree while a configuration limits
  them; `StreamsAccounted`; `DelaysExponential`, from `DelayInv`: the delay is the
  one for the failures so far, or one failure behind while Run looks at an error
  and waits, and the jitter adds less than a quarter. `StepAssumption` unfolds the
  recursion of `NthDelay` and has the counters stop no earlier than the delay does.
* `StreamPath_proofs`, for a path of any length, links of any capacity and any
  number of bytes: `OkIsEndToEnd`, from `PathInv`, which says of every place an OK
  can be (queued, held by a loop, read) that the links behind it exist;
  `HandlersClose`, from what is open at each step of a handler; `Delivery` and
  `Types`. What the ends received says nothing of the bytes on the way, so
  `Delivery` needs `FlowInv`: there are counts `w` and `r` of the bytes written for
  and read by each conn such that each queue holds exactly the bytes `r + 1 .. w`,
  behind the request or the answer while that is unread, and a copy loop holds the
  next byte or none. A handler before its copy loops has copied nothing; the HTTP
  proxy's reader is the one exception, and hands its byte on with the answer. A
  closed conn reads no more, and nothing is said of it. `Types` follows, as a
  loop and the reader hold only bytes because the handlers took the words of the
  protocol off the queues first.
* `PathStreams` (`StreamPath_proofs`): every step of a path is a step of `ByteStream`
  or changes nothing there. That bytes come in order is `Delivery`; the rest is about
  ends. What has ended stays so: only application and target finish a conn they have
  not closed (`Finished`), so an end that saw the end of its link has a closed peer,
  and nothing is queued for it any more (`Steady`). And no step ends both directions,
  since a path has two nodes at least and each closes only its own conns (`NodeActs`).
* `StreamPath_cuts`, on the same paths: `Truncation`. Each loop of a relay closes the
  conn the other loop reads, so that no loop ends early is a fact about the whole
  path. `RanInv` says that behind an OK every handler has started its loops, so once
  the application read it no handler of the path gave up before copying. `FinInv`
  then says that a conn of a node is finished only by the loop that writes to it.
  `CutInv` strengthens `FlowInv`: in a direction with no cause yet (no link broke, its
  reader has not finished, nothing collided the other way) a loop has returned only
  if the origin finished, all it sent was handed on and the loop before it returned
  too; and the loop of the other direction only if this one did. That needs the
  counts of a loop that returned to stay as they are, which `FlowGoesOn` says for
  every step.
* `Rest` (`StreamPath_cuts`): a path that one end closed rests only when all
  handlers have returned, unless data met a closed end in both directions. `EndInv`
  says that a loop which returned has closed the conn it wrote to, and why it
  returned. At rest, a loop that is blocked on a full stream has a blocked loop at
  the next node (`BlockedNext`): of its own direction or, where its data met a closed
  end, of the other. The last one of a direction must be of the second kind, so
  blocked loops take a collision in both directions. Without them the end of one
  side is passed on, node by node, from the end that closed. The last and the first
  node of a set exist because a set of naturals has a smallest element (`Smallest`,
  from the library's well-founded `<`); no induction principle is used.
* `Registry_proofs`, for all interleavings of the server and the commands:
  `RegistryTypeCorrect`, `CopiesConsistent`, `FileAlwaysReadable`, `RevocationIsFinal`,
  `InvitesUsable`, `AdmissionsDurable` and `AdmissionsWithinLimit`. `CopiesConsistent`
  counts: the uses of a store are the pairs of a token and a number up to its uses, and
  there are as many as devices. `UsesInv` says so of both memories and of both files,
  whatever a torn write or a rename by the other process makes of them, and that what
  is not an invite yet has no uses. `SaveInv` says, until saves are `mixed`, that one
  process has the temporary file and what it holds at each step of the save. The other
  theorems are about answers, which say nothing of what a server will do next; so
  `CleanInv` says, until an update is `lost`, that the file holds all that was answered
  (`Holds`), that a process which is not `behind` has in memory all that the file has
  (`Keeps`), and that an answer still to be given is backed by the store it is saved
  from (`Backs`). A save of a process that is not behind then only adds to the file. For
  revocations that is `Barred`: the record that AuthorizeDevice would find first is
  revoked, and a key that registers again is appended behind it.
* `Admission_proofs`, for any number of connections, clocks and capacities:
  `AdmissionTypes`, `Told`, `Clocks` and `Telemetry`. The invariant is one per
  connection, about the places of the client and of the handler; the probe ring is
  the newest part of the history of failures, as much as fits.
* `DeviceSetup_proofs`, for any number of processes and commands:
  `SetupTypeCorrect`, `KeysAreKept`, `ProfilesAreRegistered`, `StrandingHasCause`,
  `StatusIsOwned`. For the keys, `KeyInv` adds that a file someone has open is torn
  and open once, that a command about to register has its key in a file, and that
  a rotation about to rename replaces no backup. `ImportInv` follows an import from
  the server's answer to the profile.

Every invariant and action property of the passing runs is proved. Liveness is out of
the prover's reach and only model-checked; `Rest` and `Served` are the parts of it that
are about single states. What a recursive function
computes for every input (`NthDelay` in `TunnelClient`, `Sample` in `Shaping`) is an
assumption that TLC evaluates.

Most leaves cite Zenon, since the translation for the SMT backend slows down in a
long module; SMT does the arithmetic and the sequences. `StreamPath_proofs` and
`StreamPath_cuts` take about fifteen minutes each, `BCLConn_proofs` and `Registry_proofs`
five each, the others less.

## 5. Not modelled

* smux and TLS: libraries. A session opens, accepts, breaks and closes; a dial
  succeeds, fails or is cancelled.
* The Weibull and log-normal samplers and the jitter of the keepalive: they choose
  how long a timer runs, and timers here fire in any order.
* Bytes of requests and frames apart from what decides the control: parsing of
  SOCKS5 and HTTP, marshalling of the handshakes, link syntax. They are pure
  functions with tests of their own.
* Metrics other than the session gauge, snapshots and the read-only part of the
  dashboard: written and never read by the program, or read only.
* Configuration apart from the profile: a pure function of a file. Some settings
  have no effect: `Reconnect.Enabled`, `MaxStreams`, `MaxInboxBytes` and
  `UploadFraction` are not used.
* What commands print, and flag parsing.

`PROJECT.json` lists every part with its status.
