------------------------------ MODULE BCLConn ------------------------------
(***************************************************************************)
(* The Behavioral Camouflage Layer connection, internal/bcl/conn.go, and   *)
(* the frame writer and reader it uses, pkg/protocol/frame.go: the two     *)
(* Conns at the ends of one TLS connection.                                *)
(*                                                                         *)
(* At each end run: the mux that calls Write, the mux that calls Read, the *)
(* sender goroutine, the keepalive goroutine and whoever calls Close.      *)
(*                                                                         *)
(* Data.  A byte is the number of its position in the stream that the Write *)
(* calls of one end accepted (1, 2, ...), so a slice of bytes is a sequence *)
(* of numbers.  Time is abstracted to the order in which timers fire; the   *)
(* pacer only delays steps and has no effect on their order.                *)
(***************************************************************************)
EXTENDS Naturals, Sequences

CONSTANTS
  InboxCap,         \* capacity of the inbox channel (256 in Wrap)
  ChanCap,          \* capacity of pingCh and of pongCh (4 in Wrap)
  WireCap,          \* frames the TLS connection buffers before Write blocks
  MaxBurstBytes,    \* Personality.MaxBurstBytes
  ApparentSizes,    \* the sizes SampleApparentSize can return
  FrameHeaderSize,  \* protocol.FrameHeaderSize
  MaxPayloadSize,   \* protocol.MaxPayloadSize
  WriteSizes,       \* the lengths of the slices the mux passes to Write
  ReadSizes,        \* the lengths of the slices the mux passes to Read
  MaxBytes,         \* bound: bytes that each end offers to Write
  MaxPings,         \* bound: PINGs that each end's keepalive loop sends
  Closers,          \* bound: the ends that may call Close
  NetMayFail        \* bound: whether the network path may fail

Ends == {"client", "server"}
Peer(e) == IF e = "client" THEN "server" ELSE "client"

ASSUME CapAssumption ==
  /\ InboxCap \in Nat \ {0}
  /\ ChanCap \in Nat \ {0}
  /\ WireCap \in Nat \ {0}
  /\ MaxBurstBytes \in Nat \ {0}
ASSUME SizeAssumption ==
  /\ ApparentSizes \subseteq Nat
  /\ FrameHeaderSize \in Nat
  /\ MaxPayloadSize \in Nat \ {0}
  /\ WriteSizes \subseteq Nat \ {0}
  /\ ReadSizes \subseteq Nat \ {0}
ASSUME BoundAssumption ==
  /\ MaxBytes \in [Ends -> Nat]
  /\ MaxPings \in [Ends -> Nat]
  /\ Closers \subseteq Ends
  /\ NetMayFail \in BOOLEAN

Bytes == Nat

(* A frame: a DATA frame has a payload; a PING or a PONG has an id, which   *)
(* tells PINGs apart in the properties only: randomBytes fills the payload  *)
(* of every PING with the same eight bytes.                                 *)
DataFrame(s) == [type |-> "DATA", payload |-> s, id |-> 0]
PingFrame(i) == [type |-> "PING", payload |-> <<>>, id |-> i]
PongFrame(i) == [type |-> "PONG", payload |-> <<>>, id |-> i]
NoFrame      == [type |-> "none", payload |-> <<>>, id |-> 0]
(* Bytes on the wire that are not the image of one frame.                   *)
Garbled      == [type |-> "garbled", payload |-> <<>>, id |-> 0]

Frames == [type : {"DATA", "PING", "PONG", "none", "garbled"},
           payload : Seq(Bytes), id : Nat]

Goroutines == {"sender", "keepalive"}
OtherOf(g) == IF g = "sender" THEN "keepalive" ELSE "sender"

VARIABLES
  \* Write side, one value per end
  accepted,   \* number of bytes Write has accepted (history)
  writing,    \* length of the slice of the Write call in progress, 0 if none
  writeErr,   \* writeErr holds an error
  inbox,      \* the inbox channel: a sequence of slices
  \* sender goroutine
  spc,        \* where the sender is
  state,      \* Conn.state
  burst,      \* collected burst; during the flush, what remains of it
  abandoned,  \* a collected burst was dropped because ctx was done (history)
  flushed,    \* number of bytes written in DATA frames (history)
  \* keepalive goroutine
  kpc,        \* where the keepalive loop is
  pings,      \* number of PINGs sent (history; gives PINGs their ids)
  pending,    \* pendingPingSent: id of the PING whose time is recorded, or 0
  \* frame writer, shared by the two goroutines of an end
  wframe,     \* the frame each goroutine is writing, NoFrame if none
  overlap,    \* frames of the other goroutine that used the buffer meanwhile
  raced,      \* two WriteFrame calls have overlapped (history)
  broken,     \* the TLS connection has failed a write; it fails all later ones
  \* connection and read side
  closing,    \* progress of Close
  netDown,    \* the network path has failed
  wire,       \* frames on the way from an end to its peer
  received,   \* bytes Read has returned (history)
  readBuf,    \* rest of a partly read DATA frame
  desync,     \* ReadFrame no longer starts at a frame boundary
  readErr,    \* Read has returned an error; the mux stops reading
  pingCh,     \* PINGs waiting for the sender
  pongCh      \* PONGs waiting for the sender

writeVars  == <<accepted, writing, writeErr, inbox>>
senderVars == <<spc, state, burst, abandoned, flushed>>
keepVars   == <<kpc, pings, pending>>
frameVars  == <<wframe, overlap, raced, broken>>
readVars   == <<received, readBuf, desync, readErr>>
chanVars   == <<pingCh, pongCh>>
vars == <<writeVars, senderVars, keepVars, frameVars, closing, netDown, wire,
          readVars, chanVars>>

(* Mutant: Close without the call of cancel.                                *)
ctxDoneNever(e) == FALSE

ctxDone(e)    == closing[e] # "open"
connClosed(e) == closing[e] \in {"connClosed", "closed"}

TypeOK ==
  /\ accepted \in [Ends -> Nat]
  /\ writing \in [Ends -> Nat]
  /\ writeErr \in [Ends -> BOOLEAN]
  /\ inbox \in [Ends -> Seq(Seq(Bytes))]
  /\ spc \in [Ends -> {"select", "begin", "collect", "send", "drain", "think", "exited"}]
  /\ state \in [Ends -> {"IDLE", "BURST", "DRAIN", "THINK"}]
  /\ burst \in [Ends -> Seq(Bytes)]
  /\ abandoned \in [Ends -> BOOLEAN]
  /\ flushed \in [Ends -> Nat]
  /\ kpc \in [Ends -> {"wait", "ping", "exited"}]
  /\ pings \in [Ends -> Nat]
  /\ pending \in [Ends -> Nat]
  /\ wframe \in [Ends -> [Goroutines -> Frames]]
  /\ overlap \in [Ends -> [Goroutines -> SUBSET Frames]]
  /\ raced \in [Ends -> BOOLEAN]
  /\ broken \in [Ends -> BOOLEAN]
  /\ closing \in [Ends -> {"open", "cancelled", "connClosed", "closed"}]
  /\ netDown \in BOOLEAN
  /\ wire \in [Ends -> Seq(Frames)]
  /\ received \in [Ends -> Seq(Bytes)]
  /\ readBuf \in [Ends -> Seq(Bytes)]
  /\ desync \in [Ends -> BOOLEAN]
  /\ readErr \in [Ends -> BOOLEAN]
  /\ pingCh \in [Ends -> Seq(Frames)]
  /\ pongCh \in [Ends -> Seq(Frames)]

(* Wrap: both goroutines started, nothing sent.                             *)
Init ==
  /\ accepted = [e \in Ends |-> 0]
  /\ writing = [e \in Ends |-> 0]
  /\ writeErr = [e \in Ends |-> FALSE]
  /\ inbox = [e \in Ends |-> <<>>]
  /\ spc = [e \in Ends |-> "select"]
  /\ state = [e \in Ends |-> "IDLE"]
  /\ burst = [e \in Ends |-> <<>>]
  /\ abandoned = [e \in Ends |-> FALSE]
  /\ flushed = [e \in Ends |-> 0]
  /\ kpc = [e \in Ends |-> "wait"]
  /\ pings = [e \in Ends |-> 0]
  /\ pending = [e \in Ends |-> 0]
  /\ wframe = [e \in Ends |-> [g \in Goroutines |-> NoFrame]]
  /\ overlap = [e \in Ends |-> [g \in Goroutines |-> {}]]
  /\ raced = [e \in Ends |-> FALSE]
  /\ broken = [e \in Ends |-> FALSE]
  /\ closing = [e \in Ends |-> "open"]
  /\ netDown = FALSE
  /\ wire = [e \in Ends |-> <<>>]
  /\ received = [e \in Ends |-> <<>>]
  /\ readBuf = [e \in Ends |-> <<>>]
  /\ desync = [e \in Ends |-> FALSE]
  /\ readErr = [e \in Ends |-> FALSE]
  /\ pingCh = [e \in Ends |-> <<>>]
  /\ pongCh = [e \in Ends |-> <<>>]

-----------------------------------------------------------------------------
(* Write.  The mux has one send loop, so one call is in progress at a time. *)
(* The check of writeErr and the send on the inbox are two steps: the send   *)
(* blocks while the inbox is full.                                           *)

(* The next n bytes of the stream that end e accepts.                       *)
NextBytes(e, n) == [i \in 1..n |-> accepted[e] + i]

WriteBegin(e, n) ==
  /\ writing[e] = 0
  /\ ~writeErr[e]
  /\ accepted[e] + n <= MaxBytes[e]
  /\ writing' = [writing EXCEPT ![e] = n]
  /\ UNCHANGED <<accepted, writeErr, inbox, senderVars, keepVars, frameVars,
                 closing, netDown, wire, readVars, chanVars>>

WriteAccept(e) ==
  /\ writing[e] # 0
  /\ Len(inbox[e]) < InboxCap
  /\ inbox' = [inbox EXCEPT ![e] = Append(@, NextBytes(e, writing[e]))]
  /\ accepted' = [accepted EXCEPT ![e] = @ + writing[e]]
  /\ writing' = [writing EXCEPT ![e] = 0]
  /\ UNCHANGED <<writeErr, senderVars, keepVars, frameVars, closing, netDown,
                 wire, readVars, chanVars>>

(* When ctx is done and the inbox has room, select may take either case.    *)
WriteClosed(e) ==
  /\ writing[e] # 0
  /\ ctxDone(e)
  /\ writing' = [writing EXCEPT ![e] = 0]
  /\ UNCHANGED <<accepted, writeErr, inbox, senderVars, keepVars, frameVars,
                 closing, netDown, wire, readVars, chanVars>>

-----------------------------------------------------------------------------
(* protocol.Writer.WriteFrame in two steps: fill the buffer, then write it   *)
(* to the TLS connection.  Writer.buf is shared by the goroutines of one end *)
(* without a lock.  When their calls overlap, a goroutine may write its own  *)
(* frame, the other's frame, or a mix of both.                               *)
FillFrame(e, g, f) ==
  LET h == OtherOf(g)
      busy == wframe[e][h] # NoFrame
  IN /\ wframe[e][g] = NoFrame
     /\ wframe' = [wframe EXCEPT ![e][g] = f]
     /\ overlap' = IF busy
                   THEN [overlap EXCEPT ![e] =
                           [x \in Goroutines |->
                              IF x = g THEN {wframe[e][h]} ELSE @[h] \union {f}]]
                   ELSE overlap
     /\ raced' = [raced EXCEPT ![e] = @ \/ busy]
     /\ UNCHANGED broken

(* What conn.Write sends for goroutine g.                                   *)
Emitted(e, g) ==
  {wframe[e][g]} \union
  (IF overlap[e][g] = {} THEN {} ELSE overlap[e][g] \union {Garbled})

Leave(e, g) ==
  /\ wframe' = [wframe EXCEPT ![e][g] = NoFrame]
  /\ overlap' = [overlap EXCEPT ![e][g] = {}]
  /\ UNCHANGED raced

(* crypto/tls: a write fails on a closed connection, may fail when the path  *)
(* or the peer is gone, and keeps failing once it has failed.  It blocks     *)
(* while the peer does not read.                                             *)
TlsWriteOk(e, g) ==
  /\ ~connClosed(e)
  /\ ~broken[e]
  /\ Len(wire[e]) < WireCap
  /\ \E f \in Emitted(e, g) : wire' = [wire EXCEPT ![e] = Append(@, f)]
  /\ Leave(e, g)
  /\ UNCHANGED broken

TlsWriteFails(e, g) ==
  /\ connClosed(e) \/ broken[e] \/ netDown \/ connClosed(Peer(e))
  /\ broken' = [broken EXCEPT ![e] = TRUE]
  /\ Leave(e, g)
  /\ UNCHANGED wire

-----------------------------------------------------------------------------
(* sender and runBurstCycle.  A nested runBurstCycle returns straight through *)
(* its callers to the loop of sender, so the recursion is a jump.             *)

SenderFree(e) == wframe[e]["sender"] = NoFrame

(* The first slice of a burst is received, in sender or in the DRAIN or THINK  *)
(* phase; ...                                                                  *)
SenderTakeItem(e) ==
  /\ SenderFree(e)
  /\ spc[e] \in {"select", "drain", "think"}
  /\ inbox[e] # <<>>
  /\ burst' = [burst EXCEPT ![e] = Head(inbox[e])]
  /\ inbox' = [inbox EXCEPT ![e] = Tail(@)]
  /\ spc' = [spc EXCEPT ![e] = "begin"]
  /\ UNCHANGED <<accepted, writing, writeErr, state, abandoned, flushed, keepVars,
                 frameVars, closing, netDown, wire, readVars, chanVars>>

(* ... only then is the state set, so the keepalive goroutine may look at it    *)
(* in between.                                                                 *)
SenderBurst(e) ==
  /\ SenderFree(e)
  /\ spc[e] = "begin"
  /\ state' = [state EXCEPT ![e] = "BURST"]
  /\ spc' = [spc EXCEPT ![e] = "collect"]
  /\ UNCHANGED <<writeVars, burst, abandoned, flushed, keepVars, frameVars,
                 closing, netDown, wire, readVars, chanVars>>

(* Another slice within the burst window; coalesceBurst joins them in order. *)
SenderCollect(e) ==
  /\ SenderFree(e)
  /\ spc[e] = "collect"
  /\ inbox[e] # <<>>
  /\ burst' = [burst EXCEPT ![e] = @ \o Head(inbox[e])]
  /\ inbox' = [inbox EXCEPT ![e] = Tail(@)]
  /\ spc' = [spc EXCEPT ![e] = IF Len(burst[e]) + Len(Head(inbox[e])) >= MaxBurstBytes
                               THEN "send" ELSE "collect"]
  /\ UNCHANGED <<accepted, writing, writeErr, state, abandoned, flushed,
                 keepVars, frameVars, closing, netDown, wire, readVars, chanVars>>

(* Mutant: the burst window has no timer.                                   *)
SenderTimerNoWindow(e) ==
  /\ SenderFree(e)
  /\ \/ /\ spc[e] = "drain"
        /\ spc' = [spc EXCEPT ![e] = "think"]
        /\ state' = [state EXCEPT ![e] = "THINK"]
     \/ /\ spc[e] = "think"
        /\ spc' = [spc EXCEPT ![e] = "select"]
        /\ state' = [state EXCEPT ![e] = "IDLE"]
  /\ UNCHANGED <<writeVars, burst, abandoned, flushed, keepVars, frameVars,
                 closing, netDown, wire, readVars, chanVars>>

(* A timer of the sender fires: burst window, drain or think timer.         *)
SenderTimer(e) ==
  /\ SenderFree(e)
  /\ \/ /\ spc[e] = "collect"
        /\ spc' = [spc EXCEPT ![e] = "send"]
        /\ UNCHANGED state
     \/ /\ spc[e] = "drain"
        /\ spc' = [spc EXCEPT ![e] = "think"]
        /\ state' = [state EXCEPT ![e] = "THINK"]
     \/ /\ spc[e] = "think"
        /\ spc' = [spc EXCEPT ![e] = "select"]
        /\ state' = [state EXCEPT ![e] = "IDLE"]
  /\ UNCHANGED <<writeVars, burst, abandoned, flushed, keepVars, frameVars,
                 closing, netDown, wire, readVars, chanVars>>

(* ctx.Done: runBurstCycle returns and drops the burst it has collected;     *)
(* sender itself ends.                                                       *)
SenderDone(e) ==
  /\ SenderFree(e)
  /\ ctxDone(e)
  /\ spc[e] \in {"select", "collect", "drain", "think"}
  /\ spc' = [spc EXCEPT ![e] = IF @ = "select" THEN "exited" ELSE "select"]
  /\ abandoned' = [abandoned EXCEPT ![e] = @ \/ spc[e] = "collect"]
  /\ burst' = [burst EXCEPT ![e] = <<>>]
  /\ UNCHANGED <<writeVars, state, flushed, keepVars, frameVars, closing,
                 netDown, wire, readVars, chanVars>>

(* fragmentAndSend: the payload of the next frame.                          *)
MaxPayload(size) ==
  IF size <= FrameHeaderSize THEN 1
  ELSE IF size - FrameHeaderSize > MaxPayloadSize THEN MaxPayloadSize
  ELSE size - FrameHeaderSize

PayloadLen(e, size) ==
  IF Len(burst[e]) > MaxPayload(size) THEN MaxPayload(size) ELSE Len(burst[e])

(* SelectPayloadSize returns: with the video size model its sampler may not    *)
(* (module Shaping), and what is said below of steps that must happen leaves   *)
(* that personality out.                                                       *)
SenderFill(e, size) ==
  LET n == PayloadLen(e, size) IN
  /\ SenderFree(e)
  /\ spc[e] = "send"
  /\ FillFrame(e, "sender", DataFrame(SubSeq(burst[e], 1, n)))
  /\ burst' = [burst EXCEPT ![e] = SubSeq(@, n + 1, Len(@))]
  /\ UNCHANGED <<writeVars, spc, state, abandoned, flushed, keepVars, closing,
                 netDown, wire, readVars, chanVars>>

(* writePong, in every phase but the flush.                                 *)
SenderFillPong(e) ==
  /\ spc[e] \in {"select", "collect", "drain", "think"}
  /\ pingCh[e] # <<>>
  /\ FillFrame(e, "sender", PongFrame(Head(pingCh[e]).id))
  /\ pingCh' = [pingCh EXCEPT ![e] = Tail(@)]
  /\ UNCHANGED <<writeVars, senderVars, keepVars, closing, netDown, wire,
                 readVars, pongCh>>

(* Mutant: the flush stops after its first frame.                           *)
SenderSentOnce(e) ==
  /\ wframe[e]["sender"].type = "DATA"
  /\ TlsWriteOk(e, "sender")
  /\ flushed' = [flushed EXCEPT ![e] = @ + Len(wframe[e]["sender"].payload)]
  /\ spc' = [spc EXCEPT ![e] = "drain"]
  /\ state' = [state EXCEPT ![e] = "DRAIN"]
  /\ UNCHANGED <<writeVars, burst, abandoned, keepVars, closing,
                 netDown, readVars, chanVars>>

(* A DATA frame is out.  After the last one the sender enters DRAIN.        *)
SenderSent(e) ==
  LET last == burst[e] = <<>> IN
  /\ wframe[e]["sender"].type = "DATA"
  /\ TlsWriteOk(e, "sender")
  /\ flushed' = [flushed EXCEPT ![e] = @ + Len(wframe[e]["sender"].payload)]
  /\ spc' = [spc EXCEPT ![e] = IF last THEN "drain" ELSE @]
  /\ state' = [state EXCEPT ![e] = IF last THEN "DRAIN" ELSE @]
  /\ UNCHANGED <<writeVars, burst, abandoned, keepVars, closing,
                 netDown, readVars, chanVars>>

(* Mutant: the sender ends at a write error.                                *)
SenderSendFailsExits(e) ==
  /\ wframe[e]["sender"].type = "DATA"
  /\ TlsWriteFails(e, "sender")
  /\ writeErr' = [writeErr EXCEPT ![e] = TRUE]
  /\ burst' = [burst EXCEPT ![e] = <<>>]
  /\ spc' = [spc EXCEPT ![e] = "exited"]
  /\ UNCHANGED <<accepted, writing, inbox, state, abandoned, flushed, keepVars,
                 closing, netDown, readVars, chanVars>>

(* The write fails: the error is stored, the rest of the burst is dropped,   *)
(* the state stays BURST and the sender goes on to serve the inbox.          *)
SenderSendFails(e) ==
  /\ wframe[e]["sender"].type = "DATA"
  /\ TlsWriteFails(e, "sender")
  /\ writeErr' = [writeErr EXCEPT ![e] = TRUE]
  /\ burst' = [burst EXCEPT ![e] = <<>>]
  /\ spc' = [spc EXCEPT ![e] = "select"]
  /\ UNCHANGED <<accepted, writing, inbox, state, abandoned, flushed, keepVars,
                 closing, netDown, readVars, chanVars>>

(* A PONG is out or has failed, which is ignored.  The DRAIN select is not   *)
(* in a loop: any event but new data ends the phase.                         *)
SenderPonged(e) ==
  /\ wframe[e]["sender"].type = "PONG"
  /\ TlsWriteOk(e, "sender") \/ TlsWriteFails(e, "sender")
  /\ spc' = [spc EXCEPT ![e] = IF @ = "drain" THEN "think" ELSE @]
  /\ state' = [state EXCEPT ![e] = IF spc[e] = "drain" THEN "THINK" ELSE @]
  /\ UNCHANGED <<writeVars, burst, abandoned, flushed, keepVars, closing,
                 netDown, readVars, chanVars>>

(* processPong, in the DRAIN and THINK phases only.                         *)
SenderPong(e) ==
  /\ SenderFree(e)
  /\ spc[e] \in {"drain", "think"}
  /\ pongCh[e] # <<>>
  /\ pongCh' = [pongCh EXCEPT ![e] = Tail(@)]
  /\ pending' = [pending EXCEPT ![e] = 0]
  /\ spc' = [spc EXCEPT ![e] = "think"]
  /\ state' = [state EXCEPT ![e] = "THINK"]
  /\ UNCHANGED <<writeVars, burst, abandoned, flushed, kpc, pings,
                 frameVars, closing, netDown, wire, readVars, pingCh>>

-----------------------------------------------------------------------------
(* keepaliveLoop.  The timer fires and Conn.state is read, without          *)
(* synchronisation with the sender, and the idle time is checked; the PING  *)
(* is written in a later step.  In the other cases the loop starts over.    *)
(* How long ago the last activity was (lastActivityNs) is not tracked, so   *)
(* the check of the idle time may pass whenever the timer fires.            *)
KeepaliveFires(e) ==
  /\ kpc[e] = "wait"
  /\ pings[e] < MaxPings[e]
  /\ state[e] \notin {"BURST", "DRAIN"}
  /\ kpc' = [kpc EXCEPT ![e] = "ping"]
  /\ UNCHANGED <<writeVars, senderVars, pings, pending, frameVars,
                 closing, netDown, wire, readVars, chanVars>>

(* sendPing records the time of the PING, then writes it.                   *)
KeepaliveFill(e) ==
  /\ kpc[e] = "ping"
  /\ FillFrame(e, "keepalive", PingFrame(pings[e] + 1))
  /\ pings' = [pings EXCEPT ![e] = @ + 1]
  /\ pending' = [pending EXCEPT ![e] = pings[e] + 1]
  /\ UNCHANGED <<writeVars, senderVars, kpc, closing, netDown, wire,
                 readVars, chanVars>>

KeepaliveSent(e) ==
  /\ wframe[e]["keepalive"] # NoFrame
  /\ TlsWriteOk(e, "keepalive")
  /\ kpc' = [kpc EXCEPT ![e] = "wait"]
  /\ UNCHANGED <<writeVars, senderVars, pings, pending, closing,
                 netDown, readVars, chanVars>>

(* A failed PING ends the loop and is not stored in writeErr.               *)
KeepaliveFails(e) ==
  /\ wframe[e]["keepalive"] # NoFrame
  /\ TlsWriteFails(e, "keepalive")
  /\ kpc' = [kpc EXCEPT ![e] = "exited"]
  /\ UNCHANGED <<writeVars, senderVars, pings, pending, closing,
                 netDown, readVars, chanVars>>

KeepaliveDone(e) ==
  /\ kpc[e] = "wait"
  /\ ctxDone(e)
  /\ kpc' = [kpc EXCEPT ![e] = "exited"]
  /\ UNCHANGED <<writeVars, senderVars, pings, pending, frameVars,
                 closing, netDown, wire, readVars, chanVars>>

-----------------------------------------------------------------------------
(* Read, called by the mux in a loop until it returns an error.             *)

(* The n bytes, or fewer, that fit the caller's slice, and the rest.        *)
Fit(s, n)  == SubSeq(s, 1, IF Len(s) < n THEN Len(s) ELSE n)
Rest(s, n) == SubSeq(s, (IF Len(s) < n THEN Len(s) ELSE n) + 1, Len(s))

ReadLeftover(e, n) ==
  /\ ~readErr[e]
  /\ readBuf[e] # <<>>
  /\ received' = [received EXCEPT ![e] = @ \o Fit(readBuf[e], n)]
  /\ readBuf' = [readBuf EXCEPT ![e] = Rest(@, n)]
  /\ UNCHANGED <<writeVars, senderVars, keepVars, frameVars, closing, netDown,
                 wire, desync, readErr, chanVars>>

(* ReadFrame returns the next frame.                                        *)
NextFrame(e) == Head(wire[Peer(e)])

(* Mutant: a Read after an error goes on with what the connection has left.   *)
ReadFrameAfterError(e) ==
  /\ ~connClosed(e)
  /\ readBuf[e] = <<>>
  /\ wire[Peer(e)] # <<>>
  /\ wire' = [wire EXCEPT ![Peer(e)] = Tail(@)]

ReadFrame(e) ==
  /\ ~readErr[e]
  /\ ~connClosed(e)
  /\ readBuf[e] = <<>>
  /\ wire[Peer(e)] # <<>>
  /\ wire' = [wire EXCEPT ![Peer(e)] = Tail(@)]

(* Mutant: what does not fit the caller's slice is lost.                    *)
ReadDataDropsRest(e, n) ==
  /\ ReadFrame(e)
  /\ ~desync[e]
  /\ NextFrame(e).type = "DATA"
  /\ received' = [received EXCEPT ![e] = @ \o Fit(NextFrame(e).payload, n)]
  /\ UNCHANGED <<writeVars, senderVars, keepVars, frameVars, closing,
                 netDown, readBuf, desync, readErr, chanVars>>

ReadData(e, n) ==
  /\ ReadFrame(e)
  /\ ~desync[e]
  /\ NextFrame(e).type = "DATA"
  /\ received' = [received EXCEPT ![e] = @ \o Fit(NextFrame(e).payload, n)]
  /\ readBuf' = [readBuf EXCEPT ![e] = Rest(NextFrame(e).payload, n)]
  /\ UNCHANGED <<writeVars, senderVars, keepVars, frameVars, closing,
                 netDown, desync, readErr, chanVars>>

(* PING and PONG are queued for the sender, and dropped when the queue is    *)
(* full.                                                                     *)
Offer(ch, f) == IF Len(ch) < ChanCap THEN Append(ch, f) ELSE ch

ReadPing(e) ==
  /\ ReadFrame(e)
  /\ ~desync[e]
  /\ NextFrame(e).type = "PING"
  /\ pingCh' = [pingCh EXCEPT ![e] = Offer(@, NextFrame(e))]
  /\ UNCHANGED <<writeVars, senderVars, keepVars, frameVars, closing,
                 netDown, readVars, pongCh>>

ReadPong(e) ==
  /\ ReadFrame(e)
  /\ ~desync[e]
  /\ NextFrame(e).type = "PONG"
  /\ pongCh' = [pongCh EXCEPT ![e] = Offer(@, NextFrame(e))]
  /\ UNCHANGED <<writeVars, senderVars, keepVars, frameVars, closing,
                 netDown, readVars, pingCh>>

(* From the first garbled frame on, ReadFrame takes arbitrary bytes for a    *)
(* header: the frame is refused, discarded, or returned as data (byte 0      *)
(* stands for bytes nobody wrote).                                           *)
ReadDesynced(e) ==
  /\ ReadFrame(e)
  /\ desync[e] \/ NextFrame(e).type = "garbled"
  /\ desync' = [desync EXCEPT ![e] = TRUE]
  /\ \/ /\ readErr' = [readErr EXCEPT ![e] = TRUE]
        /\ UNCHANGED received
     \/ /\ received' \in {received, [received EXCEPT ![e] = Append(@, 0)]}
        /\ UNCHANGED readErr
  /\ UNCHANGED <<writeVars, senderVars, keepVars, frameVars, closing,
                 netDown, readBuf, chanVars>>

(* The connection was closed here or by the peer, or the path failed.       *)
ReadFails(e) ==
  /\ ~readErr[e]
  /\ readBuf[e] = <<>>
  /\ connClosed(e) \/ connClosed(Peer(e)) \/ netDown
  /\ readErr' = [readErr EXCEPT ![e] = TRUE]
  /\ UNCHANGED <<writeVars, senderVars, keepVars, frameVars, closing, netDown,
                 wire, received, readBuf, desync, chanVars>>

-----------------------------------------------------------------------------
(* Close, once: cancel ctx, close the TLS connection, wait for the two       *)
(* goroutines.                                                               *)
CloseCancel(e) ==
  /\ e \in Closers
  /\ closing[e] = "open"
  /\ closing' = [closing EXCEPT ![e] = "cancelled"]
  /\ UNCHANGED <<writeVars, senderVars, keepVars, frameVars, netDown, wire,
                 readVars, chanVars>>

CloseConn(e) ==
  /\ closing[e] = "cancelled"
  /\ closing' = [closing EXCEPT ![e] = "connClosed"]
  /\ UNCHANGED <<writeVars, senderVars, keepVars, frameVars, netDown, wire,
                 readVars, chanVars>>

CloseReturns(e) ==
  /\ closing[e] = "connClosed"
  /\ spc[e] = "exited" /\ kpc[e] = "exited"
  /\ closing' = [closing EXCEPT ![e] = "closed"]
  /\ UNCHANGED <<writeVars, senderVars, keepVars, frameVars, netDown, wire,
                 readVars, chanVars>>

(* The network path fails.                                                  *)
NetFails ==
  /\ NetMayFail
  /\ ~netDown
  /\ netDown' = TRUE
  /\ UNCHANGED <<writeVars, senderVars, keepVars, frameVars, closing, wire,
                 readVars, chanVars>>

-----------------------------------------------------------------------------
WriteNext(e) ==
  \/ \E n \in WriteSizes : WriteBegin(e, n)
  \/ WriteAccept(e)
  \/ WriteClosed(e)

SenderNext(e) ==
  \/ SenderTakeItem(e)
  \/ SenderBurst(e)
  \/ SenderCollect(e)
  \/ SenderTimer(e)
  \/ SenderDone(e)
  \/ \E size \in ApparentSizes : SenderFill(e, size)
  \/ SenderFillPong(e)
  \/ SenderSent(e)
  \/ SenderSendFails(e)
  \/ SenderPonged(e)
  \/ SenderPong(e)

KeepaliveNext(e) ==
  \/ KeepaliveFires(e)
  \/ KeepaliveFill(e)
  \/ KeepaliveSent(e)
  \/ KeepaliveFails(e)
  \/ KeepaliveDone(e)

ReadNext(e) ==
  \/ \E n \in ReadSizes : ReadLeftover(e, n) \/ ReadData(e, n)
  \/ ReadPing(e)
  \/ ReadPong(e)
  \/ ReadDesynced(e)
  \/ ReadFails(e)

CloseProceeds(e) == CloseConn(e) \/ CloseReturns(e)

Next ==
  \/ \E e \in Ends :
       \/ WriteNext(e)
       \/ SenderNext(e)
       \/ KeepaliveNext(e)
       \/ ReadNext(e)
       \/ CloseCancel(e)
       \/ CloseProceeds(e)
  \/ NetFails

Spec == Init /\ [][Next]_vars

(* Fairness: the goroutines are scheduled and their timers fire, the muxes   *)
(* keep reading and finish the Write they are in, and a Close that has       *)
(* started goes on.  Nobody is obliged to start a Write or a Close.          *)
Fairness ==
  \A e \in Ends :
    /\ WF_vars(SenderNext(e))
    /\ WF_vars(KeepaliveNext(e))
    /\ WF_vars(ReadNext(e))
    /\ WF_vars(WriteAccept(e) \/ WriteClosed(e))
    /\ WF_vars(CloseProceeds(e))

FairSpec == Spec /\ Fairness

-----------------------------------------------------------------------------
(* Properties                                                                *)

(* The bytes that Read returned at the peer of e are the first bytes that    *)
(* Write accepted at e, in order.                                            *)
InOrder(e) ==
  LET r == received[Peer(e)] IN
  /\ Len(r) <= accepted[e]
  /\ \A i \in 1..Len(r) : r[i] = i

(* Coalescing, fragmentation, partial reads, write errors and Close never    *)
(* reorder, repeat or skip a byte of the stream, as long as the two writers   *)
(* of the frame buffer have not overlapped and Close did not make the sender  *)
(* drop a burst it had collected (Conn.Write to Conn.Read).                   *)
DeliveredInOrder ==
  \A e \in Ends : ~raced[e] /\ ~abandoned[e] => InOrder(e)

(* Everything that Write accepted has reached the peer's mux once the        *)
(* sender is at rest, the connection has not failed and the queues on the    *)
(* way are empty: no byte is stuck or lost between two phases of             *)
(* runBurstCycle.                                                            *)
AtRest(e) ==
  /\ spc[e] \in {"select", "drain", "think"}
  /\ SenderFree(e)
  /\ inbox[e] = <<>>
  /\ wire[e] = <<>>
  /\ readBuf[Peer(e)] = <<>>

QuietMeansDelivered ==
  \A e \in Ends :
    AtRest(e) /\ ~raced[e] /\ ~abandoned[e] /\ ~broken[e]
      => Len(received[Peer(e)]) = accepted[e]

(* The inductive invariant behind the two properties above.                  *)

(* Slice s holds the bytes of the stream that follow position b.             *)
IsRun(s, b) == \A k \in 1..Len(s) : s[k] = b + k

(* The slices of q, one after the other, hold the bytes after position a up  *)
(* to position b; pos[i] is the position before the i-th slice.              *)
Laid(q, a, b) ==
  \E pos \in [1..(Len(q) + 1) -> 0..b] :
    /\ pos[1] = a
    /\ pos[Len(q) + 1] = b
    /\ \A i \in 1..Len(q) : IsRun(q[i], pos[i]) /\ pos[i + 1] = pos[i] + Len(q[i])

Payloads(w) == [i \in 1..Len(w) |-> w[i].payload]
Held(e)     == wframe[e]["sender"].payload

(* Who may be writing what, and where the sender may hold bytes.             *)
WriterShape(e) ==
  /\ wframe[e]["sender"].type \in {"none", "DATA", "PONG"}
  /\ wframe[e]["sender"].type = "none" => wframe[e]["sender"] = NoFrame
  /\ wframe[e]["sender"].type # "DATA" => Held(e) = <<>>
  /\ wframe[e]["sender"].type = "DATA" => spc[e] = "send"
  /\ wframe[e]["sender"].type = "PONG" => spc[e] # "send"
  /\ wframe[e]["keepalive"].type \in {"none", "PING"}
  /\ wframe[e]["keepalive"].payload = <<>>
  /\ burst[e] # <<>> => spc[e] \in {"begin", "collect", "send"}
  /\ \A g \in Goroutines : overlap[e][g] # {} => raced[e]

(* The bytes accepted at e are, in order: returned by the peer's Read, left  *)
(* in its readBuf, on the wire, in the frame being written, in the burst,    *)
(* and in the inbox.  After a failed write the part that is not yet on the   *)
(* wire stays there for ever.                                                *)
Conserved(e) ==
  LET p == Peer(e) IN
  /\ ~desync[p]
  /\ \A i \in 1..Len(wire[e]) :
       /\ wire[e][i].type # "garbled"
       /\ wire[e][i].type # "DATA" => wire[e][i].payload = <<>>
  /\ IsRun(received[p], 0)
  /\ IsRun(readBuf[p], Len(received[p]))
  /\ Laid(Payloads(wire[e]), Len(received[p]) + Len(readBuf[p]), flushed[e])
  /\ flushed[e] <= accepted[e]
  /\ ~broken[e] =>
       /\ IsRun(Held(e), flushed[e])
       /\ IsRun(burst[e], flushed[e] + Len(Held(e)))
       /\ Laid(inbox[e], flushed[e] + Len(Held(e)) + Len(burst[e]), accepted[e])

(* Every byte accepted is in exactly one place between Write and the peer's  *)
(* Read, and the places are in stream order (Conn.Write to Conn.Read).       *)
StreamConserved ==
  \A e \in Ends : WriterShape(e) /\ (~raced[e] /\ ~abandoned[e] => Conserved(e))

(* An end that is not being closed is served, so that a Write blocked on its   *)
(* full inbox is not left behind: its sender goroutine is there, also after a   *)
(* write error, and the peer's Read stops only for something that fails the     *)
(* writes of this end as well (Conn.sender, Conn.Read).                         *)
OpenMeansServed ==
  \A e \in Ends : ~ctxDone(e) =>
    /\ spc[e] # "exited"
    /\ readErr[Peer(e)] => raced[e] \/ netDown \/ connClosed(Peer(e))

(* The connection works for end e.                                           *)
Healthy(e) ==
  /\ ~netDown
  /\ \A d \in Ends : ~ctxDone(d)
  /\ ~raced[e] /\ ~desync[Peer(e)]

(* Every accepted byte is returned by the peer's Read, unless the            *)
(* connection fails or is closed or its writers overlap: no phase of the     *)
(* sender, and no PING, starves the inbox for ever.                          *)
EventuallyDelivered ==
  \A e \in Ends :
    []<>(Len(received[Peer(e)]) = accepted[e] \/ ~Healthy(e))

(* Close terminates: cancelling ctx and closing the TLS connection gets both  *)
(* goroutines out of every wait they can be in.  (The loop of the video size   *)
(* sampler is not one of them: it looks at neither, and wg.Wait waits for it.) *)
CloseTerminates ==
  \A e \in Ends : []<>(closing[e] \in {"open", "closed"})

(* A Write blocked on a full inbox returns: the sender makes room, also       *)
(* after a write error, or the Conn is closed.                               *)
WriteTerminates ==
  \A e \in Ends : []<>(writing[e] = 0 \/ raced[e] \/ raced[Peer(e)])

(* conn.go:224-225: the sender is the single goroutine that writes, which     *)
(* ensures ordering; so delivery is in order without the exception for        *)
(* overlapping writers.                                                      *)
SingleWriterDelivery ==
  \A e \in Ends : ~abandoned[e] => InOrder(e)

(* The connection is two byte streams: a step of the implementation accepts   *)
(* bytes, delivers the next ones, ends a stream or changes nothing that its    *)
(* users see, and a stream that ended stays so.  What spoils a stream is an    *)
(* overlap of the two writers, or a burst that Close made the sender drop.     *)
StreamDelivered == [e \in Ends |-> received[Peer(e)]]
StreamEnded     == [e \in Ends |-> readErr[Peer(e)]]
StreamSpoiled   == [e \in Ends |-> raced[e] \/ abandoned[e]]

Stream == INSTANCE ByteStream WITH
  Streams <- Ends, delivered <- StreamDelivered, ended <- StreamEnded, spoiled <- StreamSpoiled

ImplementsByteStream == Stream!Spec
=============================================================================
