----------------------------- MODULE StreamPath -----------------------------
(***************************************************************************)
(* One proxied connection from the application to the target.              *)
(*                                                                         *)
(* Node 1 is the handler of the SOCKS5 or HTTP proxy, node Nodes is        *)
(* handleStream of the server, the nodes between are bridgeStream of       *)
(* relays.  Link n joins node n and node n + 1: link 0 is the TCP          *)
(* connection of the application, link Nodes the one to the target, the    *)
(* others are mux streams.  All handlers have the same shape: read the     *)
(* request on the left link, open the right one, answer on the left, copy  *)
(* both ways, close both.                                                  *)
(*                                                                         *)
(* A conn is one end of a link; inq[c] is what c has still to read.  Close *)
(* shuts both directions of a conn, which is what net.Conn offers; only    *)
(* the application and the target may end one direction alone.             *)
(***************************************************************************)
EXTENDS Integers, Sequences

CONSTANTS
    Nodes,      \* number of nodes of the path
    MaxBytes,   \* bound: bytes the application and the target send
    Cap,        \* bound: what a link buffers per direction
    MaxBreaks   \* bound: sessions that break

ASSUME PathAssumption ==
    /\ Nodes \in Nat /\ Nodes >= 2
    /\ MaxBytes \in Nat /\ Cap \in Nat \ {0} /\ MaxBreaks \in Nat

VARIABLES
    pc,        \* where the handler of a node is
    made,      \* links that exist
    inq,       \* conn -> what it has still to read
    fin,       \* conns that write no more
    shut,      \* conns that are closed
    dead,      \* links that were reset, or whose session broke
    up,        \* sessions (by link) that are live
    breaks,    \* sessions that broke so far
    hold,      \* the chunk a copy loop has read and not written yet
    ended,     \* copy loops that returned, <<node, direction>>
    buf,       \* what the HTTP proxy's reader took beyond the request
    sent,      \* bytes sent by the application and by the target
    got,       \* what they received
    collided   \* history: directions in which a chunk met a closed peer

linkVars == <<made, inq, fin, shut, dead>>
sessVars == <<up, breaks>>
copyVars == <<hold, ended, collided>>
endVars == <<sent, got>>
vars == <<pc, linkVars, sessVars, copyVars, buf, endVars>>

Node == 1..Nodes
Link == 0..Nodes
Mux == 1..(Nodes - 1)
Dir == {"fwd", "bwd"}
Conn == Link \X {"L", "R"}

\* On a link a byte is its number, counted from 1 by the end that sent it.
None == 0
Req == -1    \* a request of the proxy protocol or of CONNECT
Ok == -2     \* the answer OK
Fail == -3   \* any other answer

App == <<0, "L">>
Target == <<Nodes, "R">>
Ends == {App, Target}
Left(n) == <<n - 1, "R">>   \* the conn a node accepted
Right(n) == <<n, "L">>      \* the conn it opened
Peer(c) == <<c[1], IF c[2] = "L" THEN "R" ELSE "L">>

Src(n, d) == IF d = "fwd" THEN Left(n) ELSE Right(n)
Dst(n, d) == IF d = "fwd" THEN Right(n) ELSE Left(n)

Bytes(n) == [i \in 1..n |-> i]

Init ==
    /\ pc = [n \in Node |-> IF n = 1 THEN "request" ELSE "none"]
    /\ made = {0}
    /\ inq = [c \in Conn |-> <<>>]
    /\ fin = {} /\ shut = {} /\ dead = {}
    /\ up \in SUBSET Mux /\ breaks = 0
    /\ hold = [x \in Node \X Dir |-> None] /\ ended = {}
    /\ buf = <<>>
    /\ sent = [c \in Ends |-> 0] /\ got = [c \in Ends |-> <<>>]
    /\ collided = {}

-----------------------------------------------------------------------------
(* Connections: TCP for links 0 and Nodes, smux streams for the others.    *)

\* Read returns data.
Readable(c) == c \notin shut /\ c[1] \notin dead /\ inq[c] # <<>>

\* Read returns EOF or an error.
ReadEnds(c) ==
    \/ c \in shut \/ c[1] \in dead
    \/ inq[c] = <<>> /\ Peer(c) \in fin

\* Write returns an error; it may do so when the peer is closed.
WriteFails(c) == c \in shut \/ c[1] \in dead \/ Peer(c) \in shut

\* Write takes the data.  What a closed peer is sent is never read,
\* so only that there is some is kept.
WriteTakes(c) ==
    /\ c \notin shut /\ c[1] \notin dead
    /\ Peer(c) \in shut \/ Len(inq[Peer(c)]) < Cap

Put(q, c, x) ==
    [q EXCEPT ![Peer(c)] = IF Peer(c) \in shut THEN <<x>> ELSE Append(@, x)]
Take(q, c) == [q EXCEPT ![c] = Tail(@)]

Close(C) == shut' = shut \cup C /\ fin' = fin \cup C

\* TCP resets a connection that was closed with data unread: what the peer had
\* still to read is lost.
Reset(i) ==
    /\ i \in {0, Nodes} \ dead
    /\ \E c \in {<<i, "L">>, <<i, "R">>} : c \in shut /\ inq[c] # <<>>
    /\ dead' = dead \cup {i}
    /\ UNCHANGED <<pc, made, inq, fin, shut, sessVars, copyVars, buf, endVars>>

\* A session breaks, and its stream with it; runSession or upstreamMaintain makes
\* a new one, which matters to a path that has no stream yet.
SessionBreaks(i) ==
    /\ i \in up /\ breaks < MaxBreaks
    /\ up' = up \ {i} /\ breaks' = breaks + 1
    /\ dead' = IF i \in made THEN dead \cup {i} ELSE dead
    /\ UNCHANGED <<pc, made, inq, fin, shut, copyVars, buf, endVars>>

SessionReconnects(i) ==
    /\ i \in Mux \ (up \cup made)
    /\ up' = up \cup {i}
    /\ UNCHANGED <<pc, linkVars, breaks, copyVars, buf, endVars>>

-----------------------------------------------------------------------------
(* The handler of a node.                                                  *)

\* AcceptStream hands a stream to a new handler.
AcceptStream(n) ==
    /\ n > 1 /\ pc[n] = "none" /\ n - 1 \in made \ dead
    /\ pc' = [pc EXCEPT ![n] = "request"]
    /\ UNCHANGED <<linkVars, sessVars, copyVars, buf, endVars>>

\* readConnectRequest, or the request of the proxy protocol.  The bufio.Reader of
\* the HTTP proxy may take what the application sent behind its request.
ReadRequest(n) ==
    /\ pc[n] = "request" /\ Readable(Left(n)) /\ Head(inq[Left(n)]) = Req
    /\ pc' = [pc EXCEPT ![n] = "open"]
    /\ \/ inq' = Take(inq, Left(n)) /\ buf' = buf
       \/ /\ n = 1 /\ Len(inq[Left(n)]) > 1
          /\ buf' = Tail(inq[Left(n)]) /\ inq' = [inq EXCEPT ![Left(n)] = <<>>]
    /\ UNCHANGED <<made, fin, shut, dead, sessVars, copyVars, endVars>>

\* The request does not come in time (10 s; 30 s or 15 s at the proxies), or the
\* conn ends first.
RequestFails(n) ==
    /\ pc[n] = "request"
    /\ pc' = [pc EXCEPT ![n] = "done"]
    /\ Close({Left(n)})
    /\ UNCHANGED <<made, inq, dead, sessVars, copyVars, buf, endVars>>

\* A mistake: the answer is not waited for.
OpenStreamEarly(n) ==
    /\ n < Nodes /\ pc[n] = "open" /\ n \in up
    /\ pc' = [pc EXCEPT ![n] = "answer"]
    /\ made' = made \cup {n}
    /\ inq' = Put(inq, Right(n), Req)
    /\ UNCHANGED <<fin, shut, dead, sessVars, copyVars, buf, endVars>>

\* OpenStream of the client or of the relay: a mux stream, and the CONNECT request
\* on it.  The client waits for a session first.
OpenStream(n) ==
    /\ n < Nodes /\ pc[n] = "open" /\ n \in up
    /\ pc' = [pc EXCEPT ![n] = "sent"]
    /\ made' = made \cup {n}
    /\ inq' = Put(inq, Right(n), Req)
    /\ UNCHANGED <<fin, shut, dead, sessVars, copyVars, buf, endVars>>

\* The server dials the target.
DialTarget ==
    /\ pc[Nodes] = "open"
    /\ pc' = [pc EXCEPT ![Nodes] = "answer"]
    /\ made' = made \cup {Nodes}
    /\ UNCHANGED <<inq, fin, shut, dead, sessVars, copyVars, buf, endVars>>

\* A mistake: the stream that was opened is not closed when its answer is bad.
RefuseLeaks(n) ==
    /\ pc' = [pc EXCEPT ![n] = "done"]
    /\ inq' = IF WriteTakes(Left(n)) THEN Put(inq, Left(n), Fail) ELSE inq
    /\ Close({Left(n)})
    /\ UNCHANGED <<made, dead, sessVars, copyVars, buf, endVars>>

\* The handler answers with a failure, if it still can, and closes what it has.
Refuse(n) ==
    /\ pc' = [pc EXCEPT ![n] = "done"]
    /\ inq' = IF WriteTakes(Left(n)) THEN Put(inq, Left(n), Fail) ELSE inq
    /\ Close({Left(n)} \cup (IF n \in made THEN {Right(n)} ELSE {}))
    /\ UNCHANGED <<made, dead, sessVars, copyVars, buf, endVars>>

\* No live session, at the relay at once and at the client only when the session
\* closed after waitSession looked at it; or the dial of the target fails.
OpenFails(n) ==
    /\ pc[n] = "open" /\ (n < Nodes => n \notin up) /\ (n = 1 => breaks > 0)
    /\ Refuse(n)

\* The proxy read a request that it does not serve: another method, a bad port, no
\* acceptable SOCKS5 method.
RequestRejected(n) == n = 1 /\ pc[n] = "open" /\ Refuse(n)

\* A mistake: the answer is looked at and left in the stream.
ReadResponsePeek(n) ==
    /\ pc[n] = "sent" /\ Readable(Right(n)) /\ Head(inq[Right(n)]) = Ok
    /\ pc' = [pc EXCEPT ![n] = "answer"]
    /\ UNCHANGED <<linkVars, sessVars, copyVars, buf, endVars>>

\* readConnectResponse.
ReadResponse(n) ==
    /\ pc[n] = "sent" /\ Readable(Right(n)) /\ Head(inq[Right(n)]) = Ok
    /\ pc' = [pc EXCEPT ![n] = "answer"]
    /\ inq' = Take(inq, Right(n))
    /\ UNCHANGED <<made, fin, shut, dead, sessVars, copyVars, buf, endVars>>

\* Any other answer, or the end of the stream.
ResponseFails(n) ==
    /\ pc[n] = "sent"
    /\ ReadEnds(Right(n)) \/ (Readable(Right(n)) /\ Head(inq[Right(n)]) = Fail)
    /\ Refuse(n)

\* The relay gives the CONNECT exchange 10 s; the client sets no deadline.
ResponseTimesOut(n) ==
    /\ pc[n] = "sent" /\ n > 1
    /\ Refuse(n)

\* The answer reaches the left conn; the HTTP proxy then writes what its reader
\* holds, whatever becomes of it, and the copy loops start.
AnswerOK(n) ==
    /\ pc[n] = "answer" /\ WriteTakes(Left(n))
    /\ pc' = [pc EXCEPT ![n] = "copy"]
    /\ LET q == Put(inq, Left(n), Ok)
       IN  inq' = IF n = 1 /\ buf # <<>> /\ WriteTakes(Right(n))
                  THEN Put(q, Right(n), Head(buf)) ELSE q
    /\ buf' = IF n = 1 THEN <<>> ELSE buf
    /\ collided' = collided
          \cup (IF n = 1 /\ buf # <<>> /\ WriteFails(Right(n)) THEN {"fwd"} ELSE {})
          \cup (IF Peer(Left(n)) \in shut THEN {"bwd"} ELSE {})
    /\ UNCHANGED <<made, fin, shut, dead, sessVars, hold, ended, endVars>>

\* The answer cannot be written: the deferred closes run.  (The HTTP proxy goes on
\* and finds the conn closed in its copy loops.)
AnswerFails(n) ==
    /\ pc[n] = "answer" /\ WriteFails(Left(n))
    /\ pc' = [pc EXCEPT ![n] = "done"]
    /\ Close({Left(n), Right(n)})
    /\ collided' = collided \cup {"bwd"}
    /\ UNCHANGED <<made, inq, dead, sessVars, hold, ended, buf, endVars>>

-----------------------------------------------------------------------------
(* mux.Relay, and the same two loops in the proxies.                       *)

Copying(n, d) == pc[n] = "copy" /\ <<n, d>> \notin ended

\* io.Copy reads a chunk ...
CopyRead(n, d) ==
    /\ Copying(n, d) /\ hold[<<n, d>>] = None /\ Readable(Src(n, d))
    /\ hold' = [hold EXCEPT ![<<n, d>>] = Head(inq[Src(n, d)])]
    /\ inq' = Take(inq, Src(n, d))
    /\ UNCHANGED <<pc, made, fin, shut, dead, sessVars, ended, collided, buf, endVars>>

\* ... and writes it; a full peer blocks it.
CopyWrite(n, d) ==
    /\ Copying(n, d) /\ hold[<<n, d>>] # None /\ WriteTakes(Dst(n, d))
    /\ inq' = Put(inq, Dst(n, d), hold[<<n, d>>])
    /\ hold' = [hold EXCEPT ![<<n, d>>] = None]
    /\ collided' = IF Peer(Dst(n, d)) \in shut THEN collided \cup {d} ELSE collided
    /\ UNCHANGED <<pc, made, fin, shut, dead, sessVars, ended, buf, endVars>>

\* A mistake: the loop returns without the Close that wakes the other side.
LoopReturnsOpen(n, d) ==
    /\ ended' = ended \cup {<<n, d>>}
    /\ hold' = [hold EXCEPT ![<<n, d>>] = None]
    /\ UNCHANGED <<pc, linkVars, sessVars, buf, endVars>>

\* io.Copy returns and the loop closes the conn it wrote to.
LoopReturns(n, d) ==
    /\ ended' = ended \cup {<<n, d>>}
    /\ hold' = [hold EXCEPT ![<<n, d>>] = None]
    /\ Close({Dst(n, d)})
    /\ UNCHANGED <<pc, made, inq, dead, sessVars, buf, endVars>>

CopyWriteFails(n, d) ==
    /\ Copying(n, d) /\ hold[<<n, d>>] # None /\ WriteFails(Dst(n, d))
    /\ LoopReturns(n, d)
    /\ collided' = collided \cup {d}

\* A mistake: a loop stops when its source has finished, with data still unread.
CopyEndsAtFin(n, d) ==
    /\ Copying(n, d) /\ hold[<<n, d>>] = None
    /\ ReadEnds(Src(n, d)) \/ Peer(Src(n, d)) \in fin
    /\ LoopReturns(n, d)
    /\ UNCHANGED collided

CopyEnds(n, d) ==
    /\ Copying(n, d) /\ hold[<<n, d>>] = None /\ ReadEnds(Src(n, d))
    /\ LoopReturns(n, d)
    /\ UNCHANGED collided

\* Both loops are done: Relay returns and the deferred closes run.
RelayReturns(n) ==
    /\ pc[n] = "copy" /\ {n} \X Dir \subseteq ended
    /\ pc' = [pc EXCEPT ![n] = "done"]
    /\ Close({Left(n), Right(n)})
    /\ UNCHANGED <<made, inq, dead, sessVars, copyVars, buf, endVars>>

-----------------------------------------------------------------------------
(* The application and the target.                                         *)

\* The application sends its request, perhaps with a first byte behind it.
AppRequest ==
    /\ App \notin fin /\ inq[Peer(App)] = <<>> /\ pc[1] = "request" /\ sent[App] = 0
    /\ \E k \in {0, 1} :
          /\ k <= MaxBytes
          /\ inq' = [inq EXCEPT ![Peer(App)] = <<Req>> \o Bytes(k)]
          /\ sent' = [sent EXCEPT ![App] = k]
    /\ UNCHANGED <<pc, made, fin, shut, dead, sessVars, copyVars, buf, got>>

\* The application sends after its request, the target once it is connected.
EndSend(c) ==
    /\ c \notin fin /\ c[1] \in made /\ sent[c] < MaxBytes /\ WriteTakes(c)
    /\ c = App => pc[1] # "request"
    /\ sent' = [sent EXCEPT ![c] = @ + 1]
    /\ inq' = Put(inq, c, sent[c] + 1)
    /\ collided' = IF Peer(c) \in shut
                   THEN collided \cup {IF c = App THEN "fwd" ELSE "bwd"} ELSE collided
    /\ UNCHANGED <<pc, made, fin, shut, dead, sessVars, hold, ended, buf, got>>

EndReceive(c) ==
    /\ Readable(c)
    /\ got' = [got EXCEPT ![c] = Append(@, Head(inq[c]))]
    /\ inq' = Take(inq, c)
    /\ UNCHANGED <<pc, made, fin, shut, dead, sessVars, copyVars, buf, sent>>

\* An end closes its sending direction (shutdown) ...
EndFinish(c) ==
    /\ c[1] \in made /\ c \notin fin
    /\ fin' = fin \cup {c}
    /\ UNCHANGED <<pc, made, inq, shut, dead, sessVars, copyVars, buf, endVars>>

\* ... or the whole connection.
EndClose(c) ==
    /\ c[1] \in made /\ c \notin shut
    /\ Close({c})
    /\ UNCHANGED <<pc, made, inq, dead, sessVars, copyVars, buf, endVars>>

-----------------------------------------------------------------------------
HandlerStep(n) ==
    \/ AcceptStream(n) \/ ReadRequest(n) \/ RequestFails(n) \/ OpenStream(n)
    \/ OpenFails(n) \/ RequestRejected(n)
    \/ ReadResponse(n) \/ ResponseFails(n) \/ ResponseTimesOut(n)
    \/ AnswerOK(n) \/ AnswerFails(n) \/ RelayReturns(n)

CopyStep(n, d) ==
    CopyRead(n, d) \/ CopyWrite(n, d) \/ CopyWriteFails(n, d) \/ CopyEnds(n, d)

Next ==
    \/ \E n \in Node : HandlerStep(n) \/ \E d \in Dir : CopyStep(n, d)
    \/ DialTarget \/ AppRequest
    \/ \E c \in Ends : EndSend(c) \/ EndReceive(c) \/ EndFinish(c) \/ EndClose(c)
    \/ \E i \in Link : Reset(i) \/ SessionBreaks(i) \/ SessionReconnects(i)

Spec == Init /\ [][Next]_vars

\* What goes on by itself: goroutines run and deadlines pass; sessions are made
\* again; a dial of the target ends; the application and the target read what
\* arrives.  Neither has to send or to close.
Progress ==
    \/ \E n \in Node : HandlerStep(n) \/ \E d \in Dir : CopyStep(n, d)
    \/ DialTarget
    \/ \E i \in Mux : SessionReconnects(i)
    \/ \E c \in Ends : EndReceive(c)

-----------------------------------------------------------------------------
(* Properties.                                                             *)

\* Every variable keeps its type.
TypeOK ==
    /\ pc \in [Node -> {"none", "request", "open", "sent", "answer", "copy", "done"}]
    /\ made \subseteq Link /\ dead \subseteq made
    /\ inq \in [Conn -> Seq({Req, Ok, Fail} \cup 1..MaxBytes)]
    /\ shut \subseteq fin /\ fin \subseteq Conn
    /\ up \subseteq Mux /\ breaks \in 0..MaxBreaks
    /\ hold \in [Node \X Dir -> {None} \cup 1..MaxBytes] /\ ended \subseteq Node \X Dir
    /\ buf \in Seq(1..MaxBytes)
    /\ sent \in [Ends -> 0..MaxBytes] /\ got \in [Ends -> Seq({Ok, Fail} \cup 1..MaxBytes)]
    /\ collided \subseteq Dir

Accepted == got[App] # <<>> /\ got[App][1] = Ok
Prefix(s, t) == Len(s) <= Len(t) /\ s = SubSeq(t, 1, Len(s))

\* What the ends receive is what the other end sent, in order and once: the
\* application sees one answer and then the target's bytes, the target sees the
\* application's bytes and nothing of the CONNECT protocol (step 4 in protocol.go).
DeliveredPrefix ==
    /\ Prefix(got[App], <<Ok>> \o Bytes(sent[Target])) \/ got[App] = <<Fail>>
    /\ Prefix(got[Target], Bytes(sent[App]))

\* Once the application reads the OK the whole path exists: every node answers only
\* after the node behind it did, and the server after it reached the target.
OkMeansConnected == Accepted => made = Link

\* A handler that is done has closed both its connections, on every path through it
\* ("Both connections are closed on return", mux/session.go).
DoneMeansClosed ==
    \A n \in Node : pc[n] = "done" =>
        Left(n) \in shut /\ (n \in made => Right(n) \in shut)

\* An accepted connection that ends early lost its tail for a reason: the reader
\* itself had ended its own direction, data in the other direction met a closed
\* end, or a link broke.  The two loops of Relay cut nothing else off.
TruncationHasCause ==
    Accepted =>
        /\ ReadEnds(App) /\ Len(got[App]) <= sent[Target]
              => App \in fin \/ "fwd" \in collided \/ dead # {}
        /\ ReadEnds(Target) /\ Len(got[Target]) < sent[App]
              => Target \in fin \/ "bwd" \in collided \/ dead # {}

\* The handler of a node can take a step; so can a copy loop.
HandlerReady(n) ==
    \/ n > 1 /\ pc[n] = "none" /\ n - 1 \in made \ dead
    \/ pc[n] \in {"request", "open"}
    \/ pc[n] = "sent" /\ (n > 1 \/ ReadEnds(Right(n)) \/ (Readable(Right(n)) /\ Head(inq[Right(n)]) \in {Ok, Fail}))
    \/ pc[n] = "answer" /\ (WriteTakes(Left(n)) \/ WriteFails(Left(n)))
    \/ pc[n] = "copy" /\ {n} \X Dir \subseteq ended

CopyReady(n, d) ==
    /\ Copying(n, d)
    /\ IF hold[<<n, d>>] = None
       THEN Readable(Src(n, d)) \/ ReadEnds(Src(n, d))
       ELSE WriteTakes(Dst(n, d)) \/ WriteFails(Dst(n, d))

\* Nothing goes on by itself any more: whoever is left waits for someone else.  This
\* is ~ENABLED Progress, spelled out for the proofs.
AtRest ==
    /\ \A n \in Node : ~HandlerReady(n) /\ \A d \in Dir : ~CopyReady(n, d)
    /\ Mux \subseteq up \cup made
    /\ \A c \in Ends : ~Readable(c)

AllEnded == \A n \in Node : pc[n] \in {"none", "done"}

\* Once the application or the target ended its direction, the path cannot come to
\* rest before every handler has ended: no loop is left waiting for the other one
\* or for another node, unless in both directions data met a closed end.
RestsOnlyWhenEnded ==
    (App \in fin \/ Target \in fin) /\ AtRest /\ collided # Dir => AllEnded

\* What Relay is documented to do, "returning when either side closes"
\* (mux/session.go): the same in every case.
ReturnsWhenClosed ==
    (App \in fin \/ Target \in fin) /\ ~ENABLED Progress => AllEnded

\* A path as two byte streams: what each end has sent, what the other has received behind
\* the answer, and whether it has nothing more to read.
Origin(d) == IF d = "fwd" THEN App ELSE Target
Sink(d) == IF d = "fwd" THEN Target ELSE App
PathAccepted == [d \in Dir |-> sent[Origin(d)]]
PathDelivered ==
    [d \in Dir |-> IF d = "fwd" \/ got[App] = <<>> THEN got[Sink(d)] ELSE Tail(got[App])]
PathEnded == [d \in Dir |-> ReadEnds(Sink(d))]
PathSpoiled == [d \in Dir |-> FALSE]

Pipe == INSTANCE ByteStream WITH
    Streams <- Dir, accepted <- PathAccepted, delivered <- PathDelivered,
    ended <- PathEnded, spoiled <- PathSpoiled

\* The proxied connection is two byte streams, from application and target, that are
\* never spoiled: whatever the nodes, sessions and copy loops do, a step accepts
\* bytes, hands the next one over behind the one answer, or ends a direction, and
\* what has ended stays so (the path from proxy to target and back).
PathImplementsByteStream == Pipe!Spec
=============================================================================
