------------------------- MODULE StreamPath_proofs -------------------------
(***************************************************************************)
(* The theorems about a path of any length, with links of any capacity.    *)
(*                                                                         *)
(* PathInv says which links exist where an OK is queued, held or read.     *)
(* FlowInv accounts for the bytes: how many were written for and read by   *)
(* each conn, and what that makes of the queues and the copy loops.        *)
(* Carried and Within are the ranges that TypeOK adds.                     *)
(* Finished and Steady are what keeps a direction ended, for the           *)
(* refinement of ByteStream.                                               *)
(***************************************************************************)
EXTENDS StreamPath, TLAPS

-----------------------------------------------------------------------------
(* Conns and queues.                                                       *)

\* Where the conns of a node are, and that they are conns.
LEMMA ConnFacts ==
    /\ \A c \in Conn : Peer(c) \in Conn
    /\ \A n \in Node :
          /\ n \in Int /\ n >= 1 /\ n <= Nodes /\ n \in Link /\ n - 1 \in Link
          /\ Left(n) \in Conn /\ Right(n) \in Conn
          /\ Peer(Left(n)) = <<n - 1, "L">> /\ Peer(Right(n)) = <<n, "R">>
          /\ Right(n) = <<n, "L">>
    /\ App \in Conn /\ Target \in Conn /\ App # Target
    /\ Peer(App) = <<0, "R">> /\ Peer(Target) = <<Nodes, "L">>
<1>1. Nodes \in Nat /\ Nodes >= 2
    BY PathAssumption, Zenon
<1>2. \A c \in Conn : Peer(c) \in Conn
    BY Zenon DEF Conn, Peer
<1>3. ASSUME NEW n \in Node
      PROVE  /\ n \in Int /\ n >= 1 /\ n <= Nodes /\ n \in Link /\ n - 1 \in Link
             /\ Left(n) \in Conn /\ Right(n) \in Conn
             /\ Peer(Left(n)) = <<n - 1, "L">> /\ Peer(Right(n)) = <<n, "R">>
             /\ Right(n) = <<n, "L">>
    <2>1. n \in Int /\ n >= 1 /\ n <= Nodes /\ n \in Link /\ n - 1 \in Link
        BY <1>1 DEF Node, Link
    <2>2. QED BY <2>1, Zenon DEF Conn, Left, Right, Peer
<1>4. App \in Conn /\ Target \in Conn /\ App # Target
    BY <1>1 DEF App, Target, Conn, Link
<1>5. Peer(App) = <<0, "R">> /\ Peer(Target) = <<Nodes, "L">>
    BY Zenon DEF Peer, App, Target
<1>6. QED BY <1>2, <1>3, <1>4, <1>5, Zenon

\* An OK is among what a conn has still to read.
HasOk(s) == \E i \in 1..Len(s) : s[i] = Ok

Queues == [Conn -> Seq(Int)]

\* From q to r no OK appears on the left end of a link, but for the links in X.
NewOk(q, r, X) ==
    /\ r \in Queues
    /\ \A i \in Link : HasOk(r[<<i, "L">>]) => HasOk(q[<<i, "L">>]) \/ i \in X

\* What Append and Tail do to the OKs of a queue.
LEMMA OkFacts ==
    /\ ~HasOk(<<>>)
    /\ \A x \in Int : HasOk(<<x>>) => x = Ok
    /\ \A s \in Seq(Int), x \in Int : HasOk(Append(s, x)) => HasOk(s) \/ x = Ok
    /\ \A s \in Seq(Int) : s # <<>> => Head(s) \in Int /\ Tail(s) \in Seq(Int)
                                       /\ (HasOk(Tail(s)) => HasOk(s))
                                       /\ (Head(s) = Ok => HasOk(s))
<1>1. ~HasOk(<<>>)
    BY DEF HasOk
<1>2. ASSUME NEW x \in Int, HasOk(<<x>>) PROVE x = Ok
    BY <1>2 DEF HasOk
<1>3. ASSUME NEW s \in Seq(Int), NEW x \in Int, HasOk(Append(s, x)) PROVE HasOk(s) \/ x = Ok
    <2>1. PICK i \in 1..Len(Append(s, x)) : Append(s, x)[i] = Ok
        BY <1>3, Zenon DEF HasOk
    <2>2. CASE i \in 1..Len(s)
        <3>1. s[i] = Ok
            BY <2>1, <2>2
        <3>2. QED BY <2>2, <3>1, Zenon DEF HasOk
    <2>3. CASE i \notin 1..Len(s)
        BY <2>1, <2>3
    <2>4. QED BY <2>2, <2>3, Zenon
<1>4. ASSUME NEW s \in Seq(Int), s # <<>>
      PROVE  Head(s) \in Int /\ Tail(s) \in Seq(Int)
             /\ (HasOk(Tail(s)) => HasOk(s)) /\ (Head(s) = Ok => HasOk(s))
    <2>1. Head(s) \in Int /\ Tail(s) \in Seq(Int) /\ Len(s) >= 1 /\ Head(s) = s[1]
          /\ Len(Tail(s)) = Len(s) - 1 /\ Len(s) \in Nat
        BY <1>4
    <2>2. ASSUME HasOk(Tail(s)) PROVE HasOk(s)
        <3>1. PICK i \in 1..Len(Tail(s)) : Tail(s)[i] = Ok
            BY <2>2, Zenon DEF HasOk
        <3>2. i + 1 \in 1..Len(s) /\ s[i + 1] = Ok
            BY <1>4, <2>1, <3>1
        <3>3. QED BY <3>2, Zenon DEF HasOk
    <2>3. ASSUME Head(s) = Ok PROVE HasOk(s)
        BY <2>1, <2>3 DEF HasOk
    <2>4. QED BY <2>1, <2>2, <2>3, Zenon
<1>5. QED BY <1>1, <1>2, <1>3, <1>4, Zenon

\* One queue changes.
LEMMA OneQueue ==
    ASSUME NEW q \in Queues, NEW c \in Conn, NEW s \in Seq(Int), NEW X,
           \A i \in Link : c = <<i, "L">> /\ HasOk(s) => HasOk(q[c]) \/ i \in X
    PROVE  NewOk(q, [q EXCEPT ![c] = s], X)
<1> DEFINE r == [q EXCEPT ![c] = s]
<1>1. r \in Queues
    BY Zenon DEF Queues
<1>2. r[c] = s /\ \A d \in Conn : d # c => r[d] = q[d]
    BY Zenon DEF Queues
<1> HIDE DEF r
<1>3. ASSUME NEW i \in Link, HasOk(r[<<i, "L">>]) PROVE HasOk(q[<<i, "L">>]) \/ i \in X
    <2>1. <<i, "L">> \in Conn
        BY Zenon DEF Conn
    <2>2. QED BY <1>2, <1>3, <2>1, Zenon
<1>4. QED BY <1>1, <1>3, Zenon DEF NewOk, r

\* Reading from a queue adds no OK to it.
LEMMA TakeQueue ==
    ASSUME NEW q \in Queues, NEW c \in Conn, q[c] # <<>>
    PROVE  NewOk(q, Take(q, c), {}) /\ Head(q[c]) \in Int
<1>1. q[c] \in Seq(Int)
    BY Zenon DEF Queues
<1>2. Tail(q[c]) \in Seq(Int) /\ (HasOk(Tail(q[c])) => HasOk(q[c])) /\ Head(q[c]) \in Int
    BY <1>1, OkFacts, Zenon
<1>3. Take(q, c) = [q EXCEPT ![c] = Tail(q[c])]
    BY Zenon DEF Take
<1>4. QED BY <1>2, <1>3, OneQueue, ZenonT(40)

\* X names the link when the value is an OK for its left end.
LEMMA PutQueue ==
    ASSUME NEW q \in Queues, NEW c \in Conn, NEW x \in Int, NEW X,
           \A i \in Link : Peer(c) = <<i, "L">> /\ x = Ok => i \in X
    PROVE  NewOk(q, Put(q, c, x), X)
<1> DEFINE s == IF Peer(c) \in shut THEN <<x>> ELSE Append(q[Peer(c)], x)
<1>1. Peer(c) \in Conn
    BY ConnFacts, Zenon
<1>2. q[Peer(c)] \in Seq(Int)
    BY <1>1, Zenon DEF Queues
<1>3. s \in Seq(Int) /\ (HasOk(s) => HasOk(q[Peer(c)]) \/ x = Ok)
    BY <1>2, OkFacts
<1>4. Put(q, c, x) = [q EXCEPT ![Peer(c)] = s]
    BY Zenon DEF Put
<1> HIDE DEF s
<1>5. \A i \in Link : Peer(c) = <<i, "L">> /\ HasOk(s) => HasOk(q[Peer(c)]) \/ i \in X
    BY <1>3, Zenon
<1>6. NewOk(q, [q EXCEPT ![Peer(c)] = s], X)
    BY <1>1, <1>3, <1>5, OneQueue, Zenon
<1>7. QED BY <1>4, <1>6, Zenon

-----------------------------------------------------------------------------
(* The inductive invariant.                                                *)

Places == {"none", "request", "open", "sent", "answer", "copy", "done"}

\* What the argument needs of the types.  That only bytes are copied, as TypeOK says,
\* takes the flow below.
PathType ==
    /\ pc \in [Node -> Places]
    /\ inq \in Queues
    /\ hold \in [Node \X Dir -> Int]
    /\ buf \in Seq(Int)
    /\ sent \in [Ends -> Nat]
    /\ got \in [Ends -> Seq(Int)]

\* All links behind link i exist.
Beyond(i) == \A m \in Link : m > i => m \in made

\* A node that waits for its answer has its right link; one that has not opened it yet
\* has none.
Opened ==
    \A n \in Node :
        /\ pc[n] \in {"none", "request", "open"} => n \notin made
        /\ pc[n] = "sent" => n \in made

\* Wherever an OK is, or may be written, the path behind it is complete.
Answers == \A n \in Node : pc[n] \in {"answer", "copy"} => Beyond(n - 1)
OkQueued == \A i \in Link : HasOk(inq[<<i, "L">>]) => Beyond(i)
OkHeld == \A n \in Node : hold[<<n, "bwd">>] = Ok => Beyond(n - 1)
OkRead == Accepted => Beyond(0)

PathInv == /\ 0 \in made /\ made \subseteq Link
           /\ Opened /\ Answers /\ OkQueued /\ OkHeld /\ OkRead /\ DoneMeansClosed

\* Links are never unmade.
LEMMA BeyondKept == ASSUME NEW i, made \subseteq made', Beyond(i) PROVE Beyond(i)'
BY Zenon DEF Beyond

\* OkQueued survives when OKs appear only where the path behind is complete.
LEMMA QueuedKept ==
    ASSUME OkQueued, NEW X, NewOk(inq, inq', X), made \subseteq made', \A i \in X : Beyond(i)
    PROVE  OkQueued' /\ inq' \in Queues
<1>1. ASSUME NEW i \in Link, HasOk(inq'[<<i, "L">>]) PROVE Beyond(i)'
    <2>1. Beyond(i)
        BY <1>1, Zenon DEF OkQueued, NewOk
    <2>2. QED BY <2>1, BeyondKept, Zenon
<1>2. QED BY <1>1, Zenon DEF OkQueued, NewOk

\* Handler n moves on, perhaps makes its right link and closes its conns.
Moves(n, to) ==
    /\ pc[n] # "done" /\ pc' = [pc EXCEPT ![n] = to]
    /\ made' = made \/ (made' = made \cup {n} /\ to \in {"sent", "answer"})
    /\ shut \subseteq shut'
    /\ to \in {"none", "request", "open"} => pc[n] \in {"none", "request", "open"}
    /\ to = "sent" => n \in made'
    /\ to \in {"answer", "copy"} => Beyond(n - 1)'
    /\ to = "done" => Left(n) \in shut' /\ (n \in made => Right(n) \in shut')

\* What follows from a move for the parts of the invariant about pc, made and shut.
LEMMA HandlerMoves ==
    ASSUME PathType, PathInv, NEW n \in Node, NEW to \in Places, Moves(n, to)
    PROVE  /\ made \subseteq made' /\ made' \subseteq Link /\ 0 \in made'
           /\ pc' \in [Node -> Places] /\ Opened' /\ Answers' /\ DoneMeansClosed'
<1> USE DEF Moves
<1>1. pc' \in [Node -> Places] /\ pc'[n] = to /\ \A k \in Node : k # n => pc'[k] = pc[k]
    BY Zenon DEF PathType
<1>2. made \subseteq made' /\ made' \subseteq Link /\ 0 \in made'
      /\ \A k \in Node : k # n => (k \in made' <=> k \in made)
    BY ConnFacts, Zenon DEF PathInv
<1>3. ASSUME NEW k \in Node
      PROVE  /\ pc'[k] \in {"none", "request", "open"} => k \notin made'
             /\ pc'[k] = "sent" => k \in made'
    <2>1. CASE k # n
        BY <1>1, <1>2, <2>1, Zenon DEF PathInv, Opened
    <2>2. CASE k = n
        BY <1>1, <1>2, <2>2, Zenon DEF PathInv, Opened
    <2>3. QED BY <2>1, <2>2, Zenon
<1>4. ASSUME NEW k \in Node, pc'[k] \in {"answer", "copy"} PROVE Beyond(k - 1)'
    <2>1. CASE k # n
        <3>1. Beyond(k - 1)
            BY <1>1, <1>4, <2>1, Zenon DEF PathInv, Answers
        <3>2. QED BY <1>2, <3>1, BeyondKept, Zenon
    <2>2. CASE k = n
        BY <1>1, <1>4, <2>2, Zenon
    <2>3. QED BY <2>1, <2>2, Zenon
<1>5. ASSUME NEW k \in Node, pc'[k] = "done"
      PROVE  Left(k) \in shut' /\ (k \in made' => Right(k) \in shut')
    <2>1. CASE k # n
        BY <1>1, <1>2, <1>5, <2>1, Zenon DEF PathInv, DoneMeansClosed
    <2>2. CASE k = n
        BY <1>1, <1>2, <1>5, <2>2, Zenon
    <2>3. QED BY <2>1, <2>2, Zenon
<1>6. QED BY <1>1, <1>2, <1>3, <1>4, <1>5, Zenon DEF Opened, Answers, DoneMeansClosed

\* No handler moves, no link is made; conns may be closed.
LEMMA NobodyMoves ==
    ASSUME PathInv, pc' = pc, made' = made, shut \subseteq shut'
    PROVE  /\ made \subseteq made' /\ made' \subseteq Link /\ 0 \in made'
           /\ Opened' /\ Answers' /\ DoneMeansClosed'
BY Zenon DEF PathInv, Opened, Answers, Beyond, DoneMeansClosed

\* The parts about OKs that are held or read, when nobody reads or copies.
LEMMA NothingRead ==
    ASSUME OkHeld, OkRead, hold' = hold, got' = got, made \subseteq made'
    PROVE  OkHeld' /\ OkRead'
<1>1. ASSUME NEW n \in Node, hold'[<<n, "bwd">>] = Ok PROVE Beyond(n - 1)'
    BY <1>1, BeyondKept, Zenon DEF OkHeld
<1>2. Accepted' => Beyond(0)'
    BY BeyondKept, Zenon DEF OkRead, Accepted
<1>3. QED BY <1>1, <1>2, Zenon DEF OkHeld, OkRead

-----------------------------------------------------------------------------
(* The steps.                                                              *)

\* A step that touches no queue adds no OK.
LEMMA SameQueues == ASSUME NEW q \in Queues PROVE NewOk(q, q, {})
BY Zenon DEF NewOk

\* The handler before its copy loops.
LEMMA HandlerKeeps ==
    ASSUME PathType, PathInv, NEW n \in Node,
           HandlerStep(n) \/ (n = Nodes /\ DialTarget)
    PROVE  PathType' /\ PathInv'
<1> USE DEF linkVars, sessVars, copyVars, endVars, Close
<1>0. /\ inq \in Queues /\ OkQueued /\ OkHeld /\ OkRead /\ made \subseteq made
      /\ Left(n) \in Conn /\ Right(n) \in Conn
    BY ConnFacts, Zenon DEF PathType, PathInv
<1>1. CASE AcceptStream(n)
    <2>1. pc' = [pc EXCEPT ![n] = "request"] /\ pc[n] = "none"
          /\ UNCHANGED <<made, inq, shut, hold, got, buf, sent>>
        BY <1>1, Zenon DEF AcceptStream
    <2>2. Opened' /\ Answers' /\ DoneMeansClosed' /\ pc' \in [Node -> Places]
        <3>1. Moves(n, "request")
            BY <2>1, Zenon DEF Moves
        <3>2. QED BY <3>1, HandlerMoves, Zenon DEF Places
    <2>3. QED BY <1>0, <2>1, <2>2, SameQueues, QueuedKept, NothingRead DEF PathType, PathInv
<1>2. CASE ReadRequest(n)
    <2>1. /\ pc' = [pc EXCEPT ![n] = "open"] /\ pc[n] = "request" /\ inq[Left(n)] # <<>>
          /\ UNCHANGED <<made, shut, hold, got, sent>>
        BY <1>2, Zenon DEF ReadRequest, Readable
    <2>2. Opened' /\ Answers' /\ DoneMeansClosed' /\ pc' \in [Node -> Places]
        <3>1. Moves(n, "open")
            BY <2>1, Zenon DEF Moves
        <3>2. QED BY <3>1, HandlerMoves, Zenon DEF Places
    <2>3. CASE inq' = Take(inq, Left(n)) /\ buf' = buf
        <3>1. NewOk(inq, inq', {})
            BY <1>0, <2>1, <2>3, TakeQueue, Zenon
        <3>2. QED BY <1>0, <2>1, <2>2, <2>3, <3>1, QueuedKept, NothingRead DEF PathType, PathInv
    <2>4. CASE buf' = Tail(inq[Left(n)]) /\ inq' = [inq EXCEPT ![Left(n)] = <<>>]
        <3>1. NewOk(inq, inq', {})
            <4>1. <<>> \in Seq(Int) /\ ~HasOk(<<>>)
                BY OkFacts
            <4>2. NewOk(inq, [inq EXCEPT ![Left(n)] = <<>>], {})
                BY <1>0, <4>1, OneQueue, Zenon
            <4>3. QED BY <2>4, <4>2, Zenon
        <3>2. buf' \in Seq(Int)
            BY <1>0, <2>1, <2>4, OkFacts, Zenon DEF Queues
        <3>3. QED BY <1>0, <2>1, <2>2, <3>1, <3>2, QueuedKept, NothingRead DEF PathType, PathInv
    <2>5. QED BY <1>2, <2>3, <2>4, Zenon DEF ReadRequest
<1>3. CASE RequestFails(n)
    <2>1. /\ pc' = [pc EXCEPT ![n] = "done"] /\ pc[n] = "request"
          /\ shut' = shut \cup {Left(n)}
          /\ UNCHANGED <<made, inq, hold, got, buf, sent>>
        BY <1>3, Zenon DEF RequestFails
    <2>2. n \notin made
        BY <2>1, Zenon DEF PathInv, Opened
    <2>3. Opened' /\ Answers' /\ DoneMeansClosed' /\ pc' \in [Node -> Places]
        <3>1. Moves(n, "done")
            BY <2>1, <2>2, Zenon DEF Moves
        <3>2. QED BY <3>1, HandlerMoves, Zenon DEF Places
    <2>4. QED BY <1>0, <2>1, <2>3, SameQueues, QueuedKept, NothingRead DEF PathType, PathInv
<1>4. CASE OpenStream(n)
    <2>1. /\ pc' = [pc EXCEPT ![n] = "sent"] /\ pc[n] = "open"
          /\ made' = made \cup {n} /\ inq' = Put(inq, Right(n), Req)
          /\ UNCHANGED <<shut, hold, got, buf, sent>>
        BY <1>4, Zenon DEF OpenStream
    <2>2. Opened' /\ Answers' /\ DoneMeansClosed' /\ pc' \in [Node -> Places]
          /\ made \subseteq made' /\ made' \subseteq Link /\ 0 \in made'
        <3>1. Moves(n, "sent")
            BY <2>1, Zenon DEF Moves
        <3>2. QED BY <3>1, HandlerMoves, Zenon DEF Places
    <2>3. Req \in Int /\ Req # Ok
        BY DEF Req, Ok
    <2>4. NewOk(inq, inq', {})
        BY <1>0, <2>1, <2>3, PutQueue, Zenon
    <2>5. QED BY <1>0, <2>1, <2>2, <2>4, QueuedKept, NothingRead DEF PathType, PathInv
<1>5. CASE n = Nodes /\ DialTarget
    <2>1. /\ pc' = [pc EXCEPT ![n] = "answer"] /\ pc[n] = "open"
          /\ made' = made \cup {n}
          /\ UNCHANGED <<inq, shut, hold, got, buf, sent>>
        BY <1>5, Zenon DEF DialTarget
    <2>2. Beyond(n - 1)'
        <3>1. \A m \in Link : m > n - 1 => m = n
            BY <1>5, PathAssumption DEF Link
        <3>2. QED BY <2>1, <3>1, Zenon DEF Beyond
    <2>3. Opened' /\ Answers' /\ DoneMeansClosed' /\ pc' \in [Node -> Places]
          /\ made \subseteq made' /\ made' \subseteq Link /\ 0 \in made'
        <3>1. Moves(n, "answer")
            BY <2>1, <2>2, Zenon DEF Moves
        <3>2. QED BY <3>1, HandlerMoves, Zenon DEF Places
    <2>4. QED BY <1>0, <2>1, <2>3, SameQueues, QueuedKept, NothingRead DEF PathType, PathInv
<1>6. ASSUME Refuse(n), pc[n] # "done" PROVE PathType' /\ PathInv'
    <2>1. /\ pc' = [pc EXCEPT ![n] = "done"]
          /\ shut' = shut \cup ({Left(n)} \cup (IF n \in made THEN {Right(n)} ELSE {}))
          /\ inq' = IF WriteTakes(Left(n)) THEN Put(inq, Left(n), Fail) ELSE inq
          /\ UNCHANGED <<made, hold, got, buf, sent>>
        BY <1>6, Zenon DEF Refuse
    <2>2. Opened' /\ Answers' /\ DoneMeansClosed' /\ pc' \in [Node -> Places]
        <3>1. Moves(n, "done")
            BY <1>6, <2>1, Zenon DEF Moves
        <3>2. QED BY <3>1, HandlerMoves, Zenon DEF Places
    <2>3. Fail \in Int /\ Fail # Ok
        BY DEF Fail, Ok
    <2>4. NewOk(inq, inq', {})
        BY <1>0, <2>1, <2>3, PutQueue, SameQueues, Zenon
    <2>5. QED BY <1>0, <2>1, <2>2, <2>4, QueuedKept, NothingRead DEF PathType, PathInv
<1>7. CASE OpenFails(n) \/ RequestRejected(n) \/ ResponseFails(n) \/ ResponseTimesOut(n)
    BY <1>6, <1>7, Zenon DEF OpenFails, RequestRejected, ResponseFails, ResponseTimesOut
<1>8. CASE ReadResponse(n)
    <2>1. /\ pc' = [pc EXCEPT ![n] = "answer"] /\ pc[n] = "sent"
          /\ inq[Right(n)] # <<>> /\ Head(inq[Right(n)]) = Ok /\ inq' = Take(inq, Right(n))
          /\ UNCHANGED <<made, shut, hold, got, buf, sent>>
        BY <1>8, Zenon DEF ReadResponse, Readable
    <2>2. HasOk(inq[<<n, "L">>])
        BY <1>0, <2>1, OkFacts, ConnFacts, Zenon DEF Queues
    <2>3. Beyond(n) /\ n \in made
        BY <2>1, <2>2, ConnFacts, Zenon DEF PathInv, OkQueued, Opened
    <2>4. Beyond(n - 1)
        <3>1. \A m \in Link : m > n - 1 => m > n \/ m = n
            BY ConnFacts, PathAssumption DEF Link
        <3>2. QED BY <2>3, <3>1, Zenon DEF Beyond
    <2>5. Opened' /\ Answers' /\ DoneMeansClosed' /\ pc' \in [Node -> Places]
        <3>1. Moves(n, "answer")
            BY <2>1, <2>4, BeyondKept, Zenon DEF Moves
        <3>2. QED BY <3>1, HandlerMoves, Zenon DEF Places
    <2>6. NewOk(inq, inq', {})
        BY <1>0, <2>1, TakeQueue, Zenon
    <2>7. QED BY <1>0, <2>1, <2>5, <2>6, QueuedKept, NothingRead DEF PathType, PathInv
<1>9. CASE AnswerOK(n)
    <2> DEFINE q == Put(inq, Left(n), Ok)
    <2>1. /\ pc' = [pc EXCEPT ![n] = "copy"] /\ pc[n] = "answer"
          /\ inq' = IF n = 1 /\ buf # <<>> /\ WriteTakes(Right(n)) THEN Put(q, Right(n), Head(buf)) ELSE q
          /\ buf' = IF n = 1 THEN <<>> ELSE buf
          /\ UNCHANGED <<made, shut, hold, got, sent>>
        BY <1>9, Zenon DEF AnswerOK
    <2>2. Beyond(n - 1)
        BY <2>1, Zenon DEF PathInv, Answers
    <2>3. Opened' /\ Answers' /\ DoneMeansClosed' /\ pc' \in [Node -> Places]
        <3>1. Moves(n, "copy")
            BY <2>1, <2>2, BeyondKept, Zenon DEF Moves
        <3>2. QED BY <3>1, HandlerMoves, Zenon DEF Places
    <2>4. NewOk(inq, q, {n - 1})
        <3>1. Ok \in Int /\ \A i \in Link : Peer(Left(n)) = <<i, "L">> => i \in {n - 1}
            BY ConnFacts DEF Ok
        <3>2. QED BY <1>0, <3>1, PutQueue, Zenon
    <2> HIDE DEF q
    <2>5. NewOk(inq, inq', {n - 1})
        <3>1. CASE inq' = q
            BY <2>4, <3>1, Zenon
        <3>2. CASE buf # <<>> /\ inq' = Put(q, Right(n), Head(buf))
            <4>1. q \in Queues /\ Head(buf) \in Int
                BY <2>4, <3>2, OkFacts, Zenon DEF NewOk, PathType
            <4>2. \A i \in Link : Peer(Right(n)) # <<i, "L">>
                BY ConnFacts
            <4>3. NewOk(q, inq', {})
                BY <1>0, <3>2, <4>1, <4>2, PutQueue, Zenon
            <4>4. QED BY <2>4, <4>3, Zenon DEF NewOk
        <3>3. QED BY <2>1, <3>1, <3>2, Zenon
    <2>6. buf' \in Seq(Int)
        BY <2>1 DEF PathType
    <2>7. QED BY SMTT(40), <1>0, <2>1, <2>2, <2>3, <2>5, <2>6, QueuedKept, NothingRead DEF PathType, PathInv
<1>10. CASE AnswerFails(n) \/ RelayReturns(n)
    <2>1. /\ pc' = [pc EXCEPT ![n] = "done"] /\ pc[n] # "done"
          /\ shut' = shut \cup {Left(n), Right(n)}
          /\ UNCHANGED <<made, inq, hold, got, buf, sent>>
        BY <1>10, Zenon DEF AnswerFails, RelayReturns
    <2>2. Opened' /\ Answers' /\ DoneMeansClosed' /\ pc' \in [Node -> Places]
        <3>1. Moves(n, "done")
            BY <2>1, Zenon DEF Moves
        <3>2. QED BY <3>1, HandlerMoves, Zenon DEF Places
    <2>3. QED BY <1>0, <2>1, <2>2, SameQueues, QueuedKept, NothingRead DEF PathType, PathInv
<1>11. QED BY <1>1, <1>2, <1>3, <1>4, <1>5, <1>7, <1>8, <1>9, <1>10, Zenon DEF HandlerStep

\* The copy loops.  The loop towards the application may hold an OK only while its
\* handler copies.
LEMMA CopyKeeps ==
    ASSUME PathType, PathInv, NEW n \in Node, NEW d \in Dir, CopyStep(n, d)
    PROVE  PathType' /\ PathInv'
<1> USE DEF linkVars, sessVars, copyVars, endVars, Close
<1>0. /\ inq \in Queues /\ OkQueued /\ OkHeld /\ OkRead
      /\ Src(n, d) \in Conn /\ Dst(n, d) \in Conn
      /\ <<n, d>> \in Node \X Dir /\ hold[<<n, d>>] \in Int
    BY ConnFacts, Zenon DEF PathType, PathInv, Src, Dst, Dir
<1>1. /\ pc[n] = "copy" /\ pc' = pc /\ made' = made /\ shut \subseteq shut'
      /\ UNCHANGED <<buf, sent, got>>
    BY Zenon DEF CopyStep, CopyRead, CopyWrite, CopyWriteFails, CopyEnds, LoopReturns, Copying
<1>2. Beyond(n - 1) /\ made \subseteq made'
    BY <1>1, Zenon DEF PathInv, Answers
<1>3. /\ made' \subseteq Link /\ 0 \in made' /\ Opened' /\ Answers' /\ DoneMeansClosed'
    BY <1>1, NobodyMoves, Zenon
<1>4. OkRead'
    BY <1>0, <1>1, Zenon DEF OkRead, Accepted, Beyond
<1>5. ASSUME NEW x \in Int, hold' = [hold EXCEPT ![<<n, d>>] = x]
      PROVE  hold' \in [Node \X Dir -> Int] /\ OkHeld'
    <2>1. hold' \in [Node \X Dir -> Int]
        BY <1>0, <1>5, Zenon DEF PathType
    <2>2. ASSUME NEW k \in Node, hold'[<<k, "bwd">>] = Ok PROVE Beyond(k - 1)
        <3>1. <<k, "bwd">> \in Node \X Dir
            BY Zenon DEF Dir
        <3>2. CASE k = n
            BY <1>2, <3>2, Zenon
        <3>3. CASE k # n
            <4>1. hold'[<<k, "bwd">>] = hold[<<k, "bwd">>]
                BY <1>5, <3>1, <3>3, Zenon DEF PathType
            <4>2. QED BY <1>0, <2>2, <4>1, Zenon DEF OkHeld
        <3>4. QED BY <3>2, <3>3, Zenon
    <2>3. QED BY <1>2, <2>1, <2>2, BeyondKept, Zenon DEF OkHeld
<1>6. ASSUME OkQueued', inq' \in Queues, NEW x \in Int, hold' = [hold EXCEPT ![<<n, d>>] = x]
      PROVE  PathType' /\ PathInv'
    <2>1. hold' \in [Node \X Dir -> Int] /\ OkHeld'
        BY <1>5, <1>6, Zenon
    <2>2. PathType'
        BY <1>1, <1>6, <2>1, Zenon DEF PathType
    <2>3. QED BY <1>3, <1>4, <1>6, <2>1, <2>2, Zenon DEF PathInv
<1>7. CASE CopyRead(n, d)
    <2>1. inq[Src(n, d)] # <<>> /\ inq' = Take(inq, Src(n, d))
          /\ hold' = [hold EXCEPT ![<<n, d>>] = Head(inq[Src(n, d)])]
        BY <1>7, Zenon DEF CopyRead, Readable
    <2>2. NewOk(inq, inq', {}) /\ Head(inq[Src(n, d)]) \in Int
        BY <1>0, <2>1, TakeQueue, Zenon
    <2>3. OkQueued' /\ inq' \in Queues
        BY <1>0, <1>2, <2>2, QueuedKept
    <2>4. QED BY <1>6, <2>1, <2>2, <2>3, Zenon
<1>8. CASE CopyWrite(n, d)
    <2>1. inq' = Put(inq, Dst(n, d), hold[<<n, d>>]) /\ hold' = [hold EXCEPT ![<<n, d>>] = None]
        BY <1>8, Zenon DEF CopyWrite
    <2>2. \A i \in Link : Peer(Dst(n, d)) = <<i, "L">> => i \in {n - 1}
        BY ConnFacts DEF Dst
    <2>3. NewOk(inq, inq', {n - 1})
        BY <1>0, <2>1, <2>2, PutQueue, Zenon
    <2>4. OkQueued' /\ inq' \in Queues
        BY <1>0, <1>2, <2>3, QueuedKept
    <2>5. None \in Int
        BY DEF None
    <2>6. QED BY <1>6, <2>1, <2>4, <2>5, Zenon
<1>9. CASE CopyWriteFails(n, d) \/ CopyEnds(n, d)
    <2>1. inq' = inq /\ hold' = [hold EXCEPT ![<<n, d>>] = None]
        BY <1>9, Zenon DEF CopyWriteFails, CopyEnds, LoopReturns
    <2>2. OkQueued' /\ inq' \in Queues
        BY <1>0, <1>2, <2>1, SameQueues, QueuedKept
    <2>3. None \in Int
        BY DEF None
    <2>4. QED BY <1>6, <2>1, <2>2, <2>3, Zenon
<1>10. QED BY <1>7, <1>8, <1>9, Zenon DEF CopyStep

\* The application, the target, the sessions and the network.
LEMMA EndsKeep ==
    ASSUME PathType, PathInv,
           \/ AppRequest
           \/ \E c \in Ends : EndSend(c) \/ EndReceive(c) \/ EndFinish(c) \/ EndClose(c)
           \/ \E i \in Link : Reset(i) \/ SessionBreaks(i) \/ SessionReconnects(i)
           \/ UNCHANGED vars
    PROVE  PathType' /\ PathInv'
<1> USE DEF linkVars, sessVars, copyVars, endVars, Close
<1>0. inq \in Queues /\ OkQueued /\ OkHeld /\ OkRead
    BY Zenon DEF PathType, PathInv
<1>1. pc' = pc /\ made' = made /\ shut \subseteq shut' /\ UNCHANGED <<buf, hold>>
    BY Zenon DEF AppRequest, EndSend, EndReceive, EndFinish, EndClose, Reset, SessionBreaks,
           SessionReconnects, vars
<1>2. /\ made \subseteq made' /\ made' \subseteq Link /\ 0 \in made'
      /\ Opened' /\ Answers' /\ DoneMeansClosed'
    BY <1>1, NobodyMoves, Zenon
<1>3. OkHeld'
    BY <1>0, <1>1, Zenon DEF OkHeld, Beyond
<1>4. ASSUME NewOk(inq, inq', {}), sent' \in [Ends -> Nat], got' \in [Ends -> Seq(Int)], OkRead'
      PROVE  PathType' /\ PathInv'
    <2>1. OkQueued' /\ inq' \in Queues
        BY <1>0, <1>2, <1>4, QueuedKept
    <2>2. PathType'
        BY <1>1, <1>4, <2>1, Zenon DEF PathType
    <2>3. QED BY <1>2, <1>3, <1>4, <2>1, <2>2, Zenon DEF PathInv
<1>5. ASSUME got' = got PROVE got' \in [Ends -> Seq(Int)] /\ OkRead'
    BY <1>0, <1>1, <1>5, Zenon DEF OkRead, Accepted, Beyond, PathType
<1>6. CASE AppRequest
    <2>1. PICK k \in {0, 1} : inq' = [inq EXCEPT ![Peer(App)] = <<Req>> \o Bytes(k)]
                              /\ sent' = [sent EXCEPT ![App] = k] /\ got' = got
        BY <1>6, Zenon DEF AppRequest
    <2>2. <<Req>> \o Bytes(k) \in Seq(Int)
        <3>1. Bytes(k) \in Seq(Int) /\ <<Req>> \in Seq(Int)
            BY DEF Bytes, Req
        <3>2. QED BY <3>1
    <2>3. Peer(App) \in Conn /\ \A i \in Link : Peer(App) # <<i, "L">>
        BY ConnFacts
    <2> DEFINE s == <<Req>> \o Bytes(k)
    <2> HIDE DEF s
    <2>4. NewOk(inq, [inq EXCEPT ![Peer(App)] = s], {})
        BY <1>0, <2>2, <2>3, OneQueue, Zenon DEF s
    <2>5. sent' \in [Ends -> Nat]
        <3>1. sent' = [sent EXCEPT ![App] = k] /\ k \in Nat
            BY <2>1
        <3>2. QED BY <3>1, Zenon DEF PathType
    <2>6. QED BY <1>4, <1>5, <2>1, <2>4, <2>5, Zenon DEF s
<1>7. ASSUME NEW c \in Ends, EndSend(c) PROVE PathType' /\ PathInv'
    <2>1. /\ sent' = [sent EXCEPT ![c] = @ + 1] /\ inq' = Put(inq, c, sent[c] + 1) /\ got' = got
        BY <1>7, Zenon DEF EndSend
    <2>2. sent[c] + 1 \in Int /\ sent[c] + 1 # Ok /\ sent' \in [Ends -> Nat]
        BY <2>1 DEF PathType, Ok
    <2>3. c \in Conn
        BY ConnFacts, Zenon DEF Ends
    <2>4. NewOk(inq, inq', {})
        BY <1>0, <2>1, <2>2, <2>3, PutQueue, Zenon
    <2>5. QED BY <1>4, <1>5, <2>1, <2>2, <2>4, Zenon
<1>8. ASSUME NEW c \in Ends, EndReceive(c) PROVE PathType' /\ PathInv'
    <2>1. /\ inq[c] # <<>> /\ inq' = Take(inq, c) /\ sent' = sent
          /\ got' = [got EXCEPT ![c] = Append(got[c], Head(inq[c]))]
        BY <1>8, Zenon DEF EndReceive, Readable
    <2>2. c \in Conn /\ App \in Ends
        BY ConnFacts, Zenon DEF Ends
    <2>3. NewOk(inq, inq', {}) /\ Head(inq[c]) \in Int
        BY <1>0, <2>1, <2>2, TakeQueue, Zenon
    <2>4. got[c] \in Seq(Int) /\ got \in [Ends -> Seq(Int)] /\ got[App] \in Seq(Int)
        BY <2>2, Zenon DEF PathType
    <2>5. Append(got[c], Head(inq[c])) \in Seq(Int)
        BY <2>3, <2>4
    <2>6. got' \in [Ends -> Seq(Int)]
        BY <2>1, <2>4, <2>5, Zenon
    <2>7. Accepted' => Accepted \/ (c = App /\ Head(inq[c]) = Ok)
        <3>1. CASE c # App
            <4>1. got'[App] = got[App]
                BY <2>1, <2>2, <2>4, <3>1, Zenon
            <4>2. QED BY <4>1, Zenon DEF Accepted
        <3>2. CASE c = App
            <4>1. got'[App] = Append(got[App], Head(inq[App]))
                BY <2>1, <2>2, <2>4, <3>2, Zenon
            <4>2. CASE got[App] = <<>>
                <5>1. got'[App][1] = Head(inq[App])
                    BY <2>3, <3>2, <4>1, <4>2
                <5>2. QED BY <3>2, <5>1, Zenon DEF Accepted
            <4>3. CASE got[App] # <<>>
                <5>1. got'[App][1] = got[App][1]
                    BY <2>3, <2>4, <3>2, <4>1, <4>3
                <5>2. QED BY <4>3, <5>1, Zenon DEF Accepted
            <4>4. QED BY <4>2, <4>3, Zenon
        <3>3. QED BY <3>1, <3>2, Zenon
    <2>8. c = App /\ Head(inq[c]) = Ok => Beyond(0)
        <3>1. inq[c] \in Seq(Int)
            BY <1>0, <2>2, Zenon DEF Queues
        <3>2. Head(inq[c]) = Ok => HasOk(inq[c])
            BY <2>1, <3>1, OkFacts, Zenon
        <3>3. 0 \in Link
            BY PathAssumption DEF Link
        <3>4. QED BY <1>0, <3>2, <3>3, Zenon DEF OkQueued, App
    <2>9. OkRead'
        <3>1. Accepted' => Beyond(0)
            BY <1>0, <2>7, <2>8, Zenon DEF OkRead
        <3>2. Beyond(0) => Beyond(0)'
            BY <1>1, Zenon DEF Beyond
        <3>3. QED BY <3>1, <3>2, Zenon DEF OkRead
    <2>10. sent' \in [Ends -> Nat]
        BY <2>1, Zenon DEF PathType
    <2>11. QED BY <1>4, <2>3, <2>6, <2>9, <2>10, Zenon
<1>9. ASSUME UNCHANGED <<inq, sent, got>> PROVE PathType' /\ PathInv'
    <2>1. NewOk(inq, inq', {}) /\ sent' \in [Ends -> Nat]
        BY <1>0, <1>9, SameQueues, Zenon DEF PathType
    <2>2. QED BY <1>4, <1>5, <1>9, <2>1, Zenon
<1>10. CASE \/ \E c \in Ends : EndFinish(c) \/ EndClose(c)
            \/ \E i \in Link : Reset(i) \/ SessionBreaks(i) \/ SessionReconnects(i)
            \/ UNCHANGED vars
    BY <1>9, <1>10, Zenon DEF EndFinish, EndClose, Reset, SessionBreaks, SessionReconnects, vars
<1>11. QED BY <1>6, <1>7, <1>8, <1>10, Zenon

\* The invariant holds at the start.
LEMMA PathInit == Init => PathType /\ PathInv
<1> SUFFICES ASSUME Init PROVE PathType /\ PathInv
    OBVIOUS
<1>1. /\ pc \in [Node -> Places] /\ \A n \in Node : pc[n] \in {"none", "request"}
      /\ made = {0} /\ 0 \in Link
    BY PathAssumption DEF Init, Places, Link
<1>2. inq \in Queues /\ \A c \in Conn : inq[c] = <<>>
    BY DEF Init, Queues
<1>3. hold \in [Node \X Dir -> Int] /\ \A x \in Node \X Dir : hold[x] # Ok
    BY DEF Init, None, Ok
<1>4. /\ buf \in Seq(Int) /\ sent \in [Ends -> Nat] /\ got \in [Ends -> Seq(Int)]
      /\ got[App] = <<>>
    BY DEF Init, Ends
<1>5. \A n \in Node : n \notin made
    BY <1>1, ConnFacts
<1>6. OkQueued
    <2>1. \A i \in Link : <<i, "L">> \in Conn
        BY Zenon DEF Conn
    <2>2. QED BY <1>2, <2>1, OkFacts, Zenon DEF OkQueued
<1>7. OkHeld /\ OkRead
    BY <1>3, <1>4, Zenon DEF OkHeld, OkRead, Accepted, Dir
<1>8. Opened /\ Answers /\ DoneMeansClosed
    BY <1>1, <1>5, Zenon DEF Opened, Answers, DoneMeansClosed
<1>9. QED BY <1>1, <1>2, <1>3, <1>4, <1>6, <1>7, <1>8, Zenon DEF PathType, PathInv

\* Every step keeps it.
LEMMA PathStep == PathType /\ PathInv /\ [Next]_vars => PathType' /\ PathInv'
<1> SUFFICES ASSUME PathType, PathInv, [Next]_vars PROVE PathType' /\ PathInv'
    OBVIOUS
<1>1. Nodes \in Node
    BY PathAssumption DEF Node
<1>2. CASE (\E n \in Node : HandlerStep(n)) \/ DialTarget
    BY <1>1, <1>2, HandlerKeeps, Zenon
<1>3. CASE \E n \in Node, d \in Dir : CopyStep(n, d)
    BY <1>3, CopyKeeps, Zenon
<1>4. CASE \/ AppRequest
           \/ \E c \in Ends : EndSend(c) \/ EndReceive(c) \/ EndFinish(c) \/ EndClose(c)
           \/ \E i \in Link : Reset(i) \/ SessionBreaks(i) \/ SessionReconnects(i)
           \/ UNCHANGED vars
    BY <1>4, EndsKeep, Zenon
<1>5. QED BY <1>2, <1>3, <1>4, Zenon DEF Next

-----------------------------------------------------------------------------
(* Theorems from the invariant of the handlers.                            *)

\* Once the application has read the OK every link up to the target exists, however
\* many relays there are: an OK is queued, held or read only where the path behind it
\* is complete (handleStream, bridgeStream and the proxies answer last).
THEOREM OkIsEndToEnd == Spec => []OkMeansConnected
<1>1. PathType /\ PathInv => OkMeansConnected
    <2> SUFFICES ASSUME PathInv, Accepted PROVE made = Link
        BY Zenon DEF OkMeansConnected
    <2>1. 0 \in made /\ made \subseteq Link /\ Beyond(0)
        BY Zenon DEF PathInv, OkRead
    <2>2. \A m \in Link : m = 0 \/ m > 0
        BY PathAssumption DEF Link
    <2>3. QED BY <2>1, <2>2, Zenon DEF Beyond
<1>2. QED BY <1>1, PathInit, PathStep, PTL DEF Spec

\* A handler that is done, on whatever way out, has closed the conn it accepted and
\* the one it opened, if it opened one.
THEOREM HandlersClose == Spec => []DoneMeansClosed
<1>1. PathInv => DoneMeansClosed
    BY Zenon DEF PathInv
<1>2. QED BY <1>1, PathInit, PathStep, PTL DEF Spec

-----------------------------------------------------------------------------
(* What is delivered: the shapes of a queue.                               *)

\* s is the bytes a + 1 .. b.
IsRun(s, a, b) == Len(s) = b - a /\ \A i \in 1..Len(s) : s[i] = a + i

\* s is the word x and behind it the bytes 1 .. b.
Tagged(s, x, b) == Len(s) = b + 1 /\ s[1] = x /\ \A i \in 1..b : s[i + 1] = i

\* A run is read from its front and written at its end.
LEMMA RunFacts ==
    ASSUME NEW s \in Seq(Int), NEW a \in Nat, NEW b \in Nat, IsRun(s, a, b)
    PROVE  /\ a <= b
           /\ IsRun(Append(s, b + 1), a, b + 1)
           /\ s # <<>> => Head(s) = a + 1 /\ IsRun(Tail(s), a + 1, b) /\ a + 1 <= b
           /\ a = b => s = <<>>
<1>1. Len(s) \in Nat /\ Len(s) = b - a /\ \A i \in 1..Len(s) : s[i] = a + i
    BY DEF IsRun
<1>2. a <= b
    BY <1>1
<1>3. IsRun(Append(s, b + 1), a, b + 1)
    <2>1. Len(Append(s, b + 1)) = b + 1 - a
        BY <1>1
    <2>2. ASSUME NEW i \in 1..(Len(s) + 1) PROVE Append(s, b + 1)[i] = a + i
        <3>1. CASE i <= Len(s)
            BY <1>1, <3>1
        <3>2. CASE i = Len(s) + 1
            BY <1>1, <3>2
        <3>3. QED BY <1>1, <3>1, <3>2
    <2>3. QED BY <1>1, <2>1, <2>2 DEF IsRun
<1>4. ASSUME s # <<>>
      PROVE  Head(s) = a + 1 /\ IsRun(Tail(s), a + 1, b) /\ a + 1 <= b
    <2>1. Len(s) >= 1 /\ Head(s) = s[1] /\ Len(Tail(s)) = Len(s) - 1
          /\ \A i \in 1..(Len(s) - 1) : Tail(s)[i] = s[i + 1]
        BY <1>4
    <2>2. QED BY <1>1, <2>1 DEF IsRun
<1>5. a = b => s = <<>>
    BY <1>1
<1>6. QED BY <1>2, <1>3, <1>4, <1>5, Zenon

\* Behind the word there is a run.
LEMMA TagFacts ==
    ASSUME NEW s \in Seq(Int), NEW x \in Int, NEW b \in Nat, Tagged(s, x, b)
    PROVE  /\ s # <<>> /\ Head(s) = x /\ IsRun(Tail(s), 0, b)
           /\ Tagged(Append(s, b + 1), x, b + 1)
<1>1. Len(s) \in Nat /\ Len(s) = b + 1 /\ s[1] = x /\ \A i \in 1..b : s[i + 1] = i
    BY DEF Tagged
<1>2. s # <<>> /\ Head(s) = s[1] /\ Len(Tail(s)) = b
      /\ \A i \in 1..b : Tail(s)[i] = s[i + 1]
    BY <1>1
<1>3. IsRun(Tail(s), 0, b)
    BY <1>1, <1>2 DEF IsRun
<1>4. Tagged(Append(s, b + 1), x, b + 1)
    <2>1. Len(Append(s, b + 1)) = b + 2 /\ Append(s, b + 1)[1] = x
        BY <1>1
    <2>2. ASSUME NEW i \in 1..(b + 1) PROVE Append(s, b + 1)[i + 1] = i
        <3>1. CASE i <= b
            BY <1>1, <3>1
        <3>2. CASE i = b + 1
            BY <1>1, <3>2
        <3>3. i <= b \/ i = b + 1
            OBVIOUS
        <3>4. QED BY <3>1, <3>2, <3>3, Zenon
    <2>3. QED BY <2>1, <2>2 DEF Tagged
<1>5. QED BY <1>1, <1>2, <1>3, <1>4, Zenon

\* The empty run, and a word alone.
LEMMA ShortFacts ==
    /\ \A a \in Nat : IsRun(<<>>, a, a)
    /\ \A x \in Int : Tagged(<<x>>, x, 0) /\ <<x>> = Append(<<>>, x) /\ <<x>> # <<>>
BY DEF IsRun, Tagged

\* What Take does to each queue.
LEMMA TakeOne ==
    ASSUME NEW q \in Queues, NEW c \in Conn
    PROVE  /\ Take(q, c)[c] = Tail(q[c])
           /\ \A d \in Conn : d # c => Take(q, c)[d] = q[d]
BY Zenon DEF Queues, Take

\* What Put does to each queue.
LEMMA PutOne ==
    ASSUME NEW q \in Queues, NEW c \in Conn, NEW x \in Int
    PROVE  /\ Put(q, c, x) \in Queues
           /\ Peer(c) \notin shut => Put(q, c, x)[Peer(c)] = Append(q[Peer(c)], x)
           /\ \A d \in Conn : d # Peer(c) => Put(q, c, x)[d] = q[d]
<1>1. Peer(c) \in Conn
    BY ConnFacts, Zenon
<1>2. Put(q, c, x) \in Queues
    BY <1>1 DEF Queues, Put
<1>3. QED BY <1>1, <1>2, Zenon DEF Queues, Put

-----------------------------------------------------------------------------
(* What is delivered: the invariant.                                       *)

Early == {"none", "request", "open", "sent", "answer"}
Flows == [Conn -> Nat]

\* The conn that reads what node n writes in direction d.
To(n, d) == Peer(Dst(n, d))

\* The end whose bytes a conn reads.
Source(c) == IF c[2] = "R" THEN App ELSE Target

\* The reader of link i has still to read the request, or the answer.
FwdAwaits(i) == i < Nodes /\ pc[i + 1] \in {"none", "request"}
BwdAwaits(i) == IF i = 0 THEN got[App] = <<>> ELSE pc[i] = "sent"

\* Of the bytes meant for conn c, w[c] were written and r[c] were read.  The rest is in
\* the queue, behind the request or the answer when that was not read yet.  A conn that
\* is closed reads no more, so nothing is said of it.
FwdOK(i, w, r) ==
    LET c == <<i, "R">>
    IN  c \notin shut =>
            /\ FwdAwaits(i) =>
                   r[c] = 0 /\ ((inq[c] = <<>> /\ w[c] = 0) \/ Tagged(inq[c], Req, w[c]))
            /\ ~FwdAwaits(i) => IsRun(inq[c], r[c], w[c])

FirstAnswer(i, w) ==
    LET c == <<i, "L">>
    IN  /\ i < Nodes
        /\ pc[i + 1] \in Early => inq[c] = <<>>
        /\ pc[i + 1] = "copy" => Tagged(inq[c], Ok, w[c])
        /\ pc[i + 1] = "done" =>
               \/ (inq[c] = <<>> \/ inq[c] = <<Fail>>) /\ w[c] = 0
               \/ Tagged(inq[c], Ok, w[c])

BwdOK(i, w, r) ==
    LET c == <<i, "L">>
    IN  c \notin shut =>
            /\ BwdAwaits(i) => r[c] = 0 /\ FirstAnswer(i, w)
            /\ ~BwdAwaits(i) => IsRun(inq[c], r[c], w[c])

Bounded(w, r) == \A c \in Conn : r[c] <= w[c] /\ w[c] <= sent[Source(c)]

\* What a loop writes may still be read.
Passes(n, d) ==
    /\ Dst(n, d) \notin shut /\ To(n, d) \notin shut /\ Dst(n, d)[1] \notin dead
    /\ <<n, d>> \notin ended

\* A loop writes what it read, and holds one byte at most.
LoopOK(n, d, w, r) ==
    Passes(n, d) =>
        \/ hold[<<n, d>>] = None /\ r[Src(n, d)] = w[To(n, d)]
        \/ hold[<<n, d>>] = w[To(n, d)] + 1 /\ r[Src(n, d)] = w[To(n, d)] + 1

EarlyOK(n, w, r) ==
    /\ \A d \in Dir : hold[<<n, d>>] = None /\ w[To(n, d)] = 0
    /\ r[Right(n)] = 0
    /\ r[Left(n)] = IF n = 1 THEN Len(buf) ELSE 0

NodeOK(n, w, r) ==
    /\ pc[n] \in Early => EarlyOK(n, w, r)
    /\ pc[n] = "copy" => \A d \in Dir : LoopOK(n, d, w, r)

\* A node is reached only over a link, and answers only after the node behind it.
Chain ==
    /\ \A n \in Node : n < Nodes =>
           /\ n \notin made => pc[n + 1] = "none"
           /\ pc[n] \in {"answer", "copy"} => pc[n + 1] \in {"copy", "done"}
    /\ got[App] # <<>> => pc[1] \in {"copy", "done"}
    /\ pc[Nodes] # "sent" /\ pc[1] # "none"

Unmade == \A i \in Link : i \notin made => inq[<<i, "L">>] = <<>> /\ inq[<<i, "R">>] = <<>>

\* The HTTP proxy's reader holds the first byte at most.
BufOK ==
    /\ IsRun(buf, 0, Len(buf)) /\ Len(buf) <= 1 /\ Len(buf) <= sent[App]
    /\ pc[1] = "request" => buf = <<>> /\ sent[App] <= 1

EndsOK(w, r) ==
    /\ w[<<0, "R">>] = sent[App] /\ w[<<Nodes, "L">>] = sent[Target]
    /\ IsRun(got[Target], 0, r[Target])
    /\ \/ got[App] = <<>> /\ r[App] = 0
       \/ got[App] = <<Fail>> /\ r[App] = 0 /\ w[App] = 0 /\ pc[1] = "done"
       \/ Tagged(got[App], Ok, r[App])

Flow(w, r) ==
    /\ \A i \in Link : FwdOK(i, w, r) /\ BwdOK(i, w, r)
    /\ Bounded(w, r)
    /\ \A n \in Node : NodeOK(n, w, r)
    /\ Chain /\ Unmade /\ BufOK /\ EndsOK(w, r)

FlowInv == \E w, r \in Flows : Flow(w, r)

\* The flow after a step; what a loop that returned has written stays as it is.
Frozen(w, w2) ==
    \A n \in Node, d \in Dir :
        pc[n] \notin Early /\ <<n, d>> \in ended' => w2[To(n, d)] = w[To(n, d)]
FlowsOn(w) == \E w2, r2 \in Flows : Flow(w2, r2)' /\ Frozen(w, w2)

\* The conns that each loop of a node reads from, writes to and writes for.
LEMMA Geometry ==
    /\ \A i \in Link : <<i, "L">> \in Conn /\ <<i, "R">> \in Conn
    /\ \A n \in Node :
          /\ n \in Int /\ 1 <= n /\ n <= Nodes /\ n \in Link /\ n - 1 \in Link
          /\ Left(n) = <<n - 1, "R">> /\ Right(n) = <<n, "L">>
          /\ Peer(Left(n)) = <<n - 1, "L">> /\ Peer(Right(n)) = <<n, "R">>
          /\ Src(n, "fwd") = <<n - 1, "R">> /\ Src(n, "bwd") = <<n, "L">>
          /\ Dst(n, "fwd") = <<n, "L">> /\ Dst(n, "bwd") = <<n - 1, "R">>
          /\ To(n, "fwd") = <<n, "R">> /\ To(n, "bwd") = <<n - 1, "L">>
    /\ App = <<0, "L">> /\ Target = <<Nodes, "R">>
    /\ Nodes \in Node /\ 1 \in Node /\ 0 \in Link /\ Nodes \in Link /\ Nodes \in Int /\ Nodes >= 2
<1>1. \A i \in Link : <<i, "L">> \in Conn /\ <<i, "R">> \in Conn
    BY Zenon DEF Conn
<1>2. ASSUME NEW n \in Node
      PROVE  /\ n \in Int /\ 1 <= n /\ n <= Nodes /\ n \in Link /\ n - 1 \in Link
             /\ Left(n) = <<n - 1, "R">> /\ Right(n) = <<n, "L">>
             /\ Peer(Left(n)) = <<n - 1, "L">> /\ Peer(Right(n)) = <<n, "R">>
    BY ConnFacts, Zenon DEF Left, Right
<1>3. ASSUME NEW n \in Node
      PROVE  /\ Src(n, "fwd") = <<n - 1, "R">> /\ Src(n, "bwd") = <<n, "L">>
             /\ Dst(n, "fwd") = <<n, "L">> /\ Dst(n, "bwd") = <<n - 1, "R">>
    BY <1>2, Zenon DEF Src, Dst
<1>4. ASSUME NEW n \in Node
      PROVE  To(n, "fwd") = <<n, "R">> /\ To(n, "bwd") = <<n - 1, "L">>
    BY <1>2, <1>3, Zenon DEF To
<1>5. /\ App = <<0, "L">> /\ Target = <<Nodes, "R">>
      /\ Nodes \in Node /\ 1 \in Node /\ 0 \in Link /\ Nodes \in Link /\ Nodes \in Int /\ Nodes >= 2
    BY PathAssumption DEF App, Target, Node, Link
<1>6. QED BY <1>1, <1>2, <1>3, <1>4, <1>5, Zenon

\* The neighbours of a link.
LEMMA Neighbours ==
    /\ \A i \in Link : i \in Int /\ 0 <= i /\ i <= Nodes /\ (i < Nodes => i + 1 \in Node)
                       /\ (i # 0 => i \in Node) /\ i + 1 - 1 = i
    /\ \A n \in Node : n - 1 < Nodes /\ n - 1 + 1 = n /\ (n # 1 => n - 1 \in Node)
                       /\ (n < Nodes => n + 1 \in Node)
BY PathAssumption DEF Link, Node

\* Handler n moves on, before its loops or when it returns; nothing is copied.
Turns(n, to) ==
    /\ pc[n] # "done" /\ to # "none" /\ (pc[n] \in Early \/ to = "done")
    /\ pc' = [pc EXCEPT ![n] = to]
    /\ to = "sent" => n < Nodes
    /\ to \in {"answer", "copy"} /\ n < Nodes => pc[n + 1] \in {"copy", "done"}
    /\ n - 1 \in made /\ made \subseteq made' /\ shut \subseteq shut'
    /\ dead' = dead /\ hold' = hold /\ ended' = ended /\ sent' = sent /\ got' = got
    /\ \A i \in Link : i # n - 1 /\ i # n =>
           inq'[<<i, "R">>] = inq[<<i, "R">>] /\ inq'[<<i, "L">>] = inq[<<i, "L">>]

\* Of the counts only what it wrote to the right and what it read on the left changes.
OwnCounts(n, w, r, w2, r2) ==
    /\ \A i \in Link : w2[<<i, "L">>] = w[<<i, "L">>] /\ r2[<<i, "L">>] = r[<<i, "L">>]
    /\ \A i \in Link : i # n => w2[<<i, "R">>] = w[<<i, "R">>]
    /\ \A i \in Link : i # n - 1 => r2[<<i, "R">>] = r[<<i, "R">>]

\* Then what there is to show is about the node and its own two links.
LEMMA HandlerFlow ==
    ASSUME PathType, NEW w \in Flows, NEW r \in Flows, NEW w2 \in Flows, NEW r2 \in Flows,
           Flow(w, r),
           NEW n \in Node, NEW to \in Places, Turns(n, to),
           n # 1 => buf' = buf,
           OwnCounts(n, w, r, w2, r2),
           FwdOK(n - 1, w2, r2)', FwdOK(n, w2, r2)', BwdOK(n - 1, w2, r2)', BwdOK(n, w2, r2)',
           Bounded(w2, r2)', NodeOK(n, w2, r2)', Unmade', BufOK'
    PROVE  Flow(w2, r2)'
<1>0. /\ pc[n] # "done" /\ to # "none" /\ (pc[n] \in Early \/ to = "done")
      /\ pc' = [pc EXCEPT ![n] = to]
      /\ to = "sent" => n < Nodes
      /\ to \in {"answer", "copy"} /\ n < Nodes => pc[n + 1] \in {"copy", "done"}
      /\ n - 1 \in made /\ made \subseteq made' /\ shut \subseteq shut'
      /\ dead' = dead /\ hold' = hold /\ ended' = ended /\ sent' = sent /\ got' = got
      /\ \A i \in Link : i # n - 1 /\ i # n =>
             inq'[<<i, "R">>] = inq[<<i, "R">>] /\ inq'[<<i, "L">>] = inq[<<i, "L">>]
      /\ \A i \in Link : w2[<<i, "L">>] = w[<<i, "L">>] /\ r2[<<i, "L">>] = r[<<i, "L">>]
      /\ \A i \in Link : i # n => w2[<<i, "R">>] = w[<<i, "R">>]
      /\ \A i \in Link : i # n - 1 => r2[<<i, "R">>] = r[<<i, "R">>]
    BY Zenon DEF Turns, OwnCounts
<1>1. /\ pc'[n] = to /\ \A k \in Node : k # n => pc'[k] = pc[k]
    BY <1>0, Zenon DEF PathType
<1>2. ASSUME NEW i \in Link PROVE FwdOK(i, w2, r2)'
    <2>1. CASE i # n - 1 /\ i # n
        <3>1. (FwdAwaits(i))' <=> FwdAwaits(i)
            <4>1. i < Nodes => i + 1 \in Node /\ i + 1 # n
                BY <2>1, Neighbours, Geometry
            <4>2. QED BY <1>0, <1>1, <4>1, Zenon DEF FwdAwaits
        <3>2. FwdOK(i, w, r)
            BY <1>0, Zenon DEF Flow
        <3>3. /\ inq'[<<i, "R">>] = inq[<<i, "R">>] /\ w2[<<i, "R">>] = w[<<i, "R">>]
              /\ r2[<<i, "R">>] = r[<<i, "R">>]
            BY <1>0, <2>1, Zenon
        <3>4. QED BY <1>0, <3>1, <3>2, <3>3, Zenon DEF FwdOK
    <2>2. QED BY <1>0, <2>1, Zenon
<1>3. ASSUME NEW i \in Link PROVE BwdOK(i, w2, r2)'
    <2>1. CASE i # n - 1 /\ i # n
        <3>1. (BwdAwaits(i))' <=> BwdAwaits(i)
            <4>1. i # 0 => i \in Node /\ i # n
                BY <1>0, <2>1, Neighbours, Zenon
            <4>2. QED BY <1>0, <1>1, <4>1, Zenon DEF BwdAwaits
        <3>2. i < Nodes => i + 1 \in Node /\ pc'[i + 1] = pc[i + 1]
            <4>1. i < Nodes => i + 1 \in Node /\ i + 1 # n
                BY <2>1, Neighbours, Geometry
            <4>2. QED BY <1>0, <1>1, <4>1, Zenon
        <3>3. /\ inq'[<<i, "L">>] = inq[<<i, "L">>] /\ w2[<<i, "L">>] = w[<<i, "L">>]
              /\ r2[<<i, "L">>] = r[<<i, "L">>]
            BY <1>0, <2>1, Zenon
        <3>4. FirstAnswer(i, w) => FirstAnswer(i, w2)'
            BY <1>0, <3>2, <3>3, Zenon DEF FirstAnswer
        <3>5. BwdOK(i, w, r)
            BY <1>0, Zenon DEF Flow
        <3>6. QED BY <1>0, <3>1, <3>3, <3>4, <3>5, Zenon DEF BwdOK
    <2>2. QED BY <1>0, <2>1, Zenon
<1>4. ASSUME NEW k \in Node PROVE NodeOK(k, w2, r2)'
    <2>1. CASE k # n
        <3>1. /\ pc'[k] = pc[k] /\ NodeOK(k, w, r) /\ hold' = hold
            BY <1>0, <1>1, <2>1, Zenon DEF Flow
        <3>2. \A d \in Dir : w2[To(k, d)] = w[To(k, d)] /\ r2[Src(k, d)] = r[Src(k, d)]
            <4>1. /\ w2[<<k, "R">>] = w[<<k, "R">>] /\ r2[<<k, "L">>] = r[<<k, "L">>]
                  /\ w2[<<k - 1, "L">>] = w[<<k - 1, "L">>]
                BY <1>0, <2>1, Geometry, Zenon
            <4>2. r2[<<k - 1, "R">>] = r[<<k - 1, "R">>]
                <5>1. k - 1 # n - 1 /\ k - 1 \in Link
                    BY <2>1, Geometry
                <5>2. QED BY <1>0, <5>1, Zenon
            <4>3. ASSUME NEW d \in Dir
                  PROVE  w2[To(k, d)] = w[To(k, d)] /\ r2[Src(k, d)] = r[Src(k, d)]
                <5>1. CASE d = "fwd"
                    BY <1>0, <4>1, <4>2, <5>1, Geometry, Zenon
                <5>2. CASE d = "bwd"
                    BY <1>0, <4>1, <4>2, <5>2, Geometry, Zenon
                <5>3. QED BY <1>0, <5>1, <5>2, Zenon DEF Dir
            <4>4. QED BY <1>0, <4>3, Zenon
        <3>3. r2[Left(k)] = r[Left(k)] /\ r2[Right(k)] = r[Right(k)]
            BY <3>2, Geometry, Zenon DEF Dir
        <3>4. \A d \in Dir : (Passes(k, d))' => Passes(k, d)
            BY <1>0, Zenon DEF Passes
        <3>5. k = 1 => buf' = buf
            BY <1>0, <2>1, Zenon
        <3>6. EarlyOK(k, w, r) => EarlyOK(k, w2, r2)'
            BY <1>0, <3>1, <3>2, <3>3, <3>5, Zenon DEF EarlyOK
        <3>7. \A d \in Dir : LoopOK(k, d, w, r) => LoopOK(k, d, w2, r2)'
            BY <1>0, <3>1, <3>2, <3>4, Zenon DEF LoopOK
        <3>8. QED BY <1>0, <3>1, <3>6, <3>7, Zenon DEF NodeOK
    <2>2. QED BY <1>0, <2>1, Zenon
<1>5. Chain'
    <2>0. Chain /\ EndsOK(w, r)
        BY Zenon DEF Flow
    <2>1. ASSUME NEW k \in Node, k < Nodes
          PROVE  /\ k \notin made' => pc'[k + 1] = "none"
                 /\ pc'[k] \in {"answer", "copy"} => pc'[k + 1] \in {"copy", "done"}
        <3>1. k + 1 \in Node /\ k + 1 # k /\ (k + 1 = n => k = n - 1)
            BY <2>1, Neighbours, Geometry
        <3>2. /\ k \notin made => pc[k + 1] = "none"
              /\ pc[k] \in {"answer", "copy"} => pc[k + 1] \in {"copy", "done"}
            BY <2>0, <2>1, Zenon DEF Chain
        <3>3. CASE k + 1 = n
            <4>1. k \in made /\ pc'[k] = pc[k] /\ pc'[k + 1] = to /\ k \in made'
                BY <1>0, <1>1, <3>1, <3>3, Zenon
            <4>2. pc[k] \in {"answer", "copy"} => to = "done"
                BY <1>0, <3>2, <3>3, Zenon DEF Early
            <4>3. QED BY <4>1, <4>2, Zenon
        <3>4. CASE k = n
            BY <1>0, <1>1, <2>1, <3>1, <3>2, <3>4, Zenon
        <3>5. CASE k # n /\ k + 1 # n
            BY <1>0, <1>1, <3>1, <3>2, <3>5, Zenon
        <3>6. QED BY <1>0, <3>3, <3>4, <3>5, Zenon
    <2>2. got'[App] # <<>> => pc'[1] \in {"copy", "done"}
        <3>1. got[App] # <<>> => pc[1] \in {"copy", "done"}
            BY <1>0, <2>0, Zenon DEF Chain
        <3>2. CASE n = 1
            BY <1>0, <1>1, <3>1, <3>2, Zenon DEF Early
        <3>3. CASE n # 1
            BY <1>0, <1>1, <3>1, <3>3, Geometry, Zenon
        <3>4. QED BY <1>0, <3>2, <3>3, Zenon
    <2>3. pc'[Nodes] # "sent" /\ pc'[1] # "none"
        <3>1. pc[Nodes] # "sent" /\ pc[1] # "none"
            BY <1>0, <2>0, Zenon DEF Chain
        <3>2. n = Nodes => to # "sent"
            <4>1. ~(Nodes < Nodes)
                BY Geometry
            <4>2. QED BY <1>0, <4>1, Zenon
        <3>3. QED BY <1>0, <1>1, <3>1, <3>2, Geometry, Zenon
    <2>4. QED BY <1>0, <2>1, <2>2, <2>3, Zenon DEF Chain
<1>6. EndsOK(w2, r2)'
    <2>0. EndsOK(w, r)
        BY <1>0, Zenon DEF Flow
    <2>1. /\ w2[<<0, "R">>] = w[<<0, "R">>] /\ w2[<<Nodes, "L">>] = w[<<Nodes, "L">>]
          /\ r2[App] = r[App] /\ r2[Target] = r[Target] /\ w2[App] = w[App]
        <3>1. 0 # n /\ Nodes # n - 1
            BY Geometry
        <3>2. QED BY <1>0, <3>1, Geometry, Zenon
    <2>2. pc[1] = "done" => pc'[1] = "done"
        BY <1>0, <1>1, Geometry, Zenon
    <2>3. QED BY <1>0, <2>0, <2>1, <2>2, Zenon DEF EndsOK
<1>7. QED BY <1>0, <1>2, <1>3, <1>4, <1>5, <1>6, Zenon DEF Flow

\* What the readers of node n's links wait for, before and after.
LEMMA OwnAwaits ==
    ASSUME PathType, NEW n \in Node, NEW to \in Places, Turns(n, to)
    PROVE  /\ FwdAwaits(n - 1) <=> pc[n] \in {"none", "request"}
           /\ (FwdAwaits(n - 1))' <=> to \in {"none", "request"}
           /\ (FwdAwaits(n))' <=> FwdAwaits(n)
           /\ BwdAwaits(n) <=> pc[n] = "sent"
           /\ (BwdAwaits(n))' <=> to = "sent"
           /\ (BwdAwaits(n - 1))' <=> BwdAwaits(n - 1)
           /\ pc'[n] = to /\ (n < Nodes => pc'[n + 1] = pc[n + 1])
<1>1. /\ pc'[n] = to /\ (\A k \in Node : k # n => pc'[k] = pc[k]) /\ got' = got
    BY Zenon DEF PathType, Turns
<1>2. /\ n - 1 < Nodes /\ n - 1 + 1 = n /\ n # 0 /\ n + 1 # n /\ n - 1 # n
      /\ n < Nodes => n + 1 \in Node
      /\ n - 1 # 0 => n - 1 \in Node
    BY Neighbours, Geometry
<1>3. n < Nodes => pc'[n + 1] = pc[n + 1]
    BY <1>1, <1>2, Zenon
<1>4. n - 1 # 0 => pc'[n - 1] = pc[n - 1]
    BY <1>1, <1>2, Zenon
<1>5. QED BY <1>1, <1>2, <1>3, <1>4, Zenon DEF FwdAwaits, BwdAwaits

\* A handler that has not answered is waited for, unless its caller has closed.
LEMMA Awaited ==
    ASSUME PathType, PathInv, NEW w \in Flows, NEW r \in Flows, Flow(w, r),
           NEW n \in Node, pc[n] \in Early, pc[n] # "none", <<n - 1, "L">> \notin shut
    PROVE  /\ BwdAwaits(n - 1) /\ inq[<<n - 1, "L">>] = <<>>
           /\ w[<<n - 1, "L">>] = 0 /\ r[<<n - 1, "L">>] = 0
<1>1. Chain /\ BwdOK(n - 1, w, r) /\ EarlyOK(n, w, r)
    BY Geometry, Zenon DEF Flow, NodeOK
<1>2. BwdAwaits(n - 1)
    <2>1. CASE n - 1 = 0
        <3>1. n = 1
            BY <2>1, Geometry
        <3>2. pc[1] # "copy" /\ pc[1] # "done"
            BY <3>1, Zenon DEF Early
        <3>3. got[App] = <<>>
            BY <1>1, <3>2, Zenon DEF Chain
        <3>4. QED BY <2>1, <3>3, Zenon DEF BwdAwaits
    <2>2. CASE n - 1 # 0
        <3>1. n - 1 \in Node /\ n - 1 < Nodes /\ n - 1 + 1 = n
            BY <2>2, Geometry, Neighbours, Zenon
        <3>2. n - 1 \in made /\ ~(pc[n - 1] \in {"answer", "copy"})
            BY <1>1, <3>1, Zenon DEF Chain, Early
        <3>3. pc[n - 1] # "done"
            BY <3>1, <3>2, Geometry, Zenon DEF PathInv, DoneMeansClosed
        <3>4. ~(pc[n - 1] \in {"none", "request", "open"})
            BY <3>1, <3>2, Zenon DEF PathInv, Opened
        <3>5. pc[n - 1] \in Places
            BY <3>1, Zenon DEF PathType
        <3>6. QED BY <2>2, <3>2, <3>3, <3>4, <3>5, Zenon DEF BwdAwaits, Places
    <2>3. QED BY <2>1, <2>2, Zenon
<1>3. n - 1 + 1 = n
    BY Neighbours, Zenon
<1>4. inq[<<n - 1, "L">>] = <<>> /\ r[<<n - 1, "L">>] = 0
    BY <1>1, <1>2, <1>3, Zenon DEF BwdOK, FirstAnswer
<1>5. w[<<n - 1, "L">>] = 0
    BY <1>1, Geometry, Zenon DEF EarlyOK, Dir
<1>6. QED BY <1>2, <1>4, <1>5, Zenon

\* The queues of a handler's links where it reads and writes nothing, and where it
\* refuses.
LEMMA OwnQueues ==
    ASSUME PathType, PathInv, NEW w \in Flows, NEW r \in Flows, Flow(w, r),
           NEW n \in Node, NEW to \in Places, Turns(n, to)
    PROVE  /\ /\ inq'[<<n - 1, "R">>] = inq[<<n - 1, "R">>]
              /\ to \in {"none", "request"} <=> pc[n] \in {"none", "request"}
              => FwdOK(n - 1, w, r)'
           /\ <<n - 1, "R">> \in shut' => FwdOK(n - 1, w, r)'
           /\ inq'[<<n, "R">>] = inq[<<n, "R">>] => FwdOK(n, w, r)'
           /\ inq'[<<n, "L">>] = inq[<<n, "L">>] /\ to # "sent" /\ pc[n] # "sent"
              => BwdOK(n, w, r)'
           /\ <<n, "L">> \in shut' => BwdOK(n, w, r)'
           /\ inq'[<<n - 1, "L">>] = inq[<<n - 1, "L">>] /\ to \in Early
              => BwdOK(n - 1, w, r)'
           /\ inq'[<<n - 1, "L">>] = inq[<<n - 1, "L">>] /\ to = "done" /\ pc[n] = "copy"
              => BwdOK(n - 1, w, r)'
           /\ /\ to = "done" /\ pc[n] # "copy" /\ pc[n] # "none"
              /\ \/ inq'[<<n - 1, "L">>] = inq[<<n - 1, "L">>]
                 \/ <<n - 1, "L">> \notin shut
                       => inq'[<<n - 1, "L">>] = Append(inq[<<n - 1, "L">>], Fail)
              => BwdOK(n - 1, w, r)'
<1>1. /\ FwdAwaits(n - 1) <=> pc[n] \in {"none", "request"}
      /\ (FwdAwaits(n - 1))' <=> to \in {"none", "request"}
      /\ (FwdAwaits(n))' <=> FwdAwaits(n)
      /\ BwdAwaits(n) <=> pc[n] = "sent"
      /\ (BwdAwaits(n))' <=> to = "sent"
      /\ (BwdAwaits(n - 1))' <=> BwdAwaits(n - 1)
      /\ pc'[n] = to
    BY OwnAwaits, Zenon
<1>2. shut \subseteq shut' /\ (pc[n] \in Early \/ to = "done") /\ pc[n] # "done"
    BY Zenon DEF Turns
<1>3. FwdOK(n - 1, w, r) /\ FwdOK(n, w, r) /\ BwdOK(n - 1, w, r) /\ BwdOK(n, w, r)
    BY Geometry, Zenon DEF Flow
<1>4. n - 1 + 1 = n /\ n - 1 < Nodes
    BY Neighbours, Zenon
<1>5. /\ /\ inq'[<<n - 1, "R">>] = inq[<<n - 1, "R">>]
         /\ to \in {"none", "request"} <=> pc[n] \in {"none", "request"}
         => FwdOK(n - 1, w, r)'
      /\ <<n - 1, "R">> \in shut' => FwdOK(n - 1, w, r)'
      /\ inq'[<<n, "R">>] = inq[<<n, "R">>] => FwdOK(n, w, r)'
    BY <1>1, <1>2, <1>3, Zenon DEF FwdOK
<1>6. /\ inq'[<<n, "L">>] = inq[<<n, "L">>] /\ to # "sent" /\ pc[n] # "sent"
         => BwdOK(n, w, r)'
      /\ <<n, "L">> \in shut' => BwdOK(n, w, r)'
    BY <1>1, <1>2, <1>3, Zenon DEF BwdOK
<1>7. inq'[<<n - 1, "L">>] = inq[<<n - 1, "L">>] /\ to \in Early => BwdOK(n - 1, w, r)'
    <2>1. CASE inq'[<<n - 1, "L">>] = inq[<<n - 1, "L">>] /\ to \in Early
        <3>1. to # "copy" /\ to # "done" /\ pc[n] \in Early
            BY <1>2, <2>1, Zenon DEF Early
        <3>2. FirstAnswer(n - 1, w) => FirstAnswer(n - 1, w)'
            BY <1>1, <1>4, <2>1, <3>1, Zenon DEF FirstAnswer
        <3>3. QED BY <1>1, <1>2, <1>3, <2>1, <3>2, Zenon DEF BwdOK
    <2>2. QED BY <2>1, Zenon
<1>8. inq'[<<n - 1, "L">>] = inq[<<n - 1, "L">>] /\ to = "done" /\ pc[n] = "copy"
          => BwdOK(n - 1, w, r)'
    <2>1. CASE inq'[<<n - 1, "L">>] = inq[<<n - 1, "L">>] /\ to = "done" /\ pc[n] = "copy"
        <3>1. FirstAnswer(n - 1, w) => FirstAnswer(n - 1, w)'
            BY <1>1, <1>4, <2>1, Zenon DEF FirstAnswer, Early
        <3>2. QED BY <1>1, <1>2, <1>3, <2>1, <3>1, Zenon DEF BwdOK
    <2>2. QED BY <2>1, Zenon
<1>9. ASSUME to = "done", pc[n] # "copy", pc[n] # "none",
             \/ inq'[<<n - 1, "L">>] = inq[<<n - 1, "L">>]
             \/ <<n - 1, "L">> \notin shut
                   => inq'[<<n - 1, "L">>] = Append(inq[<<n - 1, "L">>], Fail)
      PROVE  BwdOK(n - 1, w, r)'
    <2>1. pc[n] \in Early
        BY <1>2, <1>9, Zenon DEF PathType, Places, Early
    <2>2. CASE <<n - 1, "L">> \notin shut
        <3>1. /\ BwdAwaits(n - 1) /\ inq[<<n - 1, "L">>] = <<>>
              /\ w[<<n - 1, "L">>] = 0 /\ r[<<n - 1, "L">>] = 0
            BY <1>9, <2>1, <2>2, Awaited, Zenon
        <3>2. inq'[<<n - 1, "L">>] = <<>> \/ inq'[<<n - 1, "L">>] = <<Fail>>
            <4>1. <<Fail>> = Append(<<>>, Fail)
                BY ShortFacts DEF Fail
            <4>2. QED BY <1>9, <2>2, <3>1, <4>1, Zenon
        <3>3. FirstAnswer(n - 1, w)'
            BY <1>1, <1>4, <1>9, <3>1, <3>2, Zenon DEF FirstAnswer, Early
        <3>4. QED BY <1>1, <3>1, <3>3, Zenon DEF BwdOK
    <2>3. CASE <<n - 1, "L">> \in shut
        BY <1>2, <2>3, Zenon DEF BwdOK
    <2>4. QED BY <2>2, <2>3, Zenon
<1>10. QED BY <1>5, <1>6, <1>7, <1>8, <1>9, Zenon

\* A conn is its link and its side.
LEMMA Pairs ==
    /\ \A i, j : <<i, "R">> # <<j, "L">> /\ <<i, "L">> # <<j, "R">>
    /\ \A i, j : <<i, "R">> = <<j, "R">> => i = j
    /\ \A i, j : <<i, "L">> = <<j, "L">> => i = j
OBVIOUS

\* A handler that started has its left link.
LEMMA Reached ==
    ASSUME PathInv, Chain, NEW n \in Node, pc[n] # "none" PROVE n - 1 \in made
<1>1. CASE n = 1
    <2>1. n - 1 = 0
        BY <1>1
    <2>2. QED BY <2>1, Zenon DEF PathInv
<1>2. CASE n # 1
    <2>1. n - 1 \in Node /\ n - 1 < Nodes /\ n - 1 + 1 = n
        BY <1>2, Neighbours, Zenon
    <2>2. QED BY <2>1, Zenon DEF Chain
<1>3. QED BY <1>1, <1>2, Zenon

\* A handler moves on before its loops and no byte moves.
LEMMA QuietHandler ==
    ASSUME PathType, PathInv, NEW w \in Flows, NEW r \in Flows, Flow(w, r),
           NEW n \in Node, NEW to \in Places, Turns(n, to), to # "copy",
           buf' = buf, n = 1 => to # "request",
           n \notin made' => inq'[<<n, "R">>] = inq[<<n, "R">>] /\ inq'[<<n, "L">>] = inq[<<n, "L">>],
           FwdOK(n - 1, w, r)', FwdOK(n, w, r)', BwdOK(n - 1, w, r)', BwdOK(n, w, r)'
    PROVE  FlowsOn(w)
<1>1. /\ pc[n] \in Early \/ to = "done"
      /\ sent' = sent /\ hold' = hold /\ made \subseteq made' /\ n - 1 \in made
      /\ \A i \in Link : i # n - 1 /\ i # n =>
             inq'[<<i, "R">>] = inq[<<i, "R">>] /\ inq'[<<i, "L">>] = inq[<<i, "L">>]
    BY Zenon DEF Turns
<1>2. pc'[n] = to /\ (\A k \in Node : k # n => pc'[k] = pc[k])
    BY Zenon DEF PathType, Turns
<1>3. Bounded(w, r) /\ NodeOK(n, w, r) /\ Unmade /\ BufOK
    BY Zenon DEF Flow
<1>4. Bounded(w, r)'
    BY <1>1, <1>3, Zenon DEF Bounded
<1>5. NodeOK(n, w, r)'
    <2>1. EarlyOK(n, w, r) => EarlyOK(n, w, r)'
        BY <1>1, Zenon DEF EarlyOK
    <2>2. to # "done" => pc[n] \in Early
        BY <1>1, Zenon
    <2>3. QED BY <1>2, <1>3, <2>1, <2>2, Zenon DEF NodeOK, Early
<1>6. Unmade'
    <2>1. ASSUME NEW i \in Link, i \notin made'
          PROVE  inq'[<<i, "L">>] = <<>> /\ inq'[<<i, "R">>] = <<>>
        <3>1. i \notin made /\ i # n - 1
            BY <1>1, <2>1, Zenon
        <3>2. QED BY <1>1, <1>3, <2>1, <3>1, Zenon DEF Unmade
    <2>2. QED BY <2>1, Zenon DEF Unmade
<1>7. BufOK'
    <2>1. pc'[1] = "request" => pc[1] = "request"
        BY <1>2, Geometry, Zenon
    <2>2. QED BY <1>1, <1>3, <2>1, Zenon DEF BufOK
<1>8. Flow(w, r)'
    <2>1. OwnCounts(n, w, r, w, r)
        BY Zenon DEF OwnCounts
    <2>2. QED BY <1>4, <1>5, <1>6, <1>7, <2>1, HandlerFlow, Zenon
<1>9. QED BY <1>8, Zenon DEF FlowsOn, Frozen

\* The handler's places in its own queues.
LEMMA OwnReads ==
    ASSUME PathType, NEW n \in Node, NEW x \in Int
    PROVE  /\ Take(inq, Left(n))[<<n - 1, "R">>] = Tail(inq[<<n - 1, "R">>])
           /\ \A c \in Conn : c # <<n - 1, "R">> => Take(inq, Left(n))[c] = inq[c]
           /\ Take(inq, Right(n))[<<n, "L">>] = Tail(inq[<<n, "L">>])
           /\ \A c \in Conn : c # <<n, "L">> => Take(inq, Right(n))[c] = inq[c]
           /\ <<n - 1, "L">> \notin shut =>
                  Put(inq, Left(n), x)[<<n - 1, "L">>] = Append(inq[<<n - 1, "L">>], x)
           /\ \A c \in Conn : c # <<n - 1, "L">> => Put(inq, Left(n), x)[c] = inq[c]
           /\ <<n, "R">> \notin shut =>
                  Put(inq, Right(n), x)[<<n, "R">>] = Append(inq[<<n, "R">>], x)
           /\ \A c \in Conn : c # <<n, "R">> => Put(inq, Right(n), x)[c] = inq[c]
<1>1. Left(n) \in Conn /\ Right(n) \in Conn /\ inq \in Queues
    BY ConnFacts, Zenon DEF PathType
<1>2. Left(n) = <<n - 1, "R">> /\ Right(n) = <<n, "L">>
      /\ Peer(Left(n)) = <<n - 1, "L">> /\ Peer(Right(n)) = <<n, "R">>
    BY Geometry, Zenon
<1>3. \A c \in {Left(n), Right(n)} :
          /\ \A d \in Conn : d # Peer(c) => Put(inq, c, x)[d] = inq[d]
          /\ Peer(c) \notin shut => Put(inq, c, x)[Peer(c)] = Append(inq[Peer(c)], x)
          /\ \A d \in Conn : d # c => Take(inq, c)[d] = inq[d]
          /\ Take(inq, c)[c] = Tail(inq[c])
    <2>1. \A c \in {Left(n), Right(n)} : c \in Conn
        BY <1>1, Zenon
    <2>2. \A c \in {Left(n), Right(n)} :
              /\ \A d \in Conn : d # Peer(c) => Put(inq, c, x)[d] = inq[d]
              /\ Peer(c) \notin shut => Put(inq, c, x)[Peer(c)] = Append(inq[Peer(c)], x)
        BY <1>1, <2>1, PutOne, Zenon
    <2>3. \A c \in {Left(n), Right(n)} :
              /\ \A d \in Conn : d # c => Take(inq, c)[d] = inq[d]
              /\ Take(inq, c)[c] = Tail(inq[c])
        BY <1>1, <2>1, TakeOne, Zenon
    <2>4. QED BY <2>2, <2>3, Zenon
<1>4. QED BY <1>2, <1>3, Zenon

-----------------------------------------------------------------------------
(* What is delivered: the handlers.                                        *)

\* AcceptStream, RequestFails, AnswerFails and RelayReturns touch no queue.
LEMMA SilentFlow ==
    ASSUME PathType, PathInv, NEW w \in Flows, NEW r \in Flows, Flow(w, r), NEW n \in Node,
           AcceptStream(n) \/ RequestFails(n) \/ AnswerFails(n) \/ RelayReturns(n)
    PROVE  FlowsOn(w)
<1>0. Chain
    BY Zenon DEF Flow
<1>1. /\ inq' = inq /\ buf' = buf /\ made' = made /\ shut \subseteq shut'
      /\ dead' = dead /\ hold' = hold /\ sent' = sent /\ got' = got /\ ended' = ended
    BY Zenon DEF AcceptStream, RequestFails, AnswerFails, RelayReturns, Close,
                 linkVars, copyVars, endVars
<1>2. n - 1 \in made
    <2>1. AcceptStream(n) => n - 1 \in made
        BY Zenon DEF AcceptStream
    <2>2. ~AcceptStream(n) => pc[n] # "none"
        BY Zenon DEF RequestFails, AnswerFails, RelayReturns
    <2>3. QED BY <1>0, <2>1, <2>2, Reached, Zenon
<1>3. CASE AcceptStream(n)
    <2>1. pc[n] = "none" /\ pc' = [pc EXCEPT ![n] = "request"] /\ n > 1 /\ "request" \in Places
        BY <1>3, Zenon DEF AcceptStream, Places
    <2>2. n # 1
        BY <2>1, Geometry
    <2>3. Turns(n, "request")
        BY <1>1, <1>2, <2>1, Zenon DEF Turns, Early
    <2>4. /\ FwdOK(n - 1, w, r)' /\ FwdOK(n, w, r)' /\ BwdOK(n - 1, w, r)' /\ BwdOK(n, w, r)'
        BY <1>1, <2>1, <2>3, OwnQueues, Zenon DEF Early
    <2>5. QED BY <1>1, <2>1, <2>2, <2>3, <2>4, QuietHandler, Zenon
<1>4. CASE RequestFails(n) \/ AnswerFails(n) \/ RelayReturns(n)
    <2>1. /\ pc[n] \in {"request", "answer", "copy"} /\ pc' = [pc EXCEPT ![n] = "done"]
          /\ "done" \in Places /\ Left(n) \in shut'
          /\ pc[n] \in {"answer", "copy"} => Right(n) \in shut'
        BY <1>4, Zenon DEF RequestFails, AnswerFails, RelayReturns, Close, Places
    <2>2. Turns(n, "done")
        BY <1>1, <1>2, <2>1, Zenon DEF Turns, Early
    <2>3. /\ <<n - 1, "R">> \in shut' /\ (pc[n] # "request" => <<n, "L">> \in shut')
          /\ pc[n] # "none" /\ pc[n] # "sent"
        BY <2>1, Geometry, Zenon
    <2>4. /\ FwdOK(n - 1, w, r)' /\ FwdOK(n, w, r)' /\ BwdOK(n - 1, w, r)' /\ BwdOK(n, w, r)'
        <3>1. inq'[<<n - 1, "L">>] = inq[<<n - 1, "L">>] /\ inq'[<<n, "R">>] = inq[<<n, "R">>]
              /\ inq'[<<n, "L">>] = inq[<<n, "L">>] /\ "done" # "sent" /\ "done" \in Places
            BY <1>1, <2>1, Zenon
        <3>2. pc[n] = "copy" \/ pc[n] # "copy"
            OBVIOUS
        <3>3. QED BY <2>2, <2>3, <3>1, <3>2, OwnQueues, Zenon
    <2>5. QED BY <1>1, <2>1, <2>2, <2>4, QuietHandler, Zenon
<1>5. QED BY <1>3, <1>4, Zenon

\* A refusal may leave one word on the left link.
LEMMA RefuseFlow ==
    ASSUME PathType, PathInv, NEW w \in Flows, NEW r \in Flows, Flow(w, r), NEW n \in Node,
           pc[n] \in {"open", "sent"}, Refuse(n)
    PROVE  FlowsOn(w)
<1>1. /\ pc' = [pc EXCEPT ![n] = "done"] /\ buf' = buf /\ made' = made /\ shut \subseteq shut'
      /\ dead' = dead /\ hold' = hold /\ sent' = sent /\ got' = got /\ ended' = ended
      /\ Left(n) \in shut' /\ (n \in made => Right(n) \in shut')
      /\ inq' = inq \/ inq' = Put(inq, Left(n), Fail)
    BY Zenon DEF Refuse, Close, copyVars, endVars
<1>2. /\ n - 1 \in made /\ pc[n] # "none" /\ pc[n] # "copy" /\ pc[n] \in Early /\ pc[n] # "done"
      /\ pc[n] = "sent" => n \in made
    BY Reached, Zenon DEF Flow, Early, PathInv, Opened
<1>3. /\ \A c \in Conn : c # <<n - 1, "L">> => inq'[c] = inq[c]
      /\ \/ inq'[<<n - 1, "L">>] = inq[<<n - 1, "L">>]
         \/ <<n - 1, "L">> \notin shut
               => inq'[<<n - 1, "L">>] = Append(inq[<<n - 1, "L">>], Fail)
    <2>1. Fail \in Int
        BY DEF Fail
    <2>2. /\ \A c \in Conn : c # <<n - 1, "L">> => Put(inq, Left(n), Fail)[c] = inq[c]
          /\ <<n - 1, "L">> \notin shut =>
                 Put(inq, Left(n), Fail)[<<n - 1, "L">>] = Append(inq[<<n - 1, "L">>], Fail)
        BY <2>1, OwnReads, Zenon
    <2>3. CASE inq' = inq
        BY <2>3, Zenon
    <2>4. CASE inq' = Put(inq, Left(n), Fail)
        BY <2>2, <2>4, Zenon
    <2>5. QED BY <1>1, <2>3, <2>4, Zenon
<1>4. /\ \A i \in Link : inq'[<<i, "R">>] = inq[<<i, "R">>]
      /\ \A i \in Link : i # n - 1 => inq'[<<i, "L">>] = inq[<<i, "L">>]
    BY <1>3, Geometry, Pairs, Zenon
<1>5. n \in Link /\ n - 1 \in Link /\ n # n - 1 /\ "done" \in Places
      /\ Left(n) = <<n - 1, "R">> /\ Right(n) = <<n, "L">>
    BY Geometry DEF Places
<1>6. Turns(n, "done")
    BY <1>1, <1>2, <1>4, Zenon DEF Turns
<1>7. /\ FwdOK(n - 1, w, r)' /\ FwdOK(n, w, r)' /\ BwdOK(n - 1, w, r)' /\ BwdOK(n, w, r)'
    <2>1. <<n - 1, "R">> \in shut' /\ inq'[<<n, "R">>] = inq[<<n, "R">>]
          /\ inq'[<<n, "L">>] = inq[<<n, "L">>]
        BY <1>1, <1>4, <1>5, Zenon
    <2>2. <<n, "L">> \in shut' \/ pc[n] # "sent"
        BY <1>1, <1>2, <1>5, Zenon
    <2>3. QED BY <1>2, <1>3, <1>5, <1>6, <2>1, <2>2, OwnQueues, Zenon
<1>8. QED BY <1>1, <1>4, <1>5, <1>6, <1>7, QuietHandler, Zenon

\* A new link: its request is first in the queue.
LEMMA OpenFlow ==
    ASSUME PathType, PathInv, NEW w \in Flows, NEW r \in Flows, Flow(w, r), NEW n \in Node,
           OpenStream(n) \/ (n = Nodes /\ DialTarget)
    PROVE  FlowsOn(w)
<1>1. /\ pc[n] = "open" /\ buf' = buf /\ made' = made \cup {n} /\ shut' = shut
      /\ dead' = dead /\ hold' = hold /\ sent' = sent /\ got' = got /\ ended' = ended
    BY Zenon DEF OpenStream, DialTarget, copyVars, endVars
<1>2. n - 1 \in made /\ n \notin made /\ Chain /\ Unmade /\ EarlyOK(n, w, r) /\ FwdOK(n, w, r)
    BY <1>1, Reached, Geometry, Zenon DEF Flow, NodeOK, Early, PathInv, Opened
<1>3. CASE OpenStream(n)
    <2>1. /\ n < Nodes /\ pc' = [pc EXCEPT ![n] = "sent"] /\ inq' = Put(inq, Right(n), Req)
          /\ "sent" \in Places /\ Req \in Int
        <3>1. Req \in Int
            BY DEF Req
        <3>2. QED BY <1>3, <3>1, Zenon DEF OpenStream, Places
    <2>2. /\ \A c \in Conn : c # <<n, "R">> => inq'[c] = inq[c]
          /\ <<n, "R">> \notin shut => inq'[<<n, "R">>] = Append(inq[<<n, "R">>], Req)
        BY <2>1, OwnReads, Zenon
    <2>3. /\ \A i \in Link : inq'[<<i, "L">>] = inq[<<i, "L">>]
          /\ \A i \in Link : i # n => inq'[<<i, "R">>] = inq[<<i, "R">>]
        BY <2>2, Geometry, Pairs, Zenon
    <2>4. n \in Link /\ n - 1 \in Link /\ n # n - 1 /\ n + 1 \in Node
        BY <2>1, Geometry, Neighbours
    <2>5. Turns(n, "sent")
        BY <1>1, <1>2, <2>1, <2>3, Zenon DEF Turns, Early
    <2>6. FwdOK(n - 1, w, r)' /\ BwdOK(n - 1, w, r)'
        BY <1>1, <2>1, <2>3, <2>4, <2>5, OwnQueues, Zenon DEF Early
    <2>7. /\ FwdAwaits(n) /\ (FwdAwaits(n))' /\ (BwdAwaits(n))' /\ pc'[n + 1] = "none"
        <3>1. pc[n + 1] = "none"
            BY <1>2, <2>1, Zenon DEF Chain
        <3>2. FwdAwaits(n)
            BY <2>1, <3>1, Zenon DEF FwdAwaits
        <3>3. QED BY <2>1, <2>5, <3>1, <3>2, OwnAwaits, Zenon
    <2>8. /\ inq[<<n, "R">>] = <<>> /\ inq'[<<n, "L">>] = <<>>
          /\ w[<<n, "R">>] = 0 /\ r[<<n, "L">>] = 0
        BY <1>2, <2>3, <2>4, Geometry, Zenon DEF Unmade, EarlyOK, Dir
    <2>9. FwdOK(n, w, r)'
        <3>1. Tagged(<<Req>>, Req, 0) /\ <<Req>> = Append(<<>>, Req)
            BY <2>1, ShortFacts, Zenon
        <3>2. QED BY <1>1, <1>2, <2>2, <2>7, <2>8, <3>1, Zenon DEF FwdOK
    <2>10. BwdOK(n, w, r)'
        BY <2>1, <2>7, <2>8, Zenon DEF BwdOK, FirstAnswer
    <2>11. QED BY <1>1, <2>1, <2>5, <2>6, <2>9, <2>10, QuietHandler, Zenon
<1>4. CASE n = Nodes /\ DialTarget
    <2>1. /\ pc' = [pc EXCEPT ![n] = "answer"] /\ inq' = inq /\ "answer" \in Places
        BY <1>4, Zenon DEF DialTarget, Places
    <2>2. ~(n < Nodes)
        BY <1>4, Geometry
    <2>3. Turns(n, "answer")
        BY <1>1, <1>2, <2>1, <2>2, Zenon DEF Turns, Early
    <2>4. /\ FwdOK(n - 1, w, r)' /\ FwdOK(n, w, r)' /\ BwdOK(n - 1, w, r)' /\ BwdOK(n, w, r)'
        BY <1>1, <2>1, <2>3, OwnQueues, Zenon DEF Early
    <2>5. QED BY <1>1, <2>1, <2>3, <2>4, QuietHandler, Zenon
<1>5. QED BY <1>3, <1>4, Zenon

\* The request is read; the HTTP proxy's reader may take the byte behind it.
LEMMA RequestFlow ==
    ASSUME PathType, PathInv, NEW w \in Flows, NEW r \in Flows, Flow(w, r), NEW n \in Node,
           ReadRequest(n)
    PROVE  FlowsOn(w)
<1> DEFINE A == <<n - 1, "R">>
<1>1. /\ pc[n] = "request" /\ pc' = [pc EXCEPT ![n] = "open"] /\ made' = made /\ shut' = shut
      /\ dead' = dead /\ hold' = hold /\ sent' = sent /\ got' = got /\ ended' = ended
      /\ Left(n) \notin shut /\ inq[Left(n)] # <<>> /\ "open" \in Places
      /\ \/ inq' = Take(inq, Left(n)) /\ buf' = buf
         \/ /\ n = 1 /\ Len(inq[Left(n)]) > 1
            /\ buf' = Tail(inq[Left(n)]) /\ inq' = [inq EXCEPT ![Left(n)] = <<>>]
    BY Zenon DEF ReadRequest, Readable, copyVars, endVars, Places
<1>2. n - 1 \in made /\ Chain /\ Unmade /\ BufOK /\ EarlyOK(n, w, r) /\ FwdOK(n - 1, w, r)
      /\ Bounded(w, r) /\ EndsOK(w, r)
    BY <1>1, Reached, Geometry, Zenon DEF Flow, NodeOK, Early
<1>3. /\ Left(n) = A /\ n \in Link /\ n - 1 \in Link /\ A \in Conn
      /\ n # n - 1 /\ n - 1 + 1 = n /\ n - 1 < Nodes
    <2>1. n # n - 1 /\ n - 1 + 1 = n /\ n - 1 < Nodes
        BY Geometry
    <2>2. QED BY <2>1, Geometry, Zenon
<1>4. inq[A] \in Seq(Int) /\ w[A] \in Nat /\ r[A] \in Nat /\ Req \in Int
    <2>1. Req \in Int
        BY DEF Req
    <2>2. QED BY <1>3, <2>1, Zenon DEF PathType, Queues, Flows
<1>5. r[A] = 0 /\ Tagged(inq[A], Req, w[A])
    <2>1. FwdAwaits(n - 1)
        BY <1>1, <1>3, Zenon DEF FwdAwaits
    <2>2. QED BY <1>1, <1>2, <1>3, <2>1, Zenon DEF FwdOK
<1>6. IsRun(Tail(inq[A]), 0, w[A])
    BY <1>4, <1>5, TagFacts, Zenon
<1>7. \A c \in Conn : c # A => inq'[c] = inq[c]
    <2>1. \A c \in Conn : c # A => Take(inq, Left(n))[c] = inq[c]
        BY <1>4, OwnReads, Zenon
    <2>2. \A c \in Conn : c # A => [inq EXCEPT ![Left(n)] = <<>>][c] = inq[c]
        BY <1>3, Zenon DEF PathType, Queues
    <2>3. QED BY <1>1, <2>1, <2>2, Zenon
<1>8. /\ \A i \in Link : inq'[<<i, "L">>] = inq[<<i, "L">>]
      /\ \A i \in Link : i # n - 1 => inq'[<<i, "R">>] = inq[<<i, "R">>]
    BY <1>7, Geometry, Pairs, Zenon
<1>9. Turns(n, "open")
    BY <1>1, <1>2, <1>8, Zenon DEF Turns, Early
<1>10. FwdOK(n, w, r)' /\ BwdOK(n - 1, w, r)' /\ BwdOK(n, w, r)'
    BY <1>1, <1>3, <1>8, <1>9, OwnQueues, Zenon DEF Early
<1>11. ~(FwdAwaits(n - 1))' /\ pc'[n] = "open"
    <2>1. "open" \in Places /\ "open" # "none" /\ "open" # "request"
        BY <1>1, Zenon
    <2>2. ((FwdAwaits(n - 1))' <=> "open" \in {"none", "request"}) /\ pc'[n] = "open"
        BY <1>9, <2>1, OwnAwaits, Zenon
    <2>3. QED BY <2>1, <2>2, Zenon
<1>12. CASE inq' = Take(inq, Left(n)) /\ buf' = buf
    <2>1. inq'[A] = Tail(inq[A])
        BY <1>4, <1>12, OwnReads, Zenon
    <2>2. FwdOK(n - 1, w, r)'
        BY <1>5, <1>6, <1>11, <2>1, Zenon DEF FwdOK
    <2>3. QED BY <1>1, <1>3, <1>8, <1>9, <1>10, <1>12, <2>2, QuietHandler, Zenon
<1>13. CASE /\ n = 1 /\ Len(inq[Left(n)]) > 1
            /\ buf' = Tail(inq[Left(n)]) /\ inq' = [inq EXCEPT ![Left(n)] = <<>>]
    <2> DEFINE r2 == [r EXCEPT ![A] = w[A]]
    <2>1. /\ r2 \in Flows /\ r2[A] = w[A] /\ \A c \in Conn : c # A => r2[c] = r[c]
        BY <1>3, <1>4, Zenon DEF Flows
    <2> HIDE DEF r2
    <2>2. /\ \A i \in Link : r2[<<i, "L">>] = r[<<i, "L">>]
          /\ \A i \in Link : i # n - 1 => r2[<<i, "R">>] = r[<<i, "R">>]
        BY <2>1, Geometry, Pairs, Zenon
    <2>3. w[A] = 1 /\ sent[App] = 1
        <3>1. n - 1 = 0 /\ Nodes >= 2
            BY <1>13, Geometry
        <3>2. w[A] = sent[App] /\ sent[App] <= 1
            BY <1>1, <1>2, <1>13, <3>1, Zenon DEF BufOK, EndsOK
        <3>3. Len(inq[A]) = w[A] + 1 /\ Len(inq[A]) > 1
            BY <1>3, <1>5, <1>13, Zenon DEF Tagged
        <3>4. QED BY <1>4, <3>2, <3>3
    <2>4. IsRun(buf', 0, 1) /\ Len(buf') = 1
        <3>1. IsRun(buf', 0, 1)
            BY <1>3, <1>6, <1>13, <2>3, Zenon
        <3>2. Len(buf') = 1 - 0
            BY <3>1, Zenon DEF IsRun
        <3>3. QED BY <3>1, <3>2
    <2>5. inq'[A] = <<>>
        BY <1>3, <1>13, Zenon DEF PathType, Queues
    <2>6. FwdOK(n - 1, w, r2)'
        <3>1. IsRun(<<>>, w[A], w[A])
            BY <1>4, ShortFacts, Zenon
        <3>2. QED BY <1>11, <2>1, <2>5, <3>1, Zenon DEF FwdOK
    <2>7. FwdOK(n, w, r2)' /\ BwdOK(n - 1, w, r2)' /\ BwdOK(n, w, r2)'
        <3>1. /\ r2[<<n, "R">>] = r[<<n, "R">>] /\ r2[<<n, "L">>] = r[<<n, "L">>]
              /\ r2[<<n - 1, "L">>] = r[<<n - 1, "L">>]
            BY <1>3, <2>2, Zenon
        <3>2. FwdOK(n, w, r2)'
            BY <1>10, <3>1, Zenon DEF FwdOK, BwdOK
        <3>3. BwdOK(n, w, r2)'
            BY <1>10, <3>1, Zenon DEF FwdOK, BwdOK
        <3>4. BwdOK(n - 1, w, r2)'
            BY <1>10, <3>1, Zenon DEF FwdOK, BwdOK
        <3>5. QED BY <3>2, <3>3, <3>4, Zenon
    <2>8. Bounded(w, r2)'
        <3>1. w[A] <= w[A]
            BY <1>4
        <3>2. QED BY <1>1, <1>2, <2>1, <3>1, Zenon DEF Bounded
    <2>9. NodeOK(n, w, r2)'
        <3>1. pc'[n] = "open"
            BY <1>11, Zenon
        <3>2. r2[Right(n)] = 0 /\ r2[Left(n)] = Len(buf')
            BY <1>2, <1>3, <2>1, <2>2, <2>3, <2>4, Geometry, Zenon DEF EarlyOK
        <3>3. EarlyOK(n, w, r2)'
            BY <1>1, <1>2, <1>13, <3>2, Zenon DEF EarlyOK
        <3>4. QED BY <3>1, <3>3, Zenon DEF NodeOK
    <2>10. Unmade'
        BY <1>1, <1>2, <1>8, Zenon DEF Unmade
    <2>11. BufOK'
        <3>1. pc'[1] # "request"
            BY <1>11, <1>13, Zenon
        <3>2. 1 <= 1
            OBVIOUS
        <3>3. QED BY <1>1, <2>3, <2>4, <3>1, <3>2, Zenon DEF BufOK
    <2>12. Flow(w, r2)'
        <3>1. OwnCounts(n, w, r, w, r2) /\ "open" \in Places /\ (n # 1 => buf' = buf)
            BY <1>1, <1>13, <2>2, Zenon DEF OwnCounts
        <3>2. QED BY <1>9, <2>1, <2>6, <2>7, <2>8, <2>9, <2>10, <2>11, <3>1, HandlerFlow, Zenon
    <2>13. QED BY <2>1, <2>12, Zenon DEF FlowsOn, Frozen
<1>14. QED BY <1>1, <1>12, <1>13, Zenon

\* The answer OK is read: the node behind is copying, and its bytes follow.
LEMMA ResponseFlow ==
    ASSUME PathType, PathInv, NEW w \in Flows, NEW r \in Flows, Flow(w, r), NEW n \in Node,
           ReadResponse(n)
    PROVE  FlowsOn(w)
<1> DEFINE B == <<n, "L">>
<1>1. /\ pc[n] = "sent" /\ pc' = [pc EXCEPT ![n] = "answer"] /\ made' = made /\ shut' = shut
      /\ dead' = dead /\ hold' = hold /\ sent' = sent /\ got' = got /\ ended' = ended
      /\ Right(n) \notin shut /\ inq[Right(n)] # <<>> /\ Head(inq[Right(n)]) = Ok
      /\ inq' = Take(inq, Right(n)) /\ buf' = buf /\ "answer" \in Places
    BY Zenon DEF ReadResponse, Readable, copyVars, endVars, Places
<1>2. n - 1 \in made /\ n \in made /\ Chain /\ BwdOK(n, w, r)
    BY <1>1, Reached, Geometry, Zenon DEF Flow, PathInv, Opened
<1>3. /\ Right(n) = B /\ n \in Link /\ n - 1 \in Link /\ B \in Conn /\ n # n - 1
      /\ n # Nodes => n < Nodes /\ n + 1 \in Node
    <2>1. n # n - 1 /\ (n # Nodes => n < Nodes)
        BY Geometry
    <2>2. QED BY <2>1, Geometry, Neighbours, Zenon
<1>4. inq[B] \in Seq(Int) /\ w[B] \in Nat /\ Ok \in Int /\ Head(<<Fail>>) # Ok
    <2>1. Ok \in Int /\ Head(<<Fail>>) # Ok
        BY DEF Ok, Fail
    <2>2. QED BY <1>3, <2>1, Zenon DEF PathType, Queues, Flows
<1>5. n < Nodes /\ n + 1 \in Node
    BY <1>1, <1>2, <1>3, Zenon DEF Chain
<1>6. r[B] = 0 /\ FirstAnswer(n, w)
    <2>1. BwdAwaits(n)
        <3>1. n # 0
            BY Geometry
        <3>2. QED BY <1>1, <3>1, Zenon DEF BwdAwaits
    <2>2. QED BY <1>1, <1>2, <1>3, <2>1, Zenon DEF BwdOK
<1>7. Tagged(inq[B], Ok, w[B]) /\ pc[n + 1] \in {"copy", "done"}
    <2>1. pc[n + 1] \in Early \/ pc[n + 1] \in {"copy", "done"}
        BY <1>5, Zenon DEF PathType, Places, Early
    <2>2. QED BY <1>1, <1>3, <1>4, <1>6, <2>1, Zenon DEF FirstAnswer
<1>8. IsRun(Tail(inq[B]), 0, w[B])
    BY <1>4, <1>7, TagFacts, Zenon
<1>9. /\ inq'[B] = Tail(inq[B]) /\ \A c \in Conn : c # B => inq'[c] = inq[c]
    BY <1>1, <1>4, OwnReads, Zenon
<1>10. /\ \A i \in Link : inq'[<<i, "R">>] = inq[<<i, "R">>]
       /\ \A i \in Link : i # n => inq'[<<i, "L">>] = inq[<<i, "L">>]
    BY <1>9, Geometry, Pairs, Zenon
<1>11. Turns(n, "answer")
    BY <1>1, <1>2, <1>7, <1>10, Zenon DEF Turns, Early
<1>12. FwdOK(n - 1, w, r)' /\ FwdOK(n, w, r)' /\ BwdOK(n - 1, w, r)'
    BY <1>1, <1>3, <1>10, <1>11, OwnQueues, Zenon DEF Early
<1>13. BwdOK(n, w, r)'
    <2>1. ~(BwdAwaits(n))'
        BY <1>1, <1>11, OwnAwaits, Zenon
    <2>2. QED BY <1>6, <1>8, <1>9, <2>1, Zenon DEF BwdOK
<1>14. QED BY <1>1, <1>2, <1>11, <1>12, <1>13, QuietHandler, Zenon

\* A handler's own links when it has answered: the first byte of the HTTP proxy's reader
\* is written, or nobody will read it.
LEMMA AnswerFlow ==
    ASSUME PathType, PathInv, NEW w \in Flows, NEW r \in Flows, Flow(w, r), NEW n \in Node,
           AnswerOK(n)
    PROVE  FlowsOn(w)
<1> DEFINE A == <<n - 1, "R">>
           B == <<n, "L">>
           L == <<n - 1, "L">>
           R == <<n, "R">>
           q == Put(inq, Left(n), Ok)
           writes == n = 1 /\ buf # <<>> /\ WriteTakes(Right(n))
<1>1. /\ pc[n] = "answer" /\ pc' = [pc EXCEPT ![n] = "copy"] /\ made' = made /\ shut' = shut
      /\ dead' = dead /\ hold' = hold /\ sent' = sent /\ got' = got /\ ended' = ended
      /\ "copy" \in Places /\ WriteTakes(Left(n))
      /\ n = 1 => buf' = <<>>
      /\ n # 1 => buf' = buf
    BY Zenon DEF AnswerOK, endVars, Places
<1>2. /\ writes => inq' = Put(q, Right(n), Head(buf))
      /\ ~writes => inq' = q
    BY Zenon DEF AnswerOK
<1> HIDE DEF q, writes
<1>3. n - 1 \in made /\ Chain /\ Unmade /\ BufOK /\ EarlyOK(n, w, r) /\ FwdOK(n, w, r)
      /\ Bounded(w, r)
    BY <1>1, Reached, Geometry, Zenon DEF Flow, NodeOK, Early
<1>4. /\ Left(n) = A /\ Right(n) = B /\ Peer(A) = L /\ Peer(B) = R
      /\ A \in Conn /\ B \in Conn /\ L \in Conn /\ R \in Conn
      /\ n \in Link /\ n - 1 \in Link /\ n # n - 1
    <2>1. n # n - 1
        BY Geometry
    <2>2. QED BY <2>1, Geometry, Zenon
<1>5. n < Nodes => pc[n + 1] \in {"copy", "done"}
    BY <1>1, <1>3, Zenon DEF Chain
<1>6. n \in made
    <2>1. n > n - 1
        BY Geometry
    <2>2. QED BY <1>1, <1>4, <2>1, Zenon DEF PathInv, Answers, Beyond
<1>7. /\ q \in Queues /\ \A c \in Conn : c # L => q[c] = inq[c]
      /\ L \notin shut => q[L] = Append(inq[L], Ok)
    <2>1. Ok \in Int
        BY DEF Ok
    <2>2. q \in Queues
        BY <1>4, <2>1, PutOne, Zenon DEF q, PathType
    <2>3. QED BY <2>1, <2>2, OwnReads, Zenon DEF q
<1>8. Len(buf) \in Nat /\ Len(buf) <= 1 /\ (buf # <<>> => Len(buf) = 1 /\ Head(buf) = 1)
    <2>1. buf \in Seq(Int) /\ IsRun(buf, 0, Len(buf)) /\ Len(buf) <= 1
        BY <1>3, Zenon DEF PathType, BufOK
    <2>2. Len(buf) \in Nat
        BY <2>1
    <2>3. buf # <<>> => Head(buf) = 0 + 1 /\ 0 + 1 <= Len(buf)
        BY <2>1, <2>2, RunFacts, Zenon
    <2>4. 0 + 1 = 1 /\ \A k \in Nat : k <= 1 /\ 1 <= k => k = 1
        OBVIOUS
    <2>5. QED BY <2>1, <2>2, <2>3, <2>4, Zenon
<1>9. /\ \A c \in Conn : c # L /\ c # R => inq'[c] = inq[c]
      /\ L \notin shut => inq'[L] = Append(inq[L], Ok)
      /\ ~writes => inq'[R] = inq[R]
      /\ writes /\ R \notin shut => inq'[R] = Append(inq[R], 1)
    <2>1. CASE ~writes
        <3>1. L # R
            BY Pairs, Zenon
        <3>2. QED BY <1>2, <1>4, <1>7, <2>1, <3>1, Zenon
    <2>2. CASE writes
        <3>1. L # R /\ Head(buf) = 1 /\ 1 \in Int
            <4>1. L # R /\ 1 \in Int
                OBVIOUS
            <4>2. QED BY <1>8, <2>2, <4>1, Zenon DEF writes
        <3>2. /\ \A c \in Conn : c # R => Put(q, B, 1)[c] = q[c]
              /\ R \notin shut => Put(q, B, 1)[R] = Append(q[R], 1)
            <4>1. /\ \A c \in Conn : c # Peer(B) => Put(q, B, 1)[c] = q[c]
                  /\ Peer(B) \notin shut => Put(q, B, 1)[Peer(B)] = Append(q[Peer(B)], 1)
                <5>1. q \in Queues /\ B \in Conn /\ 1 \in Int
                    BY <1>4, <1>7, <3>1, Zenon
                <5>2. QED BY <5>1, PutOne, Zenon
            <4>2. Peer(B) = R
                BY <1>4, Zenon
            <4>3. QED BY <4>1, <4>2, Zenon
        <3>3. inq' = Put(q, B, 1)
            BY <1>2, <1>4, <2>2, <3>1, Zenon
        <3>4. QED BY <1>4, <1>7, <2>2, <3>1, <3>2, <3>3, Zenon
    <2>3. QED BY <2>1, <2>2, Zenon
<1>10. /\ \A i \in Link : i # n => inq'[<<i, "R">>] = inq[<<i, "R">>]
       /\ \A i \in Link : i # n - 1 => inq'[<<i, "L">>] = inq[<<i, "L">>]
    BY <1>9, Geometry, Pairs, Zenon
<1>11. Turns(n, "copy")
    BY <1>1, <1>3, <1>5, <1>10, Zenon DEF Turns, Early
<1>12. FwdOK(n - 1, w, r)' /\ BwdOK(n, w, r)' /\ (~writes => FwdOK(n, w, r)')
    BY <1>1, <1>4, <1>9, <1>10, <1>11, OwnQueues, Zenon
<1>13. /\ pc'[n] = "copy" /\ ((FwdAwaits(n))' <=> FwdAwaits(n))
       /\ ((BwdAwaits(n - 1))' <=> BwdAwaits(n - 1))
    BY <1>1, <1>11, OwnAwaits, Zenon
<1>14. BwdOK(n - 1, w, r)'
    <2>1. CASE L \notin shut
        <3>1. BwdAwaits(n - 1) /\ inq[L] = <<>> /\ w[L] = 0 /\ r[L] = 0
            BY <1>1, <2>1, Awaited, Zenon DEF Early
        <3>2. Tagged(<<Ok>>, Ok, 0) /\ <<Ok>> = Append(<<>>, Ok)
            BY ShortFacts DEF Ok
        <3>3. inq'[L] = <<Ok>>
            BY <1>9, <2>1, <3>1, <3>2, Zenon
        <3>4. n - 1 + 1 = n /\ n - 1 < Nodes
            BY Geometry
        <3>5. FirstAnswer(n - 1, w)'
            BY <1>13, <3>1, <3>2, <3>3, <3>4, Zenon DEF FirstAnswer, Early
        <3>6. QED BY <1>13, <3>1, <3>5, Zenon DEF BwdOK
    <2>2. CASE L \in shut
        BY <1>1, <2>2, Zenon DEF BwdOK
    <2>3. QED BY <2>1, <2>2, Zenon
<1>15. Unmade'
    BY <1>1, <1>3, <1>6, <1>10, Zenon DEF Unmade
<1>16. BufOK'
    <2>1. pc'[1] = "request" => pc[1] = "request" /\ n # 1
        BY <1>11, <1>13, Geometry, Zenon DEF Turns, PathType
    <2>2. IsRun(<<>>, 0, 0) /\ Len(<<>>) = 0 /\ 0 <= 1 /\ 0 <= sent[App]
        <3>1. sent[App] \in Nat
            BY Zenon DEF PathType, Ends
        <3>2. QED BY <3>1, ShortFacts
    <2>3. CASE n = 1
        BY <1>1, <2>1, <2>2, <2>3, Zenon DEF BufOK
    <2>4. CASE n # 1
        BY <1>1, <1>3, <2>1, <2>4, Zenon DEF BufOK
    <2>5. QED BY <2>3, <2>4, Zenon
\* What the node has read and written so far.
<1>17. /\ \A d \in Dir : hold'[<<n, d>>] = None
       /\ w[L] = 0 /\ w[R] = 0 /\ r[B] = 0 /\ r[A] = IF n = 1 THEN Len(buf) ELSE 0
    BY <1>1, <1>3, <1>4, Geometry, Zenon DEF EarlyOK, Dir
<1>18. /\ Src(n, "fwd") = A /\ Src(n, "bwd") = B /\ To(n, "fwd") = R /\ To(n, "bwd") = L
       /\ Dst(n, "fwd") = B /\ Dst(n, "bwd") = A
    BY Geometry, Zenon
\* The byte of the reader is on its way.
<1>19. CASE writes /\ R \notin shut
    <2> DEFINE w2 == [w EXCEPT ![R] = 1]
    <2>1. /\ w2 \in Flows /\ w2[R] = 1 /\ \A c \in Conn : c # R => w2[c] = w[c]
        BY <1>4, Zenon DEF Flows
    <2> HIDE DEF w2
    <2>2. n = 1 /\ Len(buf) = 1 /\ r[A] = 1
        BY <1>8, <1>17, <1>19, Zenon DEF writes
    <2>3. OwnCounts(n, w, r, w2, r) /\ w2[A] = w[A] /\ w2[B] = w[B] /\ w2[L] = w[L]
        BY <1>4, <2>1, Geometry, Pairs, Zenon DEF OwnCounts
    <2>4. FwdOK(n - 1, w2, r)' /\ BwdOK(n - 1, w2, r)' /\ BwdOK(n, w2, r)'
        <3>1. FirstAnswer(n - 1, w)' => FirstAnswer(n - 1, w2)'
            BY <2>3, Zenon DEF FirstAnswer
        <3>2. FirstAnswer(n, w)' => FirstAnswer(n, w2)'
            BY <2>3, Zenon DEF FirstAnswer
        <3>3. FwdOK(n - 1, w2, r)'
            BY <1>12, <2>3, Zenon DEF FwdOK
        <3>4. BwdOK(n - 1, w2, r)'
            BY <1>14, <2>3, <3>1, Zenon DEF BwdOK
        <3>5. BwdOK(n, w2, r)'
            BY <1>12, <2>3, <3>2, Zenon DEF BwdOK
        <3>6. QED BY <3>3, <3>4, <3>5, Zenon
    <2>5. ~FwdAwaits(n)
        <3>1. n < Nodes
            BY <2>2, Geometry
        <3>2. QED BY <1>5, <3>1, Zenon DEF FwdAwaits
    <2>6. FwdOK(n, w2, r)'
        <3>1. IsRun(inq[R], r[R], 0)
            BY <1>3, <1>17, <1>19, <2>5, Zenon DEF FwdOK
        <3>2. inq[R] \in Seq(Int) /\ r[R] \in Nat /\ 0 \in Nat /\ 0 + 1 = 1
            BY <1>4 DEF PathType, Queues, Flows
        <3>3. IsRun(Append(inq[R], 1), r[R], 1)
            <4>1. IsRun(Append(inq[R], 0 + 1), r[R], 0 + 1)
                BY <3>1, <3>2, RunFacts, Zenon
            <4>2. QED BY <4>1, <3>2, Zenon
        <3>4. QED BY <1>9, <1>13, <1>19, <2>1, <2>5, <3>3, Zenon DEF FwdOK
    <2>7. Bounded(w2, r)'
        <3>1. sent[Source(R)] >= 1 /\ sent[Source(R)] \in Nat
            <4>1. Source(R) = App
                BY Zenon DEF Source
            <4>2. Len(buf) <= sent[App] /\ sent[App] \in Nat
                BY <1>3, Zenon DEF BufOK, PathType, Ends
            <4>3. QED BY <2>2, <4>1, <4>2, Zenon
        <3>2. r[R] <= 1 /\ 1 <= sent[Source(R)]
            <4>1. r[R] <= 0 /\ r[R] \in Nat
                BY <1>3, <1>4, <1>17, Zenon DEF Bounded, Flows
            <4>2. QED BY <3>1, <4>1
        <3>3. QED BY <1>1, <1>3, <2>1, <3>2, Zenon DEF Bounded
    <2>8. NodeOK(n, w2, r)'
        <3>1. \A d \in Dir : r[Src(n, d)] = w2[To(n, d)]
            <4>1. r[Src(n, "fwd")] = w2[To(n, "fwd")]
                BY <1>18, <2>1, <2>2, Zenon
            <4>2. r[Src(n, "bwd")] = w2[To(n, "bwd")]
                BY <1>17, <1>18, <2>3, Zenon
            <4>3. QED BY <4>1, <4>2, Zenon DEF Dir
        <3>2. \A d \in Dir : LoopOK(n, d, w2, r)'
            BY <1>17, <3>1, Zenon DEF LoopOK
        <3>3. QED BY <1>13, <3>2, Zenon DEF NodeOK, Early
    <2>9. Flow(w2, r)'
        BY <1>1, <1>11, <1>15, <1>16, <2>1, <2>3, <2>4, <2>6, <2>7, <2>8, HandlerFlow, Zenon
    <2>10. Frozen(w, w2)
        <3>1. pc[n] \in Early
            BY <1>1, Zenon DEF Early
        <3>2. /\ \A i \in Link : w2[<<i, "L">>] = w[<<i, "L">>]
              /\ \A i \in Link : i # n => w2[<<i, "R">>] = w[<<i, "R">>]
            BY <2>3, Zenon DEF OwnCounts
        <3>3. ASSUME NEW k \in Node, NEW d \in Dir, k # n PROVE w2[To(k, d)] = w[To(k, d)]
            <4>1. To(k, d) = <<k, "R">> \/ To(k, d) = <<k - 1, "L">>
                BY Geometry, Zenon DEF Dir
            <4>2. QED BY <3>2, <3>3, <4>1, Geometry, Zenon
        <3>4. QED BY <3>1, <3>3, Zenon DEF Frozen
    <2>11. QED BY <2>1, <2>9, <2>10, Zenon DEF FlowsOn
\* There is none, or it is lost.
<1>20. CASE ~writes \/ R \in shut
    <2>1. FwdOK(n, w, r)'
        BY <1>1, <1>12, <1>20, Zenon DEF FwdOK
    <2>2. Bounded(w, r)' /\ OwnCounts(n, w, r, w, r)
        BY <1>1, <1>3, Zenon DEF Bounded, OwnCounts
    <2>3. n = 1 /\ buf # <<>> => ~(Passes(n, "fwd"))'
        <3>0. B[1] = n
            OBVIOUS
        <3>1. SUFFICES ASSUME n = 1, buf # <<>>, B \notin shut, R \notin shut, n \notin dead
                       PROVE  FALSE
            BY <1>1, <1>18, <3>0, Zenon DEF Passes
        <3>2. ~FwdAwaits(n)
            <4>1. n < Nodes
                BY <3>1, Geometry
            <4>2. QED BY <1>5, <4>1, Zenon DEF FwdAwaits
        <3>3. IsRun(inq[R], r[R], 0)
            BY <1>3, <1>17, <3>1, <3>2, Zenon DEF FwdOK
        <3>4. r[R] \in Nat
            BY <1>4, Zenon DEF Flows
        <3>5. Len(inq[R]) = 0 - r[R]
            BY <3>3, Zenon DEF IsRun
        <3>6. Len(inq[R]) < Cap
            BY <3>4, <3>5, PathAssumption
        <3>7. QED BY <1>4, <1>20, <3>0, <3>1, <3>6, Zenon DEF writes, WriteTakes
    <2>4. \A d \in Dir : LoopOK(n, d, w, r)'
        <3>1. LoopOK(n, "bwd", w, r)'
            BY <1>17, <1>18, Zenon DEF LoopOK, Dir
        <3>2. LoopOK(n, "fwd", w, r)'
            <4>1. CASE n = 1 /\ buf # <<>>
                BY <2>3, <4>1, Zenon DEF LoopOK
            <4>2. CASE n # 1 \/ buf = <<>>
                <5>1. r[A] = 0
                    <6>1. Len(<<>>) = 0
                        OBVIOUS
                    <6>2. QED BY <1>17, <4>2, <6>1, Zenon
                <5>2. QED BY <1>17, <1>18, <5>1, Zenon DEF LoopOK, Dir
            <4>3. QED BY <4>1, <4>2, Zenon
        <3>3. QED BY <3>1, <3>2, Zenon DEF Dir
    <2>5. NodeOK(n, w, r)'
        BY <1>13, <2>4, Zenon DEF NodeOK, Early
    <2>6. Flow(w, r)'
        BY <1>1, <1>11, <1>12, <1>14, <1>15, <1>16, <2>1, <2>2, <2>5, HandlerFlow, Zenon
    <2>7. QED BY <2>6, Zenon DEF FlowsOn, Frozen
<1>21. QED BY <1>19, <1>20, Zenon

-----------------------------------------------------------------------------
(* What is delivered: the loops, the ends and the links.                   *)

\* No two loops read or write the same conn, and the ends have theirs to themselves.
LEMMA Distinct ==
    /\ \A k \in Node, n \in Node, e \in Dir, d \in Dir : <<k, e>> # <<n, d>> =>
           To(k, e) # To(n, d) /\ Src(k, e) # Src(n, d)
    /\ \A n \in Node, d \in Dir :
           /\ To(n, d) \in Conn /\ Src(n, d) \in Conn /\ Dst(n, d) \in Conn
           /\ To(n, d) = Peer(Dst(n, d)) /\ Source(Src(n, d)) = Source(To(n, d))
           /\ To(n, d) # <<0, "R">> /\ To(n, d) # <<Nodes, "L">>
           /\ Src(n, d) # App /\ Src(n, d) # Target
           /\ To(n, d) = App => n = 1
           /\ To(n, d) # Src(n, d)
<1>1. ASSUME NEW k \in Node, NEW n \in Node, NEW e \in Dir, NEW d \in Dir, <<k, e>> # <<n, d>>
      PROVE  To(k, e) # To(n, d) /\ Src(k, e) # Src(n, d)
    <2>1. (k \in Int /\ n \in Int) /\ (e = "fwd" \/ e = "bwd") /\ (d = "fwd" \/ d = "bwd")
        BY Geometry, Zenon DEF Dir
    <2>2. /\ To(k, e) = IF e = "fwd" THEN <<k, "R">> ELSE <<k - 1, "L">>
          /\ To(n, d) = IF d = "fwd" THEN <<n, "R">> ELSE <<n - 1, "L">>
          /\ Src(k, e) = IF e = "fwd" THEN <<k - 1, "R">> ELSE <<k, "L">>
          /\ Src(n, d) = IF d = "fwd" THEN <<n - 1, "R">> ELSE <<n, "L">>
        BY <2>1, Geometry, Zenon
    <2>3. QED BY <1>1, <2>1, <2>2
<1>2. ASSUME NEW n \in Node, NEW d \in Dir
      PROVE  /\ To(n, d) \in Conn /\ Src(n, d) \in Conn /\ Dst(n, d) \in Conn
             /\ To(n, d) = Peer(Dst(n, d)) /\ Source(Src(n, d)) = Source(To(n, d))
             /\ To(n, d) # <<0, "R">> /\ To(n, d) # <<Nodes, "L">>
             /\ Src(n, d) # App /\ Src(n, d) # Target
             /\ To(n, d) = App => n = 1
             /\ To(n, d) # Src(n, d)
    <2>1. To(n, d) = Peer(Dst(n, d))
        BY Zenon DEF To
    <2>2. /\ n \in Int /\ 1 <= n /\ n <= Nodes /\ Nodes \in Int
          /\ App = <<0, "L">> /\ Target = <<Nodes, "R">> /\ n \in Link /\ n - 1 \in Link
        BY Geometry, Zenon
    <2>3. CASE d = "fwd"
        <3>1. To(n, d) = <<n, "R">> /\ Src(n, d) = <<n - 1, "R">> /\ Dst(n, d) = <<n, "L">>
            BY <2>3, Geometry, Zenon
        <3>2. QED BY <2>1, <2>2, <3>1 DEF Source, Conn
    <2>4. CASE d = "bwd"
        <3>1. To(n, d) = <<n - 1, "L">> /\ Src(n, d) = <<n, "L">> /\ Dst(n, d) = <<n - 1, "R">>
            BY <2>4, Geometry, Zenon
        <3>2. QED BY <2>1, <2>2, <3>1 DEF Source, Conn
    <2>5. QED BY <2>3, <2>4, Zenon DEF Dir
<1>3. QED BY <1>1, <1>2, Zenon

\* The node behind a conn that a loop reads or writes.
LEMMA PlaceOf ==
    ASSUME NEW n \in Node, NEW d \in Dir, NEW i
    PROVE  /\ Src(n, d) = <<i, "R">> => i + 1 = n
           /\ Src(n, d) = <<i, "L">> => i = n
           /\ To(n, d) = <<i, "R">> => i = n
           /\ To(n, d) = <<i, "L">> => i + 1 = n
<1>1. n \in Int /\ (d = "fwd" \/ d = "bwd")
    BY Geometry, Zenon DEF Dir
<1>2. /\ To(n, d) = IF d = "fwd" THEN <<n, "R">> ELSE <<n - 1, "L">>
      /\ Src(n, d) = IF d = "fwd" THEN <<n - 1, "R">> ELSE <<n, "L">>
    BY <1>1, Geometry, Zenon
<1>3. QED BY <1>1, <1>2

\* No handler moves; closes, resets and returns only add up.
Stays ==
    /\ pc' = pc /\ made' = made
    /\ shut \subseteq shut' /\ dead \subseteq dead' /\ ended \subseteq ended'

\* One conn's queue and counts change.
OneConn(c, w, r, w2, r2) ==
    \A e \in Conn : e # c => inq'[e] = inq[e] /\ w2[e] = w[e] /\ r2[e] = r[e]

\* A step that concerns one conn keeps the flow of all other links.
LEMMA LinksFlow ==
    ASSUME NEW w \in Flows, NEW r \in Flows, NEW w2 \in Flows, NEW r2 \in Flows, NEW c \in Conn,
           Flow(w, r), Stays, OneConn(c, w, r, w2, r2),
           c # App => (got'[App] = <<>> <=> got[App] = <<>>),
           \A i \in Link : c = <<i, "R">> => FwdOK(i, w2, r2)',
           \A i \in Link : c = <<i, "L">> => BwdOK(i, w2, r2)'
    PROVE  \A i \in Link : FwdOK(i, w2, r2)' /\ BwdOK(i, w2, r2)'
<1>1. ASSUME NEW i \in Link, c # <<i, "R">> PROVE FwdOK(i, w2, r2)'
    <2>1. (FwdAwaits(i))' <=> FwdAwaits(i)
        BY Zenon DEF FwdAwaits, Stays
    <2>2. /\ inq'[<<i, "R">>] = inq[<<i, "R">>] /\ w2[<<i, "R">>] = w[<<i, "R">>]
          /\ r2[<<i, "R">>] = r[<<i, "R">>]
        BY <1>1, Geometry, Zenon DEF OneConn
    <2>3. FwdOK(i, w, r) /\ shut \subseteq shut'
        BY Zenon DEF Flow, Stays
    <2>4. QED BY <2>1, <2>2, <2>3, Zenon DEF FwdOK
<1>2. ASSUME NEW i \in Link, c # <<i, "L">> PROVE BwdOK(i, w2, r2)'
    <2>1. (BwdAwaits(i))' <=> BwdAwaits(i)
        <3>1. i = 0 => c # App
            BY <1>2, Geometry, Zenon
        <3>2. QED BY <3>1, Zenon DEF BwdAwaits, Stays
    <2>2. /\ inq'[<<i, "L">>] = inq[<<i, "L">>] /\ w2[<<i, "L">>] = w[<<i, "L">>]
          /\ r2[<<i, "L">>] = r[<<i, "L">>]
        BY <1>2, Geometry, Zenon DEF OneConn
    <2>3. BwdOK(i, w, r) /\ shut \subseteq shut'
        BY Zenon DEF Flow, Stays
    <2>4. FirstAnswer(i, w) => FirstAnswer(i, w2)'
        BY <2>2, Zenon DEF FirstAnswer, Stays
    <2>5. QED BY <2>1, <2>2, <2>3, <2>4, Zenon DEF BwdOK
<1>3. QED BY <1>1, <1>2, Zenon

\* Loops outside S neither read nor write.
OwnLoops(S, w, r, w2, r2) ==
    \A k \in Node, e \in Dir : <<k, e>> \notin S =>
        hold'[<<k, e>>] = hold[<<k, e>>] /\ w2[To(k, e)] = w[To(k, e)] /\ r2[Src(k, e)] = r[Src(k, e)]

\* A step that concerns the loops S keeps the account of all others.
LEMMA NodesFlow ==
    ASSUME NEW w \in Flows, NEW r \in Flows, NEW w2 \in Flows, NEW r2 \in Flows, NEW S,
           Flow(w, r), Stays, buf' = buf, OwnLoops(S, w, r, w2, r2),
           \A k \in Node, e \in Dir : <<k, e>> \in S => pc[k] = "copy" /\ LoopOK(k, e, w2, r2)'
    PROVE  \A k \in Node : NodeOK(k, w2, r2)'
<1> SUFFICES ASSUME NEW k \in Node PROVE NodeOK(k, w2, r2)'
    OBVIOUS
<1>1. NodeOK(k, w, r) /\ pc' = pc
    BY Zenon DEF Flow, Stays
<1>2. ASSUME pc[k] \in Early PROVE EarlyOK(k, w2, r2)'
    <2>1. EarlyOK(k, w, r) /\ pc[k] # "copy"
        BY <1>1, <1>2, Zenon DEF NodeOK, Early
    <2>2. \A e \in Dir : /\ hold'[<<k, e>>] = hold[<<k, e>>] /\ w2[To(k, e)] = w[To(k, e)]
                         /\ r2[Src(k, e)] = r[Src(k, e)]
        BY <2>1, Zenon DEF OwnLoops
    <2>3. r2[Left(k)] = r[Left(k)] /\ r2[Right(k)] = r[Right(k)]
        BY <2>2, Geometry, Zenon DEF Dir
    <2>4. QED BY <2>1, <2>2, <2>3, Zenon DEF EarlyOK
<1>3. ASSUME pc[k] = "copy", NEW e \in Dir PROVE LoopOK(k, e, w2, r2)'
    <2>1. CASE <<k, e>> \in S
        BY <2>1, Zenon
    <2>2. CASE <<k, e>> \notin S
        <3>1. LoopOK(k, e, w, r)
            BY <1>1, <1>3, Zenon DEF NodeOK
        <3>2. /\ hold'[<<k, e>>] = hold[<<k, e>>] /\ w2[To(k, e)] = w[To(k, e)]
              /\ r2[Src(k, e)] = r[Src(k, e)]
            BY <2>2, Zenon DEF OwnLoops
        <3>3. (Passes(k, e))' => Passes(k, e)
            BY Zenon DEF Passes, Stays
        <3>4. QED BY <3>1, <3>2, <3>3, Zenon DEF LoopOK
    <2>3. QED BY <2>1, <2>2, Zenon
<1>4. QED BY <1>1, <1>2, <1>3, Zenon DEF NodeOK

\* What is left of the invariant.
LEMMA RestFlow ==
    ASSUME NEW w \in Flows, NEW r \in Flows, NEW w2 \in Flows, NEW r2 \in Flows, NEW c \in Conn,
           PathType, Flow(w, r), Stays, OneConn(c, w, r, w2, r2), c[1] \in made,
           r2[c] <= w2[c], w2[c] <= sent'[Source(c)],
           \A e \in Ends : sent[e] \in Nat /\ sent'[e] \in Nat /\ sent[e] <= sent'[e]
    PROVE  Bounded(w2, r2)' /\ Unmade'
<1>1. Bounded(w, r) /\ Unmade
    BY Zenon DEF Flow
<1>2. ASSUME NEW e \in Conn PROVE r2[e] <= w2[e] /\ w2[e] <= sent'[Source(e)]
    <2>1. CASE e = c
        BY <2>1, Zenon
    <2>2. CASE e # c
        <3>1. r2[e] = r[e] /\ w2[e] = w[e] /\ r[e] <= w[e] /\ w[e] <= sent[Source(e)]
            BY <1>1, <2>2, Zenon DEF OneConn, Bounded
        <3>2. Source(e) \in Ends /\ w[e] \in Nat
            BY Zenon DEF Source, Ends, Flows
        <3>3. w[e] <= sent'[Source(e)]
            <4>1. sent[Source(e)] \in Nat /\ sent'[Source(e)] \in Nat
                  /\ sent[Source(e)] <= sent'[Source(e)]
                BY <3>2, Zenon
            <4>2. \A x \in Nat, y \in Nat, z \in Nat : x <= y /\ y <= z => x <= z
                OBVIOUS
            <4>3. QED BY <3>1, <3>2, <4>1, <4>2, Zenon
        <3>4. QED BY <3>1, <3>3, Zenon
    <2>3. QED BY <2>1, <2>2, Zenon
<1>3. ASSUME NEW i \in Link, i \notin made'
      PROVE  inq'[<<i, "L">>] = <<>> /\ inq'[<<i, "R">>] = <<>>
    <2>1. i \notin made
        BY <1>3, Zenon DEF Stays
    <2>2. c # <<i, "L">> /\ c # <<i, "R">>
        BY <2>1
    <2>3. QED BY <1>1, <2>1, <2>2, Geometry, Zenon DEF OneConn, Unmade
<1>4. QED BY <1>2, <1>3, Zenon DEF Bounded, Unmade

\* What a conn reads, apart from a request or the answer, is a run.
LEMMA SrcRuns ==
    ASSUME PathType, NEW w \in Flows, NEW r \in Flows, Flow(w, r), NEW n \in Node, NEW d \in Dir,
           pc[n] = "copy", Src(n, d) \notin shut
    PROVE  IsRun(inq[Src(n, d)], r[Src(n, d)], w[Src(n, d)])
<1>1. CASE d = "fwd"
    <2>1. Src(n, d) = <<n - 1, "R">> /\ n - 1 \in Link /\ n - 1 + 1 = n
        BY <1>1, Geometry, Neighbours, Zenon
    <2>2. ~FwdAwaits(n - 1)
        BY <2>1, Zenon DEF FwdAwaits
    <2>3. QED BY <2>1, <2>2, Zenon DEF Flow, FwdOK
<1>2. CASE d = "bwd"
    <2>1. Src(n, d) = <<n, "L">> /\ n \in Link
        BY <1>2, Geometry, Zenon
    <2>2. ~BwdAwaits(n)
        <3>1. n # 0
            BY Geometry
        <3>2. QED BY <3>1, Zenon DEF BwdAwaits
    <2>3. QED BY <2>1, <2>2, Zenon DEF Flow, BwdOK
<1>3. QED BY <1>1, <1>2, Zenon DEF Dir

\* A byte of a run is read from conn c.
LEMMA ReadsRun ==
    ASSUME PathType, NEW w \in Flows, NEW r \in Flows, Bounded(w, r), NEW c \in Conn,
           inq[c] # <<>>, IsRun(inq[c], r[c], w[c]), inq' = Take(inq, c)
    PROVE  \E r2 \in Flows :
               /\ r2[c] = r[c] + 1 /\ Head(inq[c]) = r[c] + 1 /\ r2[c] <= w[c]
               /\ IsRun(inq'[c], r2[c], w[c]) /\ OneConn(c, w, r, w, r2)
<1> DEFINE r2 == [r EXCEPT ![c] = r[c] + 1]
<1>1. /\ inq \in Queues /\ inq[c] \in Seq(Int) /\ r[c] \in Nat /\ w[c] \in Nat /\ r[c] + 1 \in Nat
    BY DEF PathType, Queues, Flows
<1>2. r2 \in Flows /\ r2[c] = r[c] + 1 /\ \A e \in Conn : e # c => r2[e] = r[e]
    BY <1>1, Zenon DEF Flows
<1> HIDE DEF r2
<1>3. Head(inq[c]) = r[c] + 1 /\ IsRun(Tail(inq[c]), r[c] + 1, w[c]) /\ r[c] + 1 <= w[c]
    BY <1>1, RunFacts, Zenon
<1>4. /\ inq'[c] = Tail(inq[c]) /\ \A e \in Conn : e # c => inq'[e] = inq[e]
    BY <1>1, TakeOne, Zenon
<1>5. OneConn(c, w, r, w, r2)
    BY <1>2, <1>4, Zenon DEF OneConn
<1>6. QED BY <1>2, <1>3, <1>4, <1>5, Zenon

\* The parts of EndsOK that a loop leaves alone.
LEMMA LoopEnds ==
    ASSUME NEW w \in Flows, NEW r \in Flows, NEW w2 \in Flows, NEW r2 \in Flows,
           NEW n \in Node, NEW d \in Dir, EndsOK(w, r), pc[n] = "copy", pc' = pc,
           sent' = sent, got' = got,
           NEW c \in {To(n, d), Src(n, d)}, OneConn(c, w, r, w2, r2),
           c = Src(n, d) => w2[c] = w[c], c = To(n, d) => r2[c] = r[c]
    PROVE  EndsOK(w2, r2)'
<1>0. /\ \A e \in Conn : e # To(n, d) => w2[e] = w[e]
      /\ \A e \in Conn : e # Src(n, d) => r2[e] = r[e]
    BY Zenon DEF OneConn
<1>1. /\ w2[<<0, "R">>] = w[<<0, "R">>] /\ w2[<<Nodes, "L">>] = w[<<Nodes, "L">>]
      /\ r2[App] = r[App] /\ r2[Target] = r[Target]
      /\ pc[1] = "done" => w2[App] = w[App]
    <2>1. <<0, "R">> \in Conn /\ <<Nodes, "L">> \in Conn /\ App \in Conn /\ Target \in Conn
        BY Geometry, ConnFacts, Zenon
    <2>2. pc[1] = "done" => To(n, d) # App
        BY Distinct, Zenon
    <2>3. QED BY <1>0, <2>1, <2>2, Distinct, Zenon
<1>2. QED BY <1>1, Zenon DEF EndsOK

\* A copy loop reads a chunk.
LEMMA CopyReadFlow ==
    ASSUME PathType, NEW w \in Flows, NEW r \in Flows, Flow(w, r), NEW n \in Node, NEW d \in Dir,
           CopyRead(n, d)
    PROVE  FlowsOn(w)
<1> DEFINE c == Src(n, d)
<1>1. /\ pc[n] = "copy" /\ hold[<<n, d>>] = None /\ c \notin shut /\ inq[c] # <<>>
      /\ inq' = Take(inq, c) /\ hold' = [hold EXCEPT ![<<n, d>>] = Head(inq[c])]
      /\ Stays /\ buf' = buf /\ sent' = sent /\ got' = got /\ pc' = pc
    BY Zenon DEF CopyRead, Copying, Readable, endVars, Stays
<1>2. Bounded(w, r) /\ Chain /\ Unmade /\ BufOK /\ EndsOK(w, r) /\ NodeOK(n, w, r)
    BY Zenon DEF Flow
<1>3. /\ c \in Conn /\ To(n, d) \in Conn /\ c # App
    BY Distinct, Zenon
<1> HIDE DEF c
<1>4. IsRun(inq[c], r[c], w[c])
    BY <1>1, SrcRuns, Zenon DEF c
<1>5. PICK r2 \in Flows :
          /\ r2[c] = r[c] + 1 /\ Head(inq[c]) = r[c] + 1 /\ r2[c] <= w[c]
          /\ IsRun(inq'[c], r2[c], w[c]) /\ OneConn(c, w, r, w, r2)
    BY <1>1, <1>2, <1>3, <1>4, ReadsRun, Zenon
<1>6. \A i \in Link : FwdOK(i, w, r2)' /\ BwdOK(i, w, r2)'
    <2>1. ASSUME NEW i \in Link, c = <<i, "R">> PROVE FwdOK(i, w, r2)'
        <3>1. ~(FwdAwaits(i))'
            <4>1. i + 1 = n
                BY <2>1, PlaceOf, Zenon DEF c
            <4>2. QED BY <1>1, <4>1, Zenon DEF FwdAwaits
        <3>2. QED BY <1>5, <2>1, <3>1, Zenon DEF FwdOK
    <2>2. ASSUME NEW i \in Link, c = <<i, "L">> PROVE BwdOK(i, w, r2)'
        <3>1. ~(BwdAwaits(i))'
            <4>1. i = n
                BY <2>2, PlaceOf, Zenon DEF c
            <4>2. n # 0
                BY Geometry
            <4>3. QED BY <1>1, <4>1, <4>2, Zenon DEF BwdAwaits
        <3>2. QED BY <1>5, <2>2, <3>1, Zenon DEF BwdOK
    <2>3. QED BY <1>1, <1>3, <1>5, <2>1, <2>2, LinksFlow, Zenon
<1>7. Bounded(w, r2)' /\ Unmade'
    <2>1. c[1] \in made
        <3>1. PICK i \in Link : c = <<i, "L">> \/ c = <<i, "R">>
            BY <1>3 DEF Conn
        <3>2. i \in made
            BY <1>1, <1>2, <3>1, Zenon DEF Unmade
        <3>3. c[1] = i
            BY <3>1
        <3>4. QED BY <3>2, <3>3, Zenon
    <2>2. \A e \in Ends : sent[e] \in Nat /\ sent'[e] \in Nat /\ sent[e] <= sent'[e]
        BY <1>1 DEF PathType
    <2>3. w[c] <= sent'[Source(c)]
        BY <1>1, <1>2, <1>3, Zenon DEF Bounded
    <2>4. QED BY <1>1, <1>3, <1>5, <2>1, <2>2, <2>3, RestFlow, Zenon
<1>8. \A k \in Node : NodeOK(k, w, r2)'
    <2>1. OwnLoops({<<n, d>>}, w, r, w, r2)
        <3>1. ASSUME NEW k \in Node, NEW e \in Dir, <<k, e>> # <<n, d>>
              PROVE  hold'[<<k, e>>] = hold[<<k, e>>] /\ r2[Src(k, e)] = r[Src(k, e)]
            <4>1. hold'[<<k, e>>] = hold[<<k, e>>]
                BY <1>1, <3>1, Zenon DEF PathType
            <4>2. Src(k, e) # c /\ Src(k, e) \in Conn
                BY <3>1, Distinct, Zenon DEF c
            <4>3. QED BY <1>5, <4>1, <4>2, Zenon DEF OneConn
        <3>2. QED BY <3>1, Zenon DEF OwnLoops
    <2>2. LoopOK(n, d, w, r2)'
        <3>1. hold'[<<n, d>>] = r[c] + 1
            <4>1. <<n, d>> \in Node \X Dir
                OBVIOUS
            <4>2. QED BY <1>1, <1>5, <4>1, Zenon DEF PathType
        <3>2. (Passes(n, d))' => Passes(n, d)
            BY <1>1, Zenon DEF Passes, Stays
        <3>3. Passes(n, d) => r[c] = w[To(n, d)]
            <4>1. LoopOK(n, d, w, r) /\ w[To(n, d)] \in Nat
                BY <1>1, <1>2, <1>3, Zenon DEF NodeOK, Flows
            <4>2. \A x \in Nat : x + 1 # None
                BY DEF None
            <4>3. QED BY <1>1, <4>1, <4>2, Zenon DEF LoopOK, c
        <3>4. QED BY <1>5, <3>1, <3>2, <3>3, Zenon DEF LoopOK, c
    <2>3. \A k \in Node, e \in Dir : <<k, e>> \in {<<n, d>>} => k = n /\ e = d
        OBVIOUS
    <2>4. \A k \in Node, e \in Dir : <<k, e>> \in {<<n, d>>}
              => pc[k] = "copy" /\ LoopOK(k, e, w, r2)'
        BY <1>1, <2>2, <2>3, Zenon
    <2>5. QED BY <1>1, <2>1, <2>4, NodesFlow, Zenon
<1>9. EndsOK(w, r2)'
    <2>1. c \in {To(n, d), Src(n, d)} /\ (c = To(n, d) => r2[c] = r[c]) /\ w[c] = w[c]
        <3>1. c # To(n, d)
            BY Distinct, Zenon DEF c
        <3>2. QED BY <3>1, Zenon DEF c
    <2>2. QED BY <1>1, <1>2, <1>5, <2>1, LoopEnds, Zenon
<1>10. Chain' /\ BufOK'
    BY <1>1, <1>2, Zenon DEF Chain, BufOK, Stays
<1>11. Flow(w, r2)'
    BY <1>6, <1>7, <1>8, <1>9, <1>10, Zenon DEF Flow
<1>12. QED BY <1>11, Zenon DEF FlowsOn, Frozen

\* The next byte of a run is written for conn c.
LEMMA WritesRun ==
    ASSUME PathType, NEW w \in Flows, NEW r \in Flows, Bounded(w, r), NEW c \in Conn, NEW x \in Conn,
           c = Peer(x), inq' = Put(inq, x, w[c] + 1)
    PROVE  \E w2 \in Flows :
               /\ w2[c] = w[c] + 1 /\ r[c] <= w2[c] /\ OneConn(c, w, r, w2, r)
               /\ c \notin shut => inq'[c] = Append(inq[c], w[c] + 1)
<1> DEFINE w2 == [w EXCEPT ![c] = w[c] + 1]
<1>1. inq \in Queues /\ r[c] \in Nat /\ w[c] \in Nat /\ w[c] + 1 \in Nat /\ w[c] + 1 \in Int
    BY DEF PathType, Queues, Flows
<1>2. w2 \in Flows /\ w2[c] = w[c] + 1 /\ \A e \in Conn : e # c => w2[e] = w[e]
    BY <1>1, Zenon DEF Flows
<1> HIDE DEF w2
<1>3. r[c] <= w[c] + 1
    <2>1. r[c] <= w[c]
        BY Zenon DEF Bounded
    <2>2. QED BY <1>1, <2>1
<1>4. /\ \A e \in Conn : e # c => inq'[e] = inq[e]
      /\ c \notin shut => inq'[c] = Append(inq[c], w[c] + 1)
    <2>1. /\ \A e \in Conn : e # Peer(x) => Put(inq, x, w[c] + 1)[e] = inq[e]
          /\ Peer(x) \notin shut =>
                 Put(inq, x, w[c] + 1)[Peer(x)] = Append(inq[Peer(x)], w[c] + 1)
        BY <1>1, PutOne, Zenon
    <2>2. QED BY <2>1, Zenon
<1>5. OneConn(c, w, r, w2, r)
    BY <1>2, <1>4, Zenon DEF OneConn
<1>6. QED BY <1>2, <1>3, <1>4, <1>5, Zenon

\* A loop hands on what it read: to a run, or behind an answer that was not read yet.
LEMMA CopyWriteFlow ==
    ASSUME PathType, PathInv, NEW w \in Flows, NEW r \in Flows, Flow(w, r),
           NEW n \in Node, NEW d \in Dir, CopyWrite(n, d)
    PROVE  FlowsOn(w)
<1> DEFINE c == To(n, d)
           x == Dst(n, d)
<1>1. /\ pc[n] = "copy" /\ <<n, d>> \notin ended /\ hold[<<n, d>>] # None
      /\ x \notin shut /\ x[1] \notin dead
      /\ inq' = Put(inq, x, hold[<<n, d>>]) /\ hold' = [hold EXCEPT ![<<n, d>>] = None]
      /\ Stays /\ buf' = buf /\ sent' = sent /\ got' = got /\ pc' = pc /\ shut' = shut
      /\ ended' = ended
    BY Zenon DEF CopyWrite, Copying, WriteTakes, endVars, Stays
<1>2. Bounded(w, r) /\ Chain /\ Unmade /\ BufOK /\ EndsOK(w, r) /\ NodeOK(n, w, r)
    BY Zenon DEF Flow
<1>3. /\ c \in Conn /\ x \in Conn /\ c = Peer(x) /\ c # Src(n, d) /\ Src(n, d) \in Conn
      /\ Source(Src(n, d)) = Source(c) /\ c \in {To(n, d), Src(n, d)}
    BY Distinct, Zenon
<1>4. c[1] \in made
    <2>1. n \in made
        <3>1. n > n - 1 /\ n \in Link
            BY Geometry
        <3>2. QED BY <1>1, <3>1, Zenon DEF PathInv, Answers, Beyond
    <2>2. n - 1 \in made
        BY <1>1, <1>2, Reached, Zenon
    <2>3. c = <<n, "R">> \/ c = <<n - 1, "L">>
        BY Geometry, Zenon DEF Dir
    <2>4. c[1] = n \/ c[1] = n - 1
        BY <2>3
    <2>5. QED BY <2>1, <2>2, <2>4, Zenon
<1>5. \A e \in Ends : sent[e] \in Nat /\ sent'[e] \in Nat /\ sent[e] <= sent'[e]
    BY <1>1 DEF PathType
<1>6. /\ hold'[<<n, d>>] = None
      /\ \A k \in Node, e \in Dir : <<k, e>> # <<n, d>> => hold'[<<k, e>>] = hold[<<k, e>>]
      /\ \A k \in Node, e \in Dir : <<k, e>> \in {<<n, d>>} => k = n /\ e = d
      /\ hold[<<n, d>>] \in Int
    BY <1>1, Zenon DEF PathType
<1>7. Chain' /\ BufOK'
    BY <1>1, <1>2, Zenon DEF Chain, BufOK, Stays
<1>8. (c # App => (got'[App] = <<>> <=> got[App] = <<>>)) /\ (\A k, e : <<k, e>> \notin {<<n, d>>} => <<k, e>> # <<n, d>>)
    BY <1>1, Zenon
<1> HIDE DEF c, x
\* The reader has closed: the byte is lost.
<1>9. CASE c \in shut
    <2>1. OneConn(c, w, r, w, r)
        <3>1. inq \in Queues
            BY Zenon DEF PathType
        <3>2. \A e \in Conn : e # Peer(x) => Put(inq, x, hold[<<n, d>>])[e] = inq[e]
            BY <1>3, <1>6, <3>1, PutOne, Zenon
        <3>3. QED BY <1>1, <1>3, <3>2, Zenon DEF OneConn
    <2>2. \A i \in Link : FwdOK(i, w, r)' /\ BwdOK(i, w, r)'
        <3>1. \A i \in Link : c = <<i, "R">> => FwdOK(i, w, r)'
            BY <1>1, <1>9, Zenon DEF FwdOK
        <3>2. \A i \in Link : c = <<i, "L">> => BwdOK(i, w, r)'
            BY <1>1, <1>9, Zenon DEF BwdOK
        <3>3. QED BY <1>1, <1>3, <1>8, <2>1, <3>1, <3>2, LinksFlow, Zenon
    <2>3. Bounded(w, r)' /\ Unmade'
        <3>1. r[c] <= w[c] /\ w[c] <= sent'[Source(c)]
            BY <1>1, <1>2, <1>3, Zenon DEF Bounded
        <3>2. QED BY <1>1, <1>3, <1>4, <1>5, <2>1, <3>1, RestFlow, Zenon
    <2>4. \A k \in Node : NodeOK(k, w, r)'
        <3>1. OwnLoops({<<n, d>>}, w, r, w, r)
            BY <1>6, <1>8, Zenon DEF OwnLoops
        <3>2. LoopOK(n, d, w, r)'
            BY <1>1, <1>9, Zenon DEF LoopOK, Passes, c
        <3>3. \A k \in Node, e \in Dir : <<k, e>> \in {<<n, d>>}
                  => pc[k] = "copy" /\ LoopOK(k, e, w, r)'
            BY <1>1, <1>6, <3>2, Zenon
        <3>4. QED BY <1>1, <3>1, <3>3, NodesFlow, Zenon
    <2>5. EndsOK(w, r)'
        BY <1>1, <1>2, Zenon DEF EndsOK
    <2>6. Flow(w, r)'
        BY <1>7, <2>2, <2>3, <2>4, <2>5, Zenon DEF Flow
    <2>7. QED BY <2>6, Zenon DEF FlowsOn, Frozen
\* The reader will read it.
<1>10. CASE c \notin shut
    <2>1. hold[<<n, d>>] = w[c] + 1 /\ r[Src(n, d)] = w[c] + 1
        <3>1. LoopOK(n, d, w, r)
            BY <1>1, <1>2, Zenon DEF NodeOK
        <3>2. Passes(n, d)
            BY <1>1, <1>10, Zenon DEF Passes, c, x
        <3>3. QED BY <1>1, <3>1, <3>2, Zenon DEF LoopOK, c
    <2>2. PICK w2 \in Flows :
              /\ w2[c] = w[c] + 1 /\ r[c] <= w2[c] /\ OneConn(c, w, r, w2, r)
              /\ c \notin shut => inq'[c] = Append(inq[c], w[c] + 1)
        BY <1>1, <1>2, <1>3, <2>1, WritesRun, Zenon
    <2>3. /\ inq'[c] = Append(inq[c], w[c] + 1) /\ inq[c] \in Seq(Int)
          /\ w[c] \in Nat /\ r[c] \in Nat /\ Ok \in Int
        <3>1. Ok \in Int
            BY DEF Ok
        <3>2. QED BY <1>3, <1>10, <2>2, <3>1, Zenon DEF PathType, Queues, Flows
    <2>4. IsRun(inq[c], r[c], w[c]) => IsRun(inq'[c], r[c], w2[c])
        <3>1. IsRun(inq[c], r[c], w[c]) => IsRun(Append(inq[c], w[c] + 1), r[c], w[c] + 1)
            BY <2>3, RunFacts, Zenon
        <3>2. QED BY <2>2, <2>3, <3>1, Zenon
    <2>5. Tagged(inq[c], Ok, w[c]) => Tagged(inq'[c], Ok, w2[c])
        BY <2>2, <2>3, TagFacts, Zenon
    <2>6. ASSUME NEW i \in Link, c = <<i, "R">> PROVE FwdOK(i, w2, r)'
        <3>1. i = n
            BY <2>6, PlaceOf, Zenon DEF c
        <3>2. ~FwdAwaits(i)
            BY <1>1, <1>2, <3>1, Zenon DEF FwdAwaits, Chain
        <3>3. FwdOK(i, w, r) /\ ~(FwdAwaits(i))'
            BY <1>1, <3>2, Zenon DEF Flow, FwdAwaits
        <3>4. QED BY <1>10, <2>4, <2>6, <3>2, <3>3, Zenon DEF FwdOK
    <2>7. ASSUME NEW i \in Link, c = <<i, "L">> PROVE BwdOK(i, w2, r)'
        <3>1. i + 1 = n
            BY <2>7, PlaceOf, Zenon DEF c
        <3>2. BwdOK(i, w, r) /\ ((BwdAwaits(i))' <=> BwdAwaits(i))
            BY <1>1, Zenon DEF Flow, BwdAwaits
        <3>3. FirstAnswer(i, w) => FirstAnswer(i, w2)'
            BY <1>1, <2>5, <2>7, <3>1, Zenon DEF FirstAnswer, Early
        <3>4. QED BY <1>10, <2>4, <2>7, <3>2, <3>3, Zenon DEF BwdOK
    <2>8. \A i \in Link : FwdOK(i, w2, r)' /\ BwdOK(i, w2, r)'
        BY <1>1, <1>3, <1>8, <2>2, <2>6, <2>7, LinksFlow, Zenon
    <2>9. Bounded(w2, r)' /\ Unmade'
        <3>1. w2[c] <= sent'[Source(c)]
            <4>1. /\ w2[c] = r[Src(n, d)] /\ r[Src(n, d)] <= w[Src(n, d)]
                  /\ w[Src(n, d)] <= sent[Source(c)] /\ sent' = sent
                BY <1>1, <1>2, <1>3, <2>1, <2>2, Zenon DEF Bounded
            <4>2. r[Src(n, d)] \in Nat /\ w[Src(n, d)] \in Nat /\ sent[Source(c)] \in Nat
                BY <1>3, <1>5, Zenon DEF Flows, Source, Ends
            <4>3. \A a \in Nat, b \in Nat, e \in Nat : a <= b /\ b <= e => a <= e
                OBVIOUS
            <4>4. QED BY <4>1, <4>2, <4>3, Zenon
        <3>2. QED BY <1>1, <1>3, <1>4, <1>5, <2>2, <3>1, RestFlow, Zenon
    <2>10. \A k \in Node : NodeOK(k, w2, r)'
        <3>1. OwnLoops({<<n, d>>}, w, r, w2, r)
            <4>1. ASSUME NEW k \in Node, NEW e \in Dir, <<k, e>> # <<n, d>>
                  PROVE  w2[To(k, e)] = w[To(k, e)]
                <5>1. To(k, e) # c /\ To(k, e) \in Conn
                    BY <4>1, Distinct, Zenon DEF c
                <5>2. QED BY <2>2, <5>1, Zenon DEF OneConn
            <4>2. QED BY <1>6, <1>8, <4>1, Zenon DEF OwnLoops
        <3>2. LoopOK(n, d, w2, r)'
            BY <1>6, <2>1, <2>2, Zenon DEF LoopOK, c
        <3>3. \A k \in Node, e \in Dir : <<k, e>> \in {<<n, d>>}
                  => pc[k] = "copy" /\ LoopOK(k, e, w2, r)'
            BY <1>1, <1>6, <3>2, Zenon
        <3>4. QED BY <1>1, <3>1, <3>3, NodesFlow, Zenon
    <2>11. EndsOK(w2, r)'
        <3>1. (c = Src(n, d) => w2[c] = w[c]) /\ (c = To(n, d) => r[c] = r[c])
            BY <1>3, Zenon
        <3>2. QED BY <1>1, <1>2, <1>3, <2>2, <3>1, LoopEnds, Zenon
    <2>12. Flow(w2, r)'
        BY <1>7, <2>8, <2>9, <2>10, <2>11, Zenon DEF Flow
    <2>13. Frozen(w, w2)
        <3>1. ASSUME NEW k \in Node, NEW e \in Dir, <<k, e>> \in ended'
              PROVE  w2[To(k, e)] = w[To(k, e)]
            <4>1. <<k, e>> # <<n, d>>
                BY <1>1, <3>1, Zenon
            <4>2. To(k, e) # c /\ To(k, e) \in Conn
                BY <4>1, Distinct, Zenon DEF c
            <4>3. QED BY <2>2, <4>2, Zenon DEF OneConn
        <3>2. QED BY <3>1, Zenon DEF Frozen
    <2>14. QED BY <2>12, <2>13, Zenon DEF FlowsOn
<1>11. QED BY <1>9, <1>10, Zenon

\* Nothing moves: a loop returns, an end finishes or closes, a link or a session breaks.
LEMMA StillFlow ==
    ASSUME NEW w \in Flows, NEW r \in Flows, Flow(w, r), Stays,
           inq' = inq, buf' = buf, sent' = sent, got' = got,
           \A k \in Node, e \in Dir :
               hold'[<<k, e>>] = hold[<<k, e>>] \/ (pc[k] = "copy" /\ <<k, e>> \in ended')
    PROVE  FlowsOn(w)
<1>1. /\ \A i \in Link : FwdOK(i, w, r) /\ BwdOK(i, w, r)
      /\ Bounded(w, r) /\ Chain /\ Unmade /\ BufOK /\ EndsOK(w, r)
      /\ pc' = pc /\ made' = made /\ shut \subseteq shut'
    BY Zenon DEF Flow, Stays
<1>2. ASSUME NEW i \in Link PROVE FwdOK(i, w, r)' /\ BwdOK(i, w, r)'
    <2>1. /\ (FwdAwaits(i))' <=> FwdAwaits(i)
          /\ (BwdAwaits(i))' <=> BwdAwaits(i)
          /\ FirstAnswer(i, w) => FirstAnswer(i, w)'
        BY <1>1, Zenon DEF FwdAwaits, BwdAwaits, FirstAnswer
    <2>2. QED BY <1>1, <2>1, Zenon DEF FwdOK, BwdOK
<1>3. \A k \in Node : NodeOK(k, w, r)'
    <2> DEFINE S == {x \in Node \X Dir : hold'[x] # hold[x]}
    <2>1. \A k \in Node, e \in Dir : <<k, e>> \in S <=> hold'[<<k, e>>] # hold[<<k, e>>]
        BY Zenon
    <2> HIDE DEF S
    <2>2. OwnLoops(S, w, r, w, r)
        BY <2>1, Zenon DEF OwnLoops
    <2>3. ASSUME NEW k \in Node, NEW e \in Dir, <<k, e>> \in S
          PROVE  pc[k] = "copy" /\ LoopOK(k, e, w, r)'
        <3>1. pc[k] = "copy" /\ <<k, e>> \in ended'
            BY <2>1, <2>3, Zenon
        <3>2. QED BY <3>1, Zenon DEF LoopOK, Passes
    <2>4. QED BY <2>2, <2>3, NodesFlow, Zenon
<1>4. Bounded(w, r)' /\ Chain' /\ Unmade' /\ BufOK' /\ EndsOK(w, r)'
    BY <1>1, Zenon DEF Bounded, Chain, Unmade, BufOK, EndsOK
<1>5. Flow(w, r)'
    BY <1>2, <1>3, <1>4, Zenon DEF Flow
<1>6. QED BY <1>5, Zenon DEF FlowsOn, Frozen

\* A copy loop returns.
LEMMA LoopReturnsFlow ==
    ASSUME PathType, NEW w \in Flows, NEW r \in Flows, Flow(w, r), NEW n \in Node, NEW d \in Dir,
           CopyWriteFails(n, d) \/ CopyEnds(n, d)
    PROVE  FlowsOn(w)
<1>1. pc[n] = "copy" /\ LoopReturns(n, d)
    BY Zenon DEF CopyWriteFails, CopyEnds, Copying
<1>2. /\ Stays /\ inq' = inq /\ buf' = buf /\ sent' = sent /\ got' = got
      /\ <<n, d>> \in ended' /\ hold' = [hold EXCEPT ![<<n, d>>] = None]
    BY <1>1, Zenon DEF LoopReturns, Close, Stays, endVars
<1>3. \A k \in Node, e \in Dir : hold'[<<k, e>>] = hold[<<k, e>>] \/ (k = n /\ e = d)
    BY <1>2, Zenon DEF PathType
<1>4. \A k \in Node, e \in Dir :
          hold'[<<k, e>>] = hold[<<k, e>>] \/ (pc[k] = "copy" /\ <<k, e>> \in ended')
    BY <1>1, <1>2, <1>3, Zenon
<1>5. QED BY <1>2, <1>4, StillFlow, Zenon

\* Nothing moves when an end stops, a link is reset or a session breaks.
LEMMA BreaksFlow ==
    ASSUME NEW w \in Flows, NEW r \in Flows, Flow(w, r),
           \/ \E c \in Ends : EndFinish(c) \/ EndClose(c)
           \/ \E i \in Link : Reset(i) \/ SessionBreaks(i) \/ SessionReconnects(i)
           \/ UNCHANGED vars
    PROVE  FlowsOn(w)
<1>1. /\ Stays /\ inq' = inq /\ buf' = buf /\ sent' = sent /\ got' = got /\ hold' = hold
    BY Zenon DEF EndFinish, EndClose, Reset, SessionBreaks, SessionReconnects, Close, Stays,
                 vars, linkVars, sessVars, copyVars, endVars
<1>2. QED BY <1>1, StillFlow, Zenon

\* The loops are not concerned with the conns of the ends.
LEMMA NoLoop ==
    ASSUME NEW w \in Flows, NEW r \in Flows, NEW w2 \in Flows, NEW r2 \in Flows,
           NEW c \in Conn, OneConn(c, w, r, w2, r2), Flow(w, r), Stays, buf' = buf, hold' = hold,
           c \in {<<0, "R">>, <<Nodes, "L">>} => r2[c] = r[c],
           c \in {App, Target} => w2[c] = w[c],
           c \in {<<0, "R">>, <<Nodes, "L">>, App, Target}
    PROVE  \A k \in Node : NodeOK(k, w2, r2)'
<1>1. ASSUME NEW k \in Node, NEW e \in Dir
      PROVE  w2[To(k, e)] = w[To(k, e)] /\ r2[Src(k, e)] = r[Src(k, e)]
    <2>1. /\ To(k, e) \in Conn /\ Src(k, e) \in Conn
          /\ To(k, e) # <<0, "R">> /\ To(k, e) # <<Nodes, "L">>
          /\ Src(k, e) # App /\ Src(k, e) # Target
        BY Distinct, Zenon
    <2>2. QED BY <2>1, Zenon DEF OneConn
<1> DEFINE S == {}
<1>2. \A x : x \notin S
    BY Zenon
<1> HIDE DEF S
<1>3. OwnLoops(S, w, r, w2, r2)
    BY <1>1, Zenon DEF OwnLoops
<1>4. \A k \in Node, e \in Dir : <<k, e>> \in S => pc[k] = "copy" /\ LoopOK(k, e, w2, r2)'
    BY <1>2, Zenon
<1>5. QED BY <1>3, <1>4, NodesFlow, Zenon

\* The conns of the two ends and the conns they write for are four conns.
LEMMA EndConns ==
    /\ Peer(App) = <<0, "R">> /\ Peer(Target) = <<Nodes, "L">>
    /\ App \in Conn /\ Target \in Conn /\ <<0, "R">> \in Conn /\ <<Nodes, "L">> \in Conn
    /\ App # Target /\ App # <<0, "R">> /\ App # <<Nodes, "L">>
    /\ Target # <<0, "R">> /\ Target # <<Nodes, "L">> /\ <<0, "R">> # <<Nodes, "L">>
    /\ Source(<<0, "R">>) = App /\ Source(<<Nodes, "L">>) = Target
    /\ \A i : <<i, "R">> = <<0, "R">> => i = 0
    /\ \A i : <<i, "L">> = <<Nodes, "L">> => i = Nodes
    /\ \A i : App = <<i, "L">> => i = 0
    /\ \A i : Target = <<i, "R">> => i = Nodes
    /\ \A i : App # <<i, "R">> /\ Target # <<i, "L">>
    /\ \A i : <<0, "R">> # <<i, "L">> /\ <<Nodes, "L">> # <<i, "R">>
    /\ 0 \in Link /\ Nodes \in Link /\ 0 < Nodes /\ ~(Nodes < Nodes) /\ Nodes # 0 /\ 0 + 1 = 1
<1>1. /\ App = <<0, "L">> /\ Target = <<Nodes, "R">> /\ Nodes \in Int /\ Nodes >= 2
      /\ 0 \in Link /\ Nodes \in Link
    BY Geometry, Zenon
<1>2. /\ \A i, j, a, b : <<i, a>> = <<j, b>> => i = j /\ a = b
      /\ "L" # "R"
    OBVIOUS
<1>3. 0 < Nodes /\ ~(Nodes < Nodes) /\ Nodes # 0 /\ 0 + 1 = 1
    BY <1>1
<1>4. Source(<<0, "R">>) = App /\ Source(<<Nodes, "L">>) = Target
    BY <1>2, Zenon DEF Source
<1>5. Peer(App) = <<0, "R">> /\ Peer(Target) = <<Nodes, "L">>
    BY ConnFacts, Zenon
<1>6. App \in Conn /\ Target \in Conn /\ <<0, "R">> \in Conn /\ <<Nodes, "L">> \in Conn
    BY <1>1, Geometry, Zenon
<1>7. /\ App # Target /\ App # <<0, "R">> /\ App # <<Nodes, "L">>
      /\ Target # <<0, "R">> /\ Target # <<Nodes, "L">> /\ <<0, "R">> # <<Nodes, "L">>
    BY <1>1, <1>2, <1>3, Zenon
<1>8. /\ \A i : <<i, "R">> = <<0, "R">> => i = 0
      /\ \A i : <<i, "L">> = <<Nodes, "L">> => i = Nodes
      /\ \A i : App = <<i, "L">> => i = 0
      /\ \A i : Target = <<i, "R">> => i = Nodes
    BY <1>1, <1>2, Zenon
<1>9. /\ \A i : App # <<i, "R">> /\ Target # <<i, "L">>
      /\ \A i : <<0, "R">> # <<i, "L">> /\ <<Nodes, "L">> # <<i, "R">>
    BY <1>1, <1>2, Zenon
<1>10. QED BY <1>1, <1>3, <1>4, <1>5, <1>6, <1>7, <1>8, <1>9, Zenon

\* The application sends its request.
LEMMA AppRequestFlow ==
    ASSUME PathType, PathInv, NEW w \in Flows, NEW r \in Flows, Flow(w, r), AppRequest
    PROVE  FlowsOn(w)
<1> DEFINE c == <<0, "R">>
<1>1. PICK k \in {0, 1} :
          /\ inq' = [inq EXCEPT ![Peer(App)] = <<Req>> \o Bytes(k)]
          /\ sent' = [sent EXCEPT ![App] = k]
    BY Zenon DEF AppRequest
<1>2. /\ pc[1] = "request" /\ sent[App] = 0 /\ buf' = buf /\ got' = got /\ hold' = hold /\ Stays
      /\ pc' = pc
    BY Zenon DEF AppRequest, Stays, copyVars
<1>3. Bounded(w, r) /\ Chain /\ Unmade /\ BufOK /\ EndsOK(w, r) /\ FwdOK(0, w, r)
    BY EndConns, Zenon DEF Flow
<1>4. Tagged(<<Req>> \o Bytes(k), Req, k)
    <2>1. CASE k = 0
        BY <2>1 DEF Tagged, Bytes
    <2>2. CASE k = 1
        BY <2>2 DEF Tagged, Bytes
    <2>3. QED BY <2>1, <2>2, Zenon
<1>5. /\ inq'[c] = <<Req>> \o Bytes(k) /\ \A e \in Conn : e # c => inq'[e] = inq[e]
    BY <1>1, EndConns, Zenon DEF PathType, Queues
<1>6. sent'[App] = k /\ sent'[Target] = sent[Target]
      /\ sent[Target] \in Nat /\ k \in Nat /\ k <= 1 /\ 0 <= k /\ k <= k
    <2>1. k \in Nat /\ k <= 1 /\ 0 <= k /\ k <= k
        OBVIOUS
    <2>2. QED BY <1>1, <2>1, EndConns, Zenon DEF PathType, Ends
<1> DEFINE w2 == [w EXCEPT ![c] = k]
<1>7. w2 \in Flows /\ w2[c] = k /\ \A e \in Conn : e # c => w2[e] = w[e]
    BY <1>6, EndConns, Zenon DEF Flows
<1> HIDE DEF w2
<1>8. OneConn(c, w, r, w2, r)
    BY <1>5, <1>7, Zenon DEF OneConn
<1>9. \A i \in Link : FwdOK(i, w2, r)' /\ BwdOK(i, w2, r)'
    <2>1. FwdAwaits(0) /\ (FwdAwaits(0))'
        BY <1>2, EndConns, Zenon DEF FwdAwaits
    <2>2. FwdOK(0, w2, r)'
        BY <1>2, <1>3, <1>4, <1>5, <1>7, <2>1, Zenon DEF FwdOK, Stays
    <2>3. \A i \in Link : c = <<i, "R">> => FwdOK(i, w2, r)'
        BY <2>2, EndConns, Zenon
    <2>4. \A i \in Link : c = <<i, "L">> => BwdOK(i, w2, r)'
        BY EndConns, Zenon
    <2>5. c # App => (got'[App] = <<>> <=> got[App] = <<>>)
        BY <1>2, Zenon
    <2>6. QED BY <1>2, <1>7, <1>8, <2>3, <2>4, <2>5, EndConns, LinksFlow, Zenon
<1>10. Bounded(w2, r)' /\ Unmade'
    <2>1. r[c] <= w2[c] /\ w2[c] <= sent'[Source(c)]
        <3>1. r[c] <= 0 /\ r[c] \in Nat
            BY <1>2, <1>3, EndConns, Zenon DEF Bounded, EndsOK, Flows
        <3>2. r[c] <= k
            BY <1>6, <3>1
        <3>3. QED BY <1>6, <1>7, <3>2, EndConns, Zenon
    <2>2. \A e \in Ends : sent[e] \in Nat /\ sent'[e] \in Nat /\ sent[e] <= sent'[e]
        <3>1. sent[Target] <= sent[Target] /\ 0 \in Nat
            BY <1>6
        <3>2. QED BY <1>2, <1>6, <3>1, Zenon DEF Ends
    <2>3. c[1] = 0
        OBVIOUS
    <2>4. c[1] \in made
        BY <2>3, Zenon DEF PathInv
    <2>5. QED BY <1>2, <1>7, <1>8, <2>1, <2>2, <2>4, EndConns, RestFlow, Zenon
<1>11. \A n \in Node : NodeOK(n, w2, r)'
    <2>1. c \in {<<0, "R">>, <<Nodes, "L">>, App, Target} /\ c \notin {App, Target}
        BY EndConns, Zenon
    <2>2. (c \in {<<0, "R">>, <<Nodes, "L">>} => r[c] = r[c]) /\ (c \in {App, Target} => w2[c] = w[c])
        BY <2>1, Zenon
    <2>3. QED BY <1>2, <1>7, <1>8, <2>1, <2>2, EndConns, NoLoop, Zenon
<1>12. EndsOK(w2, r)'
    BY <1>2, <1>3, <1>6, <1>7, EndConns, Zenon DEF EndsOK
<1>13. Chain'
    BY <1>2, <1>3, Zenon DEF Chain, Stays
<1>14. BufOK'
    <2>1. buf = <<>> /\ Len(<<>>) = 0 /\ IsRun(<<>>, 0, 0) /\ 0 <= 1
        <3>1. Len(<<>>) = 0 /\ IsRun(<<>>, 0, 0) /\ 0 <= 1
            BY ShortFacts
        <3>2. QED BY <1>2, <1>3, <3>1, Zenon DEF BufOK
    <2>2. QED BY <1>2, <1>6, <2>1, Zenon DEF BufOK
<1>15. Flow(w2, r)'
    BY <1>9, <1>10, <1>11, <1>12, <1>13, <1>14, Zenon DEF Flow
<1>16. Frozen(w, w2)
    BY <1>7, Distinct, Zenon DEF Frozen
<1>17. QED BY <1>7, <1>15, <1>16, Zenon DEF FlowsOn

\* An end sends its next byte.
LEMMA EndSendFlow ==
    ASSUME PathType, PathInv, NEW w \in Flows, NEW r \in Flows, Flow(w, r),
           NEW x \in Ends, EndSend(x)
    PROVE  FlowsOn(w)
<1> DEFINE c == Peer(x)
<1>1. /\ x[1] \in made /\ (x = App => pc[1] # "request")
      /\ inq' = Put(inq, x, sent[x] + 1) /\ sent' = [sent EXCEPT ![x] = @ + 1]
      /\ buf' = buf /\ got' = got /\ hold' = hold /\ Stays /\ pc' = pc /\ shut' = shut
    BY Zenon DEF EndSend, Stays
<1>2. Bounded(w, r) /\ Chain /\ Unmade /\ BufOK /\ EndsOK(w, r)
    BY Zenon DEF Flow
<1>3. /\ x = App \/ x = Target
      /\ x = App => c = <<0, "R">> /\ Source(c) = App
      /\ x = Target => c = <<Nodes, "L">> /\ Source(c) = Target
      /\ c \in Conn /\ x \in Conn /\ c # App /\ c # Target
      /\ c \in {<<0, "R">>, <<Nodes, "L">>, App, Target} /\ c \notin {App, Target}
    BY EndConns, Zenon DEF Ends
<1>4. sent[x] \in Nat /\ w[c] = sent[x] /\ r[c] \in Nat
    BY <1>2, <1>3, Zenon DEF PathType, EndsOK, Flows
<1>5. /\ sent'[x] = w[c] + 1 /\ (\A e \in Ends : e # x => sent'[e] = sent[e])
      /\ sent[x] + 1 \in Nat /\ sent[x] <= sent[x] + 1
    <2>1. sent'[x] = sent[x] + 1 /\ \A e \in Ends : e # x => sent'[e] = sent[e]
        BY <1>1, Zenon DEF PathType
    <2>2. sent[x] + 1 \in Nat /\ sent[x] <= sent[x] + 1
        BY <1>4
    <2>3. QED BY <1>4, <2>1, <2>2, Zenon
<1>6. PICK w2 \in Flows :
          /\ w2[c] = w[c] + 1 /\ r[c] <= w2[c] /\ OneConn(c, w, r, w2, r)
          /\ c \notin shut => inq'[c] = Append(inq[c], w[c] + 1)
    <2>1. inq' = Put(inq, x, w[c] + 1)
        BY <1>1, <1>4, Zenon
    <2>2. QED BY <1>2, <1>3, <2>1, WritesRun, Zenon
<1>7. /\ inq[c] \in Seq(Int) /\ w[c] \in Nat
    BY <1>3, Zenon DEF PathType, Queues, Flows
<1>8. c \notin shut /\ IsRun(inq[c], r[c], w[c]) => IsRun(inq'[c], r[c], w2[c])
    <2>1. IsRun(inq[c], r[c], w[c]) => IsRun(Append(inq[c], w[c] + 1), r[c], w[c] + 1)
        BY <1>4, <1>7, RunFacts, Zenon
    <2>2. QED BY <1>6, <2>1, Zenon
<1>9. \A i \in Link : FwdOK(i, w2, r)' /\ BwdOK(i, w2, r)'
    <2>1. ASSUME NEW i \in Link, c = <<i, "R">> PROVE FwdOK(i, w2, r)'
        <3>1. x = App /\ i = 0
            BY <1>3, <2>1, EndConns, Zenon
        <3>2. ~FwdAwaits(i) /\ ~(FwdAwaits(i))' /\ FwdOK(i, w, r)
            BY <1>1, <1>2, <3>1, EndConns, Zenon DEF FwdAwaits, Chain, Flow
        <3>3. QED BY <1>1, <1>8, <2>1, <3>2, Zenon DEF FwdOK
    <2>2. ASSUME NEW i \in Link, c = <<i, "L">> PROVE BwdOK(i, w2, r)'
        <3>1. i = Nodes
            BY <1>3, <2>2, EndConns, Zenon
        <3>2. ~BwdAwaits(i) /\ ~(BwdAwaits(i))' /\ BwdOK(i, w, r)
            BY <1>1, <1>2, <3>1, EndConns, Zenon DEF BwdAwaits, Chain, Flow
        <3>3. QED BY <1>1, <1>8, <2>2, <3>2, Zenon DEF BwdOK
    <2>3. c # App => (got'[App] = <<>> <=> got[App] = <<>>)
        BY <1>1, Zenon
    <2>4. QED BY <1>1, <1>3, <1>6, <2>1, <2>2, <2>3, LinksFlow, Zenon
<1>10. Bounded(w2, r)' /\ Unmade'
    <2>1. w2[c] <= sent'[Source(c)]
        <3>1. w2[c] = sent'[Source(c)] /\ w2[c] \in Nat
            BY <1>3, <1>5, <1>6, Zenon DEF Flows
        <3>2. \A y \in Nat : y <= y
            OBVIOUS
        <3>3. QED BY <3>1, <3>2, Zenon
    <2>2. \A e \in Ends : sent[e] \in Nat /\ sent'[e] \in Nat /\ sent[e] <= sent'[e]
        <3>1. \A e \in Ends : sent[e] \in Nat
            BY Zenon DEF PathType
        <3>2. \A y \in Nat : y <= y
            OBVIOUS
        <3>3. QED BY <1>4, <1>5, <3>1, <3>2, Zenon
    <2>3. c[1] \in made
        <3>1. c[1] = x[1]
            BY Zenon DEF Peer
        <3>2. QED BY <1>1, <3>1, Zenon
    <2>4. QED BY <1>1, <1>3, <1>6, <2>1, <2>2, <2>3, RestFlow, Zenon
<1>11. \A n \in Node : NodeOK(n, w2, r)'
    <2>1. (c \in {<<0, "R">>, <<Nodes, "L">>} => r[c] = r[c]) /\ (c \in {App, Target} => w2[c] = w[c])
        BY <1>3, Zenon
    <2>2. QED BY <1>1, <1>3, <1>6, <2>1, NoLoop, Zenon
<1>12. EndsOK(w2, r)'
    <2>1. w2[<<0, "R">>] = sent'[App] /\ w2[<<Nodes, "L">>] = sent'[Target] /\ w2[App] = w[App]
        <3>1. w[<<0, "R">>] = sent[App] /\ w[<<Nodes, "L">>] = sent[Target]
            BY <1>2, Zenon DEF EndsOK
        <3>2. QED BY <1>3, <1>5, <1>6, <3>1, EndConns, Zenon DEF OneConn, Ends
    <2>2. QED BY <1>1, <1>2, <2>1, Zenon DEF EndsOK
<1>13. Chain'
    BY <1>1, <1>2, Zenon DEF Chain, Stays
<1>14. BufOK'
    <2>1. Len(buf) <= sent'[App]
        <3>1. Len(buf) <= sent[App] /\ buf \in Seq(Int) /\ sent[App] \in Nat
            BY <1>2, Zenon DEF BufOK, PathType, Ends
        <3>2. sent'[App] = sent[App] \/ sent'[App] = sent[App] + 1
            BY <1>3, <1>4, <1>5, EndConns, Zenon DEF Ends
        <3>3. QED BY <3>1, <3>2
    <2>2. pc[1] = "request" => sent'[App] = sent[App]
        BY <1>1, <1>3, <1>5, EndConns, Zenon DEF Ends
    <2>3. QED BY <1>1, <1>2, <2>1, <2>2, Zenon DEF BufOK
<1>15. Flow(w2, r)'
    BY <1>9, <1>10, <1>11, <1>12, <1>13, <1>14, Zenon DEF Flow
<1>16. Frozen(w, w2)
    <2>1. \A n \in Node, d \in Dir : To(n, d) \in Conn /\ To(n, d) # c
        BY <1>3, Distinct, Zenon DEF Ends
    <2>2. QED BY <1>6, <2>1, Zenon DEF Frozen, OneConn
<1>17. QED BY <1>6, <1>15, <1>16, Zenon DEF FlowsOn

\* What is left to show when an end reads.
LEMMA ReceiveRest ==
    ASSUME PathType, PathInv, NEW w \in Flows, NEW r \in Flows, Flow(w, r),
           NEW c \in Ends, EndReceive(c), NEW r2 \in Flows,
           OneConn(c, w, r, w, r2), r2[c] <= w[c],
           \A i \in Link : c = <<i, "R">> => FwdOK(i, w, r2)',
           \A i \in Link : c = <<i, "L">> => BwdOK(i, w, r2)',
           Chain', EndsOK(w, r2)'
    PROVE  FlowsOn(w)
<1>1. /\ Readable(c) /\ got' = [got EXCEPT ![c] = Append(@, Head(inq[c]))]
      /\ buf' = buf /\ hold' = hold /\ sent' = sent /\ Stays
    BY Zenon DEF EndReceive, Stays, copyVars
<1>2. Bounded(w, r) /\ Unmade /\ BufOK
    BY Zenon DEF Flow
<1>3. /\ c \in Conn /\ (c = App \/ c = Target) /\ c # <<0, "R">> /\ c # <<Nodes, "L">>
      /\ App \in Ends
    BY EndConns, Zenon DEF Ends
<1>4. c # App => (got'[App] = <<>> <=> got[App] = <<>>)
    BY <1>1, <1>3, Zenon DEF PathType
<1>5. \A i \in Link : FwdOK(i, w, r2)' /\ BwdOK(i, w, r2)'
    BY <1>1, <1>3, <1>4, LinksFlow, Zenon
<1>6. Bounded(w, r2)' /\ Unmade'
    <2>1. c[1] \in made
        <3>1. CASE c = App
            <4>1. c[1] = 0
                BY <3>1, Geometry, Zenon
            <4>2. QED BY <4>1, Zenon DEF PathInv
        <3>2. CASE c = Target
            <4>1. c[1] = Nodes /\ c = <<Nodes, "R">>
                BY <3>2, Geometry, Zenon
            <4>2. inq[<<Nodes, "R">>] # <<>>
                BY <1>1, <4>1, Zenon DEF Readable
            <4>3. QED BY <1>2, <4>1, <4>2, EndConns, Zenon DEF Unmade
        <3>3. QED BY <1>3, <3>1, <3>2, Zenon
    <2>2. \A e \in Ends : sent[e] \in Nat /\ sent'[e] \in Nat /\ sent[e] <= sent'[e]
        <3>1. \A y \in Nat : y <= y
            OBVIOUS
        <3>2. QED BY <1>1, <3>1, Zenon DEF PathType
    <2>3. w[c] <= sent'[Source(c)]
        BY <1>1, <1>2, <1>3, Zenon DEF Bounded
    <2>4. QED BY <1>1, <1>3, <2>1, <2>2, <2>3, RestFlow, Zenon
<1>7. \A n \in Node : NodeOK(n, w, r2)'
    <2>1. /\ c \in {<<0, "R">>, <<Nodes, "L">>} => r2[c] = r[c]
          /\ c \in {App, Target} => w[c] = w[c]
          /\ c \in {<<0, "R">>, <<Nodes, "L">>, App, Target}
        BY <1>3, Zenon
    <2>2. QED BY <1>1, <1>3, <2>1, NoLoop, Zenon
<1>8. BufOK'
    BY <1>1, <1>2, Zenon DEF BufOK, Stays
<1>9. Flow(w, r2)'
    BY <1>5, <1>6, <1>7, <1>8, Zenon DEF Flow
<1>10. QED BY <1>9, Zenon DEF FlowsOn, Frozen

\* The target reads a byte.
LEMMA TargetFlow ==
    ASSUME PathType, PathInv, NEW w \in Flows, NEW r \in Flows, Flow(w, r), EndReceive(Target)
    PROVE  FlowsOn(w)
<1>1. /\ Target \notin shut /\ inq[Target] # <<>> /\ inq' = Take(inq, Target)
      /\ got' = [got EXCEPT ![Target] = Append(@, Head(inq[Target]))] /\ pc' = pc /\ made' = made
      /\ shut' = shut
    BY Zenon DEF EndReceive, Readable
<1>2. Bounded(w, r) /\ Chain /\ EndsOK(w, r) /\ FwdOK(Nodes, w, r)
    BY EndConns, Zenon DEF Flow
<1>3. Target = <<Nodes, "R">> /\ Target \in Conn /\ Target \in Ends /\ App \in Ends /\ App # Target
    BY EndConns, Geometry, Zenon DEF Ends
<1>4. ~FwdAwaits(Nodes) /\ ~(FwdAwaits(Nodes))'
    BY EndConns, Zenon DEF FwdAwaits
<1>5. IsRun(inq[Target], r[Target], w[Target])
    BY <1>1, <1>2, <1>3, <1>4, Zenon DEF FwdOK
<1>6. PICK r2 \in Flows :
          /\ r2[Target] = r[Target] + 1 /\ Head(inq[Target]) = r[Target] + 1 /\ r2[Target] <= w[Target]
          /\ IsRun(inq'[Target], r2[Target], w[Target]) /\ OneConn(Target, w, r, w, r2)
    BY <1>1, <1>2, <1>3, <1>5, ReadsRun, Zenon
<1>7. got'[Target] = Append(got[Target], r[Target] + 1) /\ got'[App] = got[App]
      /\ got[Target] \in Seq(Int) /\ r[Target] \in Nat /\ 0 \in Nat
    <2>1. 0 \in Nat
        OBVIOUS
    <2>2. QED BY <1>1, <1>3, <1>6, <2>1, Zenon DEF PathType, Flows
<1>8. IsRun(got'[Target], 0, r2[Target])
    <2>1. IsRun(got[Target], 0, r[Target])
        BY <1>2, Zenon DEF EndsOK
    <2>2. IsRun(Append(got[Target], r[Target] + 1), 0, r[Target] + 1)
        BY <1>7, <2>1, RunFacts, Zenon
    <2>3. QED BY <1>6, <1>7, <2>2, Zenon
<1>9. EndsOK(w, r2)'
    <2>1. r2[App] = r[App] /\ sent' = sent
        BY <1>3, <1>6, EndConns, Zenon DEF OneConn, EndReceive
    <2>2. QED BY <1>1, <1>2, <1>7, <1>8, <2>1, Zenon DEF EndsOK
<1>10. Chain'
    BY <1>1, <1>2, <1>7, Zenon DEF Chain
<1>11. \A i \in Link : Target = <<i, "R">> => FwdOK(i, w, r2)'
    <2>1. FwdOK(Nodes, w, r2)'
        BY <1>3, <1>4, <1>6, Zenon DEF FwdOK
    <2>2. QED BY <2>1, EndConns, Zenon
<1>12. \A i \in Link : Target = <<i, "L">> => BwdOK(i, w, r2)'
    BY EndConns, Zenon
<1>13. QED BY <1>3, <1>6, <1>9, <1>10, <1>11, <1>12, ReceiveRest, Zenon

\* The application reads the answer.
LEMMA AnsweredFlow ==
    ASSUME PathType, PathInv, NEW w \in Flows, NEW r \in Flows, Flow(w, r), EndReceive(App),
           got[App] = <<>>
    PROVE  FlowsOn(w)
<1>1. /\ App \notin shut /\ inq[App] # <<>> /\ inq' = Take(inq, App)
      /\ got' = [got EXCEPT ![App] = Append(@, Head(inq[App]))] /\ pc' = pc /\ made' = made
      /\ sent' = sent
    BY Zenon DEF EndReceive, Readable
<1>2. Bounded(w, r) /\ Chain /\ EndsOK(w, r) /\ BwdOK(0, w, r)
    BY EndConns, Zenon DEF Flow
<1>3. /\ App = <<0, "L">> /\ App \in Conn /\ Target \in Conn /\ App \in Ends /\ Target \in Ends
      /\ App # Target /\ 1 \in Node
    BY EndConns, Geometry, Zenon DEF Ends
<1>4. BwdAwaits(0)
    BY Zenon DEF BwdAwaits
<1>5. /\ pc[1] \in Early => inq[App] = <<>>
      /\ pc[1] = "copy" => Tagged(inq[App], Ok, w[App])
      /\ pc[1] = "done" =>
             \/ (inq[App] = <<>> \/ inq[App] = <<Fail>>) /\ w[App] = 0
             \/ Tagged(inq[App], Ok, w[App])
    BY <1>1, <1>2, <1>3, <1>4, EndConns, Zenon DEF BwdOK, FirstAnswer
<1>6. r[App] = 0
    BY <1>1, <1>2, <1>3, <1>4, Zenon DEF BwdOK
<1>7. pc[1] \in {"copy", "done"}
    <2>1. pc[1] \in Places /\ pc[1] \notin Early
        BY <1>1, <1>3, <1>5, Zenon DEF PathType
    <2>2. QED BY <2>1, Zenon DEF Places, Early
<1>8. \/ Tagged(inq[App], Ok, w[App])
      \/ inq[App] = <<Fail>> /\ w[App] = 0 /\ pc[1] = "done"
    BY <1>1, <1>5, <1>7, Zenon
<1>9. /\ inq \in Queues /\ inq[App] \in Seq(Int) /\ w[App] \in Nat /\ Ok \in Int /\ Fail \in Int
      /\ 0 \in Nat
    <2>1. Ok \in Int /\ Fail \in Int /\ 0 \in Nat
        BY DEF Ok, Fail
    <2>2. QED BY <1>3, <2>1, Zenon DEF PathType, Queues, Flows
<1>10. /\ inq'[App] = Tail(inq[App]) /\ \A e \in Conn : e # App => inq'[e] = inq[e]
    BY <1>1, <1>3, <1>9, TakeOne, Zenon
<1>11. got'[App] = Append(<<>>, Head(inq[App])) /\ got'[Target] = got[Target]
    BY <1>1, <1>3, Zenon DEF PathType
<1>12. IsRun(inq'[App], 0, w[App])
    <2>1. CASE Tagged(inq[App], Ok, w[App])
        BY <1>9, <1>10, <2>1, TagFacts, Zenon
    <2>2. CASE inq[App] = <<Fail>> /\ w[App] = 0
        <3>1. Tail(<<Fail>>) = <<>>
            BY <1>9
        <3>2. IsRun(<<>>, 0, 0)
            BY <1>9, ShortFacts, Zenon
        <3>3. QED BY <1>10, <2>2, <3>1, <3>2, Zenon
    <2>3. QED BY <1>8, <2>1, <2>2, Zenon
<1>13. \/ Tagged(got'[App], Ok, r[App])
       \/ got'[App] = <<Fail>> /\ w[App] = 0 /\ pc[1] = "done"
    <2>1. CASE Tagged(inq[App], Ok, w[App])
        <3>1. Head(inq[App]) = Ok
            BY <1>9, <2>1, TagFacts, Zenon
        <3>2. got'[App] = <<Ok>> /\ Tagged(<<Ok>>, Ok, 0)
            BY <1>9, <1>11, <3>1, ShortFacts, Zenon
        <3>3. QED BY <1>6, <3>2, Zenon
    <2>2. CASE inq[App] = <<Fail>> /\ w[App] = 0 /\ pc[1] = "done"
        <3>1. Head(<<Fail>>) = Fail
            BY <1>9
        <3>2. got'[App] = <<Fail>>
            BY <1>9, <1>11, <2>2, <3>1, ShortFacts, Zenon
        <3>3. QED BY <2>2, <3>2, Zenon
    <2>3. QED BY <1>8, <2>1, <2>2, Zenon
<1>14. got'[App] # <<>>
    <2>1. Fail \in Int /\ <<Fail>> # <<>>
        BY <1>9, Zenon
    <2>2. \A s \in Seq(Int) : Tagged(s, Ok, 0) => s # <<>>
        BY <1>9, TagFacts, Zenon
    <2>3. got'[App] \in Seq(Int)
        BY <1>9, <1>11, <1>1
    <2>4. QED BY <1>6, <1>13, <2>1, <2>2, <2>3, Zenon
<1>15. EndsOK(w, r)'
    BY <1>1, <1>2, <1>6, <1>11, <1>13, Zenon DEF EndsOK
<1>16. Chain'
    BY <1>1, <1>2, <1>7, Zenon DEF Chain
<1>17. OneConn(App, w, r, w, r) /\ r[App] <= w[App]
    BY <1>2, <1>3, <1>10, Zenon DEF OneConn, Bounded
<1>18. \A i \in Link : App = <<i, "L">> => BwdOK(i, w, r)'
    <2>1. ~(BwdAwaits(0))'
        BY <1>14, Zenon DEF BwdAwaits
    <2>2. BwdOK(0, w, r)'
        BY <1>3, <1>6, <1>12, <2>1, Zenon DEF BwdOK
    <2>3. QED BY <2>2, EndConns, Zenon
<1>19. \A i \in Link : App = <<i, "R">> => FwdOK(i, w, r)'
    BY EndConns, Zenon
<1>20. QED BY <1>3, <1>15, <1>16, <1>17, <1>18, <1>19, ReceiveRest, Zenon

\* The application reads a byte behind the answer.
LEMMA AppFlow ==
    ASSUME PathType, PathInv, NEW w \in Flows, NEW r \in Flows, Flow(w, r), EndReceive(App),
           got[App] # <<>>
    PROVE  FlowsOn(w)
<1>1. /\ App \notin shut /\ inq[App] # <<>> /\ inq' = Take(inq, App)
      /\ got' = [got EXCEPT ![App] = Append(@, Head(inq[App]))] /\ pc' = pc /\ made' = made
      /\ sent' = sent
    BY Zenon DEF EndReceive, Readable
<1>2. Bounded(w, r) /\ Chain /\ EndsOK(w, r) /\ BwdOK(0, w, r)
    BY EndConns, Zenon DEF Flow
<1>3. /\ App = <<0, "L">> /\ App \in Conn /\ Target \in Conn /\ App \in Ends /\ Target \in Ends
      /\ App # Target
    BY EndConns, Geometry, Zenon DEF Ends
<1>4. ~BwdAwaits(0)
    BY Zenon DEF BwdAwaits
<1>5. IsRun(inq[App], r[App], w[App])
    BY <1>1, <1>2, <1>3, <1>4, Zenon DEF BwdOK
<1>6. PICK r2 \in Flows :
          /\ r2[App] = r[App] + 1 /\ Head(inq[App]) = r[App] + 1 /\ r2[App] <= w[App]
          /\ IsRun(inq'[App], r2[App], w[App]) /\ OneConn(App, w, r, w, r2)
    BY <1>1, <1>2, <1>3, <1>5, ReadsRun, Zenon
<1>7. /\ r[App] \in Nat /\ w[App] \in Nat /\ Ok \in Int /\ got[App] \in Seq(Int)
      /\ got'[App] = Append(got[App], r[App] + 1) /\ got'[Target] = got[Target]
    <2>1. Ok \in Int
        BY DEF Ok
    <2>2. QED BY <1>1, <1>3, <1>6, <2>1, Zenon DEF PathType, Flows
<1>8. Tagged(got[App], Ok, r[App])
    <2>1. w[App] # 0
        BY <1>6, <1>7
    <2>2. QED BY <1>2, <2>1, Zenon DEF EndsOK
<1>9. Tagged(got'[App], Ok, r2[App])
    <2>1. Tagged(Append(got[App], r[App] + 1), Ok, r[App] + 1)
        BY <1>7, <1>8, TagFacts, Zenon
    <2>2. QED BY <1>6, <1>7, <2>1, Zenon
<1>10. got'[App] # <<>>
    BY <1>7
<1>11. EndsOK(w, r2)'
    <2>1. r2[Target] = r[Target]
        BY <1>3, <1>6, Zenon DEF OneConn
    <2>2. QED BY <1>1, <1>2, <1>7, <1>9, <2>1, Zenon DEF EndsOK
<1>12. Chain'
    BY <1>1, <1>2, Zenon DEF Chain
<1>13. \A i \in Link : App = <<i, "L">> => BwdOK(i, w, r2)'
    <2>1. ~(BwdAwaits(0))'
        BY <1>10, Zenon DEF BwdAwaits
    <2>2. BwdOK(0, w, r2)'
        BY <1>3, <1>6, <2>1, Zenon DEF BwdOK
    <2>3. QED BY <2>2, EndConns, Zenon
<1>14. \A i \in Link : App = <<i, "R">> => FwdOK(i, w, r2)'
    BY EndConns, Zenon
<1>15. QED BY <1>3, <1>6, <1>11, <1>12, <1>13, <1>14, ReceiveRest, Zenon

\* Nothing was written or read at first.
LEMMA FlowInit == Init => FlowInv
<1> SUFFICES ASSUME Init PROVE FlowInv
    OBVIOUS
<1> DEFINE z == [c \in Conn |-> 0]
<1>1. /\ z \in Flows /\ \A c \in Conn : z[c] = 0 /\ inq[c] = <<>>
      /\ \A n \in Node : pc[n] = IF n = 1 THEN "request" ELSE "none"
      /\ \A n \in Node, d \in Dir : hold[<<n, d>>] = None
      /\ buf = <<>> /\ sent[App] = 0 /\ sent[Target] = 0 /\ got[App] = <<>> /\ got[Target] = <<>>
    <2>1. 0 \in Nat
        OBVIOUS
    <2>2. z \in Flows /\ \A c \in Conn : z[c] = 0 /\ inq[c] = <<>>
        BY <2>1, Zenon DEF Init, Flows
    <2>3. \A n \in Node, d \in Dir : hold[<<n, d>>] = None
        BY Zenon DEF Init
    <2>4. QED BY <2>2, <2>3, Zenon DEF Init, Ends
<1> HIDE DEF z
<1>2. IsRun(<<>>, 0, 0) /\ Len(<<>>) = 0 /\ 0 <= 0 /\ 0 <= 1
    BY ShortFacts
<1>3. \A n \in Node : pc[n] \in Early /\ pc[n] \in {"none", "request"}
    BY <1>1, Zenon DEF Early
<1>4. \A i \in Link : i < Nodes => i + 1 \in Node
    BY Geometry DEF Link, Node
<1>5. ASSUME NEW i \in Link PROVE FwdOK(i, z, z)
    <2>1. z[<<i, "R">>] = 0 /\ inq[<<i, "R">>] = <<>>
        BY <1>1, Geometry, Zenon
    <2>2. QED BY <1>2, <2>1, Zenon DEF FwdOK
<1>6. ASSUME NEW i \in Link PROVE BwdOK(i, z, z)
    <2>1. z[<<i, "L">>] = 0 /\ inq[<<i, "L">>] = <<>>
        BY <1>1, Geometry, Zenon
    <2>2. ASSUME BwdAwaits(i) PROVE i < Nodes /\ pc[i + 1] \in Early
        <3>1. i = 0
            <4>1. i # 0 => i \in Node
                BY Geometry DEF Link, Node
            <4>2. "sent" \notin {"none", "request"}
                OBVIOUS
            <4>3. QED BY <1>3, <2>2, <4>1, <4>2, Zenon DEF BwdAwaits
        <3>2. i < Nodes
            BY <3>1, EndConns, Zenon
        <3>3. QED BY <1>3, <1>4, <3>2, Zenon
    <2>3. pc[i + 1] \in Early => pc[i + 1] # "copy" /\ pc[i + 1] # "done"
        BY Zenon DEF Early
    <2>4. BwdAwaits(i) => FirstAnswer(i, z)
        BY <2>1, <2>2, <2>3, Zenon DEF FirstAnswer
    <2>5. QED BY <1>2, <2>1, <2>4, Zenon DEF BwdOK
<1>7. Bounded(z, z)
    <2>1. \A c : Source(c) \in {App, Target}
        BY Zenon DEF Source
    <2>2. QED BY <1>1, <1>2, <2>1, Zenon DEF Bounded
<1>8. ASSUME NEW n \in Node PROVE NodeOK(n, z, z)
    <2>1. \A d \in Dir : To(n, d) \in Conn
        BY Geometry, Zenon DEF Dir
    <2>2. z[Right(n)] = 0 /\ z[Left(n)] = 0
        BY <1>1, ConnFacts, Zenon
    <2>3. EarlyOK(n, z, z)
        BY <1>1, <1>2, <2>1, <2>2, Zenon DEF EarlyOK
    <2>4. pc[n] # "copy"
        BY <1>3, Zenon
    <2>5. QED BY <2>3, <2>4, Zenon DEF NodeOK
<1>9. Chain
    <2>1. ASSUME NEW n \in Node, n < Nodes
          PROVE  pc[n + 1] = "none" /\ pc[n] \notin {"answer", "copy"}
        <3>1. n + 1 \in Node /\ n + 1 # 1
            BY <2>1, Geometry DEF Node
        <3>2. QED BY <1>1, <1>3, <3>1, Zenon
    <2>2. pc[Nodes] # "sent" /\ pc[1] # "none"
        BY <1>1, <1>3, Geometry, Zenon
    <2>3. QED BY <1>1, <2>1, <2>2, Zenon DEF Chain
<1>10. Unmade
    BY <1>1, Geometry, Zenon DEF Unmade
<1>11. BufOK
    BY <1>1, <1>2, Zenon DEF BufOK
<1>12. EndsOK(z, z)
    BY <1>1, <1>2, EndConns, Zenon DEF EndsOK
<1>13. Flow(z, z)
    BY <1>5, <1>6, <1>7, <1>8, <1>9, <1>10, <1>11, <1>12, Zenon DEF Flow
<1>14. QED BY <1>1, <1>13, Zenon DEF FlowInv

\* The flow goes on with every step of the path.
LEMMA FlowGoesOn ==
    ASSUME PathType, PathInv, NEW w \in Flows, NEW r \in Flows, Flow(w, r), [Next]_vars
    PROVE  FlowsOn(w)
<1>2. ASSUME NEW n \in Node, HandlerStep(n) PROVE FlowsOn(w)
    <2>1. CASE AcceptStream(n) \/ RequestFails(n) \/ AnswerFails(n) \/ RelayReturns(n)
        BY <2>1, SilentFlow, Zenon
    <2>2. CASE OpenFails(n) \/ RequestRejected(n) \/ ResponseFails(n) \/ ResponseTimesOut(n)
        <3>1. pc[n] \in {"open", "sent"} /\ Refuse(n)
            BY <2>2, Zenon DEF OpenFails, RequestRejected, ResponseFails, ResponseTimesOut
        <3>2. QED BY <3>1, RefuseFlow, Zenon
    <2>3. CASE OpenStream(n)
        BY <2>3, OpenFlow, Zenon
    <2>4. CASE ReadRequest(n)
        BY <2>4, RequestFlow, Zenon
    <2>5. CASE ReadResponse(n)
        BY <2>5, ResponseFlow, Zenon
    <2>6. CASE AnswerOK(n)
        BY <2>6, AnswerFlow, Zenon
    <2>7. QED BY <1>2, <2>1, <2>2, <2>3, <2>4, <2>5, <2>6, Zenon DEF HandlerStep
<1>3. ASSUME NEW n \in Node, NEW d \in Dir, CopyStep(n, d) PROVE FlowsOn(w)
    <2>1. CASE CopyRead(n, d)
        BY <2>1, CopyReadFlow, Zenon
    <2>2. CASE CopyWrite(n, d)
        BY <2>2, CopyWriteFlow, Zenon
    <2>3. CASE CopyWriteFails(n, d) \/ CopyEnds(n, d)
        BY <2>3, LoopReturnsFlow, Zenon
    <2>4. QED BY <1>3, <2>1, <2>2, <2>3, Zenon DEF CopyStep
<1>4. CASE DialTarget
    <2>1. Nodes \in Node
        BY Geometry, Zenon
    <2>2. QED BY <1>4, <2>1, OpenFlow, Zenon
<1>5. CASE AppRequest
    BY <1>5, AppRequestFlow, Zenon
<1>6. ASSUME NEW c \in Ends, EndSend(c) PROVE FlowsOn(w)
    BY <1>6, EndSendFlow, Zenon
<1>7. ASSUME NEW c \in Ends, EndReceive(c) PROVE FlowsOn(w)
    <2>1. CASE c = Target
        BY <1>7, <2>1, TargetFlow, Zenon
    <2>2. CASE c = App
        <3>1. EndReceive(App)
            BY <1>7, <2>2, Zenon
        <3>2. CASE got[App] = <<>>
            BY <3>1, <3>2, AnsweredFlow, Zenon
        <3>3. CASE got[App] # <<>>
            BY <3>1, <3>3, AppFlow, Zenon
        <3>4. QED BY <3>2, <3>3, Zenon
    <2>3. QED BY <2>1, <2>2, Zenon DEF Ends
<1>8. CASE \/ \E c \in Ends : EndFinish(c) \/ EndClose(c)
           \/ \E i \in Link : Reset(i) \/ SessionBreaks(i) \/ SessionReconnects(i)
           \/ UNCHANGED vars
    BY <1>8, BreaksFlow, Zenon
<1>9. QED BY <1>2, <1>3, <1>4, <1>5, <1>6, <1>7, <1>8, Zenon DEF Next

\* Every step of the path keeps the flow.
LEMMA FlowStep == PathType /\ PathInv /\ FlowInv /\ [Next]_vars => FlowInv'
<1> SUFFICES ASSUME PathType, PathInv, FlowInv, [Next]_vars PROVE FlowInv'
    OBVIOUS
<1>1. PICK w \in Flows, r \in Flows : Flow(w, r)
    BY Zenon DEF FlowInv
<1>2. FlowsOn(w)
    BY <1>1, FlowGoesOn, Zenon
<1>3. QED BY <1>2, Zenon DEF FlowInv, FlowsOn

\* A sequence is a prefix of another when the places it has agree.
LEMMA PrefixOf ==
    ASSUME NEW s \in Seq(Int), NEW t \in Seq(Int), Len(s) <= Len(t),
           \A i \in 1..Len(s) : s[i] = t[i]
    PROVE  Prefix(s, t)
<1>1. SubSeq(t, 1, Len(s)) \in Seq(Int) /\ Len(SubSeq(t, 1, Len(s))) = Len(s)
      /\ \A i \in 1..Len(s) : SubSeq(t, 1, Len(s))[i] = t[i]
    OBVIOUS
<1>2. \A i \in 1..Len(s) : s[i] = SubSeq(t, 1, Len(s))[i]
    BY <1>1, Zenon
<1>3. s = SubSeq(t, 1, Len(s))
    BY <1>1, <1>2
<1>4. QED BY <1>3, Zenon DEF Prefix

\* The bytes 1 .. b as a sequence.
LEMMA BytesFacts ==
    \A b \in Nat :
        /\ Bytes(b) \in Seq(Int) /\ Len(Bytes(b)) = b
        /\ \A i \in 1..b : Bytes(b)[i] = i
<1> SUFFICES ASSUME NEW b \in Nat
             PROVE  /\ Bytes(b) \in Seq(Int) /\ Len(Bytes(b)) = b
                    /\ \A i \in 1..b : Bytes(b)[i] = i
    OBVIOUS
<1>1. Bytes(b) \in [1..b -> Int] /\ \A i \in 1..b : Bytes(b)[i] = i
    <2>1. \A i \in 1..b : i \in Int
        OBVIOUS
    <2>2. QED BY <2>1, Zenon DEF Bytes
<1>2. Bytes(b) \in Seq(Int) /\ Len(Bytes(b)) = b
    BY <1>1
<1>3. QED BY <1>1, <1>2, Zenon

\* A run from the first byte on is a prefix of all bytes.
LEMMA RunPrefix ==
    ASSUME NEW s \in Seq(Int), NEW a \in Nat, NEW b \in Nat, IsRun(s, 0, a), a <= b
    PROVE  Prefix(s, Bytes(b))
<1>1. Len(s) = a /\ \A i \in 1..a : s[i] = i
    BY DEF IsRun
<1>2. Bytes(b) \in Seq(Int) /\ Len(Bytes(b)) = b /\ \A i \in 1..b : Bytes(b)[i] = i
    BY BytesFacts, Zenon
<1>3. Len(s) <= Len(Bytes(b))
    BY <1>1, <1>2, Zenon
<1>4. \A i \in 1..a : i \in 1..b
    OBVIOUS
<1>5. \A i \in 1..Len(s) : s[i] = Bytes(b)[i]
    BY <1>1, <1>2, <1>4, Zenon
<1>6. QED BY <1>2, <1>3, <1>5, PrefixOf, Zenon

\* An OK and a run behind it is a prefix of the OK and all bytes.
LEMMA TagPrefix ==
    ASSUME NEW s \in Seq(Int), NEW a \in Nat, NEW b \in Nat, Tagged(s, Ok, a), a <= b
    PROVE  Prefix(s, <<Ok>> \o Bytes(b))
<1> DEFINE t == <<Ok>> \o Bytes(b)
<1>1. Len(s) = a + 1 /\ s[1] = Ok /\ \A i \in 1..a : s[i + 1] = i
    BY Zenon DEF Tagged
<1>2. t \in Seq(Int) /\ Len(t) = b + 1 /\ t[1] = Ok /\ \A i \in 1..b : t[i + 1] = i
    <2>1. Ok \in Int
        BY DEF Ok
    <2>2. Bytes(b) \in Seq(Int) /\ Len(Bytes(b)) = b /\ \A i \in 1..b : Bytes(b)[i] = i
        BY BytesFacts, Zenon
    <2>3. t \in Seq(Int) /\ Len(t) = b + 1 /\ t[1] = Ok
        BY <2>1, <2>2
    <2>4. \A i \in 1..b : t[i + 1] = Bytes(b)[i]
        BY <2>1, <2>2
    <2>5. QED BY <2>2, <2>3, <2>4, Zenon
<1> HIDE DEF t
<1>3. Len(s) <= Len(t)
    BY <1>1, <1>2
<1>4. ASSUME NEW i \in 1..Len(s) PROVE s[i] = t[i]
    <2>1. CASE i = 1
        BY <1>1, <1>2, <2>1, Zenon
    <2>2. CASE i # 1
        <3>1. i - 1 \in 1..a /\ i - 1 \in 1..b /\ (i - 1) + 1 = i
            BY <1>1, <2>2
        <3>2. s[(i - 1) + 1] = i - 1 /\ t[(i - 1) + 1] = i - 1
            BY <1>1, <1>2, <3>1, Zenon
        <3>3. QED BY <3>1, <3>2, Zenon
    <2>3. QED BY <2>1, <2>2, Zenon
<1>5. Prefix(s, t)
    BY <1>2, <1>3, <1>4, PrefixOf, Zenon
<1>6. QED BY <1>5, Zenon DEF t

\* The flow means that both ends read a prefix.
LEMMA FlowDelivers == PathType /\ FlowInv => DeliveredPrefix
<1> SUFFICES ASSUME PathType, FlowInv PROVE DeliveredPrefix
    OBVIOUS
<1>1. PICK w \in Flows, r \in Flows : Flow(w, r)
    BY Zenon DEF FlowInv
<1>2. Bounded(w, r) /\ EndsOK(w, r)
    BY <1>1, Zenon DEF Flow
<1>3. /\ App \in Conn /\ Target \in Conn /\ App \in Ends /\ Target \in Ends
      /\ Source(App) = Target /\ Source(Target) = App
    BY Geometry, EndConns, Zenon DEF Ends, Source
<1>4. /\ got[App] \in Seq(Int) /\ got[Target] \in Seq(Int) /\ sent[App] \in Nat /\ sent[Target] \in Nat
      /\ w[App] \in Nat /\ w[Target] \in Nat /\ r[App] \in Nat /\ r[Target] \in Nat
    BY <1>3, Zenon DEF PathType, Flows
<1>5. r[App] <= sent[Target] /\ r[Target] <= sent[App]
    <2>1. /\ r[App] <= w[App] /\ w[App] <= sent[Target]
          /\ r[Target] <= w[Target] /\ w[Target] <= sent[App]
        BY <1>2, <1>3, Zenon DEF Bounded
    <2>2. QED BY <1>4, <2>1
<1>6. Prefix(got[Target], Bytes(sent[App]))
    <2>1. IsRun(got[Target], 0, r[Target])
        BY <1>2, Zenon DEF EndsOK
    <2>2. QED BY <1>4, <1>5, <2>1, RunPrefix, Zenon
<1>7. Prefix(got[App], <<Ok>> \o Bytes(sent[Target])) \/ got[App] = <<Fail>>
    <2>1. CASE got[App] = <<>>
        <3>1. Ok \in Int /\ Bytes(sent[Target]) \in Seq(Int)
            <4>1. Ok \in Int
                BY DEF Ok
            <4>2. QED BY <1>4, <4>1, BytesFacts, Zenon
        <3>2. <<Ok>> \o Bytes(sent[Target]) \in Seq(Int)
            BY <3>1
        <3>3. <<>> \in Seq(Int) /\ \A t \in Seq(Int) : Len(<<>>) <= Len(t)
            OBVIOUS
        <3>4. \A i \in 1..Len(<<>>) : FALSE
            OBVIOUS
        <3>5. QED BY <2>1, <3>2, <3>3, <3>4, PrefixOf, Zenon
    <2>2. CASE Tagged(got[App], Ok, r[App])
        BY <1>4, <1>5, <2>2, TagPrefix, Zenon
    <2>3. QED BY <1>2, <2>1, <2>2, Zenon DEF EndsOK
<1>8. QED BY <1>6, <1>7, Zenon DEF DeliveredPrefix

\* What the application and the target receive is a prefix of what the other end sent,
\* behind one answer for the application, on every path: no relay, no reader of the
\* HTTP proxy and no copy loop loses, repeats or reorders a byte before the connection
\* ends, and nothing of the CONNECT protocol is passed on.
THEOREM Delivery == Spec => []DeliveredPrefix
<1>1. PathType /\ PathInv /\ FlowInv /\ [Next]_vars => (PathType /\ PathInv /\ FlowInv)'
    BY PathStep, FlowStep, Zenon
<1>2. Init => PathType /\ PathInv /\ FlowInv
    BY PathInit, FlowInit, Zenon
<1>3. QED BY <1>1, <1>2, FlowDelivers, PTL DEF Spec

-----------------------------------------------------------------------------
(* Types: with the flow, only bytes are copied.                            *)

Byte == 1..MaxBytes
Item == {Req, Ok, Fail} \cup Byte

Carried ==
    /\ inq \in [Conn -> Seq(Item)]
    /\ hold \in [Node \X Dir -> {None} \cup Byte]
    /\ sent \in [Ends -> 0..MaxBytes]

Within ==
    /\ dead \subseteq made /\ shut \subseteq fin /\ fin \subseteq Conn
    /\ up \subseteq Mux /\ breaks \in 0..MaxBreaks
    /\ ended \subseteq Node \X Dir /\ collided \subseteq Dir

\* What the queue operations put into a queue.
LEMMA ItemQueues ==
    ASSUME NEW q \in [Conn -> Seq(Item)], NEW c \in Conn
    PROVE  /\ q[c] # <<>> => Take(q, c) \in [Conn -> Seq(Item)] /\ Head(q[c]) \in Item
           /\ \A x \in Item : Put(q, c, x) \in [Conn -> Seq(Item)]
           /\ \A s \in Seq(Item) : [q EXCEPT ![c] = s] \in [Conn -> Seq(Item)]
<1>1. Peer(c) \in Conn /\ q[c] \in Seq(Item) /\ q[Peer(c)] \in Seq(Item)
    BY ConnFacts, Zenon
<1>2. \A s \in Seq(Item), e \in Conn : [q EXCEPT ![e] = s] \in [Conn -> Seq(Item)]
    BY Zenon
<1>3. q[c] # <<>> => Tail(q[c]) \in Seq(Item) /\ Head(q[c]) \in Item
    BY <1>1
<1>4. q[c] # <<>> => Take(q, c) \in [Conn -> Seq(Item)]
    BY <1>2, <1>3, Zenon DEF Take
<1>5. ASSUME NEW x \in Item PROVE Put(q, c, x) \in [Conn -> Seq(Item)]
    <2>1. <<x>> \in Seq(Item) /\ Append(q[Peer(c)], x) \in Seq(Item)
        BY <1>1
    <2>2. (IF Peer(c) \in shut THEN <<x>> ELSE Append(q[Peer(c)], x)) \in Seq(Item)
        BY <2>1, Zenon
    <2>3. QED BY <1>1, <1>2, <2>2, Zenon DEF Put
<1>6. QED BY <1>2, <1>3, <1>4, <1>5, Zenon

\* A sequence whose elements are in a set is a sequence over it.
LEMMA SeqOver ==
    ASSUME NEW S, NEW s \in Seq(Int), \A i \in 1..Len(s) : s[i] \in S
    PROVE  s \in Seq(S)
OBVIOUS

\* A run within the bound is a sequence of bytes.
LEMMA RunBytes ==
    ASSUME NEW s \in Seq(Int), NEW a \in Nat, NEW b \in Nat, IsRun(s, a, b), b <= MaxBytes
    PROVE  s \in Seq(Byte)
<1>1. \A i \in 1..Len(s) : s[i] \in Byte
    BY PathAssumption DEF IsRun, Byte
<1>2. QED BY <1>1, SeqOver, Zenon

\* What the HTTP proxy's reader holds, and what the ends received, are bytes, but for
\* the answer.
LEMMA EndsHoldBytes ==
    ASSUME PathType, FlowInv, Carried
    PROVE  buf \in Seq(Byte) /\ got \in [Ends -> Seq({Ok, Fail} \cup Byte)]
<1>1. PICK w \in Flows, r \in Flows : Flow(w, r)
    BY Zenon DEF FlowInv
<1>2. Bounded(w, r) /\ EndsOK(w, r) /\ BufOK
    BY <1>1, Zenon DEF Flow
<1>3. /\ App \in Conn /\ Target \in Conn /\ App \in Ends /\ Target \in Ends
      /\ Source(App) = Target /\ Source(Target) = App
    BY Geometry, EndConns DEF Ends, Source
<1>4. /\ got \in [Ends -> Seq(Int)] /\ got[App] \in Seq(Int) /\ got[Target] \in Seq(Int)
      /\ buf \in Seq(Int) /\ sent[App] \in 0..MaxBytes /\ sent[Target] \in 0..MaxBytes
      /\ w[App] \in Nat /\ w[Target] \in Nat /\ r[App] \in Nat /\ r[Target] \in Nat
    BY <1>3, Zenon DEF PathType, Flows, Carried
<1>5. r[App] <= MaxBytes /\ r[Target] <= MaxBytes
    <2>1. /\ r[App] <= w[App] /\ w[App] <= sent[Target]
          /\ r[Target] <= w[Target] /\ w[Target] <= sent[App]
        BY <1>2, <1>3, Zenon DEF Bounded
    <2>2. QED BY <1>4, <2>1, PathAssumption
<1>6. buf \in Seq(Byte)
    <2>1. IsRun(buf, 0, Len(buf)) /\ Len(buf) <= sent[App]
        BY <1>2, Zenon DEF BufOK
    <2>2. Len(buf) \in Nat /\ Len(buf) <= MaxBytes /\ 0 \in Nat
        BY <1>4, <2>1, PathAssumption
    <2>3. QED BY <1>4, <2>1, <2>2, RunBytes, Zenon
<1>7. got[Target] \in Seq({Ok, Fail} \cup Byte)
    <2>1. got[Target] \in Seq(Byte)
        <3>1. 0 \in Nat
            OBVIOUS
        <3>2. QED BY <1>2, <1>4, <1>5, <3>1, RunBytes, Zenon DEF EndsOK
    <2>2. QED BY <2>1
<1>8. got[App] \in Seq({Ok, Fail} \cup Byte)
    <2>1. <<>> \in Seq({Ok, Fail} \cup Byte) /\ <<Fail>> \in Seq({Ok, Fail} \cup Byte)
        OBVIOUS
    <2>2. ASSUME Tagged(got[App], Ok, r[App])
          PROVE  got[App] \in Seq({Ok, Fail} \cup Byte)
        <3>1. /\ Len(got[App]) = r[App] + 1 /\ got[App][1] = Ok
              /\ \A i \in 1..r[App] : got[App][i + 1] = i
            BY <2>2, Zenon DEF Tagged
        <3>2. ASSUME NEW i \in 1..Len(got[App]), i # 1 PROVE got[App][i] \in Byte
            <4>1. i - 1 \in 1..r[App] /\ (i - 1) + 1 = i /\ i - 1 \in Byte
                <5>1. i \in 1..(r[App] + 1) /\ r[App] \in Nat /\ r[App] <= MaxBytes /\ MaxBytes \in Nat
                    BY <1>4, <1>5, <3>1, PathAssumption, Zenon
                <5>2. QED BY <3>2, <5>1 DEF Byte
            <4>2. got[App][(i - 1) + 1] = i - 1
                BY <3>1, <4>1, Zenon
            <4>3. QED BY <4>1, <4>2, Zenon
        <3>3. \A i \in 1..Len(got[App]) : got[App][i] \in {Ok, Fail} \cup Byte
            BY <3>1, <3>2, Zenon
        <3>4. QED BY <1>4, <3>3, SeqOver, Zenon
    <2>3. QED BY <1>2, <2>1, <2>2, Zenon DEF EndsOK
<1>9. \A c \in Ends : got[c] \in Seq({Ok, Fail} \cup Byte)
    BY <1>7, <1>8, Zenon DEF Ends
<1>10. got \in [Ends -> Seq({Ok, Fail} \cup Byte)]
    BY <1>4, <1>9
<1>11. QED BY <1>6, <1>10, Zenon

\* A byte that a copy loop reads.
LEMMA ReadsByte ==
    ASSUME PathType, FlowInv, Carried, NEW n \in Node, NEW d \in Dir,
           pc[n] = "copy", Src(n, d) \notin shut, inq[Src(n, d)] # <<>>
    PROVE  Head(inq[Src(n, d)]) \in Byte
<1> DEFINE c == Src(n, d)
<1>1. PICK w \in Flows, r \in Flows : Flow(w, r)
    BY Zenon DEF FlowInv
<1>2. c \in Conn
    BY Geometry, ConnFacts, Zenon DEF Src
<1>3. IsRun(inq[c], r[c], w[c])
    BY <1>1, SrcRuns, Zenon
<1>4. inq[c] \in Seq(Int) /\ r[c] \in Nat /\ w[c] \in Nat /\ inq \in [Conn -> Seq(Item)]
    BY <1>2, Zenon DEF PathType, Queues, Flows, Carried
<1>5. Head(inq[c]) = r[c] + 1
    BY <1>3, <1>4, RunFacts, Zenon
<1>6. Head(inq[c]) \in Item
    BY <1>2, <1>4, ItemQueues, Zenon
<1>7. r[c] + 1 # Req /\ r[c] + 1 # Ok /\ r[c] + 1 # Fail
    BY <1>4 DEF Req, Ok, Fail
<1>8. QED BY <1>5, <1>6, <1>7, Zenon DEF Item

\* Links carry the words of the protocol and bytes.
LEMMA CarriedStep ==
    ASSUME PathType, PathInv, FlowInv, Carried, [Next]_vars
    PROVE  Carried'
<1> DEFINE Q == [Conn -> Seq(Item)]
<1>1. inq \in Q /\ hold \in [Node \X Dir -> {None} \cup Byte] /\ sent \in [Ends -> 0..MaxBytes]
    BY Zenon DEF Carried
<1>2. Req \in Item /\ Ok \in Item /\ Fail \in Item /\ Byte \subseteq Item
    BY Zenon DEF Item
<1>3. /\ \A n \in Node : Left(n) \in Conn /\ Right(n) \in Conn
      /\ \A n \in Node, d \in Dir : Src(n, d) \in Conn /\ Dst(n, d) \in Conn
      /\ \A c \in Ends : c \in Conn
    BY ConnFacts, Zenon DEF Src, Dst, Ends
<1>4. buf \in Seq(Byte)
    BY EndsHoldBytes, Zenon
<1> HIDE DEF Q
<1>5. ASSUME NEW n \in Node, HandlerStep(n) \/ (n = Nodes /\ DialTarget) PROVE Carried'
    <2>1. hold' = hold /\ sent' = sent
        BY <1>5, Zenon DEF HandlerStep, AcceptStream, ReadRequest, RequestFails, OpenStream,
            OpenFails, RequestRejected, ReadResponse, ResponseFails, ResponseTimesOut, AnswerOK,
            AnswerFails, RelayReturns, DialTarget, Refuse, copyVars, endVars
    <2>2. inq' \in Q
        <3>1. CASE ReadRequest(n)
            <4>0. <<>> \in Seq(Item)
                OBVIOUS
            <4>1. inq[Left(n)] # <<>>
                BY <3>1, Zenon DEF ReadRequest, Readable
            <4>2. inq' = Take(inq, Left(n)) \/ inq' = [inq EXCEPT ![Left(n)] = <<>>]
                BY <3>1, Zenon DEF ReadRequest
            <4>3. Take(inq, Left(n)) \in Q
                BY <1>1, <1>3, <4>1, ItemQueues, Zenon DEF Q
            <4>4. [inq EXCEPT ![Left(n)] = <<>>] \in Q
                BY <1>1, <1>3, <4>0, ItemQueues, Zenon DEF Q
            <4>5. QED BY <4>2, <4>3, <4>4, Zenon
        <3>2. CASE OpenStream(n)
            BY <1>1, <1>2, <1>3, <3>2, ItemQueues, Zenon DEF OpenStream, Q
        <3>3. CASE Refuse(n)
            BY <1>1, <1>2, <1>3, <3>3, ItemQueues, Zenon DEF Refuse, Q
        <3>4. CASE ReadResponse(n)
            BY <1>1, <1>3, <3>4, ItemQueues, Zenon DEF ReadResponse, Readable, Q
        <3>5. CASE AnswerOK(n)
            <4> DEFINE q == Put(inq, Left(n), Ok)
            <4>1. q \in Q
                BY <1>1, <1>2, <1>3, ItemQueues, Zenon DEF Q
            <4>2. inq' = q \/ (buf # <<>> /\ inq' = Put(q, Right(n), Head(buf)))
                BY <3>5, Zenon DEF AnswerOK
            <4> HIDE DEF q
            <4>3. buf # <<>> => Head(buf) \in Byte
                BY <1>4
            <4>4. \A x \in Item : Put(q, Right(n), x) \in Q
                BY <1>3, <4>1, ItemQueues, Zenon DEF Q
            <4>5. QED BY <1>2, <4>1, <4>2, <4>3, <4>4, Zenon
        <3>6. CASE AcceptStream(n) \/ RequestFails(n) \/ AnswerFails(n) \/ RelayReturns(n)
                   \/ DialTarget
            <4>1. inq' = inq
                BY <3>6, Zenon DEF AcceptStream, RequestFails, AnswerFails, RelayReturns,
                    DialTarget, linkVars
            <4>2. QED BY <1>1, <4>1, Zenon
        <3>7. QED BY <1>5, <3>1, <3>2, <3>3, <3>4, <3>5, <3>6, Zenon DEF HandlerStep, OpenFails,
                    RequestRejected, ResponseFails, ResponseTimesOut
    <2>3. QED BY <1>1, <2>1, <2>2, Zenon DEF Carried, Q
<1>6. ASSUME NEW n \in Node, NEW d \in Dir, CopyStep(n, d) PROVE Carried'
    <2>1. sent' = sent
        BY <1>6, Zenon DEF CopyStep, CopyRead, CopyWrite, CopyWriteFails, CopyEnds, LoopReturns,
            endVars
    <2>2. <<n, d>> \in Node \X Dir
        BY Zenon
    <2>3. ASSUME NEW x \in {None} \cup Byte, hold' = [hold EXCEPT ![<<n, d>>] = x]
          PROVE  hold' \in [Node \X Dir -> {None} \cup Byte]
        BY <1>1, <2>2, <2>3, Zenon
    <2>4. CASE CopyRead(n, d)
        <3> DEFINE x == Head(inq[Src(n, d)])
        <3>1. /\ pc[n] = "copy" /\ Src(n, d) \notin shut /\ inq[Src(n, d)] # <<>>
              /\ hold' = [hold EXCEPT ![<<n, d>>] = x] /\ inq' = Take(inq, Src(n, d))
            BY <2>4, Zenon DEF CopyRead, Copying, Readable
        <3>2. x \in Byte
            BY <3>1, ReadsByte, Zenon
        <3> HIDE DEF x
        <3>3. hold' \in [Node \X Dir -> {None} \cup Byte]
            BY <2>3, <3>1, <3>2, Zenon
        <3>4. inq' \in Q
            BY <1>1, <1>3, <3>1, ItemQueues, Zenon DEF Q
        <3>5. QED BY <1>1, <2>1, <3>3, <3>4, Zenon DEF Carried, Q
    <2>5. CASE CopyWrite(n, d)
        <3>1. hold[<<n, d>>] \in Item
            BY <1>1, <1>2, <2>2, <2>5, Zenon DEF CopyWrite
        <3>2. inq' \in Q
            BY <1>1, <1>3, <2>5, <3>1, ItemQueues, Zenon DEF CopyWrite, Q
        <3>3. hold' \in [Node \X Dir -> {None} \cup Byte]
            BY <2>3, <2>5, Zenon DEF CopyWrite
        <3>4. QED BY <1>1, <2>1, <3>2, <3>3, Zenon DEF Carried, Q
    <2>6. CASE CopyWriteFails(n, d) \/ CopyEnds(n, d)
        <3>1. inq' = inq /\ hold' = [hold EXCEPT ![<<n, d>>] = None]
            BY <2>6, Zenon DEF CopyWriteFails, CopyEnds, LoopReturns
        <3>2. hold' \in [Node \X Dir -> {None} \cup Byte]
            BY <2>3, <3>1, Zenon
        <3>3. QED BY <1>1, <2>1, <3>1, <3>2, Zenon DEF Carried, Q
    <2>7. QED BY <1>6, <2>4, <2>5, <2>6, Zenon DEF CopyStep
<1>7. CASE AppRequest
    <2>1. PICK k \in {0, 1} :
              /\ k <= MaxBytes /\ inq' = [inq EXCEPT ![Peer(App)] = <<Req>> \o Bytes(k)]
              /\ sent' = [sent EXCEPT ![App] = k]
        BY <1>7, Zenon DEF AppRequest
    <2>2. k \in 0..MaxBytes /\ Bytes(k) \in Seq(Byte)
        <3>1. k \in 0..MaxBytes /\ k \in Nat /\ \A i \in 1..k : i \in Byte
            BY <2>1, PathAssumption DEF Byte
        <3>2. Bytes(k) \in Seq(Int) /\ Len(Bytes(k)) = k /\ \A i \in 1..k : Bytes(k)[i] = i
            BY <3>1, BytesFacts, Zenon
        <3>3. \A i \in 1..Len(Bytes(k)) : Bytes(k)[i] \in Byte
            BY <3>1, <3>2, Zenon
        <3>4. QED BY <3>1, <3>2, <3>3, SeqOver, Zenon
    <2>3. <<Req>> \o Bytes(k) \in Seq(Item)
        <3>1. Bytes(k) \in Seq(Item) /\ <<Req>> \in Seq(Item)
            BY <1>2, <2>2
        <3>2. QED BY <3>1
    <2>4. inq' \in Q
        BY <1>1, <2>1, <2>3, EndConns, ItemQueues, Zenon DEF Q
    <2>5. sent' \in [Ends -> 0..MaxBytes] /\ hold' = hold
        BY <1>1, <1>7, <2>1, <2>2, Zenon DEF AppRequest, copyVars
    <2>6. QED BY <1>1, <2>4, <2>5, Zenon DEF Carried, Q
<1>8. ASSUME NEW c \in Ends, EndSend(c) PROVE Carried'
    <2>1. sent[c] \in 0..MaxBytes /\ sent[c] < MaxBytes
        BY <1>1, <1>8, Zenon DEF EndSend
    <2>2. sent[c] + 1 \in 0..MaxBytes /\ sent[c] + 1 \in Byte
        BY <2>1, PathAssumption DEF Byte
    <2>3. inq' \in Q
        BY <1>1, <1>2, <1>3, <1>8, <2>2, ItemQueues, Zenon DEF EndSend, Q
    <2>4. sent' \in [Ends -> 0..MaxBytes] /\ hold' = hold
        BY <1>1, <1>8, <2>2, Zenon DEF EndSend
    <2>5. QED BY <1>1, <2>3, <2>4, Zenon DEF Carried, Q
<1>9. ASSUME NEW c \in Ends, EndReceive(c) PROVE Carried'
    <2>1. inq' \in Q
        BY <1>1, <1>3, <1>9, ItemQueues, Zenon DEF EndReceive, Readable, Q
    <2>2. hold' = hold /\ sent' = sent
        BY <1>9, Zenon DEF EndReceive, copyVars
    <2>3. QED BY <1>1, <2>1, <2>2, Zenon DEF Carried, Q
<1>10. CASE \/ \E c \in Ends : EndFinish(c) \/ EndClose(c)
            \/ \E i \in Link : Reset(i) \/ SessionBreaks(i) \/ SessionReconnects(i)
            \/ UNCHANGED vars
    <2>1. inq' = inq /\ hold' = hold /\ sent' = sent
        BY <1>10, Zenon DEF EndFinish, EndClose, Reset, SessionBreaks, SessionReconnects, vars,
            linkVars, copyVars, endVars
    <2>2. QED BY <1>1, <2>1, Zenon DEF Carried
<1>11. Nodes \in Node
    BY Geometry, Zenon
<1>12. QED BY <1>5, <1>6, <1>7, <1>8, <1>9, <1>10, <1>11, Zenon DEF Next

\* Links, sessions and loops that exist.
LEMMA WithinStep ==
    ASSUME PathType, PathInv, FlowInv, Within, [Next]_vars
    PROVE  Within'
<1>1. /\ dead \subseteq made /\ shut \subseteq fin /\ fin \subseteq Conn
      /\ up \subseteq Mux /\ breaks \in 0..MaxBreaks
      /\ ended \subseteq Node \X Dir /\ collided \subseteq Dir
    BY Zenon DEF Within
<1>2. /\ \A n \in Node : Left(n) \in Conn /\ Right(n) \in Conn
      /\ \A n \in Node, d \in Dir : Dst(n, d) \in Conn
      /\ \A c \in Ends : c \in Conn
      /\ "fwd" \in Dir /\ "bwd" \in Dir
    BY ConnFacts, Zenon DEF Dst, Ends, Dir
<1>3. ASSUME NEW n \in Node, HandlerStep(n) \/ (n = Nodes /\ DialTarget) PROVE Within'
    <2>1. /\ up' = up /\ breaks' = breaks /\ ended' = ended /\ dead' = dead
          /\ made \subseteq made'
        BY <1>3, Zenon DEF HandlerStep, AcceptStream, ReadRequest, RequestFails, OpenStream,
            OpenFails, RequestRejected, ReadResponse, ResponseFails, ResponseTimesOut, AnswerOK,
            AnswerFails, RelayReturns, DialTarget, Refuse, linkVars, sessVars, copyVars
    <2>2. \/ shut' = shut /\ fin' = fin
          \/ \E C \in SUBSET Conn : shut' = shut \cup C /\ fin' = fin \cup C
        <3>1. CASE RequestFails(n) \/ AnswerFails(n) \/ RelayReturns(n)
            <4>1. {Left(n)} \in SUBSET Conn /\ {Left(n), Right(n)} \in SUBSET Conn
                BY <1>2, Zenon
            <4>2. QED BY <3>1, <4>1, Zenon DEF RequestFails, AnswerFails, RelayReturns, Close
        <3>2. CASE Refuse(n)
            <4> DEFINE C == {Left(n)} \cup (IF n \in made THEN {Right(n)} ELSE {})
            <4>1. C \in SUBSET Conn
                BY <1>2, Zenon
            <4>2. shut' = shut \cup C /\ fin' = fin \cup C
                BY <3>2, Zenon DEF Refuse, Close
            <4>3. QED BY <4>1, <4>2, Zenon
        <3>3. CASE AcceptStream(n) \/ ReadRequest(n) \/ OpenStream(n) \/ ReadResponse(n)
                   \/ AnswerOK(n) \/ DialTarget
            BY <3>3, Zenon DEF AcceptStream, ReadRequest, OpenStream, ReadResponse, AnswerOK,
                DialTarget, linkVars
        <3>4. QED BY <1>3, <3>1, <3>2, <3>3, Zenon DEF HandlerStep, OpenFails, RequestRejected,
                    ResponseFails, ResponseTimesOut
    <2>3. shut' \subseteq fin' /\ fin' \subseteq Conn
        BY <1>1, <2>2, Zenon
    <2>4. collided' \subseteq Dir
        <3>1. CASE AnswerOK(n)
            BY <1>1, <1>2, <3>1, Zenon DEF AnswerOK
        <3>2. CASE AnswerFails(n)
            BY <1>1, <1>2, <3>2, Zenon DEF AnswerFails
        <3>3. CASE ~AnswerOK(n) /\ ~AnswerFails(n)
            <4>1. collided' = collided
                BY <1>3, <3>3, Zenon DEF HandlerStep, AcceptStream, ReadRequest, RequestFails,
                    OpenStream, OpenFails, RequestRejected, ReadResponse, ResponseFails,
                    ResponseTimesOut, RelayReturns, DialTarget, Refuse, copyVars
            <4>2. QED BY <1>1, <4>1, Zenon
        <3>4. QED BY <3>1, <3>2, <3>3, Zenon
    <2>5. dead' \subseteq made'
        BY <1>1, <2>1, Zenon
    <2>6. QED BY <1>1, <2>1, <2>3, <2>4, <2>5, Zenon DEF Within
<1>4. ASSUME NEW n \in Node, NEW d \in Dir, CopyStep(n, d) PROVE Within'
    <2>1. up' = up /\ breaks' = breaks /\ dead' = dead /\ made' = made
        BY <1>4, Zenon DEF CopyStep, CopyRead, CopyWrite, CopyWriteFails, CopyEnds, LoopReturns,
            sessVars
    <2>2. /\ ended' = ended \/ ended' = ended \cup {<<n, d>>}
          /\ collided' = collided \/ collided' = collided \cup {d}
        BY <1>4, Zenon DEF CopyStep, CopyRead, CopyWrite, CopyWriteFails, CopyEnds, LoopReturns
    <2>3. \/ shut' = shut /\ fin' = fin
          \/ shut' = shut \cup {Dst(n, d)} /\ fin' = fin \cup {Dst(n, d)}
        BY <1>4, Zenon DEF CopyStep, CopyRead, CopyWrite, CopyWriteFails, CopyEnds, LoopReturns,
            Close
    <2>4. shut' \subseteq fin' /\ fin' \subseteq Conn
        BY <1>1, <1>2, <2>3, Zenon
    <2>5. ended' \subseteq Node \X Dir /\ collided' \subseteq Dir
        <3>1. <<n, d>> \in Node \X Dir
            BY Zenon
        <3>2. ended' \subseteq Node \X Dir
            BY <1>1, <2>2, <3>1, SMT
        <3>3. collided' \subseteq Dir
            BY <1>1, <2>2, Zenon
        <3>4. QED BY <3>2, <3>3, Zenon
    <2>6. QED BY <1>1, <2>1, <2>4, <2>5, Zenon DEF Within
<1>5. ASSUME NEW c \in Ends, EndSend(c) \/ EndReceive(c) \/ EndFinish(c) \/ EndClose(c) \/ AppRequest
      PROVE  Within'
    <2>1. up' = up /\ breaks' = breaks /\ dead' = dead /\ made' = made /\ ended' = ended
        BY <1>5, Zenon DEF EndSend, EndReceive, EndFinish, EndClose, AppRequest, sessVars, copyVars
    <2>2. \/ collided' = collided
          \/ collided' = collided \cup {IF c = App THEN "fwd" ELSE "bwd"}
        BY <1>5, Zenon DEF EndSend, EndReceive, EndFinish, EndClose, AppRequest, copyVars
    <2>3. \/ shut' = shut /\ (fin' = fin \/ fin' = fin \cup {c})
          \/ shut' = shut \cup {c} /\ fin' = fin \cup {c}
        BY <1>5, Zenon DEF EndSend, EndReceive, EndFinish, EndClose, AppRequest, Close
    <2>4. shut' \subseteq fin' /\ fin' \subseteq Conn
        BY <1>1, <1>2, <2>3, Zenon
    <2>5. collided' \subseteq Dir
        BY <1>1, <1>2, <2>2, Zenon
    <2>6. QED BY <1>1, <2>1, <2>4, <2>5, Zenon DEF Within
<1>6. ASSUME NEW i \in Link, Reset(i) PROVE Within'
    <2>1. PICK w \in Flows, r \in Flows : Flow(w, r)
        BY Zenon DEF FlowInv
    <2>2. i \in made
        <3>1. Unmade
            BY <2>1, Zenon DEF Flow
        <3>2. inq[<<i, "L">>] # <<>> \/ inq[<<i, "R">>] # <<>>
            BY <1>6, Zenon DEF Reset
        <3>3. QED BY <3>1, <3>2, Zenon DEF Unmade
    <2>3. /\ dead' = dead \cup {i} /\ made' = made /\ fin' = fin /\ shut' = shut /\ up' = up
          /\ breaks' = breaks /\ ended' = ended /\ collided' = collided
        BY <1>6, Zenon DEF Reset, sessVars, copyVars
    <2>4. dead' \subseteq made'
        BY <1>1, <2>2, <2>3, Zenon
    <2>5. QED BY <1>1, <2>3, <2>4, Zenon DEF Within
<1>7. ASSUME NEW i \in Link, SessionBreaks(i) \/ SessionReconnects(i) PROVE Within'
    <2>1. /\ made' = made /\ fin' = fin /\ shut' = shut /\ ended' = ended
          /\ collided' = collided
        BY <1>7, Zenon DEF SessionBreaks, SessionReconnects, linkVars, copyVars
    <2>2. dead' \subseteq made'
        BY <1>1, <1>7, <2>1, Zenon DEF SessionBreaks, SessionReconnects, linkVars
    <2>3. up' \subseteq Mux
        <3>1. up' = up \ {i} \/ (i \in Mux /\ up' = up \cup {i})
            BY <1>7, Zenon DEF SessionBreaks, SessionReconnects
        <3>2. QED BY <1>1, <3>1, SMT
    <2>4. breaks' \in 0..MaxBreaks
        <3>1. breaks < MaxBreaks => breaks + 1 \in 0..MaxBreaks
            BY <1>1, PathAssumption
        <3>2. QED BY <1>1, <1>7, <3>1, Zenon DEF SessionBreaks, SessionReconnects
    <2>5. QED BY <1>1, <2>1, <2>2, <2>3, <2>4, Zenon DEF Within
<1>8. CASE UNCHANGED vars
    BY <1>1, <1>8, Zenon DEF Within, vars, linkVars, sessVars, copyVars
<1>9. Nodes \in Node /\ App \in Ends
    BY Geometry, Zenon DEF Ends
<1>10. QED BY <1>3, <1>4, <1>5, <1>6, <1>7, <1>8, <1>9, Zenon DEF Next

\* At first one link exists and nothing is closed.
LEMMA WithinInit == Init => Within
<1>1. 0 \in 0..MaxBreaks
    BY PathAssumption
<1>2. QED BY <1>1, Zenon DEF Init, Within

\* Every variable keeps its type: queues hold words of the protocol and bytes, while
\* the copy loops and the HTTP proxy's reader hold only bytes, because the handlers took
\* the request and the answer off the queues before (readConnectRequest,
\* readConnectResponse).
THEOREM Types == Spec => []TypeOK
<1> DEFINE Inv == PathType /\ PathInv /\ FlowInv /\ Carried /\ Within
<1>1. Init => Inv
    <2> SUFFICES ASSUME Init PROVE Carried
        BY PathInit, FlowInit, WithinInit, Zenon
    <2>1. <<>> \in Seq(Item) /\ 0 \in 0..MaxBytes
        BY PathAssumption
    <2>2. Carried
        <3>1. inq = [c \in Conn |-> <<>>] /\ sent = [c \in Ends |-> 0]
              /\ hold = [x \in Node \X Dir |-> None]
            BY Zenon DEF Init
        <3>2. None \in {None} \cup Byte
            BY Zenon
        <3>3. QED BY <2>1, <3>1, <3>2 DEF Carried
    <2>3. QED BY <2>2, Zenon
<1>2. Inv /\ [Next]_vars => Inv'
    BY PathStep, FlowStep, CarriedStep, WithinStep, Zenon
<1>3. Inv => TypeOK
    BY EndsHoldBytes, Zenon DEF PathType, PathInv, Carried, Within, TypeOK, Places, Item, Byte
<1>4. QED BY <1>1, <1>2, <1>3, PTL DEF Spec

-----------------------------------------------------------------------------
(* The path as two byte streams.                                           *)

\* Only the ends finish a conn without closing it.
Finished == \A c \in fin : c \in shut \/ c \in Ends

\* A closed conn stays closed, and whoever but an end finishes a conn closes it.
LEMMA Closes ==
    ASSUME [Next]_vars
    PROVE  shut \subseteq shut' /\ \A c \in fin' : c \in fin \/ c \in shut' \/ c \in Ends
<1> USE DEF linkVars, Close
<1>1. ASSUME shut' = shut, fin' = fin
      PROVE  shut \subseteq shut' /\ \A c \in fin' : c \in fin \/ c \in shut' \/ c \in Ends
    BY <1>1, Zenon
<1>2. ASSUME NEW C, Close(C)
      PROVE  shut \subseteq shut' /\ \A c \in fin' : c \in fin \/ c \in shut' \/ c \in Ends
    BY <1>2, Zenon
<1>3. ASSUME NEW n \in Node, HandlerStep(n) \/ DialTarget
      PROVE  (shut' = shut /\ fin' = fin) \/ \E C : Close(C)
    BY <1>3, Zenon DEF HandlerStep, AcceptStream, ReadRequest, RequestFails, OpenStream,
        OpenFails, RequestRejected, ReadResponse, ResponseFails, ResponseTimesOut, AnswerOK,
        AnswerFails, RelayReturns, DialTarget, Refuse
<1>4. ASSUME NEW n \in Node, NEW d \in Dir, CopyStep(n, d)
      PROVE  (shut' = shut /\ fin' = fin) \/ \E C : Close(C)
    BY <1>4, Zenon DEF CopyStep, CopyRead, CopyWrite, CopyWriteFails, CopyEnds, LoopReturns
<1>5. ASSUME \/ AppRequest
             \/ \E c \in Ends : EndSend(c) \/ EndReceive(c) \/ EndClose(c)
             \/ \E i \in Link : Reset(i) \/ SessionBreaks(i) \/ SessionReconnects(i)
             \/ UNCHANGED vars
      PROVE  (shut' = shut /\ fin' = fin) \/ \E C : Close(C)
    BY <1>5, Zenon DEF AppRequest, EndSend, EndReceive, EndClose, Reset, SessionBreaks,
        SessionReconnects, vars
<1>6. ASSUME NEW c \in Ends, EndFinish(c)
      PROVE  shut \subseteq shut' /\ \A e \in fin' : e \in fin \/ e \in shut' \/ e \in Ends
    BY <1>6, Zenon DEF EndFinish
<1>7. 1 \in Node
    BY Geometry, Zenon
<1>8. QED BY <1>1, <1>2, <1>3, <1>4, <1>5, <1>6, <1>7, Zenon DEF Next
\* Which conns are at the ends.
LEMMA EndsApart ==
    /\ \A e \in Ends : e \in Conn /\ Peer(e) \in Conn /\ Peer(e) \notin Ends /\ Peer(Peer(e)) = e
    /\ \A n \in Node : Left(n) \notin Ends /\ Right(n) \notin Ends
    /\ \A n \in Node : n < Nodes => Peer(Right(n)) \notin Ends
    /\ \A n \in Node : Peer(App) = Left(n) \/ Peer(App) = Right(n) => n = 1
    /\ \A n \in Node : Peer(Target) = Left(n) \/ Peer(Target) = Right(n) => n = Nodes
    /\ App[1] = 0 /\ Target[1] = Nodes /\ App # Target /\ Nodes # 0 /\ Nodes # 1
<1>1. /\ App = <<0, "L">> /\ Target = <<Nodes, "R">> /\ Nodes \in Int /\ Nodes >= 2
      /\ Peer(App) = <<0, "R">> /\ Peer(Target) = <<Nodes, "L">>
      /\ App \in Conn /\ Target \in Conn /\ <<0, "R">> \in Conn /\ <<Nodes, "L">> \in Conn
      /\ App # Target /\ App # <<0, "R">> /\ App # <<Nodes, "L">>
      /\ Target # <<0, "R">> /\ Target # <<Nodes, "L">>
    BY Geometry, EndConns, Zenon
<1>2. \A n \in Node : /\ n \in Int /\ Left(n) = <<n - 1, "R">> /\ Right(n) = <<n, "L">>
                      /\ Peer(Right(n)) = <<n, "R">> /\ 1 <= n /\ n <= Nodes
    BY Geometry, Zenon
<1>3. Peer(<<0, "R">>) = App /\ Peer(<<Nodes, "L">>) = Target
    BY <1>1 DEF Peer
<1>4. \A e \in Ends : e \in Conn /\ Peer(e) \in Conn /\ Peer(e) \notin Ends /\ Peer(Peer(e)) = e
    BY <1>1, <1>3, Zenon DEF Ends
<1>5. ASSUME NEW n \in Node
      PROVE  /\ Left(n) \notin Ends /\ Right(n) \notin Ends
             /\ n < Nodes => Peer(Right(n)) \notin Ends
             /\ Peer(App) = Left(n) \/ Peer(App) = Right(n) => n = 1
             /\ Peer(Target) = Left(n) \/ Peer(Target) = Right(n) => n = Nodes
    BY <1>1, <1>2 DEF Ends
<1>6. App[1] = 0 /\ Target[1] = Nodes /\ Nodes # 0 /\ Nodes # 1
    BY <1>1
<1>7. QED BY <1>1, <1>4, <1>5, <1>6, Zenon

\* What Append makes, and what is behind its first item.
LEMMA AppendFacts ==
    ASSUME NEW s \in Seq(Int), NEW x \in Int
    PROVE  /\ Append(s, x) \in Seq(Int) /\ Append(s, x) # <<>>
           /\ s # <<>> => /\ Tail(s) \in Seq(Int) /\ Tail(Append(s, x)) = Append(Tail(s), x)
                          /\ \A y : Append(s, x) # <<y>>
<1>1. Append(s, x) \in Seq(Int)
    OBVIOUS
<1>2. /\ Len(Append(s, x)) = Len(s) + 1 /\ Len(s) \in Nat /\ Len(<<>>) = 0
      /\ \A y : Len(<<y>>) = 1
    OBVIOUS
<1>3. Len(Append(s, x)) # Len(<<>>)
    BY <1>2
<1>4. s # <<>> => Len(Append(s, x)) # 1
    BY <1>2
<1>5. s # <<>> => Tail(s) \in Seq(Int) /\ Tail(Append(s, x)) = Append(Tail(s), x)
    OBVIOUS
<1>6. QED BY <1>1, <1>2, <1>3, <1>4, <1>5, Zenon

\* What an end has to read is as before, unless its peer, which is open, added to it.
Steady(r) == \A e \in Ends : r[e] = inq[e] \/ (r[e] # <<>> /\ Peer(e) \notin shut)

\* Reading elsewhere, and writing where the peer of an end is open, keep it so.
LEMMA SteadyTake ==
    ASSUME NEW q \in Queues, Steady(q), NEW c \in Conn, c \notin Ends PROVE Steady(Take(q, c))
<1>1. \A e \in Ends : Take(q, c)[e] = q[e]
    BY TakeOne, EndsApart, Zenon
<1>2. QED BY <1>1, Zenon DEF Steady

LEMMA SteadyPut ==
    ASSUME NEW q \in Queues, Steady(q), NEW c \in Conn, NEW x \in Int,
           c \notin shut \/ Peer(c) \notin Ends
    PROVE  Steady(Put(q, c, x))
<1> SUFFICES ASSUME NEW e \in Ends
             PROVE  \/ Put(q, c, x)[e] = inq[e]
                    \/ Put(q, c, x)[e] # <<>> /\ Peer(e) \notin shut
    BY Zenon DEF Steady
<1>1. e \in Conn /\ q[e] \in Seq(Int)
    BY EndsApart, Zenon DEF Queues
<1>2. CASE e # Peer(c)
    BY <1>1, <1>2, PutOne, Zenon DEF Steady
<1>3. CASE e = Peer(c)
    <2>1. Peer(e) = c
        BY <1>3 DEF Conn, Peer
    <2>2. c \notin shut
        BY <1>3, Zenon
    <2>3. Put(q, c, x)[e] = <<x>> \/ Put(q, c, x)[e] = Append(q[e], x)
        BY <1>1, <1>3, Zenon DEF Put, Queues
    <2>4. <<x>> # <<>>
        OBVIOUS
    <2>5. Append(q[e], x) # <<>>
        BY <1>1, AppendFacts, Zenon
    <2>6. QED BY <2>1, <2>2, <2>3, <2>4, <2>5, Zenon
<1>4. QED BY <1>2, <1>3, Zenon

\* What a node does, as far as the ends see it.
NodeActs(n) ==
    /\ dead' = dead /\ sent' = sent /\ got' = got /\ Steady(inq')
    /\ \E C \in SUBSET {Left(n), Right(n)} : Close(C)

\* Every handler and every loop does no more than that.
LEMMA NodeSteps ==
    ASSUME PathType, NEW n \in Node,
           HandlerStep(n) \/ (DialTarget /\ n = Nodes) \/ \E d \in Dir : CopyStep(n, d)
    PROVE  NodeActs(n)
<1> USE DEF linkVars, sessVars, copyVars, endVars
<1>1. /\ inq \in Queues /\ Steady(inq) /\ Left(n) \in Conn /\ Right(n) \in Conn
      /\ Left(n) \notin Ends /\ Right(n) \notin Ends
      /\ \A d \in Dir : Src(n, d) \in {Left(n), Right(n)} /\ Dst(n, d) \in {Left(n), Right(n)}
      /\ Req \in Int /\ Ok \in Int /\ Fail \in Int
    <2>1. Req \in Int /\ Ok \in Int /\ Fail \in Int
        BY DEF Req, Ok, Fail
    <2>2. QED BY <2>1, ConnFacts, EndsApart, Zenon DEF PathType, Steady, Src, Dst
<1>2. /\ dead' = dead /\ sent' = sent /\ got' = got
    BY Zenon DEF HandlerStep, AcceptStream, ReadRequest, RequestFails, OpenStream,
        OpenFails, RequestRejected, ReadResponse, ResponseFails, ResponseTimesOut, AnswerOK,
        AnswerFails, RelayReturns, DialTarget, Refuse, CopyStep, CopyRead, CopyWrite,
        CopyWriteFails, CopyEnds, LoopReturns
<1>3. \E C \in SUBSET {Left(n), Right(n)} : Close(C)
    <2>1. CASE shut' = shut /\ fin' = fin
        <3>1. Close({})
            BY <2>1, Zenon DEF Close
        <3>2. QED BY <3>1, Zenon
    <2>2. CASE Refuse(n)
        <3>1. {Left(n)} \cup (IF n \in made THEN {Right(n)} ELSE {}) \in SUBSET {Left(n), Right(n)}
            BY Zenon
        <3>2. QED BY <2>2, <3>1, Zenon DEF Refuse
    <2>3. CASE Close({Left(n)}) \/ Close({Left(n), Right(n)}) \/ \E d \in Dir : Close({Dst(n, d)})
        BY <1>1, <2>3, Zenon
    <2>4. (shut' = shut /\ fin' = fin) \/ Refuse(n)
          \/ Close({Left(n)}) \/ Close({Left(n), Right(n)}) \/ \E d \in Dir : Close({Dst(n, d)})
        BY Zenon DEF HandlerStep, AcceptStream, ReadRequest, RequestFails, OpenStream,
            OpenFails, RequestRejected, ReadResponse, ResponseFails, ResponseTimesOut, AnswerOK,
            AnswerFails, RelayReturns, DialTarget, CopyStep, CopyRead, CopyWrite,
            CopyWriteFails, CopyEnds, LoopReturns
    <2>5. QED BY <2>1, <2>2, <2>3, <2>4, Zenon
<1>4. Steady(inq')
    <2>1. CASE inq' = inq
        BY <1>1, <2>1, Zenon
    <2>2. CASE \E c \in {Left(n), Right(n)} : inq' = Take(inq, c)
        BY <1>1, <2>2, SteadyTake, Zenon
    <2>3. CASE inq' = [inq EXCEPT ![Left(n)] = <<>>]
        <3>1. \A e \in Ends : inq'[e] = inq[e]
            BY <1>1, <2>3, EndsApart, Zenon DEF Queues
        <3>2. QED BY <3>1, Zenon DEF Steady
    <2>4. CASE \E c \in {Left(n), Right(n)}, x \in Int : WriteTakes(c) /\ inq' = Put(inq, c, x)
        BY <1>1, <2>4, SteadyPut, Zenon DEF WriteTakes
    <2>5. CASE OpenStream(n)
        BY <1>1, <2>5, SteadyPut, EndsApart, Zenon DEF OpenStream
    <2>6. CASE AnswerOK(n)
        <3> DEFINE q == Put(inq, Left(n), Ok)
        <3>1. q \in Queues /\ Steady(q)
            BY <1>1, <2>6, PutOne, SteadyPut, Zenon DEF AnswerOK, WriteTakes
        <3>2. CASE inq' = q
            BY <3>1, <3>2, Zenon
        <3>3. CASE buf # <<>> /\ WriteTakes(Right(n)) /\ inq' = Put(q, Right(n), Head(buf))
            <4>1. Head(buf) \in Int
                BY <3>3 DEF PathType
            <4> HIDE DEF q
            <4>2. QED BY <1>1, <3>1, <3>3, <4>1, SteadyPut, Zenon DEF WriteTakes
        <3>4. QED BY <2>6, <3>2, <3>3, Zenon DEF AnswerOK
    <2>7. CASE Refuse(n)
        BY <1>1, <2>1, <2>4, <2>7, Zenon DEF Refuse
    <2>8. CASE ReadRequest(n) \/ ReadResponse(n)
        BY <2>2, <2>3, <2>8, Zenon DEF ReadRequest, ReadResponse
    <2>9. ASSUME NEW d \in Dir, CopyStep(n, d) PROVE Steady(inq')
        <3>1. hold[<<n, d>>] \in Int
            BY Zenon DEF PathType
        <3>2. QED BY <1>1, <2>1, <2>2, <2>4, <2>9, <3>1, Zenon
            DEF CopyStep, CopyRead, CopyWrite, CopyWriteFails, CopyEnds, LoopReturns
    <2>10. CASE inq' # inq
        BY <2>5, <2>6, <2>7, <2>8, <2>9, <2>10, Zenon DEF HandlerStep, AcceptStream, RequestFails,
            OpenFails, RequestRejected, ResponseFails, ResponseTimesOut, AnswerFails, RelayReturns,
            DialTarget
    <2>11. QED BY <2>1, <2>10, Zenon
<1>5. QED BY <1>2, <1>3, <1>4, Zenon DEF NodeActs

\* An end that has nothing more to read never has, and one end at most gets there.
Endings ==
    /\ \A e \in Ends : ReadEnds(e) => ReadEnds(e)'
    /\ \E f \in Ends : \A e \in Ends : e # f => (ReadEnds(e)' => ReadEnds(e))

\* A node ends at most the direction whose last link is its own.
LEMMA NodeEndings == ASSUME Finished, NEW n \in Node, NodeActs(n) PROVE Endings
<1>1. PICK C \in SUBSET {Left(n), Right(n)} : shut' = shut \cup C /\ fin' = fin \cup C
    BY Zenon DEF NodeActs, Close
<1>2. dead' = dead /\ \A e \in Ends : inq'[e] = inq[e] \/ (inq'[e] # <<>> /\ Peer(e) \notin shut)
    BY Zenon DEF NodeActs, Steady
<1>3. ASSUME NEW e \in Ends, ReadEnds(e) PROVE ReadEnds(e)'
    <2>1. CASE inq[e] = <<>> /\ Peer(e) \in fin
        <3>1. Peer(e) \in shut
            BY <2>1, EndsApart, Zenon DEF Finished
        <3>2. inq'[e] = <<>> /\ Peer(e) \in fin'
            BY <1>1, <1>2, <2>1, <3>1, Zenon
        <3>3. QED BY <3>2, Zenon DEF ReadEnds, Peer
    <2>2. QED BY <1>1, <1>2, <1>3, <2>1, Zenon DEF ReadEnds
<1>4. ASSUME NEW e \in Ends, ReadEnds(e)', ~ReadEnds(e) PROVE Peer(e) \in C
    <2>1. e \in shut' \/ e[1] \in dead' \/ (inq'[e] = <<>> /\ Peer(e) \in fin')
        BY <1>4, Zenon DEF ReadEnds, Peer
    <2>2. e \notin shut /\ e[1] \notin dead /\ ~(inq[e] = <<>> /\ Peer(e) \in fin)
        BY <1>4, Zenon DEF ReadEnds
    <2>3. e \notin C
        BY EndsApart, Zenon
    <2>4. QED BY <1>1, <1>2, <2>1, <2>2, <2>3, Zenon
<1>5. ~(Peer(App) \in C /\ Peer(Target) \in C)
    BY EndsApart, Zenon
<1>6. QED BY <1>3, <1>4, <1>5, Zenon DEF Endings, Ends

\* A step that only ends a direction, or none, is a step of the byte streams.
LEMMA EndingStep ==
    ASSUME sent' = sent, got' = got, Endings PROVE [Pipe!Next]_(Pipe!streamVars)
<1>1. UNCHANGED <<PathAccepted, PathDelivered, PathSpoiled>>
    BY Zenon DEF PathAccepted, PathDelivered, PathSpoiled, Origin, Sink, App, Target
<1>2. /\ Sink("fwd") = Target /\ Sink("bwd") = App /\ Dir = {"fwd", "bwd"} /\ "fwd" # "bwd"
      /\ App # Target /\ Ends = {App, Target}
    BY EndsApart DEF Sink, Dir, Ends
<1>3. /\ \A d \in Dir : PathEnded[d] = ReadEnds(Sink(d)) /\ PathEnded'[d] = ReadEnds(Sink(d))'
      /\ PathEnded = [d \in Dir |-> PathEnded[d]] /\ PathEnded' = [d \in Dir |-> PathEnded'[d]]
    BY Zenon DEF PathEnded
<1>4. \A e \in Ends : ReadEnds(e) \in BOOLEAN /\ ReadEnds(e)' \in BOOLEAN
    BY Zenon DEF ReadEnds
<1>5. \A d \in Dir : PathEnded[d] \in BOOLEAN /\ PathEnded'[d] \in BOOLEAN
                     /\ (PathEnded[d] => PathEnded'[d])
    BY <1>2, <1>3, <1>4, Zenon DEF Endings
<1>6. \/ PathEnded["fwd"] = PathEnded'["fwd"]
      \/ PathEnded["bwd"] = PathEnded'["bwd"]
    BY <1>2, <1>3, <1>4, Zenon DEF Endings
<1>7. CASE PathEnded' = PathEnded
    BY <1>1, <1>7, Zenon DEF Pipe!streamVars
<1>8. CASE PathEnded' # PathEnded
    <2>1. PICK d \in Dir : PathEnded'[d] # PathEnded[d]
        BY <1>3, <1>8, Zenon
    <2>2. ~PathEnded[d] /\ PathEnded'[d] = TRUE
        BY <1>5, <2>1, Zenon
    <2>3. \A e \in Dir : e # d => PathEnded'[e] = PathEnded[e]
        BY <1>2, <1>6, <2>1, Zenon
    <2>4. PathEnded' = [PathEnded EXCEPT ![d] = TRUE]
        BY <1>3, <2>2, <2>3, Zenon
    <2>5. Pipe!End(d)
        BY <1>1, <2>2, <2>4, Zenon DEF Pipe!End
    <2>6. QED BY <2>5, Zenon DEF Pipe!Next
<1>9. QED BY <1>7, <1>8, Zenon

\* What the ends and the links do that only ends a direction, or none.
LEMMA OtherEndings ==
    ASSUME \/ \E c \in Ends : EndFinish(c) \/ EndClose(c)
           \/ \E i \in Link : Reset(i) \/ SessionBreaks(i) \/ SessionReconnects(i)
           \/ UNCHANGED vars
    PROVE  sent' = sent /\ got' = got /\ Endings
<1> USE DEF linkVars, sessVars, copyVars, endVars
<1>1. inq' = inq /\ sent' = sent /\ got' = got
    BY Zenon DEF EndFinish, EndClose, Reset, SessionBreaks, SessionReconnects, vars
<1>2. shut \subseteq shut' /\ fin \subseteq fin' /\ dead \subseteq dead'
    BY Zenon DEF EndFinish, EndClose, Close, Reset, SessionBreaks, SessionReconnects, vars
<1>3. \A e \in Ends : ReadEnds(e) => ReadEnds(e)'
    BY <1>1, <1>2, Zenon DEF ReadEnds, Peer
<1>4. ASSUME NEW f \in Ends,
             \A e \in Ends : e # f /\ e \in shut' => e \in shut,
             \A e \in Ends : e # f /\ e[1] \in dead' => e[1] \in dead,
             \A e \in Ends : Peer(e) \in fin' => Peer(e) \in fin
      PROVE  Endings
    <2>1. ASSUME NEW e \in Ends, e # f, ReadEnds(e)' PROVE ReadEnds(e)
        <3>1. e \in shut' \/ e[1] \in dead' \/ (inq'[e] = <<>> /\ Peer(e) \in fin')
            BY <2>1, Zenon DEF ReadEnds, Peer
        <3>2. inq'[e] = inq[e]
            BY <1>1, Zenon
        <3>3. e \in shut \/ e[1] \in dead \/ (inq[e] = <<>> /\ Peer(e) \in fin)
            BY <1>4, <2>1, <3>1, <3>2, Zenon
        <3>4. QED BY <3>3, Zenon DEF ReadEnds
    <2>2. QED BY <1>3, <2>1, Zenon DEF Endings
<1>5. ASSUME NEW c \in Ends, EndFinish(c) \/ EndClose(c) PROVE Endings
    <2>1. dead' = dead /\ (shut' = shut \/ shut' = shut \cup {c}) /\ fin' = fin \cup {c}
        BY <1>5, Zenon DEF EndFinish, EndClose, Close
    <2>2. \A e \in Ends : Peer(e) # c
        BY EndsApart, Zenon
    <2>3. QED BY <1>4, <2>1, <2>2, Zenon
<1>6. ASSUME shut' = shut, fin' = fin,
             dead' = dead \/ \E i \in Link : dead' = dead \cup {i}
      PROVE  Endings
    <2>1. CASE dead' = dead
        BY <1>4, <1>6, <2>1, EndsApart, Zenon DEF Ends
    <2>2. ASSUME NEW i \in Link, dead' = dead \cup {i} PROVE Endings
        <3>1. PICK f \in Ends : \A e \in Ends : e # f => e[1] # i
            BY EndsApart, Zenon DEF Ends
        <3>2. QED BY <1>4, <1>6, <2>2, <3>1, Zenon
    <2>3. QED BY <1>6, <2>1, <2>2, Zenon
<1>7. ASSUME \/ \E i \in Link : Reset(i) \/ SessionBreaks(i) \/ SessionReconnects(i)
             \/ UNCHANGED vars
      PROVE  Endings
    BY <1>6, <1>7, Zenon DEF Reset, SessionBreaks, SessionReconnects, vars
<1>8. QED BY <1>1, <1>5, <1>7, Zenon

\* When nothing ends and an end sends more, bytes are accepted.
LEMMA AcceptStep ==
    ASSUME PathType, NEW c \in Ends, NEW k \in Nat, sent' = [sent EXCEPT ![c] = k], k >= sent[c],
           got' = got, shut' = shut, dead' = dead, fin' = fin, \A e \in Ends : inq'[e] = inq[e]
    PROVE  [Pipe!Next]_(Pipe!streamVars)
<1>1. UNCHANGED <<PathDelivered, PathSpoiled>>
    BY Zenon DEF PathDelivered, PathSpoiled, Sink, App, Target
<1>2. \A d \in Dir : Sink(d) \in Ends /\ Origin(d) \in Ends /\ Sink(d)' = Sink(d)
                     /\ Origin(d)' = Origin(d)
    BY Zenon DEF Sink, Origin, Ends, App, Target
<1>3. ASSUME NEW e \in Ends PROVE ReadEnds(e)' = ReadEnds(e)
    BY Zenon DEF ReadEnds, Peer
<1>4. PathEnded' = PathEnded
    BY <1>2, <1>3, Zenon DEF PathEnded
<1>5. PICK d \in Dir : Origin(d) = c /\ \A e \in Dir : e # d => Origin(e) # c
    BY EndsApart, Zenon DEF Origin, Ends, Dir
<1>6. sent'[c] = k /\ (\A e \in Ends : e # c => sent'[e] = sent[e])
      /\ sent[c] \in Nat
    BY Zenon DEF PathType
<1>7. /\ \A e \in Dir : PathAccepted[e] = sent[Origin(e)] /\ PathAccepted'[e] = sent'[Origin(e)]
      /\ PathAccepted = [e \in Dir |-> PathAccepted[e]]
      /\ PathAccepted' = [e \in Dir |-> PathAccepted'[e]]
    <2>1. PathAccepted = [e \in Dir |-> sent[Origin(e)]]
        BY Zenon DEF PathAccepted
    <2>2. PathAccepted' = [e \in Dir |-> sent'[Origin(e)]]
        BY <1>2, Zenon DEF PathAccepted
    <2> HIDE DEF PathAccepted
    <2>3. \A e \in Dir : PathAccepted[e] = sent[Origin(e)] /\ PathAccepted'[e] = sent'[Origin(e)]
        BY <2>1, <2>2, Zenon
    <2>4. QED BY <2>1, <2>2, <2>3, Zenon
<1>8. PathAccepted[d] = sent[c] /\ PathAccepted'[d] = k
      /\ \A e \in Dir : e # d => PathAccepted'[e] = PathAccepted[e]
    <2>1. \A e \in Dir : PathAccepted[e] = sent[Origin(e)] /\ PathAccepted'[e] = sent'[Origin(e)]
        BY <1>7, Zenon
    <2> HIDE DEF PathAccepted
    <2>2. PathAccepted[d] = sent[c] /\ PathAccepted'[d] = k
        BY <1>5, <1>6, <2>1, Zenon
    <2>3. \A e \in Dir : e # d => sent'[Origin(e)] = sent[Origin(e)]
        BY <1>2, <1>5, <1>6, Zenon
    <2>4. QED BY <2>1, <2>2, <2>3, Zenon
<1>9. CASE k = sent[c]
    <2>1. PathAccepted' = PathAccepted
        BY <1>7, <1>8, <1>9, Zenon
    <2>2. QED BY <1>1, <1>4, <2>1, Zenon DEF Pipe!streamVars
<1>10. CASE k # sent[c]
    <2>1. k > sent[c]
        BY <1>6, <1>10
    <2>2. PathAccepted' = [PathAccepted EXCEPT ![d] = PathAccepted'[d]]
        BY <1>7, <1>8, Zenon
    <2>3. Pipe!Accept(d)
        BY <1>1, <1>4, <1>8, <2>1, <2>2, Zenon DEF Pipe!Accept
    <2>4. QED BY <2>3, Zenon DEF Pipe!Next
<1>11. QED BY <1>9, <1>10, Zenon

\* The places of a prefix of the bytes, and of a prefix of the answer and the bytes.
LEMMA PrefixBytes ==
    ASSUME NEW s \in Seq(Int), NEW b \in Nat, Prefix(s, Bytes(b))
    PROVE  Len(s) <= b /\ \A i \in 1..Len(s) : s[i] = i
<1>1. Bytes(b) \in Seq(Int) /\ Len(Bytes(b)) = b /\ \A i \in 1..b : Bytes(b)[i] = i
    BY BytesFacts, Zenon
<1>2. Len(s) <= Len(Bytes(b)) /\ s = SubSeq(Bytes(b), 1, Len(s))
    BY Zenon DEF Prefix
<1>3. ASSUME NEW i \in 1..Len(s) PROVE s[i] = i
    <2> DEFINE t == Bytes(b)
    <2>1. t \in Seq(Int) /\ Len(s) <= Len(t) /\ s = SubSeq(t, 1, Len(s)) /\ Len(t) = b
        BY <1>1, <1>2, Zenon
    <2> HIDE DEF t
    <2>2. i \in 1..b /\ SubSeq(t, 1, Len(s))[i] = t[i]
        BY <2>1
    <2>3. t[i] = i
        BY <1>1, <2>2, Zenon DEF t
    <2>4. QED BY <2>1, <2>2, <2>3, Zenon
<1>4. QED BY <1>1, <1>2, <1>3, Zenon

LEMMA PrefixAnswered ==
    ASSUME NEW s \in Seq(Int), NEW b \in Nat, Prefix(s, <<Ok>> \o Bytes(b)), s # <<>>
    PROVE  /\ Tail(s) \in Seq(Int) /\ Len(Tail(s)) <= b
           /\ \A i \in 1..Len(Tail(s)) : Tail(s)[i] = i
<1>1. Bytes(b) \in Seq(Int) /\ Len(Bytes(b)) = b /\ \A i \in 1..b : Bytes(b)[i] = i
    BY BytesFacts, Zenon
<1> DEFINE u == Bytes(b)
           t == <<Ok>> \o u
<1>2. u \in Seq(Int) /\ Len(u) = b /\ Ok \in Int
    BY <1>1 DEF Ok
<1>3. Len(s) <= Len(t) /\ s = SubSeq(t, 1, Len(s))
    BY Zenon DEF Prefix
<1> HIDE DEF u
<1>4. t \in Seq(Int) /\ Len(t) = b + 1 /\ \A i \in 1..b : t[i + 1] = u[i]
    BY <1>2
<1> HIDE DEF t
<1>5. /\ Tail(s) \in Seq(Int) /\ Len(Tail(s)) = Len(s) - 1 /\ Len(s) \in Nat
      /\ \A i \in 1..(Len(s) - 1) : Tail(s)[i] = s[i + 1]
    OBVIOUS
<1>6. ASSUME NEW i \in 1..(Len(s) - 1) PROVE i \in 1..b /\ s[i + 1] = t[i + 1]
    BY <1>2, <1>3, <1>4, <1>5
<1>7. \A i \in 1..b : u[i] = i
    BY <1>1, Zenon DEF u
<1>8. ASSUME NEW i \in 1..(Len(s) - 1) PROVE Tail(s)[i] = i
    BY <1>4, <1>5, <1>6, <1>7, Zenon
<1>9. Len(Tail(s)) <= b
    BY <1>3, <1>4, <1>5
<1>10. QED BY <1>5, <1>8, <1>9, Zenon

\* An end that receives takes the next byte, or the application its answer; it may be the
\* last thing to read.
LEMMA ReceiveStep ==
    ASSUME PathType, PathType', DeliveredPrefix', NEW c \in Ends, EndReceive(c)
    PROVE  [Pipe!Next]_(Pipe!streamVars)
<1>1. /\ sent' = sent /\ shut' = shut /\ dead' = dead /\ fin' = fin
      /\ got' = [got EXCEPT ![c] = Append(@, Head(inq[c]))] /\ inq' = Take(inq, c)
      /\ c \notin shut /\ c[1] \notin dead /\ inq[c] # <<>>
    BY Zenon DEF EndReceive, Readable
<1>2. /\ c \in Conn /\ \A e \in Ends : e # c => inq'[e] = inq[e]
      /\ inq[c] \in Seq(Int) /\ got[c] \in Seq(Int) /\ got'[c] \in Seq(Int)
      /\ got'[c] = Append(got[c], Head(inq[c]))
      /\ \A e \in Ends : e # c => got'[e] = got[e]
    <2>1. c \in Conn /\ \A e \in Ends : e \in Conn
        BY EndsApart, Zenon
    <2>2. inq \in Queues /\ got \in [Ends -> Seq(Int)] /\ got' \in [Ends -> Seq(Int)]
        BY Zenon DEF PathType, Ends, App, Target
    <2>3. \A e \in Ends : e # c => Take(inq, c)[e] = inq[e]
        BY <2>1, <2>2, TakeOne, Zenon
    <2>4. \A e \in Ends : e # c => inq'[e] = inq[e]
        BY <1>1, <2>3, Zenon
    <2>5. inq[c] \in Seq(Int) /\ got[c] \in Seq(Int) /\ got'[c] \in Seq(Int)
        BY <2>1, <2>2, Zenon DEF Queues
    <2>6. /\ got'[c] = Append(got[c], Head(inq[c]))
          /\ \A e \in Ends : e # c => got'[e] = got[e]
        BY <1>1, <2>2, Zenon
    <2>7. QED BY <2>1, <2>4, <2>5, <2>6, Zenon
<1>3. ~ReadEnds(c) /\ \A e \in Ends : e # c => ReadEnds(e)' = ReadEnds(e)
    BY <1>1, <1>2, Zenon DEF ReadEnds, Peer
<1>4. Endings
    BY <1>3, Zenon DEF Endings
<1>5. /\ Sink("fwd") = Target /\ Sink("bwd") = App /\ Dir = {"fwd", "bwd"} /\ "fwd" # "bwd"
      /\ App # Target /\ Ends = {App, Target} /\ Origin("fwd") = App /\ Origin("bwd") = Target
    BY EndsApart DEF Sink, Origin, Dir, Ends
<1>6. UNCHANGED <<PathAccepted, PathSpoiled>>
    BY <1>1, Zenon DEF PathAccepted, PathSpoiled, Origin, App, Target
<1>7. PICK d \in Dir : Sink(d) = c /\ \A e \in Dir : e # d => Sink(e) # c
    BY <1>5, Zenon
<1>8. PathEnded' \in {PathEnded, [PathEnded EXCEPT ![d] = TRUE]} /\ ~PathEnded[d]
    <2>1. \A e \in Dir : PathEnded[e] = ReadEnds(Sink(e)) /\ PathEnded'[e] = ReadEnds(Sink(e))'
        BY Zenon DEF PathEnded
    <2>2. PathEnded = [e \in Dir |-> PathEnded[e]] /\ PathEnded' = [e \in Dir |-> PathEnded'[e]]
        BY Zenon DEF PathEnded
    <2>3. \A e \in Dir : e # d => PathEnded'[e] = PathEnded[e]
        BY <1>3, <1>5, <1>7, <2>1, Zenon
    <2>4. ~PathEnded[d] /\ PathEnded[d] = FALSE /\ PathEnded'[d] \in BOOLEAN
        <3>1. ReadEnds(c) \in BOOLEAN /\ ReadEnds(c)' \in BOOLEAN
            BY Zenon DEF ReadEnds
        <3>2. QED BY <1>3, <1>7, <2>1, <3>1, Zenon
    <2> HIDE DEF PathEnded
    <2>5. CASE PathEnded'[d] = TRUE
        <3>1. PathEnded' = [PathEnded EXCEPT ![d] = TRUE]
            BY <2>2, <2>3, <2>5, Zenon
        <3>2. QED BY <2>4, <3>1, Zenon
    <2>6. CASE PathEnded'[d] = FALSE
        <3>1. PathEnded' = PathEnded
            BY <2>2, <2>3, <2>4, <2>6, Zenon
        <3>2. QED BY <2>4, <3>1, Zenon
    <2>7. QED BY <2>4, <2>5, <2>6, Zenon
<1>9. /\ PathDelivered["fwd"] = got[Target] /\ PathDelivered'["fwd"] = got'[Target]
      /\ PathDelivered["bwd"] = (IF got[App] = <<>> THEN got[App] ELSE Tail(got[App]))
      /\ PathDelivered'["bwd"] = (IF got'[App] = <<>> THEN got'[App] ELSE Tail(got'[App]))
      /\ PathDelivered = [e \in Dir |-> PathDelivered[e]]
      /\ PathDelivered' = [e \in Dir |-> PathDelivered'[e]]
    BY <1>5, Zenon DEF PathDelivered, Sink, App, Target
<1> DEFINE old == PathDelivered[d]
           new == PathDelivered'[d]
<1>10. PathDelivered' = [PathDelivered EXCEPT ![d] = new]
    <2>1. \A e \in Dir : e # d => PathDelivered'[e] = PathDelivered[e]
        BY <1>2, <1>5, <1>7, <1>9, Zenon
    <2>2. QED BY <1>9, <2>1, Zenon
<1>11. ASSUME old \in Seq(Int), new \in Seq(Int), NEW x \in Int, new = Append(old, x),
              Len(new) <= PathAccepted[d], \A i \in 1..Len(new) : new[i] = i
       PROVE  [Pipe!Next]_(Pipe!streamVars)
    <2> HIDE DEF old, new
    <2>1. Len(new) > Len(old) /\ \A i \in 1..Len(old) : new[i] = old[i]
        BY <1>11
    <2>2. Pipe!Deliver(d)
        BY <1>6, <1>8, <1>10, <1>11, <2>1, Zenon DEF Pipe!Deliver, old, new
    <2>3. QED BY <2>2, Zenon DEF Pipe!Next
<1>12. /\ Head(inq[c]) \in Int
       /\ PathAccepted[d] = sent[Origin(d)] /\ sent \in [Ends -> Nat]
    <2>1. Head(inq[c]) \in Int
        BY <1>1, <1>2
    <2>2. QED BY <2>1, Zenon DEF PathAccepted, PathType
<1>13. CASE c = Target
    <2>1. d = "fwd" /\ old = got[c] /\ new = got'[c] /\ PathAccepted[d] = sent[App] /\ sent[App] \in Nat
        BY <1>5, <1>7, <1>9, <1>12, <1>13, Zenon
    <2>2. Prefix(got'[c], Bytes(sent[App]))
        BY <1>1, <1>13, Zenon DEF DeliveredPrefix, App, Target, Prefix, Bytes
    <2>3. Len(new) <= PathAccepted[d] /\ \A i \in 1..Len(new) : new[i] = i
        BY <1>2, <2>1, <2>2, PrefixBytes, Zenon
    <2>4. QED BY <1>2, <1>11, <1>12, <2>1, <2>3, Zenon
<1>14. CASE c = App
    <2> DEFINE g == got[c]
               x == Head(inq[c])
    <2>1. /\ d = "bwd" /\ PathAccepted[d] = sent[Target] /\ sent[Target] \in Nat
          /\ g \in Seq(Int) /\ x \in Int /\ got'[c] = Append(g, x)
          /\ old = (IF g = <<>> THEN g ELSE Tail(g))
          /\ new = (IF got'[c] = <<>> THEN got'[c] ELSE Tail(got'[c]))
        BY <1>2, <1>5, <1>7, <1>9, <1>12, <1>14, Zenon
    <2> HIDE DEF g, x, old, new
    <2>2. Append(g, x) # <<>> /\ Append(g, x) \in Seq(Int)
        <3>1. g \in Seq(Int) /\ x \in Int
            BY <2>1, Zenon
        <3>2. QED BY <3>1, AppendFacts, Zenon
    <2>3. new = Tail(Append(g, x))
        BY <2>1, <2>2, Zenon
    <2>4. CASE g = <<>>
        <3>1. Tail(Append(g, x)) = <<>>
            BY <2>1, <2>4
        <3>2. old = new
            BY <2>1, <2>3, <2>4, <3>1, Zenon
        <3>3. PathDelivered' = PathDelivered
            BY <1>9, <1>10, <3>2, Zenon DEF old, new
        <3>4. CASE PathEnded' = PathEnded
            BY <1>6, <3>3, <3>4, Zenon DEF Pipe!streamVars
        <3>5. CASE PathEnded' = [PathEnded EXCEPT ![d] = TRUE]
            <4>1. Pipe!End(d)
                BY <1>6, <1>8, <3>3, <3>5, Zenon DEF Pipe!End
            <4>2. QED BY <4>1, Zenon DEF Pipe!Next
        <3>6. QED BY <1>8, <3>4, <3>5, Zenon
    <2>5. CASE g # <<>>
        <3>1. old = Tail(g) /\ Tail(g) \in Seq(Int) /\ Tail(Append(g, x)) = Append(Tail(g), x)
            <4>1. Tail(g) \in Seq(Int) /\ Tail(Append(g, x)) = Append(Tail(g), x)
                BY <2>1, <2>5, AppendFacts, Zenon
            <4>2. QED BY <2>1, <2>5, <4>1, Zenon
        <3>2. Append(g, x) # <<Fail>>
            BY <2>1, <2>5, AppendFacts, Zenon
        <3>3. Prefix(got'[App], <<Ok>> \o Bytes(sent'[Target])) \/ got'[App] = <<Fail>>
            BY Zenon DEF DeliveredPrefix, App, Target, Prefix, Bytes
        <3>4. Prefix(Append(g, x), <<Ok>> \o Bytes(sent[Target]))
            BY <1>1, <1>14, <2>1, <3>2, <3>3, Zenon
        <3>5. /\ new \in Seq(Int) /\ Len(new) <= sent[Target]
              /\ \A i \in 1..Len(new) : new[i] = i
            BY <2>1, <2>2, <2>3, <3>4, PrefixAnswered, Zenon
        <3>6. QED BY <1>11, <2>1, <2>3, <3>1, <3>5, Zenon
    <2>6. QED BY <2>4, <2>5, Zenon
<1>15. QED BY <1>13, <1>14, Zenon DEF Ends

\* A proxied connection implements the two byte streams of ByteStream: for any number of
\* nodes, whatever breaks, no step of a handler, a copy loop, a session or a link does
\* more to the ends than accept bytes, hand over the next one or end a direction for good.
THEOREM PathStreams == Spec => PathImplementsByteStream
<1> DEFINE Inv == PathType /\ PathInv /\ FlowInv /\ Within /\ Finished
<1>1. Init => Inv
    <2>1. Init => Finished
        BY Zenon DEF Init, Finished
    <2>2. QED BY <2>1, PathInit, FlowInit, WithinInit, Zenon
<1>2. Inv /\ [Next]_vars => Inv'
    <2> SUFFICES ASSUME Inv, [Next]_vars PROVE Inv'
        OBVIOUS
    <2>1. PathType' /\ PathInv'
        BY PathStep, Zenon
    <2>2. FlowInv' /\ Within'
        BY FlowStep, WithinStep, Zenon
    <2>3. Finished'
        <3>1. Ends' = Ends
            BY Zenon DEF Ends, App, Target
        <3>2. QED BY <3>1, Closes, Zenon DEF Finished
    <2>4. QED BY <2>1, <2>2, <2>3, Zenon
<1>3. Init => Pipe!Init
    <2> SUFFICES ASSUME Init PROVE Pipe!Init
        OBVIOUS
    <2>1. /\ sent = [c \in Ends |-> 0] /\ got = [c \in Ends |-> <<>>]
          /\ shut = {} /\ dead = {} /\ fin = {}
        BY Zenon DEF Init
    <2>2. \A d \in Dir : Origin(d) \in Ends /\ Sink(d) \in Ends
        BY Zenon DEF Origin, Sink, Ends
    <2>3. ASSUME NEW c \in Ends PROVE ReadEnds(c) = FALSE /\ sent[c] = 0 /\ got[c] = <<>>
        BY <2>1, Zenon DEF ReadEnds
    <2>4. App \in Ends
        BY Zenon DEF Ends
    <2>5. PathAccepted = [d \in Dir |-> 0]
        BY <2>2, <2>3, Zenon DEF PathAccepted
    <2>6. PathDelivered = [d \in Dir |-> <<>>]
        BY <2>2, <2>3, <2>4, Zenon DEF PathDelivered
    <2>7. PathEnded = [d \in Dir |-> FALSE]
        BY <2>2, <2>3, Zenon DEF PathEnded
    <2>8. QED BY <2>5, <2>6, <2>7, Zenon DEF Pipe!Init, PathSpoiled
<1>4. Inv /\ Inv' /\ [Next]_vars => [Pipe!Next]_(Pipe!streamVars)
    <2> SUFFICES ASSUME Inv, Inv', [Next]_vars PROVE [Pipe!Next]_(Pipe!streamVars)
        OBVIOUS
    <2>1. DeliveredPrefix'
        <3>1. PathType' /\ FlowInv' => DeliveredPrefix'
            BY FlowDelivers, PTL
        <3>2. QED BY <3>1, Zenon
    <2>2. ASSUME NEW n \in Node,
                 HandlerStep(n) \/ (DialTarget /\ n = Nodes) \/ \E d \in Dir : CopyStep(n, d)
          PROVE  [Pipe!Next]_(Pipe!streamVars)
        <3>1. NodeActs(n)
            BY <2>2, NodeSteps, Zenon
        <3>2. Endings /\ sent' = sent /\ got' = got
            BY <3>1, NodeEndings, Zenon DEF NodeActs
        <3>3. QED BY <3>2, EndingStep, Zenon
    <2>3. CASE DialTarget
        BY <2>2, <2>3, Geometry, Zenon
    <2>4. CASE AppRequest
        <3>1. PICK k \in {0, 1} : /\ sent' = [sent EXCEPT ![App] = k]
                                  /\ inq' = [inq EXCEPT ![Peer(App)] = <<Req>> \o Bytes(k)]
            BY <2>4, Zenon DEF AppRequest
        <3>2. /\ sent[App] = 0 /\ got' = got /\ shut' = shut /\ dead' = dead /\ fin' = fin
              /\ App \in Ends
            BY <2>4, Zenon DEF AppRequest, Ends
        <3>3. \A e \in Ends : inq'[e] = inq[e]
            <4>1. \A e \in Ends : e \in Conn /\ e # Peer(App)
                BY <3>2, EndsApart, Zenon
            <4>2. inq \in [Conn -> Seq(Int)]
                BY Zenon DEF PathType, Queues
            <4>3. QED BY <3>1, <4>1, <4>2, Zenon
        <3>4. k \in Nat /\ k >= sent[App]
            BY <3>2
        <3>5. QED BY <3>1, <3>2, <3>3, <3>4, AcceptStep, Zenon
    <2>5. ASSUME NEW c \in Ends, EndSend(c) PROVE [Pipe!Next]_(Pipe!streamVars)
        <3>1. /\ sent' = [sent EXCEPT ![c] = sent[c] + 1] /\ inq' = Put(inq, c, sent[c] + 1)
              /\ got' = got /\ shut' = shut /\ dead' = dead /\ fin' = fin
            BY <2>5, Zenon DEF EndSend
        <3>2. sent[c] \in Nat /\ inq \in Queues
            BY Zenon DEF PathType
        <3>3. sent[c] + 1 \in Nat /\ sent[c] + 1 \in Int /\ sent[c] + 1 >= sent[c]
            BY <3>2
        <3>4. \A e \in Ends : inq'[e] = inq[e]
            <4>1. c \in Conn /\ \A e \in Ends : e \in Conn /\ e # Peer(c)
                BY EndsApart, Zenon
            <4>2. \A e \in Ends : Put(inq, c, sent[c] + 1)[e] = inq[e]
                BY <3>2, <3>3, <4>1, PutOne, Zenon
            <4>3. QED BY <3>1, <4>2, Zenon
        <3>5. QED BY <3>1, <3>3, <3>4, AcceptStep, Zenon
    <2>6. ASSUME NEW c \in Ends, EndReceive(c) PROVE [Pipe!Next]_(Pipe!streamVars)
        BY <2>1, <2>6, ReceiveStep, Zenon
    <2>7. CASE \/ \E c \in Ends : EndFinish(c) \/ EndClose(c)
               \/ \E i \in Link : Reset(i) \/ SessionBreaks(i) \/ SessionReconnects(i)
               \/ UNCHANGED vars
        BY <2>7, OtherEndings, EndingStep, Zenon
    <2>8. QED BY <2>2, <2>3, <2>4, <2>5, <2>6, <2>7, Zenon DEF Next
<1>5. QED BY <1>1, <1>2, <1>3, <1>4, PTL DEF Spec, PathImplementsByteStream, Pipe!Spec

=============================================================================
