-------------------------- MODULE StreamPath_cuts --------------------------
(***************************************************************************)
(* Why a connection ends, and that it does: TruncationHasCause and         *)
(* RestsOnlyWhenEnded, for a path of any length.                           *)
(*                                                                         *)
(* RanInv says that behind an OK every handler has started its loops.      *)
(* FinInv then ties the conns that are finished to the loops that have     *)
(* returned.  CutInv adds to the flow of StreamPath_proofs that in a       *)
(* direction nothing has cut off a loop returns only behind all that the   *)
(* origin sent, and the loop of the other direction only after it.         *)
(* EndInv says why a loop returned; with it the blocked loops of a path at *)
(* rest are followed along their direction, the last one first.            *)
(***************************************************************************)
EXTENDS StreamPath_proofs, WellFoundedInduction

-----------------------------------------------------------------------------
(* How handlers end.                                                       *)

\* Both loops of node n run or have returned.
Ran(n) == pc[n] = "copy" \/ (pc[n] = "done" /\ \A d \in Dir : <<n, d>> \in ended)
RanFrom(n) == \A m \in Node : m >= n => Ran(m)

\* Wherever an OK is, or may be written, the loops of all nodes behind were started.
NoneEarly == \A n \in Node, d \in Dir : <<n, d>> \in ended => pc[n] \in {"copy", "done"}
AnswersRan == \A n \in Node : pc[n] = "answer" \/ Ran(n) => RanFrom(n + 1)
OksRan == \A i \in Link : i < Nodes /\ HasOk(inq[<<i, "L">>]) => RanFrom(i + 1)
RanInv == NoneEarly /\ AnswersRan /\ OksRan /\ (Accepted => RanFrom(1))

\* How a step changes the place of handler n and its loops.
Goes(n) ==
    /\ \/ pc'[n] = pc[n]
       \/ pc[n] \in Early /\ pc'[n] \in {"request", "open", "sent", "done"}
       \/ pc[n] \in Early /\ pc'[n] = "answer" /\ (n = Nodes \/ ReadResponse(n))
       \/ pc[n] = "answer" /\ pc'[n] = "copy"
       \/ pc[n] = "copy" /\ pc'[n] = "done" /\ \A d \in Dir : <<n, d>> \in ended
    /\ \A d \in Dir : <<n, d>> \in ended' =>
           <<n, d>> \in ended \/ (pc[n] = "copy" /\ pc'[n] = "copy")
    /\ ended \subseteq ended'

\* The handlers go one way.
LEMMA HandlersGo ==
    ASSUME PathType, [Next]_vars, NEW n \in Node PROVE Goes(n)
<1> USE DEF linkVars, sessVars, copyVars, endVars
<1>1. ASSUME NEW k \in Node, NEW to \in Places, pc' = [pc EXCEPT ![k] = to], ended' = ended,
             \/ pc[k] \in Early /\ to \in {"request", "open", "sent", "done"}
             \/ pc[k] \in Early /\ to = "answer" /\ (k = Nodes \/ ReadResponse(k))
             \/ pc[k] = "answer" /\ to = "copy"
             \/ pc[k] = "copy" /\ to = "done" /\ \A d \in Dir : <<k, d>> \in ended
      PROVE  Goes(n)
    <2>1. pc'[k] = to /\ (n # k => pc'[n] = pc[n])
        BY <1>1, Zenon DEF PathType
    <2>2. CASE n = k
        BY <1>1, <2>1, <2>2, Zenon DEF Goes
    <2>3. CASE n # k
        BY <1>1, <2>1, <2>3, Zenon DEF Goes
    <2>4. QED BY <2>2, <2>3, Zenon
<1>2. ASSUME pc' = pc, ended' = ended PROVE Goes(n)
    BY <1>2, Zenon DEF Goes
<1>3. ASSUME NEW k \in Node, HandlerStep(k) PROVE Goes(n)
    <2>1. CASE AcceptStream(k)
        BY <1>1, <2>1, Zenon DEF AcceptStream, Early, Places
    <2>2. CASE ReadRequest(k)
        BY <1>1, <2>2, Zenon DEF ReadRequest, Early, Places
    <2>3. CASE RequestFails(k)
        BY <1>1, <2>3, Zenon DEF RequestFails, Early, Places
    <2>4. CASE OpenStream(k)
        BY <1>1, <2>4, Zenon DEF OpenStream, Early, Places
    <2>5. CASE OpenFails(k) \/ RequestRejected(k) \/ ResponseFails(k) \/ ResponseTimesOut(k)
        <3>1. pc[k] \in {"open", "sent"} /\ Refuse(k)
            BY <2>5, Zenon DEF OpenFails, RequestRejected, ResponseFails, ResponseTimesOut
        <3>2. QED BY <1>1, <3>1, Zenon DEF Refuse, Early, Places
    <2>6. CASE ReadResponse(k)
        <3>1. pc[k] = "sent" /\ pc' = [pc EXCEPT ![k] = "answer"] /\ ended' = ended
            BY <2>6, Zenon DEF ReadResponse
        <3>2. QED BY <1>1, <2>6, <3>1, Zenon DEF Early, Places
    <2>7. CASE AnswerOK(k)
        BY <1>1, <2>7, Zenon DEF AnswerOK, Places
    <2>8. CASE AnswerFails(k)
        BY <1>1, <2>8, Zenon DEF AnswerFails, Early, Places
    <2>9. CASE RelayReturns(k)
        <3>1. /\ pc[k] = "copy" /\ pc' = [pc EXCEPT ![k] = "done"] /\ ended' = ended
              /\ {k} \X Dir \subseteq ended
            BY <2>9, Zenon DEF RelayReturns
        <3>2. \A d \in Dir : <<k, d>> \in ended
            BY <3>1
        <3>3. QED BY <1>1, <3>1, <3>2, Zenon DEF Places
    <2>10. QED BY <1>3, <2>1, <2>2, <2>3, <2>4, <2>5, <2>6, <2>7, <2>8, <2>9, Zenon DEF HandlerStep
<1>4. ASSUME NEW k \in Node, NEW e \in Dir, CopyStep(k, e) PROVE Goes(n)
    <2>1. pc' = pc /\ pc[k] = "copy" /\ (ended' = ended \/ ended' = ended \cup {<<k, e>>})
        BY <1>4, Zenon DEF CopyStep, CopyRead, CopyWrite, CopyWriteFails, CopyEnds, LoopReturns,
            Copying
    <2>2. \A d : <<n, d>> = <<k, e>> => n = k
        OBVIOUS
    <2>3. QED BY <2>1, <2>2, Zenon DEF Goes
<1>5. CASE DialTarget
    <2>1. Nodes \in Node
        BY Geometry, Zenon
    <2>2. QED BY <1>1, <1>5, <2>1, Zenon DEF DialTarget, Early, Places
<1>6. CASE \/ AppRequest
           \/ \E c \in Ends : EndSend(c) \/ EndReceive(c) \/ EndFinish(c) \/ EndClose(c)
           \/ \E i \in Link : Reset(i) \/ SessionBreaks(i) \/ SessionReconnects(i)
           \/ UNCHANGED vars
    <2>1. pc' = pc /\ ended' = ended
        BY <1>6, Zenon DEF AppRequest, EndSend, EndReceive, EndFinish, EndClose, Reset,
            SessionBreaks, SessionReconnects, vars
    <2>2. QED BY <1>2, <2>1, Zenon
<1>7. QED BY <1>3, <1>4, <1>5, <1>6, Zenon DEF Next

\* An OK appears only in front of a node that copies.
LEMMA NewOks ==
    ASSUME PathType, PathInv, [Next]_vars
    PROVE  NewOk(inq, inq', {i \in Link : i < Nodes /\ pc'[i + 1] = "copy"})
<1> DEFINE X == {i \in Link : i < Nodes /\ pc'[i + 1] = "copy"}
<1>0. /\ inq \in Queues /\ Req # Ok /\ Fail # Ok /\ Req \in Int /\ Ok \in Int /\ Fail \in Int
      /\ \A n \in Node : Left(n) \in Conn /\ Right(n) \in Conn
      /\ \A n \in Node, d \in Dir : Src(n, d) \in Conn /\ Dst(n, d) \in Conn
      /\ \A c \in Ends : c \in Conn
    <2>1. Req # Ok /\ Fail # Ok /\ Req \in Int /\ Ok \in Int /\ Fail \in Int
        BY DEF Req, Ok, Fail
    <2>2. QED BY <2>1, ConnFacts, Distinct, Zenon DEF PathType, Ends
<1>1. ASSUME NEW q \in Queues, NewOk(inq, q, {}) PROVE NewOk(inq, q, X)
    BY <1>1, Zenon DEF NewOk
<1>2. ASSUME inq' = inq PROVE NewOk(inq, inq', X)
    BY <1>0, <1>1, <1>2, SameQueues, Zenon
<1>3. ASSUME NEW c \in Conn, inq[c] # <<>>, inq' = Take(inq, c) PROVE NewOk(inq, inq', X)
    <2>1. NewOk(inq, inq', {})
        BY <1>0, <1>3, TakeQueue, Zenon
    <2>2. QED BY <1>1, <2>1, Zenon DEF NewOk
<1>4. ASSUME NEW n \in Node, pc'[n] = "copy" PROVE n - 1 \in X
    <2>1. n - 1 \in Link /\ n - 1 < Nodes /\ n - 1 + 1 = n
        BY Geometry, Neighbours, Zenon
    <2>2. QED BY <1>4, <2>1, Zenon
<1> HIDE DEF X
<1>5. ASSUME NEW n \in Node, HandlerStep(n) PROVE NewOk(inq, inq', X)
    <2>1. CASE ReadRequest(n)
        <3>1. /\ inq[Left(n)] # <<>>
              /\ inq' = Take(inq, Left(n)) \/ inq' = [inq EXCEPT ![Left(n)] = <<>>]
            BY <2>1, Zenon DEF ReadRequest, Readable
        <3>2. <<>> \in Seq(Int) /\ ~HasOk(<<>>)
            BY OkFacts
        <3>3. NewOk(inq, [inq EXCEPT ![Left(n)] = <<>>], X)
            BY <1>0, <3>2, OneQueue, Zenon
        <3>4. QED BY <1>0, <1>3, <3>1, <3>3, Zenon
    <2>2. CASE OpenStream(n)
        <3>1. inq' = Put(inq, Right(n), Req)
            BY <2>2, Zenon DEF OpenStream
        <3>2. NewOk(inq, Put(inq, Right(n), Req), X)
            BY <1>0, PutQueue, Zenon
        <3>3. QED BY <3>1, <3>2, Zenon
    <2>3. CASE Refuse(n)
        <3>1. inq' = inq \/ inq' = Put(inq, Left(n), Fail)
            BY <2>3, Zenon DEF Refuse
        <3>2. NewOk(inq, Put(inq, Left(n), Fail), X)
            BY <1>0, PutQueue, Zenon
        <3>3. QED BY <1>2, <3>1, <3>2, Zenon
    <2>4. CASE ReadResponse(n)
        BY <1>0, <1>3, <2>4, Zenon DEF ReadResponse, Readable
    <2>5. CASE AnswerOK(n)
        <3> DEFINE q == Put(inq, Left(n), Ok)
        <3>1. inq' = q \/ (buf # <<>> /\ inq' = Put(q, Right(n), Head(buf)))
            BY <2>5, Zenon DEF AnswerOK
        <3>2. pc'[n] = "copy"
            BY <2>5, Zenon DEF AnswerOK, PathType
        <3>3. \A i \in Link : Peer(Left(n)) = <<i, "L">> /\ Ok = Ok => i \in X
            <4>1. Peer(Left(n)) = <<n - 1, "L">>
                BY Geometry, Zenon
            <4>2. QED BY <1>4, <3>2, <4>1, Pairs, Zenon
        <3>4. NewOk(inq, q, X)
            BY <1>0, <3>3, PutQueue, Zenon
        <3> HIDE DEF q
        <3>5. CASE buf # <<>> /\ inq' = Put(q, Right(n), Head(buf))
            <4>1. Head(buf) \in Int /\ q \in Queues
                BY <3>4, <3>5, OkFacts, Zenon DEF PathType, NewOk
            <4>2. \A i \in Link : Peer(Right(n)) = <<i, "L">> => FALSE
                <5>1. Peer(Right(n)) = <<n, "R">>
                    BY Geometry, Zenon
                <5>2. QED BY <5>1, Pairs, Zenon
            <4>3. NewOk(q, Put(q, Right(n), Head(buf)), {})
                BY <1>0, <4>1, <4>2, PutQueue, Zenon
            <4>4. QED BY <3>4, <3>5, <4>3, Zenon DEF NewOk
        <3>6. QED BY <3>1, <3>4, <3>5, Zenon
    <2>6. CASE AcceptStream(n) \/ RequestFails(n) \/ AnswerFails(n) \/ RelayReturns(n)
        <3>1. inq' = inq
            BY <2>6, Zenon DEF AcceptStream, RequestFails, AnswerFails, RelayReturns, linkVars
        <3>2. QED BY <1>2, <3>1, Zenon
    <2>7. QED BY <1>5, <2>1, <2>2, <2>3, <2>4, <2>5, <2>6, Zenon DEF HandlerStep, OpenFails,
                RequestRejected, ResponseFails, ResponseTimesOut
<1>6. ASSUME NEW n \in Node, NEW d \in Dir, CopyStep(n, d) PROVE NewOk(inq, inq', X)
    <2>1. CASE CopyRead(n, d)
        BY <1>0, <1>3, <2>1, Zenon DEF CopyRead, Readable
    <2>2. CASE CopyWrite(n, d)
        <3>1. inq' = Put(inq, Dst(n, d), hold[<<n, d>>]) /\ pc'[n] = "copy"
            BY <2>2, Zenon DEF CopyWrite, Copying
        <3>2. n - 1 \in X
            BY <1>4, <3>1, Zenon
        <3>3. \A i \in Link : Peer(Dst(n, d)) = <<i, "L">> => i \in X
            <4>1. To(n, d) = Peer(Dst(n, d)) /\ (To(n, d) = <<n, "R">> \/ To(n, d) = <<n - 1, "L">>)
                BY Distinct, Geometry, Zenon DEF Dir
            <4>2. QED BY <3>2, <4>1, Pairs, Zenon
        <3>4. hold[<<n, d>>] \in Int
            BY Zenon DEF PathType
        <3>5. NewOk(inq, Put(inq, Dst(n, d), hold[<<n, d>>]), X)
            BY <1>0, <3>3, <3>4, PutQueue, Zenon
        <3>6. QED BY <3>1, <3>5, Zenon
    <2>3. CASE CopyWriteFails(n, d) \/ CopyEnds(n, d)
        <3>1. inq' = inq
            BY <2>3, Zenon DEF CopyWriteFails, CopyEnds, LoopReturns
        <3>2. QED BY <1>2, <3>1, Zenon
    <2>4. QED BY <1>6, <2>1, <2>2, <2>3, Zenon DEF CopyStep
<1>7. ASSUME AppRequest PROVE NewOk(inq, inq', X)
    <2>1. PICK k \in {0, 1} : inq' = [inq EXCEPT ![Peer(App)] = <<Req>> \o Bytes(k)]
        BY <1>7, Zenon DEF AppRequest
    <2>2. <<Req>> \o Bytes(k) \in Seq(Int)
        <3>1. k \in Nat
            OBVIOUS
        <3>2. Bytes(k) \in Seq(Int)
            BY <3>1, BytesFacts, Zenon
        <3>3. QED BY <1>0, <3>2
    <2>3. NewOk(inq, [inq EXCEPT ![Peer(App)] = <<Req>> \o Bytes(k)], X)
        BY <1>0, <2>2, EndConns, OneQueue, Zenon
    <2>4. QED BY <2>1, <2>3, Zenon
<1>8. ASSUME NEW c \in Ends, EndSend(c) PROVE NewOk(inq, inq', X)
    <2>1. inq' = Put(inq, c, sent[c] + 1)
        BY <1>8, Zenon DEF EndSend
    <2>2. sent[c] + 1 \in Int /\ sent[c] + 1 # Ok
        <3>1. sent[c] \in Nat
            BY Zenon DEF PathType
        <3>2. QED BY <3>1 DEF Ok
    <2>3. NewOk(inq, Put(inq, c, sent[c] + 1), X)
        BY <1>0, <2>2, PutQueue, Zenon
    <2>4. QED BY <2>1, <2>3, Zenon
<1>9. ASSUME NEW c \in Ends, EndReceive(c) PROVE NewOk(inq, inq', X)
    BY <1>0, <1>3, <1>9, Zenon DEF EndReceive, Readable
<1>10. ASSUME \/ \E c \in Ends : EndFinish(c) \/ EndClose(c)
              \/ \E i \in Link : Reset(i) \/ SessionBreaks(i) \/ SessionReconnects(i)
              \/ DialTarget \/ UNCHANGED vars
       PROVE  NewOk(inq, inq', X)
    <2>1. inq' = inq
        BY <1>10, Zenon DEF EndFinish, EndClose, Reset, SessionBreaks, SessionReconnects,
            DialTarget, vars, linkVars
    <2>2. QED BY <1>2, <2>1, Zenon
<1>11. QED BY <1>5, <1>6, <1>7, <1>8, <1>9, <1>10, Zenon DEF Next, X

\* What handlers went through is kept.
LEMMA RanKept ==
    ASSUME \A n \in Node : Goes(n)
    PROVE  /\ \A n \in Node : Ran(n) => Ran(n)'
           /\ \A n \in Int : RanFrom(n) => RanFrom(n)'
<1>1. ASSUME NEW n \in Node, Ran(n) PROVE Ran(n)'
    <2>1. Goes(n)
        BY Zenon
    <2>2. CASE pc[n] = "copy"
        BY <2>1, <2>2, Zenon DEF Goes, Ran, Early
    <2>3. CASE pc[n] = "done" /\ \A d \in Dir : <<n, d>> \in ended
        BY <2>1, <2>3, Zenon DEF Goes, Ran, Early
    <2>4. QED BY <1>1, <2>2, <2>3, Zenon DEF Ran
<1>2. QED BY <1>1, Zenon DEF RanFrom

\* Every step keeps RanInv.
LEMMA RanStep == PathType /\ PathInv /\ RanInv /\ [Next]_vars => RanInv'
<1> SUFFICES ASSUME PathType, PathInv, RanInv, [Next]_vars PROVE RanInv'
    OBVIOUS
<1>0. NoneEarly /\ AnswersRan /\ OksRan /\ (Accepted => RanFrom(1))
    BY Zenon DEF RanInv
<1>1. \A n \in Node : Goes(n)
    BY HandlersGo, Zenon
<1>2. /\ \A n \in Node : Ran(n) => Ran(n)'
      /\ \A n \in Int : RanFrom(n) => RanFrom(n)'
    BY <1>1, RanKept, Zenon
<1>3. NoneEarly'
    <2>1. ASSUME NEW n \in Node, NEW d \in Dir, <<n, d>> \in ended'
          PROVE  pc'[n] \in {"copy", "done"}
        BY <1>0, <1>1, <2>1, Zenon DEF Goes, NoneEarly, Early
    <2>2. QED BY <2>1, Zenon DEF NoneEarly
<1>4. ASSUME NEW n \in Node, pc'[n] = "answer" \/ Ran(n)' PROVE RanFrom(n + 1)'
    <2>1. n + 1 \in Int
        BY Geometry
    <2>2. CASE pc[n] = "answer" \/ Ran(n)
        BY <1>0, <1>2, <2>1, <2>2, Zenon DEF AnswersRan
    <2>3. CASE pc[n] # "answer" /\ ~Ran(n)
        <3>1. n = Nodes \/ ReadResponse(n)
            <4>1. Goes(n)
                BY <1>1, Zenon
            <4>2. CASE pc'[n] = "answer"
                BY <2>3, <4>1, <4>2, Zenon DEF Goes
            <4>3. CASE pc'[n] = "copy"
                BY <2>3, <4>1, <4>3, Zenon DEF Goes, Ran
            <4>4. CASE pc'[n] = "done" /\ \A d \in Dir : <<n, d>> \in ended'
                <5>1. "fwd" \in Dir
                    BY Zenon DEF Dir
                <5>2. pc[n] # "copy"
                    BY <2>3, Zenon DEF Ran
                <5>3. \A d \in Dir : <<n, d>> \in ended
                    BY <4>1, <4>4, <5>2, Zenon DEF Goes
                <5>4. pc[n] = "done"
                    BY <1>0, <5>1, <5>2, <5>3, Zenon DEF NoneEarly
                <5>5. QED BY <2>3, <5>3, <5>4, Zenon DEF Ran
            <4>5. QED BY <1>4, <4>2, <4>3, <4>4, Zenon DEF Ran
        <3>2. CASE n = Nodes
            <4>1. \A m \in Node : ~(m >= Nodes + 1)
                BY PathAssumption DEF Node
            <4>2. QED BY <3>2, <4>1, Zenon DEF RanFrom
        <3>3. CASE ReadResponse(n) /\ n # Nodes
            <4>1. inq[Right(n)] # <<>> /\ Head(inq[Right(n)]) = Ok
                BY <3>3, Zenon DEF ReadResponse, Readable
            <4>2. Right(n) = <<n, "L">> /\ <<n, "L">> \in Conn /\ n \in Link
                BY Geometry, Zenon
            <4>3. HasOk(inq[<<n, "L">>])
                BY <4>1, <4>2, OkFacts, Zenon DEF PathType, Queues
            <4>4. n < Nodes
                BY <3>3, Geometry
            <4>5. RanFrom(n + 1)
                BY <1>0, <4>2, <4>3, <4>4, Zenon DEF OksRan
            <4>6. QED BY <1>2, <2>1, <4>5, Zenon
        <3>4. QED BY <3>1, <3>2, <3>3, Zenon
    <2>4. QED BY <2>2, <2>3, Zenon
<1>5. ASSUME NEW n \in Node, Ran(n)' PROVE RanFrom(n)'
    <2>1. RanFrom(n + 1)'
        BY <1>4, <1>5, Zenon
    <2>2. \A m \in Node : m >= n => m = n \/ m >= n + 1
        BY DEF Node
    <2>3. QED BY <1>5, <2>1, <2>2, Zenon DEF RanFrom
<1>6. ASSUME NEW i \in Link, i < Nodes, HasOk(inq'[<<i, "L">>]) PROVE RanFrom(i + 1)'
    <2>1. i + 1 \in Node /\ i + 1 \in Int
        BY <1>6, Neighbours, Geometry, Zenon
    <2>2. CASE HasOk(inq[<<i, "L">>])
        BY <1>0, <1>2, <1>6, <2>1, <2>2, Zenon DEF OksRan
    <2>3. CASE pc'[i + 1] = "copy"
        BY <1>5, <2>1, <2>3, Zenon DEF Ran
    <2>4. QED
        <3>1. NewOk(inq, inq', {j \in Link : j < Nodes /\ pc'[j + 1] = "copy"})
            BY NewOks, Zenon
        <3>2. HasOk(inq[<<i, "L">>]) \/ i \in {j \in Link : j < Nodes /\ pc'[j + 1] = "copy"}
            BY <1>6, <3>1, Zenon DEF NewOk
        <3>3. QED BY <2>2, <2>3, <3>2, Zenon
<1>7. ASSUME Accepted' PROVE RanFrom(1)'
    <2>1. /\ 1 \in Int /\ 0 + 1 = 1 /\ 0 < Nodes /\ 0 \in Link
          /\ App \in Conn /\ App = <<0, "L">> /\ App \in Ends
        BY Geometry, EndConns DEF Ends
    <2>2. CASE Accepted
        BY <1>0, <1>2, <2>1, <2>2, Zenon
    <2>3. CASE ~Accepted
        <3>1. EndReceive(App)
            <4>1. ASSUME got' = got PROVE FALSE
                BY <1>7, <2>3, <4>1, Zenon DEF Accepted
            <4>2. ASSUME NEW c \in Ends, EndReceive(c), c # App PROVE FALSE
                <5>1. got'[App] = got[App]
                    BY <2>1, <4>2, Zenon DEF EndReceive, PathType
                <5>2. QED BY <1>7, <2>3, <5>1, Zenon DEF Accepted
            <4>3. ASSUME NEW n \in Node, HandlerStep(n) \/ DialTarget PROVE got' = got
                BY <4>3, Zenon DEF HandlerStep, AcceptStream, ReadRequest, RequestFails,
                    OpenStream, OpenFails, RequestRejected, ReadResponse, ResponseFails,
                    ResponseTimesOut, Refuse, AnswerOK, AnswerFails, RelayReturns, DialTarget,
                    endVars
            <4>4. ASSUME NEW n \in Node, NEW d \in Dir, CopyStep(n, d) PROVE got' = got
                BY <4>4, Zenon DEF CopyStep, CopyRead, CopyWrite, CopyWriteFails, CopyEnds,
                    LoopReturns, endVars
            <4>5. ASSUME \/ AppRequest
                         \/ \E c \in Ends : EndSend(c) \/ EndFinish(c) \/ EndClose(c)
                         \/ \E i \in Link : Reset(i) \/ SessionBreaks(i) \/ SessionReconnects(i)
                         \/ UNCHANGED vars
                  PROVE  got' = got
                BY <4>5, Zenon DEF AppRequest, EndSend, EndFinish, EndClose, Reset, SessionBreaks,
                    SessionReconnects, vars, endVars
            <4>6. 1 \in Node
                BY Geometry, Zenon
            <4>7. QED BY <4>1, <4>2, <4>3, <4>4, <4>5, <4>6, Zenon DEF Next
        <3>2. inq[App] # <<>> /\ got'[App] = Append(got[App], Head(inq[App]))
            BY <2>1, <3>1, Zenon DEF EndReceive, Readable, PathType
        <3>3. got[App] \in Seq(Int) /\ inq[App] \in Seq(Int)
            BY <2>1, Zenon DEF PathType, Queues
        <3>4. Head(inq[App]) = Ok
            <4>1. got'[App] # <<>> /\ got'[App][1] = Ok
                BY <1>7, Zenon DEF Accepted
            <4>2. got[App] = <<>> \/ got[App][1] # Ok
                BY <2>3, Zenon DEF Accepted
            <4> DEFINE s == got[App]
                       x == Head(inq[App])
            <4>3. x \in Int
                BY <3>2, <3>3, OkFacts, Zenon
            <4>4. s \in Seq(Int) /\ Append(s, x)[1] = Ok /\ (s = <<>> \/ s[1] # Ok)
                BY <3>2, <3>3, <4>1, <4>2, Zenon
            <4> HIDE DEF s, x
            <4>5. x = Ok
                <5>1. CASE s = <<>>
                    BY <4>3, <4>4, <5>1
                <5>2. CASE s # <<>>
                    <6>1. Append(s, x)[1] = s[1]
                        BY <4>3, <4>4, <5>2
                    <6>2. QED BY <4>4, <5>2, <6>1, Zenon
                <5>3. QED BY <5>1, <5>2, Zenon
            <4>6. QED BY <4>5, Zenon DEF x
        <3>5. HasOk(inq[App])
            BY <3>2, <3>3, <3>4, OkFacts, Zenon
        <3>6. RanFrom(0 + 1)
            BY <1>0, <2>1, <3>5, Zenon DEF OksRan
        <3>7. QED BY <1>2, <2>1, <3>6, Zenon
    <2>4. QED BY <2>2, <2>3, Zenon
<1>8. AnswersRan' /\ OksRan'
    BY <1>4, <1>6, Zenon DEF AnswersRan, OksRan
<1>9. QED BY <1>3, <1>7, <1>8, Zenon DEF RanInv

-----------------------------------------------------------------------------
(* Why a direction ends.                                                   *)

Other(d) == IF d = "fwd" THEN "bwd" ELSE "fwd"

\* The node that writes what node n reads in direction d.
Up(n, d) == IF d = "fwd" THEN n - 1 ELSE n + 1

\* Every handler that is done has copied.
DoneCopied == \A n \in Node : pc[n] = "done" => \A d \in Dir : <<n, d>> \in ended

\* Then a node has ended a direction only if its loop returned.
FinInv == DoneCopied => \A n \in Node, d \in Dir : Dst(n, d) \in fin => <<n, d>> \in ended

\* Nothing of what may cut direction d off has happened.
Clean(d) == dead = {} /\ Sink(d) \notin fin /\ Other(d) \notin collided

\* Then a loop of direction d returns only behind all that the origin sent, and the loop
\* of the other direction only after it.
Cut(n, d, w) ==
    /\ <<n, d>> \in ended =>
           /\ Origin(d) \in fin /\ w[To(n, d)] = sent[Origin(d)]
           /\ Up(n, d) \in Node => <<Up(n, d), d>> \in ended
    /\ <<n, Other(d)>> \in ended => <<n, d>> \in ended
Cuts(w) == DoneCopied => \A d \in Dir : Clean(d) => \A n \in Node : Cut(n, d, w)
CutInv == \E w, r \in Flows : Flow(w, r) /\ Cuts(w)

\* Along a direction, each node reads what the one before it writes.
LEMMA Along ==
    ASSUME NEW n \in Node, NEW d \in Dir
    PROVE  /\ Other(d) \in Dir /\ Other(Other(d)) = d /\ Other(d) # d
           /\ Dst(n, Other(d)) = Src(n, d) /\ Src(n, Other(d)) = Dst(n, d)
           /\ \/ Up(n, d) \notin Node /\ Peer(Src(n, d)) = Origin(d)
                 /\ Src(n, d) = Peer(Origin(d))
              \/ Up(n, d) \in Node /\ Peer(Src(n, d)) = Dst(Up(n, d), d)
                 /\ Src(n, d) = To(Up(n, d), d)
           /\ \/ To(n, d) = Sink(d)
              \/ /\ Up(n, Other(d)) \in Node /\ To(n, d) = Dst(Up(n, Other(d)), Other(d))
                 /\ Up(Up(n, Other(d)), d) = n
<1>1. /\ n \in Int /\ 1 <= n /\ n <= Nodes /\ Nodes \in Int
      /\ App = <<0, "L">> /\ Target = <<Nodes, "R">>
      /\ Peer(App) = <<0, "R">> /\ Peer(Target) = <<Nodes, "L">>
    BY Geometry, EndConns, Zenon
<1>2. \A k \in Node :
          /\ Peer(Left(k)) = <<k - 1, "L">> /\ Peer(Right(k)) = <<k, "R">>
          /\ Left(k) = <<k - 1, "R">> /\ Right(k) = <<k, "L">>
          /\ Src(k, "fwd") = <<k - 1, "R">> /\ Src(k, "bwd") = <<k, "L">>
          /\ Dst(k, "fwd") = <<k, "L">> /\ Dst(k, "bwd") = <<k - 1, "R">>
          /\ To(k, "fwd") = <<k, "R">> /\ To(k, "bwd") = <<k - 1, "L">>
    BY Geometry, Zenon
<1>3. PICK k, m : k = n - 1 /\ m = n + 1
    BY Zenon
<1>4. /\ k \in Node \/ (n = 1 /\ k = 0 /\ k \notin Node)
      /\ m \in Node \/ (n = Nodes /\ m \notin Node)
      /\ m - 1 = n /\ k + 1 = n
    BY <1>1, <1>3 DEF Node
<1>5. CASE d = "fwd"
    <2>1. /\ Other(d) = "bwd" /\ Other("bwd") = "fwd" /\ Origin(d) = App /\ Sink(d) = Target
          /\ Up(n, d) = k /\ Up(n, "bwd") = m /\ Up(m, d) = n
        BY <1>3, <1>4, <1>5, Zenon DEF Other, Origin, Sink, Up
    <2>2. /\ Src(n, d) = <<k, "R">> /\ Dst(n, d) = <<n, "L">> /\ To(n, d) = <<n, "R">>
          /\ Src(n, "bwd") = <<n, "L">> /\ Dst(n, "bwd") = <<k, "R">>
          /\ Peer(Src(n, d)) = <<k, "L">>
        BY <1>2, <1>3, <1>5, Zenon
    <2>3. /\ k \in Node => Dst(k, d) = <<k, "L">> /\ To(k, d) = <<k, "R">>
          /\ m \in Node => Dst(m, "bwd") = <<n, "R">>
        BY <1>2, <1>4, <1>5, Zenon
    <2>4. /\ Other(d) \in Dir /\ Other(Other(d)) = d /\ Other(d) # d
          /\ Dst(n, Other(d)) = Src(n, d) /\ Src(n, Other(d)) = Dst(n, d)
        BY <1>5, <2>1, <2>2, Zenon DEF Dir
    <2>5. \/ Up(n, d) \notin Node /\ Peer(Src(n, d)) = Origin(d) /\ Src(n, d) = Peer(Origin(d))
          \/ Up(n, d) \in Node /\ Peer(Src(n, d)) = Dst(Up(n, d), d)
             /\ Src(n, d) = To(Up(n, d), d)
        BY <1>1, <1>4, <2>1, <2>2, <2>3, Zenon
    <2>6. \/ To(n, d) = Sink(d)
          \/ /\ Up(n, Other(d)) \in Node /\ To(n, d) = Dst(Up(n, Other(d)), Other(d))
             /\ Up(Up(n, Other(d)), d) = n
        BY <1>1, <1>4, <2>1, <2>2, <2>3, Zenon
    <2>7. QED BY <2>4, <2>5, <2>6, Zenon
<1>6. CASE d = "bwd"
    <2>1. /\ Other(d) = "fwd" /\ Other("fwd") = "bwd" /\ Origin(d) = Target /\ Sink(d) = App
          /\ Up(n, d) = m /\ Up(n, "fwd") = k /\ Up(k, d) = n
        BY <1>3, <1>4, <1>6, Zenon DEF Other, Origin, Sink, Up
    <2>2. /\ Src(n, d) = <<n, "L">> /\ Dst(n, d) = <<k, "R">> /\ To(n, d) = <<k, "L">>
          /\ Src(n, "fwd") = <<k, "R">> /\ Dst(n, "fwd") = <<n, "L">>
          /\ Peer(Src(n, d)) = <<n, "R">>
        BY <1>2, <1>3, <1>6, Zenon
    <2>3. /\ k \in Node => Dst(k, "fwd") = <<k, "L">>
          /\ m \in Node => Dst(m, d) = <<n, "R">> /\ To(m, d) = <<n, "L">>
        BY <1>2, <1>4, <1>6, Zenon
    <2>4. /\ Other(d) \in Dir /\ Other(Other(d)) = d /\ Other(d) # d
          /\ Dst(n, Other(d)) = Src(n, d) /\ Src(n, Other(d)) = Dst(n, d)
        BY <1>6, <2>1, <2>2, Zenon DEF Dir
    <2>5. \/ Up(n, d) \notin Node /\ Peer(Src(n, d)) = Origin(d) /\ Src(n, d) = Peer(Origin(d))
          \/ Up(n, d) \in Node /\ Peer(Src(n, d)) = Dst(Up(n, d), d)
             /\ Src(n, d) = To(Up(n, d), d)
        BY <1>1, <1>4, <2>1, <2>2, <2>3, Zenon
    <2>6. \/ To(n, d) = Sink(d)
          \/ /\ Up(n, Other(d)) \in Node /\ To(n, d) = Dst(Up(n, Other(d)), Other(d))
             /\ Up(Up(n, Other(d)), d) = n
        BY <1>1, <1>4, <2>1, <2>2, <2>3, Zenon
    <2>7. QED BY <2>4, <2>5, <2>6, Zenon
<1>7. QED BY <1>5, <1>6, Zenon DEF Dir

\* A node ends only its own conns.
LEMMA OwnConns ==
    ASSUME NEW n \in Node, NEW d \in Dir
    PROVE  /\ Dst(n, d) \notin Ends
           /\ \A k \in Node : Dst(n, d) = Left(k) \/ Dst(n, d) = Right(k) => k = n
           /\ \A k \in Node, e \in Dir : Dst(n, d) = Dst(k, e) => <<k, e>> = <<n, d>>
<1>1. /\ Dst(n, d) \notin Ends
      /\ \A k \in Node, e \in Dir : Dst(n, d) = Dst(k, e) => <<k, e>> = <<n, d>>
    <2>1. \A k \in Node, e \in Dir : Other(e) \in Dir /\ Src(k, Other(e)) = Dst(k, e)
        BY Along, Zenon
    <2>2. Dst(n, d) # App /\ Dst(n, d) # Target
        <3>1. Other(d) \in Dir /\ Src(n, Other(d)) = Dst(n, d)
            BY <2>1, Zenon
        <3>2. Src(n, Other(d)) # App /\ Src(n, Other(d)) # Target
            BY <3>1, Distinct, Zenon
        <3>3. QED BY <3>1, <3>2, Zenon
    <2>3. ASSUME NEW k \in Node, NEW e \in Dir, Dst(n, d) = Dst(k, e) PROVE <<k, e>> = <<n, d>>
        <3>1. <<k, Other(e)>> = <<n, Other(d)>>
            <4>1. /\ Other(d) \in Dir /\ Src(n, Other(d)) = Dst(n, d)
                  /\ Other(e) \in Dir /\ Src(k, Other(e)) = Dst(k, e)
                BY <2>1, Zenon
            <4>2. Src(k, Other(e)) = Src(n, Other(d))
                BY <2>3, <4>1, Zenon
            <4>3. QED BY <4>1, <4>2, Distinct, Zenon
        <3>2. k = n /\ Other(e) = Other(d)
            BY <3>1
        <3>3. e = d
            BY <3>2, Along, Zenon
        <3>4. QED BY <3>2, <3>3, Zenon
    <2>4. QED BY <2>2, <2>3, Zenon DEF Ends
<1>2. ASSUME NEW k \in Node, Dst(n, d) = Left(k) \/ Dst(n, d) = Right(k) PROVE k = n
    <2>1. Left(k) = Dst(k, "bwd") /\ Right(k) = Dst(k, "fwd") /\ "fwd" \in Dir /\ "bwd" \in Dir
        BY Geometry, Zenon DEF Dir
    <2>2. PICK e \in Dir : <<k, e>> = <<n, d>>
        BY <1>1, <1>2, <2>1, Zenon
    <2>3. QED BY <2>2
<1>3. QED BY <1>1, <1>2, Zenon

\* What is ended, broken or collided stays so, and an end that finished sends no more.
LEMMA Grows ==
    ASSUME PathType, [Next]_vars
    PROVE  /\ dead \subseteq dead' /\ fin \subseteq fin' /\ collided \subseteq collided'
           /\ \A c \in Ends : c \in fin => sent'[c] = sent[c]
<1> USE DEF linkVars, sessVars, copyVars, endVars, Close
<1>1. ASSUME NEW n \in Node, HandlerStep(n) \/ DialTarget
      PROVE  dead' = dead /\ fin \subseteq fin' /\ collided \subseteq collided' /\ sent' = sent
    <2>1. dead' = dead /\ sent' = sent
        BY <1>1, Zenon DEF HandlerStep, AcceptStream, ReadRequest, RequestFails, OpenStream,
            OpenFails, RequestRejected, ReadResponse, ResponseFails, ResponseTimesOut, AnswerOK,
            AnswerFails, RelayReturns, DialTarget, Refuse
    <2>2. fin \subseteq fin' /\ collided \subseteq collided'
        BY <1>1, Zenon DEF HandlerStep, AcceptStream, ReadRequest, RequestFails, OpenStream,
            OpenFails, RequestRejected, ReadResponse, ResponseFails, ResponseTimesOut, AnswerOK,
            AnswerFails, RelayReturns, DialTarget, Refuse
    <2>3. QED BY <2>1, <2>2, Zenon
<1>2. ASSUME NEW n \in Node, NEW d \in Dir, CopyStep(n, d)
      PROVE  dead' = dead /\ fin \subseteq fin' /\ collided \subseteq collided' /\ sent' = sent
    BY <1>2, Zenon DEF CopyStep, CopyRead, CopyWrite, CopyWriteFails, CopyEnds, LoopReturns
<1>3. ASSUME AppRequest
      PROVE  /\ dead' = dead /\ fin' = fin /\ collided' = collided
             /\ \A c \in Ends : c \in fin => sent'[c] = sent[c]
    <2>1. App \notin fin /\ \E k \in {0, 1} : sent' = [sent EXCEPT ![App] = k]
        BY <1>3, Zenon DEF AppRequest
    <2>2. \A c \in Ends : c # App => sent'[c] = sent[c]
        BY <2>1, Zenon DEF PathType
    <2>3. QED BY <1>3, <2>1, <2>2, Zenon DEF AppRequest
<1>4. ASSUME NEW e \in Ends, EndSend(e)
      PROVE  /\ dead' = dead /\ fin' = fin /\ collided \subseteq collided'
             /\ \A c \in Ends : c \in fin => sent'[c] = sent[c]
    <2>1. e \notin fin /\ sent' = [sent EXCEPT ![e] = @ + 1]
        BY <1>4, Zenon DEF EndSend
    <2>2. \A c \in Ends : c # e => sent'[c] = sent[c]
        BY <2>1, Zenon DEF PathType
    <2>3. QED BY <1>4, <2>1, <2>2, Zenon DEF EndSend
<1>5. ASSUME \/ \E c \in Ends : EndReceive(c) \/ EndFinish(c) \/ EndClose(c)
             \/ \E i \in Link : Reset(i) \/ SessionBreaks(i) \/ SessionReconnects(i)
             \/ UNCHANGED vars
      PROVE  dead \subseteq dead' /\ fin \subseteq fin' /\ collided' = collided /\ sent' = sent
    BY <1>5, Zenon DEF EndReceive, EndFinish, EndClose, Reset, SessionBreaks, SessionReconnects, vars
<1>6. 1 \in Node
    BY Geometry, Zenon
<1>7. CASE \E n \in Node : HandlerStep(n) \/ \E d \in Dir : CopyStep(n, d)
    BY <1>1, <1>2, <1>7, Zenon
<1>8. CASE DialTarget
    BY <1>1, <1>6, <1>8, Zenon
<1>9. CASE AppRequest \/ \E c \in Ends : EndSend(c)
    BY <1>3, <1>4, <1>9, Zenon
<1>10. QED BY <1>5, <1>7, <1>8, <1>9, Zenon DEF Next

\* A handler that is done did not copy later.
LEMMA CopiedBefore == ASSUME \A n \in Node : Goes(n), DoneCopied' PROVE DoneCopied
<1>1. ASSUME NEW n \in Node, NEW d \in Dir, pc[n] = "done" PROVE <<n, d>> \in ended
    <2>1. Goes(n)
        BY Zenon
    <2>2. pc'[n] = "done"
        BY <1>1, <2>1, Zenon DEF Goes, Early
    <2>3. <<n, d>> \in ended'
        BY <2>2, Zenon DEF DoneCopied
    <2>4. QED BY <1>1, <2>1, <2>3, Zenon DEF Goes
<1>2. QED BY <1>1, Zenon DEF DoneCopied

\* A node ends a conn when the loop that writes to it returns, or the handler.
LEMMA NodeEnds ==
    ASSUME PathType, [Next]_vars, NEW n \in Node, NEW d \in Dir, Dst(n, d) \in fin'
    PROVE  Dst(n, d) \in fin \/ <<n, d>> \in ended' \/ pc'[n] = "done"
<1> DEFINE c == Dst(n, d)
<1>1. /\ c \notin Ends
      /\ \A k \in Node : c = Left(k) \/ c = Right(k) => k = n
      /\ \A k \in Node, e \in Dir : c = Dst(k, e) => <<k, e>> = <<n, d>>
    BY OwnConns, Zenon
<1> HIDE DEF c
<1>2. c \in fin'
    BY Zenon DEF c
<1>3. SUFFICES ASSUME c \notin fin PROVE <<n, d>> \in ended' \/ pc'[n] = "done"
    BY <1>2, Zenon DEF c
<1>4. ASSUME NEW k \in Node, pc' = [pc EXCEPT ![k] = "done"],
             fin' = fin \cup {Left(k)} \/ fin' = fin \cup {Left(k), Right(k)}
      PROVE  pc'[n] = "done"
    <2>1. c = Left(k) \/ c = Right(k)
        BY <1>2, <1>3, <1>4, Zenon
    <2>2. QED BY <1>1, <1>4, <2>1, Zenon DEF PathType
<1>5. ASSUME NEW k \in Node, HandlerStep(k) PROVE pc'[n] = "done"
    <2>1. CASE RequestFails(k) \/ AnswerFails(k) \/ RelayReturns(k)
        BY <1>4, <2>1, Zenon DEF RequestFails, AnswerFails, RelayReturns, Close
    <2>2. CASE Refuse(k)
        <3>1. /\ pc' = [pc EXCEPT ![k] = "done"]
              /\ fin' = fin \cup ({Left(k)} \cup (IF k \in made THEN {Right(k)} ELSE {}))
            BY <2>2, Zenon DEF Refuse, Close
        <3>2. fin' = fin \cup {Left(k)} \/ fin' = fin \cup {Left(k), Right(k)}
            <4>1. CASE k \in made
                BY <3>1, <4>1, Zenon
            <4>2. CASE k \notin made
                BY <3>1, <4>2, Zenon
            <4>3. QED BY <4>1, <4>2, Zenon
        <3>3. QED BY <1>4, <3>1, <3>2, Zenon
    <2>3. CASE AcceptStream(k) \/ ReadRequest(k) \/ OpenStream(k) \/ ReadResponse(k) \/ AnswerOK(k)
        <3>1. fin' = fin
            BY <2>3, Zenon DEF AcceptStream, ReadRequest, OpenStream, ReadResponse, AnswerOK, linkVars
        <3>2. QED BY <1>2, <1>3, <3>1, Zenon
    <2>4. QED BY <1>5, <2>1, <2>2, <2>3, Zenon DEF HandlerStep, OpenFails, RequestRejected,
                ResponseFails, ResponseTimesOut
<1>6. ASSUME NEW k \in Node, NEW e \in Dir, CopyStep(k, e) PROVE <<n, d>> \in ended'
    <2>1. fin' = fin \/ (fin' = fin \cup {Dst(k, e)} /\ <<k, e>> \in ended')
        BY <1>6, Zenon DEF CopyStep, CopyRead, CopyWrite, CopyWriteFails, CopyEnds, LoopReturns, Close
    <2>2. c = Dst(k, e) /\ <<k, e>> \in ended'
        BY <1>2, <1>3, <2>1, Zenon
    <2>3. QED BY <1>1, <2>2, Zenon
<1>7. ASSUME \/ DialTarget \/ AppRequest
             \/ \E e \in Ends : EndSend(e) \/ EndReceive(e) \/ EndFinish(e) \/ EndClose(e)
             \/ \E i \in Link : Reset(i) \/ SessionBreaks(i) \/ SessionReconnects(i)
             \/ UNCHANGED vars
      PROVE  FALSE
    <2>1. fin' = fin \/ \E e \in Ends : fin' = fin \cup {e}
        BY <1>7, Zenon DEF DialTarget, AppRequest, EndSend, EndReceive, EndFinish, EndClose, Close,
            Reset, SessionBreaks, SessionReconnects, vars, linkVars
    <2>2. QED BY <1>1, <1>2, <1>3, <2>1, Zenon
<1>8. QED BY <1>5, <1>6, <1>7, Zenon DEF Next

\* Every step keeps FinInv.
LEMMA FinStep ==
    ASSUME PathType, FinInv, \A n \in Node : Goes(n), [Next]_vars PROVE FinInv'
<1> SUFFICES ASSUME DoneCopied', NEW n \in Node, NEW d \in Dir, Dst(n, d) \in fin'
             PROVE  <<n, d>> \in ended'
    BY Zenon DEF FinInv, Dst, Left, Right
<1>1. DoneCopied /\ Goes(n)
    BY CopiedBefore, Zenon
<1>2. CASE Dst(n, d) \in fin
    BY <1>1, <1>2, Zenon DEF FinInv, Goes
<1>3. CASE pc'[n] = "done"
    BY <1>3, Zenon DEF DoneCopied
<1>4. QED BY <1>2, <1>3, NodeEnds, Zenon

\* In a direction that nothing has cut off, no conn on its way is closed before the loop
\* that needs it returned, and what is finished is finished behind all that was sent.
LEMMA Uncut ==
    ASSUME NEW w \in Flows, NEW r \in Flows, Flow(w, r), FinInv, DoneCopied,
           NEW d \in Dir, Clean(d), \A n \in Node : Cut(n, d, w), NEW n \in Node
    PROVE  /\ Dst(n, d) \in fin \/ To(n, d) \in fin \/ Src(n, d) \in fin => <<n, d>> \in ended
           /\ Peer(Src(n, d)) \in fin =>
                  /\ Origin(d) \in fin /\ w[Src(n, d)] = sent[Origin(d)]
                  /\ Up(n, d) \in Node => <<Up(n, d), d>> \in ended
<1>1. \A k \in Node, e \in Dir : Dst(k, e) \in fin => <<k, e>> \in ended
    BY Zenon DEF FinInv
<1>2. \A k \in Node : <<k, Other(d)>> \in ended => <<k, d>> \in ended
    BY Zenon DEF Cut
<1>3. Other(d) \in Dir /\ Dst(n, Other(d)) = Src(n, d)
    BY Along, Zenon
<1>4. Src(n, d) \in fin => <<n, d>> \in ended
    BY <1>1, <1>2, <1>3, Zenon
<1>5. ASSUME To(n, d) \in fin PROVE <<n, d>> \in ended
    <2> DEFINE m == Up(n, Other(d))
    <2>1. m \in Node /\ To(n, d) = Dst(m, Other(d)) /\ Up(m, d) = n
        BY <1>5, Along, Zenon DEF Clean
    <2> HIDE DEF m
    <2>2. <<m, Other(d)>> \in ended
        BY <1>1, <1>3, <1>5, <2>1, Zenon
    <2>3. <<m, d>> \in ended
        BY <1>2, <2>1, <2>2, Zenon
    <2>4. QED BY <2>1, <2>3, Zenon DEF Cut
<1>6. ASSUME Peer(Src(n, d)) \in fin
      PROVE  /\ Origin(d) \in fin /\ w[Src(n, d)] = sent[Origin(d)]
             /\ Up(n, d) \in Node => <<Up(n, d), d>> \in ended
    <2>1. CASE Up(n, d) \notin Node
        <3>1. Peer(Src(n, d)) = Origin(d) /\ Src(n, d) = Peer(Origin(d))
            BY <2>1, Along, Zenon
        <3>2. w[Peer(Origin(d))] = sent[Origin(d)]
            <4>1. w[Peer(App)] = sent[App] /\ w[Peer(Target)] = sent[Target]
                BY EndConns, Zenon DEF Flow, EndsOK
            <4>2. QED BY <4>1, Zenon DEF Origin
        <3>3. QED BY <1>6, <2>1, <3>1, <3>2, Zenon
    <2>2. CASE Up(n, d) \in Node
        <3> DEFINE k == Up(n, d)
        <3>1. k \in Node /\ Peer(Src(n, d)) = Dst(k, d) /\ Src(n, d) = To(k, d)
            BY <2>2, Along, Zenon
        <3> HIDE DEF k
        <3>2. <<k, d>> \in ended
            BY <1>1, <1>6, <3>1, Zenon
        <3>3. Origin(d) \in fin /\ w[To(k, d)] = sent[Origin(d)]
            BY <3>1, <3>2, Zenon DEF Cut
        <3>4. QED BY <3>1, <3>2, <3>3, Zenon DEF k
    <2>3. QED BY <2>1, <2>2, Zenon
<1>7. QED BY <1>1, <1>4, <1>5, <1>6, Zenon

\* Which step ends a loop.
LEMMA LoopEndsBy ==
    ASSUME [Next]_vars, NEW n \in Node, NEW d \in Dir, <<n, d>> \in ended', <<n, d>> \notin ended
    PROVE  CopyEnds(n, d) \/ CopyWriteFails(n, d)
<1>1. ASSUME ended' = ended PROVE FALSE
    BY <1>1, Zenon
<1>2. ASSUME NEW k \in Node, HandlerStep(k) \/ DialTarget PROVE FALSE
    <2>1. ended' = ended
        BY <1>2, Zenon DEF HandlerStep, AcceptStream, ReadRequest, RequestFails, OpenStream,
            OpenFails, RequestRejected, ReadResponse, ResponseFails, ResponseTimesOut, AnswerOK,
            AnswerFails, RelayReturns, DialTarget, Refuse, copyVars
    <2>2. QED BY <1>1, <2>1, Zenon
<1>3. ASSUME NEW k \in Node, NEW e \in Dir, CopyStep(k, e)
      PROVE  CopyEnds(n, d) \/ CopyWriteFails(n, d)
    <2>1. \/ ended' = ended
          \/ ended' = ended \cup {<<k, e>>} /\ (CopyEnds(k, e) \/ CopyWriteFails(k, e))
        BY <1>3, Zenon DEF CopyStep, CopyRead, CopyWrite, CopyWriteFails, CopyEnds, LoopReturns
    <2>2. <<n, d>> = <<k, e>> /\ (CopyEnds(k, e) \/ CopyWriteFails(k, e))
        BY <2>1, Zenon
    <2>3. n = k /\ d = e
        BY <2>2
    <2>4. QED BY <2>2, <2>3, Zenon
<1>4. ASSUME \/ AppRequest
             \/ \E c \in Ends : EndSend(c) \/ EndReceive(c) \/ EndFinish(c) \/ EndClose(c)
             \/ \E i \in Link : Reset(i) \/ SessionBreaks(i) \/ SessionReconnects(i)
             \/ UNCHANGED vars
      PROVE  FALSE
    <2>1. ended' = ended
        BY <1>4, Zenon DEF AppRequest, EndSend, EndReceive, EndFinish, EndClose, Reset,
            SessionBreaks, SessionReconnects, vars, copyVars
    <2>2. QED BY <1>1, <2>1, Zenon
<1>5. QED BY <1>2, <1>3, <1>4, Zenon DEF Next

\* A loop that finds its source at the end has handed on all that the origin sent.
LEMMA EndsComplete ==
    ASSUME PathType, shut \subseteq fin, NEW w \in Flows, NEW r \in Flows, Flow(w, r),
           FinInv, DoneCopied, NEW d \in Dir, Clean(d), \A k \in Node : Cut(k, d, w), NEW n \in Node, CopyEnds(n, d)
    PROVE  /\ Origin(d) \in fin /\ w[To(n, d)] = sent[Origin(d)]
           /\ Up(n, d) \in Node => <<Up(n, d), d>> \in ended
<1> DEFINE c == Src(n, d)
<1>1. /\ pc[n] = "copy" /\ <<n, d>> \notin ended /\ hold[<<n, d>>] = None
      /\ c \in shut \/ c[1] \in dead \/ (inq[c] = <<>> /\ Peer(c) \in fin)
    BY Zenon DEF CopyEnds, Copying, ReadEnds
<1>2. c \notin fin /\ Dst(n, d) \notin fin /\ To(n, d) \notin fin
    BY <1>1, Uncut, Zenon
<1>3. dead = {}
    BY Zenon DEF Clean
<1>4. inq[c] = <<>> /\ Peer(c) \in fin
    BY <1>1, <1>2, <1>3, Zenon
<1>5. /\ Origin(d) \in fin /\ w[c] = sent[Origin(d)]
      /\ Up(n, d) \in Node => <<Up(n, d), d>> \in ended
    BY <1>4, Uncut, Zenon
<1>6. IsRun(inq[c], r[c], w[c])
    BY <1>1, <1>2, SrcRuns, Zenon
<1>7. c \in Conn /\ To(n, d) \in Conn
    BY Distinct, Zenon
<1>8. LoopOK(n, d, w, r)
    BY <1>1, Zenon DEF Flow, NodeOK
<1>9. Passes(n, d)
    BY <1>1, <1>2, <1>3, Zenon DEF Passes
<1> HIDE DEF c
<1>10. r[c] \in Nat /\ w[c] \in Nat /\ w[To(n, d)] \in Nat
    BY <1>7, Zenon DEF Flows
<1>11. r[c] = w[c]
    <2>1. Len(inq[c]) = 0 /\ Len(inq[c]) = w[c] - r[c]
        <3>1. Len(inq[c]) = w[c] - r[c]
            BY <1>6, Zenon DEF IsRun
        <3>2. QED BY <1>4, <3>1
    <2>2. QED BY <1>10, <2>1
<1>12. \/ r[c] = w[To(n, d)]
       \/ None = w[To(n, d)] + 1
    BY <1>1, <1>8, <1>9, Zenon DEF LoopOK, c
<1>13. r[c] = w[To(n, d)]
    BY <1>10, <1>12 DEF None
<1>14. QED BY <1>5, <1>11, <1>13, Zenon

\* Every step keeps CutInv: the steps that end a loop are the ones to look at.
LEMMA CutStep ==
    ASSUME PathType, PathInv, shut \subseteq fin, NoneEarly, FinInv, CutInv, [Next]_vars
    PROVE  CutInv'
<1>1. PICK w \in Flows, r \in Flows : Flow(w, r) /\ Cuts(w)
    BY Zenon DEF CutInv
<1>2. PICK w2 \in Flows, r2 \in Flows : Flow(w2, r2)' /\ Frozen(w, w2)
    <2>1. FlowsOn(w)
        BY <1>1, FlowGoesOn, Zenon
    <2>2. QED BY <2>1, Zenon DEF FlowsOn
<1>3. \A n \in Node : Goes(n)
    BY HandlersGo, Zenon
<1>4. /\ dead \subseteq dead' /\ fin \subseteq fin' /\ collided \subseteq collided'
      /\ \A c \in Ends : c \in fin => sent'[c] = sent[c]
    BY Grows, Zenon
<1>5. ASSUME DoneCopied', NEW d \in Dir, Clean(d)', NEW n \in Node PROVE Cut(n, d, w2)'
    <2>1. DoneCopied
        BY <1>3, <1>5, CopiedBefore, Zenon
    <2>2. Clean(d)
        <3>1. dead' = {} /\ Sink(d) \notin fin' /\ Other(d) \notin collided'
            BY <1>5, Zenon DEF Clean, Sink, App, Target
        <3>2. QED BY <1>4, <3>1, Zenon DEF Clean
    <2>3. \A k \in Node : Cut(k, d, w)
        BY <1>1, <1>5, <2>1, <2>2, Zenon DEF Cuts
    <2>4. Cut(n, d, w) /\ Goes(n)
        BY <1>3, <2>3, Zenon
    <2>5. ended \subseteq ended'
        BY <2>4, Zenon DEF Goes
    <2>6. Origin(d) \in Ends /\ Other(d) \in Dir
        BY Along, Zenon DEF Origin, Ends
    <2>7. <<n, d>> \in ended' =>
              /\ Origin(d) \in fin /\ w[To(n, d)] = sent[Origin(d)] /\ pc[n] \notin Early
              /\ Up(n, d) \in Node => <<Up(n, d), d>> \in ended
        <3>1. CASE <<n, d>> \in ended
            BY <2>4, <3>1, Zenon DEF Cut, NoneEarly, Early
        <3>2. CASE <<n, d>> \notin ended /\ CopyEnds(n, d)
            <4>1. pc[n] = "copy"
                BY <3>2, Zenon DEF CopyEnds, Copying
            <4>2. QED BY <1>1, <2>1, <2>2, <2>3, <3>2, <4>1, EndsComplete, Zenon DEF Early
        <3>3. CASE <<n, d>> \notin ended /\ CopyWriteFails(n, d)
            <4>1. WriteFails(Dst(n, d)) /\ dead = {} /\ To(n, d) = Peer(Dst(n, d))
                BY <2>2, <3>3, Zenon DEF CopyWriteFails, Clean, To
            <4>2. Dst(n, d) \in fin \/ To(n, d) \in fin
                BY <4>1, Zenon DEF WriteFails
            <4>3. QED BY <1>1, <2>1, <2>2, <2>3, <3>3, <4>2, Uncut, Zenon
        <3>4. QED BY <3>1, <3>2, <3>3, LoopEndsBy, Zenon
    <2>8. <<n, Other(d)>> \in ended' => <<n, d>> \in ended
        <3>1. CASE <<n, Other(d)>> \in ended
            BY <2>4, <3>1, Zenon DEF Cut
        <3>2. CASE CopyEnds(n, Other(d))
            <4>1. ReadEnds(Dst(n, d)) /\ dead = {} /\ To(n, d) = Peer(Dst(n, d))
                BY <2>2, <3>2, Along, Zenon DEF CopyEnds, Clean, To
            <4>2. Dst(n, d) \in fin \/ To(n, d) \in fin
                BY <4>1, Zenon DEF ReadEnds
            <4>3. QED BY <1>1, <2>1, <2>2, <2>3, <4>2, Uncut, Zenon
        <3>3. CASE CopyWriteFails(n, Other(d))
            <4>1. Other(d) \in collided'
                BY <3>3, Zenon DEF CopyWriteFails
            <4>2. QED BY <1>5, <4>1, Zenon DEF Clean
        <3>4. QED BY <2>6, <3>1, <3>2, <3>3, LoopEndsBy, Zenon
    <2>9. <<n, d>> \in ended' => w2[To(n, d)] = sent'[Origin(d)] /\ Origin(d) \in fin'
        BY <1>2, <1>4, <2>6, <2>7, Zenon DEF Frozen
    <2>10. QED BY <2>5, <2>7, <2>8, <2>9, Zenon DEF Cut
<1>6. Cuts(w2)'
    BY <1>5, Zenon DEF Cuts
<1>7. QED BY <1>2, <1>6, Zenon DEF CutInv

\* When all nodes have copied and nothing has cut a direction off, its end is reached
\* behind all that was sent.
LEMMA CutMeans ==
    PathType /\ shut \subseteq fin /\ RanInv /\ FinInv /\ CutInv => TruncationHasCause
<1> SUFFICES ASSUME PathType, shut \subseteq fin, RanInv, FinInv, CutInv, Accepted
             PROVE  /\ ReadEnds(App) /\ Len(got[App]) <= sent[Target]
                           => App \in fin \/ "fwd" \in collided \/ dead # {}
                    /\ ReadEnds(Target) /\ Len(got[Target]) < sent[App]
                           => Target \in fin \/ "bwd" \in collided \/ dead # {}
    BY Zenon DEF TruncationHasCause
<1>1. PICK w \in Flows, r \in Flows : Flow(w, r) /\ Cuts(w)
    BY Zenon DEF CutInv
<1>2. DoneCopied
    <2>1. \A n \in Node : n >= 1
        BY Geometry
    <2>2. \A n \in Node : Ran(n)
        BY <2>1, Zenon DEF RanInv, RanFrom
    <2>3. ASSUME NEW n \in Node, pc[n] = "done", NEW d \in Dir PROVE <<n, d>> \in ended
        BY <2>2, <2>3, Zenon DEF Ran
    <2>4. QED BY <2>3, Zenon DEF DoneCopied
<1>3. /\ App \in Conn /\ Target \in Conn /\ App \in Ends /\ Target \in Ends
      /\ "fwd" \in Dir /\ "bwd" \in Dir /\ "fwd" # "bwd" /\ 1 \in Node /\ Nodes \in Node
      /\ 0 \in Link /\ Nodes \in Link /\ ~(Nodes < Nodes)
      /\ App = <<0, "L">> /\ Target = <<Nodes, "R">>
    BY Geometry, EndConns, Zenon DEF Dir, Ends
<1>4. /\ got[App] \in Seq(Int) /\ got[Target] \in Seq(Int) /\ sent[App] \in Nat /\ sent[Target] \in Nat
      /\ w[App] \in Nat /\ w[Target] \in Nat /\ r[App] \in Nat /\ r[Target] \in Nat
    BY <1>3, Zenon DEF PathType, Flows
<1>5. ASSUME NEW c \in Conn, IsRun(inq[c], r[c], w[c]), inq[c] = <<>> PROVE r[c] = w[c]
    <2>1. r[c] \in Nat /\ w[c] \in Nat
        BY Zenon DEF Flows
    <2>2. Len(inq[c]) = w[c] - r[c]
        BY <1>5, Zenon DEF IsRun
    <2>3. QED BY <1>5, <2>1, <2>2
<1>6. ASSUME ReadEnds(App), App \notin fin, "fwd" \notin collided, dead = {}
      PROVE  ~(Len(got[App]) <= sent[Target])
    <2>1. Clean("bwd") /\ Origin("bwd") = Target
        BY <1>3, <1>6, Zenon DEF Clean, Sink, Other, Origin
    <2>2. App \notin shut /\ inq[App] = <<>> /\ Peer(App) \in fin
        BY <1>6, Zenon DEF ReadEnds
    <2>3. To(1, "bwd") = App /\ Dst(1, "bwd") = Peer(App)
        <3>1. 1 - 1 = 0
            OBVIOUS
        <3>2. QED BY <1>3, <3>1, Geometry, EndConns, Zenon
    <2>4. <<1, "bwd">> \in ended
        BY <1>2, <1>3, <2>2, <2>3, Zenon DEF FinInv
    <2>5. Cut(1, "bwd", w)
        BY <1>1, <1>2, <1>3, <2>1, Zenon DEF Cuts
    <2>6. w[App] = sent[Target]
        BY <2>1, <2>3, <2>4, <2>5, Zenon DEF Cut
    <2>7. got[App] # <<>> /\ got[App][1] = Ok
        BY Zenon DEF Accepted
    <2>8. r[App] = w[App]
        <3>1. ~BwdAwaits(0)
            BY <2>7, Zenon DEF BwdAwaits
        <3>2. IsRun(inq[App], r[App], w[App])
            BY <1>1, <1>3, <2>2, <3>1, Zenon DEF Flow, BwdOK
        <3>3. QED BY <1>3, <1>5, <2>2, <3>2, Zenon
    <2>9. Tagged(got[App], Ok, r[App])
        <3>1. got[App] # <<Fail>>
            <4>1. <<Fail>>[1] # Ok
                BY DEF Fail, Ok
            <4>2. QED BY <2>7, <4>1, Zenon
        <3>2. QED BY <1>1, <2>7, <3>1, Zenon DEF Flow, EndsOK
    <2>10. Len(got[App]) = sent[Target] + 1
        BY <2>6, <2>8, <2>9, Zenon DEF Tagged
    <2>11. QED BY <1>4, <2>10
<1>7. ASSUME ReadEnds(Target), Target \notin fin, "bwd" \notin collided, dead = {}
      PROVE  ~(Len(got[Target]) < sent[App])
    <2>1. Clean("fwd") /\ Origin("fwd") = App
        BY <1>3, <1>7, Zenon DEF Clean, Sink, Other, Origin
    <2>2. Target \notin shut /\ inq[Target] = <<>> /\ Peer(Target) \in fin
        BY <1>7, Zenon DEF ReadEnds
    <2>3. To(Nodes, "fwd") = Target /\ Dst(Nodes, "fwd") = Peer(Target)
        BY <1>3, Geometry, EndConns, Zenon
    <2>4. <<Nodes, "fwd">> \in ended
        BY <1>2, <1>3, <2>2, <2>3, Zenon DEF FinInv
    <2>5. Cut(Nodes, "fwd", w)
        BY <1>1, <1>2, <1>3, <2>1, Zenon DEF Cuts
    <2>6. w[Target] = sent[App]
        BY <2>1, <2>3, <2>4, <2>5, Zenon DEF Cut
    <2>7. r[Target] = w[Target]
        <3>1. ~FwdAwaits(Nodes)
            BY <1>3, Zenon DEF FwdAwaits
        <3>2. IsRun(inq[Target], r[Target], w[Target])
            BY <1>1, <1>3, <2>2, <3>1, Zenon DEF Flow, FwdOK
        <3>3. QED BY <1>3, <1>5, <2>2, <3>2, Zenon
    <2>8. IsRun(got[Target], 0, r[Target])
        BY <1>1, Zenon DEF Flow, EndsOK
    <2>9. Len(got[Target]) = sent[App]
        <3>1. Len(got[Target]) = r[Target] - 0
            BY <2>8, Zenon DEF IsRun
        <3>2. QED BY <1>4, <2>6, <2>7, <3>1
    <2>10. QED BY <1>4, <2>9
<1>8. QED BY <1>6, <1>7, Zenon

\* At first no loop has ended and no OK was written.
LEMMA CutInit == Init => RanInv /\ FinInv /\ CutInv
<1> SUFFICES ASSUME Init PROVE RanInv /\ FinInv /\ CutInv
    OBVIOUS
<1>1. /\ pc = [n \in Node |-> IF n = 1 THEN "request" ELSE "none"]
      /\ inq = [c \in Conn |-> <<>>] /\ fin = {} /\ ended = {} /\ got = [c \in Ends |-> <<>>]
    BY Zenon DEF Init
<1>2. \A n \in Node : pc[n] = "request" \/ pc[n] = "none"
    BY <1>1, Zenon
<1>3. \A x : x \notin ended /\ x \notin fin
    BY <1>1, Zenon
<1>4. \A n \in Node : ~Ran(n) /\ pc[n] # "answer"
    BY <1>2, Zenon DEF Ran
<1>5. \A i \in Link : ~HasOk(inq[<<i, "L">>])
    BY <1>1, Geometry, OkFacts, Zenon
<1>6. ~Accepted
    <2>1. App \in Ends
        BY Zenon DEF Ends
    <2>2. QED BY <1>1, <2>1, Zenon DEF Accepted
<1>7. RanInv
    BY <1>3, <1>4, <1>5, <1>6, Zenon DEF RanInv, NoneEarly, AnswersRan, OksRan
<1>8. FinInv
    BY <1>3, Zenon DEF FinInv
<1>9. CutInv
    <2>1. PICK w \in Flows, r \in Flows : Flow(w, r)
        BY FlowInit, Zenon DEF FlowInv
    <2>2. \A n \in Node, d \in Dir : Cut(n, d, w)
        BY <1>3, Zenon DEF Cut
    <2>3. QED BY <2>1, <2>2, Zenon DEF CutInv, Cuts
<1>10. QED BY <1>7, <1>8, <1>9, Zenon

\* A connection that the application was told is open ends early only for a cause: the
\* reader had ended its own direction, data of the other direction met a closed end, or a
\* link broke.  On a path of any length no loop of Relay or of the proxies stops behind
\* less than its source sent, although each closes a conn that the other one reads.
THEOREM Truncation == Spec => []TruncationHasCause
<1> DEFINE Inv == PathType /\ PathInv /\ FlowInv /\ Within /\ RanInv /\ FinInv /\ CutInv
<1>1. Init => Inv
    BY PathInit, FlowInit, WithinInit, CutInit, Zenon
<1>2. Inv /\ [Next]_vars => Inv'
    <2> SUFFICES ASSUME Inv, [Next]_vars PROVE Inv'
        OBVIOUS
    <2>1. PathType' /\ PathInv'
        BY PathStep, Zenon
    <2>2. FlowInv' /\ RanInv'
        BY FlowStep, RanStep, Zenon
    <2>3. FinInv'
        BY HandlersGo, FinStep, Zenon
    <2>4. Within'
        BY WithinStep, Zenon
    <2>5. CutInv'
        BY CutStep, Zenon DEF RanInv, Within
    <2>6. QED BY <2>1, <2>2, <2>3, <2>4, <2>5, Zenon
<1>3. Inv => TruncationHasCause
    BY CutMeans, Zenon DEF Within
<1>4. QED BY <1>1, <1>2, <1>3, PTL DEF Spec

-----------------------------------------------------------------------------
(* What a path at rest waits for.                                          *)

\* A set of numbers has a smallest one.
LEMMA Smallest ==
    ASSUME NEW S \in SUBSET Nat, S # {} PROVE \E x \in S : \A y \in S : x <= y
<1> DEFINE R == OpToRel(<, Nat)
<1>1. IsWellFoundedOn(R, Nat)
    BY NatLessThanWellFounded, Zenon
<1>2. \A x, y \in Nat : <<y, x>> \in R <=> y < x
    BY DEF OpToRel
<1> HIDE DEF R
<1>3. PICK x \in S : \A y \in S : ~(<<y, x>> \in R)
    BY <1>1, WFMin, Zenon
<1>4. ASSUME NEW y \in S PROVE x <= y
    <2>1. ~(y < x) /\ x \in Nat /\ y \in Nat
        BY <1>2, <1>3, Zenon
    <2>2. QED BY <2>1
<1>5. QED BY <1>4, Zenon

\* Of some nodes one is the first along a direction.
LEMMA FirstAlong ==
    ASSUME NEW S \in SUBSET Node, S # {}, NEW d \in Dir PROVE \E n \in S : Up(n, d) \notin S
<1>0. Nodes \in Nat /\ \A n \in S : n \in Nat /\ n <= Nodes
    BY PathAssumption DEF Node
<1>1. CASE d = "fwd"
    <2>1. PICK n \in S : \A m \in S : n <= m
        BY <1>0, Smallest
    <2>2. n - 1 \notin S
        BY <1>0, <2>1
    <2>3. QED BY <1>1, <2>2, Zenon DEF Up
<1>2. CASE d = "bwd"
    <2> DEFINE T == {Nodes - n : n \in S}
    <2>1. T \in SUBSET Nat /\ T # {}
        BY <1>0
    <2>2. PICK x \in T : \A y \in T : x <= y
        BY <2>1, Smallest, Zenon
    <2>3. PICK n \in S : x = Nodes - n
        BY Zenon
    <2>4. n + 1 \notin S
        <3>1. ASSUME n + 1 \in S PROVE FALSE
            <4>1. Nodes - n <= Nodes - (n + 1)
                BY <2>2, <2>3, <3>1, Zenon
            <4>2. QED BY <1>0, <4>1
        <3>2. QED BY <3>1, Zenon
    <2>5. "bwd" # "fwd"
        OBVIOUS
    <2>6. QED BY <1>2, <2>4, <2>5, Zenon DEF Up
<1>3. QED BY <1>1, <1>2, Zenon DEF Dir

\* A loop that returned has closed its conn, and did so because its direction collided or
\* its source ended.
Shuts(n, d) ==
    <<n, d>> \in ended =>
        /\ Dst(n, d) \in shut
        /\ \/ d \in collided \/ Src(n, d) \in shut \/ Src(n, d)[1] \in dead
           \/ Peer(Src(n, d)) \in fin
EndInv ==
    /\ \A n \in Node, d \in Dir : Shuts(n, d)
    /\ Finished

\* Every step keeps EndInv.
LEMMA EndStep == ASSUME PathType, EndInv, [Next]_vars PROVE EndInv'
<1>1. /\ shut \subseteq shut' /\ fin \subseteq fin' /\ dead \subseteq dead' /\ collided \subseteq collided'
      /\ \A c \in fin' : c \in fin \/ c \in shut' \/ c \in Ends
    BY Closes, Grows, Zenon
<1>2. ASSUME NEW n \in Node, NEW d \in Dir PROVE Shuts(n, d)'
    <2> DEFINE a == Dst(n, d)
               b == Src(n, d)
               p == Peer(b)
    <2>1. a' = a /\ b' = b /\ p' = p
        BY Zenon DEF Dst, Src, Left, Right, Peer
    <2> HIDE DEF a, b, p
    <2>2. Shuts(n, d) <=> (<<n, d>> \in ended =>
              a \in shut /\ (d \in collided \/ b \in shut \/ b[1] \in dead \/ p \in fin))
        BY Zenon DEF Shuts, a, b, p
    <2>3. Shuts(n, d)' <=> (<<n, d>> \in ended' =>
              a \in shut' /\ (d \in collided' \/ b \in shut' \/ b[1] \in dead' \/ p \in fin'))
        BY <2>1, Zenon DEF Shuts, a, b, p
    <2>4. CASE <<n, d>> \in ended
        BY <1>1, <2>2, <2>3, <2>4, Zenon DEF EndInv, Finished
    <2>5. CASE <<n, d>> \notin ended /\ <<n, d>> \in ended'
        <3>1. CopyEnds(n, d) \/ CopyWriteFails(n, d)
            BY <2>5, LoopEndsBy, Zenon
        <3>2. a \in shut'
            BY <3>1, Zenon DEF CopyEnds, CopyWriteFails, LoopReturns, Close, a
        <3>3. d \in collided' \/ ReadEnds(b)
            BY <3>1, Zenon DEF CopyEnds, CopyWriteFails, b
        <3>4. QED BY <1>1, <2>3, <3>2, <3>3, Zenon DEF ReadEnds, p
    <2>6. QED BY <2>3, <2>4, <2>5, Zenon
<1>3. \A c \in fin' : c \in shut' \/ c \in Ends
    BY <1>1, Zenon DEF EndInv, Finished
<1>4. Ends' = Ends
    BY Zenon DEF Ends, App, Target
<1>5. QED BY <1>2, <1>3, Zenon DEF EndInv, Finished

\* A loop that cannot write, and one that has nothing to read.
Blocked(n, d) ==
    /\ Copying(n, d) /\ Dst(n, d) \notin shut /\ Dst(n, d)[1] \notin dead
    /\ To(n, d) \notin shut /\ inq[To(n, d)] # <<>>
Waiting(n, d) ==
    /\ Copying(n, d) /\ Src(n, d) \notin shut /\ Src(n, d)[1] \notin dead
    /\ Peer(Src(n, d)) \notin fin

\* What is known of a path at rest.
Resting == PathType /\ PathInv /\ FlowInv /\ Within /\ EndInv /\ AtRest

\* At rest no handler is before its loops: its requests time out, its answers are waited
\* for, and the answer that the client waits for without a deadline comes or fails.
LEMMA RestPlaces ==
    ASSUME Resting, NEW n \in Node PROVE pc[n] \in {"none", "copy", "done"}
<1>0. PathType /\ PathInv /\ FlowInv /\ Within /\ \A k \in Node : ~HandlerReady(k)
    BY Zenon DEF Resting, AtRest
<1>1. PICK w \in Flows, r \in Flows : Flow(w, r)
    BY <1>0, Zenon DEF FlowInv
<1>2. \A k \in Node : /\ pc[k] \in Places /\ pc[k] \notin {"request", "open"}
                      /\ pc[k] = "sent" => ~(k > 1)
    BY <1>0, Zenon DEF PathType, HandlerReady
<1>3. pc[n] # "answer"
    <2> SUFFICES ASSUME pc[n] = "answer" PROVE FALSE
        OBVIOUS
    <2>1. ~WriteTakes(Left(n)) /\ ~WriteFails(Left(n))
        BY <1>0, Zenon DEF HandlerReady
    <2>2. Peer(Left(n)) = <<n - 1, "L">> /\ <<n - 1, "L">> \notin shut
        BY <2>1, Geometry, Zenon DEF WriteFails
    <2>3. inq[<<n - 1, "L">>] = <<>>
        BY <1>0, <1>1, <2>2, Awaited, Zenon DEF Early
    <2>4. Len(<<>>) < Cap
        BY PathAssumption
    <2>5. QED BY <2>1, <2>2, <2>3, <2>4, Zenon DEF WriteTakes, WriteFails
<1>4. pc[n] # "sent"
    <2> SUFFICES ASSUME pc[n] = "sent" PROVE FALSE
        OBVIOUS
    <2>1. n = 1
        <3>1. ~(n > 1) /\ n \in Int /\ 1 <= n
            BY <1>2, Geometry, Zenon
        <3>2. QED BY <3>1
    <2>2. PICK m : m = n + 1
        OBVIOUS
    <2>3. n < Nodes /\ m \in Node /\ m > 1 /\ m - 1 = n /\ n # 0
        BY <2>1, <2>2, PathAssumption DEF Node
    <2>4. ~ReadEnds(Right(n)) /\ ~(Readable(Right(n)) /\ Head(inq[Right(n)]) \in {Ok, Fail})
        BY <1>0, Zenon DEF HandlerReady
    <2>5. Right(n) = <<n, "L">> /\ Peer(Right(n)) = <<n, "R">> /\ Left(m) = <<m - 1, "R">> /\ n \in Link
        BY <2>3, Geometry, Zenon
    <2>6. Right(n)[1] = n
        BY <2>5
    <2>7. <<n, "L">> \notin shut /\ n \notin dead /\ ~(inq[<<n, "L">>] = <<>> /\ <<n, "R">> \in fin)
        BY <2>4, <2>5, <2>6, Zenon DEF ReadEnds
    <2>8. inq[<<n, "L">>] # <<>> => ~(Head(inq[<<n, "L">>]) \in {Ok, Fail})
        BY <2>4, <2>5, <2>6, <2>7, Zenon DEF Readable
    <2>9. FirstAnswer(n, w)
        BY <1>1, <2>3, <2>5, <2>7, Zenon DEF Flow, BwdOK, BwdAwaits
    <2>10. ~Tagged(inq[<<n, "L">>], Ok, w[<<n, "L">>])
        <3> DEFINE s == inq[<<n, "L">>]
                   b == w[<<n, "L">>]
        <3>1. s \in Seq(Int) /\ b \in Nat
            BY <1>0, <2>5, Geometry, Zenon DEF PathType, Queues, Flows
        <3> HIDE DEF s, b
        <3>2. Tagged(s, Ok, b) => s # <<>> /\ Head(s) = Ok
            BY <3>1 DEF Tagged
        <3>3. QED BY <2>8, <3>2, Zenon DEF s, b
    <2>11. pc[m] # "none"
        <3>1. n \in made
            BY <1>0, Zenon DEF PathInv, Opened
        <3>2. QED BY <1>0, <2>3, <2>7, <3>1, Zenon DEF HandlerReady
    <2>12. pc[m] # "copy"
        BY <2>2, <2>9, <2>10, Zenon DEF FirstAnswer
    <2>13. pc[m] # "done"
        <3> SUFFICES ASSUME pc[m] = "done" PROVE FALSE
            OBVIOUS
        <3>1. inq[<<n, "L">>] = <<>> \/ inq[<<n, "L">>] = <<Fail>>
            BY <2>2, <2>9, <2>10, Zenon DEF FirstAnswer
        <3>2. <<n, "R">> \in fin
            BY <1>0, <2>3, <2>5, Zenon DEF PathInv, DoneMeansClosed, Within
        <3>3. <<Fail>> # <<>> /\ Head(<<Fail>>) = Fail
            OBVIOUS
        <3>4. QED BY <2>7, <2>8, <3>1, <3>2, <3>3, Zenon
    <2>14. pc[m] # "answer"
        <3> SUFFICES ASSUME pc[m] = "answer" PROVE FALSE
            OBVIOUS
        <3>1. ~WriteTakes(Left(m)) /\ ~WriteFails(Left(m))
            BY <1>0, <2>3, Zenon DEF HandlerReady
        <3>2. Peer(Left(m)) = <<n, "L">> /\ inq[<<n, "L">>] = <<>>
            BY <2>2, <2>3, <2>9, Geometry, Zenon DEF FirstAnswer, Early
        <3>3. Len(<<>>) < Cap
            BY PathAssumption
        <3>4. QED BY <3>1, <3>2, <3>3, Zenon DEF WriteTakes, WriteFails
    <2>15. QED BY <1>2, <2>3, <2>11, <2>12, <2>13, <2>14, Zenon DEF Places
<1>5. QED BY <1>2, <1>3, <1>4, Zenon DEF Places

\* Where a loop of a path at rest is; one of the two has not returned.
LEMMA RestLoops ==
    ASSUME Resting, NEW n \in Node, pc[n] = "copy"
    PROVE  /\ \A d \in Dir : <<n, d>> \in ended \/ Blocked(n, d) \/ Waiting(n, d)
           /\ \E d \in Dir : <<n, d>> \notin ended
<1>0. ~HandlerReady(n) /\ \A d \in Dir : ~CopyReady(n, d)
    BY Zenon DEF Resting, AtRest
<1>1. ASSUME NEW d \in Dir, <<n, d>> \notin ended PROVE Blocked(n, d) \/ Waiting(n, d)
    <2>0. Copying(n, d)
        BY <1>1, Zenon DEF Copying
    <2>1. CASE hold[<<n, d>>] = None
        BY <1>0, <2>0, <2>1, Zenon DEF CopyReady, Readable, ReadEnds, Waiting
    <2>2. CASE hold[<<n, d>>] # None
        <3>1. ~WriteTakes(Dst(n, d)) /\ ~WriteFails(Dst(n, d))
            BY <1>0, <2>0, <2>2, Zenon DEF CopyReady
        <3>2. Len(<<>>) < Cap
            BY PathAssumption
        <3>3. inq[To(n, d)] # <<>>
            BY <3>1, <3>2, Zenon DEF WriteTakes, WriteFails, To
        <3>4. QED BY <2>0, <3>1, <3>3, Zenon DEF WriteFails, Blocked, To
    <2>3. QED BY <2>1, <2>2, Zenon
<1>2. \E d \in Dir : <<n, d>> \notin ended
    <2>1. ASSUME \A d \in Dir : <<n, d>> \in ended PROVE FALSE
        <3>1. {n} \X Dir \subseteq ended
            BY <2>1
        <3>2. QED BY <1>0, <3>1, Zenon DEF HandlerReady
    <2>2. QED BY <2>1, Zenon
<1>3. QED BY <1>1, <1>2, Zenon

\* The neighbours of a node that copies copy too, or have closed their side.
LEMMA RestNeighbours ==
    ASSUME Resting, NEW n \in Node, pc[n] = "copy", NEW d \in Dir, Up(n, d) \in Node
    PROVE  pc[Up(n, d)] = "copy" \/ (pc[Up(n, d)] = "done" /\ Dst(Up(n, d), d) \in shut)
<1>0. PathInv /\ \A k \in Node : pc[k] \in {"none", "copy", "done"}
    BY RestPlaces, Zenon DEF Resting
<1>1. Chain
    BY Zenon DEF Resting, FlowInv, Flow
<1>2. PICK m : m = Up(n, d)
    BY Zenon
<1>3. m \in Node
    BY <1>2, Zenon
<1>4. CASE d = "fwd"
    <2>1. m = n - 1 /\ m \in made
        BY <1>0, <1>1, <1>2, <1>4, Reached, Zenon DEF Up
    <2>2. pc[m] # "none"
        BY <1>0, <1>3, <2>1, Zenon DEF PathInv, Opened
    <2>3. pc[m] = "done" => Dst(m, d) \in shut
        BY <1>0, <1>3, <1>4, <2>1, Zenon DEF PathInv, DoneMeansClosed, Dst
    <2>4. QED BY <1>0, <1>2, <1>3, <2>2, <2>3, Zenon
<1>5. CASE d = "bwd"
    <2>0. "bwd" # "fwd"
        OBVIOUS
    <2>1. m = n + 1
        BY <1>2, <1>5, <2>0, Zenon DEF Up
    <2>2. n < Nodes
        BY <1>3, <2>1, PathAssumption DEF Node
    <2>3. pc[m] \in {"copy", "done"}
        BY <1>1, <2>1, <2>2, Zenon DEF Chain
    <2>4. pc[m] = "done" => Dst(m, d) \in shut
        BY <1>0, <1>3, <1>5, <2>0, Zenon DEF PathInv, DoneMeansClosed, Dst
    <2>5. QED BY <1>2, <2>3, <2>4, Zenon
<1>6. QED BY <1>4, <1>5, Zenon DEF Dir

\* Behind a blocked loop another one is blocked: of the same direction, or of the other
\* one where the first ended because its data met a closed end.
LEMMA BlockedNext ==
    ASSUME Resting, NEW n \in Node, NEW d \in Dir, Blocked(n, d)
    PROVE  LET m == Up(n, Other(d))
           IN  m \in Node /\ (Blocked(m, d) \/ (d \in collided /\ Blocked(m, Other(d))))
<1>0. /\ pc[n] = "copy" /\ Dst(n, d) \notin shut /\ Dst(n, d)[1] \notin dead
      /\ To(n, d) \notin shut /\ inq[To(n, d)] # <<>>
    BY Zenon DEF Blocked, Copying
<1>1. To(n, d)[1] = Dst(n, d)[1]
    BY DEF To, Peer
<1>2. Readable(To(n, d))
    BY <1>0, <1>1, Zenon DEF Readable
<1>3. To(n, d) # Sink(d)
    <2>1. \A c \in Ends : ~Readable(c)
        BY Zenon DEF Resting, AtRest
    <2>2. Sink(d) \in Ends
        BY Zenon DEF Sink, Ends
    <2>3. QED BY <1>2, <2>1, <2>2, Zenon
<1> DEFINE m == Up(n, Other(d))
<1>4. /\ Other(d) \in Dir /\ m \in Node /\ To(n, d) = Dst(m, Other(d)) /\ Up(m, d) = n
    BY <1>3, Along, Zenon
<1>5. pc[m] = "copy"
    BY <1>0, <1>4, RestNeighbours, Zenon
<1> HIDE DEF m
<1>6. /\ Src(m, d) = To(n, d) /\ Peer(Src(m, d)) = Dst(n, d) /\ Src(m, Other(d)) = Dst(m, d)
    BY <1>4, Along, Zenon
<1>7. CASE <<m, d>> \notin ended
    <2>1. Copying(m, d) /\ ~CopyReady(m, d)
        BY <1>4, <1>5, <1>7, Zenon DEF Copying, Resting, AtRest
    <2>2. hold[<<m, d>>] # None
        BY <1>2, <1>6, <2>1, Zenon DEF CopyReady
    <2>3. ~WriteTakes(Dst(m, d)) /\ ~WriteFails(Dst(m, d))
        BY <2>1, <2>2, Zenon DEF CopyReady
    <2>4. Len(<<>>) < Cap
        BY PathAssumption
    <2>5. Blocked(m, d)
        BY <2>1, <2>3, <2>4, Zenon DEF WriteTakes, WriteFails, To, Blocked
    <2>6. QED BY <1>4, <2>5, Zenon DEF m
<1>8. CASE <<m, d>> \in ended
    <2>1. Shuts(m, d) /\ \A c \in fin : c \in shut \/ c \in Ends
        BY <1>4, Zenon DEF Resting, EndInv, Finished
    <2>2. Dst(n, d) \notin fin
        BY <1>0, <2>1, OwnConns, Zenon
    <2>3. d \in collided /\ Dst(m, d) \in shut
        BY <1>0, <1>1, <1>6, <1>8, <2>1, <2>2, ZenonT(30) DEF Shuts
    <2>4. <<m, Other(d)>> \notin ended
        <3>1. \A e \in Dir : e = d \/ e = Other(d)
            BY DEF Dir, Other
        <3>2. PICK e \in Dir : <<m, e>> \notin ended
            BY <1>4, <1>5, RestLoops, Zenon
        <3>3. QED BY <1>8, <3>1, <3>2, Zenon
    <2>5. ~Waiting(m, Other(d))
        BY <1>6, <2>3, Zenon DEF Waiting
    <2>6. Blocked(m, Other(d))
        BY <1>4, <1>5, <2>4, <2>5, RestLoops, Zenon
    <2>7. QED BY <1>4, <2>3, <2>6, Zenon DEF m
<1>9. QED BY <1>7, <1>8, Zenon

\* So blocked loops of a path at rest are there in both directions, which have collided.
LEMMA BlockedBoth ==
    ASSUME Resting, NEW d \in Dir, NEW S, S = {n \in Node : Blocked(n, d)}, S # {}
    PROVE  d \in collided /\ \E n \in Node : Blocked(n, Other(d))
<1>1. Other(d) \in Dir
    BY Zenon DEF Other, Dir
<1>2. PICK n \in S : Up(n, Other(d)) \notin S
    BY <1>1, FirstAlong, Zenon
<1>3. n \in Node /\ Blocked(n, d)
    BY <1>2, Zenon
<1>4. PICK m \in Node : m \notin S /\ (Blocked(m, d) \/ (d \in collided /\ Blocked(m, Other(d))))
    BY <1>2, <1>3, BlockedNext, Zenon
<1>5. QED BY <1>4, Zenon

LEMMA NoneBlocked ==
    ASSUME Resting, collided # Dir PROVE \A n \in Node, d \in Dir : ~Blocked(n, d)
<1>1. ASSUME NEW d \in Dir, NEW n \in Node, Blocked(n, d)
      PROVE  d \in collided /\ \E k \in Node : Blocked(k, Other(d))
    <2> DEFINE S == {k \in Node : Blocked(k, d)}
    <2>1. S # {}
        BY <1>1, Zenon
    <2>2. QED BY <2>1, BlockedBoth, Zenon
<1>2. ASSUME NEW d \in Dir, NEW n \in Node, Blocked(n, d) PROVE FALSE
    <2>1. Other(d) \in Dir /\ \A e \in Dir : e = d \/ e = Other(d)
        BY DEF Dir, Other
    <2>2. d \in collided /\ Other(d) \in collided
        BY <1>1, <1>2, <2>1, Zenon
    <2>3. collided \subseteq Dir
        BY Zenon DEF Resting, Within
    <2>4. collided = Dir
        BY <2>1, <2>2, <2>3, Zenon
    <2>5. QED BY <2>4, Zenon
<1>3. QED BY <1>2, Zenon

\* With no loop blocked, the end of one side is passed on from the node next to it.
LEMMA RestMeans == Resting => RestsOnlyWhenEnded
<1> SUFFICES ASSUME Resting, App \in fin \/ Target \in fin, collided # Dir PROVE AllEnded
    BY Zenon DEF RestsOnlyWhenEnded
<1>1. PICK d \in Dir : Origin(d) \in fin
    <2>1. Origin("fwd") = App /\ Origin("bwd") = Target /\ "fwd" \in Dir /\ "bwd" \in Dir
        BY DEF Origin, Dir
    <2>2. QED BY <2>1, Zenon
<1> DEFINE S == {n \in Node : pc[n] = "copy"}
<1>2. ASSUME S # {} PROVE FALSE
    <2>1. PICK n \in S : Up(n, d) \notin S
        BY <1>2, FirstAlong, Zenon
    <2>2. n \in Node /\ pc[n] = "copy" /\ ~(Up(n, d) \in Node /\ pc[Up(n, d)] = "copy")
        BY <2>1, Zenon
    <2> HIDE DEF S
    <2>3. Other(d) \in Dir /\ Src(n, Other(d)) = Dst(n, d)
        BY <2>2, Along, Zenon
    <2>4. Peer(Src(n, d)) \in fin
        <3>1. CASE Up(n, d) \notin Node
            BY <1>1, <2>2, <3>1, Along, Zenon
        <3>2. CASE Up(n, d) \in Node
            <4>1. Dst(Up(n, d), d) \in shut
                BY <2>2, <3>2, RestNeighbours, Zenon
            <4>2. Dst(Up(n, d), d) = Peer(Src(n, d))
                BY <2>2, <3>2, Along, Zenon
            <4>3. QED BY <4>1, <4>2, Zenon DEF Resting, Within
        <3>3. QED BY <3>1, <3>2, Zenon
    <2>5. <<n, d>> \in ended
        BY <2>2, <2>4, RestLoops, NoneBlocked, Zenon DEF Waiting
    <2>6. Dst(n, d) \in shut
        BY <2>2, <2>5, Zenon DEF Resting, EndInv, Finished, Shuts
    <2>7. <<n, Other(d)>> \in ended
        BY <2>2, <2>3, <2>6, RestLoops, NoneBlocked, ZenonT(30) DEF Waiting
    <2>8. \A e \in Dir : e = d \/ e = Other(d)
        BY DEF Dir, Other
    <2>9. QED BY <2>2, <2>5, <2>7, <2>8, RestLoops, ZenonT(30)
<1>3. ASSUME NEW n \in Node PROVE pc[n] \in {"none", "done"}
    BY <1>2, RestPlaces, Zenon
<1>4. QED BY <1>3, Zenon DEF AllEnded

\* On a path of any length and whatever its bounds, a path that came to rest after the
\* application or the target ended its direction has no handler left, unless in both
\* directions data met a closed end: the loops of Relay close what wakes the next node.
THEOREM Rest == Spec => []RestsOnlyWhenEnded
<1> DEFINE Inv == PathType /\ PathInv /\ FlowInv /\ Within /\ EndInv
<1>1. Init => Inv
    <2>1. Init => EndInv
        <3> SUFFICES ASSUME Init PROVE EndInv
            OBVIOUS
        <3>1. fin = {} /\ ended = {}
            BY Zenon DEF Init
        <3>2. QED BY <3>1, Zenon DEF EndInv, Finished, Shuts
    <2>2. QED BY <2>1, PathInit, FlowInit, WithinInit, Zenon
<1>2. Inv /\ [Next]_vars => Inv'
    <2> SUFFICES ASSUME Inv, [Next]_vars PROVE Inv'
        OBVIOUS
    <2>1. PathType' /\ PathInv'
        BY PathStep, Zenon
    <2>2. FlowInv' /\ Within'
        BY FlowStep, WithinStep, Zenon
    <2>3. EndInv'
        BY EndStep, Zenon
    <2>4. QED BY <2>1, <2>2, <2>3, Zenon
<1>3. Inv => RestsOnlyWhenEnded
    BY RestMeans, Zenon DEF Resting, RestsOnlyWhenEnded
<1>4. QED BY <1>1, <1>2, <1>3, PTL DEF Spec

=============================================================================
