----------------------------- MODULE ByteStream -----------------------------
(***************************************************************************)
(* What a BCL connection promises its users, without frames, bursts, queues *)
(* and goroutines, and a proxied connection without nodes, links and copy   *)
(* loops: independent byte streams, one from each end, that hand over the   *)
(* bytes they accepted, in order, until they end or are spoiled.  A byte is *)
(* its position in the stream.                                             *)
(***************************************************************************)
EXTENDS Naturals, Sequences

CONSTANT Streams

VARIABLES
  accepted,   \* how many bytes have been accepted
  delivered,  \* the bytes that have been read
  ended,      \* there is nothing more to read
  spoiled     \* the implementation has broken its promise of order

streamVars == <<accepted, delivered, ended, spoiled>>

Init ==
  /\ accepted = [s \in Streams |-> 0]
  /\ delivered = [s \in Streams |-> <<>>]
  /\ ended = [s \in Streams |-> FALSE]
  /\ spoiled = [s \in Streams |-> FALSE]

Accept(s) ==
  /\ accepted'[s] > accepted[s]
  /\ accepted' = [accepted EXCEPT ![s] = accepted'[s]]
  /\ UNCHANGED <<delivered, ended, spoiled>>

(* The next bytes; of a spoiled stream, any bytes.  They may be the last.    *)
Deliver(s) ==
  LET old == delivered[s]
      new == delivered'[s] IN
  /\ ~ended[s]
  /\ Len(new) > Len(old)
  /\ \A i \in 1..Len(old) : new[i] = old[i]
  /\ ~spoiled[s] => Len(new) <= accepted[s] /\ \A i \in 1..Len(new) : new[i] = i
  /\ delivered' = [delivered EXCEPT ![s] = new]
  /\ ended' \in {ended, [ended EXCEPT ![s] = TRUE]}
  /\ UNCHANGED <<accepted, spoiled>>

End(s) ==
  /\ ~ended[s]
  /\ ended' = [ended EXCEPT ![s] = TRUE]
  /\ UNCHANGED <<accepted, delivered, spoiled>>

Spoil(s) ==
  /\ ~spoiled[s]
  /\ spoiled' = [spoiled EXCEPT ![s] = TRUE]
  /\ UNCHANGED <<accepted, delivered, ended>>

Next == \E s \in Streams : Accept(s) \/ Deliver(s) \/ End(s) \/ Spoil(s)

Spec == Init /\ [][Next]_streamVars
=============================================================================
