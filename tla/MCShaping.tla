----------------------------- MODULE MCShaping -----------------------------
(* Values for the constants of Shaping.                                    *)
EXTENDS Shaping

\* Flushes around the room of the smallest frame and of several frames.
SizesFor(n) ==
    LET small == ParsePersonality(n).size[1] - Header
    IN  {1, small, small + 1, 5 * small}

\* Every personality on a fast path, and one whose path is slow at times.
MCLoads ==
    {[name |-> n, sizes |-> SizesFor(n), waits |-> {0}] : n \in Names}
    \cup {[name |-> "grpc", sizes |-> {40, 100}, waits |-> {0, 4, 40}]}
=============================================================================
