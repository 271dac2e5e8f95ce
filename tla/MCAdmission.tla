---------------------------- MODULE MCAdmission ----------------------------
(* Values for the constants of Admission.                                  *)
EXTENDS Admission, TLC

CONSTANTS c1, c2

Who(k, g, s) == [kind |-> k, good |-> g, skew |-> s]
Pair(a, b) == (c1 :> a) @@ (c2 :> b)

\* One client of every kind, with clocks on both sides of each limit ...
Alone ==
    {Who(k, TRUE, s) : k \in {"hmac", "device"}, s \in {-60, -30, 0, 1, 30, 60}}
    \cup {Who(k, FALSE, 0) : k \in {"hmac", "device", "bootstrap", "other"}}
    \cup {Who("bootstrap", TRUE, 0)}

\* ... and clients that meet.
MCScenes ==
    {Pair(a, Who("nobody", FALSE, 0)) : a \in Alone}
    \cup {Pair(Who("hmac", FALSE, 0), Who("other", FALSE, 0)),
          Pair(Who("device", TRUE, 0), Who("other", FALSE, 0)),
          Pair(Who("hmac", TRUE, 0), Who("device", TRUE, 0))}

MCTimes == {329, 359}
=============================================================================
