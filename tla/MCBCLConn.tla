---------------------------- MODULE MCBCLConn ----------------------------
(* Instances of BCLConn for TLC.                                           *)
EXTENDS BCLConn

(* Bytes and PINGs per end: the client sends data.  A PING of the client    *)
(* competes with its own data, one of the server asks the client for a PONG. *)
ClientBytes2 == [e \in Ends |-> IF e = "client" THEN 2 ELSE 0]
ClientBytes3 == [e \in Ends |-> IF e = "client" THEN 3 ELSE 0]
ClientPing   == [e \in Ends |-> IF e = "client" THEN 1 ELSE 0]
ServerPing   == [e \in Ends |-> IF e = "server" THEN 1 ELSE 0]
==========================================================================
