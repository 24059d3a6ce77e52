------------------------------ MODULE MCSocket ------------------------------
(* A server that receives on one connection, of higher priority, and a     *)
(* client that sends.                                                      *)
EXTENDS Socket, TLC

CONSTANTS t1, t2, srv, c1, c2, f1, f2, f3

Priorities == (t1 :> 1) @@ (t2 :> 2)

Owners == (srv :> t1) @@ (c1 :> t1) @@ (c2 :> t2)

UsualFds == srv :> f1 @@ c1 :> f2 @@ c2 :> f3

(* The server's connection receives, the client's sends; both may break.   *)
Uses == c1 :> {"receive_all"} @@ c2 :> {"connect", "send"}
PeersDo ==
  c1 :> {"sends", "closes", "breaks"} @@ c2 :> {"takes", "breaks"}

=============================================================================
