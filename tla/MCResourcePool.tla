--------------------------- MODULE MCResourcePool ---------------------------
(* Four callers, a class with one slot and a class with two: the lists of  *)
(* waiters are contended, full and handed off.                             *)
EXTENDS ResourcePoolClients, TLC

CONSTANTS c1, c2, c3, c4, browser, terminal

MCCallers == {c1, c2, c3, c4}
MCClasses == {browser, terminal}
MCCapacity == browser :> 1 @@ terminal :> 2
=============================================================================
