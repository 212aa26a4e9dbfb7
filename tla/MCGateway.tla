----------------------------- MODULE MCGateway ------------------------------
(* An instance of Gateway for TLC: two clients, a write each.              *)
EXTENDS Gateway

CONSTANTS c1, c2

MCTurn == <<c1, c2>>
=============================================================================
