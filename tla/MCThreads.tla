------------------------------ MODULE MCThreads ------------------------------
(* Lifetimes with two clients of a Thread and three holders of handles. *)
EXTENDS Lifetimes

CONSTANTS c1, c2, c3

MCClients == {c1, c2}
MCHolders == {c1, c2, c3}
=============================================================================
