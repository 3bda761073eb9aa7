--------------------------- MODULE MCSynchronizers ---------------------------
(* Synchronizers with three threads. *)
EXTENDS Synchronizers

CONSTANTS t1, t2, t3

MCThreads == {t1, t2, t3}
=============================================================================
