---------------------------- MODULE MCProjectStore ----------------------------
(* ProjectStore on small instances: the metadata of a legacy store is the     *)
(* shortest, that of js longer than that of py, and new is the pin of a newer *)
(* release.                                                                   *)
EXTENDS ProjectStore

CONSTANTS py, js, new

MCSize == [pin \in Pins |-> CASE pin = NoPin -> 0 [] pin = py -> 1 [] OTHER -> 2]
=============================================================================
