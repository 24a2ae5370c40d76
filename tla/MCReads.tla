------------------------------- MODULE MCReads -------------------------------
(* A small instance of TableReads for TLC.                                 *)
EXTENDS TableReads, TLC

CONSTANTS e1, e2, x

Symmetric == Permutations(Event)
============================================================================
