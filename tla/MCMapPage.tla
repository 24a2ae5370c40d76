----------------------------- MODULE MCMapPage ------------------------------
(***************************************************************************)
(* Small instances of MapPage for TLC.                                     *)
(***************************************************************************)
EXTENDS MapPage

CONSTANTS fuji, etna, empty, v1, v2

\* One term finds one volcano, the other none.
MCFound == [t \in Term |-> IF t = fuji THEN {v1} ELSE {}]
============================================================================
