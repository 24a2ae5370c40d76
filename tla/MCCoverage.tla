----------------------------- MODULE MCCoverage -----------------------------
(***************************************************************************)
(* Small instances of CoverageReads for TLC.                               *)
(***************************************************************************)
EXTENDS CoverageReads

CONSTANTS w1, w2

\* One event at the first instant, which windows may begin at, and one at the
\* next.
MCOccurred == [e \in Event |-> IF e = w1 THEN 0 ELSE 1]
============================================================================
