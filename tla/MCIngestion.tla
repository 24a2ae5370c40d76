---------------------------- MODULE MCIngestion ----------------------------
(***************************************************************************)
(* Small instances of Ingestion for TLC.                                   *)
(***************************************************************************)
EXTENDS Ingestion

CONSTANTS e1, e2, a, b, z, s1, s2, c1

\* A content tells the first instant or the second.
MCOccurred == [c \in Content |-> IF c = b THEN 1 ELSE 0]

\* Of two events of one instant e1 comes first.
MCRank == [e \in Event |-> IF e = e1 THEN 0 ELSE 1]
============================================================================
