-------------------------- MODULE HistoryContract --------------------------
(***************************************************************************)
(* What the table earthquakes promises its readers: the history of an      *)
(* event only grows, by one version at a time, and every version says      *)
(* something its predecessor did not ("Deduplication is by comparison of   *)
(* the normalized CONTENT", internal/earthquake/store.go).  A version that *)
(* repeats its predecessor is a revision nobody made.                      *)
(***************************************************************************)
EXTENDS Naturals, Sequences

CONSTANTS Event, Content

VARIABLE versions

CInit == versions = [e \in Event |-> <<>>]

\* A genuine revision of event e, or its first version.
Record(e, c) ==
  /\ versions[e] # <<>> => versions[e][Len(versions[e])] # c
  /\ versions' = [versions EXCEPT ![e] = Append(@, c)]

CNext == \E e \in Event, c \in Content : Record(e, c)

CSpec == CInit /\ [][CNext]_versions
============================================================================
