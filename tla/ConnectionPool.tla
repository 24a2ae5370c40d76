--------------------------- MODULE ConnectionPool ---------------------------
(***************************************************************************)
(* The connections of one server (the library pgxpool as internal/db/db.go *)
(* opens it): a user holds one, or waits for one in turn.                  *)
(***************************************************************************)
EXTENDS Integers, FiniteSets, SequencesExt

CONSTANTS
  User,      \* whoever may hold a connection
  PoolSize   \* pool_max_conns of the connection string

ASSUME PoolAssumption == PoolSize \in Nat \ {0}

VARIABLES
  holders,  \* who holds a connection
  queue     \* who waits for one, in order

poolVars == <<holders, queue>>

Waiting == {queue[k] : k \in DOMAIN queue}

PoolTypeOK ==
  /\ holders \subseteq User /\ Cardinality(holders) <= PoolSize
  /\ queue \in Seq(User) /\ Len(queue) = Cardinality(Waiting)
  /\ holders \cap Waiting = {}

PoolInit == holders = {} /\ queue = <<>>

Acquire(u) ==
  /\ u \notin holders \cup Waiting
  /\ queue' = Append(queue, u)
  /\ UNCHANGED holders

\* The first in the queue is served as soon as a connection is free.
Grant ==
  /\ queue # <<>> /\ Cardinality(holders) < PoolSize
  /\ holders' = holders \cup {Head(queue)}
  /\ queue' = Tail(queue)

GiveBack(u) ==
  /\ u \in holders
  /\ holders' = holders \ {u}
  /\ UNCHANGED queue

\* A caller whose context is done stops waiting.
StopWaiting(u) ==
  /\ \E k \in DOMAIN queue : queue[k] = u /\ queue' = RemoveAt(queue, k)
  /\ UNCHANGED holders
============================================================================
