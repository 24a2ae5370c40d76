--------------------------- MODULE CollectionCycle ---------------------------
(***************************************************************************)
(* The cycles of one server's scheduler from the timer to the release of   *)
(* the lock (internal/ingestion/scheduler.go, cmd/server/scheduler.go,     *)
(* Ingester.ingest), beside the requests the same server answers.          *)
(*                                                                         *)
(* A cycle holds one connection for its lock all along, and takes another  *)
(* for each statement.  What its statements do to the ledger is told in    *)
(* Ingestion; here they take their connection and their turn.              *)
(***************************************************************************)
EXTENDS SourcePages, ConnectionPool

CONSTANT Handler   \* requests that are being answered

ASSUME CycleAssumption ==
  \* The lock and a statement: a pool of one would wait for itself.
  /\ PoolSize >= 2
  /\ User = Handler \cup {"lock", "statement"}
  /\ Handler \cap {"lock", "statement"} = {}

VARIABLES
  phase,  \* where the cycle is
  lock    \* the advisory lock: "free", "ours" or "elsewhere"

vars == <<clientVars, pagesVars, poolVars, phase, lock>>

Phase == {"idle", "lock", "skip", "begin", "collect", "end", "release"}

TypeOK ==
  /\ ClientTypeOK /\ PagesTypeOK /\ PoolTypeOK
  /\ phase \in Phase
  /\ lock \in {"free", "ours", "elsewhere"}

Init ==
  /\ ClientInit /\ PagesInit /\ PoolInit
  /\ SourceIsTruthful
  /\ phase = "idle"
  /\ lock = "free"

----------------------------------------------------------------------------
(* Requests.                                                               *)

Arrive(r) ==
  /\ Acquire(r)
  /\ UNCHANGED <<clientVars, pagesVars, phase, lock>>

\* The statement of a request is through, or its deadline passes.
EndRequest(r) ==
  /\ GiveBack(r) \/ StopWaiting(r)
  /\ UNCHANGED <<clientVars, pagesVars, phase, lock>>

Granted ==
  /\ Grant
  /\ UNCHANGED <<clientVars, pagesVars, phase, lock>>

\* Another server or command takes the lock, or frees it.
LockElsewhere ==
  /\ \/ lock = "free" /\ lock' = "elsewhere"
     \/ lock = "elsewhere" /\ lock' = "free"
  /\ UNCHANGED <<clientVars, pagesVars, poolVars, phase>>

----------------------------------------------------------------------------
(* A cycle.                                                                *)

\* A tick may still win against the end of the context.
TimerFires ==
  /\ phase = "idle"
  /\ phase' = "lock"
  /\ Acquire("lock")
  /\ UNCHANGED <<clientVars, pagesVars, lock>>

\* Fault: a server that does not get the lock keeps the connection.
TryLockKeeping ==
  /\ phase = "lock" /\ "lock" \in holders /\ ~cancelled
  /\ IF lock = "free"
     THEN lock' = "ours" /\ phase' = "begin"
     ELSE phase' = "skip" /\ UNCHANGED lock
  /\ UNCHANGED <<clientVars, pagesVars, poolVars>>

\* pg_try_advisory_lock.
TryLock ==
  /\ phase = "lock" /\ "lock" \in holders /\ ~cancelled
  /\ IF lock = "free"
     THEN lock' = "ours" /\ phase' = "begin" /\ UNCHANGED poolVars
     ELSE phase' = "skip" /\ GiveBack("lock") /\ UNCHANGED lock
  /\ UNCHANGED <<clientVars, pagesVars>>

\* The lock could not be asked for.
FailToAsk ==
  /\ phase = "lock"
  /\ phase' = "idle"
  /\ \/ "lock" \in holders /\ GiveBack("lock")
     \/ cancelled /\ StopWaiting("lock")
  /\ UNCHANGED <<clientVars, pagesVars, lock>>

\* The next thing the cycle does is a statement.
AtStatement ==
  \/ phase \in {"skip", "begin", "end"}
  \/ phase = "collect" /\ stage = "saving" /\ events # <<>>

AcquireForStatement ==
  /\ AtStatement
  /\ Acquire("statement")
  /\ UNCHANGED <<clientVars, pagesVars, phase, lock>>

\* The statement is over; a caller who has gone meanwhile, or who goes while the
\* cycle waits for the connection, fails it.
EndStatement ==
  \/ GiveBack("statement")
  \/ cancelled /\ StopWaiting("statement")

\* OnSkip: the skip is recorded, or not.
RecordSkip ==
  /\ phase = "skip" /\ EndStatement
  /\ phase' = "idle"
  /\ UNCHANGED <<clientVars, pagesVars, lock>>

BeginRun ==
  /\ phase = "begin" /\ ~cancelled
  /\ GiveBack("statement")
  /\ phase' = "collect"
  /\ BeginWalk
  /\ UNCHANGED lock

\* No window could be chosen, or no run opened.
FailToBegin ==
  /\ phase = "begin" /\ EndStatement
  /\ phase' = "release"
  /\ UNCHANGED <<clientVars, pagesVars, lock>>

Save ==
  /\ phase = "collect" /\ EndStatement
  /\ FailToSave \/ (~cancelled /\ SaveEvent)
  /\ UNCHANGED <<phase, lock>>

\* Finish or Fail, through or not.
CloseRun ==
  /\ phase = "end" /\ EndStatement
  /\ phase' = "release"
  /\ UNCHANGED <<clientVars, pagesVars, lock>>

WalkOn ==
  /\ phase = "collect"
  /\ Walk
  /\ UNCHANGED <<poolVars, phase, lock>>

\* The walk has ended, one way or the other.
EndWalk ==
  /\ phase = "collect" /\ stage \in {"complete", "failed"}
  /\ phase' = "end"
  /\ UNCHANGED <<clientVars, pagesVars, poolVars, lock>>

\* Fault: the lock is given back under the caller's own context.
ReleaseUnderCaller ==
  /\ phase = "release"
  /\ phase' = "idle"
  /\ lock' = IF cancelled THEN lock ELSE "free"
  /\ GiveBack("lock")
  /\ Forget

\* The release of TryLock, whatever became of the caller; the cycle is over.  An
\* unlock that gets no answer within its time ends the session, and the lock with
\* it; one that is answered with an error is told in Ingestion (FailUnlock).
Release ==
  /\ phase = "release"
  /\ phase' = "idle"
  /\ lock' = "free"
  /\ GiveBack("lock")
  /\ Forget

Cycle ==
  \/ TryLock
  \/ FailToAsk
  \/ AcquireForStatement
  \/ RecordSkip
  \/ BeginRun
  \/ FailToBegin
  \/ Save
  \/ CloseRun
  \/ WalkOn
  \/ EndWalk
  \/ Release

Next ==
  \/ TimerFires
  \/ Cycle
  \/ Granted
  \/ \E r \in Handler : Arrive(r) \/ EndRequest(r)
  \/ LockElsewhere
  \/ Surroundings /\ UNCHANGED <<poolVars, phase, lock>>

\* The goroutine runs, requests to the source have a time limit and waits end;
\* the pool serves its queue; a handler's statements have a deadline.  Those of
\* the cycle have none: here they are answered or fail (Ingestion tells of those
\* that are not).
Fairness ==
  /\ WF_vars(Cycle) /\ WF_vars(Granted)
  /\ \A r \in Handler : WF_vars(EndRequest(r))

Spec == Init /\ [][Next]_vars /\ Fairness

----------------------------------------------------------------------------
(* Properties.                                                             *)

\* Every cycle whose statements are answered ends, however long the outage,
\* whatever becomes of its caller and however busy the pool is: a collection
\* cannot hang on its source, nor on its own connections.
CycleEnds == phase # "idle" ~> phase = "idle"

\* A cycle that is over has left nothing taken: neither the lock nor a
\* connection ("failing to unlock would strand the lock until the connection
\* closed", TryLock).
NothingLeftTaken ==
  phase = "idle" => lock # "ours" /\ {"lock", "statement"} \cap (holders \cup Waiting) = {}
============================================================================
