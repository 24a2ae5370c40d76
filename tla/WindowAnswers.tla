---------------------------- MODULE WindowAnswers ----------------------------
(***************************************************************************)
(* GET /api/v1/earthquakes over a window, while the window is collected    *)
(* (internal/httpapi/earthquakes.go): the handler lists the events, then   *)
(* looks the source up, then asks the ledger how much of the window was    *)
(* collected.  These are three statements on no common snapshot, and the   *)
(* answer claims that what is not listed did not happen.  What it lists is *)
(* one page, after the cursor of the request, of what was known at as_of.  *)
(*                                                                         *)
(* Collections are by explicit window and one at a time (SerialRuns of     *)
(* Ingestion); the source serves an event from the instant it happens,     *)
(* once: revisions are left to EarthquakePages, events that the source     *)
(* moves in time to Ingestion.  Pages are by id, those around a point are  *)
(* with EarthquakePages.                                                   *)
(***************************************************************************)
EXTENDS Coverage

CONSTANTS
  Event,         \* external ids
  Occurred,      \* when each event happens
  Limit,         \* items per page
  Disabling,     \* whether an operator disables the source
  MaxClock, MaxRuns   \* bounds of the model

VARIABLES
  clock,
  runs,      \* ingestion_runs
  store,     \* earthquakes: the rows, by id
  enabled,   \* data_sources.enabled
  wanted,    \* the events the collection in progress has yet to save
  request    \* one request and what its answer holds so far; `known` is how
             \* many rows there were when the events were listed

vars == <<clock, runs, store, enabled, wanted, request>>

Row == [event : Event, stamp : Nat]

Stored(e) == \E i \in DOMAIN store : store[i].event = e

InProgress == runs # <<>> /\ runs[Len(runs)].result = "running"

Stage == {"idle", "listed", "found", "answered"}

TypeOK ==
  /\ clock \in 0..MaxClock
  /\ runs \in Seq(Run)
  /\ store \in Seq(Row)
  /\ enabled \in BOOLEAN
  /\ wanted \subseteq Event
  /\ wanted # {} => InProgress
  /\ request \in [stage : Stage, from : Nat, to : Nat, asOf : Nat, after : Nat,
                  rows : Seq(DOMAIN store), known : 0..Len(store),
                  kind : CoverageKind \cup {"unknown"}]

NoRequest == [stage |-> "idle", from |-> 0, to |-> 0, asOf |-> 0, after |-> 0,
              rows |-> <<>>, known |-> 0, kind |-> "unknown"]

Init ==
  /\ clock = 0
  /\ runs = <<>>
  /\ store = <<>>
  /\ enabled = TRUE
  /\ wanted = {}
  /\ request = NoRequest

Tick ==
  /\ clock < MaxClock
  /\ clock' = clock + 1
  /\ UNCHANGED <<runs, store, enabled, wanted, request>>

----------------------------------------------------------------------------
(* The collection.                                                         *)

\* `server ingest -start -end`: the source must be enabled now.
BeginRun(start, end) ==
  /\ enabled
  /\ ~InProgress
  /\ Len(runs) < MaxRuns
  /\ WindowOrdered(start, end) /\ end <= clock
  /\ runs' = Begin(runs, "manual", start, end, clock)
  /\ wanted' = {e \in Event : start <= Occurred[e] /\ Occurred[e] <= end}
  /\ UNCHANGED <<clock, store, enabled, request>>

\* An event already stored is left as it is; a new one is inserted.
SaveEvent(e) ==
  /\ e \in wanted
  /\ wanted' = wanted \ {e}
  /\ store' = IF Stored(e) THEN store ELSE Append(store, [event |-> e, stamp |-> clock])
  /\ UNCHANGED <<clock, runs, enabled, request>>

FinishRun ==
  /\ InProgress
  /\ wanted = {}
  /\ runs' = Finish(runs, Len(runs))
  /\ UNCHANGED <<clock, store, enabled, wanted, request>>

FailRun ==
  /\ InProgress
  /\ runs' = Fail(runs, Len(runs))
  /\ wanted' = {}
  /\ UNCHANGED <<clock, store, enabled, request>>

\* An UPDATE of data_sources by an operator or a migration.
SwitchSource ==
  /\ Disabling
  /\ enabled' = ~enabled
  /\ UNCHANGED <<clock, runs, store, wanted, request>>

----------------------------------------------------------------------------
(* The request.                                                            *)

\* What coverageFor asks the ledger: the window up to now.
CoverageUpTo(from, to) == CoverageFor(runs, from, IF to > clock THEN clock ELSE to)

\* earthquake.List: the page after the cursor of what was known at asOf of the
\* events of the window.
Page(from, to, asOf, after) ==
  LET rest == {i \in KnownAt(store, asOf) : /\ from <= Occurred[store[i].event]
                                           /\ Occurred[store[i].event] <= to
                                           /\ i > after}
  IN  FirstBy(rest, [i \in DOMAIN store |-> 0], Limit)

\* The parameters are accepted, a cursor handed out before among them, and the
\* events listed.
ListEvents(from, to, asOf, after) ==
  /\ request.stage \notin {"listed", "found"}
  /\ from <= to
  /\ asOf <= clock
  /\ request' = [NoRequest EXCEPT
                   !.stage = "listed", !.from = from, !.to = to, !.asOf = asOf,
                   !.after = after, !.rows = Page(from, to, asOf, after), !.known = Len(store)]
  /\ UNCHANGED <<clock, runs, store, enabled, wanted>>

\* The answer is sent, and nothing is kept of the request.
Answer(kind) == request' = [NoRequest EXCEPT !.stage = "answered", !.kind = kind]

\* A window that begins in the future gets no word on its coverage.
AnswerPlain ==
  /\ request.stage = "listed"
  /\ request.from > clock
  /\ Answer("unknown")
  /\ UNCHANGED <<clock, runs, store, enabled, wanted>>

\* Fault: whatever goes wrong with the lookup, the window passes for uncollected.
LookUpOrNone ==
  /\ request.stage = "listed"
  /\ request.from <= clock
  /\ \/ Answer("none")
     \/ request' = [request EXCEPT !.stage = "found"]
  /\ UNCHANGED <<clock, runs, store, enabled, wanted>>

\* GetEnabledByName: a source that is not enabled has collected nothing.
LookUpSource ==
  /\ request.stage = "listed"
  /\ request.from <= clock
  /\ IF enabled THEN request' = [request EXCEPT !.stage = "found"] ELSE Answer("none")
  /\ UNCHANGED <<clock, runs, store, enabled, wanted>>

Cover ==
  /\ request.stage = "found"
  /\ Answer(CoverageUpTo(request.from, request.to).kind)
  /\ UNCHANGED <<clock, runs, store, enabled, wanted>>

\* A statement fails or the deadline of the request passes: 500, no claim.
InternalError ==
  /\ request.stage \in {"listed", "found"}
  /\ request' = NoRequest
  /\ UNCHANGED <<clock, runs, store, enabled, wanted>>

Next ==
  \/ Tick
  \/ \E start, end \in 0..clock : BeginRun(start, end)
  \/ \E e \in Event : SaveEvent(e)
  \/ FinishRun
  \/ FailRun
  \/ SwitchSource
  \/ \E from, to \in 0..MaxClock, asOf \in 0..clock, after \in {0} \cup DOMAIN store :
        ListEvents(from, to, asOf, after)
  \/ AnswerPlain
  \/ LookUpSource
  \/ Cover
  \/ InternalError

Spec == Init /\ [][Next]_vars

----------------------------------------------------------------------------
(* Properties.                                                             *)

Answered(kind) ==
  request.stage # "answered" /\ request'.stage = "answered" /\ request'.kind = kind

\* The events of the window asked about, up to now.
Happened ==
  {e \in Event : request.from <= Occurred[e] /\ Occurred[e] <= request.to /\ Occurred[e] <= clock}

\* Why the page of the request may be without row i: it is on another page, of
\* which the cursor asked for and the one given speak, or the request does not
\* see it: it was stored after the listing, or after the instant asked about.
Elsewhere(i) ==
  \/ i <= request.after
  \/ Len(request.rows) = Limit /\ \A k \in DOMAIN request.rows : request.rows[k] < i
  \/ i > request.known
  \/ store[i].stamp > request.asOf

\* "complete" is said of a window only when every event that happened in it is
\* stored, whatever runs failed, broke off or are under way: what the page does
\* not show is on another page or outside the view asked for, and none of it is
\* lost to the collection ("A janela inteira foi coletada", coverageNote).
CompleteAccountsForAll ==
  [][Answered("complete") =>
       \A e \in Happened : \E i \in DOMAIN store :
          store[i].event = e /\ (Elsewhere(i) \/ \E k \in DOMAIN request.rows : request.rows[k] = i)
    ]_vars

\* "complete" beside an empty list means that nothing happened, as the same note
\* goes on ("Uma colecao vazia aqui significa que nada ocorreu").
EmptyMeansQuiet == [][Answered("complete") /\ request.rows = <<>> => Happened = {}]_vars

\* "none", of a source that is enabled, means that the window was not collected
\* ("no collection exists for this window", coverageFor): no successful run,
\* unless its own window is a single instant, reaches inside it.  The windows of
\* a source that is disabled pass for uncollected.
NoneMeansUncollected ==
  [][Answered("none") /\ enabled
     => ~\E i \in Successes(runs) :
           /\ runs[i].start < runs[i].end
           /\ runs[i].start < request.to /\ runs[i].end > request.from]_vars
============================================================================
