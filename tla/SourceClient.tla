---------------------------- MODULE SourceClient ----------------------------
(***************************************************************************)
(* One request to the source, with its retries (Client.Fetch and           *)
(* Client.attempt, internal/usgs/client.go), as FetchPages uses it for one *)
(* page.                                                                   *)
(*                                                                         *)
(* The caller's context may be cancelled at any point.  It is looked at    *)
(* before a retry and by every request, but not while waiting between two  *)
(* attempts.                                                               *)
(***************************************************************************)
EXTENDS Naturals

CONSTANT MaxAttempts

ASSUME ClientAssumption == MaxAttempts \in Nat \ {0}

VARIABLES
  pc,
  attempt,   \* how many attempts have begun
  cancelled, \* whether the context is done
  source,    \* what the source is doing
  said,      \* what the source said last, if the answer came through
  result     \* what Fetch returns, or "none" yet

clientVars == <<pc, attempt, cancelled, source, said, result>>

PC == {"start", "request", "answered", "retry", "sleep", "done"}

\* A body of 200 is not looked at here: events, not a collection at all
\* ("garbled"), a collection without its features ("hollow").
Body == {"events", "garbled", "hollow"}

\* What the source may answer: a body, "nothing here" (HTTP 204), an error of
\* its own (5xx), too many events or another complaint about the query (4xx).
Status == Body \cup {"nothing", "failing", "too_many", "refused"}

Outcome == Body \cup {"nothing", "too_many", "refused", "unavailable"}

ClientTypeOK ==
  /\ pc \in PC
  /\ attempt \in 0..MaxAttempts
  /\ cancelled \in BOOLEAN
  /\ source \in Status \cup {"down"}
  /\ said \in Status \cup {"lost"}
  /\ result \in Outcome \cup {"none"}
  /\ pc = "done" <=> result # "none"

ClientInit ==
  /\ pc = "start"
  /\ attempt = 0
  /\ cancelled = FALSE
  /\ source \in Status \cup {"down"}
  /\ said = "lost"
  /\ result = "none"

----------------------------------------------------------------------------
(* The surroundings.                                                       *)

\* The source recovers, breaks down or changes its mind.
ChangeSource ==
  /\ pc # "done"
  /\ source' \in Status \cup {"down"}
  /\ UNCHANGED <<pc, attempt, cancelled, said, result>>

Cancel ==
  /\ ~cancelled
  /\ cancelled' = TRUE
  /\ UNCHANGED <<pc, attempt, source, said, result>>

----------------------------------------------------------------------------
(* Fetch.                                                                  *)

Return(outcome) == pc' = "done" /\ result' = outcome

BeginAttempt ==
  /\ pc = "start"
  /\ attempt' = attempt + 1
  /\ pc' = "request"
  /\ UNCHANGED <<cancelled, source, said, result>>

\* Fault: no time limit on a request to a source that does not answer.
RequestUntimed ==
  /\ pc = "request" /\ source # "down"
  /\ said' \in IF cancelled THEN {"lost"} ELSE {source, "lost"}
  /\ pc' = "answered"
  /\ UNCHANGED <<attempt, cancelled, source, result>>

\* The request goes out, and its answer comes back or is lost: no connection,
\* the time limit of the client, a body that breaks off, a context that is
\* done meanwhile.  No request goes out under a context that is done already.
Request ==
  /\ pc = "request"
  /\ said' \in IF cancelled \/ source = "down" THEN {"lost"} ELSE {source, "lost"}
  /\ pc' = "answered"
  /\ UNCHANGED <<attempt, cancelled, source, result>>

\* Transport errors and 5xx are; 4xx is not.
Retryable(answer) == answer \in {"lost", "failing"}

\* Fault: an answer that did not come through counts as an empty one.
AcceptLost ==
  /\ pc = "answered"
  /\ Return(CASE said = "lost"    -> "nothing"
              [] said = "failing" -> "unavailable"
              [] OTHER            -> said)
  /\ UNCHANGED <<attempt, cancelled, source, said>>

\* The answer is final: a body, the empty page for 204, or an error that asking
\* again would not mend.
Accept ==
  /\ pc = "answered"
  /\ ~Retryable(said)
  /\ Return(said)
  /\ UNCHANGED <<attempt, cancelled, source, said>>

FailAttempt ==
  /\ pc = "answered"
  /\ Retryable(said)
  /\ IF attempt < MaxAttempts
     THEN pc' = "retry" /\ UNCHANGED result
     ELSE Return("unavailable")
  /\ UNCHANGED <<attempt, cancelled, source, said>>

\* The context is looked at between two attempts ...
CheckContext ==
  /\ pc = "retry"
  /\ IF cancelled
     THEN Return("unavailable")
     ELSE pc' = "sleep" /\ UNCHANGED result
  /\ UNCHANGED <<attempt, cancelled, source, said>>

\* ... and the wait, twice as long each time, is slept through to its end.
Sleep ==
  /\ pc = "sleep"
  /\ attempt' = attempt + 1
  /\ pc' = "request"
  /\ UNCHANGED <<cancelled, source, said, result>>

Fetch ==
  \/ BeginAttempt
  \/ Request
  \/ Accept
  \/ FailAttempt
  \/ CheckContext
  \/ Sleep
============================================================================
