----------------------------- MODULE SourcePages -----------------------------
(***************************************************************************)
(* A collection reads one window of the source to its end: the walk over   *)
(* the pages (Client.FetchPages), what is made of a body (countFeatures    *)
(* and Parse), and its events one after the other (Ingester.collect).      *)
(*                                                                         *)
(* The window is that of a source which does not change what it holds      *)
(* while it is read; Ingestion reads one that does.                        *)
(***************************************************************************)
EXTENDS SourceClient, FiniteSetsExt, SequencesExt

CONSTANTS
  Listings,   \* windows the source may hold: sequences of features
  PageSize,   \* features per page that the ingester asks for; 0 leaves it open
  MaxEventsPerRequest

\* What a feature needs: that it can be decoded, the fields parseFeature insists
\* on, and coordinates that are on the globe.
Field == {"shape", "id", "time", "coordinates", "range"}

ASSUME PagesAssumption ==
  /\ Listings \subseteq Seq(SUBSET Field)
  /\ PageSize \in Int
  /\ MaxEventsPerRequest \in Nat \ {0}

VARIABLES
  listing,   \* the features of the window, in the order of the source
  offset,    \* 1-based
  stage,     \* of the collection
  delivered, \* how many features the page had
  events,    \* what is left to be saved of the page, by place in the listing
  stored,    \* what was saved, in order
  rejected   \* how many features were not

pagesVars == <<listing, offset, stage, delivered, events, stored, rejected>>

Stage == {"idle", "fetching", "saving", "complete", "failed"}

PagesTypeOK ==
  /\ listing \in Listings
  /\ offset \in Nat \ {0}
  /\ stage \in Stage
  /\ delivered \in 0..Len(listing)
  /\ events \in Seq(DOMAIN listing)
  /\ stored \in Seq(DOMAIN listing)
  /\ rejected \in 0..Len(listing)

PagesInit ==
  /\ listing \in Listings
  /\ offset = 1
  /\ stage = "idle"
  /\ delivered = 0
  /\ events = <<>> /\ stored = <<>>
  /\ rejected = 0

\* An ingester with no page size, or too large a one, asks for as many as the
\* service allows.
PageLimit ==
  IF PageSize <= 0 \/ PageSize > MaxEventsPerRequest THEN MaxEventsPerRequest ELSE PageSize

\* What the source holds at an offset.
Slice ==
  LET last == Min({Len(listing), offset + PageLimit - 1})
  IN  [i \in 1..(last - offset + 1) |-> offset + i - 1]

\* A source that is asked says "nothing here" only if that is so.
SourceIsTruthful == stage = "fetching" /\ source = "nothing" => Slice = <<>>

\* The features of a body, and of the empty collection that stands for 204.
Features == IF result = "events" THEN Slice ELSE <<>>

\* Fault: what cannot be extracted does not count.
CountExtractable == Len(SelectSeq(Features, LAMBDA k : {"id", "time"} \subseteq listing[k]))

\* countFeatures: features are counted, not looked at.
CountFeatures == Len(Features)

\* parseFeature; ranges are for Save to check.
Extractable(k) == {"shape", "id", "time", "coordinates"} \subseteq listing[k]

\* Parse: the features of a body that can be extracted.
Extracted(features) ==
  LET keep(found, k) == IF Extractable(k) THEN Append(found, k) ELSE found
  IN  FoldLeft(keep, <<>>, features)

\* Parse, on what Fetch may return: neither a body that is no collection, which
\* countFeatures refuses before, nor one without its features.
Readable == result \in {"events", "nothing"}

\* A request of its own for the page at an offset.
Ask ==
  /\ pc' = "start" /\ attempt' = 0
  /\ said' = "lost" /\ result' = "none"
  /\ UNCHANGED cancelled

\* A new collection, with its counts and its offset, finds the source in any state.
BeginWalk ==
  /\ stage' = "fetching"
  /\ offset' = 1
  /\ stored' = <<>> /\ rejected' = 0
  /\ Ask
  /\ source' \in Status \cup {"down"}
  /\ UNCHANGED <<listing, delivered, events>>
  /\ SourceIsTruthful'

\* The answer to a request: a page, or the end of the collection.
TakePage ==
  /\ stage = "fetching" /\ pc = "done"
  /\ IF Readable
     THEN /\ stage' = "saving"
          /\ delivered' = CountFeatures
          /\ events' = Extracted(Features)
          /\ rejected' = rejected + Len(Features) - Len(events')
     ELSE stage' = "failed" /\ UNCHANGED <<delivered, events, rejected>>
  /\ UNCHANGED <<clientVars, listing, offset, stored>>

\* Save: the next event is stored, or rejected for where it says it was.
SaveEvent ==
  /\ stage = "saving" /\ events # <<>>
  /\ IF "range" \in listing[Head(events)]
     THEN stored' = Append(stored, Head(events)) /\ UNCHANGED rejected
     ELSE rejected' = rejected + 1 /\ UNCHANGED stored
  /\ events' = Tail(events)
  /\ UNCHANGED <<clientVars, listing, offset, stage, delivered>>

\* The database refuses, and the rest of the window is not read.
FailToSave ==
  /\ stage = "saving" /\ events # <<>>
  /\ stage' = "failed"
  /\ events' = <<>>
  /\ UNCHANGED <<clientVars, listing, offset, delivered, stored, rejected>>

\* A page that is not full was the last one.
EndPage ==
  /\ stage = "saving" /\ events = <<>>
  /\ IF delivered < PageLimit
     THEN stage' = "complete" /\ UNCHANGED <<clientVars, offset>>
     ELSE /\ stage' = "fetching"
          /\ offset' = offset + PageLimit
          /\ Ask
          /\ UNCHANGED source
  /\ UNCHANGED <<listing, delivered, events, stored, rejected>>

\* The collection is over, and what it had in memory gone.
Forget ==
  /\ Ask
  /\ stage' = "idle"
  /\ offset' = 1 /\ delivered' = 0
  /\ events' = <<>> /\ stored' = <<>> /\ rejected' = 0
  /\ UNCHANGED <<listing, source>>

\* The steps of the collection that do not touch the database.
Walk ==
  \/ stage = "fetching" /\ Fetch /\ UNCHANGED pagesVars
  \/ TakePage
  \/ EndPage

\* The source and the caller.
Surroundings ==
  /\ (stage = "fetching" /\ ChangeSource) \/ Cancel
  /\ UNCHANGED pagesVars
  /\ SourceIsTruthful'

----------------------------------------------------------------------------
(* Properties.                                                             *)

\* An outage never passes for a quiet period: a page, empty or not, is what
\* the source said in its last answer, whatever failed before ("conflating the
\* two is exactly how an outage would get recorded as a quiet period").
QuietIsSaid == result \in {"events", "nothing"} => said = result

\* A collection that ends well has taken every feature of its window once and
\* accounted for it: saved in order, or counted as rejected, whatever could not
\* be extracted, was lost or was asked again ("the run would still report
\* success and complete coverage", FetchPages).
WholeWindow ==
  stage = "complete" =>
    /\ {stored[i] : i \in DOMAIN stored} = {k \in DOMAIN listing : listing[k] = Field}
    /\ \A i, j \in DOMAIN stored : i < j => stored[i] < stored[j]
    /\ Len(stored) + rejected = Len(listing)
============================================================================
