--------------------------- MODULE CataloguePages ---------------------------
(***************************************************************************)
(* The browser loads the whole catalogue, page by page, while an import    *)
(* may be rewriting it (frontend/src/api/client.ts, handleListVolcanoes,   *)
(* internal/volcano/list.go).                                              *)
(***************************************************************************)
EXTENDS CatalogueImport, Bitemporal

CONSTANTS
  Limit,     \* items per page
  MaxPages   \* pages the browser asks for before it gives up

ASSUME PagesAssumption == Limit \in Nat \ {0} /\ MaxPages \in Nat \ {0}

VARIABLE walk  \* the load: what it has shown, and what never went away meanwhile

allVars == <<vars, walk>>

NoWalk == [stage |-> "idle", cursor |-> 0, pages |-> 0, shown |-> <<>>, kept |-> {}]

TypeOK ==
  /\ ImportTypeOK
  /\ walk.stage \in {"idle", "loading", "loaded", "failed"}
  /\ walk.cursor \in 0..Len(catalogue)
  /\ walk.pages \in 0..MaxPages
  /\ walk.shown \in Seq(DOMAIN catalogue)
  /\ walk.kept \subseteq DOMAIN catalogue

Init == ImportInit /\ walk = NoWalk

PresentIds == {i \in DOMAIN catalogue : ~catalogue[i].absent}

StartWalk ==
  /\ walk.stage # "loading"
  /\ walk' = [NoWalk EXCEPT !.stage = "loading", !.kept = PresentIds]
  /\ UNCHANGED vars

\* volcano.List: id > cursor, absent_from_source_at IS NULL, ORDER BY id LIMIT.
List ==
  FirstBy({i \in PresentIds : i > walk.cursor}, [i \in DOMAIN catalogue |-> 0], Limit)

\* Fault: only a page that is over the limit has a next one.
HasNextBeyond(page) == Len(page) > Limit

\* A full page means there may be more.
HasNext(page) == Len(page) = Limit

\* One page is loaded; without a cursor for the next the load is over, and one
\* page too many is an error.
FetchPage ==
  /\ walk.stage = "loading"
  /\ walk' = [walk EXCEPT
                !.shown = @ \o List,
                !.pages = @ + 1,
                !.cursor = IF HasNext(List) THEN List[Limit] ELSE @,
                !.stage = CASE ~HasNext(List)              -> "loaded"
                            [] walk.pages + 1 = MaxPages   -> "failed"
                            [] OTHER                       -> "loading"]
  /\ UNCHANGED vars

\* A request fails: the load is reported as failed, with nothing shown.
FailWalk ==
  /\ walk.stage = "loading"
  /\ walk' = [walk EXCEPT !.stage = "failed"]
  /\ UNCHANGED vars

\* The imports go on meanwhile.
ImportStep ==
  /\ ImportNext
  /\ walk' = [walk EXCEPT !.kept = {i \in @ : ~catalogue'[i].absent}]

Next ==
  \/ ImportStep
  \/ StartWalk
  \/ FetchPage
  \/ FailWalk

Spec == Init /\ [][Next]_allVars

----------------------------------------------------------------------------
(* Properties.                                                             *)

\* A load that succeeds shows every volcano that was in the catalogue all the
\* while, and none twice, whatever an import marks, restores or adds between its
\* pages ("a paginacao nao repita nem omita itens", api-publica spec).
LoadedComplete ==
  walk.stage = "loaded" => walk.kept \subseteq Range(walk.shown) /\ IsInjective(walk.shown)
============================================================================
