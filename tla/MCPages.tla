------------------------------ MODULE MCPages -------------------------------
(***************************************************************************)
(* Small instances of CataloguePages for TLC.                              *)
(***************************************************************************)
EXTENDS CataloguePages, TLC

CONSTANTS p1, p2

At(index, text) == [index |-> index, text |-> text]

Cells(texts) == [k \in DOMAIN texts |-> At(0, texts[k])]

Banner == Cells(<<"Volcanoes of the World", "5.4.0">>)

Titles == Cells(Header)

\* An edition; the next one with a volcano changed, its elevation left out and a
\* column skipped, and the other one gone; one whose rows for r1 have no name, no
\* number for a latitude, no place on the globe, and an elevation for r2 that is
\* no number; one with such a coordinate; and a file with a column renamed.
Editions ==
  << <<Banner, Titles, Cells(<<"r1", "a", "10", "20", "10">>), Cells(<<"r2", "a", "20", "10">>)>>,
     <<Banner, Titles, <<At(0, "r1"), At(0, "a"), At(4, "10"), At(3, "20")>> >>,
     <<Banner, Titles, <<At(0, "r1"), At(3, "10"), At(0, "20")>>, Cells(<<"r1", "b", "north", "10">>),
       Cells(<<"r1", "b", "200", "10">>), Cells(<<"r2", "b", "20", "10", "NaN">>)>>,
     <<Banner, Titles, Cells(<<"r2", "b", "10", "NaN">>)>>,
     <<Banner, Cells(<<"number", "title", "latitude", "longitude", "elevation">>)>> >>

Symmetric == Permutations(Importer)
============================================================================
