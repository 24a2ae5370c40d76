----------------------------- MODULE VolcanoSheet -----------------------------
(***************************************************************************)
(* What the parser makes of a snapshot (internal/gvp/parser.go): a sheet   *)
(* is a sequence of rows of cells, the first row a banner, the second the  *)
(* header.                                                                 *)
(*                                                                         *)
(* A cell has a text and, where the source leaves columns out, the number  *)
(* of its own; 0 stands for none.  Of the fourteen columns there are five  *)
(* here: two that must hold a text, two that must hold a number, and one   *)
(* that may hold one.  The others are text that may be missing.            *)
(***************************************************************************)
EXTENDS Integers, SequencesExt

Cell == [index : Nat, text : STRING]

Header == <<"number", "name", "latitude", "longitude", "elevation">>

\* Texts that ParseFloat takes: coordinates on the globe, one that is not, and
\* one that is no number and compares with none.
Number == {"10", "20", "200", "NaN"}

\* Validate, for which NaN is neither too small nor too large ...
OnGlobe(text) == text \in {"10", "20", "NaN"}

\* ... and the CHECKs of the table, for which it is.
InTable(text) == text \in {"10", "20"}

PadTo(record, n) ==
  record \o [k \in 1..(IF Len(record) < n THEN n - Len(record) ELSE 0) |-> ""]

\* Fault: cells land one after the other, whatever their index.
PlaceInTurn(done, cell) == [row |-> Append(done.row, cell.text), next |-> done.next + 1]

\* A cell lands in its own column, or in the one after the cell before it; the
\* row grows up to there.
Place(done, cell) ==
  LET column == IF cell.index > 0 THEN cell.index ELSE done.next
  IN  [row  |-> [PadTo(done.row, column) EXCEPT ![column] = cell.text],
       next |-> column + 1]

\* decodeSpreadsheetRows, of one row.
Decode(cells) ==
  FoldLeft(Place, [row |-> <<>>, next |-> 1], cells).row

HeaderMatches(record) == PadTo(record, Len(Header)) = Header

\* parseRow: the record has what it needs, each text of the kind it should be.
Parseable(record) ==
  /\ record[1] # "" /\ record[2] # ""
  /\ record[3] \in Number /\ record[4] \in Number
  /\ record[5] \in Number \cup {""}

ParseRow(record) ==
  [ref |-> record[1],
   content |-> [name |-> record[2], latitude |-> record[3], longitude |-> record[4],
                elevation |-> record[5]]]

\* extractVersion: a banner that names no version is refused.
NamesVersion(record) == \E k \in DOMAIN record : record[k] = "5.4.0"

WellFormed(sheet) ==
  /\ Len(sheet) >= 2
  /\ NamesVersion(Decode(sheet[1]))
  /\ HeaderMatches(Decode(sheet[2]))

\* The rows of a well-formed sheet that can be used; those that cannot are
\* reported one by one.
Parse(sheet) ==
  LET records == [k \in 1..(Len(sheet) - 2) |-> PadTo(Decode(sheet[k + 2]), Len(Header))]
      keep(rows, record) == IF Parseable(record) THEN Append(rows, ParseRow(record)) ELSE rows
  IN  FoldLeft(keep, <<>>, records)

----------------------------------------------------------------------------
(* What a sheet says, column by column.                                    *)

\* The column of the k-th cell of a row, counted from the last one before it
\* that names its own.
ColumnOf(cells, k) ==
  LET own == {j \in 1..k : cells[j].index > 0}
  IN  IF own = {} THEN k
      ELSE LET j == CHOOSE j \in own : \A i \in own : i <= j
           IN  cells[j].index + k - j

\* The text in a column of a row.
TextAt(cells, column) ==
  LET there == {k \in DOMAIN cells : ColumnOf(cells, k) = column}
  IN  IF there = {} THEN "" ELSE cells[CHOOSE k \in there : \A i \in there : i <= k].text
============================================================================
