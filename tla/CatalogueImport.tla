--------------------------- MODULE CatalogueImport ---------------------------
(***************************************************************************)
(* `server import-catalog`: the GVP snapshot is checked against its        *)
(* manifest, read, and written into the table volcanoes row by row         *)
(* (cmd/server/import.go, internal/gvp, internal/volcano/volcano.go).      *)
(*                                                                         *)
(* Nothing of this is one transaction and no lock is taken: operators may  *)
(* replace the files, run two imports at once, or lose one half way.       *)
(***************************************************************************)
EXTENDS VolcanoSheet

CONSTANTS
  Importer,    \* runs of the subcommand
  Snapshots,   \* the sheets operators install, the first one to begin with
  MaxReplaced  \* bound of the model: how often the snapshot is replaced

ASSUME ImportAssumption ==
  /\ Snapshots \in Seq(Seq(Seq(Cell))) /\ Snapshots # <<>>
  /\ MaxReplaced \in Nat

\* What Parse makes of each of them.
Parsed == [s \in DOMAIN Snapshots |-> Parse(Snapshots[s])]

VARIABLES
  installed,  \* the snapshot in the directory, an index of Snapshots
  manifest,   \* the snapshot the manifest describes
  replaced,   \* how often the snapshot was replaced
  catalogue,  \* volcanoes, by id
  pc, using, rest, seen, changed, \* the local state of an import
  alone       \* whether nobody else wrote since it began

files == <<installed, manifest, replaced>>

locals == <<using, rest, seen, changed, alone>>

vars == <<files, catalogue, pc, locals>>

PC == {"idle", "checked", "upsert", "insert", "update", "done"}

Volcano == [ref : STRING, content : [{"name", "latitude", "longitude", "elevation"} -> STRING],
            absent : BOOLEAN]

\* Record.Validate; a row that was parsed has its number.
Valid(content) == OnGlobe(content.latitude) /\ OnGlobe(content.longitude)

\* volcanoes_latitude_valid_range and its sister.
Storable(content) == InTable(content.latitude) /\ InTable(content.longitude)

ImportTypeOK ==
  /\ installed \in DOMAIN Snapshots /\ manifest \in DOMAIN Snapshots
  /\ replaced \in 0..MaxReplaced
  /\ catalogue \in Seq(Volcano) /\ \A i \in DOMAIN catalogue : Storable(catalogue[i].content)
  /\ pc \in [Importer -> PC]
  /\ using \in [Importer -> DOMAIN Snapshots]
  /\ rest \in [Importer -> Nat]
  /\ \A p \in Importer : seen[p] \subseteq {row.ref : row \in Range(Parsed[using[p]])}
  /\ changed \in [Importer -> BOOLEAN]
  /\ alone \in [Importer -> BOOLEAN]

ImportInit ==
  /\ installed = 1 /\ manifest = 1 /\ replaced = 0
  /\ catalogue = <<>>
  /\ pc = [p \in Importer |-> "idle"]
  /\ using = [p \in Importer |-> 1]
  /\ rest = [p \in Importer |-> 0]
  /\ seen = [p \in Importer |-> {}]
  /\ changed = [p \in Importer |-> FALSE]
  /\ alone = [p \in Importer |-> TRUE]

----------------------------------------------------------------------------
(* The files.                                                              *)

ReplaceSnapshot(s) ==
  /\ replaced < MaxReplaced
  /\ s # installed
  /\ installed' = s
  /\ replaced' = replaced + 1
  /\ UNCHANGED <<manifest, catalogue, pc, locals>>

UpdateManifest ==
  /\ manifest # installed
  /\ manifest' = installed
  /\ UNCHANGED <<installed, replaced, catalogue, pc, locals>>

----------------------------------------------------------------------------
(* An import.                                                              *)

Goto(p, label) == pc' = [pc EXCEPT ![p] = label]

\* The file is hashed; one that differs from the manifest ends the command.
VerifyChecksum(p) ==
  /\ pc[p] \in {"idle", "done"}
  /\ installed = manifest
  /\ Goto(p, "checked")
  /\ UNCHANGED <<files, catalogue, locals>>

\* Parse reads the file, opened a second time, in one go.
ReadSnapshot(p) ==
  /\ pc[p] = "checked"
  /\ WellFormed(Snapshots[installed])
  /\ using' = [using EXCEPT ![p] = installed]
  /\ rest' = [rest EXCEPT ![p] = 1]
  /\ seen' = [seen EXCEPT ![p] = {}]
  /\ changed' = [changed EXCEPT ![p] = FALSE]
  /\ alone' = [alone EXCEPT ![p] = TRUE]
  /\ Goto(p, "upsert")
  /\ UNCHANGED <<files, catalogue>>

Rows(p) == Parsed[using[p]]

HasRow(p) == rest[p] <= Len(Rows(p))

Row(p) == Rows(p)[rest[p]]

Stored(ref) == {i \in DOMAIN catalogue : catalogue[i].ref = ref}

NextRow(p) == rest' = [rest EXCEPT ![p] = @ + 1]

See(p) == seen' = [seen EXCEPT ![p] = @ \cup {Row(p).ref}]

\* Everybody else's work is no longer undisturbed.
Disturb(p) == alone' = [q \in Importer |-> alone[q] /\ q = p]

\* The row is reported as rejected and the import goes on without it.
RejectRow(p) ==
  /\ pc[p] = "upsert" /\ HasRow(p)
  /\ ~Valid(Row(p).content)
  /\ NextRow(p)
  /\ UNCHANGED <<files, catalogue, pc, using, seen, changed, alone>>

\* Fault: a volcano that was marked absent passes for unchanged.
SameIgnoringAbsence(p) ==
  \E i \in Stored(Row(p).ref) : catalogue[i].content = Row(p).content

\* Upsert finds the row as it is, and present; an elevation that is no number
\* does not even equal itself.
Unchanged(p) ==
  /\ Row(p).content.elevation # "NaN"
  /\ \E i \in Stored(Row(p).ref) :
        catalogue[i].content = Row(p).content /\ ~catalogue[i].absent

LookUpUnchanged(p) ==
  /\ pc[p] = "upsert" /\ HasRow(p)
  /\ Valid(Row(p).content)
  /\ Unchanged(p)
  /\ See(p)
  /\ NextRow(p)
  /\ UNCHANGED <<files, catalogue, pc, using, changed, alone>>

\* Upsert finds something to write; whether it is to insert or to update is
\* settled now, and written in another statement.
LookUpChanged(p) ==
  /\ pc[p] = "upsert" /\ HasRow(p)
  /\ Valid(Row(p).content)
  /\ ~Unchanged(p)
  /\ Goto(p, IF Stored(Row(p).ref) = {} THEN "insert" ELSE "update")
  /\ UNCHANGED <<files, catalogue, locals>>

Present(ref, content) == [ref |-> ref, content |-> content, absent |-> FALSE]

AfterWrite(p) ==
  /\ See(p)
  /\ NextRow(p)
  /\ changed' = [changed EXCEPT ![p] = TRUE]
  /\ Disturb(p)
  /\ Goto(p, "upsert")
  /\ UNCHANGED <<files, using>>

\* Fault: no UNIQUE (source_id, source_ref).
InsertAnyway(p) ==
  /\ pc[p] = "insert"
  /\ catalogue' = Append(catalogue, Present(Row(p).ref, Row(p).content))
  /\ AfterWrite(p)

\* INSERT; UNIQUE (source_id, source_ref) refuses a row somebody else inserted
\* since, a CHECK what Validate let through, and the whole import ends there.
Insert(p) ==
  /\ pc[p] = "insert"
  /\ Storable(Row(p).content)
  /\ Stored(Row(p).ref) = {}
  /\ catalogue' = Append(catalogue, Present(Row(p).ref, Row(p).content))
  /\ AfterWrite(p)

\* Fault: a volcano that changed gets a row of its own.
UpdateAsNew(p) ==
  /\ pc[p] = "update"
  /\ \E i \in Stored(Row(p).ref) :
        catalogue' = Append(RemoveAt(catalogue, i), Present(Row(p).ref, Row(p).content))
  /\ AfterWrite(p)

\* UPDATE ... SET ..., absent_from_source_at = NULL WHERE id = $7.
Update(p) ==
  /\ pc[p] = "update"
  /\ Storable(Row(p).content)
  /\ \E i \in Stored(Row(p).ref) :
        catalogue' = [catalogue EXCEPT ![i] = Present(Row(p).ref, Row(p).content)]
  /\ AfterWrite(p)

\* UPDATE ... SET absent_from_source_at = now() for what was not seen.
MarkAbsent(p) ==
  /\ pc[p] = "upsert" /\ ~HasRow(p)
  /\ LET gone == {i \in DOMAIN catalogue :
                    ~catalogue[i].absent /\ catalogue[i].ref \notin seen[p]}
     IN  /\ catalogue' = [i \in DOMAIN catalogue |->
                            [catalogue[i] EXCEPT !.absent = @ \/ i \in gone]]
         /\ changed' = [changed EXCEPT ![p] = @ \/ gone # {}]
         /\ alone' = [q \in Importer |-> alone[q] /\ (q = p \/ gone = {})]
  /\ Goto(p, "done")
  /\ UNCHANGED <<files, using, rest, seen>>

\* The command ends before its end: killed, refused, or a statement failed.
Abort(p) ==
  /\ pc[p] \notin {"idle", "done"}
  /\ Goto(p, "idle")
  /\ UNCHANGED <<files, catalogue, locals>>

Import(p) ==
  \/ VerifyChecksum(p)
  \/ ReadSnapshot(p)
  \/ RejectRow(p)
  \/ LookUpUnchanged(p)
  \/ LookUpChanged(p)
  \/ Insert(p)
  \/ Update(p)
  \/ MarkAbsent(p)
  \/ Abort(p)

ImportNext ==
  \/ \E s \in DOMAIN Snapshots : ReplaceSnapshot(s)
  \/ UpdateManifest
  \/ \E p \in Importer : Import(p)

----------------------------------------------------------------------------
(* Properties.                                                             *)

\* A volcano has one row, even when two imports both find it missing
\* ("nenhuma duplicata e criada", catalogo-vulcoes spec).
OneRowPerVolcano ==
  \A i, j \in DOMAIN catalogue : catalogue[i].ref = catalogue[j].ref => i = j

\* An id stays with its volcano for ever, through renames, disappearances and
\* failed imports, so that observations keep pointing at the right one.
IdentityKept ==
  [][\A i \in DOMAIN catalogue :
        i \in DOMAIN catalogue' /\ catalogue'[i].ref = catalogue[i].ref]_catalogue

\* What a line of a sheet says of a volcano, told by its columns.
LineSays(cells) ==
  [ref |-> TextAt(cells, 1),
   content |-> [name |-> TextAt(cells, 2), latitude |-> TextAt(cells, 3),
                longitude |-> TextAt(cells, 4), elevation |-> TextAt(cells, 5)]]

UsableLine(cells) ==
  /\ TextAt(cells, 1) # "" /\ TextAt(cells, 2) # ""
  /\ InTable(TextAt(cells, 3)) /\ InTable(TextAt(cells, 4))
  /\ TextAt(cells, 5) \in Number \cup {""}

\* What a sheet says: the last usable line of each volcano.
Says(sheet) ==
  LET lines == {k \in 3..Len(sheet) : UsableLine(sheet[k])}
  IN  {LineSays(sheet[k]) : k \in {n \in lines :
         \A later \in lines : later > n => TextAt(sheet[later], 1) # TextAt(sheet[n], 1)}}

Finished(p) == pc[p] = "done" /\ alone[p]

\* An import that ran to its end with nobody else writing leaves the catalogue
\* showing exactly what the snapshot says, whatever earlier imports, complete
\* or broken off half way, had left in it (catalogo-vulcoes spec: the import
\* converges).  A volcano the snapshot lists in a row that cannot be used is not
\* in what it says: it is marked as gone.  An import that meets NaN for a
\* coordinate does not come to its end.
LoneImportExact ==
  \A p \in Importer : Finished(p) =>
     Says(Snapshots[using[p]]) = {[ref |-> v.ref, content |-> v.content] :
                        v \in {w \in Range(catalogue) : ~w.absent}}
============================================================================
