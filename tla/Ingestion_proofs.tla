-------------------------- MODULE Ingestion_proofs --------------------------
(***************************************************************************)
(* Theorems about Ingestion, for any number of processes, events, runs and *)
(* any values of the other constants.                                      *)
(***************************************************************************)
EXTENDS Ingestion, Lists, SequenceTheorems

USE DEF Process

----------------------------------------------------------------------------
(* The ledger's statements.                                                *)

LEMMA RowTypes ==
  ASSUME NEW rows \in Seq(Run), NEW i \in DOMAIN rows
  PROVE  /\ rows[i] \in Run
         /\ i \in Nat /\ 1 <= i /\ i <= Len(rows)
         /\ rows[i].start \in Int /\ rows[i].end \in Int
         /\ rows[i].mode \in Mode /\ rows[i].result \in Result
  <1>1. i \in 1..Len(rows) /\ Len(rows) \in Nat
    BY LenProperties
  <1>2. rows[i] \in Run
    BY <1>1, ElementOfSeq
  <1>3. QED
    BY <1>1, <1>2 DEF Run

LEMMA AppendedRow ==
  ASSUME NEW rows \in Seq(Run), NEW m \in Mode, NEW s \in Int, NEW e \in Int,
         NEW t \in Int, NEW r \in Result,
         NEW after, after = Append(rows, NewRow(m, s, e, t, r))
  PROVE  /\ after \in Seq(Run)
         /\ Len(after) = Len(rows) + 1
         /\ DOMAIN after = 1..(Len(rows) + 1)
         /\ \A i \in DOMAIN rows : after[i] = rows[i]
         /\ after[Len(rows) + 1] = NewRow(m, s, e, t, r)
         /\ after[Len(rows) + 1].result = r
  <1>1. NewRow(m, s, e, t, r) \in Run
    BY DEF NewRow, Run
  <1>2. QED
    BY <1>1, AppendProperties, LenProperties DEF NewRow

LEMMA ClosedRow ==
  ASSUME NEW rows \in Seq(Run), NEW id \in DOMAIN rows, NEW r \in Result,
         NEW after, after = [rows EXCEPT ![id].result = r]
  PROVE  /\ after \in Seq(Run)
         /\ Len(after) = Len(rows)
         /\ DOMAIN after = DOMAIN rows
         /\ \A i \in DOMAIN rows : i # id => after[i] = rows[i]
         /\ after[id] = [rows[id] EXCEPT !.result = r]
         /\ after[id].result = r
         /\ \A i \in DOMAIN rows : after[i].end = rows[i].end
  <1>1. rows[id] \in Run
    BY RowTypes
  <1>2. [rows[id] EXCEPT !.result = r] \in Run
    BY <1>1 DEF Run
  <1>3. after \in Seq(Run)
    BY <1>2, ExceptSeq, LenProperties
  <1>4. QED
    BY <1>1, <1>2, <1>3, ExceptSeq, LenProperties DEF Run

----------------------------------------------------------------------------
(* Type correctness.  The anchor is a number only because LastSuccess is   *)
(* well defined, and the rows are only closed by whoever opened them, so   *)
(* the three facts are inductive together.                                 *)

CoreInv == TypeOK /\ RowInv /\ FurthestExists

LEMMA LastSuccessIsOne ==
  ASSUME FurthestExists, Successes(runs) # {}
  PROVE  /\ LastSuccess(runs) \in Successes(runs)
         /\ IsLastSuccess(runs, LastSuccess(runs))
  BY DEF FurthestExists, LastSuccess

LEMMA AnchorIsInt ==
  ASSUME TypeOK, FurthestExists
  PROVE  AnchorAt(clock) \in Int
  <1>1. CASE Successes(runs) = {}
    BY <1>1, ConstantsAssumption DEF AnchorAt, TypeOK
  <1>2. CASE Successes(runs) # {}
    <2>1. LastSuccess(runs) \in DOMAIN runs
      BY <1>2, LastSuccessIsOne DEF Successes
    <2>2. runs[LastSuccess(runs)].end \in Int
      BY <2>1, RowTypes DEF TypeOK
    <2>3. QED
      BY <1>2, <2>2, ConstantsAssumption DEF AnchorAt, TypeOK
  <1>3. QED
    BY <1>1, <1>2

LEMMA InitCoreInv == Init => CoreInv
  <1> SUFFICES ASSUME Init PROVE CoreInv
    OBVIOUS
  <1>1. runs \in Seq(Run) /\ Len(runs) = 0 /\ DOMAIN runs = {}
    BY EmptySeq, LenProperties DEF Init
  <1>2. versions \in [Event -> Seq(Content)]
    BY EmptySeq DEF Init
  <1>3. TypeOK
    <2>1. pooled \in BOOLEAN
      BY Zenon DEF Init
    <2>2. QED
      BY <1>1, <1>2, <2>1 DEF Init, TypeOK, PC, Mode
  <1>4. RowInv
    BY <1>1 DEF Init, RowInv
  <1>5. FurthestExists
    BY <1>1 DEF FurthestExists, Successes
  <1>6. QED
    BY <1>3, <1>4, <1>5 DEF CoreInv

----------------------------------------------------------------------------
(* What each step does to the ledger.                                      *)

\* An appended row that is not successful does not disturb the furthest one.
LEMMA FurthestAfterAppend ==
  ASSUME NEW rows \in Seq(Run), NEW after \in Seq(Run),
         Len(after) = Len(rows) + 1,
         \A i \in DOMAIN rows : after[i] = rows[i],
         after[Len(rows) + 1].result # "success"
  PROVE  /\ Successes(after) = Successes(rows)
         /\ \A i : IsLastSuccess(after, i) <=> IsLastSuccess(rows, i)
  <1>1. DOMAIN after = 1..Len(rows) + 1 /\ DOMAIN rows = 1..Len(rows) /\ Len(rows) \in Nat
    BY LenProperties
  <1>2. Successes(after) = Successes(rows)
    BY <1>1 DEF Successes
  <1>3. QED
    BY <1>1, <1>2 DEF Successes, IsLastSuccess

\* Closing a row as failed does not disturb it either.
LEMMA FurthestAfterFail ==
  ASSUME NEW rows \in Seq(Run), NEW id \in DOMAIN rows, rows[id].result = "running"
  PROVE  /\ Successes(Fail(rows, id)) = Successes(rows)
         /\ \A i : IsLastSuccess(Fail(rows, id), i) <=> IsLastSuccess(rows, i)
  <1> DEFINE after == Fail(rows, id)
  <1>1. /\ DOMAIN after = DOMAIN rows
        /\ \A i \in DOMAIN rows : i # id => after[i] = rows[i]
        /\ after[id].result = "failure"
    <2>1. after = [rows EXCEPT ![id].result = "failure"] /\ "failure" \in Result
      BY DEF Fail, Result
    <2> HIDE DEF after
    <2>2. QED
      BY <2>1, ClosedRow
  <1> HIDE DEF after
  <1>2. Successes(after) = Successes(rows)
    BY <1>1 DEF Successes
  <1>3. \A i : IsLastSuccess(after, i) <=> IsLastSuccess(rows, i)
    BY <1>1, <1>2 DEF Successes, IsLastSuccess
  <1>4. QED
    BY <1>2, <1>3 DEF after

\* Closing a row as successful: the furthest is that row or the one before.
LEMMA FurthestAfterFinish ==
  ASSUME NEW rows \in Seq(Run), NEW id \in DOMAIN rows,
         Successes(rows) # {} => \E i \in Successes(rows) : IsLastSuccess(rows, i)
  PROVE  /\ Successes(Finish(rows, id)) = Successes(rows) \cup {id}
         /\ \E i \in Successes(Finish(rows, id)) : IsLastSuccess(Finish(rows, id), i)
  <1> DEFINE after == Finish(rows, id)
  <1>1. /\ DOMAIN after = DOMAIN rows
        /\ \A i \in DOMAIN rows : i # id => after[i] = rows[i]
        /\ after[id].result = "success"
        /\ \A i \in DOMAIN rows : after[i].end = rows[i].end
    <2>1. after = [rows EXCEPT ![id].result = "success"] /\ "success" \in Result
      BY DEF Finish, Result
    <2> HIDE DEF after
    <2>2. QED
      BY <2>1, ClosedRow
  <1> HIDE DEF after
  <1>2. Successes(after) = Successes(rows) \cup {id}
    BY <1>1 DEF Successes
  <1>3. \A i \in DOMAIN rows : rows[i].end \in Int /\ i \in Int
    BY RowTypes
  <1>4. Successes(rows) \subseteq DOMAIN rows
    BY DEF Successes
  <1>5. CASE Successes(rows) = {}
    <2>1. IsLastSuccess(after, id)
      BY <1>1, <1>2, <1>3, <1>5 DEF IsLastSuccess
    <2>2. QED
      BY <1>2, <2>1 DEF after
  <1>6. CASE Successes(rows) # {}
    <2>1. PICK k \in Successes(rows) : IsLastSuccess(rows, k)
      BY <1>6
    <2>2. \A j \in Successes(rows) :
             after[j].end < after[k].end \/ (after[j].end = after[k].end /\ j <= k)
      BY <1>1, <1>4, <2>1 DEF IsLastSuccess
    <2>3. CASE after[id].end < after[k].end \/ (after[id].end = after[k].end /\ id <= k)
      <3>1. IsLastSuccess(after, k)
        BY <1>2, <2>2, <2>3 DEF IsLastSuccess
      <3>2. QED
        BY <1>2, <3>1 DEF after
    <2>4. CASE ~(after[id].end < after[k].end \/ (after[id].end = after[k].end /\ id <= k))
      <3>1. after[k].end < after[id].end \/ (after[k].end = after[id].end /\ k <= id)
        BY <1>1, <1>3, <1>4, <2>4
      <3>2. \A j \in Successes(rows) :
               after[j].end < after[id].end \/ (after[j].end = after[id].end /\ j <= id)
        BY <1>1, <1>3, <1>4, <2>2, <3>1
      <3>3. IsLastSuccess(after, id)
        BY <1>2, <1>3, <3>2 DEF IsLastSuccess
      <3>4. QED
        BY <1>2, <3>3 DEF after
    <2>5. QED
      BY <2>3, <2>4
  <1>7. QED
    BY <1>2, <1>5, <1>6 DEF after

----------------------------------------------------------------------------
(* The invariants are inductive.  First the steps that leave the ledger    *)
(* and the rows alone, which only types are needed for; then the rest.     *)

\* What a process does.
Step(p) ==
  \/ \E m \in CommandMode \cup {"incremental"} : TryLock(p, m)
  \/ SkipCycle(p)
  \/ Work(p)
  \/ CloseSession(p)
  \/ Mishap(p)

LEMMA Steps ==
  ASSUME [Next]_vars
  PROVE  \/ Tick
         \/ \E e \in Event, c \in Content, u \in 0..clock : Publish(e, c, u)
         \/ \E x \in catalogue : Withdraw(x)
         \/ \E p \in Process : Step(p)
         \/ UNCHANGED vars
  BY DEF Next, Step

\* The steps that touch neither runs nor row and open no row.
QuietStep ==
  \/ Tick
  \/ \E e \in Event, c \in Content, u \in 0..clock : Publish(e, c, u)
  \/ \E x \in catalogue : Withdraw(x)
  \/ \E p \in Process :
       \/ \E m \in CommandMode \cup {"incremental"} : TryLock(p, m)
       \/ Anchor(p)
       \/ \E start, end \in 0..clock : ChooseWindow(p, start, end)
       \/ FetchPage(p)
       \/ NextPage(p)
       \/ \E x \in batch[p] : Reject(p, x) \/ ReadSame(p, x) \/ ReadNew(p, x) \/ Insert(p, x)
       \/ GiveUp(p)
       \/ Break(p)
       \/ LoseOutcome(p)
       \/ GetStuck(p)
       \/ CloseSession(p)
       \/ LoseSession(p)
  \/ UNCHANGED vars

LEMMA StepCases ==
  ASSUME [Next]_vars
  PROVE  \/ QuietStep
         \/ \E p \in Process :
              \/ SkipCycle(p) \/ BeginRun(p) \/ FinishRun(p) \/ FailRun(p)
              \/ Release(p) \/ FailUnlock(p) \/ Crash(p)
  BY DEF Next, Work, Mishap, QuietStep

LEMMA QuietTypes ==
  ASSUME CoreInv, QuietStep
  PROVE  TypeOK'
  <1> USE DEF CoreInv, TypeOK
  <1>1. CASE Tick
    BY <1>1 DEF Tick, lock, locals
  <1>2. ASSUME NEW e \in Event, NEW c \in Content, NEW u \in 0..clock, Publish(e, c, u)
        PROVE  TypeOK'
    <2> DEFINE old == {x \in catalogue : x.event = e}
               moved == {x \in old : Occurred[x.content] # Occurred[c]}
               kept == {x \in old \ moved : x.content \notin Invalid}
               since == IF kept = {} THEN {clock} ELSE {x.since : x \in kept}
    <2>1. PICK s \in since :
             catalogue' = (catalogue \ old)
                            \cup {[event |-> e, content |-> c, updated |-> u, since |-> s]}
      BY <1>2 DEF Publish
    <2>2. s \in Int /\ u \in Int
      BY DEF Record
    <2>3. [event |-> e, content |-> c, updated |-> u, since |-> s] \in Record
      BY <2>2 DEF Record
    <2>4. catalogue' \subseteq Record
      BY <2>1, <2>3
    <2>5. \A x, y \in catalogue' : x.event = y.event => x = y
      BY <2>1
    <2>6. QED
      BY <1>2, <2>4, <2>5 DEF Publish, lock, locals
  <1>3. ASSUME NEW p \in Process, NEW m \in CommandMode \cup {"incremental"}, TryLock(p, m)
        PROVE  TypeOK'
    <2>1. m \in Mode
      BY ConstantsAssumption DEF Mode
    <2>2. pooled' \in BOOLEAN
      BY <1>3, Zenon DEF TryLock
    <2>3. QED
      BY <1>3, <2>1, <2>2 DEF TryLock, Goto, source, PC
  <1>4. ASSUME NEW p \in Process, Anchor(p)
        PROVE  TypeOK'
    <2>1. AnchorAt(clock) \in Int
      BY AnchorIsInt
    <2>2. QED
      BY <1>4, <2>1 DEF Anchor, Goto, source, lock, PC
  <1>5. ASSUME NEW p \in Process, NEW start \in 0..clock, NEW end \in 0..clock,
               ChooseWindow(p, start, end)
        PROVE  TypeOK'
    BY <1>5 DEF ChooseWindow, Goto, source, lock, PC
  <1>6. ASSUME NEW p \in Process, FetchPage(p)
        PROVE  TypeOK'
    <2>0. PICK rank \in TieBreaks :
            LET page == Page(Matching(mode[p], window[p]), offset[p], rank)
            IN  /\ batch' = [batch EXCEPT ![p] = page]
                /\ full' = [full EXCEPT ![p] = IsFull(page)]
      BY <1>6 DEF FetchPage
    <2> DEFINE page == Page(Matching(mode[p], window[p]), offset[p], rank)
    <2>1. page \subseteq Record
      BY DEF Page, Matching
    <2>2. IsFull(page) \in BOOLEAN
      BY DEF IsFull
    <2> HIDE DEF page
    <2>3. /\ batch' = [batch EXCEPT ![p] = page]
          /\ full' = [full EXCEPT ![p] = IsFull(page)]
      BY <2>0 DEF page
    <2>4. /\ batch' \in [Process -> SUBSET Record]
          /\ full' \in [Process -> BOOLEAN]
      BY <2>1, <2>2, <2>3
    <2>5. QED
      BY <1>6, <2>4 DEF FetchPage, Goto, source, lock, PC
  <1>7. ASSUME NEW p \in Process, NextPage(p)
        PROVE  TypeOK'
    BY <1>7, ConstantsAssumption DEF NextPage, Goto, source, lock, PC
  <1>8. ASSUME NEW p \in Process, NEW x \in batch[p],
               Reject(p, x) \/ ReadSame(p, x)
        PROVE  TypeOK'
    BY <1>8 DEF Reject, ReadSame, Done, source, lock
  <1>9. ASSUME NEW p \in Process, NEW x \in batch[p], ReadNew(p, x)
        PROVE  TypeOK'
    BY <1>9 DEF ReadNew, Goto, source, lock, locals, PC
  <1>10. ASSUME NEW p \in Process, NEW x \in batch[p], Insert(p, x)
         PROVE  TypeOK'
    <2>1. x.event \in Event /\ x.content \in Content
      BY DEF Record
    <2>2. Append(versions[x.event], x.content) \in Seq(Content)
      BY <2>1, AppendProperties
    <2>3. versions' \in [Event -> Seq(Content)]
      BY <1>10, <2>2 DEF Insert
    <2>4. QED
      BY <1>10, <2>3 DEF Insert, Done, Goto, source, lock, PC
  <1>11. ASSUME NEW p \in Process, GiveUp(p) \/ Break(p) \/ LoseOutcome(p) \/ GetStuck(p)
         PROVE  TypeOK'
    BY <1>11 DEF GiveUp, Break, LoseOutcome, GetStuck, Goto, source, lock, locals, PC
  <1>12. ASSUME NEW p \in Process, CloseSession(p) \/ LoseSession(p)
         PROVE  TypeOK'
    <2>1. pooled' \in BOOLEAN
      BY <1>12, Zenon DEF CloseSession, LoseSession, EndSession, lock
    <2>2. holder' \in Process \cup {NoProcess} /\ held' \in Nat
      BY <1>12 DEF CloseSession, LoseSession, EndSession, lock
    <2>3. UNCHANGED <<clock, catalogue, published, runs, versions, pc, locals>>
      BY <1>12 DEF CloseSession, LoseSession, source
    <2>4. QED
      BY <2>1, <2>2, <2>3 DEF locals
  <1>13. ASSUME NEW x \in catalogue, Withdraw(x)
         PROVE  TypeOK'
    BY <1>13 DEF Withdraw, lock, locals
  <1>14. CASE UNCHANGED vars
    BY <1>14 DEF vars
  <1>15. QED
    BY <1>1, <1>2, <1>3, <1>4, <1>5, <1>6, <1>7, <1>8, <1>9, <1>10, <1>11, <1>12, <1>13, <1>14
       DEF QuietStep

LEMMA QuietRows ==
  ASSUME CoreInv, QuietStep
  PROVE  runs' = runs /\ RowInv'
  <1>1. runs' = runs /\ row' = row
    BY DEF QuietStep, Tick, Publish, Withdraw, TryLock, Anchor, ChooseWindow, FetchPage, NextPage,
           Reject, ReadSame, ReadNew, Insert, GiveUp, Break, LoseOutcome, GetStuck, CloseSession,
           LoseSession, locals, vars
  <1>2. \A p \in Process :
          /\ pc'[p] \in {"idle", "locked", "begin"} => pc[p] \in {"idle", "locked", "begin"}
          /\ pc'[p] \in {"fetch", "persist", "insert", "fail"} =>
                pc[p] \in {"fetch", "persist", "insert", "fail"}
    BY DEF CoreInv, TypeOK, QuietStep, Tick, Publish, Withdraw, TryLock, Anchor, ChooseWindow,
           FetchPage, NextPage, Reject, ReadSame, ReadNew, Insert, GiveUp, Break,
           LoseOutcome, GetStuck, CloseSession, LoseSession, Goto, locals, vars
  <1>3. QED
    BY <1>1, <1>2 DEF CoreInv, RowInv

LEMMA SkipCoreInv ==
  ASSUME CoreInv, NEW p \in Process, SkipCycle(p)
  PROVE  CoreInv'
  <1> USE DEF CoreInv
  <1>1. /\ runs' = Append(runs, NewRow("incremental", clock, clock, clock, "skipped"))
        /\ pc' = pc /\ row' = row
    BY DEF SkipCycle, Skip, locals
  <1>2. /\ runs' \in Seq(Run)
        /\ Len(runs') = Len(runs) + 1
        /\ \A i \in DOMAIN runs : runs'[i] = runs[i]
        /\ runs'[Len(runs) + 1].result = "skipped"
    <2>1. "incremental" \in Mode /\ "skipped" \in Result /\ clock \in Int /\ runs \in Seq(Run)
      BY DEF TypeOK, Mode, Result
    <2>2. \A after : after = Append(runs, NewRow("incremental", clock, clock, clock, "skipped")) =>
            /\ after \in Seq(Run)
            /\ Len(after) = Len(runs) + 1
            /\ \A i \in DOMAIN runs : after[i] = runs[i]
            /\ after[Len(runs) + 1].result = "skipped"
      BY <2>1, AppendedRow
    <2>3. QED
      BY <1>1, <2>2
  <1>3. Len(runs) \in Nat /\ DOMAIN runs = 1..Len(runs)
    BY LenProperties DEF TypeOK
  <1>4. TypeOK'
    BY <1>2 DEF SkipCycle, source, lock, locals, TypeOK
  <1>5. RowInv'
    BY <1>1, <1>2, <1>3 DEF RowInv, TypeOK
  <1>6. FurthestExists'
    BY <1>2, FurthestAfterAppend DEF FurthestExists, TypeOK
  <1>7. QED
    BY <1>4, <1>5, <1>6

LEMMA BeginCoreInv ==
  ASSUME CoreInv, NEW p \in Process, BeginRun(p)
  PROVE  CoreInv'
  <1> USE DEF CoreInv
  <1>1. /\ runs' = Append(runs, NewRow(mode[p], window[p].start, window[p].end, clock, "running"))
        /\ row' = [row EXCEPT ![p] = Len(runs) + 1]
        /\ pc' = [pc EXCEPT ![p] = "fetch"]
    BY DEF BeginRun, Begin, Goto
  <1>2. mode[p] \in Mode /\ window[p].start \in Int /\ window[p].end \in Int
    BY DEF TypeOK
  <1>3. /\ runs' \in Seq(Run)
        /\ Len(runs') = Len(runs) + 1
        /\ \A i \in DOMAIN runs : runs'[i] = runs[i]
        /\ runs'[Len(runs) + 1].result = "running"
    <2>1. "running" \in Result /\ clock \in Int /\ runs \in Seq(Run)
      BY DEF TypeOK, Result
    <2>2. \A after :
            after = Append(runs, NewRow(mode[p], window[p].start, window[p].end, clock, "running")) =>
              /\ after \in Seq(Run)
              /\ Len(after) = Len(runs) + 1
              /\ \A i \in DOMAIN runs : after[i] = runs[i]
              /\ after[Len(runs) + 1].result = "running"
      BY <1>2, <2>1, AppendedRow
    <2>3. QED
      BY <1>1, <2>2
  <1>4. Len(runs) \in Nat /\ DOMAIN runs = 1..Len(runs)
    BY LenProperties DEF TypeOK
  <1>5. TypeOK'
    BY <1>1, <1>3, <1>4 DEF BeginRun, FirstOffset, source, lock, TypeOK, PC
  <1>6. RowInv'
    <2>1. /\ row'[p] = Len(runs) + 1 /\ pc'[p] = "fetch"
          /\ \A q \in Process : q # p => row'[q] = row[q] /\ pc'[q] = pc[q]
      BY <1>1 DEF TypeOK
    <2>2. \A q \in Process : row[q] \in 0..Len(runs)
      BY DEF RowInv
    <2>3. ASSUME NEW q \in Process
          PROVE  /\ row'[q] \in 0..Len(runs')
                 /\ pc'[q] \in {"idle", "locked", "begin"} => row'[q] = 0
                 /\ pc'[q] \in {"fetch", "persist", "insert", "fail"} =>
                       row'[q] # 0 /\ runs'[row'[q]].result = "running"
      <3>1. CASE q = p
        BY <1>3, <1>4, <2>1, <3>1
      <3>2. CASE q # p
        <4>1. row[q] # 0 => row[q] \in DOMAIN runs
          BY <1>4, <2>2
        <4>2. /\ pc[q] \in {"idle", "locked", "begin"} => row[q] = 0
              /\ pc[q] \in {"fetch", "persist", "insert", "fail"} =>
                    row[q] # 0 /\ runs[row[q]].result = "running"
          BY DEF RowInv
        <4>3. QED
          BY <1>3, <1>4, <2>1, <2>2, <3>2, <4>1, <4>2
      <3>3. QED
        BY <3>1, <3>2
    <2>4. ASSUME NEW q \in Process, NEW r \in Process, row'[q] = row'[r], row'[q] # 0
          PROVE  q = r
      <3>1. CASE q # p /\ r # p
        BY <2>1, <2>4, <3>1 DEF RowInv
      <3>2. CASE q = p \/ r = p
        BY <1>4, <2>1, <2>2, <2>4, <3>2
      <3>3. QED
        BY <3>1, <3>2
    <2>5. QED
      BY <2>3, <2>4 DEF RowInv
  <1>7. FurthestExists'
    BY <1>3, FurthestAfterAppend DEF FurthestExists, TypeOK
  <1>8. QED
    BY <1>5, <1>6, <1>7

\* The row a cycle closes is an open row of its own.
LEMMA OwnRow ==
  ASSUME CoreInv, NEW p \in Process, pc[p] \in {"fetch", "persist", "insert", "fail"}
  PROVE  /\ row[p] \in DOMAIN runs
         /\ runs[row[p]].result = "running"
         /\ \A q \in Process : q # p => row[q] # row[p]
  <1>1. Len(runs) \in Nat /\ DOMAIN runs = 1..Len(runs)
    BY LenProperties DEF CoreInv, TypeOK
  <1>2. QED
    BY <1>1 DEF CoreInv, RowInv

LEMMA CloseCoreInv ==
  ASSUME CoreInv, NEW p \in Process, FinishRun(p) \/ FailRun(p)
  PROVE  CoreInv'
  <1> USE DEF CoreInv
  <1>1. /\ row[p] \in DOMAIN runs
        /\ runs[row[p]].result = "running"
        /\ \A q \in Process : q # p => row[q] # row[p]
    BY OwnRow DEF FinishRun, FailRun
  <1>2. PICK r \in {"success", "failure"} : runs' = [runs EXCEPT ![row[p]].result = r]
    BY DEF FinishRun, FailRun, Finish, Fail
  <1>3. /\ row' = row
        /\ pc' = [pc EXCEPT ![p] = "release"]
    BY DEF FinishRun, FailRun, Goto, locals
  <1>4. /\ runs' \in Seq(Run)
        /\ Len(runs') = Len(runs)
        /\ \A i \in DOMAIN runs : i # row[p] => runs'[i] = runs[i]
    <2>1. r \in Result /\ runs \in Seq(Run)
      BY DEF TypeOK, Result
    <2>2. QED
      BY <1>1, <1>2, <2>1, ClosedRow
  <1>5. Len(runs) \in Nat /\ DOMAIN runs = 1..Len(runs)
    BY LenProperties DEF TypeOK
  <1>6. TypeOK'
    <2>1. /\ UNCHANGED <<clock, catalogue, published, versions, holder, held, pooled>>
          /\ UNCHANGED <<mode, window, row, offset, batch, full>>
      BY DEF FinishRun, FailRun, source, lock, locals
    <2>2. pc' \in [Process -> PC]
      BY <1>3 DEF TypeOK, PC
    <2>3. QED
      BY <1>4, <2>1, <2>2 DEF TypeOK
  <1>7. RowInv'
    <2>1. ASSUME NEW q \in Process
          PROVE  /\ row'[q] \in 0..Len(runs')
                 /\ pc'[q] \in {"idle", "locked", "begin"} => row'[q] = 0
                 /\ pc'[q] \in {"fetch", "persist", "insert", "fail"} =>
                       row'[q] # 0 /\ runs'[row'[q]].result = "running"
      <3>1. CASE q = p
        BY <1>3, <1>4, <3>1 DEF RowInv, TypeOK
      <3>2. CASE q # p
        <4>1. row'[q] = row[q] /\ pc'[q] = pc[q] /\ row[q] # row[p]
          BY <1>1, <1>3, <3>2 DEF TypeOK
        <4>2. pc[q] \in {"fetch", "persist", "insert", "fail"} =>
                 row[q] \in DOMAIN runs /\ runs[row[q]].result = "running"
          BY OwnRow
        <4>3. pc[q] \in {"fetch", "persist", "insert", "fail"} =>
                 runs'[row[q]].result = "running"
          BY <1>4, <4>1, <4>2
        <4>4. QED
          BY <1>4, <4>1, <4>3 DEF RowInv
      <3>3. QED
        BY <3>1, <3>2
    <2>2. QED
      BY <1>3, <2>1 DEF RowInv
  <1>8. FurthestExists'
    <2>1. CASE FinishRun(p)
      BY <1>1, <2>1, FurthestAfterFinish DEF FinishRun, FurthestExists, TypeOK
    <2>2. CASE FailRun(p)
      BY <1>1, <2>2, FurthestAfterFail DEF FailRun, FurthestExists, TypeOK
    <2>3. QED
      BY <2>1, <2>2
  <1>9. QED
    BY <1>6, <1>7, <1>8

LEMMA EndCoreInv ==
  ASSUME CoreInv, NEW p \in Process, Release(p) \/ FailUnlock(p) \/ Crash(p)
  PROVE  CoreInv'
  <1> USE DEF CoreInv
  <1>1. /\ runs' = runs /\ EndCycle(p)
        /\ UNCHANGED <<clock, catalogue, published, versions>>
        /\ holder' \in {holder, NoProcess} /\ held' \in Nat /\ pooled' \in BOOLEAN
    <2>1. pooled' \in BOOLEAN
      BY Zenon DEF Release, FailUnlock, Crash, EndSession, lock, TypeOK
    <2>2. holder' \in {holder, NoProcess} /\ held' \in Nat
      BY DEF Release, FailUnlock, Crash, EndSession, lock, TypeOK
    <2>3. QED
      BY <2>1, <2>2 DEF Release, FailUnlock, Crash, source
  <1>2. TypeOK'
    BY <1>1 DEF EndCycle, Goto, TypeOK, PC, Mode
  <1>3. RowInv'
    BY <1>1 DEF EndCycle, Goto, RowInv, TypeOK
  <1>4. FurthestExists'
    BY <1>1 DEF FurthestExists
  <1>5. QED
    BY <1>2, <1>3, <1>4

LEMMA NextCoreInv == CoreInv /\ [Next]_vars => CoreInv'
  <1> SUFFICES ASSUME CoreInv, [Next]_vars PROVE CoreInv'
    OBVIOUS
  <1>1. CASE QuietStep
    <2>1. TypeOK' /\ RowInv' /\ runs' = runs
      BY <1>1, QuietTypes, QuietRows
    <2>2. FurthestExists'
      BY <2>1 DEF CoreInv, FurthestExists
    <2>3. QED
      BY <2>1, <2>2 DEF CoreInv
  <1>2. QED
    BY <1>1, StepCases, SkipCoreInv, BeginCoreInv, CloseCoreInv, EndCoreInv

THEOREM CoreInvariance == Spec => []CoreInv
  BY InitCoreInv, NextCoreInv, PTL DEF Spec

\* Every variable keeps its type; in particular the anchor is always a number.
THEOREM TypeCorrect == Spec => []TypeOK
  BY CoreInvariance, PTL DEF CoreInv

----------------------------------------------------------------------------
(* The ledger keeps its contract, whether or not the lock does its work:   *)
(* a row is closed by the cycle that opened it and by no other.            *)

LEMMA LedgerStep ==
  ASSUME CoreInv, [Next]_vars
  PROVE  [Ledger!CNext]_runs
  <1>1. CASE QuietStep
    BY <1>1, QuietRows
  <1>2. ASSUME NEW p \in Process, SkipCycle(p) \/ BeginRun(p)
        PROVE  Ledger!Open
    <2>1. PICK m \in Mode, a \in Int, b \in Int, r \in {"running", "skipped"} :
             runs' = Append(runs, NewRow(m, a, b, clock, r))
      <3>1. CASE SkipCycle(p)
        BY <3>1 DEF SkipCycle, Skip, Mode, CoreInv, TypeOK
      <3>2. CASE BeginRun(p)
        BY <3>2 DEF BeginRun, Begin, CoreInv, TypeOK
      <3>3. QED
        BY <1>2, <3>1, <3>2
    <2>2. runs \in Seq(Run) /\ clock \in Int /\ r \in Result
      BY DEF CoreInv, TypeOK, Result
    <2> DEFINE after == runs'
    <2> HIDE DEF after
    <2>3. after = Append(runs, NewRow(m, a, b, clock, r))
      BY <2>1 DEF after
    <2>4. /\ Len(after) = Len(runs) + 1
          /\ \A i \in DOMAIN runs : after[i] = runs[i]
          /\ after[Len(runs) + 1].result = r
      BY <2>2, <2>3, AppendedRow
    <2>5. QED
      BY <2>4 DEF Ledger!Open, after
  <1>3. ASSUME NEW p \in Process, FinishRun(p) \/ FailRun(p)
        PROVE  Ledger!Close
    <2>1. row[p] \in DOMAIN runs /\ runs[row[p]].result = "running"
      BY <1>3, OwnRow DEF FinishRun, FailRun
    <2>2. PICK r \in {"success", "failure"} : runs' = [runs EXCEPT ![row[p]].result = r]
      BY <1>3 DEF FinishRun, FailRun, Finish, Fail
    <2>3. QED
      BY <2>1, <2>2 DEF Ledger!Close
  <1>4. ASSUME NEW p \in Process, Release(p) \/ FailUnlock(p) \/ Crash(p)
        PROVE  runs' = runs
    BY <1>4 DEF Release, FailUnlock, Crash
  <1>5. QED
    BY <1>1, <1>2, <1>3, <1>4, StepCases DEF Ledger!CNext

\* Rows are only appended, only open rows are closed, and closed rows never
\* change: run.go, whose UPDATEs name a row by its id alone, never meets a row
\* that somebody else closed.
THEOREM LedgerIsKept == Spec => LedgerKept
  <1>1. Init => Ledger!CInit
    BY DEF Init, Ledger!CInit
  <1>2. QED
    BY <1>1, LedgerStep, CoreInvariance, PTL DEF Spec, LedgerKept, Ledger!CSpec

----------------------------------------------------------------------------
(* Mutual exclusion, as long as the session of the lock lives.             *)

LEMMA InitLockInv == Init => LockInv
  BY DEF Init, LockInv

LEMMA NextLockInv ==
  ASSUME SessionLoss = FALSE, TypeOK, LockInv, [Next]_vars
  PROVE  LockInv'
  <1> USE DEF LockInv
  <1>1. CASE UNCHANGED <<pc, lock>>
    BY <1>1 DEF lock
  <1>2. ASSUME NEW p \in Process, NEW m, TryLock(p, m)
        PROVE  LockInv'
    <2>1. \A q \in Process : q # p => pc[q] = "idle"
      BY <1>2, ConstantsAssumption DEF TryLock, Stranded
    <2>2. QED
      BY <1>2, <2>1 DEF TryLock, Goto, TypeOK
  <1>3. ASSUME NEW p \in Process, Release(p) \/ FailUnlock(p) \/ Crash(p)
        PROVE  LockInv'
    <2>1. \A q \in Process : q # p => pc[q] = "idle"
      BY <1>3, ConstantsAssumption DEF Release, FailUnlock, Crash
    <2>2. \A q \in Process : pc'[q] = "idle"
      BY <1>3, <2>1 DEF Release, FailUnlock, Crash, EndCycle, Goto, TypeOK
    <2>3. QED
      BY <2>2
  <1>4. ASSUME NEW p \in Process, CloseSession(p)
        PROVE  LockInv'
    <2>1. pc' = pc /\ holder = p /\ pooled
      BY <1>4 DEF CloseSession, Stranded
    <2>2. \A q \in Process : pc[q] = "idle"
      BY <2>1
    <2>3. QED
      BY <2>1, <2>2
  <1>5. ASSUME NEW p \in Process, pc[p] # "idle", UNCHANGED lock,
               NEW label, Goto(p, label)
        PROVE  LockInv'
    BY <1>5 DEF Goto, TypeOK, lock
  <1>6. \/ UNCHANGED <<pc, lock>>
        \/ \E p \in Process :
             \/ \E m \in CommandMode \cup {"incremental"} : TryLock(p, m)
             \/ Release(p) \/ FailUnlock(p) \/ Crash(p) \/ CloseSession(p)
             \/ pc[p] # "idle" /\ UNCHANGED lock /\ \E label \in PC : Goto(p, label)
    <2>1. CASE \/ Tick \/ UNCHANGED vars
               \/ \E e \in Event, c \in Content, u \in 0..clock : Publish(e, c, u)
               \/ \E x \in catalogue : Withdraw(x)
      BY <2>1 DEF Tick, Publish, Withdraw, vars, lock
    <2>2. ASSUME NEW p \in Process, ~Release(p),
                 Work(p) \/ GiveUp(p) \/ Break(p) \/ LoseOutcome(p) \/ GetStuck(p)
          PROVE  \/ UNCHANGED <<pc, lock>>
                 \/ pc[p] # "idle" /\ UNCHANGED lock /\ \E label \in PC : Goto(p, label)
      BY <2>2 DEF Work, Anchor, ChooseWindow, BeginRun, FetchPage, NextPage, Reject,
                  ReadSame, ReadNew, Insert, FinishRun, FailRun, GiveUp, Break,
                  LoseOutcome, GetStuck, PC
    <2>3. ASSUME NEW p \in Process, SkipCycle(p)
          PROVE  UNCHANGED <<pc, lock>>
      BY <2>3 DEF SkipCycle
    <2>4. ASSUME NEW p \in Process, Mishap(p)
          PROVE  \/ FailUnlock(p) \/ Crash(p)
                 \/ GiveUp(p) \/ Break(p) \/ LoseOutcome(p) \/ GetStuck(p)
      BY <2>4 DEF Mishap, LoseSession
    <2>5. ASSUME NEW p \in Process, Step(p)
          PROVE  \/ UNCHANGED <<pc, lock>>
                 \/ \E m \in CommandMode \cup {"incremental"} : TryLock(p, m)
                 \/ Release(p) \/ FailUnlock(p) \/ Crash(p) \/ CloseSession(p)
                 \/ pc[p] # "idle" /\ UNCHANGED lock /\ \E label \in PC : Goto(p, label)
      BY <2>2, <2>3, <2>4, <2>5, Zenon DEF Step
    <2>6. CASE \E p \in Process : Step(p)
      BY <2>5, <2>6
    <2>7. QED
      BY <2>1, <2>6, Steps
  <1>7. QED
    BY <1>1, <1>2, <1>3, <1>4, <1>5, <1>6

\* Two processes never collect from the source at once, however many servers
\* and commands there are and whatever fails, short of the database ending the
\* session of the lock under a living process.
THEOREM MutualExclusion ==
  ASSUME SessionLoss = FALSE
  PROVE  Spec => []SerialRuns
  <1>1. LockInv => SerialRuns
    BY DEF LockInv, SerialRuns, Collecting
  <1>2. TypeOK /\ LockInv /\ [Next]_vars => LockInv'
    BY NextLockInv
  <1>3. QED
    BY <1>1, <1>2, InitLockInv, TypeCorrect, PTL DEF Spec

----------------------------------------------------------------------------
(* Save reads the current version and inserts in two statements; the lock  *)
(* is what makes them one.                                                 *)

SaveInv == CoreInv /\ LockInv /\ BatchInv /\ InsertInv

\* The earliest record of a page is one.
LEMMA NextIsUnique ==
  ASSUME TypeOK, BatchInv, NEW p \in Process, NEW x \in batch[p], NEW y \in batch[p],
         IsNext(p, x), IsNext(p, y)
  PROVE  x = y
  <1>1. /\ x.event \in Event /\ x.content \in Content
        /\ y.event \in Event /\ y.content \in Content
    BY DEF TypeOK, Record
  <1>2. /\ Occurred[x.content] \in Nat /\ Occurred[y.content] \in Nat
        /\ Rank[x.event] \in Nat /\ Rank[y.event] \in Nat
    BY <1>1, ConstantsAssumption
  <1>3. ~Before(x, y, Rank) /\ ~Before(y, x, Rank)
    BY DEF IsNext
  <1>4. Rank[x.event] = Rank[y.event]
    BY <1>2, <1>3 DEF Before
  <1>5. x.event = y.event
    BY <1>1, <1>4, ConstantsAssumption
  <1>6. QED
    BY <1>5 DEF BatchInv

\* A page is a part of the catalogue when it is fetched and only shrinks.
LEMMA NextBatchInv ==
  ASSUME TypeOK, BatchInv, [Next]_vars
  PROVE  BatchInv'
  <1>1. ASSUME NEW p \in Process, FetchPage(p)
        PROVE  BatchInv'
    <2>1. PICK rank \in TieBreaks :
            batch' = [batch EXCEPT ![p] = Page(Matching(mode[p], window[p]), offset[p], rank)]
      BY <1>1 DEF FetchPage
    <2> DEFINE page == Page(Matching(mode[p], window[p]), offset[p], rank)
    <2>2. \A x, y \in page : x.event = y.event => x = y
      BY DEF Page, Matching, TypeOK
    <2>3. batch' = [batch EXCEPT ![p] = page]
      BY <2>1
    <2> HIDE DEF page
    <2>4. QED
      BY <2>2, <2>3 DEF BatchInv, TypeOK
  <1>2. ASSUME NEW p \in Process, NEW x, Done(p, x)
        PROVE  BatchInv'
    BY <1>2 DEF Done, BatchInv, TypeOK
  <1>3. ASSUME NEW p \in Process, EndCycle(p)
        PROVE  BatchInv'
    BY <1>3 DEF EndCycle, BatchInv, TypeOK
  <1>4. ASSUME batch' = batch
        PROVE  BatchInv'
    BY <1>4 DEF BatchInv
  <1>5. \/ batch' = batch
        \/ \E p \in Process : FetchPage(p) \/ EndCycle(p) \/ \E x : Done(p, x)
    BY DEF Next, Work, Mishap, Tick, Publish, Withdraw, TryLock, SkipCycle, Anchor, ChooseWindow,
           BeginRun, NextPage, Reject, ReadSame, ReadNew, Insert, FinishRun, FailRun,
           GiveUp, Break, LoseOutcome, GetStuck, FailUnlock, CloseSession, LoseSession, Release, Crash, locals, vars
  <1>6. QED
    BY <1>1, <1>2, <1>3, <1>4, <1>5

\* Nobody else writes while a process is between its two statements.
LEMMA NextInsertInv ==
  ASSUME SaveInv, [Next]_vars
  PROVE  InsertInv'
  <1> SUFFICES ASSUME NEW p \in Process, pc'[p] = "insert",
                      NEW x \in batch'[p], IsNext(p, x)'
               PROVE  ~SameContent(x)'
    BY DEF InsertInv
  <1> USE DEF SaveInv, CoreInv
  <1>1. ASSUME NEW y \in batch[p], ReadNew(p, y)
        PROVE  ~SameContent(x)'
    <2>1. batch' = batch /\ versions' = versions
      BY <1>1 DEF ReadNew, locals
    <2>2. x \in batch[p] /\ IsNext(p, x) /\ IsNext(p, y)
      BY <1>1, <2>1 DEF IsNext, ReadNew
    <2>3. x = y
      BY <2>2, NextIsUnique
    <2>4. QED
      BY <1>1, <2>1, <2>3 DEF ReadNew, SameContent
  <1>2. ASSUME pc[p] = "insert", batch'[p] = batch[p], versions' = versions
        PROVE  ~SameContent(x)'
    <2>1. x \in batch[p] /\ IsNext(p, x)
      BY <1>2 DEF IsNext
    <2>2. ~SameContent(x)
      BY <1>2, <2>1 DEF InsertInv
    <2>3. QED
      BY <1>2, <2>2 DEF SameContent
  <1>3. ASSUME NEW q \in Process, q # p, pc[q] # "idle"
        PROVE  pc[p] = "idle"
    BY <1>3 DEF LockInv
  <1>4. CASE UNCHANGED <<pc, batch, versions>>
    BY <1>2, <1>4
  <1>5. ASSUME NEW q \in Process, q # p, pc[q] # "idle", pc'[p] = pc[p]
        PROVE  FALSE
    BY <1>3, <1>5
  <1>6. ASSUME NEW q \in Process, q # p,
               \/ \E m \in CommandMode \cup {"incremental"} : TryLock(q, m)
               \/ Work(q) \/ Mishap(q)
        PROVE  ~SameContent(x)'
    <2>1. pc'[p] = pc[p]
      BY <1>6 DEF TryLock, Work, Mishap, Anchor, ChooseWindow, BeginRun, FetchPage, NextPage,
           Reject, ReadSame, ReadNew, Insert, FinishRun, FailRun, GiveUp, Break,
           LoseOutcome, GetStuck, FailUnlock, CloseSession, LoseSession, Release, Crash, EndCycle, Goto, TypeOK
    <2>2. CASE pc[q] # "idle"
      BY <1>5, <1>6, <2>1, <2>2
    <2>3. CASE pc[q] = "idle"
      <3>1. UNCHANGED <<batch, versions>>
        BY <1>6, <2>3 DEF TryLock, Work, Mishap, Anchor, ChooseWindow, BeginRun, FetchPage,
             NextPage, Reject, ReadSame, ReadNew, Insert, FinishRun, FailRun, GiveUp, Break,
             LoseOutcome, GetStuck, FailUnlock, CloseSession, LoseSession, Release, Crash, locals
      <3>2. QED
        BY <1>2, <2>1, <3>1
    <2>4. QED
      BY <2>2, <2>3
  <1>7. ASSUME \/ \E m \in CommandMode \cup {"incremental"} : TryLock(p, m)
               \/ Work(p) \/ Mishap(p)
        PROVE  \/ \E y \in batch[p] : ReadNew(p, y)
               \/ UNCHANGED <<pc, batch, versions>>
    <2>1. ASSUME NEW label, Goto(p, label), label # "insert"
          PROVE  FALSE
      BY <2>1 DEF Goto, TypeOK
    <2>2. QED
      BY <1>7, <2>1 DEF TryLock, Work, Mishap, Anchor, ChooseWindow, BeginRun, FetchPage,
         NextPage, Reject, ReadSame, Insert, FinishRun, FailRun, GiveUp, Break,
         LoseOutcome, GetStuck, FailUnlock, CloseSession, LoseSession, Release, Crash, EndCycle, locals
  <1>8. QED
    BY <1>1, <1>4, <1>6, <1>7 DEF Next, SkipCycle, Tick, Publish, Withdraw, CloseSession, vars, locals

LEMMA HistoryStep ==
  ASSUME SaveInv, [Next]_vars
  PROVE  [History!CNext]_versions
  <1>1. ASSUME NEW p \in Process, NEW x \in batch[p], Insert(p, x)
        PROVE  History!CNext
    <2>1. x.event \in Event /\ x.content \in Content
      BY DEF SaveInv, CoreInv, TypeOK, Record
    <2>2. ~SameContent(x)
      BY <1>1 DEF Insert, SaveInv, InsertInv
    <2>3. History!Record(x.event, x.content)
      BY <1>1, <2>2 DEF Insert, SameContent, History!Record
    <2>4. QED
      BY <2>1, <2>3 DEF History!CNext
  <1>2. \/ versions' = versions
        \/ \E p \in Process : \E x \in batch[p] : Insert(p, x)
    BY DEF Next, Work, Mishap, Tick, Publish, Withdraw, TryLock, SkipCycle, Anchor, ChooseWindow,
           BeginRun, FetchPage, NextPage, Reject, ReadSame, ReadNew, FinishRun, FailRun,
           GiveUp, Break, LoseOutcome, GetStuck, FailUnlock, CloseSession, LoseSession, Release, Crash, vars
  <1>3. QED
    BY <1>1, <1>2

\* The history of an event only grows, and every version says something its
\* predecessor did not, although Save decides on a version it read in an earlier
\* statement: while the lock holds, nobody inserts in between.
THEOREM HistoryIsKept ==
  ASSUME SessionLoss = FALSE
  PROVE  Spec => HistoryKept
  <1>1. Init => SaveInv /\ History!CInit
    BY InitCoreInv, InitLockInv
       DEF Init, SaveInv, BatchInv, InsertInv, History!CInit
  <1>2. SaveInv /\ [Next]_vars => SaveInv'
    BY NextCoreInv, NextLockInv, NextBatchInv, NextInsertInv DEF SaveInv, CoreInv
  <1>3. SaveInv /\ [Next]_vars => [History!CNext]_versions
    BY HistoryStep
  <1>4. QED
    BY <1>1, <1>2, <1>3, PTL DEF Spec, HistoryKept, History!CSpec

----------------------------------------------------------------------------
(* What a collection finds: pages are asked for by offset while the source *)
(* adds, revises and touches records, and still nothing is missed, as long *)
(* as what it serves keeps its order until the run ends (Steady).          *)

----------------------------------------------------------------------------
(* Instants and pages.                                                     *)

LEMMA WholeSeconds ==
  ASSUME NEW t \in Int
  PROVE  /\ RFC3339(t) \in Int
         /\ RFC3339(t) <= t
         /\ t < RFC3339(t) + Second
  <1>1. Second \in Nat /\ Second > 0
    BY ConstantsAssumption
  <1>2. t % Second \in 0..(Second - 1)
    BY <1>1
  <1>3. QED
    BY <1>1, <1>2 DEF RFC3339

\* The order of an answer.
ByTime(answer) == {yx \in answer \X answer : Before(yx[1], yx[2], Rank)}

\* A set of records that a page may be taken of.
Orderly(answer) ==
  /\ answer \subseteq Record
  /\ IsFiniteSet(answer)
  /\ \A x, y \in answer : x.event = y.event => x = y

LEMMA PartIsOrderly ==
  ASSUME NEW served, served \subseteq Record, IsFiniteSet(served),
         \A x, y \in served : x.event = y.event => x = y,
         NEW answer, answer \subseteq served
  PROVE  Orderly(answer)
  BY FS_Subset DEF Orderly

LEMMA AnswerIsOrderly ==
  ASSUME TypeOK, SourceInv, NEW p \in Process
  PROVE  Orderly(Answer(p)) /\ Answer(p) \subseteq catalogue
  <1>1. Answer(p) \subseteq catalogue
    BY DEF Answer, Matching
  <1>2. QED
    BY <1>1, PartIsOrderly DEF SourceInv, TypeOK

LEMMA PositionIsPlace ==
  ASSUME NEW answer, Orderly(answer)
  PROVE  /\ IsOrder(answer, ByTime(answer))
         /\ \A x \in answer : Position(x, answer, Rank) = PlaceIn(answer, ByTime(answer), x)
         /\ \A x \in answer : Position(x, answer, Rank) \in Nat \ {0}
  <1>1. \A x \in answer : Occurred[x.content] \in Nat /\ Rank[x.event] \in Nat
    BY ConstantsAssumption DEF Orderly, Record
  <1>2. \A x, y \in answer : Rank[x.event] = Rank[y.event] => x = y
    BY ConstantsAssumption DEF Orderly, Record
  <1>3. IsOrder(answer, ByTime(answer))
    BY <1>1, <1>2 DEF IsOrder, ByTime, Before
  <1>4. ASSUME NEW x \in answer
        PROVE  Position(x, answer, Rank) = PlaceIn(answer, ByTime(answer), x)
    <2>1. Below(answer, ByTime(answer), x) = {y \in answer : Before(y, x, Rank)}
      BY DEF Below, ByTime
    <2>2. QED
      BY <2>1 DEF Position, PlaceIn
  <1>5. QED
    BY <1>3, <1>4, PlaceType DEF Orderly

\* A page that does not reach the end of the answer is full.
LEMMA BeyondMeansFull ==
  ASSUME NEW answer, Orderly(answer), NEW from \in Nat \ {0}, NEW x \in answer,
         Position(x, answer, Rank) >= from + PageSize
  PROVE  IsFull(Page(answer, from, Rank))
  <1> DEFINE R == ByTime(answer)
  <1>1. /\ IsOrder(answer, R) /\ IsFiniteSet(answer)
        /\ \A y \in answer : Position(y, answer, Rank) = PlaceIn(answer, R, y)
    BY PositionIsPlace DEF Orderly
  <1>2. PageSize \in Nat
    BY ConstantsAssumption
  <1> HIDE DEF R
  <1>3. \E y \in answer : PlaceIn(answer, R, y) >= from + PageSize
    BY <1>1
  <1>4. Cardinality({y \in answer : from <= PlaceIn(answer, R, y)
                                    /\ PlaceIn(answer, R, y) < from + PageSize}) >= PageSize
    BY <1>1, <1>2, <1>3, PageFull
  <1>5. Page(answer, from, Rank) = {y \in answer : from <= PlaceIn(answer, R, y)
                                             /\ PlaceIn(answer, R, y) < from + PageSize}
    BY <1>1 DEF Page
  <1>6. QED
    BY <1>4, <1>5 DEF IsFull

\* An answer in which one record of an event takes the place of another of the
\* same instant, or is added, has nothing nearer to its beginning than before.
LEMMA PositionGrows ==
  ASSUME NEW before, Orderly(before), NEW after, Orderly(after), NEW n,
         \A y \in before : y.event # n.event => y \in after,
         \A y \in before : y.event = n.event =>
           n \in after /\ Occurred[n.content] = Occurred[y.content],
         NEW x \in before, NEW z \in after, x.event = z.event
  PROVE  Position(x, before, Rank) <= Position(z, after, Rank)
  <1> DEFINE L == {y \in before : Before(y, x, Rank)}
             M == {y \in after : Before(y, z, Rank)}
  <1>0. Occurred[z.content] = Occurred[x.content] /\ Rank[z.event] = Rank[x.event]
    <2>1. CASE x.event = n.event
      BY <2>1 DEF Orderly
    <2>2. CASE x.event # n.event
      BY <2>2 DEF Orderly
    <2>3. QED
      BY <2>1, <2>2
  <1>1. /\ IsFiniteSet(L) /\ Cardinality(L) \in Nat
        /\ IsFiniteSet(M) /\ Cardinality(M) \in Nat
    BY FS_Subset, FS_CardinalityType DEF Orderly
  <1>2. Cardinality(L) <= Cardinality(M)
    <2>1. CASE \E o \in L : o.event = n.event
      <3>1. PICK o \in L : o.event = n.event
        BY <2>1
      <3>2. (L \ {o}) \cup {n} \subseteq M
        <4>1. Before(n, z, Rank)
          BY <1>0, <3>1 DEF Before
        <4>2. \A y \in L \ {o} : y \in after /\ Before(y, z, Rank)
          BY <1>0, <3>1 DEF Before, Orderly
        <4>3. QED
          BY <3>1, <4>1, <4>2
      <3>3. n \notin L \ {o}
        BY <3>1 DEF Orderly
      <3>4. o \in L
        BY <3>1
      <3> HIDE DEF L, M
      <3>5. IsFiniteSet(L \ {o}) /\ Cardinality(L \ {o}) = Cardinality(L) - 1
        BY <1>1, <3>4, FS_RemoveElement
      <3>6. Cardinality((L \ {o}) \cup {n}) = Cardinality(L)
        <4>1. Cardinality((L \ {o}) \cup {n}) = Cardinality(L \ {o}) + 1
          BY <3>3, <3>5, FS_AddElement
        <4>2. QED
          BY <1>1, <3>5, <4>1
      <3>7. QED
        BY <1>1, <3>2, <3>6, FS_Subset
    <2>2. CASE ~\E o \in L : o.event = n.event
      <3>1. L \subseteq M
        BY <1>0, <2>2 DEF Before
      <3> HIDE DEF L, M
      <3>2. QED
        BY <1>1, <3>1, FS_Subset
    <2>3. QED
      BY <2>1, <2>2
  <1>3. Position(x, before, Rank) = 1 + Cardinality(L) /\ Position(z, after, Rank) = 1 + Cardinality(M)
    BY DEF Position
  <1> HIDE DEF L, M
  <1>4. QED
    BY <1>1, <1>2, <1>3

----------------------------------------------------------------------------
(* The source's stamps and the windows.                                    *)

\* What a publication does to the catalogue.
LEMMA PublishedRecord ==
  ASSUME TypeOK, SourceInv, NEW e \in Event, NEW c \in Content, NEW u \in 0..clock,
         Publish(e, c, u)
  PROVE  \E n \in Record :
           /\ n.event = e /\ n.content = c /\ n.updated = u
           /\ n.since <= clock
           /\ \A x \in catalogue : x.event = e => x.updated <= u
           /\ \/ n.since = clock
              \/ \E x \in catalogue :
                   /\ x.event = e /\ x.content \notin Invalid
                   /\ Occurred[x.content] = Occurred[c] /\ n.since = x.since
           /\ catalogue' = {x \in catalogue : x.event # e} \cup {n}
           /\ n \in catalogue'
  <1> DEFINE old == {x \in catalogue : x.event = e}
             moved == {x \in old : Occurred[x.content] # Occurred[c]}
             kept == {x \in old \ moved : x.content \notin Invalid}
             since == IF kept = {} THEN {clock} ELSE {x.since : x \in kept}
  <1>1. PICK s \in since :
           catalogue' = (catalogue \ old)
                          \cup {[event |-> e, content |-> c, updated |-> u, since |-> s]}
    BY DEF Publish
  <1> DEFINE n == [event |-> e, content |-> c, updated |-> u, since |-> s]
  <1>2. s = clock \/ \E x \in kept : s = x.since
    OBVIOUS
  <1>3. s \in Int /\ u \in Int /\ s <= clock
    BY <1>2 DEF TypeOK, Record, SourceInv
  <1>4. n \in Record
    BY <1>3 DEF Record
  <1>5. \A x \in catalogue : x.event = e => x.updated <= u
    BY DEF Publish
  <1>6. \/ s = clock
        \/ \E x \in catalogue :
             /\ x.event = e /\ x.content \notin Invalid
             /\ Occurred[x.content] = Occurred[c] /\ s = x.since
    BY <1>2
  <1>7. catalogue' = {x \in catalogue : x.event # e} \cup {n}
    BY <1>1
  <1>8. n.event = e /\ n.content = c /\ n.updated = u /\ n.since = s
    OBVIOUS
  <1> HIDE DEF n, since, kept
  <1>9. QED
    BY <1>3, <1>4, <1>5, <1>6, <1>7, <1>8

\* While a run walks, a steady source leaves the events in their order.
LEMMA SteadyOrder ==
  ASSUME Steady, NEW e \in Event, NEW c \in Content, NEW u \in 0..clock, Publish(e, c, u),
         NEW p \in Process, Walking(p)
  PROVE  \A x \in catalogue : x.event = e => Occurred[x.content] = Occurred[c]
  BY DEF Publish, MayMove

\* Only the source and the clock change what the invariant is about.
LEMMA SourceSteps ==
  ASSUME [Next]_vars
  PROVE  \/ Tick
         \/ \E e \in Event, c \in Content, u \in 0..clock : Publish(e, c, u)
         \/ \E x \in catalogue : Withdraw(x)
         \/ UNCHANGED source
  BY DEF Next, Work, Mishap, TryLock, SkipCycle, Anchor, ChooseWindow, BeginRun, FetchPage,
     NextPage, Reject, ReadSame, ReadNew, Insert, FinishRun, FailRun, GiveUp, Break,
     LoseOutcome, GetStuck, FailUnlock, CloseSession, LoseSession, Release, Crash, source, vars

LEMMA NextSourceInv ==
  ASSUME TypeOK, SourceInv, [Next]_vars
  PROVE  SourceInv'
  <1>1. CASE Tick
    <2>1. \A x \in catalogue : x.updated \in Int /\ x.since \in Int
      BY DEF TypeOK, Record
    <2>2. QED
      BY <1>1, <2>1 DEF Tick, SourceInv, TypeOK
  <1>2. ASSUME NEW e \in Event, NEW c \in Content, NEW u \in 0..clock, Publish(e, c, u)
        PROVE  SourceInv'
    <2>1. PICK n \in Record :
            /\ n.event = e /\ n.content = c /\ n.updated = u
            /\ n.since <= clock
            /\ catalogue' = {x \in catalogue : x.event # e} \cup {n}
      BY <1>2, PublishedRecord
    <2>2. IsFiniteSet({x \in catalogue : x.event # e})
      BY FS_Subset DEF SourceInv
    <2>3. IsFiniteSet(catalogue')
      BY <2>1, <2>2, FS_AddElement
    <2>4. clock' = clock /\ Occurred[c] <= u /\ u <= clock
      BY <1>2 DEF Publish
    <2>5. QED
      BY <2>1, <2>3, <2>4 DEF SourceInv
  <1>3. ASSUME NEW x \in catalogue, Withdraw(x)
        PROVE  SourceInv'
    <2>1. catalogue' \subseteq catalogue /\ clock' = clock
      BY <1>3 DEF Withdraw
    <2>2. QED
      BY <2>1, FS_Subset DEF SourceInv
  <1>4. CASE UNCHANGED source
    BY <1>4 DEF SourceInv, source
  <1>5. QED
    BY <1>1, <1>2, <1>3, <1>4, SourceSteps

\* A step of a process leaves the source and the locals of the others alone.
LEMMA StepIsLocal ==
  ASSUME TypeOK, NEW p \in Process, Step(p)
  PROVE  /\ UNCHANGED source
         /\ \A q \in Process \ {p} :
              /\ pc'[q] = pc[q] /\ mode'[q] = mode[q] /\ window'[q] = window[q]
              /\ row'[q] = row[q] /\ offset'[q] = offset[q]
              /\ batch'[q] = batch[q] /\ full'[q] = full[q]
  BY DEF TypeOK, Step, Work, Mishap, TryLock, SkipCycle, Anchor, ChooseWindow, BeginRun,
     FetchPage, NextPage, Reject, ReadSame, ReadNew, Insert, FinishRun, FailRun, GiveUp,
     Break, LoseOutcome, GetStuck, FailUnlock, CloseSession, LoseSession, Release, Crash, EndCycle,
     Goto, Done, locals

\* A row that is appended open or skipped is no success and moves no other.
LEMMA RowsAfterAppend ==
  ASSUME NEW rows \in Seq(Run), NEW new \in Run, new.result # "success",
         NEW after, after = Append(rows, new)
  PROVE  /\ Len(after) = Len(rows) + 1
         /\ DOMAIN after = DOMAIN rows \cup {Len(rows) + 1}
         /\ \A i \in DOMAIN rows : i \in DOMAIN after /\ after[i] = rows[i]
         /\ after[Len(rows) + 1] = new
         /\ Successes(after) = Successes(rows)
  <1>1. Len(rows) \in Nat /\ DOMAIN rows = 1..Len(rows)
    BY LenProperties
  <1>2. /\ after \in Seq(Run)
        /\ Len(after) = Len(rows) + 1
        /\ DOMAIN after = 1..(Len(rows) + 1)
        /\ \A i \in DOMAIN rows : after[i] = rows[i]
        /\ after[Len(rows) + 1] = new
    BY <1>1, AppendProperties, LenProperties
  <1>3. Successes(after) = Successes(rows)
    BY <1>2, FurthestAfterAppend
  <1>4. QED
    BY <1>1, <1>2, <1>3

\* The rows as a step of a process leaves them.
LEMMA StepOnRows ==
  ASSUME CoreInv, NEW p \in Process, Step(p)
  PROVE  /\ Len(runs') >= Len(runs)
         /\ \A i \in DOMAIN runs : 
              /\ i \in DOMAIN runs'
              /\ runs'[i].start = runs[i].start /\ runs'[i].end = runs[i].end
              /\ runs'[i].started = runs[i].started
         /\ \/ runs' = runs
            \/ SkipCycle(p) /\ DOMAIN runs' = DOMAIN runs \cup {Len(runs) + 1}
                 /\ runs'[Len(runs) + 1].end = clock
                 /\ runs'[Len(runs) + 1].started = clock
                 /\ Successes(runs') = Successes(runs)
            \/ BeginRun(p) /\ DOMAIN runs' = DOMAIN runs \cup {Len(runs) + 1}
                 /\ runs'[Len(runs) + 1].start = window[p].start
                 /\ runs'[Len(runs) + 1].end = window[p].end
                 /\ runs'[Len(runs) + 1].started = clock
                 /\ row'[p] = Len(runs) + 1
                 /\ Successes(runs') = Successes(runs)
            \/ FinishRun(p) /\ DOMAIN runs' = DOMAIN runs
                 /\ Successes(runs') = Successes(runs) \cup {row[p]}
            \/ FailRun(p) /\ DOMAIN runs' = DOMAIN runs
                 /\ Successes(runs') = Successes(runs)
  <1> USE DEF CoreInv
  <1>0. Len(runs) \in Nat /\ DOMAIN runs = 1..Len(runs) /\ runs \in Seq(Run) /\ clock \in Int
    BY LenProperties DEF TypeOK
  <1>1. CASE SkipCycle(p)
    <2> DEFINE new == NewRow("incremental", clock, clock, clock, "skipped")
    <2>1. new \in Run /\ new.result # "success" /\ new.end = clock /\ new.started = clock
      BY <1>0 DEF NewRow, Run, Mode, Result
    <2>2. runs' = Append(runs, new)
      BY <1>1 DEF SkipCycle, Skip
    <2> HIDE DEF new
    <2>3. \A after : after = Append(runs, new) =>
            /\ Len(after) = Len(runs) + 1
            /\ DOMAIN after = DOMAIN runs \cup {Len(runs) + 1}
            /\ \A i \in DOMAIN runs : i \in DOMAIN after /\ after[i] = runs[i]
            /\ after[Len(runs) + 1] = new
            /\ Successes(after) = Successes(runs)
      BY <1>0, <2>1, RowsAfterAppend
    <2>4. /\ Len(runs') = Len(runs) + 1
          /\ DOMAIN runs' = DOMAIN runs \cup {Len(runs) + 1}
          /\ \A i \in DOMAIN runs : i \in DOMAIN runs' /\ runs'[i] = runs[i]
          /\ runs'[Len(runs) + 1] = new
          /\ Successes(runs') = Successes(runs)
      BY <2>2, <2>3
    <2>5. /\ Len(runs') >= Len(runs)
          /\ runs'[Len(runs) + 1].end = clock /\ runs'[Len(runs) + 1].started = clock
      BY <1>0, <2>1, <2>4
    <2>6. QED
      BY <1>1, <2>4, <2>5
  <1>2. CASE BeginRun(p)
    <2> DEFINE new == NewRow(mode[p], window[p].start, window[p].end, clock, "running")
    <2>1. /\ new \in Run /\ new.result # "success"
          /\ new.start = window[p].start /\ new.end = window[p].end /\ new.started = clock
      BY <1>0 DEF NewRow, Run, TypeOK, Result
    <2>2. runs' = Append(runs, new) /\ row'[p] = Len(runs) + 1
      BY <1>2 DEF BeginRun, Begin, TypeOK
    <2> HIDE DEF new
    <2>3. \A after : after = Append(runs, new) =>
            /\ Len(after) = Len(runs) + 1
            /\ DOMAIN after = DOMAIN runs \cup {Len(runs) + 1}
            /\ \A i \in DOMAIN runs : i \in DOMAIN after /\ after[i] = runs[i]
            /\ after[Len(runs) + 1] = new
            /\ Successes(after) = Successes(runs)
      BY <1>0, <2>1, RowsAfterAppend
    <2>4. /\ Len(runs') = Len(runs) + 1
          /\ DOMAIN runs' = DOMAIN runs \cup {Len(runs) + 1}
          /\ \A i \in DOMAIN runs : i \in DOMAIN runs' /\ runs'[i] = runs[i]
          /\ runs'[Len(runs) + 1] = new
          /\ Successes(runs') = Successes(runs)
      BY <2>2, <2>3
    <2>5. /\ Len(runs') >= Len(runs)
          /\ runs'[Len(runs) + 1].start = window[p].start
          /\ runs'[Len(runs) + 1].end = window[p].end
          /\ runs'[Len(runs) + 1].started = clock
      BY <1>0, <2>1, <2>4
    <2>6. QED
      BY <1>2, <2>2, <2>4, <2>5
  <1>3. CASE FinishRun(p) \/ FailRun(p)
    <2>1. row[p] \in DOMAIN runs /\ runs[row[p]].result = "running"
      BY <1>3, OwnRow DEF FinishRun, FailRun
    <2>2. PICK r \in {"success", "failure"} : runs' = [runs EXCEPT ![row[p]].result = r]
      BY <1>3 DEF FinishRun, FailRun, Finish, Fail
    <2>3. /\ Len(runs') = Len(runs) /\ DOMAIN runs' = DOMAIN runs
          /\ \A i \in DOMAIN runs : i # row[p] => runs'[i] = runs[i]
          /\ runs'[row[p]] = [runs[row[p]] EXCEPT !.result = r]
      <3>1. r \in Result
        BY DEF Result
      <3>2. QED
        BY <1>0, <2>1, <2>2, <3>1, ClosedRow
    <2>4. \A i \in DOMAIN runs :
            /\ runs'[i].start = runs[i].start /\ runs'[i].end = runs[i].end
            /\ runs'[i].started = runs[i].started
      <3>1. runs[row[p]] \in Run
        BY <1>0, <2>1, RowTypes
      <3>2. QED
        BY <2>1, <2>3, <3>1 DEF Run
    <2>5. FinishRun(p) => Successes(runs') = Successes(runs) \cup {row[p]}
      BY <1>0, <2>1, FurthestAfterFinish DEF FinishRun, FurthestExists
    <2>6. FailRun(p) => Successes(runs') = Successes(runs)
      BY <1>0, <2>1, FurthestAfterFail DEF FailRun
    <2>7. QED
      BY <1>0, <1>3, <2>3, <2>4, <2>5, <2>6
  <1>4. SkipCycle(p) \/ BeginRun(p) \/ FinishRun(p) \/ FailRun(p) \/ runs' = runs
    BY DEF Step, Work, Mishap, TryLock, Anchor, ChooseWindow, FetchPage, NextPage, Reject,
       ReadSame, ReadNew, Insert, GiveUp, Break, LoseOutcome, GetStuck, FailUnlock, CloseSession, LoseSession, Release, Crash
  <1>5. QED
    BY <1>0, <1>1, <1>2, <1>3, <1>4

LEMMA NextWindowInv ==
  ASSUME CoreInv, WindowInv, [Next]_vars
  PROVE  WindowInv'
  <1> USE DEF CoreInv
  <1>0. Len(runs) \in Nat /\ DOMAIN runs = 1..Len(runs) /\ clock \in Nat
    BY LenProperties DEF TypeOK
  <1>1. CASE Tick
    <2>1. \A i \in DOMAIN runs : runs[i].end \in Int /\ runs[i].started \in Int
      BY RowTypes DEF TypeOK, Run
    <2>2. \A p \in Process : window[p].end \in Int
      BY DEF TypeOK
    <2>3. QED
      BY <1>0, <1>1, <2>1, <2>2 DEF Tick, WindowInv, locals
  <1>2. CASE \/ \E e \in Event, c \in Content, u \in 0..clock : Publish(e, c, u)
             \/ \E x \in catalogue : Withdraw(x)
    BY <1>2 DEF Publish, Withdraw, WindowInv, locals
  <1>3. ASSUME NEW p \in Process, Step(p)
        PROVE  WindowInv'
    <2>1. clock' = clock
      BY <1>3, StepIsLocal DEF source
    <2>2. ASSUME pc[p] \notin {"begin", "fetch", "persist", "insert", "fail"},
                 pc'[p] \in {"begin", "fetch", "persist", "insert", "fail"}
          PROVE  window'[p].end <= clock /\ pc'[p] = "begin"
      BY <1>0, <1>3, <2>2 DEF Step, Work, Mishap, TryLock, SkipCycle, Anchor, ChooseWindow, BeginRun,
         FetchPage, NextPage, Reject, ReadSame, ReadNew, Insert, FinishRun, FailRun, GiveUp,
         Break, LoseOutcome, GetStuck, FailUnlock, CloseSession, LoseSession, Release, Crash, EndCycle, Goto, locals, TypeOK
    <2>3. ASSUME pc[p] \in {"begin", "fetch", "persist", "insert", "fail"},
                 pc'[p] \in {"begin", "fetch", "persist", "insert", "fail"}
          PROVE  /\ window'[p] = window[p]
                 /\ pc'[p] = "begin" => pc[p] = "begin"
                 /\ pc[p] = "begin" /\ pc'[p] # "begin" => BeginRun(p)
                 /\ pc[p] # "begin" => row'[p] = row[p]
      BY <1>3, <2>3 DEF Step, Work, Mishap, TryLock, SkipCycle, Anchor, ChooseWindow, BeginRun,
         FetchPage, NextPage, Reject, ReadSame, ReadNew, Insert, FinishRun, FailRun, GiveUp,
         Break, LoseOutcome, GetStuck, FailUnlock, CloseSession, LoseSession, Release, Crash, EndCycle, Goto, locals, TypeOK
    <2>4. pc'[p] \in {"idle", "locked", "begin", "fetch"} => batch'[p] = {}
      BY <1>3 DEF WindowInv, Step, Work, Mishap, TryLock, SkipCycle, Anchor, ChooseWindow,
         BeginRun, FetchPage, NextPage, Reject, ReadSame, ReadNew, Insert, FinishRun, FailRun,
         GiveUp, Break, LoseOutcome, GetStuck, FailUnlock, CloseSession, LoseSession, Release, Crash, EndCycle, Goto, locals, TypeOK
    <2>5. \A i \in DOMAIN runs' : runs'[i].end <= clock' /\ runs'[i].started <= clock'
      <3>1. \A i \in DOMAIN runs : runs'[i].end = runs[i].end /\ runs'[i].started = runs[i].started
        BY <1>3, StepOnRows
      <3>2. BeginRun(p) => window[p].end <= clock
        BY DEF BeginRun, WindowInv
      <3>3. \A i \in DOMAIN runs' :
              i \in DOMAIN runs \/ (runs'[i].end <= clock /\ runs'[i].started <= clock)
        BY <1>0, <1>3, <3>2, StepOnRows
      <3>4. QED
        BY <2>1, <3>1, <3>3 DEF WindowInv
    <2>6. pc'[p] \in {"begin", "fetch", "persist", "insert", "fail"} => window'[p].end <= clock'
      BY <2>1, <2>2, <2>3 DEF WindowInv
    <2>7. ASSUME pc'[p] \in {"fetch", "persist", "insert", "fail"}
          PROVE  runs'[row'[p]].start = window'[p].start /\ runs'[row'[p]].end = window'[p].end
      <3>1. CASE pc[p] = "begin"
        <4>1. BeginRun(p) /\ window'[p] = window[p]
          BY <2>3, <2>7, <3>1
        <4>2. ~SkipCycle(p) /\ ~FinishRun(p) /\ ~FailRun(p)
          BY <3>1 DEF SkipCycle, FinishRun, FailRun
        <4>3. runs' # runs
          <5>1. Len(runs') = Len(runs) + 1
            BY <1>0, <4>1, AppendProperties DEF BeginRun, Begin
          <5>2. QED
            BY <1>0, <5>1
        <4>4. /\ runs'[Len(runs) + 1].start = window[p].start
              /\ runs'[Len(runs) + 1].end = window[p].end
              /\ row'[p] = Len(runs) + 1
          BY <1>3, <4>2, <4>3, StepOnRows
        <4>5. QED
          BY <4>1, <4>4
      <3>2. CASE pc[p] # "begin"
        <4>1. pc[p] \in {"fetch", "persist", "insert", "fail"}
          BY <2>2, <2>7, <3>2
        <4>2. row'[p] = row[p] /\ window'[p] = window[p] /\ row[p] \in DOMAIN runs
          BY <2>3, <2>7, <3>2, <4>1, OwnRow
        <4>3. QED
          BY <1>3, <4>1, <4>2, StepOnRows DEF WindowInv
      <3>3. QED
        BY <3>1, <3>2
    <2>8. ASSUME NEW q \in Process, q # p
          PROVE  /\ pc'[q] \in {"begin", "fetch", "persist", "insert", "fail"} =>
                      window'[q].end <= clock'
                 /\ pc'[q] \in {"fetch", "persist", "insert", "fail"} =>
                      /\ runs'[row'[q]].start = window'[q].start
                      /\ runs'[row'[q]].end = window'[q].end
                 /\ pc'[q] \in {"idle", "locked", "begin", "fetch"} => batch'[q] = {}
      <3>1. /\ pc'[q] = pc[q] /\ window'[q] = window[q] /\ row'[q] = row[q]
            /\ batch'[q] = batch[q]
        BY <1>3, <2>8, StepIsLocal
      <3>2. pc[q] \in {"fetch", "persist", "insert", "fail"} => row[q] \in DOMAIN runs
        BY OwnRow
      <3>3. QED
        BY <1>3, <2>1, <3>1, <3>2, StepOnRows DEF WindowInv
    <2>9. QED
      BY <2>4, <2>5, <2>6, <2>7, <2>8 DEF WindowInv
  <1>4. CASE UNCHANGED vars
    BY <1>4 DEF vars, WindowInv
  <1>5. QED
    BY <1>1, <1>2, <1>3, <1>4, Steps
----------------------------------------------------------------------------
(* A walk, step by step.                                                   *)

\* The steps after which p is walking.
LEMMA WalkSteps ==
  ASSUME TypeOK, NEW p \in Process, Step(p), Walking(p)'
  PROVE  \/ BeginRun(p)
         \/ FetchPage(p)
         \/ NextPage(p)
         \/ \E x \in batch[p] : Reject(p, x) \/ ReadSame(p, x) \/ ReadNew(p, x) \/ Insert(p, x)
         \/ UNCHANGED <<pc, locals, versions>>
  BY DEF TypeOK, Walking, Step, Work, Mishap, TryLock, SkipCycle, Anchor, ChooseWindow, FinishRun,
     FailRun, GiveUp, Break, LoseOutcome, GetStuck, FailUnlock, CloseSession, LoseSession, Release, Crash, EndCycle, Goto, locals

\* Only an insertion changes the versions, and it adds one.
LEMMA VersionSteps ==
  ASSUME TypeOK, NEW p \in Process, Step(p)
  PROVE  \/ versions' = versions
         \/ \E x \in batch[p] :
              /\ Insert(p, x)
              /\ \A e \in Event : e # x.event => versions'[e] = versions[e]
              /\ Len(versions'[x.event]) = Len(versions[x.event]) + 1
              /\ versions'[x.event] # <<>>
              /\ versions'[x.event][Len(versions'[x.event])] = x.content
  <1>1. CASE \E x \in batch[p] : Insert(p, x)
    <2>1. PICK x \in batch[p] : Insert(p, x)
      BY <1>1
    <2>2. x.event \in Event /\ x.content \in Content /\ versions[x.event] \in Seq(Content)
      BY DEF TypeOK, Record
    <2>3. versions' = [versions EXCEPT ![x.event] = Append(versions[x.event], x.content)]
      BY <2>1 DEF Insert
    <2>4. /\ versions'[x.event] = Append(versions[x.event], x.content)
          /\ \A e \in Event : e # x.event => versions'[e] = versions[e]
      BY <2>2, <2>3 DEF TypeOK
    <2>5. /\ Len(versions'[x.event]) = Len(versions[x.event]) + 1
          /\ versions'[x.event][Len(versions[x.event]) + 1] = x.content
          /\ Len(versions[x.event]) \in Nat
          /\ versions'[x.event] \in Seq(Content)
      BY <2>2, <2>4, AppendProperties, LenProperties
    <2>6. versions'[x.event] # <<>>
      BY <2>5, EmptySeq
    <2>7. QED
      BY <2>1, <2>4, <2>5, <2>6
  <1>2. CASE ~\E x \in batch[p] : Insert(p, x)
    BY <1>2 DEF Step, Work, Mishap, TryLock, SkipCycle, Anchor, ChooseWindow, BeginRun, FetchPage,
       NextPage, Reject, ReadSame, ReadNew, FinishRun, FailRun, GiveUp, Break, LoseOutcome,
       GetStuck, FailUnlock, CloseSession, LoseSession, Release, Crash
  <1>3. QED
    BY <1>1, <1>2

\* An event that has a version keeps one.
LEMMA VersionsStay ==
  ASSUME TypeOK, [Next]_vars, NEW e \in Event, versions[e] # <<>>
  PROVE  versions'[e] # <<>>
  <1>1. ASSUME NEW p \in Process, Step(p)
        PROVE  versions'[e] # <<>>
    BY <1>1, VersionSteps
  <1>2. QED
    BY <1>1, Steps DEF Tick, Publish, Withdraw, vars

LEMMA AnswerStays ==
  ASSUME NEW q \in Process,
         catalogue' = catalogue, mode'[q] = mode[q], window'[q] = window[q]
  PROVE  Answer(q)' = Answer(q)
  BY DEF Answer, Matching

LEMMA AheadStays ==
  ASSUME NEW q \in Process, NEW x,
         catalogue' = catalogue, mode'[q] = mode[q], window'[q] = window[q],
         Frontier(q)' = Frontier(q), pc'[q] = "fetch" \/ full'[q],
         Ahead(q, x)
  PROVE  Ahead(q, x)'
  BY AnswerStays DEF Ahead

\* What the walk has yet to come to is not moved behind it by a steady source.
LEMMA AheadPublished ==
  ASSUME Steady, TypeOK, SourceInv, TypeOK', SourceInv',
         NEW e \in Event, NEW c \in Content, NEW u \in 0..clock, Publish(e, c, u),
         NEW q \in Process, Walking(q), NEW x \in catalogue, NEW z \in catalogue', x.event = z.event,
         Ahead(q, x)
  PROVE  Ahead(q, z)'
  <1>1. PICK n \in Record :
          /\ n.event = e /\ n.content = c /\ n.updated = u
          /\ \A y \in catalogue : y.event = e => y.updated <= u
          /\ catalogue' = {y \in catalogue : y.event # e} \cup {n}
          /\ n \in catalogue'
    BY PublishedRecord
  <1>2. /\ pc'[q] = pc[q] /\ mode'[q] = mode[q] /\ window'[q] = window[q]
        /\ offset'[q] = offset[q] /\ full'[q] = full[q]
    BY DEF Publish, locals
  <1>3. \A y \in catalogue : y.updated \in Int
    BY DEF TypeOK, Record
  <1>4. RFC3339(window[q].start) \in Int /\ u \in Int
    <2>1. window[q].start \in Int /\ u \in Int
      BY DEF TypeOK
    <2>2. QED
      BY <2>1, WholeSeconds
  <1> DEFINE before == Answer(q)
             after == Answer(q)'
  <1>5. \A y \in before : y.event # e => y \in after
    BY <1>1, <1>2 DEF Answer, Matching
  <1>6. \A y \in before : y.event = e =>
           n \in after /\ Occurred[n.content] = Occurred[y.content]
    <2>1. \A y \in catalogue : y.event = e => Occurred[y.content] = Occurred[n.content]
      BY <1>1, SteadyOrder
    <2>2. QED
      BY <1>1, <1>2, <1>3, <1>4, <2>1 DEF Answer, Matching
  <1>7. x \in before
    BY DEF Ahead
  <1>8. z \in after
    <2>1. x.event = e => z = n
      BY <1>1
    <2>2. x.event # e => z = x
      BY <1>1 DEF TypeOK
    <2>3. QED
      BY <1>5, <1>6, <1>7, <2>1, <2>2
  <1>9. Orderly(before) /\ Orderly(after)
    <2>1. Orderly(before)
      BY AnswerIsOrderly
    <2>2. after \subseteq catalogue'
      BY DEF Answer, Matching
    <2>3. /\ catalogue' \subseteq Record /\ IsFiniteSet(catalogue')
          /\ \A y1, y2 \in catalogue' : y1.event = y2.event => y1 = y2
      BY DEF TypeOK, SourceInv
    <2> HIDE DEF after
    <2>4. QED
      BY <2>1, <2>2, <2>3, PartIsOrderly
  <1> HIDE DEF before, after
  <1>10. Position(x, before, Rank) <= Position(z, after, Rank)
    BY <1>1, <1>5, <1>6, <1>7, <1>8, <1>9, PositionGrows
  <1>11. Position(x, before, Rank) \in Nat /\ Position(z, after, Rank) \in Nat
    BY <1>7, <1>8, <1>9, PositionIsPlace
  <1>12. Frontier(q)' = Frontier(q) /\ Frontier(q) \in Nat
    <2>1. PageSize \in Nat /\ offset[q] \in Nat
      BY ConstantsAssumption DEF TypeOK
    <2>2. QED
      BY <1>2, <2>1 DEF Frontier
  <1>13. Position(x, before, Rank) >= Frontier(q) /\ (pc[q] = "fetch" \/ full[q])
    BY DEF before, Ahead
  <1>14. Position(z, after, Rank) >= Frontier(q)
    BY <1>10, <1>11, <1>12, <1>13
  <1>15. QED
    BY <1>2, <1>8, <1>12, <1>13, <1>14 DEF after, Ahead
----------------------------------------------------------------------------
(* A window recorded as collected was collected.                           *)

\* A run that began at the given time is to find x in its window.
Due(w, began, x) ==
  /\ x.content \notin Invalid
  /\ w.start < Occurred[x.content] /\ Occurred[x.content] <= RFC3339(w.end)
  /\ x.since < began

\* The run of p has saved the event of x, holds it or will come to it.
Found(p, x) ==
  \/ versions[x.event] # <<>>
  \/ \E y \in batch[p] : y.event = x.event /\ y.content \notin Invalid
  \/ Ahead(p, x)

\* A record that a run of the past is to find was there, under the same event
\* and of the same instant, before the source's last publication.
LEMMA DueWasDue ==
  ASSUME TypeOK, SourceInv, NEW e \in Event, NEW c \in Content, NEW u \in 0..clock,
         Publish(e, c, u),
         NEW w, NEW began \in Int, began <= clock,
         NEW z \in catalogue', Due(w, began, z)
  PROVE  \E x \in catalogue : x.event = z.event /\ Due(w, began, x)
  <1>1. PICK n \in Record :
          /\ n.event = e /\ n.content = c
          /\ \/ n.since = clock
             \/ \E x \in catalogue :
                  /\ x.event = e /\ x.content \notin Invalid
                  /\ Occurred[x.content] = Occurred[c] /\ n.since = x.since
          /\ catalogue' = {x \in catalogue : x.event # e} \cup {n}
    BY PublishedRecord
  <1>2. CASE z.event # e
    BY <1>1, <1>2
  <1>3. CASE z.event = e
    <2>1. z = n
      BY <1>1, <1>3
    <2>2. n.since # clock
      BY <2>1 DEF Due, TypeOK
    <2>3. PICK x \in catalogue :
             /\ x.event = e /\ x.content \notin Invalid
             /\ Occurred[x.content] = Occurred[c] /\ n.since = x.since
      BY <1>1, <2>2
    <2>4. Due(w, began, x)
      BY <1>1, <2>1, <2>3 DEF Due
    <2>5. QED
      BY <1>3, <2>3, <2>4
  <1>4. QED
    BY <1>2, <1>3

\* What a run is to find is in the answer to its requests.
LEMMA DueIsAsked ==
  ASSUME TypeOK, SourceInv, NEW p \in Process, NEW x \in catalogue, NEW began,
         Due(window[p], began, x)
  PROVE  x \in Answer(p)
  <1> DEFINE s == window[p].start
             o == Occurred[x.content]
  <1>1. s \in Int /\ o \in Int /\ x.updated \in Int
    BY ConstantsAssumption DEF TypeOK, Record
  <1>2. RFC3339(s) \in Int /\ RFC3339(s) <= s
    BY <1>1, WholeSeconds
  <1>3. s < o /\ o <= RFC3339(window[p].end)
    BY DEF Due
  <1>4. o <= x.updated
    BY DEF SourceInv
  <1> HIDE DEF s, o
  <1>5. x.updated > RFC3339(s) /\ RFC3339(s) <= o
    BY <1>1, <1>2, <1>3, <1>4
  <1>6. QED
    BY <1>3, <1>5 DEF s, o, Answer, Matching

\* A page is fetched: what the walk had yet to come to is in it or beyond.
LEMMA FetchedOrAhead ==
  ASSUME Steady, TypeOK, SourceInv, NEW p \in Process, FetchPage(p), NEW x, Ahead(p, x)
  PROVE  x \in batch'[p] \/ Ahead(p, x)'
  <1>1. /\ pc[p] = "fetch" /\ pc'[p] = "persist" /\ catalogue' = catalogue
        /\ mode'[p] = mode[p] /\ window'[p] = window[p] /\ offset'[p] = offset[p]
        /\ batch'[p] = Page(Answer(p), offset[p], Rank)
        /\ full'[p] = IsFull(Page(Answer(p), offset[p], Rank))
    BY DEF FetchPage, TieBreaks, Goto, TypeOK, source, Answer
  <1>2. /\ x \in Answer(p) /\ Position(x, Answer(p), Rank) >= offset[p]
    BY <1>1 DEF Ahead, Frontier
  <1>3. Orderly(Answer(p)) /\ offset[p] \in Nat \ {0} /\ PageSize \in Nat
    BY AnswerIsOrderly, ConstantsAssumption DEF TypeOK
  <1>4. Position(x, Answer(p), Rank) \in Nat
    BY <1>2, <1>3, PositionIsPlace
  <1>5. CASE Position(x, Answer(p), Rank) < offset[p] + PageSize
    BY <1>1, <1>2, <1>5 DEF Page
  <1>6. CASE Position(x, Answer(p), Rank) >= offset[p] + PageSize
    <2>1. full'[p]
      BY <1>1, <1>2, <1>3, <1>6, BeyondMeansFull
    <2>2. Frontier(p)' = offset[p] + PageSize
      BY <1>1 DEF Frontier
    <2>3. QED
      BY <1>1, <1>2, <1>6, <2>1, <2>2, AnswerStays DEF Ahead
  <1>7. QED
    BY <1>3, <1>4, <1>5, <1>6

\* The first request is for everything there is to ask for.
LEMMA BegunIsAhead ==
  ASSUME TypeOK, SourceInv, NEW p \in Process, BeginRun(p), NEW x \in Answer(p)
  PROVE  Ahead(p, x)'
  <1>1. /\ pc'[p] = "fetch" /\ catalogue' = catalogue
        /\ mode'[p] = mode[p] /\ window'[p] = window[p] /\ offset'[p] = 1
    BY DEF BeginRun, Goto, TypeOK, source, FirstOffset
  <1>2. Position(x, Answer(p), Rank) \in Nat \ {0}
    BY AnswerIsOrderly, PositionIsPlace
  <1>3. Frontier(p)' = 1
    BY <1>1 DEF Frontier
  <1>4. QED
    BY <1>1, <1>2, <1>3, AnswerStays DEF Ahead

\* The other steps of a walk leave what is ahead where it is.
LEMMA WalkedIsAhead ==
  ASSUME TypeOK, NEW p \in Process, NEW x, Ahead(p, x),
         \/ NextPage(p)
         \/ \E y \in batch[p] : Reject(p, y) \/ ReadSame(p, y) \/ ReadNew(p, y) \/ Insert(p, y)
         \/ UNCHANGED <<pc, locals, catalogue>>
  PROVE  Ahead(p, x)'
  <1>1. /\ catalogue' = catalogue /\ mode'[p] = mode[p] /\ window'[p] = window[p]
    BY DEF NextPage, Reject, ReadSame, ReadNew, Insert, source, locals
  <1>2. CASE NextPage(p)
    <2>1. pc[p] = "persist" /\ pc'[p] = "fetch" /\ offset'[p] = offset[p] + PageSize
      BY <1>2 DEF NextPage, Goto, TypeOK
    <2>2. Frontier(p)' = Frontier(p)
      BY <2>1 DEF Frontier
    <2>3. QED
      BY <1>1, <2>1, <2>2, AheadStays
  <1>3. CASE \E y \in batch[p] : Reject(p, y) \/ ReadSame(p, y) \/ ReadNew(p, y) \/ Insert(p, y)
    <2>1. /\ pc[p] # "fetch" /\ pc'[p] # "fetch"
          /\ offset'[p] = offset[p] /\ full'[p] = full[p]
      BY <1>3 DEF Reject, ReadSame, ReadNew, Insert, Goto, TypeOK, locals
    <2>2. Frontier(p)' = Frontier(p) /\ full'[p]
      BY <2>1 DEF Frontier, Ahead
    <2>3. QED
      BY <1>1, <2>2, AheadStays
  <1>4. CASE UNCHANGED <<pc, locals, catalogue>>
    <2>1. Frontier(p)' = Frontier(p) /\ (pc'[p] = "fetch" \/ full'[p])
      BY <1>4 DEF Frontier, Ahead, locals
    <2>2. QED
      BY <1>1, <2>1, AheadStays
  <1>5. QED
    BY <1>2, <1>3, <1>4

\* The inductive invariant of what a window covers.
CovInv == CoreInv /\ SourceInv /\ WindowInv /\ WalkCovers /\ CoverageHonest

\* The two parts that matter, in the words of Due and Found.
LEMMA CoverageByDue ==
  /\ WalkCovers <=> \A p \in Process : Walking(p) =>
                      \A x \in catalogue :
                        Due(window[p], runs[row[p]].started, x) => Found(p, x)
  /\ CoverageHonest <=> \A i \in Successes(runs), x \in catalogue :
                          Due(runs[i], runs[i].started, x) => versions[x.event] # <<>>
  BY DEF WalkCovers, CoverageHonest, Due, Found

LEMMA NextWalkCovers ==
  ASSUME Steady, CovInv, TypeOK', SourceInv', [Next]_vars, NEW p \in Process, Walking(p)',
         NEW x \in catalogue', Due(window[p], runs[row[p]].started, x)'
  PROVE  Found(p, x)'
  <1> USE DEF CovInv, CoreInv
  <1>1. CASE Tick \/ UNCHANGED vars
    <2>1. UNCHANGED <<catalogue, runs, versions, batch, pc, mode, window, row, offset, full>>
      BY <1>1 DEF Tick, locals, vars
    <2>2. Walking(p) /\ Due(window[p], runs[row[p]].started, x) /\ x \in catalogue
      BY <2>1 DEF Walking, Due
    <2>3. Found(p, x)
      BY <2>2, CoverageByDue
    <2>4. Frontier(p)' = Frontier(p)
      BY <2>1 DEF Frontier
    <2>5. Ahead(p, x) => Ahead(p, x)'
      BY <2>1, <2>4, AheadStays DEF Ahead
    <2>6. QED
      BY <2>1, <2>3, <2>5 DEF Found
  <1>2. ASSUME NEW e \in Event, NEW c \in Content, NEW u \in 0..clock, Publish(e, c, u)
        PROVE  Found(p, x)'
    <2>1. UNCHANGED <<runs, versions, batch, pc, window, row>>
      BY <1>2 DEF Publish, locals
    <2>2. Walking(p) /\ Due(window[p], runs[row[p]].started, x)
      BY <2>1 DEF Walking, Due
    <2>3. runs[row[p]].started \in Int /\ runs[row[p]].started <= clock
      <3>1. row[p] \in DOMAIN runs
        BY <2>2, OwnRow DEF Walking
      <3>2. QED
        BY <3>1, RowTypes DEF TypeOK, WindowInv, Run
    <2>4. PICK y \in catalogue : y.event = x.event /\ Due(window[p], runs[row[p]].started, y)
      BY <1>2, <2>2, <2>3, DueWasDue
    <2>5. Found(p, y)
      BY <2>2, <2>4, CoverageByDue
    <2>6. Ahead(p, y) => Ahead(p, x)'
      BY <1>2, <2>2, <2>4, AheadPublished
    <2>7. QED
      BY <2>1, <2>4, <2>5, <2>6 DEF Found
  <1>3. ASSUME NEW q \in Process, Step(q), q # p
        PROVE  Found(p, x)'
    <2>1. /\ catalogue' = catalogue
          /\ pc'[p] = pc[p] /\ mode'[p] = mode[p] /\ window'[p] = window[p]
          /\ offset'[p] = offset[p] /\ batch'[p] = batch[p] /\ full'[p] = full[p]
          /\ row'[p] = row[p]
      BY <1>3, StepIsLocal DEF source
    <2>2. Walking(p) /\ Due(window[p], runs[row[p]].started, x) /\ x \in catalogue /\ x.event \in Event
      <3>1. Walking(p) /\ row[p] \in DOMAIN runs
        BY <2>1, OwnRow DEF Walking
      <3>2. runs'[row[p]].started = runs[row[p]].started
        BY <1>3, <3>1, StepOnRows
      <3>3. QED
        BY <2>1, <3>1, <3>2 DEF Due, TypeOK, Record
    <2>3. Found(p, x)
      BY <2>2, CoverageByDue
    <2>4. versions[x.event] # <<>> => versions'[x.event] # <<>>
      BY <2>2, VersionsStay
    <2>5. Frontier(p)' = Frontier(p)
      BY <2>1 DEF Frontier
    <2>6. Ahead(p, x) => Ahead(p, x)'
      BY <2>1, <2>5, AheadStays DEF Ahead
    <2>7. QED
      BY <2>1, <2>3, <2>4, <2>6 DEF Found
  <1>4. ASSUME Step(p)
        PROVE  Found(p, x)'
    <2>1. catalogue' = catalogue /\ x \in catalogue /\ x.event \in Event
      <3>1. catalogue' = catalogue
        BY <1>4, StepIsLocal DEF source
      <3>2. QED
        BY <3>1 DEF TypeOK, Record
    <2>2. versions[x.event] # <<>> => versions'[x.event] # <<>>
      BY <2>1, VersionsStay
    <2>3. CASE BeginRun(p)
      <3>1. window' = window
        BY <2>3 DEF BeginRun
      <3>2. Due(window[p], runs'[row'[p]].started, x)
        BY <3>1 DEF Due
      <3>3. Ahead(p, x)'
        BY <2>1, <2>3, <3>2, DueIsAsked, BegunIsAhead
      <3>4. QED
        BY <3>3 DEF Found
    <2>4. CASE ~BeginRun(p)
      <3>1. Walking(p) /\ window'[p] = window[p] /\ row'[p] = row[p]
        BY <1>4, <2>4, WalkSteps DEF Walking, FetchPage, NextPage, Reject, ReadSame, ReadNew,
           Insert, locals
      <3>2. Due(window[p], runs[row[p]].started, x)
        <4>1. row[p] \in DOMAIN runs
          BY <3>1, OwnRow DEF Walking
        <4>2. runs'[row[p]].started = runs[row[p]].started
          BY <1>4, <4>1, StepOnRows
        <4>3. QED
          BY <3>1, <4>2 DEF Due
      <3>3. Found(p, x)
        BY <2>1, <3>1, <3>2, CoverageByDue
      <3>4. CASE FetchPage(p)
        <4>1. batch[p] = {}
          BY <3>4 DEF FetchPage, WindowInv
        <4>2. versions[x.event] # <<>> \/ Ahead(p, x)
          BY <3>3, <4>1 DEF Found
        <4>3. Ahead(p, x) => x \in batch'[p] \/ Ahead(p, x)'
          BY <3>4, FetchedOrAhead
        <4>4. x.content \notin Invalid
          BY <3>2 DEF Due
        <4>5. QED
          BY <2>2, <4>2, <4>3, <4>4 DEF Found
      <3>5. CASE NextPage(p)
        <4>1. batch[p] = {}
          BY <3>5 DEF NextPage
        <4>2. Ahead(p, x) => Ahead(p, x)'
          BY <3>5, WalkedIsAhead
        <4>3. QED
          BY <2>2, <3>3, <4>1, <4>2 DEF Found
      <3>6. ASSUME NEW y \in batch[p], Reject(p, y) \/ ReadSame(p, y) \/ ReadNew(p, y) \/ Insert(p, y)
            PROVE  Found(p, x)'
        <4>1. Ahead(p, x) => Ahead(p, x)'
          BY <3>6, WalkedIsAhead
        <4>2. batch'[p] = batch[p] \/ batch'[p] = batch[p] \ {y}
          BY <3>6 DEF Reject, ReadSame, ReadNew, Insert, Done, TypeOK, locals
        <4>3. batch'[p] # batch[p] => y.content \in Invalid \/ versions'[y.event] # <<>>
          <5>1. CASE Reject(p, y)
            BY <5>1 DEF Reject
          <5>2. CASE ReadSame(p, y)
            BY <5>2 DEF ReadSame, SameContent
          <5>3. CASE ReadNew(p, y)
            <6>1. batch' = batch
              BY <5>3 DEF ReadNew, locals
            <6>2. QED
              BY <6>1
          <5>4. CASE Insert(p, y)
            <6>1. TypeOK
              OBVIOUS
            <6>2. y \in Record /\ versions \in [Event -> Seq(Content)]
              BY <6>1 DEF TypeOK
            <6>3. y.event \in Event /\ versions[y.event] \in Seq(Content) /\ y.content \in Content
              BY <6>2 DEF Record
            <6>4. versions'[y.event] = Append(versions[y.event], y.content)
              BY <5>4, <6>2, <6>3 DEF Insert
            <6>5. QED
              BY <6>3, <6>4, AppendProperties
          <5>5. QED
            BY <3>6, <5>1, <5>2, <5>3, <5>4
        <4>4. ASSUME NEW z \in batch[p], z.event = x.event, z.content \notin Invalid
              PROVE  Found(p, x)'
          <5>1. CASE z \in batch'[p]
            BY <4>4, <5>1 DEF Found
          <5>2. CASE z \notin batch'[p]
            <6>1. z = y /\ batch'[p] # batch[p]
              BY <4>2, <5>2
            <6>2. QED
              BY <4>3, <4>4, <6>1 DEF Found
          <5>3. QED
            BY <5>1, <5>2
        <4>5. QED
          BY <2>2, <3>3, <4>1, <4>4 DEF Found
      <3>7. CASE UNCHANGED <<pc, locals, versions>>
        <4>1. Ahead(p, x) => Ahead(p, x)'
          BY <2>1, <3>7, WalkedIsAhead
        <4>2. QED
          BY <3>3, <3>7, <4>1 DEF Found, locals
      <3>8. QED
        BY <1>4, <2>4, <3>4, <3>5, <3>6, <3>7, WalkSteps
    <2>5. QED
      BY <2>3, <2>4
  <1>5. CASE \E y \in catalogue : Withdraw(y)
    BY <1>5 DEF Withdraw, MayMove, Walking
  <1>6. QED
    BY <1>1, <1>2, <1>3, <1>4, <1>5, Steps

LEMMA NextCoverageHonest ==
  ASSUME CovInv, [Next]_vars, NEW i \in Successes(runs'), NEW x \in catalogue',
         Due(runs'[i], runs'[i].started, x)
  PROVE  versions'[x.event] # <<>>
  <1> USE DEF CovInv, CoreInv
  <1>1. CASE Tick \/ UNCHANGED vars
    <2>1. UNCHANGED <<catalogue, versions, runs>>
      BY <1>1 DEF Tick, vars
    <2>2. QED
      BY <2>1, CoverageByDue
  <1>2. ASSUME NEW e \in Event, NEW c \in Content, NEW u \in 0..clock, Publish(e, c, u)
        PROVE  versions'[x.event] # <<>>
    <2>1. runs' = runs /\ versions' = versions
      BY <1>2 DEF Publish
    <2>2. i \in DOMAIN runs
      BY <2>1 DEF Successes
    <2>3. runs[i].started \in Int /\ runs[i].started <= clock
      BY <2>2, RowTypes DEF TypeOK, WindowInv, Run
    <2>4. PICK y \in catalogue : y.event = x.event /\ Due(runs[i], runs[i].started, y)
      BY <1>2, <2>1, <2>3, DueWasDue
    <2>5. versions[y.event] # <<>>
      BY <2>1, <2>4, CoverageByDue
    <2>6. QED
      BY <2>1, <2>4, <2>5
  <1>3. ASSUME NEW p \in Process, Step(p)
        PROVE  versions'[x.event] # <<>>
    <2>1. x \in catalogue /\ x.event \in Event
      <3>1. catalogue' = catalogue
        BY <1>3, StepIsLocal DEF source
      <3>2. QED
        BY <3>1 DEF TypeOK, Record
    <2>2. CASE i \in Successes(runs)
      <3>1. i \in DOMAIN runs
        BY <2>2 DEF Successes
      <3>2. Due(runs[i], runs[i].started, x)
        BY <1>3, <3>1, StepOnRows DEF Due
      <3>3. versions[x.event] # <<>>
        BY <2>1, <2>2, <3>2, CoverageByDue
      <3>4. QED
        BY <2>1, <3>3, VersionsStay
    <2>3. CASE i \notin Successes(runs)
      <3>1. FinishRun(p) /\ i = row[p]
        BY <1>3, <2>3, StepOnRows
      <3>2. pc[p] = "persist" /\ batch[p] = {} /\ ~full[p] /\ i \in DOMAIN runs
        BY <3>1, OwnRow DEF FinishRun
      <3>3. /\ runs'[i].start = window[p].start /\ runs'[i].end = window[p].end
            /\ runs'[i].started = runs[row[p]].started
        BY <1>3, <3>1, <3>2, StepOnRows DEF WindowInv
      <3>4. Due(window[p], runs[row[p]].started, x)
        BY <3>3 DEF Due
      <3>5. Found(p, x)
        BY <2>1, <3>2, <3>4, CoverageByDue DEF Walking
      <3>6. versions[x.event] # <<>>
        BY <3>2, <3>5 DEF Found, Ahead
      <3>7. QED
        BY <2>1, <3>6, VersionsStay
    <2>4. QED
      BY <2>2, <2>3
  <1>4. ASSUME NEW y \in catalogue, Withdraw(y)
        PROVE  versions'[x.event] # <<>>
    <2>1. UNCHANGED <<versions, runs>> /\ catalogue' \subseteq catalogue
      BY <1>4 DEF Withdraw
    <2>2. QED
      BY <2>1, CoverageByDue
  <1>5. QED
    BY <1>1, <1>2, <1>3, <1>4, Steps

\* A window recorded as collected was collected, although its pages are asked for
\* by offset: between two of them events may appear, be revised, refused or saved
\* by another run, and the lock may be lost, as long as the source keeps what it
\* serves in its order.  Of the events it was serving when the run began, each
\* that happened in the window, up to its last whole second, is stored, which is
\* what CoverageFor answers "complete" on (usgs/ingest.go, usgs/client.go,
\* earthquake/coverage.go).
THEOREM CoverageIsHonest ==
  ASSUME Steady
  PROVE  Spec => []CoverageHonest
  <1>1. Init => CovInv
    <2> SUFFICES ASSUME Init PROVE CovInv
      OBVIOUS
    <2>1. CoreInv
      BY InitCoreInv
    <2>2. runs = <<>> /\ DOMAIN runs = {} /\ Successes(runs) = {}
      BY EmptySeq, LenProperties DEF Init, Successes
    <2>3. SourceInv
      BY FS_EmptySet DEF Init, SourceInv
    <2>4. WindowInv
      BY <2>2 DEF Init, WindowInv
    <2>5. WalkCovers /\ CoverageHonest
      BY <2>2 DEF Init, WalkCovers, Walking, CoverageHonest
    <2>6. QED
      BY <2>1, <2>3, <2>4, <2>5 DEF CovInv
  <1>2. CovInv /\ [Next]_vars => CovInv'
    <2> SUFFICES ASSUME CovInv, [Next]_vars PROVE CovInv'
      OBVIOUS
    <2>1. CoreInv' /\ SourceInv' /\ WindowInv'
      BY NextCoreInv, NextSourceInv, NextWindowInv DEF CovInv, CoreInv
    <2>2. WalkCovers'
      <3>1. \A p \in Process : Walking(p)' =>
              \A x \in catalogue' : Due(window[p], runs[row[p]].started, x)' => Found(p, x)'
        BY <2>1, NextWalkCovers DEF CoreInv
      <3>2. QED
        BY <3>1 DEF WalkCovers, Due, Found
    <2>3. CoverageHonest'
      <3>1. \A i \in Successes(runs'), x \in catalogue' :
              Due(runs'[i], runs'[i].started, x) => versions'[x.event] # <<>>
        BY NextCoverageHonest
      <3>2. QED
        BY <3>1 DEF CoverageHonest, Due
    <2>4. QED
      BY <2>1, <2>2, <2>3 DEF CovInv
  <1>3. CovInv => CoverageHonest
    BY DEF CovInv
  <1>4. QED
    BY <1>1, <1>2, <1>3, PTL DEF Spec
----------------------------------------------------------------------------
(* No revision is lost.  The lock makes one cycle at a time, the anchor     *)
(* ties each window to the furthest one before it, and the overlap covers   *)
(* what becomes visible late.                                               *)

\* Where the furthest successful run says the next one resumes.
Resume == runs[LastSuccess(runs)].end - Overlap

OnlyIncremental == \A p \in Process : mode[p] = "incremental"

OpenCycle == {"begin", "fetch", "persist", "insert", "fail"}

\* The inductive invariant of revisions: one cycle at a time, its window tied to
\* the anchor, and what it has yet to find tied to the page it holds.
RevisionInv ==
  /\ CoreInv /\ LockInv /\ SourceInv /\ WindowInv /\ OnlyIncremental
  /\ AnchorInv /\ BatchFresh /\ WalkFinds /\ NoRevisionLost

LEMMA NextOnlyIncremental ==
  ASSUME CommandMode \subseteq {"incremental"}, TypeOK, OnlyIncremental, [Next]_vars
  PROVE  OnlyIncremental'
  <1>1. ASSUME NEW p \in Process, Step(p), NEW q \in Process
        PROVE  mode'[q] = "incremental"
    BY <1>1 DEF TypeOK, OnlyIncremental, Step, Work, Mishap, TryLock, SkipCycle, Anchor,
       ChooseWindow, BeginRun, FetchPage, NextPage, Reject, ReadSame, ReadNew, Insert, FinishRun,
       FailRun, GiveUp, Break, LoseOutcome, GetStuck, FailUnlock, CloseSession, LoseSession, Release, Crash, EndCycle, Goto, Done, locals
  <1>2. QED
    BY <1>1, Steps DEF OnlyIncremental, Tick, Publish, Withdraw, locals, vars

\* No window that was collected ends after the furthest.
LEMMA FurthestEnd ==
  ASSUME TypeOK, FurthestExists, Successes(runs) # {}
  PROVE  /\ LastSuccess(runs) \in Successes(runs)
         /\ \A i \in Successes(runs) :
              runs[i].end \in Int /\ runs[i].end <= runs[LastSuccess(runs)].end
  <1>1. \A i \in Successes(runs) : runs[i].end \in Int
    BY RowTypes DEF Successes, TypeOK
  <1>2. QED
    BY <1>1, LastSuccessIsOne DEF IsLastSuccess

LEMMA AnchorIsResume ==
  ASSUME TypeOK, FurthestExists, WindowInv, Successes(runs) # {}
  PROVE  AnchorAt(clock) = Resume /\ Resume \in Int /\ Resume + Overlap <= clock
  <1>1. runs[LastSuccess(runs)].end \in Int
    BY FurthestEnd
  <1>2. runs[LastSuccess(runs)].end <= clock
    BY FurthestEnd DEF WindowInv, Successes
  <1>3. Overlap \in Nat /\ clock \in Nat
    BY ConstantsAssumption DEF TypeOK
  <1> DEFINE a == runs[LastSuccess(runs)].end
  <1>4. a - Overlap \in Int /\ ~(a - Overlap > clock) /\ (a - Overlap) + Overlap <= clock
    <2> HIDE DEF a
    <2>1. a \in Int /\ a <= clock
      BY <1>1, <1>2 DEF a
    <2>2. QED
      BY <1>3, <2>1
  <1>5. QED
    BY <1>4 DEF AnchorAt, Resume

LEMMA AnchorIsResumeNow ==
  CoreInv /\ WindowInv => (Successes(runs) # {} => AnchorAt(clock) = Resume)
  BY AnchorIsResume DEF CoreInv

\* The property in terms of Resume: a revision some run was to collect.
LEMMA RevisionByResume ==
  ASSUME TypeOK, FurthestExists, WindowInv
  PROVE  NoRevisionLost <=>
           \A x \in catalogue : x.content \notin Invalid /\ Owed(x) =>
             SameContent(x) \/ x.updated > RFC3339(Resume)
  <1>1. \A x : Owed(x) => Successes(runs) # {}
    BY DEF Owed
  <1>2. QED
    BY <1>1, AnchorIsResume DEF NoRevisionLost

\* While one process is in a cycle, the others can only record that they skip.
LEMMA OthersSkip ==
  ASSUME SessionLoss = FALSE, TypeOK, LockInv, NEW p \in Process, NEW q \in Process, q # p,
         pc[p] # "idle", Step(q)
  PROVE  /\ SkipCycle(q)
         /\ UNCHANGED <<source, versions, pc, locals>>
  <1>1. holder = p /\ pc[q] = "idle"
    BY DEF LockInv
  <1>2. holder # NoProcess
    BY <1>1, ConstantsAssumption
  <1>3. SkipCycle(q)
    BY <1>1, <1>2 DEF Step, Work, Mishap, TryLock, Stranded, Anchor, ChooseWindow, BeginRun, FetchPage,
       NextPage, Reject, ReadSame, ReadNew, Insert, FinishRun, FailRun, GiveUp, Break,
       LoseOutcome, GetStuck, FailUnlock, CloseSession, LoseSession, Release, Crash
  <1>4. QED
    BY <1>3 DEF SkipCycle

\* The steps that add no success leave the furthest window where it is.
LEMMA ResumeStays ==
  ASSUME CoreInv, CoreInv', NEW p \in Process, Step(p), ~FinishRun(p)
  PROVE  /\ Successes(runs') = Successes(runs)
         /\ \A i \in Successes(runs) :
              runs'[i].start = runs[i].start /\ runs'[i].end = runs[i].end
         /\ Successes(runs) # {} => Resume' = Resume
  <1>1. Successes(runs') = Successes(runs)
    BY StepOnRows
  <1>2. \A i \in Successes(runs) : runs'[i].start = runs[i].start /\ runs'[i].end = runs[i].end
    BY StepOnRows DEF Successes
  <1>3. ASSUME Successes(runs) # {}
        PROVE  Resume' = Resume
    <2> DEFINE k == LastSuccess(runs)
               l == LastSuccess(runs')
    <2>1. /\ k \in Successes(runs)
          /\ \A i \in Successes(runs) : runs[i].end \in Int /\ runs[i].end <= runs[k].end
      BY <1>3, FurthestEnd DEF CoreInv
    <2>2. Successes(runs') # {} /\ IsLastSuccess(runs', l) /\ l \in Successes(runs')
      BY <1>1, <1>3 DEF CoreInv, FurthestExists, LastSuccess
    <2>3. \A i \in Successes(runs') :
            runs'[i].end < runs'[l].end \/ runs'[i].end = runs'[l].end
      BY <2>2 DEF IsLastSuccess
    <2>4. runs'[l].end = runs[k].end
      <3> HIDE DEF k, l
      <3>1. runs'[k].end = runs[k].end /\ runs'[l].end = runs[l].end /\ l \in Successes(runs)
        BY <1>1, <1>2, <2>1, <2>2
      <3>2. QED
        BY <1>1, <2>1, <2>3, <3>1
    <2>5. QED
      BY <2>4 DEF Resume
  <1>4. QED
    BY <1>1, <1>2, <1>3

\* A run that finishes has the furthest window.
LEMMA ResumeAfterFinish ==
  ASSUME CoreInv, CoreInv', WindowInv, AnchorInv, OnlyIncremental,
         NEW p \in Process, Step(p), FinishRun(p)
  PROVE  /\ Successes(runs') = Successes(runs) \cup {row[p]}
         /\ Resume' = window[p].end - Overlap
         /\ runs'[row[p]].start = window[p].start
         /\ \A i \in Successes(runs) : runs'[i].start = runs[i].start
  <1>1. pc[p] = "persist"
    BY DEF FinishRun
  <1>2. row[p] \in DOMAIN runs
    BY <1>1, OwnRow
  <1>3. Successes(runs') = Successes(runs) \cup {row[p]}
    <2>1. runs' # runs
      <3>1. row[p] \in Successes(runs') /\ row[p] \notin Successes(runs)
        <4>1. runs[row[p]].result = "running"
          BY <1>1, OwnRow
        <4>2. runs' = Finish(runs, row[p])
          BY DEF FinishRun
        <4>3. row[p] \in DOMAIN runs' /\ runs'[row[p]].result = "success"
          <5>1. runs[row[p]] \in Run
            BY <1>2, RowTypes DEF CoreInv, TypeOK
          <5>2. QED
            BY <1>2, <4>2, <5>1 DEF Finish, Run
        <4>4. QED
          BY <4>1, <4>3 DEF Successes
      <3>2. QED
        BY <3>1
    <2>2. ~SkipCycle(p) /\ ~BeginRun(p) /\ ~FailRun(p)
      BY <1>1 DEF SkipCycle, BeginRun, FailRun
    <2>3. QED
      BY <2>1, <2>2, StepOnRows
  <1>4. /\ runs'[row[p]].start = window[p].start /\ runs'[row[p]].end = window[p].end
        /\ \A i \in Successes(runs) :
             runs'[i].start = runs[i].start /\ runs'[i].end = runs[i].end
    BY <1>1, <1>2, StepOnRows DEF WindowInv, Successes
  <1>5. \A i \in Successes(runs) : runs[i].end <= window[p].end
    BY <1>1 DEF AnchorInv, OnlyIncremental
  <1>6. window[p].end \in Int /\ \A i \in Successes(runs) : runs[i].end \in Int
    BY RowTypes DEF CoreInv, TypeOK, Successes
  <1> DEFINE l == LastSuccess(runs')
  <1>7. IsLastSuccess(runs', l) /\ l \in Successes(runs')
    BY <1>3 DEF CoreInv, FurthestExists, LastSuccess
  <1>8. runs'[l].end = window[p].end
    <2>1. \/ runs'[row[p]].end < runs'[l].end
          \/ runs'[row[p]].end = runs'[l].end
      BY <1>3, <1>7 DEF IsLastSuccess
    <2> HIDE DEF l
    <2>2. QED
      BY <1>3, <1>4, <1>5, <1>6, <1>7, <2>1
  <1>9. QED
    BY <1>3, <1>4, <1>8 DEF Resume
LEMMA NextAnchorInv ==
  ASSUME SessionLoss = FALSE, CoreInv, CoreInv', LockInv, WindowInv, OnlyIncremental, AnchorInv,
         [Next]_vars,
         NEW p \in Process, pc'[p] \in OpenCycle, Successes(runs') # {}
  PROVE  /\ window'[p].start = Resume'
         /\ \A i \in Successes(runs') : runs'[i].end <= window'[p].end
  <1> USE DEF CoreInv
  <1>1. CASE pc[p] \in OpenCycle /\ pc'[p] = pc[p] /\ window' = window /\ runs' = runs
    BY <1>1 DEF AnchorInv, OnlyIncremental, OpenCycle, Resume
  <1>2. CASE \/ Tick \/ UNCHANGED vars
             \/ \E e \in Event, c \in Content, u \in 0..clock : Publish(e, c, u)
             \/ \E x \in catalogue : Withdraw(x)
    BY <1>1, <1>2 DEF Tick, Publish, Withdraw, locals, vars
  <1>3. ASSUME NEW q \in Process, Step(q), q # p
        PROVE  /\ window'[p].start = Resume'
               /\ \A i \in Successes(runs') : runs'[i].end <= window'[p].end
    <2>1. pc'[p] = pc[p] /\ window'[p] = window[p]
      BY <1>3, StepIsLocal
    <2>2. SkipCycle(q)
      BY <1>3, <2>1, OthersSkip DEF OpenCycle
    <2>3. ~FinishRun(q)
      BY <2>2 DEF SkipCycle, FinishRun
    <2>4. /\ Successes(runs') = Successes(runs) /\ Resume' = Resume
          /\ \A i \in Successes(runs) : runs'[i].end = runs[i].end
      BY <1>3, <2>3, ResumeStays
    <2>5. QED
      BY <2>1, <2>4 DEF AnchorInv, OnlyIncremental, OpenCycle, Resume
  <1>4. ASSUME Step(p)
        PROVE  /\ window'[p].start = Resume'
               /\ \A i \in Successes(runs') : runs'[i].end <= window'[p].end
    <2>1. ~FinishRun(p)
      BY DEF FinishRun, Goto, TypeOK, OpenCycle
    <2>2. /\ Successes(runs') = Successes(runs) /\ Resume' = Resume
          /\ \A i \in Successes(runs) : runs'[i].end = runs[i].end
      BY <1>4, <2>1, ResumeStays
    <2>3. CASE Anchor(p)
      <3>1. window'[p].start = AnchorAt(clock) /\ window'[p].end = clock
        BY <2>3 DEF Anchor, TypeOK
      <3>2. AnchorAt(clock) = Resume
        BY <2>2, AnchorIsResume
      <3>3. \A i \in Successes(runs) : runs[i].end <= clock
        BY DEF WindowInv, Successes
      <3>4. QED
        BY <2>2, <3>1, <3>2, <3>3
    <2>4. CASE ~Anchor(p)
      <3>1. pc[p] \in OpenCycle /\ window'[p] = window[p]
        BY <1>4, <2>4 DEF OpenCycle, OnlyIncremental, TypeOK, Step, Work, Mishap, TryLock, SkipCycle,
           ChooseWindow, BeginRun, FetchPage, NextPage, Reject, ReadSame, ReadNew, Insert,
           FinishRun, FailRun, GiveUp, Break, LoseOutcome, GetStuck, FailUnlock, CloseSession, LoseSession, Release, Crash, EndCycle,
           Goto, locals
      <3>2. QED
        BY <2>2, <3>1 DEF AnchorInv, OnlyIncremental, OpenCycle, Resume
    <2>5. QED
      BY <2>3, <2>4
  <1>5. QED
    BY <1>2, <1>3, <1>4, Steps

\* A publication is stamped no earlier than Lag before the end of any window.
LEMMA PublishedIsFresh ==
  ASSUME TypeOK, WindowInv, NEW e \in Event, NEW c \in Content, NEW u \in 0..clock,
         Publish(e, c, u), NEW p \in Process, Walking(p)
  PROVE  u >= window[p].end - Lag
  <1>1. window[p].end \in Int /\ window[p].end <= clock /\ clock - Lag <= u
    BY DEF TypeOK, WindowInv, Walking, Publish
  <1>2. Lag \in Nat /\ clock \in Nat /\ u \in Int
    BY ConstantsAssumption DEF TypeOK
  <1>3. QED
    BY <1>1, <1>2

LEMMA NextBatchFresh ==
  ASSUME SessionLoss = FALSE, CoreInv, LockInv, SourceInv, WindowInv, BatchFresh, [Next]_vars,
         NEW p \in Process, Walking(p)', NEW y \in batch'[p], NEW x \in catalogue',
         x.event = y.event
  PROVE  x = y \/ x.updated >= window'[p].end - Lag
  <1> USE DEF CoreInv
  <1>1. CASE UNCHANGED <<catalogue, batch, pc, window>>
    BY <1>1 DEF BatchFresh, Walking
  <1>2. CASE Tick \/ UNCHANGED vars
    BY <1>1, <1>2 DEF Tick, locals, vars
  <1>3. ASSUME NEW e \in Event, NEW c \in Content, NEW u \in 0..clock, Publish(e, c, u)
        PROVE  x = y \/ x.updated >= window'[p].end - Lag
    <2>1. UNCHANGED <<batch, pc, window>> /\ Walking(p)
      BY <1>3 DEF Publish, locals, Walking
    <2>2. PICK n \in Record :
            n.updated = u /\ catalogue' = {z \in catalogue : z.event # e} \cup {n}
      BY <1>3, PublishedRecord
    <2>3. n.updated >= window[p].end - Lag
      BY <1>3, <2>1, <2>2, PublishedIsFresh
    <2>4. QED
      BY <2>1, <2>2, <2>3 DEF BatchFresh
  <1>4. ASSUME NEW q \in Process, Step(q), q # p
        PROVE  x = y \/ x.updated >= window'[p].end - Lag
    <2>1. pc[p] # "idle"
      BY <1>4, StepIsLocal DEF Walking
    <2>2. UNCHANGED <<source, locals, pc>>
      BY <1>4, <2>1, OthersSkip
    <2>3. QED
      BY <1>1, <2>2 DEF source, locals
  <1>5. ASSUME Step(p)
        PROVE  x = y \/ x.updated >= window'[p].end - Lag
    <2>1. catalogue' = catalogue
      BY <1>5, StepIsLocal DEF source
    <2>2. CASE BeginRun(p)
      BY <2>2 DEF BeginRun, WindowInv
    <2>3. CASE FetchPage(p)
      <3>1. batch'[p] \subseteq catalogue
        BY <2>3 DEF FetchPage, TypeOK, Page, Matching
      <3>2. QED
        BY <2>1, <3>1 DEF TypeOK
    <2>4. CASE NextPage(p)
      BY <2>4 DEF NextPage
    <2>5. ASSUME NEW z \in batch[p], Reject(p, z) \/ ReadSame(p, z) \/ ReadNew(p, z) \/ Insert(p, z)
          PROVE  x = y \/ x.updated >= window'[p].end - Lag
      <3>1. /\ batch'[p] \subseteq batch[p] /\ window' = window /\ Walking(p)
        BY <2>5 DEF Reject, ReadSame, ReadNew, Insert, Done, TypeOK, locals, Walking
      <3>2. QED
        BY <2>1, <3>1 DEF BatchFresh
    <2>6. CASE UNCHANGED <<pc, locals, versions>>
      BY <1>1, <2>1, <2>6 DEF locals
    <2>7. QED
      BY <1>5, <2>2, <2>3, <2>4, <2>5, <2>6, WalkSteps
  <1>6. ASSUME NEW z \in catalogue, Withdraw(z)
        PROVE  x = y \/ x.updated >= window'[p].end - Lag
    <2>1. catalogue' \subseteq catalogue /\ UNCHANGED <<batch, pc, window>>
      BY <1>6 DEF Withdraw, locals
    <2>2. QED
      BY <2>1 DEF BatchFresh, Walking
  <1>7. QED
    BY <1>2, <1>3, <1>4, <1>5, <1>6, Steps

\* Either the current version still says what x says, or a record that took the
\* place of x, or that x took the place of, has just been inserted.
LEMMA SameStays ==
  ASSUME TypeOK, NEW p \in Process, Step(p), NEW x \in catalogue, SameContent(x)
  PROVE  \/ SameContent(x)'
         \/ \E y \in batch[p] : Insert(p, y) /\ y.event = x.event /\ y # x
  <1>1. x.event \in Event
    BY DEF TypeOK, Record
  <1>2. CASE versions' = versions
    BY <1>2 DEF SameContent
  <1>3. CASE versions' # versions
    <2>1. PICK y \in batch[p] :
            /\ Insert(p, y)
            /\ \A e \in Event : e # y.event => versions'[e] = versions[e]
            /\ versions'[y.event] # <<>>
            /\ versions'[y.event][Len(versions'[y.event])] = y.content
      BY <1>3, VersionSteps
    <2>2. CASE y.event # x.event
      BY <1>1, <2>1, <2>2 DEF SameContent
    <2>3. CASE y = x
      BY <2>1, <2>3 DEF SameContent
    <2>4. CASE y.event = x.event /\ y # x
      BY <2>1, <2>4
    <2>5. QED
      BY <2>2, <2>3, <2>4
  <1>4. QED
    BY <1>2, <1>3

LEMMA InsertedIsSame ==
  ASSUME TypeOK, NEW p \in Process, NEW y \in batch[p], Insert(p, y)
  PROVE  SameContent(y)'
  <1>1. y \in Record /\ versions \in [Event -> Seq(Content)]
    BY DEF TypeOK
  <1>2. y.event \in Event /\ versions[y.event] \in Seq(Content) /\ y.content \in Content
    BY <1>1 DEF Record
  <1>3. versions'[y.event] = Append(versions[y.event], y.content)
    BY <1>1, <1>2 DEF Insert
  <1>4. /\ versions'[y.event] # <<>>
        /\ versions'[y.event][Len(versions'[y.event])] = y.content
    BY <1>2, <1>3, AppendProperties, LenProperties
  <1>5. QED
    BY <1>4 DEF SameContent
\* The run of p has saved x, holds it or will come to it, or the next run will.
Caught(p, x) ==
  \/ SameContent(x)
  \/ x.updated >= window[p].end - Lag
  \/ x \in batch[p]
  \/ Ahead(p, x)

LEMMA NextWalkFinds ==
  ASSUME SessionLoss = FALSE, Steady, CoreInv, LockInv, SourceInv, WindowInv, OnlyIncremental,
         BatchFresh, WalkFinds, TypeOK', SourceInv', [Next]_vars,
         NEW p \in Process, Walking(p)', NEW x \in catalogue',
         x.content \notin Invalid, x.updated > RFC3339(window'[p].start)
  PROVE  Caught(p, x)'
  <1> USE DEF CoreInv
  <1>1. CASE UNCHANGED <<source, versions, pc, locals>> \/ Tick \/ UNCHANGED vars
    <2>1. UNCHANGED <<catalogue, versions, batch, pc, mode, window, offset, full>>
      BY <1>1 DEF Tick, source, locals, vars
    <2>2. Walking(p) /\ x \in catalogue /\ x.updated > RFC3339(window[p].start)
      BY <2>1 DEF Walking
    <2>3. Caught(p, x)
      BY <2>2 DEF WalkFinds, Caught
    <2>4. Frontier(p)' = Frontier(p)
      BY <2>1 DEF Frontier
    <2>5. Ahead(p, x) => Ahead(p, x)'
      BY <2>1, <2>4, AheadStays DEF Ahead
    <2>6. QED
      BY <2>1, <2>3, <2>5 DEF Caught, SameContent
  <1>2. ASSUME NEW e \in Event, NEW c \in Content, NEW u \in 0..clock, Publish(e, c, u)
        PROVE  Caught(p, x)'
    <2>1. UNCHANGED <<versions, batch, pc, window>> /\ Walking(p)
      BY <1>2 DEF Publish, locals, Walking
    <2>2. PICK n \in Record :
            n.updated = u /\ catalogue' = {z \in catalogue : z.event # e} \cup {n}
      BY <1>2, PublishedRecord
    <2>3. CASE x = n
      <3>1. x.updated >= window[p].end - Lag
        BY <1>2, <2>1, <2>2, <2>3, PublishedIsFresh
      <3>2. QED
        BY <2>1, <3>1 DEF Caught
    <2>4. CASE x # n
      <3>1. x \in catalogue
        BY <2>2, <2>4
      <3>2. Caught(p, x)
        BY <2>1, <3>1 DEF WalkFinds, Caught
      <3>3. Ahead(p, x) => Ahead(p, x)'
        BY <1>2, <2>1, <3>1, AheadPublished
      <3>4. QED
        BY <2>1, <3>2, <3>3 DEF Caught, SameContent
    <2>5. QED
      BY <2>3, <2>4
  <1>3. ASSUME NEW q \in Process, Step(q), q # p
        PROVE  Caught(p, x)'
    <2>1. pc[p] # "idle"
      BY <1>3, StepIsLocal DEF Walking
    <2>2. QED
      BY <1>1, <1>3, <2>1, OthersSkip
  <1>4. ASSUME Step(p)
        PROVE  Caught(p, x)'
    <2>1. catalogue' = catalogue /\ x \in catalogue
      BY <1>4, StepIsLocal DEF source
    <2>2. CASE BeginRun(p)
      <3>1. x \in Answer(p)
        BY <2>1, <2>2 DEF BeginRun, Answer, Matching, OnlyIncremental
      <3>2. QED
        BY <2>2, <3>1, BegunIsAhead DEF Caught
    <2>3. CASE ~BeginRun(p)
      <3>1. Walking(p) /\ window'[p] = window[p]
        BY <1>4, <2>3, WalkSteps DEF Walking, FetchPage, NextPage, Reject, ReadSame, ReadNew,
           Insert, locals
      <3>2. Caught(p, x)
        BY <2>1, <3>1 DEF WalkFinds, Caught
      <3>3. SameContent(x) => SameContent(x)' \/ x.updated >= window[p].end - Lag
        <4>1. ASSUME NEW y \in batch[p], y.event = x.event, y # x
              PROVE  x.updated >= window[p].end - Lag
          BY <2>1, <3>1, <4>1 DEF BatchFresh
        <4>2. QED
          BY <1>4, <2>1, <4>1, SameStays
      <3>4. CASE FetchPage(p)
        <4>1. batch[p] = {}
          BY <3>4 DEF FetchPage, WindowInv
        <4>2. Ahead(p, x) => x \in batch'[p] \/ Ahead(p, x)'
          BY <3>4, FetchedOrAhead
        <4>3. QED
          BY <3>1, <3>2, <3>3, <4>1, <4>2 DEF Caught
      <3>5. CASE NextPage(p)
        <4>1. batch[p] = {}
          BY <3>5 DEF NextPage
        <4>2. Ahead(p, x) => Ahead(p, x)'
          BY <3>5, WalkedIsAhead
        <4>3. QED
          BY <3>1, <3>2, <3>3, <4>1, <4>2 DEF Caught
      <3>6. ASSUME NEW y \in batch[p], Reject(p, y) \/ ReadSame(p, y) \/ ReadNew(p, y) \/ Insert(p, y)
            PROVE  Caught(p, x)'
        <4>1. Ahead(p, x) => Ahead(p, x)'
          BY <3>6, WalkedIsAhead
        <4>2. batch'[p] = batch[p] \/ batch'[p] = batch[p] \ {y}
          BY <3>6 DEF Reject, ReadSame, ReadNew, Insert, Done, TypeOK, locals
        <4>3. ASSUME x \in batch[p], x \notin batch'[p]
              PROVE  SameContent(x)'
          <5>1. x = y
            BY <4>2, <4>3
          <5>2. CASE Reject(p, y)
            BY <5>1, <5>2 DEF Reject
          <5>3. CASE ReadSame(p, y)
            BY <5>1, <5>3 DEF ReadSame, SameContent
          <5>4. CASE ReadNew(p, y)
            BY <4>3, <5>4 DEF ReadNew, locals
          <5>5. CASE Insert(p, y)
            BY <5>1, <5>5, InsertedIsSame
          <5>6. QED
            BY <3>6, <5>2, <5>3, <5>4, <5>5
        <4>4. QED
          BY <3>1, <3>2, <3>3, <4>1, <4>3 DEF Caught
      <3>7. CASE UNCHANGED <<pc, locals, versions>>
        <4>1. UNCHANGED source
          BY <1>4, StepIsLocal
        <4>2. QED
          BY <1>1, <3>7, <4>1
      <3>8. QED
        BY <1>4, <2>3, <3>4, <3>5, <3>6, <3>7, WalkSteps
    <2>4. QED
      BY <2>2, <2>3
  <1>5. CASE \E y \in catalogue : Withdraw(y)
    BY <1>5 DEF Withdraw, MayMove, Walking
  <1>6. QED
    BY <1>1, <1>2, <1>3, <1>4, <1>5, Steps

\* A row's mode is not rewritten.
LEMMA ModeStays ==
  ASSUME CoreInv, NEW p \in Process, Step(p), NEW i \in DOMAIN runs
  PROVE  runs'[i].mode = runs[i].mode
  <1> USE DEF CoreInv
  <1>1. /\ runs \in Seq(Run) /\ Len(runs) \in Nat /\ DOMAIN runs = 1..Len(runs)
        /\ runs[i] \in Run /\ clock \in Int
    BY RowTypes, LenProperties DEF TypeOK
  <1>2. CASE SkipCycle(p)
    <2>1. NewRow("incremental", clock, clock, clock, "skipped") \in Run
      BY <1>1 DEF NewRow, Run, Mode, Result
    <2>2. runs'[i] = runs[i]
      BY <1>1, <1>2, <2>1, AppendProperties DEF SkipCycle, Skip
    <2>3. QED
      BY <2>2
  <1>3. CASE BeginRun(p)
    <2>1. NewRow(mode[p], window[p].start, window[p].end, clock, "running") \in Run
      BY <1>1 DEF NewRow, Run, Result, TypeOK
    <2>2. runs'[i] = runs[i]
      BY <1>1, <1>3, <2>1, AppendProperties DEF BeginRun, Begin
    <2>3. QED
      BY <2>2
  <1>4. CASE FinishRun(p) \/ FailRun(p)
    <2>1. PICK r \in {"success", "failure"} : runs' = [runs EXCEPT ![row[p]].result = r]
      BY <1>4 DEF FinishRun, FailRun, Finish, Fail
    <2>2. CASE i = row[p]
      <3>1. runs'[i] = [runs[i] EXCEPT !.result = r]
        BY <1>1, <2>1, <2>2
      <3>2. QED
        BY <1>1, <3>1 DEF Run
    <2>3. CASE i # row[p]
      BY <1>1, <2>1, <2>3
    <2>4. QED
      BY <2>2, <2>3
  <1>5. SkipCycle(p) \/ BeginRun(p) \/ FinishRun(p) \/ FailRun(p) \/ runs' = runs
    BY StepOnRows
  <1>6. QED
    BY <1>2, <1>3, <1>4, <1>5

\* A stamp within Lag of a window's end is after where the next run resumes.
LEMMA FreshIsAsked ==
  ASSUME Lag < Overlap, NEW end \in Int, NEW resume \in Int, resume + Overlap <= end,
         NEW u \in Int, u >= end - Lag
  PROVE  u > RFC3339(resume)
  <1>1. RFC3339(resume) \in Int /\ RFC3339(resume) <= resume
    BY WholeSeconds
  <1>2. Lag \in Nat /\ Overlap \in Nat
    BY ConstantsAssumption
  <1>3. u > resume
    BY <1>2
  <1>4. QED
    BY <1>1, <1>3

LEMMA NextNoRevisionLost ==
  ASSUME SessionLoss = FALSE, Lag < Overlap, RevisionInv, CoreInv', WindowInv', [Next]_vars,
         NEW x \in catalogue', x.content \notin Invalid, Owed(x)'
  PROVE  SameContent(x)' \/ x.updated > RFC3339(Resume')
  <1> USE DEF RevisionInv, CoreInv
  <1>1. CASE Tick \/ UNCHANGED vars
    <2>1. UNCHANGED <<catalogue, versions, runs>>
      BY <1>1 DEF Tick, vars
    <2>2. QED
      BY <2>1, RevisionByResume DEF Owed, SameContent, Resume
  <1>2. ASSUME NEW e \in Event, NEW c \in Content, NEW u \in 0..clock, Publish(e, c, u)
        PROVE  SameContent(x)' \/ x.updated > RFC3339(Resume')
    <2>1. runs' = runs /\ versions' = versions
      BY <1>2 DEF Publish
    <2>2. PICK n \in Record :
            n.updated = u /\ catalogue' = {z \in catalogue : z.event # e} \cup {n}
      BY <1>2, PublishedRecord
    <2>3. Owed(x)
      BY <2>1 DEF Owed
    <2>4. Resume' = Resume
      BY <2>1 DEF Resume
    <2>5. CASE x = n
      <3>1. Resume \in Int /\ Resume + Overlap <= clock
        BY <2>3, AnchorIsResume DEF Owed
      <3>2. u >= clock - Lag /\ u \in Int /\ clock \in Int
        BY <1>2, ConstantsAssumption DEF Publish, TypeOK
      <3>3. u > RFC3339(Resume)
        BY <3>1, <3>2, FreshIsAsked
      <3>4. QED
        BY <2>2, <2>4, <2>5, <3>3
    <2>6. CASE x # n
      BY <2>1, <2>2, <2>3, <2>4, <2>6, RevisionByResume DEF SameContent
    <2>7. QED
      BY <2>5, <2>6
  <1>3. ASSUME NEW p \in Process, Step(p)
        PROVE  SameContent(x)' \/ x.updated > RFC3339(Resume')
    <2>1. catalogue' = catalogue /\ x \in catalogue
      BY <1>3, StepIsLocal DEF source
    <2>2. x.updated \in Int
      BY <2>1 DEF TypeOK, Record
    <2>3. CASE ~FinishRun(p)
      <3>1. /\ Successes(runs') = Successes(runs)
            /\ \A i \in Successes(runs) : runs'[i].start = runs[i].start
        BY <1>3, <2>3, ResumeStays
      <3>2. Owed(x)
        <4>1. PICK i \in Successes(runs') :
                 runs'[i].mode = "incremental" /\ x.updated > runs'[i].start
          BY DEF Owed
        <4>2. runs[i].mode = "incremental"
          <5>1. i \in DOMAIN runs
            BY <3>1, <4>1 DEF Successes
          <5>2. runs'[i].mode = runs[i].mode
            BY <1>3, <5>1, ModeStays
          <5>3. QED
            BY <4>1, <5>2
        <4>3. QED
          BY <3>1, <4>1, <4>2 DEF Owed
      <3>3. Resume' = Resume /\ Resume \in Int
        BY <1>3, <2>3, <3>2, ResumeStays, AnchorIsResume DEF Owed
      <3>4. SameContent(x) \/ x.updated > RFC3339(Resume)
        BY <2>1, <3>2, RevisionByResume
      <3>5. ASSUME NEW y \in batch[p], Insert(p, y), y.event = x.event, y # x
            PROVE  x.updated > RFC3339(Resume)
        <4>1. pc[p] = "insert" /\ Walking(p)
          BY <3>5 DEF Insert, Walking
        <4>2. x.updated >= window[p].end - Lag
          BY <2>1, <3>5, <4>1 DEF BatchFresh
        <4>3. window[p].end \in Int
          BY DEF TypeOK
        <4>4. Resume + Overlap <= window[p].end
          <5>1. Successes(runs) # {}
            BY <3>2 DEF Owed
          <5>2. runs[LastSuccess(runs)].end <= window[p].end
            BY <4>1, <5>1, FurthestEnd DEF AnchorInv, OnlyIncremental
          <5>3. runs[LastSuccess(runs)].end \in Int
            BY <5>1, FurthestEnd
          <5>4. Overlap \in Nat
            BY ConstantsAssumption
          <5> DEFINE a == runs[LastSuccess(runs)].end
          <5>5. (a - Overlap) + Overlap <= window[p].end
            <6>1. a \in Int /\ a <= window[p].end
              BY <5>2, <5>3
            <6> HIDE DEF a
            <6>2. QED
              BY <4>3, <5>4, <6>1
          <5>6. QED
            BY <5>5 DEF Resume
        <4>5. QED
          BY <2>2, <3>3, <4>2, <4>3, <4>4, FreshIsAsked
      <3>6. QED
        BY <1>3, <2>1, <3>3, <3>4, <3>5, SameStays
    <2>4. CASE FinishRun(p)
      <3>1. pc[p] = "persist" /\ batch[p] = {} /\ ~full[p] /\ versions' = versions
        BY <2>4 DEF FinishRun
      <3>2. /\ Successes(runs') = Successes(runs) \cup {row[p]}
            /\ Resume' = window[p].end - Overlap
            /\ runs'[row[p]].start = window[p].start
            /\ \A i \in Successes(runs) : runs'[i].start = runs[i].start
        BY <1>3, <2>4, ResumeAfterFinish
      <3>3. window[p].start \in Int /\ window[p].end \in Int
        BY DEF TypeOK
      <3>4. RFC3339(window[p].start) \in Int /\ RFC3339(window[p].start) <= window[p].start
        BY <3>3, WholeSeconds
      <3>5. CASE x.updated > RFC3339(window[p].start)
        <4>1. SameContent(x) \/ x.updated >= window[p].end - Lag
          BY <2>1, <3>1, <3>5 DEF WalkFinds, Walking, Ahead
        <4>2. ASSUME x.updated >= window[p].end - Lag
              PROVE  x.updated > RFC3339(window[p].end - Overlap)
          <5>1. Overlap \in Nat
            BY ConstantsAssumption
          <5>2. window[p].end - Overlap \in Int /\ (window[p].end - Overlap) + Overlap <= window[p].end
            BY <3>3, <5>1
          <5>3. QED
            BY <2>2, <3>3, <4>2, <5>2, FreshIsAsked
        <4>3. QED
          BY <3>1, <3>2, <4>1, <4>2 DEF SameContent
      <3>6. CASE ~(x.updated > RFC3339(window[p].start))
        <4>1. ~(x.updated > window[p].start)
          BY <2>2, <3>3, <3>4, <3>6
        <4>2. PICK i \in Successes(runs) :
                 runs'[i].mode = "incremental" /\ x.updated > runs[i].start
          BY <3>2, <4>1 DEF Owed
        <4>3. Owed(x)
          <5>1. i \in DOMAIN runs
            BY <4>2 DEF Successes
          <5>2. runs'[i].mode = runs[i].mode
            BY <1>3, <5>1, ModeStays
          <5>3. QED
            BY <4>2, <5>2 DEF Owed
        <4>4. window[p].start = Resume
          BY <3>1, <4>2 DEF AnchorInv, OnlyIncremental, Resume
        <4>5. SameContent(x)
          BY <2>1, <3>6, <4>3, <4>4, RevisionByResume
        <4>6. QED
          BY <3>1, <4>5 DEF SameContent
      <3>7. QED
        BY <3>5, <3>6
    <2>5. QED
      BY <2>3, <2>4
  <1>4. ASSUME NEW y \in catalogue, Withdraw(y)
        PROVE  SameContent(x)' \/ x.updated > RFC3339(Resume')
    <2>1. catalogue' \subseteq catalogue /\ UNCHANGED <<runs, versions>>
      BY <1>4 DEF Withdraw
    <2>2. QED
      BY <2>1, RevisionByResume DEF Owed, SameContent, Resume
  <1>5. QED
    BY <1>1, <1>2, <1>3, <1>4, Steps

\* No revision is lost between two cycles of the schedulers, whatever fails and
\* however late a stamp becomes visible, as long as that is less than the safety
\* overlap, the source keeps what it serves in its order while a run asks for its
\* pages and the database does not end the session of the lock under a living
\* process: an event's revision some finished run was to collect is stored, or
\* the next run asks for it (ingestion/scheduler.go, usgs/ingest.go).  The
\* revision may tell another instant than the one it replaces.
THEOREM RevisionsAreKept ==
  ASSUME SessionLoss = FALSE, CommandMode \subseteq {"incremental"}, Lag < Overlap, Steady
  PROVE  Spec => []NoRevisionLost
  <1>1. Init => RevisionInv
    <2> SUFFICES ASSUME Init PROVE RevisionInv
      OBVIOUS
    <2>1. CoreInv /\ LockInv
      BY InitCoreInv, InitLockInv
    <2>2. runs = <<>> /\ DOMAIN runs = {} /\ Successes(runs) = {}
      BY EmptySeq, LenProperties DEF Init, Successes
    <2>3. SourceInv
      BY FS_EmptySet DEF Init, SourceInv
    <2>4. WindowInv
      BY <2>2 DEF Init, WindowInv
    <2>5. OnlyIncremental /\ AnchorInv /\ BatchFresh /\ WalkFinds /\ NoRevisionLost
      BY <2>2 DEF Init, OnlyIncremental, AnchorInv, BatchFresh, WalkFinds, Walking, NoRevisionLost
    <2>6. QED
      BY <2>1, <2>3, <2>4, <2>5 DEF RevisionInv
  <1>2. RevisionInv /\ [Next]_vars => RevisionInv'
    <2> SUFFICES ASSUME RevisionInv, [Next]_vars PROVE RevisionInv'
      OBVIOUS
    <2>1. CoreInv' /\ SourceInv' /\ WindowInv'
      BY NextCoreInv, NextSourceInv, NextWindowInv DEF RevisionInv, CoreInv
    <2>2. LockInv' /\ OnlyIncremental'
      BY NextLockInv, NextOnlyIncremental DEF RevisionInv, CoreInv
    <2>3. AnchorInv'
      <3>1. \A p \in Process : pc'[p] \in OpenCycle /\ Successes(runs') # {} =>
              /\ window'[p].start = Resume'
              /\ \A i \in Successes(runs') : runs'[i].end <= window'[p].end
        BY <2>1, NextAnchorInv DEF RevisionInv
      <3>2. QED
        BY <3>1 DEF AnchorInv, OpenCycle, Resume
    <2>4. BatchFresh'
      <3>1. \A p \in Process : Walking(p)' => \A y \in batch'[p], x \in catalogue' :
              x.event = y.event => x = y \/ x.updated >= window'[p].end - Lag
        BY NextBatchFresh DEF RevisionInv
      <3>2. QED
        BY <3>1 DEF BatchFresh
    <2>5. WalkFinds'
      <3>1. \A p \in Process : Walking(p)' => \A x \in catalogue' :
              x.content \notin Invalid /\ x.updated > RFC3339(window'[p].start) => Caught(p, x)'
        BY <2>1, NextWalkFinds DEF RevisionInv, CoreInv
      <3>2. QED
        BY <3>1 DEF WalkFinds, Caught
    <2>6. NoRevisionLost'
      <3>1. \A x \in catalogue' : x.content \notin Invalid /\ Owed(x)' =>
              SameContent(x)' \/ x.updated > RFC3339(Resume')
        BY <2>1, NextNoRevisionLost
      <3>2. \A x : Owed(x)' => Successes(runs') # {}
        BY DEF Owed
      <3>3. (Successes(runs) # {} => AnchorAt(clock) = Resume)'
        BY <2>1, AnchorIsResumeNow, PTL
      <3>4. QED
        BY <3>1, <3>2, <3>3 DEF NoRevisionLost
    <2>7. QED
      BY <2>1, <2>2, <2>3, <2>4, <2>5, <2>6 DEF RevisionInv
  <1>3. RevisionInv => NoRevisionLost
    BY DEF RevisionInv
  <1>4. QED
    BY <1>1, <1>2, <1>3, PTL DEF Spec
----------------------------------------------------------------------------
(* The anchor only moves on.                                               *)

LEMMA AnchorStep ==
  ASSUME CoreInv, CoreInv', [Next]_vars, Successes(runs) # {}
  PROVE  runs'[LastSuccess(runs')].end >= runs[LastSuccess(runs)].end
  <1> DEFINE k == LastSuccess(runs)
             l == LastSuccess(runs')
  <1>1. k \in Successes(runs) /\ k \in DOMAIN runs /\ runs[k].end \in Int
    BY FurthestEnd DEF CoreInv, Successes
  <1>2. CASE runs' = runs
    BY <1>1, <1>2
  <1>3. ASSUME NEW p \in Process, Step(p)
        PROVE  runs'[l].end >= runs[k].end
    <2>1. k \in Successes(runs') /\ runs'[k].end = runs[k].end
      <3> HIDE DEF k
      <3>1. Successes(runs) \subseteq Successes(runs')
        BY <1>3, StepOnRows
      <3>2. QED
        BY <1>1, <1>3, <3>1, StepOnRows
    <2>2. IsLastSuccess(runs', l)
      BY <2>1 DEF CoreInv, FurthestExists, LastSuccess
    <2>3. runs'[k].end < runs'[l].end \/ runs'[k].end = runs'[l].end
      BY <2>1, <2>2 DEF IsLastSuccess
    <2>4. runs'[l].end \in Int
      <3>1. l \in DOMAIN runs' /\ runs' \in Seq(Run)
        BY <2>2 DEF IsLastSuccess, Successes, CoreInv, TypeOK
      <3> HIDE DEF l
      <3>2. QED
        BY <3>1, RowTypes
    <2> HIDE DEF k, l
    <2>5. QED
      BY <1>1, <2>1, <2>3, <2>4
  <1>4. QED
    BY <1>2, <1>3, Steps DEF Tick, Publish, Withdraw, vars

\* What the anchor has passed is not asked for again, so it must not move back:
\* it does not, whatever the modes and windows of the runs that finish, in
\* whatever order they do (ingestion/run.go, LastSuccess).
THEOREM AnchorIsMonotone == Spec => AnchorNeverRegresses
  <1>1. CoreInv /\ CoreInv' /\ [Next]_vars =>
          [Successes(runs) # {} =>
             runs'[LastSuccess(runs')].end >= runs[LastSuccess(runs)].end]_runs
    BY AnchorStep
  <1>2. QED
    BY <1>1, CoreInvariance, PTL DEF Spec, AnchorNeverRegresses
============================================================================
