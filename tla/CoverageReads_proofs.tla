------------------------ MODULE CoverageReads_proofs ------------------------
(***************************************************************************)
(* Theorems about what the readers of the ledger say, for any number of    *)
(* runs over any windows: the gaps are exact, and an answer that calls its *)
(* window complete loses nothing that happened in it.                     *)
(***************************************************************************)
EXTENDS CoverageReads, Lists

Intervals == [start : Int, end : Int]

\* Lists of intervals none of which ends before it starts.
Proper(list) == list \in Seq(Intervals) /\ \A k \in DOMAIN list : list[k].start <= list[k].end

InOrder(list) == \A k, l \in DOMAIN list : k < l => list[k].start <= list[l].start

LEMMA IntervalsListed ==
  ASSUME NEW list \in Seq(Intervals)
  PROVE  \A k \in DOMAIN list : /\ list[k] \in Intervals
                                 /\ list[k].start \in Int /\ list[k].end \in Int
  <1>1. \A iv \in Intervals : iv.start \in Int /\ iv.end \in Int
    BY DEF Intervals
  <1>2. \A k \in DOMAIN list : list[k] \in Intervals
    OBVIOUS
  <1>3. QED
    BY <1>1, <1>2

LEMMA ProperMember ==
  ASSUME NEW list, Proper(list), NEW k \in 1..Len(list)
  PROVE  /\ list[k] \in Intervals /\ list[k].start \in Int /\ list[k].end \in Int
         /\ list[k].start <= list[k].end
         /\ list[k] = Interval(list[k].start, list[k].end)
         /\ Len(list) \in Nat /\ DOMAIN list = 1..Len(list)
  <1>1. Len(list) \in Nat /\ DOMAIN list = 1..Len(list) /\ list[k] \in Intervals
    BY DEF Proper
  <1>2. list[k].start <= list[k].end
    BY <1>1 DEF Proper
  <1>3. \A iv \in Intervals : /\ iv.start \in Int /\ iv.end \in Int
                             /\ iv = Interval(iv.start, iv.end)
    BY DEF Intervals, Interval
  <1>4. QED
    BY <1>1, <1>2, <1>3

LEMMA NoIndex ==
  ASSUME NEW S, NEW list \in Seq(S), DOMAIN list = {}
  PROVE  list = <<>>
  <1>1. Len(list) \in Nat /\ DOMAIN list = 1..Len(list)
    OBVIOUS
  <1>2. ~(1 <= Len(list))
    BY <1>1
  <1>3. Len(list) = 0
    BY <1>1, <1>2
  <1>4. QED
    BY <1>3

LEMMA LastOne ==
  ASSUME NEW m \in Nat \ {0}
  PROVE  /\ \A i \in 1..m : i = m \/ i \in 1..(m - 1)
         /\ \A i \in 1..(m - 1) : i # m /\ i \in 1..m
  OBVIOUS

\* Two stretches that meet, seen as one.
LEMMA Joined ==
  ASSUME NEW a \in Int, NEW b \in Int, NEW c \in Int, NEW d \in Int, a <= b, c <= d,
         a <= c, c <= b, NEW t \in Int, b <= t, d <= t, t = b \/ t = d
  PROVE  \A p \in Int : 2 * a <= p /\ p <= 2 * t <=> \/ 2 * a <= p /\ p <= 2 * b
                                                     \/ 2 * c <= p /\ p <= 2 * d
  OBVIOUS

----------------------------------------------------------------------------
(* mergeIntervals.                                                         *)

\* merged is what the loop has when it has seen the first k windows.
Merged(merged, list, k) ==
  /\ Proper(merged) /\ merged # <<>>
  /\ \A i, j \in DOMAIN merged : i < j => merged[i].end < merged[j].start
  /\ merged[Len(merged)].start <= list[k].start
  /\ \A p \in Int : (\E i \in 1..k : Inside(p, list[i]))
                    <=> (\E i \in DOMAIN merged : Inside(p, merged[i]))

LEMMA AbsorbKeeps ==
  ASSUME NEW list, Proper(list), InOrder(list),
         NEW k \in Nat \ {0}, k + 1 <= Len(list),
         NEW merged, Merged(merged, list, k)
  PROVE  Merged(Absorb(merged, list[k + 1]), list, k + 1)
  <1> DEFINE iv == list[k + 1]
             m == Len(merged)
             last == merged[m]
             out == Absorb(merged, iv)
  <1>1. k \in 1..Len(list) /\ k + 1 \in 1..Len(list) /\ DOMAIN list = 1..Len(list)
    BY DEF Proper
  <1>2. /\ iv \in Intervals /\ iv.start \in Int /\ iv.end \in Int /\ iv.start <= iv.end
        /\ list[k].start \in Int /\ list[k].start <= iv.start
    BY <1>1, ProperMember DEF InOrder
  <1>3. /\ m \in Nat \ {0} /\ merged \in Seq(Intervals) /\ DOMAIN merged = 1..m /\ m \in 1..m
        /\ m = Len(merged)
    BY DEF Merged, Proper
  <1> HIDE DEF m
  <1>4. \A i \in 1..m : /\ merged[i] \in Intervals /\ merged[i].start \in Int
                        /\ merged[i].end \in Int /\ merged[i].start <= merged[i].end
    BY <1>3, ProperMember DEF Merged
  <1>5. last.start <= iv.start
    BY <1>2, <1>3, <1>4 DEF Merged
  <1>6. \A i \in 1..(m - 1) : merged[i].end < last.start
    BY <1>3 DEF Merged
  <1>7. \A i, j \in 1..m : i < j => merged[i].end < merged[j].start
    BY <1>3 DEF Merged
  <1>8. \A p \in Int : (\E i \in 1..(k + 1) : Inside(p, list[i]))
                       <=> Inside(p, iv) \/ \E i \in 1..m : Inside(p, merged[i])
    <2>1. 1..(k + 1) = 1..k \cup {k + 1}
      OBVIOUS
    <2>2. QED
      BY <1>3, <2>1 DEF Merged
  <1> HIDE DEF iv, last
  <1>9. CASE iv.start > last.end
    <2>1. out = Append(merged, iv)
      BY <1>9 DEF Absorb, last, m
    <2>2. /\ out \in Seq(Intervals) /\ Len(out) = m + 1 /\ DOMAIN out = 1..(m + 1)
          /\ out[m + 1] = iv /\ \A i \in 1..m : out[i] = merged[i]
      BY <1>2, <1>3, <2>1
    <2> HIDE DEF out
    <2>3. \A i \in 1..m : merged[i].end < iv.start
      <3>1. \A i \in 1..(m - 1) : merged[i].end < iv.start
        <4>1. last.start \in Int
          BY <1>3, <1>4 DEF last
        <4>2. QED
          BY <1>2, <1>3, <1>4, <1>5, <1>6, <4>1
      <3>2. QED
        BY <1>3, <1>9, <3>1 DEF last
    <2>4. Proper(out)
      <3>1. ASSUME NEW i \in DOMAIN out PROVE out[i].start <= out[i].end
        <4>1. i = m + 1 \/ i \in 1..m
          BY <1>3, <2>2
        <4>2. QED
          BY <1>2, <1>4, <2>2, <4>1
      <3>2. QED
        BY <2>2, <3>1 DEF Proper
    <2>5. ASSUME NEW i \in DOMAIN out, NEW j \in DOMAIN out, i < j
          PROVE  out[i].end < out[j].start
      <3>1. i \in 1..m /\ (j = m + 1 \/ j \in 1..m)
        BY <1>3, <2>2, <2>5
      <3>2. QED
        BY <1>7, <2>2, <2>3, <2>5, <3>1
    <2>6. ASSUME NEW p \in Int
          PROVE  (\E i \in 1..(k + 1) : Inside(p, list[i]))
                 <=> (\E i \in DOMAIN out : Inside(p, out[i]))
      <3>1. 1..(m + 1) = 1..m \cup {m + 1}
        BY <1>3
      <3>2. (\E i \in DOMAIN out : Inside(p, out[i]))
            <=> Inside(p, iv) \/ \E i \in 1..m : Inside(p, merged[i])
        BY <2>2, <3>1
      <3>3. QED
        BY <1>8, <3>2
    <2>7. out # <<>> /\ out[Len(out)].start <= list[k + 1].start
      BY <1>2, <1>3, <2>2 DEF iv
    <2>8. QED
      BY <2>4, <2>5, <2>6, <2>7 DEF Merged, out, iv
  <1>10. CASE ~(iv.start > last.end)
    <2> DEFINE top == IF iv.end > last.end THEN iv.end ELSE last.end
               new == Interval(last.start, top)
    <2>1. last \in Intervals /\ last.start \in Int /\ last.end \in Int /\ last.start <= last.end
      BY <1>3, <1>4 DEF last
    <2>2. out = [merged EXCEPT ![m] = new]
      <3>1. CASE iv.end > last.end
        <4>1. out = [merged EXCEPT ![m].end = iv.end]
          BY <1>10, <3>1 DEF Absorb, last, m
        <4>2. [last EXCEPT !.end = iv.end] = Interval(last.start, iv.end)
          BY <1>2, <2>1 DEF Interval, Intervals
        <4>3. QED
          BY <1>3, <3>1, <4>1, <4>2 DEF last
      <3>2. CASE ~(iv.end > last.end)
        <4>1. out = merged
          BY <1>10, <3>2 DEF Absorb, last, m
        <4>2. last = Interval(last.start, last.end)
          BY <2>1 DEF Interval, Intervals
        <4>3. QED
          BY <1>3, <3>2, <4>1, <4>2 DEF last
      <3>3. QED
        BY <3>1, <3>2
    <2>3. /\ new \in Intervals /\ new.start = last.start /\ new.end = top /\ top \in Int
          /\ last.end <= top /\ iv.end <= top /\ (top = last.end \/ top = iv.end)
      BY <1>2, <2>1 DEF Interval, Intervals
    <2> HIDE DEF new, top
    <2>4. /\ out \in Seq(Intervals) /\ Len(out) = m /\ DOMAIN out = 1..m
          /\ out[m] = new /\ \A i \in 1..(m - 1) : out[i] = merged[i]
      <3>1. out \in Seq(Intervals) /\ Len(out) = m
        BY <1>3, <2>2, <2>3
      <3>2. DOMAIN out = 1..m /\ out[m] = new
        BY <1>3, <2>2
      <3>3. \A i \in 1..(m - 1) : i # m /\ i \in 1..m
        BY <1>3, LastOne
      <3>4. \A i \in 1..(m - 1) : out[i] = merged[i]
        BY <1>3, <2>2, <3>3
      <3>5. QED
        BY <3>1, <3>2, <3>4
    <2> HIDE DEF out
    <2>5. \A i \in 1..m : i = m \/ i \in 1..(m - 1)
      BY <1>3, LastOne
    <2>6. Proper(out)
      <3>1. ASSUME NEW i \in DOMAIN out PROVE out[i].start <= out[i].end
        <4>1. CASE i = m
          BY <2>1, <2>3, <2>4, <4>1
        <4>2. CASE i \in 1..(m - 1)
          BY <1>3, <1>4, <2>4, <4>2
        <4>3. QED
          BY <2>4, <2>5, <4>1, <4>2
      <3>2. QED
        BY <2>4, <3>1 DEF Proper
    <2>7. ASSUME NEW i \in DOMAIN out, NEW j \in DOMAIN out, i < j
          PROVE  out[i].end < out[j].start
      <3>1. i \in 1..(m - 1) /\ (j = m \/ j \in 1..(m - 1)) /\ i \in 1..m /\ j \in 1..m
        BY <1>3, <2>4, <2>7
      <3>2. QED
        BY <1>6, <1>7, <2>3, <2>4, <2>7, <3>1
    <2>8. \A p \in Int : Inside(p, new) <=> Inside(p, last) \/ Inside(p, iv)
      <3>2. iv.start <= last.end
        BY <1>2, <1>10, <2>1
      <3>3. \A p \in Int : 2 * last.start <= p /\ p <= 2 * top
                            <=> \/ 2 * last.start <= p /\ p <= 2 * last.end
                                \/ 2 * iv.start <= p /\ p <= 2 * iv.end
        BY <1>2, <1>5, <2>1, <2>3, <3>2, Joined
      <3>4. QED
        BY <2>3, <3>3 DEF Inside
    <2>9. ASSUME NEW p \in Int
          PROVE  (\E i \in 1..(k + 1) : Inside(p, list[i]))
                 <=> (\E i \in DOMAIN out : Inside(p, out[i]))
      <3>1. 1..m = 1..(m - 1) \cup {m}
        BY <1>3
      <3>2. (\E i \in DOMAIN out : Inside(p, out[i]))
            <=> Inside(p, new) \/ \E i \in 1..(m - 1) : Inside(p, merged[i])
        BY <2>4, <3>1
      <3>3. (\E i \in 1..m : Inside(p, merged[i]))
            <=> Inside(p, last) \/ \E i \in 1..(m - 1) : Inside(p, merged[i])
        BY <3>1 DEF last
      <3>4. QED
        BY <1>8, <2>8, <3>2, <3>3
    <2>10. out # <<>> /\ out[Len(out)].start <= list[k + 1].start
      BY <1>3, <1>5, <2>3, <2>4 DEF iv
    <2>11. QED
      BY <2>6, <2>7, <2>9, <2>10 DEF Merged, out, iv
  <1>11. QED
    BY <1>9, <1>10
NonEmpty == Seq(Intervals) \ {<<>>}

LEMMA AbsorbType ==
  ASSUME NEW merged \in NonEmpty, NEW iv \in Intervals
  PROVE  Absorb(merged, iv) \in NonEmpty
  <1> DEFINE m == Len(merged)
  <1>1. m \in Nat \ {0} /\ merged \in Seq(Intervals) /\ m \in DOMAIN merged /\ merged # <<>>
    BY DEF NonEmpty
  <1>2. Append(merged, iv) \in NonEmpty
    BY <1>1 DEF NonEmpty
  <1>3. [merged EXCEPT ![m].end = iv.end] \in NonEmpty
    <2> DEFINE new == [merged[m] EXCEPT !.end = iv.end]
    <2>1. merged[m] \in Intervals
      BY <1>1
    <2>2. new \in Intervals
      BY <2>1 DEF Intervals
    <2>3. [merged EXCEPT ![m].end = iv.end] = [merged EXCEPT ![m] = new]
      OBVIOUS
    <2> HIDE DEF new, m
    <2>4. [merged EXCEPT ![m] = new] \in Seq(Intervals) /\ [merged EXCEPT ![m] = new] # <<>>
      BY <1>1, <2>2
    <2>5. QED
      BY <2>3, <2>4 DEF NonEmpty
  <1>4. QED
    BY <1>2, <1>3 DEF Absorb

AbsorbAll(base, list) == FoldLeft(Absorb, base, list)

\* The fold of Absorb, one window after the other.
LEMMA AbsorbFold ==
  ASSUME NEW list \in Seq(Intervals), NEW base \in NonEmpty, NEW n, n = Len(list)
  PROVE  \E acc : /\ acc[0] = base
                  /\ \A k \in 0..(n - 1) : acc[k + 1] = Absorb(acc[k], list[k + 1])
                  /\ AbsorbAll(base, list) = acc[n]
  <1> DEFINE step == [a \in NonEmpty \X (1..n) |-> Absorb(a[1], list[a[2]])]
             g == CHOOSE f : f = [s \in SUBSET (1..n) |->
                                    IF s = {} THEN base ELSE Absorb(f[s \ {Max(s)}], list[Max(s)])]
             acc == [k \in 0..n |-> g[1..k]]
  <1>1. n \in Nat /\ DOMAIN list = 1..n /\ \A k \in 1..n : list[k] \in Intervals
    OBVIOUS
  <1>2. step \in [NonEmpty \X (1..n) -> NonEmpty]
    BY <1>1, AbsorbType
  <1>3. \A a \in NonEmpty, k \in 1..n : step[<<a, k>>] = Absorb(a, list[k])
    OBVIOUS
  <1> HIDE DEF step
  <1>4. PICK f \in [SUBSET (1..n) -> NonEmpty] : IsFold(f, base, step, n)
    BY <1>1, <1>2, FoldExists
  <1>5. f = [s \in SUBSET (1..n) |->
               IF s = {} THEN base ELSE Absorb(f[s \ {Max(s)}], list[Max(s)])]
    <2>1. ASSUME NEW s \in SUBSET (1..n), s # {}
          PROVE  step[<<f[s \ {Max(s)}], Max(s)>>] = Absorb(f[s \ {Max(s)}], list[Max(s)])
      <3>1. Max(s) \in 1..n
        BY <1>1, <2>1, MaxInside
      <3>2. f[s \ {Max(s)}] \in NonEmpty
        OBVIOUS
      <3>3. QED
        BY <1>3, <3>1, <3>2
    <2>2. QED
      BY <1>4, <2>1 DEF IsFold
  <1>6. g = [s \in SUBSET (1..n) |->
               IF s = {} THEN base ELSE Absorb(g[s \ {Max(s)}], list[Max(s)])]
    BY <1>5
  <1>7. AbsorbAll(base, list) = g[1..n]
    <2>1. AbsorbAll(base, list)
            = (CHOOSE f_1 : f_1 = [s \in SUBSET DOMAIN list |->
                 IF s = {} THEN base ELSE Absorb(f_1[s \ {Max(s)}], list[Max(s)])])[DOMAIN list]
      BY Zenon DEF AbsorbAll, FoldLeft, MapThenFoldSet
    <2>2. QED
      BY <1>1, <2>1
  <1> HIDE DEF g
  <1>8. acc[0] = base
    <2>1. 1..0 = {} /\ 0 \in 0..n /\ {} \in SUBSET (1..n)
      BY <1>1
    <2>2. QED
      BY <1>6, <2>1
  <1>9. ASSUME NEW k \in 0..(n - 1)
        PROVE  acc[k + 1] = Absorb(acc[k], list[k + 1])
    <2>1. k \in Nat /\ k \in 0..n /\ k + 1 \in 0..n /\ 1..(k + 1) \in SUBSET (1..n)
      BY <1>1
    <2>2. /\ 1..(k + 1) # {} /\ Max(1..(k + 1)) = k + 1
          /\ (1..(k + 1)) \ {k + 1} = 1..k
      BY <2>1, MaxOfPrefix
    <2>3. g[1..(k + 1)] = Absorb(g[1..k], list[k + 1])
      BY <1>6, <2>1, <2>2
    <2>4. QED
      BY <2>1, <2>3
  <1>10. acc[n] = g[1..n]
    BY <1>1
  <1> HIDE DEF acc
  <1>11. QED
    BY <1>7, <1>8, <1>9, <1>10

LEMMA MergedAll ==
  ASSUME NEW list, Proper(list), InOrder(list), list # <<>>
  PROVE  Merged(MergeIntervals(list), list, Len(list))
  <1> DEFINE base == <<Head(list)>>
             tail == Tail(list)
             n == Len(tail)
  <1>1. /\ list \in Seq(Intervals) /\ Len(list) \in Nat \ {0} /\ Head(list) = list[1]
        /\ list[1] \in Intervals /\ tail \in Seq(Intervals) /\ n = Len(list) - 1
        /\ \A k \in 1..n : tail[k] = list[k + 1]
    BY DEF Proper
  <1>2. base \in Seq(Intervals) /\ Len(base) = 1 /\ base[1] = list[1] /\ base # <<>>
    BY <1>1
  <1> HIDE DEF base
  <1>3. base \in NonEmpty
    BY <1>2 DEF NonEmpty
  <1>n. n = Len(tail) /\ tail \in Seq(Intervals)
    BY <1>1
  <1> HIDE DEF tail, n
  <1>4. PICK acc : /\ acc[0] = base
                   /\ \A k \in 0..(n - 1) : acc[k + 1] = Absorb(acc[k], tail[k + 1])
                   /\ AbsorbAll(base, tail) = acc[n]
    BY <1>3, <1>n, AbsorbFold
  <1> DEFINE T == {k \in Nat : k <= n => Merged(acc[k], list, k + 1)}
  <1>5. 0 \in T
    <2>1. 1 \in DOMAIN list /\ list[1].start \in Int /\ list[1].start <= list[1].end
      BY <1>1, ProperMember
    <2>2. DOMAIN base = 1..1 /\ 1..1 = {1}
      BY <1>2
    <2>3. Proper(base)
      BY <1>2, <2>1, <2>2 DEF Proper
    <2>4. \A i, j \in DOMAIN base : ~(i < j)
      BY <2>2
    <2>5. base[Len(base)].start <= list[1].start
      BY <1>2, <2>1
    <2>6. \A p \in Int : (\E i \in 1..1 : Inside(p, list[i]))
                         <=> (\E i \in DOMAIN base : Inside(p, base[i]))
      BY <1>2, <2>2
    <2>7. Merged(base, list, 1)
      BY <1>2, <2>3, <2>4, <2>5, <2>6 DEF Merged
    <2>8. QED
      BY <1>4, <2>7
  <1>6. \A k \in Nat : k \in T => k + 1 \in T
    <2>1. SUFFICES ASSUME NEW k \in Nat, k + 1 <= n, Merged(acc[k], list, k + 1)
                   PROVE  Merged(acc[k + 1], list, k + 1 + 1)
      BY <1>1
    <2>2. k \in 0..(n - 1) /\ k + 1 \in 1..n /\ k + 1 \in Nat \ {0} /\ k + 1 + 1 <= Len(list)
      BY <1>1, <2>1
    <2>3. acc[k + 1] = Absorb(acc[k], list[k + 1 + 1])
      BY <1>1, <1>4, <2>2
    <2>4. QED
      BY <2>1, <2>2, <2>3, AbsorbKeeps
  <1> HIDE DEF T
  <1>7. n \in T
    BY <1>1, <1>5, <1>6, CountedUp
  <1>8. Merged(acc[n], list, Len(list))
    BY <1>1, <1>7 DEF T
  <1>9. MergeIntervals(list) = AbsorbAll(base, tail)
    BY Zenon DEF MergeIntervals, AbsorbAll, base, tail
  <1>10. QED
    BY <1>4, <1>8, <1>9
----------------------------------------------------------------------------
(* subtract.                                                               *)

\* Intervals that do not touch, one after the other.
Apart(merged) ==
  /\ Proper(merged)
  /\ \A i, j \in DOMAIN merged : i < j => merged[i].end < merged[j].start

Cover(merged, p) == \E i \in DOMAIN merged : Inside(p, merged[i])

\* The gaps of [s, e]: in order, none empty.
GapsWithin(gaps, s, e) ==
  /\ gaps \in Seq(Intervals)
  /\ \A i \in DOMAIN gaps : s <= gaps[i].start /\ gaps[i].start < gaps[i].end /\ gaps[i].end <= e
  /\ \A i, j \in DOMAIN gaps : i < j => gaps[i].end <= gaps[j].start

InGap(gaps, p) == \E i \in DOMAIN gaps : StrictlyInside(p, gaps[i])

Swept == [cursor : Int, gaps : Seq(Intervals)]

\* acc is what the loop has when it has seen the first k merged intervals:
\* up to the cursor, what is in no gap is covered.
SweptTo(acc, merged, s, e, k) ==
  /\ acc \in Swept
  /\ s <= acc.cursor
  /\ GapsWithin(acc.gaps, s, e)
  /\ \A i \in DOMAIN acc.gaps : acc.gaps[i].end <= acc.cursor
  /\ \A p \in Int : 2 * s < p /\ p < 2 * e /\ p <= 2 * acc.cursor
                    => (Cover(merged, p) <=> ~InGap(acc.gaps, p))
  /\ acc.cursor >= e \/ \A i \in 1..k : merged[i].end <= acc.cursor

\* One more gap at the end.
LEMMA GapAdded ==
  ASSUME NEW s \in Int, NEW e \in Int, NEW gaps, GapsWithin(gaps, s, e),
         NEW from \in Int, NEW to \in Int, s <= from, from < to, to <= e,
         \A i \in DOMAIN gaps : gaps[i].end <= from
  PROVE  LET more == Append(gaps, Interval(from, to))
         IN  /\ GapsWithin(more, s, e)
             /\ \A i \in DOMAIN more : more[i].end <= to
             /\ \A p \in Int : InGap(more, p) <=> InGap(gaps, p) \/ (2 * from < p /\ p < 2 * to)
  <1> DEFINE g == Interval(from, to)
             more == Append(gaps, g)
             n == Len(gaps)
  <1>1. g \in Intervals /\ g.start = from /\ g.end = to
    BY DEF Interval, Intervals
  <1> HIDE DEF g
  <1>2. gaps \in Seq(Intervals) /\ n \in Nat /\ DOMAIN gaps = 1..n /\ n = Len(gaps)
    BY DEF GapsWithin
  <1>3. /\ more \in Seq(Intervals) /\ DOMAIN more = 1..(n + 1)
        /\ more[n + 1] = g /\ \A i \in 1..n : more[i] = gaps[i]
    BY <1>1, <1>2
  <1>4. \A i \in 1..n : /\ gaps[i].start \in Int /\ gaps[i].end \in Int
                        /\ s <= gaps[i].start /\ gaps[i].start < gaps[i].end
                        /\ gaps[i].end <= from
    <2>1. \A i \in 1..n : gaps[i].start \in Int /\ gaps[i].end \in Int
      BY <1>2, IntervalsListed
    <2>2. QED
      BY <1>2, <2>1 DEF GapsWithin
  <1> HIDE DEF more, n
  <1>5. 1..(n + 1) = 1..n \cup {n + 1} /\ \A i \in 1..n : i < n + 1
    BY <1>2
  <1>6. \A i \in DOMAIN more : /\ s <= more[i].start /\ more[i].start < more[i].end
                               /\ more[i].end <= to
    <2>1. ASSUME NEW i \in 1..n
          PROVE  s <= more[i].start /\ more[i].start < more[i].end /\ more[i].end <= to
      BY <1>3, <1>4
    <2>2. s <= more[n + 1].start /\ more[n + 1].start < more[n + 1].end /\ more[n + 1].end <= to
      BY <1>1, <1>3
    <2>3. QED
      BY <1>3, <1>5, <2>1, <2>2
  <1>7. ASSUME NEW i \in DOMAIN more, NEW j \in DOMAIN more, i < j
        PROVE  more[i].end <= more[j].start
    <2>1. i \in 1..n /\ (j \in 1..n \/ j = n + 1)
      BY <1>2, <1>3, <1>7
    <2>2. CASE j \in 1..n
      BY <1>2, <1>3, <1>7, <2>1, <2>2 DEF GapsWithin
    <2>3. CASE j = n + 1
      BY <1>1, <1>3, <1>4, <2>1, <2>3
    <2>4. QED
      BY <2>1, <2>2, <2>3
  <1>8. \A i \in DOMAIN more : more[i].end <= e
    <2>1. \A i \in DOMAIN more : more[i].end \in Int
      BY <1>3, IntervalsListed
    <2>2. QED
      BY <1>6, <2>1
  <1>9. GapsWithin(more, s, e)
    BY <1>3, <1>6, <1>7, <1>8 DEF GapsWithin
  <1>10. ASSUME NEW p \in Int
         PROVE  InGap(more, p) <=> InGap(gaps, p) \/ (2 * from < p /\ p < 2 * to)
    <2>1. StrictlyInside(p, g) <=> 2 * from < p /\ p < 2 * to
      BY <1>1 DEF StrictlyInside
    <2>2. InGap(more, p) <=> (\E i \in 1..n : StrictlyInside(p, gaps[i])) \/ StrictlyInside(p, g)
      BY <1>3, <1>5 DEF InGap
    <2>3. QED
      BY <1>2, <2>1, <2>2 DEF InGap
  <1>11. QED
    BY <1>6, <1>9, <1>10 DEF more, g

\* Nothing beyond the cursor is in a gap yet.
LEMMA GapsBehind ==
  ASSUME NEW s \in Int, NEW e \in Int, NEW gaps, GapsWithin(gaps, s, e),
         NEW c \in Int, \A i \in DOMAIN gaps : gaps[i].end <= c
  PROVE  \A p \in Int : 2 * c <= p => ~InGap(gaps, p)
  <1>1. \A i \in DOMAIN gaps : gaps[i].end \in Int
    BY IntervalsListed DEF GapsWithin
  <1>2. QED
    BY <1>1 DEF InGap, StrictlyInside

LEMMA SweepKeeps ==
  ASSUME NEW merged, Apart(merged), NEW s \in Int, NEW e \in Int,
         NEW k \in Nat, k + 1 <= Len(merged),
         NEW acc, SweptTo(acc, merged, s, e, k)
  PROVE  SweptTo(Sweep(acc, merged[k + 1], e), merged, s, e, k + 1)
  <1> DEFINE iv == merged[k + 1]
             c == acc.cursor
             G == acc.gaps
             n == Len(merged)
             out == Sweep(acc, iv, e)
             gapEnd == IF iv.start > e THEN e ELSE iv.start
             more == IF gapEnd > c THEN Append(G, Interval(c, gapEnd)) ELSE G
  <1>1. n \in Nat /\ DOMAIN merged = 1..n /\ k + 1 \in 1..n
    BY DEF Apart, Proper
  <1>2. \A i \in 1..n : /\ merged[i].start \in Int /\ merged[i].end \in Int
                        /\ merged[i].start <= merged[i].end
    BY ProperMember DEF Apart
  <1>3. iv.start \in Int /\ iv.end \in Int /\ iv.start <= iv.end
    BY <1>1, <1>2
  <1>4. /\ c \in Int /\ G \in Seq(Intervals) /\ s <= c /\ GapsWithin(G, s, e)
        /\ \A i \in DOMAIN G : G[i].end <= c
    BY DEF SweptTo, Swept
  <1>5. \A p \in Int : 2 * s < p /\ p < 2 * e /\ p <= 2 * c => (Cover(merged, p) <=> ~InGap(G, p))
    BY DEF SweptTo
  <1>6. c >= e \/ \A i \in 1..k : merged[i].end <= c
    BY DEF SweptTo
  <1>7. 1..(k + 1) = 1..k \cup {k + 1}
    OBVIOUS
  <1>8. CASE c >= e \/ iv.end <= c
    <2>1. out = acc
      BY <1>8 DEF Sweep
    <2>2. c >= e \/ \A i \in 1..(k + 1) : merged[i].end <= c
      BY <1>6, <1>7, <1>8
    <2> HIDE DEF out
    <2>3. QED
      BY <2>1, <2>2 DEF SweptTo, out
  <1>9. CASE ~(c >= e \/ iv.end <= c)
    <2>1. out = [cursor |-> iv.end, gaps |-> more]
      BY <1>9 DEF Sweep
    <2>2. c < e /\ c < iv.end /\ \A i \in 1..k : merged[i].end <= c
      BY <1>3, <1>4, <1>6, <1>9
    <2>3. gapEnd \in Int /\ gapEnd <= e /\ gapEnd <= iv.start /\ (gapEnd = e \/ gapEnd = iv.start)
      BY <1>3
    <2> HIDE DEF gapEnd
    \* What is covered between the cursor and the end of iv is covered by iv.
    <2>4. ASSUME NEW p \in Int, 2 * c < p, p <= 2 * iv.end
          PROVE  Cover(merged, p) <=> 2 * iv.start <= p
      <3>1. CASE 2 * iv.start <= p
        <4>1. Inside(p, iv)
          BY <2>4, <3>1 DEF Inside
        <4>2. QED
          BY <1>1, <3>1, <4>1 DEF Cover
      <3>2. CASE p < 2 * iv.start
        <4>1. ASSUME NEW i \in 1..n, Inside(p, merged[i]) PROVE FALSE
          <5>1. 2 * merged[i].start <= p /\ p <= 2 * merged[i].end
            BY <4>1 DEF Inside
          <5>2. CASE i \in 1..k
            <6>1. merged[i].end <= c /\ merged[i].end \in Int
              BY <1>2, <2>2, <5>2
            <6> HIDE DEF c
            <6>2. c \in Int
              BY <1>4
            <6>3. QED
              BY <2>4, <5>1, <6>1, <6>2
          <5>3. CASE i = k + 1
            BY <1>3, <3>2, <5>1, <5>3
          <5>4. CASE k + 1 < i
            <6>1. iv.end < merged[i].start
              BY <1>1, <5>4 DEF Apart
            <6>2. QED
              BY <1>2, <1>3, <2>4, <5>1, <6>1
          <5>5. QED
            BY <1>1, <5>2, <5>3, <5>4
        <4>2. QED
          BY <1>1, <1>3, <3>2, <4>1 DEF Cover
      <3>3. QED
        BY <1>3, <3>1, <3>2
    <2>5. /\ GapsWithin(more, s, e)
          /\ \A i \in DOMAIN more : more[i].end <= iv.end
          /\ \A p \in Int : InGap(more, p) <=> InGap(G, p) \/ (2 * c < p /\ p < 2 * gapEnd)
      <3>1. CASE gapEnd > c
        <4>1. more = Append(G, Interval(c, gapEnd))
          BY <3>1
        <4>2. c < gapEnd
          BY <1>4, <2>3, <3>1
        <4> HIDE DEF more, G, c
        <4>3. /\ GapsWithin(more, s, e)
              /\ \A i \in DOMAIN more : more[i].end <= gapEnd
              /\ \A p \in Int : InGap(more, p) <=> InGap(G, p) \/ (2 * c < p /\ p < 2 * gapEnd)
          BY <1>4, <2>3, <4>1, <4>2, GapAdded
        <4>4. \A i \in DOMAIN more : more[i].end \in Int
          BY <4>3, IntervalsListed DEF GapsWithin
        <4>5. \A i \in DOMAIN more : more[i].end <= iv.end
          BY <1>3, <2>3, <4>3, <4>4
        <4>6. QED
          BY <4>3, <4>5
      <3>2. CASE ~(gapEnd > c)
        <4>1. more = G
          BY <3>2
        <4>2. \A i \in DOMAIN G : G[i].end \in Int
          BY <1>4, IntervalsListed
        <4> HIDE DEF more
        <4>3. \A i \in DOMAIN G : G[i].end <= iv.end
          BY <1>3, <1>4, <2>2, <4>2
        <4>4. \A p \in Int : ~(2 * c < p /\ p < 2 * gapEnd)
          BY <1>4, <2>3, <3>2
        <4>5. QED
          BY <1>4, <4>1, <4>3, <4>4
      <3>3. QED
        BY <3>1, <3>2
    <2>6. more \in Seq(Intervals)
      BY <2>5 DEF GapsWithin
    <2> HIDE DEF more, out
    <2>7. out \in Swept /\ out.cursor = iv.end /\ out.gaps = more
      BY <1>3, <2>1, <2>6 DEF Swept
    <2>8. ASSUME NEW p \in Int, 2 * s < p, p < 2 * e, p <= 2 * iv.end
          PROVE  Cover(merged, p) <=> ~InGap(more, p)
      <3>1. CASE p <= 2 * c
        BY <1>4, <1>5, <2>5, <2>8, <3>1
      <3>2. CASE 2 * c < p
        <4> HIDE DEF c, G, iv
        <4>1. ~InGap(G, p)
          BY <1>4, <3>2, GapsBehind
        <4>2. Cover(merged, p) <=> 2 * iv.start <= p
          BY <2>4, <2>8, <3>2
        <4>3. p < 2 * gapEnd <=> p < 2 * iv.start
          BY <1>3, <2>3, <2>8
        <4>4. QED
          BY <1>3, <2>5, <3>2, <4>1, <4>2, <4>3
      <3>3. QED
        BY <1>4, <3>1, <3>2
    <2>9. \A i \in 1..(k + 1) : merged[i].end <= iv.end
      <3>1. \A i \in 1..k : i \in 1..n
        BY <1>1
      <3>2. \A i \in 1..k : merged[i].end <= iv.end
        BY <1>2, <1>3, <1>4, <2>2, <3>1
      <3>3. QED
        BY <1>3, <1>7, <3>2
    <2>10. s <= iv.end
      BY <1>3, <1>4, <2>2
    <2>11. SweptTo(out, merged, s, e, k + 1)
      BY <2>5, <2>7, <2>8, <2>9, <2>10 DEF SweptTo
    <2>12. QED
      BY <2>11 DEF out
  <1>10. QED
    BY <1>8, <1>9
LEMMA SweepType ==
  ASSUME NEW acc \in Swept, NEW iv \in Intervals, NEW e \in Int
  PROVE  Sweep(acc, iv, e) \in Swept
  <1> DEFINE gapEnd == IF iv.start > e THEN e ELSE iv.start
             c == acc.cursor
             more == IF gapEnd > c THEN Append(acc.gaps, Interval(c, gapEnd)) ELSE acc.gaps
  <1>1. c \in Int /\ acc.gaps \in Seq(Intervals) /\ gapEnd \in Int /\ iv.end \in Int
    BY DEF Swept, Intervals
  <1> HIDE DEF gapEnd, c
  <1>2. Interval(c, gapEnd) \in Intervals
    BY <1>1 DEF Interval, Intervals
  <1>3. more \in Seq(Intervals)
    BY <1>1, <1>2
  <1> HIDE DEF more
  <1>4. [cursor |-> iv.end, gaps |-> more] \in Swept
    BY <1>1, <1>3 DEF Swept
  <1>5. Sweep(acc, iv, e) = IF c >= e \/ iv.end <= c
                            THEN acc ELSE [cursor |-> iv.end, gaps |-> more]
    BY DEF Sweep, more, gapEnd, c
  <1>6. QED
    BY <1>4, <1>5

SweepAll(s, e, merged) ==
  LET step(acc, iv) == Sweep(acc, iv, e)
  IN  FoldLeft(step, [cursor |-> s, gaps |-> <<>>], merged)

\* acc holds what the loop has after each interval.
SweepSteps(acc, list, s, e) ==
  /\ acc[0] = [cursor |-> s, gaps |-> <<>>]
  /\ \A k \in 0..(Len(list) - 1) : acc[k + 1] = Sweep(acc[k], list[k + 1], e)
  /\ SweepAll(s, e, list) = acc[Len(list)]

\* The fold of Sweep, one merged interval after the other.
LEMMA SweepFold ==
  ASSUME NEW list \in Seq(Intervals), NEW s \in Int, NEW e \in Int
  PROVE  \E acc : SweepSteps(acc, list, s, e)
  <1> DEFINE n == Len(list)
             base == [cursor |-> s, gaps |-> <<>>]
             step == [a \in Swept \X (1..n) |-> Sweep(a[1], list[a[2]], e)]
             g == CHOOSE f : f = [t \in SUBSET (1..n) |->
                                    IF t = {} THEN base ELSE Sweep(f[t \ {Max(t)}], list[Max(t)], e)]
             acc == [k \in 0..n |-> g[1..k]]
  <1>1. n \in Nat /\ DOMAIN list = 1..n /\ \A k \in 1..n : list[k] \in Intervals
    OBVIOUS
  <1>2. step \in [Swept \X (1..n) -> Swept]
    BY <1>1, SweepType
  <1>3. \A a \in Swept, k \in 1..n : step[<<a, k>>] = Sweep(a, list[k], e)
    OBVIOUS
  <1>4. base \in Swept
    BY DEF Swept
  <1> HIDE DEF step, base
  <1>5. PICK f \in [SUBSET (1..n) -> Swept] : IsFold(f, base, step, n)
    BY <1>1, <1>2, <1>4, FoldExists
  <1>6. f = [t \in SUBSET (1..n) |->
               IF t = {} THEN base ELSE Sweep(f[t \ {Max(t)}], list[Max(t)], e)]
    <2>1. ASSUME NEW t \in SUBSET (1..n), t # {}
          PROVE  step[<<f[t \ {Max(t)}], Max(t)>>] = Sweep(f[t \ {Max(t)}], list[Max(t)], e)
      <3>1. Max(t) \in 1..n
        BY <1>1, <2>1, MaxInside
      <3>2. f[t \ {Max(t)}] \in Swept
        OBVIOUS
      <3>3. QED
        BY <1>3, <3>1, <3>2
    <2>2. QED
      BY <1>5, <2>1 DEF IsFold
  <1>7. g = [t \in SUBSET (1..n) |->
               IF t = {} THEN base ELSE Sweep(g[t \ {Max(t)}], list[Max(t)], e)]
    BY <1>6
  <1>8. SweepAll(s, e, list) = g[1..n]
    <2>1. SweepAll(s, e, list)
            = (CHOOSE f_1 : f_1 = [t \in SUBSET DOMAIN list |->
                 IF t = {} THEN base ELSE Sweep(f_1[t \ {Max(t)}], list[Max(t)], e)])[DOMAIN list]
      BY Zenon DEF SweepAll, FoldLeft, MapThenFoldSet, base
    <2>2. QED
      BY <1>1, <2>1
  <1> HIDE DEF g
  <1>9. acc[0] = base
    <2>1. 1..0 = {} /\ 0 \in 0..n /\ {} \in SUBSET (1..n)
      BY <1>1
    <2>2. QED
      BY <1>7, <2>1
  <1>10. ASSUME NEW k \in 0..(n - 1)
         PROVE  acc[k + 1] = Sweep(acc[k], list[k + 1], e)
    <2>1. k \in Nat /\ k \in 0..n /\ k + 1 \in 0..n /\ 1..(k + 1) \in SUBSET (1..n)
      BY <1>1
    <2>2. /\ 1..(k + 1) # {} /\ Max(1..(k + 1)) = k + 1
          /\ (1..(k + 1)) \ {k + 1} = 1..k
      BY <2>1, MaxOfPrefix
    <2>3. g[1..(k + 1)] = Sweep(g[1..k], list[k + 1], e)
      BY <1>7, <2>1, <2>2
    <2>4. QED
      BY <2>1, <2>3
  <1>11. acc[n] = g[1..n]
    BY <1>1
  <1> HIDE DEF acc
  <1>12. QED
    BY <1>8, <1>9, <1>10, <1>11 DEF base, SweepSteps

LEMMA SweptAll ==
  ASSUME NEW merged, Apart(merged), NEW s \in Int, NEW e \in Int
  PROVE  SweptTo(SweepAll(s, e, merged), merged, s, e, Len(merged))
  <1> DEFINE n == Len(merged)
             base == [cursor |-> s, gaps |-> <<>>]
  <1>1. merged \in Seq(Intervals) /\ n \in Nat /\ n = Len(merged)
    BY DEF Apart, Proper
  <1> HIDE DEF n
  <1>2. PICK acc : /\ acc[0] = base
                   /\ \A k \in 0..(n - 1) : acc[k + 1] = Sweep(acc[k], merged[k + 1], e)
                   /\ SweepAll(s, e, merged) = acc[n]
    BY <1>1, SweepFold DEF SweepSteps
  <1> DEFINE T == {k \in Nat : k <= n => SweptTo(acc[k], merged, s, e, k)}
  <1>3. SweptTo(base, merged, s, e, 0)
    <2>1. /\ base \in Swept /\ base.cursor = s /\ base.gaps = <<>>
          /\ base.gaps \in Seq(Intervals) /\ DOMAIN base.gaps = {}
      BY DEF Swept
    <2> HIDE DEF base
    <2>2. GapsWithin(base.gaps, s, e)
      BY <2>1 DEF GapsWithin
    <2>3. \A p \in Int : ~(2 * s < p /\ p <= 2 * base.cursor)
      BY <2>1
    <2>4. \A i \in 1..0 : FALSE
      OBVIOUS
    <2>5. QED
      BY <2>1, <2>2, <2>3, <2>4 DEF SweptTo
  <1> HIDE DEF base
  <1>4. 0 \in T
    BY <1>2, <1>3
  <1>5. \A k \in Nat : k \in T => k + 1 \in T
    <2>1. SUFFICES ASSUME NEW k \in Nat, k + 1 <= n, SweptTo(acc[k], merged, s, e, k)
                   PROVE  SweptTo(acc[k + 1], merged, s, e, k + 1)
      BY <1>1
    <2>2. k \in 0..(n - 1) /\ k + 1 <= Len(merged)
      BY <1>1, <2>1
    <2>3. acc[k + 1] = Sweep(acc[k], merged[k + 1], e)
      BY <1>2, <2>2
    <2>4. QED
      BY <2>1, <2>2, <2>3, SweepKeeps
  <1> HIDE DEF T
  <1>6. n \in T
    BY <1>1, <1>4, <1>5, CountedUp
  <1>7. QED
    BY <1>1, <1>2, <1>6 DEF T

\* subtract is exact: inside [s, e], what is not covered is what is in a gap.
LEMMA SubtractExact ==
  ASSUME NEW list, Proper(list), InOrder(list), NEW s \in Int, NEW e \in Int, s <= e,
         NEW gaps, gaps = Subtract(s, e, list)
  PROVE  /\ list = <<>> => gaps = <<Interval(s, e)>>
         /\ s < e \/ list # <<>> => GapsWithin(gaps, s, e)
         /\ \A p \in Int : 2 * s < p /\ p < 2 * e => (Cover(list, p) <=> ~InGap(gaps, p))
  <1>1. CASE list = <<>>
    <2>1. gaps = <<Interval(s, e)>>
      BY <1>1 DEF Subtract
    <2>2. Interval(s, e) \in Intervals /\ Interval(s, e).start = s /\ Interval(s, e).end = e
      BY DEF Interval, Intervals
    <2>3. gaps \in Seq(Intervals) /\ DOMAIN gaps = {1} /\ gaps[1] = Interval(s, e)
      BY <2>1, <2>2
    <2>4. s < e => GapsWithin(gaps, s, e)
      BY <2>2, <2>3 DEF GapsWithin
    <2>5. \A p \in Int : InGap(gaps, p) <=> 2 * s < p /\ p < 2 * e
      BY <2>2, <2>3 DEF InGap, StrictlyInside
    <2>6. \A p \in Int : ~Cover(list, p)
      BY <1>1 DEF Cover
    <2>7. QED
      BY <1>1, <2>1, <2>4, <2>5, <2>6
  <1>2. CASE list # <<>>
    <2> DEFINE merged == MergeIntervals(list)
               acc == SweepAll(s, e, merged)
               c == acc.cursor
               G == acc.gaps
    <2>1. Merged(merged, list, Len(list))
      BY <1>2, MergedAll
    <2>2. Apart(merged)
      BY <2>1 DEF Merged, Apart
    <2>3. \A p \in Int : Cover(list, p) <=> Cover(merged, p)
      <3>1. DOMAIN list = 1..Len(list)
        BY DEF Proper
      <3>2. QED
        BY <2>1, <3>1 DEF Merged, Cover
    <2> HIDE DEF merged
    <2>4. SweptTo(acc, merged, s, e, Len(merged))
      BY <2>2, SweptAll
    <2>5. gaps = IF c < e THEN Append(G, Interval(c, e)) ELSE G
      BY <1>2, Zenon DEF Subtract, SweepAll, merged
    <2> HIDE DEF acc
    <2>6. /\ c \in Int /\ G \in Seq(Intervals) /\ s <= c /\ GapsWithin(G, s, e)
          /\ \A i \in DOMAIN G : G[i].end <= c
          /\ \A p \in Int : 2 * s < p /\ p < 2 * e /\ p <= 2 * c => (Cover(merged, p) <=> ~InGap(G, p))
          /\ c >= e \/ \A i \in DOMAIN merged : merged[i].end <= c
      <3>1. DOMAIN merged = 1..Len(merged)
        BY <2>2 DEF Apart, Proper
      <3>2. QED
        BY <2>4, <3>1 DEF SweptTo, Swept
    <2> HIDE DEF c, G
    <2>7. CASE c < e
      <3>1. gaps = Append(G, Interval(c, e))
        BY <2>5, <2>7
      <3>2. /\ GapsWithin(gaps, s, e)
            /\ \A p \in Int : InGap(gaps, p) <=> InGap(G, p) \/ (2 * c < p /\ p < 2 * e)
        <4>1. /\ GapsWithin(G, s, e) /\ \A i \in DOMAIN G : G[i].end <= c
              /\ c \in Int /\ s <= c /\ c < e /\ e <= e
          BY <2>6, <2>7
        <4>2. QED
          BY <3>1, <4>1, GapAdded
      <3>3. ASSUME NEW p \in Int, 2 * s < p, p < 2 * e
            PROVE  Cover(merged, p) <=> ~InGap(gaps, p)
        <4>1. CASE p <= 2 * c
          BY <2>6, <3>2, <3>3, <4>1
        <4>2. CASE 2 * c < p
          <5>1. ASSUME NEW i \in DOMAIN merged PROVE ~Inside(p, merged[i])
            <6>1. merged[i].end \in Int /\ merged[i].end <= c
              BY <2>2, <2>6, <2>7, IntervalsListed DEF Apart, Proper
            <6>2. QED
              BY <2>6, <4>2, <6>1 DEF Inside
          <5>2. QED
            BY <3>2, <3>3, <4>2, <5>1 DEF Cover
        <4>3. QED
          BY <2>6, <4>1, <4>2
      <3>4. QED
        BY <1>2, <2>3, <3>2, <3>3
    <2>8. CASE ~(c < e)
      <3>1. gaps = G
        BY <2>5, <2>8
      <3>2. \A p \in Int : p < 2 * e => p <= 2 * c
        BY <2>6, <2>8
      <3>3. QED
        BY <1>2, <2>3, <2>6, <3>1, <3>2
    <2>9. QED
      BY <2>7, <2>8
  <1>3. QED
    BY <1>1, <1>2
----------------------------------------------------------------------------
(* CoverageFor.                                                            *)

\* A ledger whose windows do not end before they start.
Ledger(rows) == rows \in Seq(Run) /\ \A i \in DOMAIN rows : rows[i].start <= rows[i].end

CollectedIn(rows, p) ==
  \E i \in Successes(rows) : Inside(p, Interval(rows[i].start, rows[i].end))

LEMMA RowOf ==
  ASSUME NEW rows, Ledger(rows), NEW i \in DOMAIN rows
  PROVE  /\ i \in Nat /\ rows[i] \in Run /\ rows[i].start \in Int /\ rows[i].end \in Int
         /\ rows[i].start <= rows[i].end
         /\ Interval(rows[i].start, rows[i].end) \in Intervals
         /\ Interval(rows[i].start, rows[i].end).start = rows[i].start
         /\ Interval(rows[i].start, rows[i].end).end = rows[i].end
  <1>1. i \in Nat /\ rows[i] \in Run
    BY DEF Ledger
  <1>2. rows[i].start \in Int /\ rows[i].end \in Int
    BY <1>1 DEF Run
  <1>3. rows[i].start <= rows[i].end
    BY DEF Ledger
  <1>4. QED
    BY <1>1, <1>2, <1>3 DEF Interval, Intervals

\* The statement lists, in order, the windows that count for [s, e].
LEMMA CoveringListed ==
  ASSUME NEW rows, Ledger(rows), NEW s \in Int, NEW e \in Int,
         NEW list, list = Covering(rows, s, e)
  PROVE  /\ Proper(list) /\ InOrder(list)
         /\ \A k \in DOMAIN list : list[k].start <= e /\ s <= list[k].end
         /\ \A p \in Int : 2 * s <= p /\ p <= 2 * e => (Cover(list, p) <=> CollectedIn(rows, p))
  <1> DEFINE ids == {i \in Successes(rows) : rows[i].start <= e /\ rows[i].end >= s}
             rank == [i \in DOMAIN rows |-> rows[i].start]
             page == FirstBy(ids, rank, Cardinality(ids))
             w(i) == Interval(rows[i].start, rows[i].end)
             n == Len(page)
  <1>1. ids \subseteq DOMAIN rows /\ DOMAIN rows = 1..Len(rows) /\ Len(rows) \in Nat
    BY DEF Successes, Ledger
  <1>2. IsFiniteSet(ids) /\ ids \in SUBSET Nat
    <2>1. IsFiniteSet(1..Len(rows))
      BY <1>1, FS_Interval
    <2>2. QED
      BY <1>1, <2>1, FS_Subset
  <1>3. Cardinality(ids) \in Nat
    BY <1>2, FS_CardinalityType
  <1>4. \A i \in ids : rank[i] = rows[i].start /\ rank[i] \in Int
    BY <1>1, RowOf
  <1>i. \A i \in ids : i \in Successes(rows) /\ rows[i].start <= e /\ s <= rows[i].end
    <2>1. \A i \in ids : rows[i].end \in Int
      BY <1>1, RowOf
    <2>2. QED
      BY <2>1
  <1>m. \A i \in Successes(rows) : rows[i].start <= e /\ rows[i].end >= s => i \in ids
    OBVIOUS
  <1>l. list = [k \in DOMAIN page |-> w(page[k])]
    BY Zenon DEF Covering, WindowsOf
  <1> HIDE DEF ids, rank
  <1>5. /\ page \in Seq(ids) /\ n \in Nat
        /\ \A k, l \in 1..n : k < l => RanksBefore(rank, page[k], page[l])
        /\ \A i \in ids : \E k \in 1..n : page[k] = i
    <2>0. page = FirstBy(ids, rank, Cardinality(ids))
      OBVIOUS
    <2> HIDE DEF page
    <2>1. QED
      BY <1>2, <1>4, <2>0, FirstByAll
  <1> HIDE DEF page
  <1>6. DOMAIN page = 1..n /\ \A k \in 1..n : page[k] \in ids
    BY <1>5
  <1>7. ASSUME NEW i \in ids
        PROVE  /\ w(i) \in Intervals /\ w(i).start = rows[i].start /\ w(i).end = rows[i].end
               /\ rows[i].start \in Int /\ rows[i].end \in Int /\ rows[i].start <= rows[i].end
    BY <1>1, RowOf
  <1> HIDE DEF w, n
  <1>8. /\ list \in Seq(Intervals) /\ DOMAIN list = 1..n
        /\ \A k \in 1..n : list[k] = w(page[k])
    BY <1>5, <1>6, <1>7, <1>l
  <1>9. Proper(list)
    BY <1>6, <1>7, <1>8 DEF Proper
  <1>10. InOrder(list)
    <2>1. ASSUME NEW k \in 1..n, NEW l \in 1..n, k < l
          PROVE  list[k].start <= list[l].start
      <3>1. rank[page[k]] <= rank[page[l]]
        BY <1>4, <1>5, <1>6, <2>1 DEF RanksBefore
      <3>2. QED
        BY <1>4, <1>6, <1>7, <1>8, <3>1
    <2>2. QED
      BY <1>8, <2>1 DEF InOrder
  <1>11. \A k \in DOMAIN list : list[k].start <= e /\ s <= list[k].end
    BY <1>6, <1>7, <1>8, <1>i
  <1>12. ASSUME NEW p \in Int, 2 * s <= p, p <= 2 * e
         PROVE  Cover(list, p) <=> CollectedIn(rows, p)
    <2>1. ASSUME Cover(list, p) PROVE CollectedIn(rows, p)
      <3>1. PICK k \in 1..n : Inside(p, w(page[k]))
        BY <1>8, <2>1 DEF Cover
      <3>2. page[k] \in Successes(rows)
        BY <1>6, <1>i
      <3>3. QED
        BY <3>1, <3>2 DEF CollectedIn, w
    <2>2. ASSUME CollectedIn(rows, p) PROVE Cover(list, p)
      <3>1. PICK i \in Successes(rows) : Inside(p, w(i))
        BY <2>2 DEF CollectedIn, w
      <3>2. i \in DOMAIN rows
        BY DEF Successes
      <3>3. 2 * rows[i].start <= p /\ p <= 2 * rows[i].end
        BY <3>1, <3>2, RowOf DEF Inside, w
      <3>4. rows[i].start \in Int /\ rows[i].end \in Int
        BY <3>2, RowOf
      <3>5. rows[i].start <= e /\ rows[i].end >= s
        BY <1>12, <3>3, <3>4
      <3>6. i \in ids
        BY <1>m, <3>5
      <3>7. PICK k \in 1..n : page[k] = i
        BY <1>5, <3>6 DEF n
      <3>8. QED
        BY <1>8, <3>1, <3>7 DEF Cover
    <2>3. QED
      BY <2>1, <2>2
  <1>13. QED
    BY <1>9, <1>10, <1>11, <1>12

\* What CoverageFor finds in a ledger, for any window.
LEMMA CoverageExact ==
  ASSUME NEW rows, Ledger(rows), NEW s \in Int, NEW e \in Int, s <= e,
         NEW gaps, gaps = CoverageFor(rows, s, e).gaps
  PROVE  /\ \A p \in Int : 2 * s < p /\ p < 2 * e => (CollectedIn(rows, p) <=> ~InGap(gaps, p))
         /\ s < e => GapsWithin(gaps, s, e)
         /\ s = e => gaps = IF CollectedIn(rows, 2 * s) THEN <<>> ELSE <<Interval(s, e)>>
  <1> DEFINE list == Covering(rows, s, e)
  <1>1. /\ Proper(list) /\ InOrder(list)
        /\ \A k \in DOMAIN list : list[k].start <= e /\ s <= list[k].end
        /\ \A p \in Int : 2 * s <= p /\ p <= 2 * e => (Cover(list, p) <=> CollectedIn(rows, p))
    BY CoveringListed
  <1>2. gaps = Subtract(s, e, list)
    BY DEF CoverageFor
  <1> HIDE DEF list
  <1>3. /\ list = <<>> => gaps = <<Interval(s, e)>>
        /\ s < e \/ list # <<>> => GapsWithin(gaps, s, e)
        /\ \A p \in Int : 2 * s < p /\ p < 2 * e => (Cover(list, p) <=> ~InGap(gaps, p))
    BY <1>1, <1>2, SubtractExact
  <1>4. ASSUME s = e
        PROVE  gaps = IF CollectedIn(rows, 2 * s) THEN <<>> ELSE <<Interval(s, e)>>
    <2>1. Cover(list, 2 * s) <=> CollectedIn(rows, 2 * s)
      BY <1>1, <1>4
    <2>2. CASE list = <<>>
      <3>1. ~Cover(list, 2 * s)
        BY <2>2 DEF Cover
      <3>2. QED
        BY <1>3, <2>1, <2>2, <3>1
    <2>3. CASE list # <<>>
      <3>1. 1 \in DOMAIN list
        BY <1>1, <2>3 DEF Proper
      <3>2. list[1].start <= e /\ s <= list[1].end /\ list[1].start \in Int /\ list[1].end \in Int
        BY <1>1, <3>1, IntervalsListed DEF Proper
      <3>3. Inside(2 * s, list[1])
        BY <1>4, <3>2 DEF Inside
      <3>4. Cover(list, 2 * s)
        BY <3>1, <3>3 DEF Cover
      <3>5. gaps \in Seq(Intervals) /\ DOMAIN gaps = {}
        <4>1. GapsWithin(gaps, s, e)
          BY <1>3, <2>3
        <4>2. \A i \in DOMAIN gaps : FALSE
          BY <1>4, <4>1, IntervalsListed DEF GapsWithin
        <4>3. gaps \in Seq(Intervals)
          BY <4>1 DEF GapsWithin
        <4>4. DOMAIN gaps = {}
          BY <4>2
        <4>5. QED
          BY <4>3, <4>4
      <3>6. gaps = <<>>
        BY <3>5, NoIndex
      <3>7. QED
        BY <2>1, <3>4, <3>6
    <2>4. QED
      BY <2>2, <2>3
  <1>5. QED
    BY <1>1, <1>3, <1>4

\* A stretch of which nothing was collected lies in one gap.
LEMMA StretchInGap ==
  ASSUME NEW s \in Int, NEW e \in Int, NEW gaps, GapsWithin(gaps, s, e),
         NEW a \in Int, NEW b \in Int, a < b,
         \A p \in Int : 2 * a < p /\ p < 2 * b => InGap(gaps, p)
  PROVE  \E i \in DOMAIN gaps : gaps[i].start <= a /\ b <= gaps[i].end
  <1>1. gaps \in Seq(Intervals) /\ DOMAIN gaps \subseteq Nat
    BY DEF GapsWithin
  <1>2. \A i \in DOMAIN gaps : gaps[i].start \in Int /\ gaps[i].end \in Int
    BY <1>1, IntervalsListed
  <1>3. InGap(gaps, 2 * a + 1)
    OBVIOUS
  <1>4. PICK i \in DOMAIN gaps : 2 * gaps[i].start < 2 * a + 1 /\ 2 * a + 1 < 2 * gaps[i].end
    BY <1>3 DEF InGap, StrictlyInside
  <1>5. gaps[i].start <= a /\ a < gaps[i].end
    BY <1>2, <1>4
  <1>6. SUFFICES ASSUME gaps[i].end < b PROVE FALSE
    BY <1>2, <1>5
  <1>7. InGap(gaps, 2 * gaps[i].end)
    BY <1>2, <1>5, <1>6
  <1>8. PICK j \in DOMAIN gaps : gaps[j].start < gaps[i].end /\ gaps[i].end < gaps[j].end
    <2>1. PICK j \in DOMAIN gaps : 2 * gaps[j].start < 2 * gaps[i].end /\ 2 * gaps[i].end < 2 * gaps[j].end
      BY <1>7 DEF InGap, StrictlyInside
    <2>2. gaps[j].start < gaps[i].end /\ gaps[i].end < gaps[j].end
      BY <1>2, <2>1
    <2>3. QED
      BY <2>2
  <1>9. i \in Nat /\ j \in Nat /\ (i = j \/ i < j \/ j < i)
    BY <1>1
  <1>10. CASE i < j
    BY <1>2, <1>8, <1>10 DEF GapsWithin
  <1>11. CASE j < i
    <2>1. gaps[j].end <= gaps[i].start /\ gaps[i].start < gaps[i].end
      BY <1>11 DEF GapsWithin
    <2>2. QED
      BY <1>2, <1>8, <2>1
  <1>12. QED
    BY <1>2, <1>8, <1>9, <1>10, <1>11
----------------------------------------------------------------------------
(* The words for it.                                                       *)

LEMMA WindowNumbers ==
  ASSUME clock \in Nat, NEW w \in Windows
  PROVE  /\ w.start \in Nat /\ w.end \in Nat /\ w.start <= w.end /\ w.end <= clock
         /\ Instants(w) = (2 * w.start)..(2 * w.end)
         /\ Instants(w) \subseteq Int
         /\ \A p : StrictlyInside(p, w) <=> 2 * w.start < p /\ p < 2 * w.end
         /\ \A p \in Int : StrictlyInside(p, w) => p \in Instants(w)
  <1>1. w.start \in 0..clock /\ w.end \in 0..clock /\ w.start <= w.end
    BY DEF Windows
  <1>2. \A p : StrictlyInside(p, w) <=> 2 * w.start < p /\ p < 2 * w.end
    BY DEF StrictlyInside
  <1>3. Instants(w) = (2 * w.start)..(2 * w.end)
    BY DEF Instants
  <1>4. w.start \in Nat /\ w.end \in Nat /\ w.end <= clock
    BY <1>1
  <1>5. Instants(w) \subseteq Int
    BY <1>3, <1>4
  <1>6. \A p \in Int : StrictlyInside(p, w) => p \in Instants(w)
    BY <1>2, <1>3, <1>4
  <1>7. QED
    BY <1>1, <1>2, <1>3, <1>4, <1>5, <1>6

\* "complete": every instant was collected.
LEMMA CompleteExact ==
  ASSUME NEW rows, Ledger(rows), NEW s \in Int, NEW e \in Int, s <= e
  PROVE  CoverageFor(rows, s, e).kind = "complete"
         <=> \A p \in (2 * s)..(2 * e) : CollectedIn(rows, p)
  <1> DEFINE gaps == CoverageFor(rows, s, e).gaps
  <1>1. CoverageFor(rows, s, e).kind = "complete" <=> gaps = <<>>
    BY DEF CoverageFor
  <1> HIDE DEF gaps
  <1>2. /\ \A p \in Int : 2 * s < p /\ p < 2 * e => (CollectedIn(rows, p) <=> ~InGap(gaps, p))
        /\ s < e => GapsWithin(gaps, s, e)
        /\ s = e => gaps = IF CollectedIn(rows, 2 * s) THEN <<>> ELSE <<Interval(s, e)>>
    BY CoverageExact DEF gaps
  <1>3. CASE s = e
    <2>1. (2 * s)..(2 * e) = {2 * s}
      BY <1>3
    <2>2. QED
      BY <1>1, <1>2, <1>3, <2>1
  <1>4. CASE s < e
    <2>1. ASSUME gaps = <<>>, NEW p \in (2 * s)..(2 * e)
          PROVE  CollectedIn(rows, p)
      <3>1. \A q \in Int : ~InGap(gaps, q)
        BY <2>1 DEF InGap
      <3>2. \A q \in Int : 2 * s < q /\ q < 2 * e => CollectedIn(rows, q)
        BY <1>2, <3>1
      <3>3. CASE 2 * s < p /\ p < 2 * e
        BY <3>2, <3>3
      \* The ends of the window are whole instants: who collects next to one,
      \* collects it.
      <3>4. CASE p = 2 * s
        <4>1. CollectedIn(rows, 2 * s + 1)
          BY <1>4, <3>2
        <4>2. PICK i \in Successes(rows) : Inside(2 * s + 1, Interval(rows[i].start, rows[i].end))
          BY <4>1 DEF CollectedIn
        <4>3. i \in DOMAIN rows
          BY DEF Successes
        <4>4. /\ rows[i].start \in Int /\ rows[i].end \in Int
              /\ 2 * rows[i].start <= 2 * s + 1 /\ 2 * s + 1 <= 2 * rows[i].end
          BY <4>2, <4>3, RowOf DEF Inside
        <4>5. 2 * rows[i].start <= p /\ p <= 2 * rows[i].end
          BY <3>4, <4>4
        <4>6. QED
          BY <4>3, <4>5, RowOf DEF CollectedIn, Inside
      <3>5. CASE p = 2 * e
        <4>1. CollectedIn(rows, 2 * e - 1)
          BY <1>4, <3>2
        <4>2. PICK i \in Successes(rows) : Inside(2 * e - 1, Interval(rows[i].start, rows[i].end))
          BY <4>1 DEF CollectedIn
        <4>3. i \in DOMAIN rows
          BY DEF Successes
        <4>4. /\ rows[i].start \in Int /\ rows[i].end \in Int
              /\ 2 * rows[i].start <= 2 * e - 1 /\ 2 * e - 1 <= 2 * rows[i].end
          BY <4>2, <4>3, RowOf DEF Inside
        <4>5. 2 * rows[i].start <= p /\ p <= 2 * rows[i].end
          BY <3>5, <4>4
        <4>6. QED
          BY <4>3, <4>5, RowOf DEF CollectedIn, Inside
      <3>6. QED
        BY <3>3, <3>4, <3>5
    <2>2. ASSUME \A p \in (2 * s)..(2 * e) : CollectedIn(rows, p), gaps # <<>>
          PROVE  FALSE
      <3>1. GapsWithin(gaps, s, e) /\ gaps \in Seq(Intervals)
        BY <1>2, <1>4 DEF GapsWithin
      <3>2. 1 \in DOMAIN gaps
        BY <2>2, <3>1
      <3>3. /\ gaps[1].start \in Int /\ gaps[1].end \in Int
            /\ s <= gaps[1].start /\ gaps[1].start < gaps[1].end /\ gaps[1].end <= e
        BY <3>1, <3>2, IntervalsListed DEF GapsWithin
      <3> DEFINE p == 2 * gaps[1].start + 1
      <3>4. p \in Int /\ 2 * s < p /\ p < 2 * e /\ 2 * gaps[1].start < p /\ p < 2 * gaps[1].end
        BY <3>3
      <3> HIDE DEF p
      <3>5. InGap(gaps, p)
        BY <3>2, <3>4 DEF InGap, StrictlyInside
      <3>6. CollectedIn(rows, p)
        BY <2>2, <3>4
      <3>7. QED
        BY <1>2, <3>4, <3>5, <3>6
    <2>3. QED
      BY <1>1, <2>1, <2>2
  <1>5. QED
    BY <1>3, <1>4

\* "none": nothing was collected strictly inside, and not all of it.
LEMMA NoneExact ==
  ASSUME NEW rows, Ledger(rows), NEW s \in Int, NEW e \in Int, s <= e
  PROVE  CoverageFor(rows, s, e).kind = "none"
         <=> /\ CoverageFor(rows, s, e).kind # "complete"
             /\ \A p \in Int : 2 * s < p /\ p < 2 * e => ~CollectedIn(rows, p)
  <1> DEFINE gaps == CoverageFor(rows, s, e).gaps
             all == <<Interval(s, e)>>
  <1>1. /\ CoverageFor(rows, s, e).kind = "complete" <=> gaps = <<>>
        /\ CoverageFor(rows, s, e).kind = "none" <=> gaps # <<>> /\ gaps = all
    BY DEF CoverageFor
  <1>2. /\ all # <<>> /\ all \in Seq(Intervals) /\ DOMAIN all = {1} /\ all[1].start = s /\ all[1].end = e
    <2>1. Interval(s, e) \in Intervals /\ Interval(s, e).start = s /\ Interval(s, e).end = e
      BY DEF Interval, Intervals
    <2>2. QED
      BY <2>1
  <1> HIDE DEF gaps
  <1>3. /\ \A p \in Int : 2 * s < p /\ p < 2 * e => (CollectedIn(rows, p) <=> ~InGap(gaps, p))
        /\ s < e => GapsWithin(gaps, s, e)
        /\ s = e => gaps = IF CollectedIn(rows, 2 * s) THEN <<>> ELSE all
    BY CoverageExact DEF gaps
  <1>4. CASE s = e
    <2>1. gaps = <<>> \/ gaps = all
      BY <1>3, <1>4
    <2>2. \A p \in Int : ~(2 * s < p /\ p < 2 * e)
      BY <1>4
    <2>3. QED
      BY <1>1, <1>2, <2>1, <2>2
  <1>5. CASE s < e
    <2>1. GapsWithin(gaps, s, e) /\ gaps \in Seq(Intervals) /\ DOMAIN gaps = 1..Len(gaps) /\ Len(gaps) \in Nat
      BY <1>3, <1>5 DEF GapsWithin
    <2>2. ASSUME gaps = all
          PROVE  \A p \in Int : 2 * s < p /\ p < 2 * e => ~CollectedIn(rows, p)
      <3>1. \A p \in Int : 2 * s < p /\ p < 2 * e => InGap(gaps, p)
        BY <1>2, <2>2 DEF InGap, StrictlyInside
      <3>2. QED
        BY <1>3, <3>1
    <2>3. ASSUME \A p \in Int : 2 * s < p /\ p < 2 * e => ~CollectedIn(rows, p)
          PROVE  gaps = all
      <3>1. \A p \in Int : 2 * s < p /\ p < 2 * e => InGap(gaps, p)
        BY <1>3, <2>3
      <3>2. PICK i \in DOMAIN gaps : gaps[i].start <= s /\ e <= gaps[i].end
        BY <1>5, <2>1, <3>1, StretchInGap
      <3>3. \A j \in DOMAIN gaps : /\ gaps[j].start \in Int /\ gaps[j].end \in Int
                                   /\ s <= gaps[j].start /\ gaps[j].start < gaps[j].end
                                   /\ gaps[j].end <= e
        BY <2>1, IntervalsListed DEF GapsWithin
      <3>4. gaps[i].start = s /\ gaps[i].end = e
        BY <3>2, <3>3
      <3>5. ASSUME NEW j \in DOMAIN gaps, j # i PROVE FALSE
        <4>1. CASE j < i
          <5>1. gaps[j].end <= gaps[i].start
            BY <2>1, <4>1 DEF GapsWithin
          <5>2. QED
            BY <3>3, <3>4, <5>1
        <4>2. CASE i < j
          <5>1. gaps[i].end <= gaps[j].start
            BY <2>1, <4>2 DEF GapsWithin
          <5>2. QED
            BY <3>3, <3>4, <5>1
        <4>3. QED
          BY <2>1, <3>5, <4>1, <4>2
      <3>6. i = 1 /\ Len(gaps) = 1
        <4>1. 1 \in DOMAIN gaps /\ Len(gaps) \in DOMAIN gaps
          BY <2>1
        <4>2. QED
          BY <3>5, <4>1
      <3>7. gaps[1] = Interval(s, e)
        <4>1. gaps[1] \in Intervals
          BY <2>1, <3>6
        <4>2. QED
          BY <3>4, <3>6, <4>1 DEF Intervals, Interval
      <3>8. QED
        BY <2>1, <3>6, <3>7
    <2>4. QED
      BY <1>1, <1>2, <2>2, <2>3
  <1>6. QED
    BY <1>4, <1>5
----------------------------------------------------------------------------
(* GapsSince.                                                              *)

Long(g, cadence) == g.end - g.start > cadence

KeepLong(found, g, cadence) == IF Long(g, cadence) THEN Append(found, g) ELSE found

LongOnes(gaps, cadence) ==
  LET keep(found, g) == KeepLong(found, g, cadence)
  IN  FoldLeft(keep, <<>>, gaps)

\* acc holds what the loop has after each gap.
KeepSteps(acc, gaps, cadence) ==
  /\ acc[0] = <<>>
  /\ \A k \in 0..(Len(gaps) - 1) : acc[k + 1] = KeepLong(acc[k], gaps[k + 1], cadence)
  /\ LongOnes(gaps, cadence) = acc[Len(gaps)]

LEMMA KeepFold ==
  ASSUME NEW gaps \in Seq(Intervals), NEW cadence
  PROVE  \E acc : KeepSteps(acc, gaps, cadence)
  <1> DEFINE n == Len(gaps)
             V == Seq(Intervals)
             base == <<>>
             step == [a \in V \X (1..n) |-> KeepLong(a[1], gaps[a[2]], cadence)]
             g == CHOOSE f : f = [t \in SUBSET (1..n) |->
                               IF t = {} THEN base
                               ELSE KeepLong(f[t \ {Max(t)}], gaps[Max(t)], cadence)]
             acc == [k \in 0..n |-> g[1..k]]
  <1>1. n \in Nat /\ DOMAIN gaps = 1..n /\ \A k \in 1..n : gaps[k] \in Intervals
    OBVIOUS
  <1>2. step \in [V \X (1..n) -> V]
    <2>1. \A found \in V, k \in 1..n : KeepLong(found, gaps[k], cadence) \in V
      BY <1>1 DEF KeepLong
    <2>2. QED
      BY <2>1
  <1>3. \A a \in V, k \in 1..n : step[<<a, k>>] = KeepLong(a, gaps[k], cadence)
    OBVIOUS
  <1>4. base \in V
    OBVIOUS
  <1> HIDE DEF step, base, V
  <1>5. PICK f \in [SUBSET (1..n) -> V] : IsFold(f, base, step, n)
    BY <1>1, <1>2, <1>4, FoldExists
  <1>6. f = [t \in SUBSET (1..n) |->
               IF t = {} THEN base ELSE KeepLong(f[t \ {Max(t)}], gaps[Max(t)], cadence)]
    <2>1. ASSUME NEW t \in SUBSET (1..n), t # {}
          PROVE  step[<<f[t \ {Max(t)}], Max(t)>>]
                   = KeepLong(f[t \ {Max(t)}], gaps[Max(t)], cadence)
      <3>1. Max(t) \in 1..n
        BY <1>1, <2>1, MaxInside
      <3>2. f[t \ {Max(t)}] \in V
        OBVIOUS
      <3>3. QED
        BY <1>3, <3>1, <3>2
    <2>2. QED
      BY <1>5, <2>1 DEF IsFold
  <1>7. g = [t \in SUBSET (1..n) |->
               IF t = {} THEN base ELSE KeepLong(g[t \ {Max(t)}], gaps[Max(t)], cadence)]
    BY <1>6
  <1>8. LongOnes(gaps, cadence) = g[1..n]
    <2>1. LongOnes(gaps, cadence)
            = (CHOOSE f_1 : f_1 = [t \in SUBSET DOMAIN gaps |->
                 IF t = {} THEN base
                 ELSE KeepLong(f_1[t \ {Max(t)}], gaps[Max(t)], cadence)])[DOMAIN gaps]
      BY Zenon DEF LongOnes, FoldLeft, MapThenFoldSet, base
    <2>2. QED
      BY <1>1, <2>1
  <1> HIDE DEF g
  <1>9. acc[0] = base
    <2>1. 1..0 = {} /\ 0 \in 0..n /\ {} \in SUBSET (1..n)
      BY <1>1
    <2>2. QED
      BY <1>7, <2>1
  <1>10. ASSUME NEW k \in 0..(n - 1)
         PROVE  acc[k + 1] = KeepLong(acc[k], gaps[k + 1], cadence)
    <2>1. k \in Nat /\ k \in 0..n /\ k + 1 \in 0..n /\ 1..(k + 1) \in SUBSET (1..n)
      BY <1>1
    <2>2. /\ 1..(k + 1) # {} /\ Max(1..(k + 1)) = k + 1
          /\ (1..(k + 1)) \ {k + 1} = 1..k
      BY <2>1, MaxOfPrefix
    <2>3. g[1..(k + 1)] = KeepLong(g[1..k], gaps[k + 1], cadence)
      BY <1>7, <2>1, <2>2
    <2>4. QED
      BY <2>1, <2>3
  <1>11. acc[n] = g[1..n]
    BY <1>1
  <1> HIDE DEF acc
  <1>12. QED
    BY <1>8, <1>9, <1>10, <1>11 DEF base, KeepSteps

\* The members of a list.
Listed(list) == {list[i] : i \in DOMAIN list}

LEMMA LongOnesListed ==
  ASSUME NEW gaps \in Seq(Intervals), NEW cadence
  PROVE  Listed(LongOnes(gaps, cadence)) = {g \in Listed(gaps) : Long(g, cadence)}
  <1> DEFINE n == Len(gaps)
             Upto(k) == {g \in {gaps[i] : i \in 1..k} : Long(g, cadence)}
  <1>1. n \in Nat /\ n = Len(gaps) /\ DOMAIN gaps = 1..n /\ \A k \in 1..n : gaps[k] \in Intervals
    OBVIOUS
  <1> HIDE DEF n
  <1>2. PICK acc : /\ acc[0] = <<>>
                   /\ \A k \in 0..(n - 1) : acc[k + 1] = KeepLong(acc[k], gaps[k + 1], cadence)
                   /\ LongOnes(gaps, cadence) = acc[n]
    BY <1>1, KeepFold DEF KeepSteps
  <1> DEFINE T == {k \in Nat : k <= n => acc[k] \in Seq(Intervals) /\ Listed(acc[k]) = Upto(k)}
  <1>3. 0 \in T
    <2>1. <<>> \in Seq(Intervals) /\ Listed(<<>>) = {}
      BY DEF Listed
    <2>2. Upto(0) = {}
      OBVIOUS
    <2>3. QED
      BY <1>2, <2>1, <2>2
  <1>4. ASSUME NEW k \in Nat, k + 1 <= n, acc[k] \in Seq(Intervals), Listed(acc[k]) = Upto(k)
        PROVE  acc[k + 1] \in Seq(Intervals) /\ Listed(acc[k + 1]) = Upto(k + 1)
    <2> DEFINE g == gaps[k + 1]
               old == acc[k]
    <2>1. k \in 0..(n - 1) /\ k + 1 \in 1..n /\ 1..(k + 1) = 1..k \cup {k + 1}
      BY <1>1, <1>4
    <2>2. acc[k + 1] = KeepLong(old, g, cadence)
      BY <1>2, <2>1
    <2>3. Upto(k + 1) = Upto(k) \cup {x \in {g} : Long(x, cadence)}
      BY <2>1
    <2>4. g \in Intervals
      BY <1>1, <2>1
    <2>5. Listed(old) = Upto(k) /\ old \in Seq(Intervals)
      BY <1>4
    <2> HIDE DEF g, old, Upto
    <2>6. CASE Long(g, cadence)
      <3>1. acc[k + 1] = Append(old, g)
        BY <2>2, <2>6 DEF KeepLong
      <3>2. Append(old, g) \in Seq(Intervals)
        BY <2>4, <2>5
      <3>3. Listed(Append(old, g)) = Listed(old) \cup {g}
        <4> DEFINE m == Len(old)
        <4>1. m \in Nat /\ DOMAIN old = 1..m /\ DOMAIN Append(old, g) = 1..(m + 1)
          BY <2>4, <2>5
        <4>2. Append(old, g)[m + 1] = g /\ \A i \in 1..m : Append(old, g)[i] = old[i]
          BY <2>4, <2>5
        <4>3. 1..(m + 1) = 1..m \cup {m + 1}
          BY <4>1
        <4> HIDE DEF m
        <4>4. QED
          BY <4>1, <4>2, <4>3 DEF Listed
      <3>4. QED
        BY <2>3, <2>5, <2>6, <3>1, <3>2, <3>3
    <2>7. CASE ~Long(g, cadence)
      BY <2>2, <2>3, <2>5, <2>7 DEF KeepLong
    <2>8. QED
      BY <2>6, <2>7
  <1>5. \A k \in Nat : k \in T => k + 1 \in T
    <2> HIDE DEF Upto
    <2>1. QED
      BY <1>1, <1>4
  <1> HIDE DEF T
  <1>6. n \in T
    BY <1>1, <1>3, <1>5, CountedUp
  <1>7. Listed(acc[n]) = Upto(n)
    BY <1>1, <1>6 DEF T
  <1>8. Upto(n) = {g \in Listed(gaps) : Long(g, cadence)}
    BY <1>1 DEF Listed
  <1>9. QED
    BY <1>2, <1>7, <1>8
----------------------------------------------------------------------------
(* The invariant of the ledger.                                            *)

\* Whatever ended, ended before a later collection began.
OneAfterAnother ==
  \A i, j \in DOMAIN runs :
     i < j /\ runs[i].result # "running" /\ runs[j].result # "skipped"
     => finished[i] <= runs[j].started

NotLater == \A i \in DOMAIN runs : runs[i].started <= clock /\ finished[i] <= clock

LedgerInv == TypeOK /\ Ledger(runs) /\ NotLater /\ OneAfterAnother

LEMMA RowAdded ==
  ASSUME LedgerInv, NEW row \in Run, row.start <= row.end, row.started = clock,
         NEW f \in Nat, f <= clock, row.result # "running" => f >= row.started,
         runs' = Append(runs, row), finished' = Append(finished, f), clock' = clock
  PROVE  LedgerInv'
  <1> DEFINE n == Len(runs)
  <1>1. /\ clock \in Nat /\ runs \in Seq(Run) /\ n \in Nat /\ DOMAIN runs = 1..n /\ n = Len(runs)
        /\ finished \in Seq(Nat) /\ DOMAIN finished = 1..n /\ Len(finished) = n
    BY DEF LedgerInv, TypeOK
  <1>2. \A i \in 1..n : /\ runs[i].started <= clock /\ finished[i] <= clock
                        /\ finished[i] \in Nat /\ runs[i].start <= runs[i].end
                        /\ runs[i].result # "running" => finished[i] >= runs[i].started
    <2>1. \A i \in 1..n : finished[i] \in Nat
      BY <1>1
    <2>2. \A i \in 1..n : runs[i].started <= clock /\ finished[i] <= clock
      BY <1>1 DEF LedgerInv, NotLater
    <2>3. \A i \in 1..n : runs[i].start <= runs[i].end
      BY <1>1 DEF LedgerInv, Ledger
    <2>4. \A i \in 1..n : runs[i].result # "running" => finished[i] >= runs[i].started
      BY <1>1 DEF LedgerInv, TypeOK
    <2>5. QED
      BY <2>1, <2>2, <2>3, <2>4
  <1>3. /\ runs' \in Seq(Run) /\ DOMAIN runs' = 1..(n + 1) /\ Len(runs') = n + 1
        /\ runs'[n + 1] = row /\ \A i \in 1..n : runs'[i] = runs[i]
    BY <1>1
  <1>4. /\ finished' \in Seq(Nat) /\ Len(finished') = n + 1
        /\ finished'[n + 1] = f /\ \A i \in 1..n : finished'[i] = finished[i]
    BY <1>1
  <1> HIDE DEF n
  <1>5. 1..(n + 1) = 1..n \cup {n + 1}
    BY <1>1
  <1>6. \A i \in 1..(n + 1) :
           /\ runs'[i].started <= clock' /\ finished'[i] <= clock'
           /\ runs'[i].start <= runs'[i].end
           /\ runs'[i].result # "running" => finished'[i] >= runs'[i].started
    <2>1. \A i \in 1..n :
             /\ runs'[i].started <= clock' /\ finished'[i] <= clock'
             /\ runs'[i].start <= runs'[i].end
             /\ runs'[i].result # "running" => finished'[i] >= runs'[i].started
      BY <1>2, <1>3, <1>4
    <2>2. /\ runs'[n + 1].started <= clock' /\ finished'[n + 1] <= clock'
          /\ runs'[n + 1].start <= runs'[n + 1].end
          /\ runs'[n + 1].result # "running" => finished'[n + 1] >= runs'[n + 1].started
      BY <1>1, <1>3, <1>4
    <2>3. QED
      BY <1>5, <2>1, <2>2
  <1>7. OneAfterAnother'
    <2>1. SUFFICES ASSUME NEW i \in 1..(n + 1), NEW j \in 1..(n + 1), i < j,
                          runs'[i].result # "running", runs'[j].result # "skipped"
                   PROVE  finished'[i] <= runs'[j].started
      BY <1>3 DEF OneAfterAnother
    <2>2. i \in 1..n /\ (j \in 1..n \/ j = n + 1)
      <3>1. n \in Nat
        BY <1>1
      <3>2. QED
        BY <2>1, <3>1
    <2>3. CASE j \in 1..n
      BY <1>1, <1>3, <1>4, <2>1, <2>2, <2>3 DEF LedgerInv, OneAfterAnother
    <2>4. CASE j = n + 1
      BY <1>2, <1>3, <1>4, <2>2, <2>4
    <2>5. QED
      BY <2>2, <2>3, <2>4
  <1>8. TypeOK' /\ Ledger(runs)' /\ NotLater'
    BY <1>1, <1>3, <1>4, <1>6 DEF TypeOK, Ledger, NotLater
  <1>9. QED
    BY <1>7, <1>8 DEF LedgerInv

LEMMA RowClosed ==
  ASSUME LedgerInv, NEW id \in DOMAIN runs, NEW result \in {"success", "failure"},
         NEW rows, rows = [runs EXCEPT ![id].result = result], CloseRun(id, rows)
  PROVE  LedgerInv'
  <1> DEFINE n == Len(runs)
  <1>1. /\ clock \in Nat /\ runs \in Seq(Run) /\ n \in Nat /\ DOMAIN runs = 1..n
        /\ finished \in Seq(Nat) /\ DOMAIN finished = 1..n /\ Len(finished) = n /\ clock' = clock
    BY DEF LedgerInv, TypeOK, CloseRun
  <1>2. \A i \in 1..n : /\ runs[i].started <= clock /\ finished[i] <= clock
                        /\ finished[i] \in Nat /\ runs[i].start <= runs[i].end
                        /\ runs[i].started \in Int
                        /\ runs[i].result # "running" => finished[i] >= runs[i].started
    <2>1. \A i \in 1..n : runs[i] \in Run
      BY <1>1
    <2>2. \A row \in Run : row.started \in Int
      BY DEF Run
    <2>3. QED
      BY <1>1, <2>1, <2>2 DEF LedgerInv, TypeOK, Ledger, NotLater
  <1>3. /\ runs[id].result = "running" /\ runs' = [runs EXCEPT ![id].result = result]
        /\ finished' = [finished EXCEPT ![id] = clock]
        /\ \A later \in (id + 1)..n : runs[later].result = "skipped"
    BY DEF CloseRun
  <1>4. runs' \in Seq(Run) /\ DOMAIN runs' = 1..n /\ Len(runs') = n
    <2> DEFINE new == [runs[id] EXCEPT !.result = result]
    <2>1. new \in Run
      <3>1. runs[id] \in Run /\ result \in Result
        BY <1>1 DEF Result
      <3>2. QED
        BY <3>1 DEF Run
    <2>2. runs' = [runs EXCEPT ![id] = new]
      BY <1>3
    <2> HIDE DEF new
    <2>3. QED
      BY <1>1, <2>1, <2>2
  <1>5. \A i \in 1..n : /\ runs'[i].start = runs[i].start /\ runs'[i].end = runs[i].end
                        /\ runs'[i].started = runs[i].started
                        /\ i = id => runs'[i].result = result
                        /\ i # id => runs'[i].result = runs[i].result
    <2>1. \A i \in 1..n : i # id => runs'[i] = runs[i]
      BY <1>1, <1>3
    <2>2. runs'[id] = [runs[id] EXCEPT !.result = result]
      BY <1>1, <1>3
    <2>3. runs[id] \in Run
      BY <1>1
    <2>4. /\ runs'[id].start = runs[id].start /\ runs'[id].end = runs[id].end
          /\ runs'[id].started = runs[id].started /\ runs'[id].result = result
      BY <2>2, <2>3 DEF Run
    <2>5. QED
      BY <2>1, <2>4
  <1>6. /\ finished' \in Seq(Nat) /\ Len(finished') = n
        /\ finished'[id] = clock /\ \A i \in 1..n : i # id => finished'[i] = finished[i]
    BY <1>1, <1>3
  <1> HIDE DEF n
  <1>7. TypeOK' /\ Ledger(runs)' /\ NotLater'
    <2>1. ASSUME NEW i \in 1..n
          PROVE  /\ runs'[i].result # "running" => finished'[i] >= runs'[i].started
                 /\ runs'[i].start <= runs'[i].end
                 /\ runs'[i].started <= clock' /\ finished'[i] <= clock'
      <3>1. clock \in Nat /\ clock' = clock
        BY <1>1
      <3>2. CASE i = id
        BY <1>2, <1>5, <1>6, <3>1, <3>2
      <3>3. CASE i # id
        BY <1>2, <1>5, <1>6, <3>1, <3>3
      <3>4. QED
        BY <3>2, <3>3
    <2>2. QED
      BY <1>1, <1>4, <1>6, <2>1 DEF TypeOK, Ledger, NotLater
  <1>8. OneAfterAnother'
    <2>1. SUFFICES ASSUME NEW i \in 1..n, NEW j \in 1..n, i < j,
                          runs'[i].result # "running", runs'[j].result # "skipped"
                   PROVE  finished'[i] <= runs'[j].started
      BY <1>4 DEF OneAfterAnother
    <2>2. CASE i = id
      <3>1. j # id /\ j \in (id + 1)..n
        BY <1>1, <2>1, <2>2
      <3>2. QED
        BY <1>3, <1>5, <2>1, <3>1
    <2>3. CASE i # id
      <3>1. runs[i].result # "running" /\ runs[j].result # "skipped"
        BY <1>3, <1>5, <2>1, <2>3
      <3>2. finished[i] <= runs[j].started
        BY <1>1, <2>1, <3>1 DEF LedgerInv, OneAfterAnother
      <3>3. QED
        BY <1>5, <1>6, <2>3, <3>2
    <2>4. QED
      BY <2>2, <2>3
  <1>9. QED
    BY <1>7, <1>8 DEF LedgerInv

LEMMA LedgerInvInductive ==
  ASSUME LedgerInv, [Next]_vars
  PROVE  LedgerInv'
  <1>1. CASE Tick
    <2>1. clock \in Nat /\ clock' = clock + 1 /\ runs' = runs /\ finished' = finished
      BY <1>1 DEF LedgerInv, TypeOK, Tick
    <2>2. \A i \in DOMAIN runs : runs[i].started \in Int /\ finished[i] \in Nat
      <3>1. \A row \in Run : row.started \in Int
        BY DEF Run
      <3>2. QED
        BY <3>1 DEF LedgerInv, TypeOK
    <2>3. NotLater'
      BY <2>1, <2>2 DEF LedgerInv, NotLater
    <2>4. QED
      BY <2>1, <2>3 DEF LedgerInv, TypeOK, Ledger, OneAfterAnother
  <1>2. ASSUME NEW mode \in Modes, NEW start \in 0..clock, NEW end \in 0..clock,
               BeginRun(mode, start, end)
        PROVE  LedgerInv'
    <2> DEFINE row == NewRow(mode, start, end, clock, "running")
    <2>1. clock \in Nat /\ mode \in Mode
      BY ReadsAssumption DEF LedgerInv, TypeOK
    <2>2. row \in Run /\ row.started = clock /\ row.start = start /\ row.end = end /\ row.result = "running"
      BY <2>1 DEF NewRow, Run, Result
    <2>3. start <= end
      BY <1>2, <2>1 DEF BeginRun, WindowOrdered
    <2>4. runs' = Append(runs, row) /\ finished' = Append(finished, 0) /\ clock' = clock
      BY <1>2 DEF BeginRun, Begin
    <2> HIDE DEF row
    <2>5. QED
      BY <2>1, <2>2, <2>3, <2>4, RowAdded
  <1>3. ASSUME NEW id \in DOMAIN runs, CloseRun(id, Finish(runs, id))
        PROVE  LedgerInv'
    BY <1>3, RowClosed DEF Finish
  <1>4. ASSUME NEW id \in DOMAIN runs, CloseRun(id, Fail(runs, id))
        PROVE  LedgerInv'
    BY <1>4, RowClosed DEF Fail
  <1>5. CASE SkipCycle
    <2> DEFINE row == NewRow("incremental", clock, clock, clock, "skipped")
    <2>1. clock \in Nat
      BY DEF LedgerInv, TypeOK
    <2>2. row \in Run /\ row.started = clock /\ row.start = clock /\ row.end = clock
      BY <2>1 DEF NewRow, Run, Result, Mode
    <2>3. runs' = Append(runs, row) /\ finished' = Append(finished, clock) /\ clock' = clock
      BY <1>5 DEF SkipCycle, Skip
    <2> HIDE DEF row
    <2>4. QED
      BY <2>1, <2>2, <2>3, RowAdded
  <1>6. CASE UNCHANGED vars
    BY <1>6 DEF vars, LedgerInv, TypeOK, Ledger, NotLater, OneAfterAnother
  <1>7. QED
    BY <1>1, <1>2, <1>3, <1>4, <1>5, <1>6 DEF Next

\* No run ends before it starts, and none ends after a later one began.
THEOREM LedgerInvHolds == Spec => []LedgerInv
  <1>1. Init => LedgerInv
    BY DEF Init, LedgerInv, TypeOK, Ledger, NotLater, OneAfterAnother
  <1>2. LedgerInv /\ [Next]_vars => LedgerInv'
    BY LedgerInvInductive
  <1>3. QED
    BY <1>1, <1>2, PTL DEF Spec
----------------------------------------------------------------------------
(* What the readers say.                                                   *)

\* The gaps reported are the instants no successful run collected.
THEOREM GapsAreExact == Spec => []GapsExact
  <1>1. LedgerInv => GapsExact
    <2> SUFFICES ASSUME LedgerInv PROVE GapsExact
      OBVIOUS
    <2> DEFINE gapsOf(w) == CoverageFor(runs, w.start, w.end).gaps
    <2>1. SUFFICES ASSUME NEW w \in Windows
                   PROVE  /\ \A p \in Instants(w) : StrictlyInside(p, w)
                              => (~Collected(p) <=> \E i \in DOMAIN gapsOf(w) :
                                                        StrictlyInside(p, gapsOf(w)[i]))
                          /\ \A i \in DOMAIN gapsOf(w) :
                               /\ w.start <= gapsOf(w)[i].start /\ gapsOf(w)[i].end <= w.end
                               /\ i > 1 => gapsOf(w)[i - 1].end <= gapsOf(w)[i].start
      BY Zenon DEF GapsExact
    <2> DEFINE s == w.start
               e == w.end
               gaps == gapsOf(w)
    <2>2. clock \in Nat /\ Ledger(runs)
      BY DEF LedgerInv, TypeOK
    <2>3. /\ s \in Int /\ e \in Int /\ s <= e /\ Instants(w) \subseteq Int
          /\ \A p : StrictlyInside(p, w) <=> 2 * s < p /\ p < 2 * e
      BY <2>2, WindowNumbers
    <2> HIDE DEF s, e
    <2>4. gaps = CoverageFor(runs, s, e).gaps
      BY DEF s, e
    <2> HIDE DEF gaps
    <2>5. /\ \A p \in Int : 2 * s < p /\ p < 2 * e => (CollectedIn(runs, p) <=> ~InGap(gaps, p))
          /\ s < e => GapsWithin(gaps, s, e)
          /\ s = e => gaps = IF CollectedIn(runs, 2 * s) THEN <<>> ELSE <<Interval(s, e)>>
      BY <2>2, <2>3, <2>4, CoverageExact
    <2>6. \A p \in Instants(w) : StrictlyInside(p, w)
             => (~Collected(p) <=> \E i \in DOMAIN gaps : StrictlyInside(p, gaps[i]))
      BY <2>3, <2>5 DEF Collected, CollectedIn, InGap
    <2>7. ASSUME NEW i \in DOMAIN gaps
          PROVE  /\ s <= gaps[i].start /\ gaps[i].end <= e
                 /\ i > 1 => gaps[i - 1].end <= gaps[i].start
      <3>1. CASE s < e
        <4>1. GapsWithin(gaps, s, e) /\ gaps \in Seq(Intervals)
          BY <2>5, <3>1 DEF GapsWithin
        <4>2. i \in Nat /\ (i > 1 => i - 1 \in DOMAIN gaps /\ i - 1 < i)
          BY <4>1
        <4>3. QED
          BY <4>1, <4>2 DEF GapsWithin
      <3>2. CASE s = e
        <4>1. Interval(s, e).start = s /\ Interval(s, e).end = e
          BY DEF Interval
        <4>2. gaps = <<Interval(s, e)>> /\ DOMAIN gaps = {1} /\ i = 1 /\ gaps[1] = Interval(s, e)
          BY <2>5, <3>2
        <4>3. QED
          BY <2>3, <4>1, <4>2
      <3>3. QED
        BY <2>3, <3>1, <3>2
    <2>8. QED
      BY <2>6, <2>7 DEF gaps, s, e
  <1>2. QED
    BY <1>1, LedgerInvHolds, PTL

\* "complete" and "none" say what they mean.
LEMMA KindsMeanIt == LedgerInv => KindExact
  <1> SUFFICES ASSUME LedgerInv, NEW w \in Windows
               PROVE  LET kind == CoverageFor(runs, w.start, w.end).kind
                      IN  /\ kind = "complete" <=> \A p \in Instants(w) : Collected(p)
                          /\ kind = "none" <=>
                               /\ kind # "complete"
                               /\ \A p \in Instants(w) : StrictlyInside(p, w) => ~Collected(p)
    BY Zenon DEF KindExact
  <1>1. clock \in Nat /\ Ledger(runs)
    BY DEF LedgerInv, TypeOK
  <1>2. /\ w.start \in Int /\ w.end \in Int /\ w.start <= w.end
        /\ Instants(w) = (2 * w.start)..(2 * w.end) /\ Instants(w) \subseteq Int
        /\ \A p : StrictlyInside(p, w) <=> 2 * w.start < p /\ p < 2 * w.end
        /\ \A p \in Int : StrictlyInside(p, w) => p \in Instants(w)
    BY <1>1, WindowNumbers
  <1>3. \A p : Collected(p) <=> CollectedIn(runs, p)
    BY DEF Collected, CollectedIn
  <1> DEFINE kind == CoverageFor(runs, w.start, w.end).kind
  <1>4. kind = "complete" <=> \A p \in Instants(w) : CollectedIn(runs, p)
    BY <1>1, <1>2, CompleteExact
  <1>5. kind = "none" <=> /\ kind # "complete"
                          /\ \A p \in Int : 2 * w.start < p /\ p < 2 * w.end => ~CollectedIn(runs, p)
    BY <1>1, <1>2, NoneExact
  <1> HIDE DEF kind
  <1>6. (\A p \in Int : 2 * w.start < p /\ p < 2 * w.end => ~CollectedIn(runs, p))
        <=> \A p \in Instants(w) : StrictlyInside(p, w) => ~CollectedIn(runs, p)
    BY <1>2
  <1>7. QED
    BY <1>3, <1>4, <1>5, <1>6 DEF kind

\* The word for a window is exact.
THEOREM KindsAreExact == Spec => []KindExact
  BY KindsMeanIt, LedgerInvHolds, PTL

\* A silence longer than the cadence is found, and nothing else is.
THEOREM LongGapsAreFound == Spec => []LongGapsFound
  <1>1. LedgerInv => LongGapsFound
    <2> SUFFICES ASSUME LedgerInv, NEW cadence \in 1..clock, NEW since \in 0..clock
                 PROVE  LET found == GapsSince(runs, since, clock, cadence)
                        IN  /\ \A w \in Windows :
                                 /\ since <= w.start /\ w.end - w.start > cadence
                                 /\ \A p \in Instants(w) : StrictlyInside(p, w) => ~Collected(p)
                                 => \E i \in DOMAIN found :
                                       found[i].start <= w.start /\ w.end <= found[i].end
                            /\ \A i \in DOMAIN found :
                                 /\ found[i].end - found[i].start > cadence
                                 /\ \A p \in Instants(found[i]) :
                                       StrictlyInside(p, found[i]) => ~Collected(p)
      BY Zenon DEF LongGapsFound
    <2> DEFINE found == GapsSince(runs, since, clock, cadence)
               gaps == CoverageFor(runs, since, clock).gaps
    <2>1. /\ clock \in Nat /\ Ledger(runs) /\ since \in Int /\ since <= clock
          /\ cadence \in Nat /\ cadence >= 1
      BY DEF LedgerInv, TypeOK
    <2>2. /\ \A p \in Int : 2 * since < p /\ p < 2 * clock => (CollectedIn(runs, p) <=> ~InGap(gaps, p))
          /\ since < clock => GapsWithin(gaps, since, clock)
          /\ since = clock => gaps = IF CollectedIn(runs, 2 * since) THEN <<>>
                                     ELSE <<Interval(since, clock)>>
      BY <2>1, CoverageExact
    <2>3. found = LongOnes(gaps, cadence)
      BY Zenon DEF GapsSince, LongOnes, KeepLong, Long
    <2>4. Interval(since, clock) \in Intervals
      BY <2>1 DEF Interval, Intervals
    <2> HIDE DEF found, gaps
    <2>5. gaps \in Seq(Intervals)
      <3>1. CASE since < clock
        BY <2>2, <3>1 DEF GapsWithin
      <3>2. CASE since = clock
        <4>1. gaps = <<>> \/ gaps = <<Interval(since, clock)>>
          BY <2>2, <3>2
        <4>2. <<>> \in Seq(Intervals) /\ <<Interval(since, clock)>> \in Seq(Intervals)
          BY <2>4
        <4>3. QED
          BY <4>1, <4>2
      <3>3. QED
        BY <2>1, <3>1, <3>2
    <2>6. Listed(found) = {g \in Listed(gaps) : Long(g, cadence)}
      BY <2>3, <2>5, LongOnesListed
    <2>7. ASSUME NEW w \in Windows, since <= w.start, w.end - w.start > cadence,
                 \A p \in Instants(w) : StrictlyInside(p, w) => ~Collected(p)
          PROVE  \E i \in DOMAIN found : found[i].start <= w.start /\ w.end <= found[i].end
      <3>1. /\ w.start \in Nat /\ w.end \in Nat /\ w.start <= w.end /\ w.end <= clock
            /\ \A p : StrictlyInside(p, w) <=> 2 * w.start < p /\ p < 2 * w.end
            /\ \A p \in Int : StrictlyInside(p, w) => p \in Instants(w)
        BY <2>1, WindowNumbers
      <3>2. w.start < w.end /\ since < clock
        BY <2>1, <2>7, <3>1
      <3>3. \A p \in Int : 2 * w.start < p /\ p < 2 * w.end => InGap(gaps, p)
        <4>1. ASSUME NEW p \in Int, 2 * w.start < p, p < 2 * w.end
              PROVE  2 * since < p /\ p < 2 * clock /\ ~CollectedIn(runs, p)
          <5>1. ~Collected(p)
            BY <2>7, <3>1, <4>1
          <5>2. QED
            BY <2>1, <2>7, <3>1, <4>1, <5>1 DEF Collected, CollectedIn
        <4>2. QED
          BY <2>2, <4>1
      <3>4. GapsWithin(gaps, since, clock)
        BY <2>2, <3>2
      <3>5. PICK j \in DOMAIN gaps : gaps[j].start <= w.start /\ w.end <= gaps[j].end
        BY <2>1, <3>1, <3>2, <3>3, <3>4, StretchInGap
      <3>6. gaps[j].start \in Int /\ gaps[j].end \in Int
        BY <2>5, IntervalsListed
      <3>7. Long(gaps[j], cadence)
        BY <2>1, <2>7, <3>1, <3>5, <3>6 DEF Long
      <3>8. gaps[j] \in Listed(found)
        BY <2>6, <3>7 DEF Listed
      <3>9. PICK i \in DOMAIN found : found[i] = gaps[j]
        BY <3>8 DEF Listed
      <3>10. QED
        BY <3>5, <3>9
    <2>8. ASSUME NEW i \in DOMAIN found
          PROVE  /\ found[i].end - found[i].start > cadence
                 /\ \A p \in Instants(found[i]) : StrictlyInside(p, found[i]) => ~Collected(p)
      <3>1. found[i] \in Listed(found)
        BY DEF Listed
      <3>2. PICK j \in DOMAIN gaps : found[i] = gaps[j]
        BY <2>6, <3>1 DEF Listed
      <3>3. Long(found[i], cadence)
        BY <2>6, <3>1
      <3>4. gaps[j].start \in Int /\ gaps[j].end \in Int
        BY <2>5, IntervalsListed
      <3>5. gaps[j].end - gaps[j].start > cadence
        BY <3>2, <3>3 DEF Long
      <3>6. since < clock
        <4>1. SUFFICES ASSUME since = clock PROVE FALSE
          BY <2>1
        <4>2. j = 1 /\ gaps = <<Interval(since, clock)>>
          BY <2>2, <4>1
        <4>3. gaps[j].start = since /\ gaps[j].end = clock
          BY <4>2 DEF Interval
        <4>4. QED
          BY <2>1, <3>5, <4>1, <4>3
      <3>7. GapsWithin(gaps, since, clock)
        BY <2>2, <3>6
      <3>8. since <= gaps[j].start /\ gaps[j].end <= clock
        BY <3>7 DEF GapsWithin
      <3>9. ASSUME NEW p \in Instants(gaps[j]), StrictlyInside(p, gaps[j])
            PROVE  ~Collected(p)
        <4>1. p \in Int /\ 2 * gaps[j].start < p /\ p < 2 * gaps[j].end
          BY <3>4, <3>9 DEF Instants, StrictlyInside
        <4>2. 2 * since < p /\ p < 2 * clock
          BY <2>1, <3>4, <3>8, <4>1
        <4>3. InGap(gaps, p)
          BY <3>9 DEF InGap
        <4>4. QED
          BY <2>2, <4>1, <4>2, <4>3 DEF Collected, CollectedIn
      <3>10. QED
        BY <3>2, <3>5, <3>9
    <2>9. QED
      BY <2>7, <2>8 DEF found
  <1>2. QED
    BY <1>1, LedgerInvHolds, PTL
\* No step takes back what a successful run collected.
LEMMA SuccessesStay ==
  ASSUME LedgerInv, [Next]_vars, NEW i \in Successes(runs)
  PROVE  /\ i \in Successes(runs') /\ runs'[i].start = runs[i].start
         /\ runs'[i].end = runs[i].end
  <1>1. runs \in Seq(Run) /\ i \in DOMAIN runs /\ runs[i].result = "success"
    BY DEF LedgerInv, TypeOK, Successes
  <1>2. SUFFICES i \in DOMAIN runs' /\ runs'[i] = runs[i]
    BY <1>1 DEF Successes
  <1>3. ASSUME NEW row \in Run, runs' = Append(runs, row)
        PROVE  i \in DOMAIN runs' /\ runs'[i] = runs[i]
    BY <1>1, <1>3
  <1>4. ASSUME NEW id \in DOMAIN runs, NEW rows, CloseRun(id, rows), NEW result \in Result,
               rows = [runs EXCEPT ![id].result = result]
        PROVE  i \in DOMAIN runs' /\ runs'[i] = runs[i]
    <2>1. runs' = [runs EXCEPT ![id].result = result] /\ id # i
      BY <1>1, <1>4 DEF CloseRun
    <2>2. QED
      BY <1>1, <2>1
  <1>5. clock \in Nat
    BY DEF LedgerInv, TypeOK
  <1>6. CASE Tick \/ UNCHANGED vars
    BY <1>1, <1>6 DEF Tick, vars
  <1>7. ASSUME NEW mode \in Modes, NEW start \in 0..clock, NEW end \in 0..clock,
               BeginRun(mode, start, end)
        PROVE  i \in DOMAIN runs' /\ runs'[i] = runs[i]
    <2>1. NewRow(mode, start, end, clock, "running") \in Run
      BY <1>5, ReadsAssumption DEF NewRow, Run, Result
    <2>2. QED
      BY <1>3, <1>7, <2>1 DEF BeginRun, Begin
  <1>8. ASSUME NEW id \in DOMAIN runs,
               CloseRun(id, Finish(runs, id)) \/ CloseRun(id, Fail(runs, id))
        PROVE  i \in DOMAIN runs' /\ runs'[i] = runs[i]
    BY <1>4, <1>8 DEF Finish, Fail, Result
  <1>9. CASE SkipCycle
    <2>1. NewRow("incremental", clock, clock, clock, "skipped") \in Run
      BY <1>5 DEF NewRow, Run, Result, Mode
    <2>2. QED
      BY <1>3, <1>9, <2>1 DEF SkipCycle, Skip
  <1>10. QED
    BY <1>6, <1>7, <1>8, <1>9 DEF Next

\* A window once said to be complete stays so.
THEOREM CoverageIsKept == Spec => CoverageKept
  <1>1. ASSUME LedgerInv, LedgerInv', [Next]_vars, NEW w \in Windows,
               CoverageFor(runs, w.start, w.end).kind = "complete"
        PROVE  CoverageFor(runs', w.start, w.end).kind = "complete"
    <2>1. Ledger(runs) /\ Ledger(runs') /\ clock \in Nat
      BY <1>1 DEF LedgerInv, TypeOK, Ledger
    <2>2. w.start \in Int /\ w.end \in Int /\ w.start <= w.end
      BY <2>1, WindowNumbers
    <2>3. \A p \in (2 * w.start)..(2 * w.end) : CollectedIn(runs, p)
      BY <1>1, <2>1, <2>2, CompleteExact
    <2>4. \A p \in (2 * w.start)..(2 * w.end) : CollectedIn(runs', p)
      BY <1>1, <2>3, SuccessesStay DEF CollectedIn
    <2>5. QED
      BY <2>1, <2>2, <2>4, CompleteExact
  <1>2. LedgerInv /\ LedgerInv' /\ [Next]_vars
        => (\A w \in Windows : CoverageFor(runs, w.start, w.end).kind = "complete"
                               => CoverageFor(runs', w.start, w.end).kind = "complete")
    BY <1>1
  <1>3. QED
    BY <1>2, LedgerInvHolds, PTL DEF Spec, CoverageKept

LEMMA LastSuccessThere ==
  ASSUME LedgerInv, Successes(runs) # {}
  PROVE  IsLastSuccess(runs, LastSuccess(runs))
  <1> DEFINE S == Successes(runs)
  <1>1. S \subseteq DOMAIN runs /\ DOMAIN runs = 1..Len(runs) /\ Len(runs) \in Nat
        /\ S \subseteq Nat /\ S # {}
    BY DEF LedgerInv, TypeOK, Successes
  <1>2. IsFiniteSet(S)
    <2>1. IsFiniteSet(1..Len(runs))
      BY <1>1, FS_Interval
    <2>2. QED
      BY <1>1, <2>1, FS_Subset
  <1>3. \A i \in S : runs[i].end \in Int
    BY <1>1, RowOf DEF LedgerInv
  <1> DEFINE before == {q \in S \X S : \/ runs[q[2]].end < runs[q[1]].end
                                       \/ runs[q[1]].end = runs[q[2]].end /\ q[2] < q[1]}
  <1>4. \E i \in S : \A j \in S : \/ runs[j].end < runs[i].end
                                  \/ runs[j].end = runs[i].end /\ j <= i
    <2>1. \A q \in S \X S : q \in before <=> \/ runs[q[2]].end < runs[q[1]].end
                                             \/ runs[q[1]].end = runs[q[2]].end /\ q[2] < q[1]
      OBVIOUS
    <2>2. before \subseteq S \X S
      OBVIOUS
    <2> HIDE DEF before, S
    <2>3. \A i, j \in S : <<i, j>> \in before <=> \/ runs[j].end < runs[i].end
                                                  \/ runs[i].end = runs[j].end /\ j < i
      BY <2>1
    <2>4. IsOrder(S, before)
      <3>1. \A x \in S : <<x, x>> \notin before
        BY <1>1, <1>3, <2>3
      <3>2. \A x, y, z \in S : <<x, y>> \in before /\ <<y, z>> \in before => <<x, z>> \in before
        BY <1>1, <1>3, <2>3
      <3>3. \A x, y \in S : x # y => <<x, y>> \in before \/ <<y, x>> \in before
        BY <1>1, <1>3, <2>3
      <3>4. QED
        BY <2>2, <3>1, <3>2, <3>3 DEF IsOrder
    <2>5. 1 \in 1..Cardinality(S)
      <3>1. Cardinality(S) \in Nat /\ Cardinality(S) # 0
        BY <1>1, <1>2, FS_CardinalityType, FS_EmptySet
      <3>2. QED
        BY <3>1
    <2>6. PICK i \in S : PlaceIn(S, before, i) = 1
      BY <1>2, <2>4, <2>5, PlaceOnto
    <2>7. ASSUME NEW j \in S
          PROVE  runs[j].end < runs[i].end \/ (runs[j].end = runs[i].end /\ j <= i)
      <3>1. PlaceIn(S, before, j) \in Nat \ {0}
        BY <1>2, <2>4, PlaceType
      <3>2. <<j, i>> \notin before
        BY <1>2, <2>4, <2>6, <3>1, PlaceMonotonic
      <3>3. QED
        BY <1>1, <1>3, <2>3, <3>2
    <2>8. QED
      BY <2>7
  <1>5. \E i \in S : IsLastSuccess(runs, i)
    BY <1>4 DEF IsLastSuccess
  <1>6. QED
    BY <1>5 DEF LastSuccess

\* While deliveries end in the order of their windows, the status is about the
\* last of them.
THEOREM StaleIsSinceDelivery == Spec => []StaleSinceDelivery
  <1>1. LedgerInv => StaleSinceDelivery
    <2> DEFINE S == Successes(runs)
               all == {finished[i] : i \in S}
               m == LastSuccess(runs)
    <2>1. SUFFICES ASSUME LedgerInv, S # {},
                          \A i, j \in S : finished[i] < finished[j] => runs[i].end <= runs[j].end
                   PROVE  StatusFor.staleFor = clock - Max(all)
      BY DEF StaleSinceDelivery
    <2>2. /\ S \subseteq DOMAIN runs /\ runs # <<>> /\ runs \in Seq(Run)
          /\ \A i \in S : i \in Nat /\ runs[i].result = "success" /\ runs[i].end \in Int
                          /\ runs[i].started \in Int /\ finished[i] \in Nat
                          /\ finished[i] >= runs[i].started
      <3>1. S \subseteq DOMAIN runs /\ runs \in Seq(Run) /\ \A i \in S : runs[i].result = "success"
        BY <2>1 DEF LedgerInv, TypeOK, Successes
      <3>2. runs # <<>>
        BY <2>1, <3>1
      <3>3. \A row \in Run : row.started \in Int /\ row.end \in Int
        BY DEF Run
      <3>4. \A i \in DOMAIN runs : i \in Nat /\ runs[i] \in Run /\ i \in DOMAIN finished
        BY <2>1, <3>1 DEF LedgerInv, TypeOK
      <3>5. \A i \in DOMAIN runs : finished[i] \in Nat
        BY <2>1, <3>4 DEF LedgerInv, TypeOK
      <3>6. \A i \in S : finished[i] >= runs[i].started
        BY <2>1, <3>1 DEF LedgerInv, TypeOK
      <3>7. QED
        BY <3>1, <3>2, <3>3, <3>4, <3>5, <3>6
    <2>3. StatusFor.staleFor = clock - finished[m]
      BY <2>1, <2>2 DEF StatusFor
    <2>4. m \in S /\ \A j \in S : runs[j].end < runs[m].end \/ (runs[j].end = runs[m].end /\ j <= m)
      BY <2>1, LastSuccessThere DEF IsLastSuccess
    <2> HIDE DEF S, m
    <2>5. ASSUME NEW j \in S PROVE finished[j] <= finished[m]
      <3>1. SUFFICES ASSUME finished[m] < finished[j] PROVE FALSE
        BY <2>2, <2>4
      <3>2. runs[m].end <= runs[j].end
        BY <2>1, <2>4, <3>1
      <3>3. j <= m
        BY <2>2, <2>4, <3>2
      <3>4. j # m
        BY <2>2, <3>1
      <3>5. j < m
        BY <2>2, <2>4, <3>3, <3>4
      <3>6. j \in DOMAIN runs /\ m \in DOMAIN runs /\ runs[j].result # "running" /\ runs[m].result # "skipped"
        BY <2>2, <2>4
      <3>7. finished[j] <= runs[m].started
        BY <2>1, <3>5, <3>6 DEF LedgerInv, OneAfterAnother
      <3>8. QED
        BY <2>2, <2>4, <3>1, <3>7
    <2>6. Max(all) = finished[m]
      <3>1. finished[m] \in all /\ \A x \in all : x <= finished[m] /\ x \in Nat
        BY <2>2, <2>4, <2>5
      <3> HIDE DEF all
      <3>2. Max(all) \in all /\ \A y \in all : Max(all) >= y
        BY <3>1 DEF Max
      <3>3. QED
        BY <3>1, <3>2
    <2>7. QED
      BY <2>3, <2>6
  <1>2. QED
    BY <1>1, LedgerInvHolds, PTL
----------------------------------------------------------------------------
(* GET /earthquakes over a window (WindowAnswers).                         *)

\* Both ask the same of the ledger.
LEMMA SameCoverage ==
  ASSUME NEW rows, NEW s, NEW e
  PROVE  Answers!CoverageFor(rows, s, e) = CoverageFor(rows, s, e)
  <1>1. Answers!Successes(rows) = Successes(rows)
    BY DEF Answers!Successes, Successes
  <1>2. \A S : Answers!Cardinality(S) = Cardinality(S)
    BY Zenon DEF Answers!Cardinality, Cardinality
  <1>3. \A ids, rank, n : Answers!FirstBy(ids, rank, n) = FirstBy(ids, rank, n)
    BY Zenon DEF Answers!FirstBy, FirstBy, Answers!Min, Min, Answers!Cardinality, Cardinality
  <1>4. \A a, b : Answers!Interval(a, b) = Interval(a, b)
    BY DEF Answers!Interval, Interval
  <1>5. \A ids : Answers!WindowsOf(rows, ids) = WindowsOf(rows, ids)
    BY <1>2, <1>3, <1>4 DEF Answers!WindowsOf, WindowsOf
  <1>6. Answers!Covering(rows, s, e) = Covering(rows, s, e)
    BY <1>1, <1>5 DEF Answers!Covering, Covering
  <1>7. \A list : Answers!MergeIntervals(list) = MergeIntervals(list)
    BY Zenon DEF Answers!MergeIntervals, MergeIntervals, Answers!Absorb, Absorb,
                 Answers!FoldLeft, FoldLeft, Answers!MapThenFoldSet, MapThenFoldSet,
                 Answers!Max, Max
  <1>8. \A list : Answers!Subtract(s, e, list) = Subtract(s, e, list)
    BY Zenon, <1>4, <1>7
       DEF Answers!Subtract, Subtract, Answers!Sweep, Sweep, Answers!Interval, Interval,
           Answers!FoldLeft, FoldLeft, Answers!MapThenFoldSet, MapThenFoldSet,
           Answers!Max, Max, Answers!MergeIntervals, MergeIntervals, Answers!Absorb, Absorb
  <1>9. QED
    BY <1>4, <1>6, <1>8 DEF Answers!CoverageFor, CoverageFor

\* The events of a window.
Within(start, end) == {e \in Event : start <= Occurred[e] /\ Occurred[e] <= end}

Saved(e) == Answers!Stored(e)

\* What a successful run was about, is stored.
CollectionsSaved ==
  /\ Ledger(ledger)
  /\ \A i \in DOMAIN ledger : ledger[i].end <= clock
  /\ store \in Seq(Answers!Row)
  /\ wanted \subseteq Event
  /\ \A i \in Successes(ledger) : \A e \in Within(ledger[i].start, ledger[i].end) : Saved(e)
  /\ Answers!InProgress => LET last == Len(ledger)
                           IN  \A e \in Within(ledger[last].start, ledger[last].end) :
                                  e \in wanted \/ Saved(e)

Asking == request.stage \in {"listed", "found"}

RequestShaped ==
  /\ request.stage \in Answers!Stage
  /\ request.from \in Nat /\ request.to \in Nat /\ request.known \in Nat
  /\ Asking => request.from <= request.to
  /\ request.stage = "found" => request.from <= clock

Shows(i) == \E k \in DOMAIN request.rows : request.rows[k] = i

InWindow(i) == store[i].event \in Within(request.from, request.to)

\* What the page leaves out is on another one or outside the view.
PageAccounts ==
  Asking => /\ request.known <= Len(store)
            /\ \A i \in DOMAIN store : InWindow(i) => Shows(i) \/ Answers!Elsewhere(i)

AnswersInv ==
  /\ clock \in Nat
  /\ CollectionsSaved
  /\ RequestShaped
  /\ PageAccounts

\* As the clock goes on nothing of it is lost.
LEMMA ClockGoesOn ==
  ASSUME AnswersInv, clock' \in Nat, clock <= clock', UNCHANGED answersVars
  PROVE  AnswersInv'
  <1>1. ledger' = ledger /\ store' = store /\ wanted' = wanted /\ request' = request
    BY DEF answersVars
  <1>2. \A i \in DOMAIN ledger : ledger[i].end \in Int /\ ledger[i].end <= clock
    BY RowOf DEF AnswersInv, CollectionsSaved
  <1>3. \A e : Saved(e)' = Saved(e)
    BY <1>1 DEF Saved, Answers!Stored
  <1>4. \A start, end : Within(start, end)' = Within(start, end)
    BY DEF Within
  <1>5. CollectionsSaved'
    <2>1. Ledger(ledger)' /\ store' \in Seq(Answers!Row) /\ wanted' \subseteq Event
      BY <1>1 DEF AnswersInv, CollectionsSaved, Ledger
    <2>2. \A i \in DOMAIN ledger' : ledger'[i].end <= clock'
      BY <1>1, <1>2 DEF AnswersInv
    <2>3. Successes(ledger)' = Successes(ledger) /\ Answers!InProgress' = Answers!InProgress
      BY <1>1 DEF Successes, Answers!InProgress
    <2>4. QED
      BY <1>1, <1>3, <1>4, <2>1, <2>2, <2>3 DEF CollectionsSaved, AnswersInv
  <1>6. RequestShaped'
    BY <1>1 DEF AnswersInv, RequestShaped, Asking
  <1>7. PageAccounts'
    BY <1>1, <1>4 DEF AnswersInv, PageAccounts, Asking, InWindow, Shows, Answers!Elsewhere
  <1>8. QED
    BY <1>5, <1>6, <1>7 DEF AnswersInv

\* An instant at which an event of a collected window happened is collected
\* with it.
LEMMA CollectedMeansSaved ==
  ASSUME AnswersInv, NEW e \in Event, CollectedIn(ledger, 2 * Occurred[e])
  PROVE  Saved(e)
  <1>1. Occurred[e] \in Nat
    BY AnswersAssumption
  <1>2. PICK i \in Successes(ledger) :
           Inside(2 * Occurred[e], Interval(ledger[i].start, ledger[i].end))
    BY DEF CollectedIn
  <1>3. i \in DOMAIN ledger /\ Ledger(ledger)
    BY DEF Successes, AnswersInv, CollectionsSaved
  <1>4. ledger[i].start \in Int /\ ledger[i].end \in Int
    BY <1>3, RowOf
  <1>5. 2 * ledger[i].start <= 2 * Occurred[e] /\ 2 * Occurred[e] <= 2 * ledger[i].end
    BY <1>2, <1>3, RowOf DEF Inside
  <1>6. ledger[i].start <= Occurred[e] /\ Occurred[e] <= ledger[i].end
    BY <1>1, <1>4, <1>5
  <1>7. e \in Within(ledger[i].start, ledger[i].end)
    BY <1>6 DEF Within
  <1>8. QED
    BY <1>7 DEF AnswersInv, CollectionsSaved

\* Every event of a window that is complete is stored.
LEMMA CompleteIsStored ==
  ASSUME AnswersInv, NEW from \in Nat, NEW to \in Nat, from <= to, from <= clock,
         Answers!CoverageUpTo(from, to).kind = "complete",
         NEW e \in Within(from, to), Occurred[e] <= clock
  PROVE  Saved(e)
  <1> DEFINE upTo == IF to > clock THEN clock ELSE to
  <1>1. /\ e \in Event /\ Occurred[e] \in Nat /\ clock \in Nat /\ Ledger(ledger)
        /\ from <= Occurred[e] /\ Occurred[e] <= to
    BY AnswersAssumption DEF Within, AnswersInv, CollectionsSaved
  <1>2. upTo \in Int /\ from <= upTo /\ Occurred[e] <= upTo
    BY <1>1
  <1>3. CoverageFor(ledger, from, upTo).kind = "complete"
    BY SameCoverage DEF Answers!CoverageUpTo
  <1> HIDE DEF upTo
  <1>4. 2 * Occurred[e] \in (2 * from)..(2 * upTo)
    BY <1>1, <1>2
  <1>5. CollectedIn(ledger, 2 * Occurred[e])
    BY <1>1, <1>2, <1>3, <1>4, CompleteExact
  <1>6. QED
    BY <1>1, <1>5, CollectedMeansSaved

LEMMA SameFirst ==
  ASSUME NEW ids, NEW rank, NEW n
  PROVE  Answers!FirstBy(ids, rank, n) = FirstBy(ids, rank, n)
  BY Zenon DEF Answers!FirstBy, FirstBy, Answers!Min, Min, Answers!Cardinality, Cardinality

\* A page shows what there is beyond its cursor, up to its last item if it is full.
LEMMA PageComplete ==
  ASSUME AnswersInv, NEW from \in Nat, NEW to \in Nat, NEW asOf \in Nat, NEW after \in Nat,
         NEW page, page = Answers!Page(from, to, asOf, after),
         NEW i \in DOMAIN store, store[i].event \in Within(from, to)
  PROVE  \/ \E k \in DOMAIN page : page[k] = i
         \/ i <= after
         \/ Len(page) = Limit /\ \A k \in DOMAIN page : page[k] < i
         \/ store[i].stamp > asOf
  <1> DEFINE rest == {j \in DOMAIN store : /\ store[j].stamp <= asOf
                                          /\ from <= Occurred[store[j].event]
                                          /\ Occurred[store[j].event] <= to
                                          /\ j > after}
             rank == [j \in DOMAIN store |-> 0]
  <1>0. store \in Seq(Answers!Row)
    BY DEF AnswersInv, CollectionsSaved
  <1>1. Len(store) \in Nat /\ DOMAIN store = 1..Len(store)
    BY <1>0
  <1>2. store[i].stamp \in Nat
    <2>1. store[i] \in Answers!Row
      BY <1>0
    <2>2. QED
      BY <2>1 DEF Answers!Row
  <1>3. page = FirstBy(rest, rank, Limit)
    <2>1. rest = {j \in Answers!KnownAt(store, asOf) : /\ from <= Occurred[store[j].event]
                                                      /\ Occurred[store[j].event] <= to
                                                      /\ j > after}
      BY DEF Answers!KnownAt
    <2>2. page = Answers!FirstBy(rest, rank, Limit)
      BY Zenon, <2>1 DEF Answers!Page
    <2>3. QED
      BY <2>2, SameFirst
  <1>4. rest \in SUBSET Nat /\ IsFiniteSet(rest) /\ \A j \in rest : rank[j] = 0
    <2>1. IsFiniteSet(1..Len(store)) /\ rest \subseteq 1..Len(store)
      BY <1>1, FS_Interval
    <2>2. QED
      BY <1>1, <2>1, FS_Subset
  <1> HIDE DEF rest, rank
  <1>5. /\ page \in Seq(rest)
        /\ \A j \in rest : \/ \E k \in 1..Len(page) : page[k] = j
                           \/ /\ Len(page) = Limit
                              /\ \A k \in 1..Len(page) : RanksBefore(rank, page[k], j)
    <2>1. Limit \in Nat /\ \A j \in rest : rank[j] \in Int
      BY <1>4, AnswersAssumption
    <2>2. QED
      BY <1>3, <1>4, <2>1, FirstByPage
  <1>6. DOMAIN page = 1..Len(page) /\ \A k \in DOMAIN page : page[k] \in rest
    BY <1>5
  <1>7. \A j \in rest, k \in DOMAIN page : RanksBefore(rank, page[k], j) => page[k] < j
    <2>1. SUFFICES ASSUME NEW j \in rest, NEW k \in DOMAIN page, RanksBefore(rank, page[k], j)
                   PROVE  page[k] < j
      OBVIOUS
    <2>2. page[k] \in rest
      BY <1>6
    <2>3. rank[page[k]] = 0 /\ rank[j] = 0
      BY <1>4, <2>2
    <2>4. QED
      BY <2>1, <2>3 DEF RanksBefore
  <1>8. CASE i \in rest
    BY <1>5, <1>6, <1>7, <1>8
  <1>9. CASE i \notin rest
    BY <1>1, <1>2, <1>9 DEF rest, Within
  <1>10. QED
    BY <1>8, <1>9

\* The ledger after a statement that closes its newest row.
LEMMA NewestClosed ==
  ASSUME Ledger(ledger), Answers!InProgress, NEW result \in Result,
         NEW rows, rows = [ledger EXCEPT ![Len(ledger)].result = result]
  PROVE  /\ Ledger(rows) /\ DOMAIN rows = DOMAIN ledger /\ Len(rows) = Len(ledger)
         /\ Len(ledger) \in DOMAIN ledger
         /\ rows[Len(ledger)].result = result
         /\ \A i \in DOMAIN ledger : /\ rows[i].start = ledger[i].start
                                     /\ rows[i].end = ledger[i].end
                                     /\ i # Len(ledger) => rows[i].result = ledger[i].result
  <1> DEFINE n == Len(ledger)
             new == [ledger[n] EXCEPT !.result = result]
  <1>1. ledger \in Seq(Run) /\ n \in Nat /\ n \in DOMAIN ledger /\ DOMAIN ledger = 1..n
    BY DEF Ledger, Answers!InProgress
  <1>2. ledger[n] \in Run
    BY <1>1
  <1>3. new \in Run /\ new.result = result /\ new.start = ledger[n].start /\ new.end = ledger[n].end
    BY <1>2 DEF Run
  <1>4. rows = [ledger EXCEPT ![n] = new]
    OBVIOUS
  <1> HIDE DEF new
  <1>5. rows \in Seq(Run) /\ DOMAIN rows = DOMAIN ledger /\ Len(rows) = n
    BY <1>1, <1>3, <1>4
  <1>6. rows[n] = new /\ \A i \in DOMAIN ledger : i # n => rows[i] = ledger[i]
    BY <1>1, <1>4
  <1>7. \A i \in DOMAIN ledger : rows[i].start = ledger[i].start /\ rows[i].end = ledger[i].end
    BY <1>3, <1>6
  <1>8. \A i \in DOMAIN rows : rows[i].start <= rows[i].end
    BY <1>5, <1>7 DEF Ledger
  <1>9. QED
    BY <1>1, <1>3, <1>5, <1>6, <1>7, <1>8 DEF Ledger

LEMMA AnswersInvInductive ==
  ASSUME AnswersInv, [CoverageNext]_coverageVars, clock' \in Nat, clock <= clock'
  PROVE  AnswersInv'
  <1> DEFINE n == Len(ledger)
  <1>0. /\ clock \in Nat /\ Ledger(ledger) /\ store \in Seq(Answers!Row) /\ wanted \subseteq Event
        /\ \A i \in DOMAIN ledger : ledger[i].end <= clock
        /\ \A i \in Successes(ledger) : \A e \in Within(ledger[i].start, ledger[i].end) : Saved(e)
        /\ Answers!InProgress => \A e \in Within(ledger[n].start, ledger[n].end) :
                                    e \in wanted \/ Saved(e)
        /\ RequestShaped /\ PageAccounts
    BY DEF AnswersInv, CollectionsSaved
  <1>w. \A start, end : Within(start, end)' = Within(start, end) /\ Within(start, end) \subseteq Event
    BY DEF Within
  <1>r. \* The request stands still, and so do the rows.
        ASSUME request' = request, clock' = clock, store' = store
        PROVE  RequestShaped' /\ PageAccounts'
    BY <1>0, <1>r, <1>w
       DEF RequestShaped, PageAccounts, Asking, InWindow, Shows, Answers!Elsewhere
  <1>c. \* The collections stand still.
        ASSUME ledger' = ledger, store' = store, wanted' = wanted, clock' = clock
        PROVE  CollectionsSaved'
    <2>1. \A e : Saved(e)' = Saved(e)
      BY <1>c DEF Saved, Answers!Stored
    <2>2. Successes(ledger)' = Successes(ledger) /\ Answers!InProgress' = Answers!InProgress
      BY <1>c DEF Successes, Answers!InProgress
    <2>3. Ledger(ledger)' = Ledger(ledger)
      BY <1>c DEF Ledger
    <2>4. QED
      BY <1>0, <1>c, <1>w, <2>1, <2>2, <2>3 DEF CollectionsSaved
  <1>1. CASE UNCHANGED answersVars
    BY <1>1, ClockGoesOn
  <1>2. CASE Answers!Tick
    <2>1. UNCHANGED answersVars
      BY <1>2 DEF Answers!Tick, answersVars
    <2>2. QED
      BY <2>1, ClockGoesOn
  <1>3. ASSUME NEW start \in 0..clock, NEW end \in 0..clock, Answers!BeginRun(start, end)
        PROVE  AnswersInv'
    <2> DEFINE row == NewRow("manual", start, end, clock, "running")
    <2>1. /\ ledger' = Append(ledger, row) /\ wanted' = Within(start, end)
          /\ clock' = clock /\ store' = store /\ request' = request /\ start <= end
      BY <1>0, <1>3 DEF Answers!BeginRun, Answers!Begin, Answers!NewRow, NewRow, Answers!WindowOrdered, Within
    <2>2. row \in Run /\ row.start = start /\ row.end = end /\ row.result = "running"
      BY <1>0 DEF NewRow, Run, Mode, Result
    <2>3. /\ ledger \in Seq(Run) /\ n \in Nat /\ DOMAIN ledger = 1..n /\ Len(ledger) = n
      BY <1>0 DEF Ledger
    <2> HIDE DEF row, n
    <2>4. /\ ledger' \in Seq(Run) /\ DOMAIN ledger' = 1..(n + 1) /\ Len(ledger') = n + 1
          /\ ledger'[n + 1] = row /\ \A i \in 1..n : ledger'[i] = ledger[i]
      BY <2>1, <2>2, <2>3
    <2>5. 1..(n + 1) = 1..n \cup {n + 1}
      BY <2>3
    <2>6. Ledger(ledger)' /\ \A i \in DOMAIN ledger' : ledger'[i].end <= clock'
      <3>1. \A i \in 1..n : ledger'[i].start <= ledger'[i].end /\ ledger'[i].end <= clock'
        BY <1>0, <2>1, <2>3, <2>4 DEF Ledger
      <3>2. ledger'[n + 1].start <= ledger'[n + 1].end /\ ledger'[n + 1].end <= clock'
        BY <1>0, <2>1, <2>2, <2>4
      <3>3. QED
        BY <2>4, <2>5, <3>1, <3>2 DEF Ledger
    <2>7. \A e \in Event : Saved(e)' = Saved(e)
      BY <2>1 DEF Saved, Answers!Stored
    <2>8. ASSUME NEW i \in Successes(ledger)', NEW e \in Within(ledger'[i].start, ledger'[i].end)
          PROVE  Saved(e)'
      <3>1. i \in 1..n /\ ledger'[i] = ledger[i]
        BY <2>2, <2>4, <2>5 DEF Successes
      <3>2. i \in Successes(ledger)
        BY <2>3, <2>8, <3>1 DEF Successes
      <3>3. QED
        BY <1>0, <1>w, <2>7, <2>8, <3>1, <3>2
    <2>9. ASSUME NEW e \in Within(ledger'[Len(ledger')].start, ledger'[Len(ledger')].end)
          PROVE  e \in wanted'
      BY <2>1, <2>2, <2>4, <2>9
    <2>10. wanted' \subseteq Event
      BY <1>w, <2>1
    <2>11. CollectionsSaved'
      BY <1>0, <1>w, <2>1, <2>6, <2>7, <2>8, <2>9, <2>10 DEF CollectionsSaved
    <2>12. QED
      BY <1>0, <1>r, <2>1, <2>11 DEF AnswersInv
  <1>4. ASSUME NEW e \in Event, Answers!SaveEvent(e)
        PROVE  AnswersInv'
    <2> DEFINE row == [event |-> e, stamp |-> clock]
               len == Len(store)
    <2>1. /\ e \in wanted /\ wanted' = wanted \ {e}
          /\ store' = IF Answers!Stored(e) THEN store ELSE Append(store, row)
          /\ ledger' = ledger /\ clock' = clock /\ request' = request
      BY <1>4 DEF Answers!SaveEvent
    <2>2. row \in Answers!Row /\ row.event = e
      BY <1>0 DEF Answers!Row
    <2>3. len \in Nat /\ DOMAIN store = 1..len
      BY <1>0
    <2> HIDE DEF row, len
    <2>4. \/ store' = store
          \/ /\ store' \in Seq(Answers!Row) /\ Len(store') = len + 1
             /\ DOMAIN store' = 1..(len + 1) /\ store'[len + 1] = row
             /\ \A i \in DOMAIN store : store'[i] = store[i]
      BY <1>0, <2>1, <2>2 DEF len
    <2>5. /\ store' \in Seq(Answers!Row) /\ DOMAIN store \subseteq DOMAIN store'
          /\ len <= Len(store') /\ \A i \in DOMAIN store : store'[i] = store[i]
          /\ \A i \in DOMAIN store' : i \in DOMAIN store \/ i = len + 1
      BY <1>0, <2>3, <2>4 DEF len
    <2>6. Saved(e)'
      <3>1. CASE Answers!Stored(e)
        BY <2>1, <3>1 DEF Saved, Answers!Stored
      <3>2. CASE ~Answers!Stored(e)
        <4>1. store' = Append(store, row)
          BY <2>1, <3>2
        <4>2. len + 1 \in DOMAIN store' /\ store'[len + 1] = row
          BY <1>0, <2>2, <2>3, <4>1 DEF len
        <4>3. QED
          BY <2>2, <4>2 DEF Saved, Answers!Stored
      <3>3. QED
        BY <3>1, <3>2
    <2>7. \A x : Saved(x) => Saved(x)'
      BY <2>5 DEF Saved, Answers!Stored
    <2>8. Successes(ledger)' = Successes(ledger) /\ Answers!InProgress' = Answers!InProgress
          /\ Ledger(ledger)'
      BY <1>0, <2>1 DEF Successes, Answers!InProgress, Ledger
    <2>9. ASSUME Answers!InProgress, NEW x \in Within(ledger[n].start, ledger[n].end)
          PROVE  x \in wanted' \/ Saved(x)'
      BY <1>0, <2>1, <2>6, <2>7, <2>9
    <2>10. CollectionsSaved'
      BY <1>0, <1>w, <2>1, <2>5, <2>7, <2>8, <2>9 DEF CollectionsSaved
    <2>11. RequestShaped'
      BY <1>0, <2>1 DEF RequestShaped, Asking
    <2>12. PageAccounts'
      <3>1. ASSUME Asking PROVE request.known <= len /\ request.known \in Nat
        BY <1>0, <3>1 DEF PageAccounts, RequestShaped, len
      <3>2. ASSUME Asking, NEW i \in DOMAIN store', InWindow(i)'
            PROVE  Shows(i)' \/ Answers!Elsewhere(i)'
        <4>1. CASE i \in DOMAIN store
          <5>1. InWindow(i)
            BY <1>w, <2>1, <2>5, <3>2, <4>1 DEF InWindow
          <5>2. Shows(i) \/ Answers!Elsewhere(i)
            BY <1>0, <3>2, <4>1, <5>1 DEF PageAccounts
          <5>3. QED
            BY <2>1, <2>5, <4>1, <5>2 DEF Shows, Answers!Elsewhere
        <4>2. CASE i = len + 1
          <5>1. i > request.known
            BY <2>3, <3>1, <3>2, <4>2
          <5>2. QED
            BY <2>1, <5>1 DEF Answers!Elsewhere
        <4>3. QED
          BY <2>5, <3>2, <4>1, <4>2
      <3>3. Asking' = Asking
        BY <2>1 DEF Asking
      <3>4. Asking => request'.known <= Len(store')
        BY <2>1, <2>3, <2>5, <3>1, <1>0
      <3>5. QED
        BY <3>2, <3>3, <3>4 DEF PageAccounts
    <2>13. QED
      BY <1>0, <2>1, <2>10, <2>11, <2>12 DEF AnswersInv
  <1>5. ASSUME Answers!InProgress, NEW result \in {"success", "failure"},
               ledger' = [ledger EXCEPT ![n].result = result],
               result = "success" => wanted = {},
               wanted' = {}, clock' = clock, store' = store, request' = request
        PROVE  AnswersInv'
    <2>1. result \in Result
      BY DEF Result
    <2>a. /\ Ledger(ledger) /\ Answers!InProgress
      BY <1>0, <1>5
    <2> DEFINE rows == [ledger EXCEPT ![Len(ledger)].result = result]
    <2>b. /\ Ledger(rows) /\ DOMAIN rows = DOMAIN ledger /\ Len(rows) = Len(ledger)
          /\ Len(ledger) \in DOMAIN ledger /\ rows[Len(ledger)].result = result
          /\ \A i \in DOMAIN ledger : /\ rows[i].start = ledger[i].start
                                      /\ rows[i].end = ledger[i].end
                                      /\ i # Len(ledger) => rows[i].result = ledger[i].result
      BY <2>1, <2>a, NewestClosed
    <2>d. ledger' = rows
      BY <1>5
    <2> HIDE DEF rows
    <2>2. /\ Ledger(ledger') /\ DOMAIN ledger' = DOMAIN ledger /\ Len(ledger') = n
          /\ n \in DOMAIN ledger /\ ledger'[n].result = result
          /\ \A i \in DOMAIN ledger : /\ ledger'[i].start = ledger[i].start
                                      /\ ledger'[i].end = ledger[i].end
                                      /\ i # n => ledger'[i].result = ledger[i].result
      BY <2>b, <2>d
    <2>3. ~Answers!InProgress'
      BY <2>2, <1>5 DEF Answers!InProgress
    <2>4. \A e \in Event : Saved(e)' = Saved(e)
      BY <1>5 DEF Saved, Answers!Stored
    <2>5. ASSUME NEW i \in Successes(ledger)', NEW e \in Within(ledger'[i].start, ledger'[i].end)
          PROVE  Saved(e)'
      <3>1. i \in DOMAIN ledger /\ ledger'[i].result = "success"
        BY <2>2 DEF Successes
      <3>2. e \in Within(ledger[i].start, ledger[i].end) /\ e \in Event
        BY <1>w, <2>2, <2>5, <3>1
      <3>3. CASE i = n
        BY <1>0, <1>5, <2>2, <2>4, <3>1, <3>2, <3>3
      <3>4. CASE i # n
        <4>1. i \in Successes(ledger)
          BY <2>2, <3>1, <3>4 DEF Successes
        <4>2. QED
          BY <1>0, <2>4, <3>2, <4>1
      <3>5. QED
        BY <3>3, <3>4
    <2>6. \A i \in DOMAIN ledger' : ledger'[i].end <= clock'
      BY <1>0, <1>5, <2>2
    <2>7. Ledger(ledger)'
      BY <2>2 DEF Ledger
    <2>8. CollectionsSaved'
      BY <1>0, <1>5, <1>w, <2>3, <2>4, <2>5, <2>6, <2>7 DEF CollectionsSaved
    <2>9. QED
      BY <1>0, <1>r, <1>5, <2>8 DEF AnswersInv
  <1>6. CASE Answers!FinishRun
    <2>1. /\ Answers!InProgress /\ ledger' = [ledger EXCEPT ![n].result = "success"] /\ wanted = {}
          /\ wanted' = {} /\ clock' = clock /\ store' = store /\ request' = request
      BY <1>6 DEF Answers!FinishRun, Answers!Finish
    <2>2. QED
      BY <1>5, <2>1
  <1>7. CASE Answers!FailRun
    <2>1. /\ Answers!InProgress /\ ledger' = [ledger EXCEPT ![n].result = "failure"]
          /\ wanted' = {} /\ clock' = clock /\ store' = store /\ request' = request
      BY <1>7 DEF Answers!FailRun, Answers!Fail
    <2>2. QED
      BY <1>5, <2>1
  <1>8. CASE Answers!SwitchSource
    <2>1. /\ ledger' = ledger /\ store' = store /\ wanted' = wanted /\ clock' = clock
          /\ request' = request
      BY <1>8 DEF Answers!SwitchSource
    <2>2. QED
      BY <1>0, <1>c, <1>r, <2>1 DEF AnswersInv
  <1>9. ASSUME NEW from \in 0..AnswersMaxClock, NEW to \in 0..AnswersMaxClock, NEW asOf \in 0..clock,
               NEW after \in {0} \cup DOMAIN store, Answers!ListEvents(from, to, asOf, after)
        PROVE  AnswersInv'
    <2> DEFINE page == Answers!Page(from, to, asOf, after)
    <2>1. /\ ledger' = ledger /\ store' = store /\ wanted' = wanted /\ clock' = clock
          /\ from <= to
          /\ request' = [Answers!NoRequest EXCEPT
                           !.stage = "listed", !.from = from, !.to = to, !.asOf = asOf,
                           !.after = after, !.rows = page, !.known = Len(store)]
      BY <1>9 DEF Answers!ListEvents
    <2>2. from \in Nat /\ to \in Nat /\ asOf \in Nat /\ after \in Nat /\ Len(store) \in Nat
      BY <1>0, AnswersAssumption
    <2>3. \A i \in DOMAIN store : store[i].event \in Within(from, to)
             => \/ \E k \in DOMAIN page : page[k] = i
                \/ i <= after
                \/ Len(page) = Limit /\ \A k \in DOMAIN page : page[k] < i
                \/ store[i].stamp > asOf
      BY <2>2, PageComplete
    <2> HIDE DEF page
    <2>4. request' = [stage |-> "listed", from |-> from, to |-> to, asOf |-> asOf,
                      after |-> after, rows |-> page, known |-> Len(store), kind |-> "unknown"]
      BY <2>1 DEF Answers!NoRequest
    <2>5. RequestShaped'
      BY <2>1, <2>2, <2>4 DEF RequestShaped, Answers!Stage, Asking
    <2>6. PageAccounts'
      <3>1. request'.known <= Len(store')
        BY <2>1, <2>2, <2>4
      <3>2. ASSUME NEW i \in DOMAIN store', InWindow(i)'
            PROVE  Shows(i)' \/ Answers!Elsewhere(i)'
        <4>1. i \in DOMAIN store /\ store[i].event \in Within(from, to)
          BY <1>w, <2>1, <2>4, <3>2 DEF InWindow
        <4>2. QED
          BY <2>1, <2>3, <2>4, <4>1 DEF Shows, Answers!Elsewhere
      <3>3. QED
        BY <3>1, <3>2 DEF PageAccounts
    <2>7. QED
      BY <1>0, <1>c, <2>1, <2>5, <2>6 DEF AnswersInv
  <1>10. ASSUME NEW kind,
                request' = [Answers!NoRequest EXCEPT !.stage = "answered", !.kind = kind],
                ledger' = ledger, store' = store, wanted' = wanted, clock' = clock
         PROVE  AnswersInv'
    <2>1. request' = [stage |-> "answered", from |-> 0, to |-> 0, asOf |-> 0, after |-> 0,
                      rows |-> <<>>, known |-> 0, kind |-> kind]
      BY <1>10 DEF Answers!NoRequest
    <2>2. RequestShaped' /\ PageAccounts'
      BY <2>1 DEF RequestShaped, PageAccounts, Asking, Answers!Stage
    <2>3. QED
      BY <1>0, <1>c, <1>10, <2>2 DEF AnswersInv
  <1>11. CASE Answers!AnswerPlain
    BY <1>10, <1>11 DEF Answers!AnswerPlain, Answers!Answer
  <1>12. CASE Answers!LookUpSource
    <2>1. /\ ledger' = ledger /\ store' = store /\ wanted' = wanted /\ clock' = clock
          /\ request.stage = "listed" /\ request.from <= clock
      BY <1>12 DEF Answers!LookUpSource
    <2>2. CASE enabled
      <3>1. request' = [request EXCEPT !.stage = "found"]
        BY <1>12, <2>2 DEF Answers!LookUpSource
      <3>0. DOMAIN request' = DOMAIN request
        BY <3>1
      <3>2. /\ request'.from = request.from /\ request'.to = request.to
            /\ request'.known = request.known /\ request'.rows = request.rows
            /\ request'.asOf = request.asOf /\ request'.after = request.after
        BY <3>1
      <3>3. request'.stage \in {"found", "listed"} /\ (request'.stage = "found" \/ request' = request)
        BY <2>1, <3>1
      <3>4. RequestShaped'
        BY <1>0, <2>1, <3>2, <3>3 DEF RequestShaped, Asking, Answers!Stage
      <3>5. PageAccounts'
        BY <1>0, <1>w, <2>1, <3>2, <3>3
           DEF PageAccounts, Asking, InWindow, Shows, Answers!Elsewhere
      <3>6. QED
        BY <1>0, <1>c, <2>1, <3>4, <3>5 DEF AnswersInv
    <2>3. CASE ~enabled
      <3>1. request' = [Answers!NoRequest EXCEPT !.stage = "answered", !.kind = "none"]
        BY <1>12, <2>3 DEF Answers!LookUpSource, Answers!Answer
      <3>2. QED
        BY <1>10, <2>1, <3>1
    <2>4. QED
      BY <2>2, <2>3
  <1>13. CASE Answers!Cover
    BY <1>10, <1>13 DEF Answers!Cover, Answers!Answer
  <1>14. CASE Answers!InternalError
    <2>1. /\ ledger' = ledger /\ store' = store /\ wanted' = wanted /\ clock' = clock
          /\ request' = Answers!NoRequest
      BY <1>14 DEF Answers!InternalError
    <2>2. RequestShaped' /\ PageAccounts'
      BY <2>1 DEF RequestShaped, PageAccounts, Asking, Answers!NoRequest, Answers!Stage
    <2>3. QED
      BY <1>0, <1>c, <2>1, <2>2 DEF AnswersInv
  <1>15. CASE StepOfAnswers
    BY <1>15, <1>2, <1>3, <1>4, <1>6, <1>7, <1>8, <1>9, <1>11, <1>12, <1>13, <1>14
       DEF StepOfAnswers, Answers!Next
  <1>16. QED
    BY <1>1, <1>15 DEF CoverageNext, StepOfLedger, coverageVars

LEMMA CoverageInvInductive ==
  ASSUME LedgerInv, AnswersInv, [CoverageNext]_coverageVars
  PROVE  LedgerInv' /\ AnswersInv'
  <1>1. clock \in Nat
    BY DEF AnswersInv
  <1>2. CASE StepOfLedger
    <2>1. LedgerInv' /\ UNCHANGED answersVars
      BY <1>2, LedgerInvInductive DEF StepOfLedger
    <2>2. clock' \in Nat /\ clock <= clock'
      BY <1>1, <1>2 DEF StepOfLedger, Next, Tick, BeginRun, CloseRun, SkipCycle
    <2>3. QED
      BY <2>1, <2>2, ClockGoesOn
  <1>3. CASE StepOfAnswers
    <2>1. UNCHANGED <<runs, finished>>
      BY <1>3 DEF StepOfAnswers
    <2>2. clock' = clock \/ clock' = clock + 1
      BY <1>3 DEF StepOfAnswers, Answers!Next, Answers!Tick, Answers!BeginRun, Answers!SaveEvent,
           Answers!FinishRun, Answers!FailRun, Answers!SwitchSource, Answers!ListEvents,
           Answers!AnswerPlain, Answers!LookUpSource, Answers!Cover, Answers!InternalError
    <2>3. clock' \in Nat /\ clock <= clock'
      BY <1>1, <2>2
    <2>4. LedgerInv'
      <3>1. \A i \in DOMAIN runs : runs[i].started \in Int /\ finished[i] \in Nat
        <4>1. \A row \in Run : row.started \in Int
          BY DEF Run
        <4>2. QED
          BY <4>1 DEF LedgerInv, TypeOK
      <3>2. NotLater'
        BY <1>1, <2>1, <2>3, <3>1 DEF LedgerInv, NotLater
      <3>3. QED
        BY <2>1, <2>3, <3>2 DEF LedgerInv, TypeOK, Ledger, OneAfterAnother
    <2>5. AnswersInv'
      BY <2>3, AnswersInvInductive
    <2>6. QED
      BY <2>4, <2>5
  <1>4. CASE UNCHANGED coverageVars
    <2>1. clock' = clock /\ runs' = runs /\ finished' = finished /\ UNCHANGED answersVars
      BY <1>4 DEF coverageVars, vars
    <2>2. LedgerInv'
      BY <2>1, LedgerInvInductive DEF vars
    <2>3. QED
      BY <1>1, <2>1, <2>2, ClockGoesOn
  <1>5. QED
    BY <1>2, <1>3, <1>4 DEF CoverageNext

\* No run of either ledger ends before it starts, and the events of a
\* collection that succeeded are stored.
THEOREM CoverageInvHolds == CoverageSpec => [](LedgerInv /\ AnswersInv)
  <1>1. CoverageInit => LedgerInv /\ AnswersInv
    <2> SUFFICES ASSUME CoverageInit PROVE LedgerInv /\ AnswersInv
      OBVIOUS
    <2>1. Init /\ Answers!Init
      BY DEF CoverageInit
    <2>2. LedgerInv
      BY <2>1 DEF Init, LedgerInv, TypeOK, Ledger, NotLater, OneAfterAnother
    <2>3. CollectionsSaved
      BY <2>1 DEF Answers!Init, CollectionsSaved, Ledger, Successes, Answers!InProgress
    <2>4. RequestShaped /\ PageAccounts
      BY <2>1 DEF Answers!Init, Answers!NoRequest, RequestShaped, PageAccounts, Asking, Answers!Stage
    <2>5. QED
      BY <2>1, <2>2, <2>3, <2>4 DEF AnswersInv, Init
  <1>2. LedgerInv /\ AnswersInv /\ [CoverageNext]_coverageVars => LedgerInv' /\ AnswersInv'
    BY CoverageInvInductive
  <1>3. QED
    BY <1>1, <1>2, PTL DEF CoverageSpec

\* The kinds of answer that coverage gives are given by Cover alone, to a request
\* whose events are listed.
LEMMA CoverSaysIt ==
  ASSUME AnswersInv, [CoverageNext]_coverageVars,
         request.stage # "answered", request'.stage = "answered",
         \/ request'.kind = "complete"
         \/ request'.kind = "none" /\ enabled
  PROVE  /\ Answers!Cover /\ Asking
         /\ request'.kind = Answers!CoverageUpTo(request.from, request.to).kind
         /\ request.from \in Nat /\ request.to \in Nat
         /\ request.from <= request.to /\ request.from <= clock
  <1>1. request' # request
    OBVIOUS
  <1>2. Answers!Next
    BY <1>1 DEF CoverageNext, StepOfLedger, StepOfAnswers, coverageVars, answersVars
  <1>3. \/ Answers!AnswerPlain \/ Answers!LookUpSource \/ Answers!Cover \/ Answers!InternalError
        \/ \E from, to, asOf, after : Answers!ListEvents(from, to, asOf, after)
    BY <1>1, <1>2
       DEF Answers!Next, Answers!Tick, Answers!BeginRun, Answers!SaveEvent,
           Answers!FinishRun, Answers!FailRun, Answers!SwitchSource
  <1>4. ASSUME NEW kind, Answers!Answer(kind)
        PROVE  request'.kind = kind
    BY <1>4 DEF Answers!Answer, Answers!NoRequest
  <1>5. ~Answers!AnswerPlain
    BY <1>4 DEF Answers!AnswerPlain
  <1>6. ~Answers!LookUpSource
    <2>1. SUFFICES ASSUME Answers!LookUpSource PROVE FALSE
      OBVIOUS
    <2>2. CASE enabled
      <3>1. request' = [request EXCEPT !.stage = "found"]
        BY <2>1, <2>2 DEF Answers!LookUpSource
      <3>2. QED
        BY <3>1
    <2>3. CASE ~enabled
      BY <1>4, <2>1, <2>3 DEF Answers!LookUpSource
    <2>4. QED
      BY <2>2, <2>3
  <1>7. ~Answers!InternalError
    BY DEF Answers!InternalError, Answers!NoRequest
  <1>8. ASSUME NEW from, NEW to, NEW asOf, NEW after, Answers!ListEvents(from, to, asOf, after)
        PROVE  FALSE
    BY <1>8 DEF Answers!ListEvents, Answers!NoRequest
  <1>9. Answers!Cover
    BY <1>3, <1>5, <1>6, <1>7, <1>8
  <1>10. request'.kind = Answers!CoverageUpTo(request.from, request.to).kind
         /\ request.stage = "found"
    BY <1>4, <1>9 DEF Answers!Cover
  <1>11. QED
    BY <1>9, <1>10 DEF AnswersInv, RequestShaped, Asking

\* "complete" is never said of a window some event of which is lost: it is stored,
\* and on the page, on another one or outside the view asked for.
THEOREM CompleteIsAccounted == CoverageSpec => CompleteAccountsForAll
  <1> DEFINE Page(i) == \E k \in DOMAIN request.rows : request.rows[k] = i
             Sound == Answers!Answered("complete") =>
                        \A e \in Answers!Happened : \E i \in DOMAIN store :
                           store[i].event = e /\ (Answers!Elsewhere(i) \/ Page(i))
  <1>1. AnswersInv /\ [CoverageNext]_coverageVars => Sound
    <2> SUFFICES ASSUME AnswersInv, [CoverageNext]_coverageVars,
                        request.stage # "answered", request'.stage = "answered",
                        request'.kind = "complete", NEW e \in Answers!Happened
                 PROVE  \E i \in DOMAIN store :
                           store[i].event = e /\ (Answers!Elsewhere(i) \/ Page(i))
      BY DEF Answers!Answered
    <2>1. /\ Answers!CoverageUpTo(request.from, request.to).kind = "complete"
          /\ Asking /\ request.from \in Nat /\ request.to \in Nat
          /\ request.from <= request.to /\ request.from <= clock
      BY CoverSaysIt
    <2>2. e \in Within(request.from, request.to) /\ Occurred[e] <= clock
      BY DEF Answers!Happened, Within
    <2>3. Saved(e)
      BY <2>1, <2>2, CompleteIsStored
    <2>4. PICK i \in DOMAIN store : store[i].event = e
      BY <2>3 DEF Saved, Answers!Stored
    <2>5. Shows(i) \/ Answers!Elsewhere(i)
      BY <2>1, <2>2, <2>4 DEF AnswersInv, PageAccounts, InWindow
    <2>6. QED
      BY <2>4, <2>5 DEF Shows
  <1>2. Sound => [Sound]_Answers!vars
    OBVIOUS
  <1>3. QED
    BY <1>1, CoverageInvHolds, PTL
       DEF CoverageSpec, CompleteAccountsForAll, Answers!CompleteAccountsForAll

\* "none" is never said of a window of an enabled source into which a
\* successful collection reaches.
THEOREM NoneIsUncollected == CoverageSpec => NoneMeansUncollected
  <1> DEFINE Reaching(i) == /\ ledger[i].start < ledger[i].end
                            /\ ledger[i].start < request.to /\ ledger[i].end > request.from
             Sound == Answers!Answered("none") /\ enabled
                        => ~\E i \in Answers!Successes(ledger) : Reaching(i)
  <1>1. AnswersInv /\ [CoverageNext]_coverageVars => Sound
    <2> SUFFICES ASSUME AnswersInv, [CoverageNext]_coverageVars,
                        request.stage # "answered", request'.stage = "answered",
                        request'.kind = "none", enabled,
                        NEW i \in Successes(ledger), Reaching(i)
                 PROVE  FALSE
      BY DEF Answers!Successes, Successes, Answers!Answered
    <2>2. Answers!Cover
      BY CoverSaysIt
    <2> DEFINE from == request.from
               to == request.to
               upTo == IF to > clock THEN clock ELSE to
               start == ledger[i].start
               end == ledger[i].end
    <2>3. /\ from \in Nat /\ to \in Nat /\ from <= to /\ from <= clock
          /\ clock \in Nat /\ Ledger(ledger) /\ i \in DOMAIN ledger
      BY CoverSaysIt DEF AnswersInv, CollectionsSaved, Successes
    <2>4. start \in Int /\ end \in Int /\ end <= clock
          /\ start < end /\ start < to /\ end > from
          /\ Interval(start, end).start = start /\ Interval(start, end).end = end
      BY <2>3, RowOf DEF AnswersInv, CollectionsSaved
    <2>5. CoverageFor(ledger, from, upTo).kind = "none"
      <3>1. request'.kind = Answers!CoverageUpTo(from, to).kind
        BY CoverSaysIt
      <3>2. QED
        BY <3>1, SameCoverage DEF Answers!CoverageUpTo
    <2>6. upTo \in Int /\ from <= upTo
      BY <2>3
    <2>7. \A p \in Int : 2 * start <= p /\ p <= 2 * end => CollectedIn(ledger, p)
      BY <2>4 DEF CollectedIn, Inside
    <2>8. start < upTo \/ (from = clock /\ upTo = clock) \/ upTo = to
      BY <2>3, <2>4
    <2> HIDE DEF from, to, upTo, start, end
    <2>9. /\ CoverageFor(ledger, from, upTo).kind # "complete"
          /\ \A p \in Int : 2 * from < p /\ p < 2 * upTo => ~CollectedIn(ledger, p)
      BY <2>3, <2>5, <2>6, NoneExact
    <2>10. CASE from < upTo
      <3> DEFINE later == IF start > from THEN start ELSE from
                 p == 2 * later + 1
      <3>1. start < upTo
        BY <2>3, <2>4, <2>6 DEF upTo
      <3>2. p \in Int /\ 2 * from < p /\ p < 2 * upTo /\ 2 * start <= p /\ p <= 2 * end
        BY <2>3, <2>4, <2>6, <2>10, <3>1
      <3> HIDE DEF p
      <3>3. QED
        BY <2>7, <2>9, <3>2
    <2>11. CASE from = upTo
      <3>1. start <= from
        BY <2>3, <2>4, <2>6, <2>11 DEF upTo
      <3>2. CollectedIn(ledger, 2 * from)
        BY <2>3, <2>4, <2>7, <3>1
      <3>3. \A p \in (2 * from)..(2 * upTo) : p = 2 * from
        BY <2>3, <2>11
      <3>4. QED
        BY <2>3, <2>6, <2>9, <3>2, <3>3, CompleteExact
    <2>12. QED
      BY <2>3, <2>6, <2>10, <2>11
  <1>2. Sound => [Sound]_Answers!vars
    OBVIOUS
  <1>3. QED
    BY <1>1, CoverageInvHolds, PTL
       DEF CoverageSpec, NoneMeansUncollected, Answers!NoneMeansUncollected
==============================================================================
