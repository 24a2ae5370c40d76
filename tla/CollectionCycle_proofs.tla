----------------------- MODULE CollectionCycle_proofs ------------------------
(***************************************************************************)
(* What one server's collections may be relied on for, proved for any      *)
(* window the source may hold, any size of page, number of attempts, pool  *)
(* and number of requests beside them: an outage is never taken for a      *)
(* quiet period, a window recorded as read was read to its end, and a      *)
(* cycle that is over leaves nothing taken.  The last part is about the    *)
(* same collections as QualityMarks has them: what they make of the mark   *)
(* on a record, for any tolerance, any threshold and any events.           *)
(***************************************************************************)
EXTENDS CollectionCycle, QualityMarks, Lists

\* The members of a list.
Listed(list) == {list[i] : i \in DOMAIN list}

Increasing(list) == \A i, j \in DOMAIN list : i < j => list[i] < list[j]

----------------------------------------------------------------------------
(* Invariants.                                                             *)

\* A request has as many attempts as it may have, and what it returns as a page
\* the source said.
ClientInv ==
  /\ ClientTypeOK
  /\ pc = "start" => attempt = 0
  /\ pc \in {"retry", "sleep"} => attempt < MaxAttempts
  /\ QuietIsSaid

\* Whoever holds a connection does not wait for another, and waits once.
PoolInv ==
  /\ queue \in Seq(User)
  /\ \A i, j \in DOMAIN queue : queue[i] = queue[j] => i = j
  /\ holders \cap Waiting = {}

\* Who holds or awaits a connection, and why.
HoldInv ==
  /\ PoolInv
  /\ "statement" \in holders \cup Waiting => AtStatement
  /\ "lock" \in holders \cup Waiting => phase \notin {"idle", "skip"}
  /\ lock = "ours" => "lock" \in holders /\ phase \in {"begin", "collect", "end", "release"}

\* How many features of the window have been taken.
Taken == IF stage = "fetching" THEN offset - 1 ELSE offset - 1 + delivered

Counts ==
  /\ listing \in Listings
  /\ offset \in Nat \ {0} /\ delivered \in Nat /\ rejected \in Nat
  /\ stage \in Stage
  /\ stored \in Seq(Nat) /\ events \in Seq(Nat)

\* Every feature taken is stored, rejected, or still to be saved, in order.
Accounted ==
  /\ Taken <= Len(listing)
  /\ Increasing(stored) /\ Increasing(events)
  /\ \A i \in DOMAIN stored, j \in DOMAIN events : stored[i] < events[j]
  /\ \A k \in Listed(stored) : k \in 1..Taken /\ listing[k] = Field
  /\ \A k \in Listed(events) : k \in 1..Taken /\ Extractable(k)
  /\ \A k \in 1..Taken : listing[k] = Field => k \in Listed(stored) \cup Listed(events)
  /\ Len(stored) + Len(events) + rejected = Taken

\* A source that is asked, and one that answered, says "nothing" truthfully.
Truthful ==
  /\ stage \in {"fetching", "saving"} /\ source = "nothing" => Slice = <<>>
  /\ stage = "fetching" /\ said = "nothing" => Slice = <<>>

WalkInv ==
  /\ Counts
  /\ phase # "collect" => stage \notin {"fetching", "saving"}
  /\ stage # "saving" => events = <<>>
  /\ stage = "saving" => delivered = Len(Slice)
  /\ stage \in {"fetching", "saving", "complete"} => Accounted
  /\ stage = "complete" => Taken = Len(listing)
  /\ Truthful
----------------------------------------------------------------------------
(* One request.                                                            *)

LEMMA FetchKeeps ==
  ASSUME ClientInv, Fetch
  PROVE  ClientInv'
  <1>0. /\ pc \in PC /\ attempt \in 0..MaxAttempts /\ cancelled \in BOOLEAN
        /\ source \in Status \cup {"down"} /\ said \in Status \cup {"lost"}
        /\ result \in Outcome \cup {"none"} /\ (pc = "done" <=> result # "none")
        /\ MaxAttempts \in Nat \ {0}
    BY ClientAssumption DEF ClientInv, ClientTypeOK
  <1>1. CASE BeginAttempt
    BY <1>0, <1>1 DEF BeginAttempt, ClientInv, ClientTypeOK, QuietIsSaid, PC
  <1>2. CASE Request
    BY <1>0, <1>2 DEF Request, ClientInv, ClientTypeOK, QuietIsSaid, PC
  <1>3. CASE Accept
    <2>1. said \in Status \ {"failing"} /\ pc' = "done" /\ result' = said /\ said' = said
          /\ attempt' = attempt /\ cancelled' = cancelled /\ source' = source
      BY <1>0, <1>3 DEF Accept, Retryable, Return
    <2>2. said \in Outcome /\ said # "none"
      BY <2>1 DEF Status, Body, Outcome
    <2>3. QED
      BY <1>0, <2>1, <2>2 DEF ClientInv, ClientTypeOK, QuietIsSaid, PC
  <1>4. CASE FailAttempt
    <2>1. "unavailable" \in Outcome
      BY DEF Outcome
    <2>2. QED
      BY <1>0, <1>4, <2>1 DEF FailAttempt, Return, ClientInv, ClientTypeOK, QuietIsSaid, PC
  <1>5. CASE CheckContext
    <2>1. "unavailable" \in Outcome
      BY DEF Outcome
    <2>2. QED
      BY <1>0, <1>5, <2>1 DEF CheckContext, Return, ClientInv, ClientTypeOK, QuietIsSaid, PC
  <1>6. CASE Sleep
    <2>1. attempt < MaxAttempts
      BY <1>6 DEF Sleep, ClientInv
    <2>2. QED
      BY <1>0, <1>6, <2>1 DEF Sleep, ClientInv, ClientTypeOK, QuietIsSaid, PC
  <1>7. QED
    BY <1>1, <1>2, <1>3, <1>4, <1>5, <1>6 DEF Fetch

LEMMA AskStarts ==
  ASSUME ClientInv, Ask, source' \in Status \cup {"down"}
  PROVE  ClientInv'
  BY ClientAssumption DEF Ask, ClientInv, ClientTypeOK, QuietIsSaid, PC

LEMMA ClientStep == ClientInv /\ [Next]_vars => ClientInv'
  <1> SUFFICES ASSUME ClientInv, [Next]_vars PROVE ClientInv'
    OBVIOUS
  <1>0. source \in Status \cup {"down"}
    BY DEF ClientInv, ClientTypeOK
  <1>1. CASE UNCHANGED clientVars
    BY <1>1 DEF clientVars, ClientInv, ClientTypeOK, QuietIsSaid
  <1>2. CASE BeginRun
    BY <1>2, AskStarts DEF BeginRun, BeginWalk
  <1>3. CASE Save
    BY <1>1, <1>3 DEF Save, FailToSave, SaveEvent
  <1>4. CASE WalkOn
    <2>1. CASE Fetch
      BY <2>1, FetchKeeps
    <2>2. CASE TakePage
      BY <1>1, <2>2 DEF TakePage
    <2>3. CASE EndPage
      <3>1. CASE Ask /\ UNCHANGED source
        BY <1>0, <3>1, AskStarts
      <3>2. QED
        BY <1>1, <2>3, <3>1 DEF EndPage
    <2>4. QED
      BY <1>4, <2>1, <2>2, <2>3 DEF WalkOn, Walk
  <1>5. CASE Release
    BY <1>0, <1>5, AskStarts DEF Release, Forget
  <1>6. CASE Cycle
    BY <1>1, <1>2, <1>3, <1>4, <1>5, <1>6
       DEF Cycle, TryLock, FailToAsk, AcquireForStatement, RecordSkip, FailToBegin, CloseRun, EndWalk
  <1>7. CASE Surroundings
    <2>1. CASE ChangeSource
      BY <2>1 DEF ChangeSource, ClientInv, ClientTypeOK, QuietIsSaid
    <2>2. CASE Cancel
      BY <2>2 DEF Cancel, ClientInv, ClientTypeOK, QuietIsSaid
    <2>3. QED
      BY <1>7, <2>1, <2>2 DEF Surroundings
  <1>8. QED
    BY <1>1, <1>6, <1>7
       DEF Next, vars, TimerFires, Granted, Arrive, EndRequest, LockElsewhere

LEMMA CycleBegins == Init => ClientInv
  <1>1. Init => ClientInit
    BY DEF Init
  <1>2. ClientInit => ClientTypeOK
    <2>1. 0 \in 0..MaxAttempts
      BY ClientAssumption
    <2>2. ClientInit => attempt \in 0..MaxAttempts
      BY <2>1 DEF ClientInit
    <2>3. ClientInit => cancelled \in BOOLEAN
      BY DEF ClientInit
    <2>4. ClientInit => /\ pc \in PC /\ source \in Status \cup {"down"}
                        /\ said \in Status \cup {"lost"} /\ result \in Outcome \cup {"none"}
                        /\ (pc = "done" <=> result # "none")
      BY DEF ClientInit, PC
    <2>5. QED
      BY <2>2, <2>3, <2>4 DEF ClientTypeOK
  <1>3. ClientInit => QuietIsSaid /\ pc = "start" /\ attempt = 0
    BY DEF ClientInit, QuietIsSaid
  <1>4. QED
    BY <1>1, <1>2, <1>3 DEF ClientInv

\* An outage is never taken for a quiet period: what a request returns as a
\* page, the source said last.
THEOREM QuietIsWhatWasSaid == Spec => []QuietIsSaid
  <1>1. Init => ClientInv
    BY CycleBegins
  <1>2. ClientInv => QuietIsSaid
    BY DEF ClientInv
  <1>3. QED
    BY <1>1, <1>2, ClientStep, PTL DEF Spec

----------------------------------------------------------------------------
(* Connections.                                                            *)

\* A list of different members, with one of them taken out.
LEMMA OneTakenOut ==
  ASSUME NEW S, NEW list \in Seq(S), \A i, j \in DOMAIN list : list[i] = list[j] => i = j,
         NEW k \in DOMAIN list, NEW rest, rest = RemoveAt(list, k)
  PROVE  /\ rest \in Seq(S)
         /\ \A i, j \in DOMAIN rest : rest[i] = rest[j] => i = j
         /\ Listed(rest) = Listed(list) \ {list[k]}
  <1> DEFINE n == Len(list)
             head == SubSeq(list, 1, k - 1)
             tail == SubSeq(list, k + 1, n)
             at(i) == IF i < k THEN i ELSE i + 1
  <1>1. n \in Nat /\ DOMAIN list = 1..n /\ k \in 1..n /\ n = Len(list) /\ \A i \in 1..n : list[i] \in S
    OBVIOUS
  <1>2. /\ head \in Seq(S) /\ Len(head) = k - 1 /\ DOMAIN head = 1..(k - 1)
        /\ \A i \in 1..(k - 1) : head[i] = list[i]
    BY <1>1
  <1>3. /\ tail \in Seq(S) /\ Len(tail) = n - k /\ DOMAIN tail = 1..(n - k)
        /\ \A i \in 1..(n - k) : tail[i] = list[k + i]
    BY <1>1
  <1>4. rest = head \o tail
    BY <1>1 DEF RemoveAt
  <1> HIDE DEF head, tail, n
  <1>5. rest \in Seq(S) /\ Len(rest) = n - 1 /\ DOMAIN rest = 1..(n - 1)
    <2>1. head \in Seq(S) /\ tail \in Seq(S) /\ rest = head \o tail
      BY <1>2, <1>3, <1>4
    <2>2. rest \in Seq(S) /\ Len(rest) = Len(head) + Len(tail)
      BY <2>1
    <2>3. Len(head) = k - 1 /\ Len(tail) = n - k /\ k \in Int /\ n \in Nat /\ 1 <= k /\ k <= n
      BY <1>1, <1>2, <1>3
    <2>4. Len(rest) = n - 1
      BY <2>2, <2>3
    <2>5. QED
      BY <2>2, <2>4
  <1>6. \A i \in 1..(n - 1) : at(i) \in 1..n /\ at(i) # k /\ rest[i] = list[at(i)]
    <2>1. ASSUME NEW i \in 1..(n - 1), i < k PROVE rest[i] = list[i]
      BY <1>1, <1>2, <1>3, <1>4, <2>1
    <2>2. ASSUME NEW i \in 1..(n - 1), ~(i < k) PROVE rest[i] = list[i + 1]
      <3>1. i - (k - 1) \in 1..(n - k) /\ i > k - 1
        BY <1>1, <2>2
      <3>2. rest[i] = tail[i - (k - 1)]
        BY <1>1, <1>2, <1>3, <1>4, <3>1
      <3>3. QED
        BY <1>1, <1>3, <3>1, <3>2
    <2>3. QED
      BY <1>1, <2>1, <2>2
  <1>7. ASSUME NEW i \in 1..n, i # k
        PROVE  \E j \in 1..(n - 1) : at(j) = i
    <2>1. CASE i < k
      BY <1>1, <2>1
    <2>2. CASE i > k
      <3>1. i - 1 \in 1..(n - 1) /\ at(i - 1) = i
        BY <1>1, <2>2
      <3>2. QED
        BY <3>1
    <2>3. QED
      BY <1>1, <1>7, <2>1, <2>2
  <1>8. \A i, j \in 1..(n - 1) : at(i) = at(j) => i = j
    BY <1>1
  <1> HIDE DEF at
  <1>9. \A i, j \in DOMAIN rest : rest[i] = rest[j] => i = j
    BY <1>1, <1>5, <1>6, <1>8
  <1>10. Listed(rest) \subseteq Listed(list) \ {list[k]}
    BY <1>1, <1>5, <1>6 DEF Listed
  <1>11. Listed(list) \ {list[k]} \subseteq Listed(rest)
    <2>1. SUFFICES ASSUME NEW i \in 1..n, list[i] # list[k]
                   PROVE  \E j \in 1..(n - 1) : rest[j] = list[i]
      BY <1>1, <1>5 DEF Listed
    <2>2. PICK j \in 1..(n - 1) : at(j) = i
      BY <1>7, <2>1
    <2>3. QED
      BY <1>6, <2>2
  <1>12. QED
    BY <1>5, <1>9, <1>10, <1>11

LEMMA Acquired ==
  ASSUME PoolInv, NEW u \in User, Acquire(u)
  PROVE  PoolInv' /\ holders' = holders /\ Waiting' = Waiting \cup {u}
  <1> DEFINE n == Len(queue)
  <1>1. n \in Nat /\ n = Len(queue) /\ DOMAIN queue = 1..n /\ u \notin Waiting /\ u \notin holders
        /\ queue' = Append(queue, u) /\ holders' = holders
    BY DEF PoolInv, Acquire
  <1>2. /\ queue' \in Seq(User) /\ DOMAIN queue' = 1..(n + 1) /\ queue'[n + 1] = u
        /\ \A i \in 1..n : queue'[i] = queue[i]
    BY <1>1 DEF PoolInv
  <1>3. 1..(n + 1) = 1..n \cup {n + 1} /\ n + 1 \notin 1..n
    BY <1>1
  <1> HIDE DEF n
  <1>4. Waiting' = Waiting \cup {u}
    BY <1>1, <1>2, <1>3 DEF Waiting
  <1>5. \A i \in 1..n : queue[i] # u
    BY <1>1 DEF Waiting
  <1>6. \A i, j \in 1..(n + 1) : queue'[i] = queue'[j] => i = j
    BY <1>1, <1>2, <1>3, <1>5 DEF PoolInv
  <1>7. holders' \cap Waiting' = {}
    BY <1>1, <1>4 DEF PoolInv
  <1>8. QED
    BY <1>1, <1>2, <1>4, <1>6, <1>7 DEF PoolInv

LEMMA Served ==
  ASSUME PoolInv, Grant
  PROVE  PoolInv' /\ holders \subseteq holders' /\ holders' \cup Waiting' = holders \cup Waiting
  <1> DEFINE n == Len(queue)
  <1>1. /\ n \in Nat /\ n = Len(queue) /\ n >= 1 /\ DOMAIN queue = 1..n
        /\ holders' = holders \cup {queue[1]} /\ queue' = Tail(queue)
    BY DEF PoolInv, Grant
  <1>2. /\ queue' \in Seq(User) /\ DOMAIN queue' = 1..(n - 1)
        /\ \A i \in 1..(n - 1) : queue'[i] = queue[i + 1]
    BY <1>1 DEF PoolInv
  <1> HIDE DEF n
  <1>3. Waiting' = Waiting \ {queue[1]}
    <2>1. ASSUME NEW i \in 1..(n - 1) PROVE queue'[i] \in Waiting /\ queue'[i] # queue[1]
      <3>1. i + 1 \in 1..n /\ 1 \in 1..n /\ i + 1 # 1
        BY <1>1
      <3>2. QED
        BY <1>1, <1>2, <3>1 DEF Waiting, PoolInv
    <2>2. ASSUME NEW i \in 1..n, queue[i] # queue[1] PROVE queue[i] \in Waiting'
      <3>1. i - 1 \in 1..(n - 1) /\ (i - 1) + 1 = i
        BY <1>1, <2>2
      <3>2. queue'[i - 1] = queue[i]
        BY <1>2, <3>1
      <3>3. QED
        BY <1>2, <3>1, <3>2 DEF Waiting
    <2>3. QED
      BY <1>1, <1>2, <2>1, <2>2 DEF Waiting
  <1>4. queue[1] \in Waiting
    BY <1>1 DEF Waiting
  <1>5. \A i, j \in 1..(n - 1) : queue'[i] = queue'[j] => i = j
    <2>1. SUFFICES ASSUME NEW i \in 1..(n - 1), NEW j \in 1..(n - 1), queue'[i] = queue'[j]
                   PROVE  i = j
      OBVIOUS
    <2>2. queue[i + 1] = queue[j + 1] /\ i + 1 \in 1..n /\ j + 1 \in 1..n
      BY <1>1, <1>2, <2>1
    <2>3. i + 1 = j + 1
      BY <1>1, <2>2 DEF PoolInv
    <2>4. QED
      BY <2>3
  <1>6. holders' \cap Waiting' = {}
    BY <1>1, <1>3 DEF PoolInv
  <1>7. PoolInv'
    BY <1>2, <1>5, <1>6 DEF PoolInv
  <1>8. QED
    BY <1>1, <1>3, <1>4, <1>7

LEMMA GivenBack ==
  ASSUME PoolInv, NEW u, GiveBack(u)
  PROVE  PoolInv' /\ holders' = holders \ {u} /\ Waiting' = Waiting
         /\ u \notin holders' \cup Waiting'
  BY DEF PoolInv, GiveBack, Waiting

LEMMA NoLongerWaiting ==
  ASSUME PoolInv, NEW u, StopWaiting(u)
  PROVE  PoolInv' /\ holders' = holders /\ Waiting' = Waiting \ {u}
         /\ u \notin holders' \cup Waiting'
  <1>1. PICK k \in DOMAIN queue : queue[k] = u /\ queue' = RemoveAt(queue, k)
    BY DEF StopWaiting
  <1>2. queue \in Seq(User) /\ \A i, j \in DOMAIN queue : queue[i] = queue[j] => i = j
    BY DEF PoolInv
  <1> DEFINE rest == RemoveAt(queue, k)
  <1>3. /\ rest \in Seq(User) /\ Listed(rest) = Listed(queue) \ {queue[k]}
        /\ \A i, j \in DOMAIN rest : rest[i] = rest[j] => i = j
    BY <1>2, OneTakenOut
  <1>4. Listed(queue) = Waiting /\ Listed(queue)' = Waiting'
    BY DEF Listed, Waiting
  <1>5. queue' = rest /\ holders' = holders
    BY <1>1 DEF StopWaiting
  <1> HIDE DEF rest
  <1>6. Waiting' = Listed(rest)
    BY <1>4, <1>5 DEF Listed
  <1>7. Waiting' = Waiting \ {u} /\ u \in Waiting
    BY <1>1, <1>3, <1>4, <1>6 DEF Listed
  <1>8. QED
    BY <1>3, <1>5, <1>7 DEF PoolInv

\* A statement that is over leaves its connection, and no other.
LEMMA StatementOver ==
  ASSUME PoolInv, EndStatement
  PROVE  /\ PoolInv' /\ "statement" \notin holders' \cup Waiting'
         /\ holders' \subseteq holders /\ Waiting' \subseteq Waiting
         /\ "lock" \in holders => "lock" \in holders'
  BY GivenBack, NoLongerWaiting DEF EndStatement

LEMMA HoldStep == HoldInv /\ [Next]_vars => HoldInv'
  <1> SUFFICES ASSUME HoldInv, [Next]_vars PROVE HoldInv'
    OBVIOUS
  <1>0. /\ PoolInv
        /\ "statement" \in holders \cup Waiting => AtStatement
        /\ "lock" \in holders \cup Waiting => phase \notin {"idle", "skip"}
        /\ lock = "ours" => "lock" \in holders /\ phase \in {"begin", "collect", "end", "release"}
    BY DEF HoldInv
  <1>u. "lock" \in User /\ "statement" \in User /\ Handler \subseteq User
        /\ "lock" \notin Handler /\ "statement" \notin Handler
    BY CycleAssumption
  <1>a. AtStatement <=> \/ phase \in {"skip", "begin", "end"}
                        \/ phase = "collect" /\ stage = "saving" /\ events # <<>>
    BY DEF AtStatement
  <1>b. AtStatement' <=> \/ phase' \in {"skip", "begin", "end"}
                         \/ phase' = "collect" /\ stage' = "saving" /\ events' # <<>>
    BY DEF AtStatement
  <1>s. \* The pool, the phase and the lock stand still.
        ASSUME UNCHANGED <<poolVars, phase, lock>>, AtStatement => AtStatement'
        PROVE  HoldInv'
    BY <1>0, <1>s DEF poolVars, HoldInv, PoolInv, Waiting
  <1>1. CASE UNCHANGED vars
    BY <1>1, <1>a, <1>b, <1>s DEF vars, pagesVars
  <1>2. CASE TimerFires
    <2>1. phase = "idle" /\ phase' = "lock" /\ lock' = lock /\ Acquire("lock")
      BY <1>2 DEF TimerFires
    <2>2. PoolInv' /\ holders' = holders /\ Waiting' = Waiting \cup {"lock"}
      BY <1>0, <1>u, <2>1, Acquired
    <2>3. QED
      BY <1>0, <1>a, <2>1, <2>2 DEF HoldInv
  <1>3. CASE TryLock
    <2>1. phase = "lock" /\ "lock" \in holders /\ "statement" \notin holders \cup Waiting
      BY <1>0, <1>3, <1>a DEF TryLock
    <2>2. CASE lock = "free"
      <3>1. lock' = "ours" /\ phase' = "begin" /\ UNCHANGED poolVars
        BY <1>3, <2>2 DEF TryLock
      <3>2. QED
        BY <1>0, <2>1, <3>1 DEF poolVars, HoldInv, PoolInv, Waiting
    <2>3. CASE lock # "free"
      <3>1. phase' = "skip" /\ GiveBack("lock") /\ lock' = lock
        BY <1>3, <2>3 DEF TryLock
      <3>2. PoolInv' /\ holders' = holders \ {"lock"} /\ Waiting' = Waiting
            /\ "lock" \notin holders' \cup Waiting'
        BY <1>0, <3>1, GivenBack
      <3>3. QED
        BY <1>0, <2>1, <3>1, <3>2 DEF HoldInv
    <2>4. QED
      BY <2>2, <2>3
  <1>4. CASE FailToAsk
    <2>1. phase = "lock" /\ phase' = "idle" /\ lock' = lock
          /\ "statement" \notin holders \cup Waiting /\ lock # "ours"
      BY <1>0, <1>4, <1>a DEF FailToAsk
    <2>2. GiveBack("lock") \/ StopWaiting("lock")
      BY <1>4 DEF FailToAsk
    <2>3. PoolInv' /\ holders' \subseteq holders /\ Waiting' \subseteq Waiting
          /\ "lock" \notin holders' \cup Waiting'
      BY <1>0, <2>2, GivenBack, NoLongerWaiting
    <2>4. QED
      BY <2>1, <2>3 DEF HoldInv
  <1>5. CASE AcquireForStatement
    <2>1. AtStatement /\ Acquire("statement") /\ UNCHANGED <<pagesVars, phase, lock>>
      BY <1>5 DEF AcquireForStatement
    <2>2. PoolInv' /\ holders' = holders /\ Waiting' = Waiting \cup {"statement"}
      BY <1>0, <1>u, <2>1, Acquired
    <2>3. AtStatement'
      BY <1>a, <1>b, <2>1 DEF pagesVars
    <2>4. QED
      BY <1>0, <2>1, <2>2, <2>3 DEF HoldInv
  <1>6. ASSUME EndStatement, lock' = lock, phase' # phase => phase' \in {"idle", "release", "collect"},
               phase' = "idle" => phase = "skip",
               phase' = "release" => phase \in {"begin", "end"},
               phase' = "collect" => phase \in {"begin", "collect"}
        PROVE  HoldInv'
    <2>1. /\ PoolInv' /\ "statement" \notin holders' \cup Waiting'
          /\ holders' \subseteq holders /\ Waiting' \subseteq Waiting
          /\ "lock" \in holders => "lock" \in holders'
      BY <1>0, <1>6, StatementOver
    <2>2. QED
      BY <1>0, <1>6, <2>1 DEF HoldInv
  <1>7. CASE RecordSkip
    BY <1>6, <1>7 DEF RecordSkip
  <1>8. CASE BeginRun
    BY <1>6, <1>8 DEF BeginRun, EndStatement
  <1>9. CASE FailToBegin
    BY <1>6, <1>9 DEF FailToBegin
  <1>10. CASE Save
    BY <1>6, <1>10 DEF Save
  <1>11. CASE CloseRun
    BY <1>6, <1>11 DEF CloseRun
  <1>12. CASE WalkOn
    <2>1. UNCHANGED <<poolVars, phase, lock>>
      BY <1>12 DEF WalkOn
    <2>2. phase = "collect" /\ (stage = "fetching" \/ (stage = "saving" /\ events = <<>>))
      BY <1>12 DEF WalkOn, Walk, TakePage, EndPage
    <2>3. ~AtStatement
      BY <1>a, <2>2
    <2>4. QED
      BY <1>s, <2>1, <2>3
  <1>13. CASE EndWalk
    <2>1. phase = "collect" /\ phase' = "end" /\ lock' = lock /\ UNCHANGED poolVars
      BY <1>13 DEF EndWalk
    <2>2. AtStatement'
      BY <1>b, <2>1
    <2>3. QED
      BY <1>0, <2>1, <2>2 DEF poolVars, HoldInv, PoolInv, Waiting
  <1>14. CASE Release
    <2>1. phase = "release" /\ phase' = "idle" /\ lock' = "free" /\ GiveBack("lock")
          /\ "statement" \notin holders \cup Waiting
      BY <1>0, <1>14, <1>a DEF Release
    <2>2. PoolInv' /\ holders' = holders \ {"lock"} /\ Waiting' = Waiting
          /\ "lock" \notin holders' \cup Waiting'
      BY <1>0, <2>1, GivenBack
    <2>3. QED
      BY <2>1, <2>2 DEF HoldInv
  <1>15. ASSUME UNCHANGED <<pagesVars, phase, lock>>, PoolInv', holders' \cup Waiting' \subseteq holders \cup Waiting \cup Handler,
                "lock" \in holders => "lock" \in holders'
         PROVE  HoldInv'
    <2>1. AtStatement' = AtStatement
      BY <1>15 DEF pagesVars, AtStatement
    <2>2. "lock" \in holders' \cup Waiting' => "lock" \in holders \cup Waiting
      BY <1>15, <1>u
    <2>3. "statement" \in holders' \cup Waiting' => "statement" \in holders \cup Waiting
      BY <1>15, <1>u
    <2>4. QED
      BY <1>0, <1>15, <2>1, <2>2, <2>3 DEF HoldInv
  <1>16. CASE Granted
    BY <1>0, <1>15, <1>16, Served DEF Granted
  <1>17. ASSUME NEW r \in Handler, Arrive(r)
         PROVE  HoldInv'
    <2>1. PoolInv' /\ holders' = holders /\ Waiting' = Waiting \cup {r}
      BY <1>0, <1>17, <1>u, Acquired DEF Arrive
    <2>2. QED
      BY <1>15, <1>17, <2>1 DEF Arrive
  <1>18. ASSUME NEW r \in Handler, EndRequest(r)
         PROVE  HoldInv'
    <2>1. GiveBack(r) \/ StopWaiting(r)
      BY <1>18 DEF EndRequest
    <2>2. PoolInv' /\ holders' \subseteq holders /\ Waiting' \subseteq Waiting
          /\ ("lock" \in holders => "lock" \in holders')
      BY <1>0, <1>u, <2>1, GivenBack, NoLongerWaiting
    <2>3. QED
      BY <1>15, <1>18, <2>2 DEF EndRequest
  <1>19. CASE LockElsewhere
    <2>1. UNCHANGED <<pagesVars, poolVars, phase>> /\ lock' # "ours"
      BY <1>19 DEF LockElsewhere
    <2>2. AtStatement' = AtStatement
      BY <2>1 DEF pagesVars, AtStatement
    <2>3. QED
      BY <1>0, <2>1, <2>2 DEF poolVars, HoldInv, PoolInv, Waiting
  <1>20. CASE Surroundings /\ UNCHANGED <<poolVars, phase, lock>>
    <2>1. AtStatement => AtStatement'
      BY <1>20, <1>a, <1>b DEF Surroundings, pagesVars
    <2>2. QED
      BY <1>20, <1>s, <2>1
  <1>21. QED
    BY <1>1, <1>2, <1>3, <1>4, <1>5, <1>7, <1>8, <1>9, <1>10, <1>11, <1>12, <1>13, <1>14,
       <1>16, <1>17, <1>18, <1>19, <1>20 DEF Next, Cycle

\* A cycle that is over has left nothing taken: neither the lock nor a
\* connection.
THEOREM NothingIsLeftTaken == Spec => []NothingLeftTaken
  <1>1. Init => HoldInv
    <2>1. Init => holders = {} /\ queue = <<>> /\ phase = "idle" /\ lock = "free"
      BY DEF Init, PoolInit
    <2>2. QED
      BY <2>1 DEF HoldInv, PoolInv, Waiting
  <1>2. HoldInv => NothingLeftTaken
    BY DEF HoldInv, NothingLeftTaken, AtStatement
  <1>3. QED
    BY <1>1, <1>2, HoldStep, PTL DEF Spec

----------------------------------------------------------------------------
(* Parse, which goes through the features of a body.                       *)

KeepOne(found, k) == IF Extractable(k) THEN Append(found, k) ELSE found

\* acc holds what the loop has after each feature.
KeepSteps(acc, list) ==
  /\ acc[0] = <<>>
  /\ \A i \in 0..(Len(list) - 1) : acc[i + 1] = KeepOne(acc[i], list[i + 1])
  /\ Extracted(list) = acc[Len(list)]

LEMMA KeepFold ==
  ASSUME NEW list \in Seq(Nat)
  PROVE  \E acc : KeepSteps(acc, list)
  <1> DEFINE n == Len(list)
             V == Seq(Nat)
             base == <<>>
             step == [a \in V \X (1..n) |-> KeepOne(a[1], list[a[2]])]
             g == CHOOSE f : f = [t \in SUBSET (1..n) |->
                               IF t = {} THEN base
                               ELSE KeepOne(f[t \ {Max(t)}], list[Max(t)])]
             acc == [k \in 0..n |-> g[1..k]]
  <1>1. n \in Nat /\ DOMAIN list = 1..n /\ \A k \in 1..n : list[k] \in Nat
    OBVIOUS
  <1>2. step \in [V \X (1..n) -> V]
    <2>1. \A found \in V, k \in 1..n : KeepOne(found, list[k]) \in V
      BY <1>1 DEF KeepOne
    <2>2. QED
      BY <2>1
  <1>3. \A a \in V, k \in 1..n : step[<<a, k>>] = KeepOne(a, list[k])
    OBVIOUS
  <1>4. base \in V
    OBVIOUS
  <1> HIDE DEF step, base, V
  <1>5. PICK f \in [SUBSET (1..n) -> V] : IsFold(f, base, step, n)
    BY <1>1, <1>2, <1>4, FoldExists
  <1>6. f = [t \in SUBSET (1..n) |->
               IF t = {} THEN base ELSE KeepOne(f[t \ {Max(t)}], list[Max(t)])]
    <2>1. ASSUME NEW t \in SUBSET (1..n), t # {}
          PROVE  step[<<f[t \ {Max(t)}], Max(t)>>] = KeepOne(f[t \ {Max(t)}], list[Max(t)])
      <3>1. Max(t) \in 1..n
        BY <1>1, <2>1, MaxInside
      <3>2. f[t \ {Max(t)}] \in V
        OBVIOUS
      <3>3. QED
        BY <1>3, <3>1, <3>2
    <2>2. QED
      BY <1>5, <2>1 DEF IsFold
  <1>7. g = [t \in SUBSET (1..n) |->
               IF t = {} THEN base ELSE KeepOne(g[t \ {Max(t)}], list[Max(t)])]
    BY <1>6
  <1>8. Extracted(list) = g[1..n]
    <2>1. Extracted(list)
            = (CHOOSE f_1 : f_1 = [t \in SUBSET DOMAIN list |->
                 IF t = {} THEN base
                 ELSE KeepOne(f_1[t \ {Max(t)}], list[Max(t)])])[DOMAIN list]
      BY Zenon DEF Extracted, KeepOne, FoldLeft, MapThenFoldSet, base
    <2>2. QED
      BY <1>1, <2>1
  <1> HIDE DEF g
  <1>9. acc[0] = base
    <2>1. 1..0 = {} /\ 0 \in 0..n /\ {} \in SUBSET (1..n)
      BY <1>1
    <2>2. QED
      BY <1>7, <2>1
  <1>10. ASSUME NEW k \in 0..(n - 1)
         PROVE  acc[k + 1] = KeepOne(acc[k], list[k + 1])
    <2>1. k \in Nat /\ k \in 0..n /\ k + 1 \in 0..n /\ 1..(k + 1) \in SUBSET (1..n)
      BY <1>1
    <2>2. /\ 1..(k + 1) # {} /\ Max(1..(k + 1)) = k + 1
          /\ (1..(k + 1)) \ {k + 1} = 1..k
      BY <2>1, MaxOfPrefix
    <2>3. g[1..(k + 1)] = KeepOne(g[1..k], list[k + 1])
      BY <1>7, <2>1, <2>2
    <2>4. QED
      BY <2>1, <2>3
  <1>11. acc[n] = g[1..n]
    BY <1>1
  <1> HIDE DEF acc
  <1>12. QED
    BY <1>8, <1>9, <1>10, <1>11 DEF base, KeepSteps

\* A list that grows at its end.
LEMMA OneMore ==
  ASSUME NEW list \in Seq(Nat), NEW x \in Nat
  PROVE  /\ Append(list, x) \in Seq(Nat) /\ Len(Append(list, x)) = Len(list) + 1
         /\ Listed(Append(list, x)) = Listed(list) \cup {x}
         /\ Increasing(list) /\ (\A k \in Listed(list) : k < x) => Increasing(Append(list, x))
  <1> DEFINE m == Len(list)
  <1>1. m \in Nat /\ m = Len(list) /\ DOMAIN list = 1..m /\ DOMAIN Append(list, x) = 1..(m + 1)
        /\ Append(list, x) \in Seq(Nat) /\ Len(Append(list, x)) = m + 1
    OBVIOUS
  <1>2. Append(list, x)[m + 1] = x /\ \A i \in 1..m : Append(list, x)[i] = list[i]
    OBVIOUS
  <1> HIDE DEF m
  <1>3. 1..(m + 1) = 1..m \cup {m + 1}
    BY <1>1
  <1>4. Listed(Append(list, x)) = Listed(list) \cup {x}
    BY <1>1, <1>2, <1>3 DEF Listed
  <1>5. ASSUME Increasing(list), \A k \in Listed(list) : k < x
        PROVE  Increasing(Append(list, x))
    <2>1. \A i \in 1..m : list[i] < x
      BY <1>1, <1>5 DEF Listed
    <2>2. \A i, j \in 1..m : i < j => list[i] < list[j]
      BY <1>1, <1>5 DEF Increasing
    <2>3. \A i \in 1..(m + 1) : i \in 1..m \/ i = m + 1
      BY <1>3
    <2>4. \A i, j \in 1..(m + 1) : i < j => Append(list, x)[i] < Append(list, x)[j]
      <3>1. SUFFICES ASSUME NEW i \in 1..(m + 1), NEW j \in 1..(m + 1), i < j
                     PROVE  Append(list, x)[i] < Append(list, x)[j]
        OBVIOUS
      <3>2. i \in 1..m
        BY <1>1, <3>1
      <3>3. CASE j = m + 1
        BY <1>2, <2>1, <3>2, <3>3
      <3>4. CASE j \in 1..m
        BY <1>2, <2>2, <3>1, <3>2, <3>4
      <3>5. QED
        BY <2>3, <3>3, <3>4
    <2>5. QED
      BY <1>1, <2>4 DEF Increasing
  <1>6. QED
    BY <1>1, <1>4, <1>5

\* What is extracted of a list in order is what can be, in order.
LEMMA ExtractedIs ==
  ASSUME NEW list \in Seq(Nat), Increasing(list)
  PROVE  /\ Extracted(list) \in Seq(Nat) /\ Increasing(Extracted(list))
         /\ Listed(Extracted(list)) = {k \in Listed(list) : Extractable(k)}
         /\ Len(Extracted(list)) <= Len(list)
  <1> DEFINE n == Len(list)
             Upto(k) == {x \in {list[i] : i \in 1..k} : Extractable(x)}
  <1>1. n \in Nat /\ n = Len(list) /\ DOMAIN list = 1..n /\ \A k \in 1..n : list[k] \in Nat
    OBVIOUS
  <1> HIDE DEF n
  <1>2. PICK acc : /\ acc[0] = <<>>
                   /\ \A k \in 0..(n - 1) : acc[k + 1] = KeepOne(acc[k], list[k + 1])
                   /\ Extracted(list) = acc[n]
    BY <1>1, KeepFold DEF KeepSteps
  <1> DEFINE Good(k) == /\ acc[k] \in Seq(Nat) /\ Increasing(acc[k])
                        /\ Listed(acc[k]) = Upto(k) /\ Len(acc[k]) <= k
             T == {k \in Nat : k <= n => Good(k)}
  <1>3. 0 \in T
    <2>1. <<>> \in Seq(Nat) /\ Listed(<<>>) = {} /\ Increasing(<<>>) /\ Len(<<>>) <= 0
      BY DEF Listed, Increasing
    <2>2. Upto(0) = {}
      OBVIOUS
    <2>3. QED
      BY <1>2, <2>1, <2>2
  <1>4. ASSUME NEW k \in Nat, k + 1 <= n, Good(k)
        PROVE  Good(k + 1)
    <2> DEFINE x == list[k + 1]
               old == acc[k]
    <2>1. k \in 0..(n - 1) /\ k + 1 \in 1..n /\ 1..(k + 1) = 1..k \cup {k + 1}
          /\ \A i \in 1..k : i \in 1..n /\ i < k + 1
      BY <1>1, <1>4
    <2>2. acc[k + 1] = KeepOne(old, x)
      BY <1>2, <2>1
    <2>3. Upto(k + 1) = Upto(k) \cup {y \in {x} : Extractable(y)}
      BY <2>1
    <2>4. x \in Nat
      BY <1>1, <2>1
    <2>5. old \in Seq(Nat) /\ Increasing(old) /\ Listed(old) = Upto(k) /\ Len(old) <= k
      BY <1>4
    <2>6. \A y \in Listed(old) : y < x
      <3>1. \A i \in 1..k : list[i] < x
        BY <1>1, <2>1 DEF Increasing
      <3>2. QED
        BY <2>5, <3>1
    <2> HIDE DEF x, old, Upto
    <2>7. CASE Extractable(x)
      <3>1. acc[k + 1] = Append(old, x)
        BY <2>2, <2>7 DEF KeepOne
      <3>2. /\ Append(old, x) \in Seq(Nat) /\ Len(Append(old, x)) = Len(old) + 1
            /\ Listed(Append(old, x)) = Listed(old) \cup {x} /\ Increasing(Append(old, x))
        BY <2>4, <2>5, <2>6, OneMore
      <3>3. Len(old) \in Nat
        BY <2>5
      <3>4. Len(acc[k + 1]) <= k + 1
        BY <2>5, <3>1, <3>2, <3>3
      <3>5. Listed(acc[k + 1]) = Upto(k + 1)
        BY <2>3, <2>5, <2>7, <3>1, <3>2
      <3>6. QED
        BY <3>1, <3>2, <3>4, <3>5
    <2>8. CASE ~Extractable(x)
      <3>1. acc[k + 1] = old
        BY <2>2, <2>8 DEF KeepOne
      <3>2. Upto(k + 1) = Upto(k)
        BY <2>3, <2>8
      <3>3. Len(old) \in Nat
        BY <2>5
      <3>4. Len(acc[k + 1]) <= k + 1
        BY <2>5, <3>1, <3>3
      <3>5. QED
        BY <2>5, <3>1, <3>2, <3>4
    <2>9. QED
      BY <2>7, <2>8
  <1>5. \A k \in Nat : k \in T => k + 1 \in T
    <2> HIDE DEF Good
    <2>1. SUFFICES ASSUME NEW k \in Nat, k \in T, k + 1 <= n PROVE Good(k + 1)
      OBVIOUS
    <2>2. k <= n
      BY <1>1, <2>1
    <2>3. QED
      BY <1>4, <2>1, <2>2
  <1>6. Good(n)
    <2> HIDE DEF Good
    <2>1. T \subseteq Nat
      OBVIOUS
    <2>2. n \in T
      <3> HIDE DEF T
      <3>1. QED
        BY <1>1, <1>3, <1>5, <2>1, CountedUp
    <2>3. QED
      BY <1>1, <2>2
  <1>7. Upto(n) = {k \in Listed(list) : Extractable(k)}
    BY <1>1 DEF Listed
  <1>8. QED
    BY <1>1, <1>2, <1>6, <1>7

\* What the source holds at an offset inside its window, or right after it.
LEMMA SliceIs ==
  ASSUME listing \in Listings, offset \in Nat \ {0}, offset - 1 <= Len(listing)
  PROVE  /\ PageLimit \in Nat \ {0}
         /\ Slice \in Seq(Nat) /\ Increasing(Slice)
         /\ Listed(Slice) = offset..(offset - 1 + Len(Slice))
         /\ Len(Slice) <= PageLimit /\ offset - 1 + Len(Slice) <= Len(listing)
         /\ Len(Slice) < PageLimit => offset - 1 + Len(Slice) = Len(listing)
  <1> DEFINE n == Len(listing)
             p == PageLimit
             last == Min({n, offset + p - 1})
             m == last - offset + 1
  <1>1. n \in Nat
    BY PagesAssumption
  <1>2. p \in Nat \ {0}
    BY PagesAssumption DEF PageLimit
  <1>3. Slice = [i \in 1..m |-> offset + i - 1]
    BY DEF Slice
  <1> HIDE DEF n, p
  <1>4. last = IF n <= offset + p - 1 THEN n ELSE offset + p - 1
    <2>1. offset + p - 1 \in Nat
      BY <1>2
    <2>2. QED
      BY <1>1, <2>1, MinOfTwo
  <1> HIDE DEF last
  <1>5. m \in Nat /\ m <= p /\ offset - 1 + m <= n /\ (m < p => offset - 1 + m = n)
    BY <1>1, <1>2, <1>4 DEF n
  <1> HIDE DEF m
  <1>6. Slice \in Seq(Nat) /\ Len(Slice) = m /\ DOMAIN Slice = 1..m
    BY <1>3, <1>5
  <1>7. Increasing(Slice)
    BY <1>3, <1>5, <1>6 DEF Increasing
  <1>8. Listed(Slice) = offset..(offset - 1 + m)
    <2>1. ASSUME NEW k \in offset..(offset - 1 + m) PROVE k \in Listed(Slice)
      <3>1. k - offset + 1 \in 1..m /\ offset + (k - offset + 1) - 1 = k
        BY <1>5
      <3>2. QED
        BY <1>3, <1>6, <3>1 DEF Listed
    <2>2. ASSUME NEW i \in 1..m PROVE Slice[i] \in offset..(offset - 1 + m)
      BY <1>3, <1>5
    <2>3. QED
      BY <1>6, <2>1, <2>2 DEF Listed
  <1>9. QED
    BY <1>2, <1>5, <1>6, <1>7, <1>8 DEF n, p

----------------------------------------------------------------------------
(* A window.                                                               *)

\* What is left of a list in order, and what was its first.
LEMMA FirstTaken ==
  ASSUME NEW list \in Seq(Nat), list # <<>>, Increasing(list)
  PROVE  /\ Head(list) \in Nat /\ Tail(list) \in Seq(Nat) /\ Len(Tail(list)) = Len(list) - 1
         /\ Listed(list) = Listed(Tail(list)) \cup {Head(list)}
         /\ Increasing(Tail(list)) /\ \A k \in Listed(Tail(list)) : Head(list) < k
  <1> DEFINE n == Len(list)
             rest == Tail(list)
  <1>1. n \in Nat \ {0} /\ n = Len(list) /\ DOMAIN list = 1..n /\ Head(list) = list[1] /\ list[1] \in Nat
    OBVIOUS
  <1>2. rest \in Seq(Nat) /\ Len(rest) = n - 1 /\ DOMAIN rest = 1..(n - 1)
        /\ \A i \in 1..(n - 1) : rest[i] = list[i + 1]
    OBVIOUS
  <1> HIDE DEF n, rest
  <1>3. \A i \in 1..(n - 1) : i + 1 \in 1..n /\ 1 < i + 1
    BY <1>1
  <1>4. \A i \in 1..n : i = 1 \/ (i - 1 \in 1..(n - 1) /\ (i - 1) + 1 = i)
    BY <1>1
  <1>5. Listed(list) = Listed(rest) \cup {list[1]}
    <2>1. ASSUME NEW i \in 1..n PROVE list[i] \in Listed(rest) \cup {list[1]}
      <3>1. CASE i = 1
        BY <3>1
      <3>2. CASE i - 1 \in 1..(n - 1) /\ (i - 1) + 1 = i
        <4>1. rest[i - 1] = list[i]
          BY <1>2, <3>2
        <4>2. rest[i - 1] \in Listed(rest)
          BY <1>2, <3>2 DEF Listed
        <4>3. QED
          BY <4>1, <4>2
      <3>3. QED
        BY <1>4, <3>1, <3>2
    <2>2. Listed(rest) \subseteq Listed(list)
      <3>1. SUFFICES ASSUME NEW i \in 1..(n - 1) PROVE rest[i] \in Listed(list)
        BY <1>2 DEF Listed
      <3>2. rest[i] = list[i + 1] /\ i + 1 \in DOMAIN list
        BY <1>1, <1>2, <1>3
      <3>3. QED
        BY <3>2 DEF Listed
    <2>3. list[1] \in Listed(list)
      <3>1. 1 \in 1..n
        BY <1>1
      <3>2. QED
        BY <1>1, <3>1 DEF Listed
    <2>4. QED
      BY <1>1, <2>1, <2>2, <2>3 DEF Listed
  <1>6. \A i, j \in 1..n : i < j => list[i] < list[j]
    BY <1>1 DEF Increasing
  <1>7. Increasing(rest)
    <2>1. SUFFICES ASSUME NEW i \in 1..(n - 1), NEW j \in 1..(n - 1), i < j
                   PROVE  rest[i] < rest[j]
      BY <1>2 DEF Increasing
    <2>2. i + 1 \in 1..n /\ j + 1 \in 1..n /\ i + 1 < j + 1
      BY <1>1, <2>1
    <2>3. QED
      BY <1>2, <1>6, <2>2
  <1>8. ASSUME NEW i \in 1..(n - 1) PROVE list[1] < rest[i]
    <2>1. 1 \in 1..n
      BY <1>1
    <2>2. QED
      BY <1>2, <1>3, <1>6, <2>1
  <1>9. \A k \in Listed(rest) : list[1] < k
    BY <1>2, <1>8 DEF Listed
  <1>10. QED
    BY <1>1, <1>2, <1>5, <1>7, <1>9 DEF rest

\* The collection is where it was, and its window as it was read.
LEMMA WalkStays ==
  ASSUME WalkInv, UNCHANGED pagesVars, source' = source, said' \in {said, source, "lost"},
         phase' # "collect" => stage \notin {"fetching", "saving"}
  PROVE  WalkInv'
  <1>0. /\ listing' = listing /\ offset' = offset /\ stage' = stage /\ delivered' = delivered
        /\ events' = events /\ stored' = stored /\ rejected' = rejected
    BY DEF pagesVars
  <1>1. Slice' = Slice /\ Taken' = Taken
    BY <1>0 DEF Slice, Taken
  <1>2. Accounted => Accounted'
    BY <1>0, <1>1 DEF Accounted, Extractable
  <1>3. Counts'
    BY <1>0 DEF WalkInv, Counts
  <1>4. Truthful'
    BY <1>0, <1>1 DEF WalkInv, Truthful
  <1>5. QED
    BY <1>0, <1>1, <1>2, <1>3, <1>4 DEF WalkInv

\* A new collection, of which nothing is taken yet.
LEMMA WalkBegins ==
  ASSUME WalkInv, BeginWalk, phase = "begin", phase' = "collect"
  PROVE  WalkInv'
  <1>1. /\ listing' = listing /\ offset' = 1 /\ stage' = "fetching" /\ stored' = <<>> /\ rejected' = 0
        /\ events' = events /\ delivered' = delivered /\ said' = "lost" /\ SourceIsTruthful'
    BY DEF BeginWalk, Ask
  <1>2. events' = <<>>
    BY <1>1 DEF WalkInv
  <1>3. Counts'
    BY <1>1, <1>2 DEF WalkInv, Counts, Stage
  <1>4. Taken' = 0 /\ Len(listing') \in Nat
    BY <1>1, <1>3, PagesAssumption DEF Taken, Counts
  <1>5. Accounted'
    <2>1. Listed(<<>>) = {} /\ Increasing(<<>>) /\ Len(<<>>) = 0 /\ DOMAIN <<>> = {}
      BY DEF Listed, Increasing
    <2>2. 1..Taken' = {}
      BY <1>4
    <2>3. QED
      BY <1>1, <1>2, <1>4, <2>1, <2>2 DEF Accounted
  <1>6. Truthful'
    BY <1>1 DEF Truthful, SourceIsTruthful
  <1>7. QED
    BY <1>1, <1>2, <1>3, <1>5, <1>6 DEF WalkInv

\* A page is taken as the source holds it: an empty one, because it said so.
LEMMA PageTaken ==
  ASSUME ClientInv, WalkInv, TakePage, phase' = phase
  PROVE  WalkInv'
  <1>0. /\ stage = "fetching" /\ pc = "done" /\ events = <<>> /\ Counts /\ Accounted
        /\ phase = "collect" /\ Taken = offset - 1
    BY DEF TakePage, WalkInv, Taken
  <1>1. listing' = listing /\ offset' = offset /\ stored' = stored /\ source' = source /\ said' = said
    BY DEF TakePage, clientVars
  <1>2. Slice' = Slice
    BY <1>1 DEF Slice
  <1>3. CASE ~Readable
    <2>1. stage' = "failed" /\ delivered' = delivered /\ events' = events /\ rejected' = rejected
      BY <1>3 DEF TakePage
    <2>2. Counts'
      BY <1>0, <1>1, <2>1 DEF Counts, Stage
    <2>3. Truthful'
      BY <2>1 DEF Truthful
    <2>4. QED
      BY <1>0, <2>1, <2>2, <2>3 DEF WalkInv
  <1>4. CASE Readable
    <2>1. Features = Slice
      BY <1>0, <1>4 DEF Readable, Features, ClientInv, QuietIsSaid, WalkInv, Truthful
    <2>2. /\ stage' = "saving" /\ delivered' = Len(Slice) /\ events' = Extracted(Slice)
          /\ rejected' = rejected + Len(Slice) - Len(Extracted(Slice))
      BY <1>4, <2>1 DEF TakePage, CountFeatures
    <2> DEFINE m == Len(Slice)
               some == Extracted(Slice)
               n == Len(listing)
    <2>3. /\ Slice \in Seq(Nat) /\ Increasing(Slice) /\ Listed(Slice) = offset..(offset - 1 + m)
          /\ offset - 1 + m <= n
      BY <1>0, SliceIs DEF Counts, Accounted
    <2>4. /\ some \in Seq(Nat) /\ Increasing(some)
          /\ Listed(some) = {k \in Listed(Slice) : Extractable(k)} /\ Len(some) <= m
      BY <2>3, ExtractedIs
    <2>5. m \in Nat /\ Len(some) \in Nat /\ offset \in Nat \ {0} /\ rejected \in Nat /\ Len(stored) \in Nat
          /\ Len(events) = 0
      BY <1>0, <2>3, <2>4 DEF Counts
    <2>6. delivered' = m /\ events' = some /\ rejected' = rejected + m - Len(some)
      BY <2>2
    <2> HIDE DEF m, some, n
    <2>7. Taken' = offset - 1 + m
      BY <1>1, <2>2, <2>6 DEF Taken
    <2>8. Counts'
      <3>1. rejected' \in Nat
        BY <2>4, <2>5, <2>6
      <3>2. QED
        BY <1>0, <1>1, <2>2, <2>4, <2>5, <2>6, <3>1 DEF Counts, Stage
    <2>9. 1..(offset - 1 + m) = 1..(offset - 1) \cup offset..(offset - 1 + m)
      BY <2>5
    <2>10. Accounted'
      <3>1. Taken' <= Len(listing')
        BY <1>1, <2>3, <2>7 DEF n
      <3>2. Increasing(stored') /\ Increasing(events')
        BY <1>0, <1>1, <2>4, <2>6 DEF Accounted
      <3>3. \A k \in Listed(stored') : k \in 1..(offset - 1) /\ listing'[k] = Field
        BY <1>0, <1>1 DEF Accounted
      <3>4. \A k \in Listed(events') : k \in offset..(offset - 1 + m) /\ Extractable(k)'
        BY <1>1, <2>3, <2>4, <2>6 DEF Extractable
      <3>5. \A i \in DOMAIN stored', j \in DOMAIN events' : stored'[i] < events'[j]
        <4>1. ASSUME NEW i \in DOMAIN stored', NEW j \in DOMAIN events'
              PROVE  stored'[i] < events'[j]
          <5>1. stored'[i] \in 1..(offset - 1) /\ events'[j] \in offset..(offset - 1 + m)
            BY <3>3, <3>4 DEF Listed
          <5>2. QED
            BY <2>5, <5>1
        <4>2. QED
          BY <4>1
      <3>6. \A k \in 1..Taken' : listing'[k] = Field => k \in Listed(stored') \cup Listed(events')
        <4>1. ASSUME NEW k \in 1..(offset - 1), listing[k] = Field PROVE k \in Listed(stored)
          BY <1>0, <4>1 DEF Accounted, Listed
        <4>2. ASSUME NEW k \in offset..(offset - 1 + m), listing[k] = Field PROVE k \in Listed(some)
          BY <2>3, <2>4, <4>2 DEF Extractable, Field
        <4>3. QED
          BY <1>1, <2>6, <2>7, <2>9, <4>1, <4>2
      <3>7. Len(stored') + Len(events') + rejected' = Taken'
        <4>1. Len(stored) + 0 + rejected = offset - 1
          BY <1>0, <2>5 DEF Accounted
        <4>2. Len(stored') = Len(stored) /\ Len(events') = Len(some)
          BY <1>1, <2>6
        <4>3. QED
          BY <2>5, <2>6, <2>7, <4>1, <4>2
      <3>8. \A k \in Listed(stored') : k \in 1..Taken' /\ listing'[k] = Field
        BY <2>7, <2>9, <3>3
      <3>9. \A k \in Listed(events') : k \in 1..Taken' /\ Extractable(k)'
        BY <2>7, <2>9, <3>4
      <3>10. QED
        BY <3>1, <3>2, <3>5, <3>6, <3>7, <3>8, <3>9 DEF Accounted
    <2>11. Truthful'
      BY <1>0, <1>1, <1>2, <2>2 DEF WalkInv, Truthful
    <2>12. delivered' = Len(Slice')
      BY <1>2, <2>6 DEF m
    <2>13. QED
      BY <1>0, <2>2, <2>8, <2>10, <2>11, <2>12 DEF WalkInv
  <1>5. QED
    BY <1>3, <1>4

\* The next event is accounted for as soon as it leaves the page.
LEMMA EventSaved ==
  ASSUME WalkInv, SaveEvent, phase' = phase
  PROVE  WalkInv'
  <1> DEFINE e == Head(events)
             rest == Tail(events)
  <1>0. stage = "saving" /\ events # <<>> /\ Counts /\ Accounted /\ phase = "collect"
    BY DEF SaveEvent, WalkInv
  <1>1. /\ listing' = listing /\ offset' = offset /\ stage' = stage /\ delivered' = delivered
        /\ source' = source /\ said' = said /\ events' = rest
    BY DEF SaveEvent, clientVars
  <1>2. IF "range" \in listing[e]
        THEN stored' = Append(stored, e) /\ rejected' = rejected
        ELSE rejected' = rejected + 1 /\ stored' = stored
    BY DEF SaveEvent
  <1>3. /\ e \in Nat /\ rest \in Seq(Nat) /\ Len(rest) = Len(events) - 1
        /\ Listed(events) = Listed(rest) \cup {e}
        /\ Increasing(rest) /\ \A k \in Listed(rest) : e < k
    BY <1>0, FirstTaken DEF Counts, Accounted
  <1>4. Slice' = Slice /\ Taken' = Taken
    BY <1>1 DEF Slice, Taken
  <1> HIDE DEF e, rest
  <1>5. e \in 1..Taken /\ Extractable(e)
    BY <1>0, <1>3 DEF Accounted
  <1>6. \A k \in Listed(stored) : k < e
    <2>1. e \in Listed(events)
      BY <1>3
    <2>2. PICK j \in DOMAIN events : events[j] = e
      BY <2>1 DEF Listed
    <2>3. QED
      BY <1>0, <2>2 DEF Accounted, Listed
  <1>7. Len(stored) \in Nat /\ Len(events) \in Nat /\ rejected \in Nat /\ Taken \in Nat
        /\ Len(stored) + Len(events) + rejected = Taken
    BY <1>0 DEF Counts, Accounted, Taken
  <1>8. listing[e] \subseteq Field
    <2>1. e \in 1..Len(listing) /\ listing \in Seq(SUBSET Field)
      <3>1. Len(listing) \in Nat /\ listing \in Seq(SUBSET Field)
        BY <1>0, PagesAssumption DEF Counts
      <3>2. Taken <= Len(listing)
        BY <1>0 DEF Accounted
      <3>3. QED
        BY <1>5, <1>7, <3>1, <3>2
    <2>2. QED
      BY <2>1
  <1>9. "range" \in listing[e] <=> listing[e] = Field
    BY <1>5, <1>8 DEF Extractable, Field
  <1>10. /\ stored' \in Seq(Nat) /\ rejected' \in Nat /\ Increasing(stored')
         /\ Listed(stored') = Listed(stored) \cup {x \in {e} : listing[x] = Field}
         /\ Len(stored') + Len(rest) + rejected' = Taken
    <2>0. stored \in Seq(Nat) /\ Increasing(stored)
      BY <1>0 DEF Counts, Accounted
    <2>1. CASE "range" \in listing[e]
      <3>1. stored' = Append(stored, e) /\ rejected' = rejected
        BY <1>2, <2>1
      <3>2. /\ Append(stored, e) \in Seq(Nat) /\ Len(Append(stored, e)) = Len(stored) + 1
            /\ Listed(Append(stored, e)) = Listed(stored) \cup {e}
            /\ Increasing(Append(stored, e))
        BY <1>3, <1>6, <2>0, OneMore
      <3>3. Len(stored') + Len(rest) + rejected' = Taken
        <4>1. Len(stored') = Len(stored) + 1 /\ Len(rest) = Len(events) - 1 /\ rejected' = rejected
          BY <1>3, <3>1, <3>2
        <4>2. QED
          BY <1>7, <4>1
      <3>4. QED
        BY <1>7, <1>9, <2>1, <3>1, <3>2, <3>3
    <2>2. CASE "range" \notin listing[e]
      <3>1. stored' = stored /\ rejected' = rejected + 1
        BY <1>2, <2>2
      <3>2. Len(stored') + Len(rest) + rejected' = Taken
        BY <1>3, <1>7, <3>1
      <3>3. QED
        BY <1>7, <1>9, <2>0, <2>2, <3>1, <3>2
    <2>3. QED
      BY <2>1, <2>2
  <1>11. Counts'
    BY <1>0, <1>1, <1>3, <1>10 DEF Counts
  <1>12. Accounted'
    <2>1. Taken' <= Len(listing') /\ Increasing(stored') /\ Increasing(events')
      BY <1>0, <1>1, <1>3, <1>4, <1>10 DEF Accounted
    <2>2. \A k \in Listed(stored') : k \in 1..Taken' /\ listing'[k] = Field
      BY <1>0, <1>1, <1>4, <1>5, <1>10 DEF Accounted
    <2>3. \A k \in Listed(events') : k \in 1..Taken' /\ Extractable(k)'
      BY <1>0, <1>1, <1>3, <1>4 DEF Accounted, Extractable
    <2>4. \A i \in DOMAIN stored', j \in DOMAIN events' : stored'[i] < events'[j]
      <3>1. ASSUME NEW i \in DOMAIN stored', NEW j \in DOMAIN events'
            PROVE  stored'[i] < events'[j]
        <4>1. stored'[i] \in Listed(stored) \cup {e}
          BY <1>10 DEF Listed
        <4>2. rest[j] \in Listed(rest) /\ events'[j] = rest[j]
          BY <1>1, <3>1 DEF Listed
        <4>3. rest[j] \in Nat /\ e < rest[j]
          BY <1>1, <1>3, <3>1, <4>2
        <4>4. stored'[i] \in Nat
          BY <1>10, <3>1
        <4>5. stored'[i] <= e
          BY <1>6, <1>3, <4>1, <4>4
        <4>6. QED
          BY <1>3, <4>2, <4>3, <4>4, <4>5
      <3>2. QED
        BY <3>1
    <2>5. \A k \in 1..Taken' : listing'[k] = Field => k \in Listed(stored') \cup Listed(events')
      BY <1>0, <1>1, <1>3, <1>4, <1>10 DEF Accounted
    <2>6. Len(stored') + Len(events') + rejected' = Taken'
      BY <1>1, <1>4, <1>10
    <2>7. QED
      BY <2>1, <2>2, <2>3, <2>4, <2>5, <2>6 DEF Accounted
  <1>13. Truthful'
    BY <1>0, <1>1, <1>4 DEF WalkInv, Truthful
  <1>14. QED
    BY <1>0, <1>1, <1>4, <1>11, <1>12, <1>13 DEF WalkInv

\* A page that is not full ends the window; after a full one, the next is asked
\* for right where it ended.
LEMMA PageEnded ==
  ASSUME WalkInv, EndPage, phase' = phase
  PROVE  WalkInv'
  <1>0. /\ stage = "saving" /\ events = <<>> /\ Counts /\ Accounted /\ phase = "collect"
        /\ delivered = Len(Slice) /\ Taken = offset - 1 + delivered
    BY DEF EndPage, WalkInv, Taken
  <1>1. /\ listing' = listing /\ delivered' = delivered /\ events' = events
        /\ stored' = stored /\ rejected' = rejected
    BY DEF EndPage
  <1>2. /\ PageLimit \in Nat \ {0} /\ delivered <= PageLimit
        /\ delivered < PageLimit => Taken = Len(listing)
    <2>1. offset - 1 <= Len(listing) /\ listing \in Listings /\ offset \in Nat \ {0}
      <3>1. Len(listing) \in Nat /\ offset \in Nat \ {0} /\ delivered \in Nat /\ listing \in Listings
        BY <1>0, PagesAssumption DEF Counts
      <3>2. Taken <= Len(listing)
        BY <1>0 DEF Accounted
      <3>3. QED
        BY <1>0, <3>1, <3>2
    <2>2. QED
      BY <1>0, <2>1, SliceIs
  <1>3. delivered \in Nat /\ offset \in Nat \ {0}
    BY <1>0 DEF Counts
  <1>4. ASSUME Taken' = Taken PROVE Accounted'
    BY <1>0, <1>1, <1>4 DEF Accounted, Extractable
  <1>5. CASE delivered < PageLimit
    <2>1. stage' = "complete" /\ offset' = offset
      BY <1>5 DEF EndPage
    <2>2. Taken' = Taken
      BY <1>0, <1>1, <2>1 DEF Taken
    <2>3. Counts'
      BY <1>0, <1>1, <2>1 DEF Counts, Stage
    <2>4. Truthful'
      BY <2>1 DEF Truthful
    <2>5. QED
      BY <1>0, <1>1, <1>2, <1>4, <1>5, <2>1, <2>2, <2>3, <2>4 DEF WalkInv
  <1>6. CASE ~(delivered < PageLimit)
    <2>1. stage' = "fetching" /\ offset' = offset + PageLimit /\ said' = "lost" /\ source' = source
      BY <1>6 DEF EndPage, Ask
    <2>2. delivered = PageLimit
      BY <1>2, <1>3, <1>6
    <2>3. Taken' = Taken /\ offset' \in Nat \ {0}
      BY <1>0, <1>2, <1>3, <2>1, <2>2 DEF Taken
    <2>4. Counts'
      BY <1>0, <1>1, <2>1, <2>3 DEF Counts, Stage
    <2>5. source # "nothing"
      <3>1. Slice # <<>>
        BY <1>0, <1>2, <2>2
      <3>2. QED
        BY <1>0, <3>1 DEF WalkInv, Truthful
    <2>6. Truthful'
      BY <2>1, <2>5 DEF Truthful
    <2>7. QED
      BY <1>0, <1>1, <1>4, <2>1, <2>3, <2>4, <2>6 DEF WalkInv
  <1>7. QED
    BY <1>5, <1>6

LEMMA WalkStep == ClientInv /\ WalkInv /\ [Next]_vars => WalkInv'
  <1> SUFFICES ASSUME ClientInv, WalkInv, [Next]_vars PROVE WalkInv'
    OBVIOUS
  <1>1. CASE UNCHANGED vars
    BY <1>1, WalkStays DEF vars, clientVars, WalkInv
  <1>2. ASSUME UNCHANGED <<clientVars, pagesVars>>, phase = "collect" => phase' = "collect"
        PROVE  WalkInv'
    BY <1>2, WalkStays DEF clientVars, WalkInv
  <1>3. CASE TimerFires \/ Granted \/ LockElsewhere \/ \E r \in Handler : Arrive(r) \/ EndRequest(r)
    BY <1>2, <1>3 DEF TimerFires, Granted, LockElsewhere, Arrive, EndRequest
  <1>4. CASE TryLock \/ FailToAsk \/ AcquireForStatement \/ RecordSkip \/ FailToBegin \/ CloseRun
    BY <1>2, <1>4 DEF TryLock, FailToAsk, AcquireForStatement, RecordSkip, FailToBegin, CloseRun
  <1>5. CASE BeginRun
    BY <1>5, WalkBegins DEF BeginRun
  <1>6. CASE Save
    <2>1. phase = "collect" /\ phase' = phase
      BY <1>6 DEF Save
    <2>2. CASE FailToSave
      <3>1. /\ stage' = "failed" /\ events' = <<>>
            /\ UNCHANGED <<listing, offset, delivered, stored, rejected>>
        BY <2>2 DEF FailToSave
      <3>2. Counts'
        BY <3>1 DEF WalkInv, Counts, Stage
      <3>3. Truthful'
        BY <3>1 DEF Truthful
      <3>4. QED
        BY <3>1, <3>2, <3>3 DEF WalkInv
    <2>3. CASE SaveEvent
      BY <2>1, <2>3, EventSaved
    <2>4. QED
      BY <1>6, <2>2, <2>3 DEF Save
  <1>7. CASE WalkOn
    <2>1. phase = "collect" /\ phase' = phase
      BY <1>7 DEF WalkOn
    <2>2. CASE stage = "fetching" /\ Fetch /\ UNCHANGED pagesVars
      <3>1. source' = source /\ said' \in {said, source, "lost"}
        BY <2>2 DEF Fetch, BeginAttempt, Request, Accept, FailAttempt, CheckContext, Sleep
      <3>2. QED
        BY <2>1, <2>2, <3>1, WalkStays
    <2>3. CASE TakePage
      BY <2>1, <2>3, PageTaken
    <2>4. CASE EndPage
      BY <2>1, <2>4, PageEnded
    <2>5. QED
      BY <1>7, <2>2, <2>3, <2>4 DEF WalkOn, Walk
  <1>8. CASE EndWalk
    <2>1. stage \in {"complete", "failed"} /\ UNCHANGED <<clientVars, pagesVars>>
      BY <1>8 DEF EndWalk
    <2>2. QED
      BY <2>1, WalkStays DEF clientVars
  <1>9. CASE Release
    <2>1. /\ stage' = "idle" /\ offset' = 1 /\ delivered' = 0 /\ events' = <<>> /\ stored' = <<>>
          /\ rejected' = 0 /\ listing' = listing
      BY <1>9 DEF Release, Forget
    <2>2. Counts'
      BY <2>1 DEF WalkInv, Counts, Stage
    <2>3. Truthful'
      BY <2>1 DEF Truthful
    <2>4. QED
      BY <2>1, <2>2, <2>3 DEF WalkInv
  <1>10. CASE Surroundings /\ UNCHANGED <<poolVars, phase, lock>>
    <2>1. UNCHANGED pagesVars /\ SourceIsTruthful' /\ phase' = phase /\ said' = said
          /\ (source' = source \/ stage = "fetching")
      BY <1>10 DEF Surroundings, ChangeSource, Cancel
    <2>2. /\ listing' = listing /\ offset' = offset /\ stage' = stage /\ delivered' = delivered
          /\ events' = events /\ stored' = stored /\ rejected' = rejected
      BY <2>1 DEF pagesVars
    <2>3. Slice' = Slice /\ Taken' = Taken
      BY <2>2 DEF Slice, Taken
    <2>4. Accounted => Accounted'
      BY <2>2, <2>3 DEF Accounted, Extractable
    <2>5. Counts'
      BY <2>2 DEF WalkInv, Counts
    <2>6. Truthful'
      BY <2>1, <2>2, <2>3 DEF WalkInv, Truthful, SourceIsTruthful
    <2>7. QED
      BY <2>1, <2>2, <2>3, <2>4, <2>5, <2>6 DEF WalkInv
  <1>11. QED
    BY <1>1, <1>3, <1>4, <1>5, <1>6, <1>7, <1>8, <1>9, <1>10 DEF Next, Cycle

\* A collection that ends well has taken every feature of its window once and
\* accounted for it: saved in order, or counted as rejected.
THEOREM WindowsAreReadWhole == Spec => []WholeWindow
  <1>1. Init => ClientInv
    BY CycleBegins
  <1>2. Init => WalkInv
    <2> SUFFICES ASSUME Init PROVE WalkInv
      OBVIOUS
    <2>1. /\ listing \in Listings /\ offset = 1 /\ stage = "idle" /\ delivered = 0
          /\ events = <<>> /\ stored = <<>> /\ rejected = 0
      BY DEF Init, PagesInit
    <2>2. Counts
      BY <2>1 DEF Counts, Stage
    <2>3. QED
      BY <2>1, <2>2 DEF WalkInv, Truthful
  <1>3. ClientInv /\ WalkInv => WholeWindow
    <2> SUFFICES ASSUME WalkInv, stage = "complete" PROVE WholeWindow
      BY DEF WholeWindow
    <2>1. events = <<>> /\ Accounted /\ Taken = Len(listing) /\ Counts
      BY DEF WalkInv
    <2>2. Listed(events) = {} /\ Len(events) = 0
      BY <2>1 DEF Listed
    <2>3. DOMAIN listing = 1..Len(listing) /\ Len(stored) \in Nat /\ rejected \in Nat
      BY <2>1, PagesAssumption DEF Counts
    <2>4. Listed(stored) = {k \in DOMAIN listing : listing[k] = Field}
      BY <2>1, <2>2, <2>3 DEF Accounted
    <2>5. Len(stored) + rejected = Len(listing)
      BY <2>1, <2>2, <2>3 DEF Accounted
    <2>6. QED
      BY <2>1, <2>4, <2>5 DEF WholeWindow, Listed, Accounted, Increasing
  <1>4. QED
    BY <1>1, <1>2, <1>3, ClientStep, WalkStep, PTL DEF Spec
----------------------------------------------------------------------------
(* The marks: what one collection after another makes of the quality of a  *)
(* record, whatever its mode, its beginning and what it has seen.          *)

\* The state a check that fires gives a record.
Failing == {"suspect", "outlier", "delayed", "duplicate"}

\* A verdict that may be stored.
Storeable == [state : State \ {"unevaluated"}, rules : Seq(Rule)]

NamesItsChecks(verdict) == verdict.state = "valid" <=> verdict.rules = <<>>

\* A turn of Evaluate.
Look(verdict, check, e, c) == IF Fires(check.rule, e, c) THEN Fail(verdict, check) ELSE verdict

\* The rules among the first k checks that fire.
FiredOf(k, e, c) == {Checks[i].rule : i \in {j \in 1..k : Fires(Checks[j].rule, e, c)}}

LEMMA StatesAre ==
  State = {"valid", "delayed", "duplicate", "suspect", "outlier", "corrupted", "unevaluated"}
  <1>1. DOMAIN Severities = 1..7
    BY DEF Severities
  <1>2. \A i \in 1..7 : i = 1 \/ i = 2 \/ i = 3 \/ i = 4 \/ i = 5 \/ i = 6 \/ i = 7
    OBVIOUS
  <1>3. State = {Severities[i] : i \in 1..7}
    BY <1>1 DEF State, Range
  <1>4. /\ Severities[1] = "valid" /\ Severities[2] = "delayed" /\ Severities[3] = "duplicate"
        /\ Severities[4] = "suspect" /\ Severities[5] = "outlier" /\ Severities[6] = "corrupted"
        /\ Severities[7] = "unevaluated"
    BY DEF Severities
  <1>5. QED
    BY <1>2, <1>3, <1>4

LEMMA SeverityIs ==
  ASSUME NEW s \in State
  PROVE  Severity(s) \in 1..7 /\ Severities[Severity(s)] = s
  <1>1. DOMAIN Severities = 1..7
    BY DEF Severities
  <1>2. \E n \in DOMAIN Severities : Severities[n] = s
    BY DEF State, Range
  <1>3. QED
    BY <1>1, <1>2 DEF Severity

\* A check that fires leaves a mark.
LEMMA WorstFails ==
  ASSUME NEW a \in State \ {"unevaluated"}, NEW b \in Failing
  PROVE  Worst(a, b) \in State \ {"valid", "unevaluated"}
  <1>1. b \in State /\ b # "valid" /\ b # "unevaluated"
    BY StatesAre DEF Failing
  <1>2. CASE a # "valid"
    BY <1>1, <1>2 DEF Worst
  <1>3. CASE a = "valid"
    <2>1. Severities[1] = "valid" /\ \A i \in 2..7 : Severities[i] # "valid"
      BY DEF Severities
    <2>2. Severity(a) \in 1..7 /\ Severities[Severity(a)] = a
      BY SeverityIs
    <2>3. Severity(b) \in 1..7 /\ Severities[Severity(b)] = b
      BY <1>1, SeverityIs
    <2>4. Severity(a) = 1
      BY <1>3, <2>1, <2>2
    <2>5. Severity(b) > 1
      BY <1>1, <2>1, <2>3
    <2>6. QED
      BY <1>1, <2>4, <2>5 DEF Worst
  <1>4. QED
    BY <1>2, <1>3

LEMMA ChecksAre ==
  /\ DOMAIN Checks = 1..4
  /\ \A k \in 1..4 : Checks[k].rule \in Rule /\ Checks[k].state \in Failing
  /\ Checks[1].rule = "future_timestamp" /\ Checks[2].rule = "impossible_value"
  /\ Checks[3].rule = "late_arrival" /\ Checks[4].rule = "duplicate_in_response"
  <1>1. DOMAIN Checks = 1..4
    BY DEF Checks
  <1>2. /\ Checks[1] = [rule |-> "future_timestamp", state |-> "suspect"]
        /\ Checks[2] = [rule |-> "impossible_value", state |-> "outlier"]
        /\ Checks[3] = [rule |-> "late_arrival", state |-> "delayed"]
        /\ Checks[4] = [rule |-> "duplicate_in_response", state |-> "duplicate"]
    BY DEF Checks
  <1>3. ASSUME NEW k \in 1..4
        PROVE  Checks[k].rule \in Rule /\ Checks[k].state \in Failing
    <2>1. Checks[k].rule \in Rule
      BY <1>1 DEF Rule, Range
    <2>2. k = 1 \/ k = 2 \/ k = 3 \/ k = 4
      OBVIOUS
    <2>3. Checks[k].state \in Failing
      BY <1>2, <2>2 DEF Failing
    <2>4. QED
      BY <2>1, <2>3
  <1>4. QED
    BY <1>1, <1>2, <1>3

\* A member more at the end of a list.
LEMMA RangeOfAppend ==
  ASSUME NEW S, NEW list \in Seq(S), NEW x \in S
  PROVE  Range(Append(list, x)) = Range(list) \cup {x}
  <1>1. /\ DOMAIN Append(list, x) = 1..(Len(list) + 1) /\ DOMAIN list = 1..Len(list)
        /\ Append(list, x)[Len(list) + 1] = x
        /\ \A i \in 1..Len(list) : Append(list, x)[i] = list[i]
    OBVIOUS
  <1>2. 1..(Len(list) + 1) = 1..Len(list) \cup {Len(list) + 1}
    OBVIOUS
  <1>3. QED
    BY <1>1, <1>2 DEF Range

\* A turn keeps the verdict storeable, and adds its rule if its check fires.
LEMMA LookIs ==
  ASSUME NEW verdict \in Storeable, NamesItsChecks(verdict), NEW k \in 0..3, NEW e, NEW c,
         Range(verdict.rules) = FiredOf(k, e, c)
  PROVE  /\ Look(verdict, Checks[k + 1], e, c) \in Storeable
         /\ NamesItsChecks(Look(verdict, Checks[k + 1], e, c))
         /\ Range(Look(verdict, Checks[k + 1], e, c).rules) = FiredOf(k + 1, e, c)
  <1> DEFINE check == Checks[k + 1]
             next == Look(verdict, check, e, c)
  <1>0. k \in Nat /\ k + 1 \in 1..4
    OBVIOUS
  <1>1. k + 1 \in 1..4 /\ 1..(k + 1) = 1..k \cup {k + 1}
    BY <1>0
  <1>2. check.rule \in Rule /\ check.state \in Failing
    BY <1>1, ChecksAre
  <1>3. verdict.state \in State \ {"unevaluated"} /\ verdict.rules \in Seq(Rule)
    BY DEF Storeable
  <1>4. FiredOf(k + 1, e, c) = FiredOf(k, e, c) \cup {r \in {check.rule} : Fires(r, e, c)}
    BY <1>1 DEF FiredOf
  <1> HIDE DEF check
  <1>5. CASE Fires(check.rule, e, c)
    <2>1. next = [state |-> Worst(verdict.state, check.state),
                  rules |-> Append(verdict.rules, check.rule)]
      BY <1>5 DEF Look, Fail
    <2>2. next.state \in State \ {"valid", "unevaluated"}
      BY <1>2, <1>3, <2>1, WorstFails
    <2>3. /\ next.rules \in Seq(Rule) /\ next.rules # <<>>
          /\ Range(next.rules) = Range(verdict.rules) \cup {check.rule}
      BY <1>2, <1>3, <2>1, RangeOfAppend
    <2>4. next \in Storeable
      BY <2>1, <2>2, <2>3 DEF Storeable
    <2>5. NamesItsChecks(next)
      BY <2>2, <2>3 DEF NamesItsChecks
    <2>6. Range(next.rules) = FiredOf(k + 1, e, c)
      BY <1>4, <1>5, <2>3
    <2>7. QED
      BY <2>4, <2>5, <2>6 DEF check
  <1>6. CASE ~Fires(check.rule, e, c)
    <2>1. next = verdict
      BY <1>6 DEF Look
    <2>2. FiredOf(k + 1, e, c) = FiredOf(k, e, c)
      BY <1>4, <1>6
    <2>3. QED
      BY <2>1, <2>2 DEF check
  <1>7. QED
    BY <1>5, <1>6
\* acc holds what Evaluate has after each check.
LookSteps(acc, e, c) ==
  /\ acc[0] = [state |-> "valid", rules |-> <<>>]
  /\ \A k \in 0..3 : acc[k + 1] = Look(acc[k], Checks[k + 1], e, c)
  /\ Evaluate(e, c) = acc[4]

LEMMA LookFold ==
  ASSUME NEW e, NEW c
  PROVE  \E acc : LookSteps(acc, e, c)
  <1> DEFINE n == 4
             V == Storeable
             base == [state |-> "valid", rules |-> <<>>]
             step == [a \in V \X (1..n) |-> Look(a[1], Checks[a[2]], e, c)]
             g == CHOOSE f : f = [t \in SUBSET (1..n) |->
                               IF t = {} THEN base
                               ELSE Look(f[t \ {Max(t)}], Checks[Max(t)], e, c)]
             acc == [k \in 0..n |-> g[1..k]]
  <1>1. n \in Nat /\ DOMAIN Checks = 1..n /\ n = 4
    BY ChecksAre
  <1> HIDE DEF n
  <1>2. step \in [V \X (1..n) -> V]
    <2>1. ASSUME NEW v \in V, NEW k \in 1..n
          PROVE  Look(v, Checks[k], e, c) \in V
      <3>1. Checks[k].rule \in Rule /\ Checks[k].state \in Failing
        BY <1>1, ChecksAre
      <3>2. v.state \in State \ {"unevaluated"} /\ v.rules \in Seq(Rule)
        BY DEF Storeable
      <3>3. Worst(v.state, Checks[k].state) \in State \ {"valid", "unevaluated"}
        BY <3>1, <3>2, WorstFails
      <3>4. Append(v.rules, Checks[k].rule) \in Seq(Rule)
        BY <3>1, <3>2
      <3>5. Fail(v, Checks[k]) \in V
        BY <3>3, <3>4 DEF Fail, Storeable
      <3>6. QED
        BY <3>5 DEF Look
    <2> HIDE DEF V
    <2>2. QED
      BY <2>1
  <1>3. \A a \in V, k \in 1..n : step[<<a, k>>] = Look(a, Checks[k], e, c)
    OBVIOUS
  <1>4. base \in V
    <2>1. "valid" \in State \ {"unevaluated"}
      BY StatesAre
    <2>2. QED
      BY <2>1 DEF Storeable
  <1> HIDE DEF step, base, V
  <1>5. PICK f \in [SUBSET (1..n) -> V] : IsFold(f, base, step, n)
    BY <1>1, <1>2, <1>4, FoldExists
  <1>6. f = [t \in SUBSET (1..n) |->
               IF t = {} THEN base ELSE Look(f[t \ {Max(t)}], Checks[Max(t)], e, c)]
    <2>1. ASSUME NEW t \in SUBSET (1..n), t # {}
          PROVE  step[<<f[t \ {Max(t)}], Max(t)>>] = Look(f[t \ {Max(t)}], Checks[Max(t)], e, c)
      <3>1. Max(t) \in 1..n
        BY <1>1, <2>1, MaxInside
      <3>2. f[t \ {Max(t)}] \in V
        OBVIOUS
      <3>3. QED
        BY <1>3, <3>1, <3>2
    <2>2. QED
      BY <1>5, <2>1 DEF IsFold
  <1>7. g = [t \in SUBSET (1..n) |->
               IF t = {} THEN base ELSE Look(g[t \ {Max(t)}], Checks[Max(t)], e, c)]
    BY <1>6
  <1>8. Evaluate(e, c) = g[1..n]
    <2>1. Evaluate(e, c)
            = (CHOOSE f_1 : f_1 = [t \in SUBSET DOMAIN Checks |->
                 IF t = {} THEN base
                 ELSE Look(f_1[t \ {Max(t)}], Checks[Max(t)], e, c)])[DOMAIN Checks]
      BY Zenon DEF Evaluate, Look, FoldLeft, MapThenFoldSet, base
    <2>2. QED
      BY <1>1, <2>1
  <1> HIDE DEF g
  <1>9. acc[0] = base
    <2>1. 1..0 = {} /\ 0 \in 0..n /\ {} \in SUBSET (1..n)
      BY <1>1
    <2>2. QED
      BY <1>7, <2>1
  <1>10. ASSUME NEW k \in 0..(n - 1)
         PROVE  acc[k + 1] = Look(acc[k], Checks[k + 1], e, c)
    <2>1. k \in Nat /\ k \in 0..n /\ k + 1 \in 0..n /\ 1..(k + 1) \in SUBSET (1..n)
      BY <1>1
    <2>2. /\ 1..(k + 1) # {} /\ Max(1..(k + 1)) = k + 1
          /\ (1..(k + 1)) \ {k + 1} = 1..k
      BY <2>1, MaxOfPrefix
    <2>3. g[1..(k + 1)] = Look(g[1..k], Checks[k + 1], e, c)
      BY <1>7, <2>1, <2>2
    <2>4. QED
      BY <2>1, <2>3
  <1>11. acc[n] = g[1..n]
    BY <1>1
  <1> HIDE DEF acc
  <1>12. /\ acc[0] = base
         /\ \A k \in 0..3 : acc[k + 1] = Look(acc[k], Checks[k + 1], e, c)
         /\ Evaluate(e, c) = acc[4]
    <2>1. 0..(n - 1) = 0..3
      BY <1>1
    <2>2. QED
      BY <1>1, <1>8, <1>9, <1>10, <1>11, <2>1
  <1>13. QED
    BY <1>12 DEF base, LookSteps

\* A verdict may be stored, has a mark if and only if a check fired, and names
\* every check that did.
LEMMA EvaluateIs ==
  ASSUME NEW e, NEW c
  PROVE  /\ Evaluate(e, c) \in Storeable /\ NamesItsChecks(Evaluate(e, c))
         /\ Range(Evaluate(e, c).rules) = FiredOf(4, e, c)
  <1> DEFINE Good(v, k) == v \in Storeable /\ NamesItsChecks(v) /\ Range(v.rules) = FiredOf(k, e, c)
  <1>1. PICK acc : LookSteps(acc, e, c)
    BY LookFold
  <1>2. Good(acc[0], 0)
    <2>1. acc[0].state = "valid" /\ acc[0].rules = <<>> /\ acc[0] = [state |-> "valid", rules |-> <<>>]
      BY <1>1 DEF LookSteps
    <2>2. "valid" \in State \ {"unevaluated"}
      BY StatesAre
    <2>3. acc[0] \in Storeable
      BY <2>1, <2>2 DEF Storeable
    <2>4. 1..0 = {}
      OBVIOUS
    <2>5. FiredOf(0, e, c) = {}
      BY <2>4 DEF FiredOf
    <2>6. Range(acc[0].rules) = {}
      BY <2>1 DEF Range
    <2>7. QED
      BY <2>1, <2>3, <2>5, <2>6 DEF NamesItsChecks
  <1>3. ASSUME NEW k \in 0..3, Good(acc[k], k)
        PROVE  Good(acc[k + 1], k + 1)
    <2>1. acc[k + 1] = Look(acc[k], Checks[k + 1], e, c)
      BY <1>1 DEF LookSteps
    <2>2. QED
      BY <1>3, <2>1, LookIs
  <1> HIDE DEF Good
  <1>4. Good(acc[1], 1)
    BY <1>2, <1>3, 0 + 1 = 1, 0 \in 0..3
  <1>5. Good(acc[2], 2)
    BY <1>3, <1>4, 1 + 1 = 2, 1 \in 0..3
  <1>6. Good(acc[3], 3)
    BY <1>3, <1>5, 2 + 1 = 3, 2 \in 0..3
  <1>7. Good(acc[4], 4)
    BY <1>3, <1>6, 3 + 1 = 4, 3 \in 0..3
  <1>8. QED
    BY <1>1, <1>7 DEF Good, LookSteps

\* The marks that are left when circumstances are taken away.
MarksOf(rules) == Range(rules) \ Circumstances

\* What the content alone deserves, from a collection that began at an instant.
Deserved(c, instant) ==
  {rule \in {"future_timestamp"} : c.at > instant + Tolerance}
    \cup {rule \in {"impossible_value"} : c.measure \in Implausible}

LEMMA MarksAreDeserved ==
  ASSUME NEW e, NEW c
  PROVE  MarksOf(Evaluate(e, c).rules) = Deserved(c, run.seenAt)
  <1> DEFINE fired(k) == {r \in {Checks[k].rule} : Fires(r, e, c)}
  <1>1. Range(Evaluate(e, c).rules) = fired(1) \cup fired(2) \cup fired(3) \cup fired(4)
    <2>1. \A k \in 1..4 : k = 1 \/ k = 2 \/ k = 3 \/ k = 4
      OBVIOUS
    <2>2. 1 \in 1..4 /\ 2 \in 1..4 /\ 3 \in 1..4 /\ 4 \in 1..4
      OBVIOUS
    <2>3. \A x : x \in FiredOf(4, e, c)
                  <=> \E k \in 1..4 : x = Checks[k].rule /\ Fires(Checks[k].rule, e, c)
      BY Zenon DEF FiredOf
    <2>4. \A k : \A x : x \in fired(k) <=> x = Checks[k].rule /\ Fires(Checks[k].rule, e, c)
      BY Zenon
    <2> HIDE DEF fired
    <2>5. ASSUME NEW x \in FiredOf(4, e, c)
          PROVE  x \in fired(1) \cup fired(2) \cup fired(3) \cup fired(4)
      <3>1. PICK k \in 1..4 : x = Checks[k].rule /\ Fires(Checks[k].rule, e, c)
        BY <2>3
      <3>2. x \in fired(k)
        BY <2>4, <3>1, Zenon
      <3>3. QED
        BY <2>1, <3>2
    <2>6. ASSUME NEW k \in 1..4, NEW x \in fired(k)
          PROVE  x \in FiredOf(4, e, c)
      BY <2>3, <2>4, Zenon
    <2>7. FiredOf(4, e, c) = fired(1) \cup fired(2) \cup fired(3) \cup fired(4)
      BY <2>2, <2>5, <2>6
    <2>8. QED
      BY <2>7, EvaluateIs
  <1>2. fired(3) \cup fired(4) \subseteq Circumstances
    BY ChecksAre, Zenon DEF Circumstances
  <1>3. fired(1) \cap Circumstances = {} /\ fired(2) \cap Circumstances = {}
    <2>1. "future_timestamp" \notin Circumstances /\ "impossible_value" \notin Circumstances
      BY DEF Circumstances
    <2>2. QED
      BY <2>1, ChecksAre, Zenon
  <1>4. fired(1) = {rule \in {"future_timestamp"} : c.at > run.seenAt + Tolerance}
    <2>1. Fires("future_timestamp", e, c) <=> c.at > run.seenAt + Tolerance
      BY DEF Fires
    <2>2. QED
      BY <2>1, ChecksAre, Zenon
  <1>5. fired(2) = {rule \in {"impossible_value"} : c.measure \in Implausible}
    <2>1. Fires("impossible_value", e, c) <=> c.measure \in Implausible
      BY DEF Fires
    <2>2. QED
      BY <2>1, ChecksAre, Zenon
  <1> HIDE DEF fired
  <1>6. MarksOf(Evaluate(e, c).rules) = fired(1) \cup fired(2)
    BY <1>1, <1>2, <1>3, Zenon DEF MarksOf
  <1>7. QED
    BY <1>4, <1>5, <1>6 DEF Deserved
VersionRow == [key : Event, content : Content, mode : {"incremental", "manual"},
               state : State \ {"unevaluated"}, rules : Seq(Rule)]

\* No collection to come begins before this.
Since == IF run.going THEN run.seenAt ELSE clock

\* The marks of the current version and those of the last verdict are what its
\* content deserved of two collections, of which the second began no earlier.
Explained(e) ==
  \E first, last \in 0..Since :
     /\ first <= last
     /\ MarksOf(CurrentOf(e).rules) = Deserved(CurrentOf(e).content, first)
     /\ MarksOf(judged[e].rules) = Deserved(CurrentOf(e).content, last)

MarksInv ==
  /\ MarksTypeOK /\ NoFakeRevision
  /\ \A e \in Event : VersionsOf(e) # {} => Explained(e)

LEMMA CurrentIs ==
  ASSUME table \in Seq(VersionRow), NEW e, VersionsOf(e) # {}
  PROVE  /\ Max(VersionsOf(e)) \in VersionsOf(e)
         /\ \A j \in VersionsOf(e) : j <= Max(VersionsOf(e))
         /\ CurrentOf(e) \in VersionRow
  <1>1. Len(table) \in Nat /\ VersionsOf(e) \in SUBSET (1..Len(table))
    BY DEF VersionsOf
  <1>2. /\ Max(VersionsOf(e)) \in VersionsOf(e)
        /\ \A j \in VersionsOf(e) : j <= Max(VersionsOf(e))
    BY <1>1, MaxInside
  <1>3. Max(VersionsOf(e)) \in 1..Len(table)
    BY <1>1, <1>2
  <1>4. table[Max(VersionsOf(e))] \in VersionRow
    BY <1>3
  <1>5. QED
    BY <1>2, <1>4 DEF CurrentOf

\* A version more is the current one of its event, and of no other.
LEMMA VersionAdded ==
  ASSUME table \in Seq(VersionRow), NEW row \in VersionRow, table' = Append(table, row)
  PROVE  /\ table' \in Seq(VersionRow) /\ DOMAIN table = 1..Len(table)
         /\ DOMAIN table' = 1..(Len(table) + 1) /\ table'[Len(table) + 1] = row
         /\ \A i \in 1..Len(table) : table'[i] = table[i]
         /\ VersionsOf(row.key)' = VersionsOf(row.key) \cup {Len(table) + 1}
         /\ CurrentOf(row.key)' = row
         /\ \A e : e # row.key => VersionsOf(e)' = VersionsOf(e)
                     /\ (VersionsOf(e) # {} => CurrentOf(e)' = CurrentOf(e))
  <1> DEFINE n == Len(table)
  <1>1. /\ table' \in Seq(VersionRow) /\ DOMAIN table = 1..n /\ n \in Nat
        /\ DOMAIN table' = 1..(n + 1) /\ table'[n + 1] = row
        /\ \A i \in 1..n : table'[i] = table[i]
    OBVIOUS
  <1> HIDE DEF n
  <1>2. 1..(n + 1) = 1..n \cup {n + 1} /\ n + 1 \notin 1..n
    BY <1>1
  <1>3. \A e : VersionsOf(e)' = VersionsOf(e) \cup {i \in {n + 1} : row.key = e}
    BY <1>1, <1>2 DEF VersionsOf
  <1>4. CurrentOf(row.key)' = row
    <2>1. VersionsOf(row.key)' \in SUBSET (1..(n + 1)) /\ n + 1 \in VersionsOf(row.key)'
      BY <1>1, <1>2, <1>3 DEF VersionsOf
    <2> DEFINE m == Max(VersionsOf(row.key)')
    <2>2. m \in VersionsOf(row.key)' /\ n + 1 <= m
      BY <1>1, <2>1, MaxInside
    <2>3. m = n + 1
      BY <1>1, <2>1, <2>2
    <2>4. QED
      BY <1>1, <2>3 DEF CurrentOf
  <1>5. ASSUME NEW e, e # row.key
        PROVE  VersionsOf(e)' = VersionsOf(e) /\ (VersionsOf(e) # {} => CurrentOf(e)' = CurrentOf(e))
    <2>1. VersionsOf(e)' = VersionsOf(e)
      BY <1>3, <1>5
    <2>2. ASSUME VersionsOf(e) # {} PROVE CurrentOf(e)' = CurrentOf(e)
      <3>1. Max(VersionsOf(e)) \in 1..n
        BY <1>1, <2>2, CurrentIs DEF VersionsOf
      <3>2. QED
        BY <1>1, <2>1, <3>1 DEF CurrentOf
    <2>3. QED
      BY <2>1, <2>2
  <1>6. QED
    BY <1>1, <1>3, <1>4, <1>5 DEF n

\* What explains the current version of an event goes on doing so.
LEMMA ExplainedStays ==
  ASSUME NEW e \in Event, Explained(e), Since \in Nat, Since' \in Nat, Since <= Since',
         CurrentOf(e)' = CurrentOf(e), judged'[e] = judged[e]
  PROVE  Explained(e)'
  <1> DEFINE v == CurrentOf(e)
  <1>1. PICK first \in 0..Since, last \in 0..Since :
           /\ first <= last
           /\ MarksOf(v.rules) = Deserved(v.content, first)
           /\ MarksOf(judged[e].rules) = Deserved(v.content, last)
    BY DEF Explained
  <1>2. first \in 0..Since' /\ last \in 0..Since'
    BY <1>1
  <1>3. \A c, t : Deserved(c, t)' = Deserved(c, t)
    BY DEF Deserved
  <1>4. MarksOf(v.rules)' = MarksOf(v.rules) /\ MarksOf(judged[e].rules)' = MarksOf(judged[e].rules)
    BY DEF MarksOf
  <1>5. QED
    BY <1>1, <1>2, <1>3, <1>4 DEF Explained, Deserved, MarksOf

\* A step that leaves the table and the verdicts alone.
LEMMA MarksStay ==
  ASSUME MarksInv, UNCHANGED <<table, judged>>, MarksTypeOK', Since \in Nat, Since' \in Nat,
         Since <= Since'
  PROVE  MarksInv'
  <1>1. \A e : VersionsOf(e)' = VersionsOf(e) /\ CurrentOf(e)' = CurrentOf(e)
    BY DEF VersionsOf, CurrentOf
  <1>2. NoFakeRevision'
    BY <1>1 DEF MarksInv, NoFakeRevision
  <1>3. ASSUME NEW e \in Event, VersionsOf(e)' # {}
        PROVE  Explained(e)'
    BY <1>1, <1>3, ExplainedStays DEF MarksInv
  <1>4. QED
    BY <1>2, <1>3 DEF MarksInv
\* Storing a version keeps every invariant: it is a genuine revision, and its
\* marks are those of the verdict.
LEMMA DeliverIsMarked ==
  ASSUME MarksAssumption, MarksInv, NEW e \in Event, NEW c \in Content, Deliver(e, c)
  PROVE  MarksInv'
  <1> DEFINE verdict == Evaluate(e, c)
             row == [key |-> e, content |-> c, mode |-> run.mode,
                     state |-> verdict.state, rules |-> verdict.rules]
             n == Len(table)
  <1>1. /\ clock \in Nat /\ table \in Seq(VersionRow)
        /\ \A i \in DOMAIN table : /\ table[i].content.measure \notin Misplaced
                                   /\ table[i].state = "valid" <=> table[i].rules = <<>>
        /\ run \in [going : BOOLEAN, mode : {"incremental", "manual"}, seenAt : 0..clock,
                    seen : SUBSET Event]
        /\ judged \in [Event -> Verdict] /\ received \in 0..MaxReceived
        /\ NoFakeRevision /\ \A x \in Event : VersionsOf(x) # {} => Explained(x)
    BY DEF MarksInv, MarksTypeOK, VersionRow
  <1>2. /\ run.going /\ run' = [run EXCEPT !.seen = @ \cup {e}] /\ received < MaxReceived
        /\ received' = received + 1 /\ clock' = clock
    BY DEF Deliver
  <1>3. /\ run' \in [going : BOOLEAN, mode : {"incremental", "manual"}, seenAt : 0..clock,
                     seen : SUBSET Event]
        /\ run'.going /\ run'.seenAt = run.seenAt /\ run.seenAt \in 0..clock
        /\ run.mode \in {"incremental", "manual"}
    BY <1>1, <1>2
  <1>4. /\ verdict \in Storeable /\ NamesItsChecks(verdict)
        /\ MarksOf(verdict.rules) = Deserved(c, run.seenAt)
    BY EvaluateIs, MarksAreDeserved
  <1>5. /\ Since = run.seenAt /\ Since' = run.seenAt /\ Since \in Nat
    BY <1>1, <1>2, <1>3 DEF Since
  <1>6. received' \in 0..MaxReceived
    BY <1>1, <1>2 DEF MarksAssumption
  <1>7. \A x, t : Deserved(x, t)' = Deserved(x, t)
    BY DEF Deserved
  <1>8. \A rules : MarksOf(rules)' = MarksOf(rules)
    BY DEF MarksOf
  <1> HIDE DEF verdict
  <1>9. CASE c.measure \in Misplaced
    <2>1. UNCHANGED <<table, judged>>
      BY <1>9 DEF Deliver
    <2>2. MarksTypeOK'
      BY <1>1, <1>2, <1>3, <1>6, <2>1 DEF MarksTypeOK, VersionRow
    <2>3. QED
      BY <1>5, <2>1, <2>2, MarksStay
  <1>10. CASE c.measure \notin Misplaced
    <2>1. /\ judged' = [judged EXCEPT ![e] = verdict]
          /\ table' = IF SameContent(e, c, verdict) THEN table ELSE Append(table, row)
      BY <1>10 DEF Deliver, verdict
    <2>2. judged' \in [Event -> Verdict] /\ judged'[e] = verdict
          /\ \A x \in Event : x # e => judged'[x] = judged[x]
      <3>1. verdict \in Verdict
        BY <1>4 DEF Storeable, Verdict
      <3>2. QED
        BY <1>1, <2>1, <3>1
    <2>3. CASE SameContent(e, c, verdict)
      <3>1. table' = table /\ VersionsOf(e) # {} /\ CurrentOf(e).content = c
        BY <2>1, <2>3 DEF SameContent
      <3>2. \A x : VersionsOf(x)' = VersionsOf(x) /\ CurrentOf(x)' = CurrentOf(x)
        BY <3>1 DEF VersionsOf, CurrentOf
      <3>3. MarksTypeOK'
        BY <1>1, <1>2, <1>3, <1>6, <2>2, <3>1 DEF MarksTypeOK, VersionRow
      <3>4. NoFakeRevision'
        BY <1>1, <3>1, <3>2 DEF NoFakeRevision
      <3>5. Explained(e)'
        <4>1. PICK first \in 0..Since :
                 MarksOf(CurrentOf(e).rules) = Deserved(CurrentOf(e).content, first)
          BY <1>1, <3>1 DEF Explained
        <4>2. first <= run.seenAt /\ first \in 0..Since' /\ run.seenAt \in 0..Since'
          BY <1>3, <1>5
        <4>3. MarksOf(judged'[e].rules) = Deserved(CurrentOf(e).content, run.seenAt)
          BY <1>4, <2>2, <3>1
        <4>4. QED
          BY <1>7, <1>8, <3>2, <4>1, <4>2, <4>3 DEF Explained, Deserved, MarksOf
      <3>6. ASSUME NEW x \in Event, VersionsOf(x)' # {}
            PROVE  Explained(x)'
        <4>1. CASE x = e
          BY <3>5, <4>1
        <4>2. CASE x # e
          BY <1>1, <1>5, <2>2, <3>2, <3>6, <4>2, ExplainedStays
        <4>3. QED
          BY <4>1, <4>2
      <3>7. QED
        BY <3>3, <3>4, <3>6 DEF MarksInv
    <2>4. CASE ~SameContent(e, c, verdict)
      <3>1. table' = Append(table, row)
        BY <2>1, <2>4
      <3>2. row \in VersionRow
        BY <1>3, <1>4 DEF VersionRow, Storeable
      <3>3. row.key = e /\ row.content = c /\ row.rules = verdict.rules /\ row.state = verdict.state
        OBVIOUS
      <3> HIDE DEF row
      <3>4. /\ table' \in Seq(VersionRow) /\ DOMAIN table = 1..n
            /\ DOMAIN table' = 1..(n + 1) /\ table'[n + 1] = row
            /\ \A i \in 1..n : table'[i] = table[i]
            /\ VersionsOf(e)' = VersionsOf(e) \cup {n + 1} /\ CurrentOf(e)' = row
            /\ \A x : x # e => VersionsOf(x)' = VersionsOf(x)
                        /\ (VersionsOf(x) # {} => CurrentOf(x)' = CurrentOf(x))
        BY <1>1, <3>1, <3>2, <3>3, VersionAdded
      <3>5. n \in Nat /\ 1..(n + 1) = 1..n \cup {n + 1}
        BY <1>1
      <3> HIDE DEF n
      <3>6. MarksTypeOK'
        <4>1. row.content.measure \notin Misplaced /\ (row.state = "valid" <=> row.rules = <<>>)
          BY <1>4, <1>10, <3>3 DEF NamesItsChecks
        <4>2. ASSUME NEW i \in DOMAIN table'
              PROVE  /\ table'[i].content.measure \notin Misplaced
                     /\ table'[i].state = "valid" <=> table'[i].rules = <<>>
          <5>1. CASE i = n + 1
            BY <3>4, <4>1, <5>1
          <5>2. CASE i \in 1..n
            BY <1>1, <3>4, <5>2
          <5>3. QED
            BY <3>4, <3>5, <5>1, <5>2
        <4>3. QED
          BY <1>1, <1>2, <1>3, <1>6, <2>2, <3>4, <4>2 DEF MarksTypeOK, VersionRow
      <3>7. NoFakeRevision'
        <4> SUFFICES ASSUME NEW x \in Event, NEW i \in VersionsOf(x)', NEW j \in VersionsOf(x)',
                            i < j, \A k \in VersionsOf(x)' : k <= i \/ j <= k
                     PROVE  table'[i].content # table'[j].content
          BY DEF NoFakeRevision
        <4>1. CASE i \in VersionsOf(x) /\ j \in VersionsOf(x)
          <5>1. i \in 1..n /\ j \in 1..n
            BY <3>4, <4>1 DEF VersionsOf
          <5>2. \A k \in VersionsOf(x) : k <= i \/ j <= k
            BY <3>4
          <5>3. QED
            BY <1>1, <3>4, <4>1, <5>1, <5>2 DEF NoFakeRevision
        <4>2. CASE ~(i \in VersionsOf(x) /\ j \in VersionsOf(x))
          <5>1. x = e
            BY <3>4, <4>2
          <5>2. VersionsOf(e) \subseteq 1..n
            BY <3>4 DEF VersionsOf
          <5>3. j = n + 1 /\ i \in VersionsOf(e) /\ i \in 1..n
            BY <3>4, <3>5, <4>2, <5>1, <5>2
          <5>4. \A k \in VersionsOf(e) : k <= i
            BY <3>4, <3>5, <5>1, <5>2, <5>3
          <5>5. Max(VersionsOf(e)) = i
            BY <1>1, <3>5, <5>2, <5>3, <5>4, CurrentIs
          <5>6. CurrentOf(e).content # c
            BY <2>4, <5>3 DEF SameContent
          <5>7. QED
            BY <3>3, <3>4, <5>3, <5>5, <5>6 DEF CurrentOf
        <4>3. QED
          BY <4>1, <4>2
      <3>8. Explained(e)'
        <4>1. run.seenAt \in 0..Since' /\ run.seenAt <= run.seenAt
          BY <1>3, <1>5
        <4>2. MarksOf(row.rules) = Deserved(c, run.seenAt)
              /\ MarksOf(judged'[e].rules) = Deserved(c, run.seenAt)
          BY <1>4, <2>2, <3>3
        <4>3. QED
          BY <3>3, <3>4, <4>1, <4>2 DEF Explained, Deserved, MarksOf
      <3>9. ASSUME NEW x \in Event, VersionsOf(x)' # {}
            PROVE  Explained(x)'
        <4>1. CASE x = e
          BY <3>8, <4>1
        <4>2. CASE x # e
          BY <1>1, <1>5, <2>2, <3>4, <3>9, <4>2, ExplainedStays
        <4>3. QED
          BY <4>1, <4>2
      <3>10. QED
        BY <3>6, <3>7, <3>9 DEF MarksInv
    <2>5. QED
      BY <2>3, <2>4
  <1>11. QED
    BY <1>9, <1>10
LEMMA MarksBegin ==
  ASSUME MarksAssumption, MarksInit
  PROVE  MarksInv
  <1>1. DOMAIN table = {} /\ table = <<>> /\ clock = 0 /\ received = 0 /\ run = NoRun
        /\ judged = [e \in Event |-> [state |-> "unevaluated", rules |-> <<>>]]
    BY DEF MarksInit
  <1>2. MarksTypeOK
    <2>1. judged \in [Event -> Verdict]
      BY <1>1, StatesAre DEF Verdict
    <2>2. run \in [going : BOOLEAN, mode : {"incremental", "manual"}, seenAt : 0..clock,
                   seen : SUBSET Event]
      BY <1>1 DEF NoRun
    <2>3. received \in 0..MaxReceived /\ clock \in Nat
      BY <1>1 DEF MarksAssumption
    <2>4. QED
      BY <1>1, <2>1, <2>2, <2>3 DEF MarksTypeOK
  <1>3. \A e : VersionsOf(e) = {}
    BY <1>1 DEF VersionsOf
  <1>4. QED
    BY <1>2, <1>3 DEF MarksInv, NoFakeRevision

LEMMA MarksStep ==
  ASSUME MarksAssumption, MarksInv, [MarksNext]_marksVars
  PROVE  MarksInv'
  <1>1. /\ clock \in Nat /\ received \in 0..MaxReceived /\ judged \in [Event -> Verdict]
        /\ run \in [going : BOOLEAN, mode : {"incremental", "manual"}, seenAt : 0..clock,
                    seen : SUBSET Event]
        /\ run.seenAt \in Nat /\ run.seenAt <= clock /\ Since \in Nat
    <2>1. /\ clock \in Nat /\ received \in 0..MaxReceived /\ judged \in [Event -> Verdict]
          /\ run \in [going : BOOLEAN, mode : {"incremental", "manual"}, seenAt : 0..clock,
                      seen : SUBSET Event]
      BY DEF MarksInv, MarksTypeOK
    <2>2. run.seenAt \in Nat /\ run.seenAt <= clock
      BY <2>1
    <2>3. QED
      BY <2>1, <2>2 DEF Since
  <1>2. CASE UNCHANGED marksVars
    <2>1. UNCHANGED <<table, judged>> /\ Since' = Since /\ MarksTypeOK'
      BY <1>1, <1>2 DEF marksVars, Since, MarksInv, MarksTypeOK
    <2>2. QED
      BY <1>1, <2>1, MarksStay
  <1>3. CASE Tick
    <2>1. /\ UNCHANGED <<table, judged, run, received>> /\ clock' = clock + 1
      BY <1>3 DEF Tick
    <2>2. Since' \in Nat /\ Since <= Since'
      BY <1>1, <2>1 DEF Since
    <2>3. run' \in [going : BOOLEAN, mode : {"incremental", "manual"}, seenAt : 0..clock',
                    seen : SUBSET Event]
      BY <1>1, <2>1
    <2>4. MarksTypeOK'
      BY <1>1, <2>1, <2>3 DEF MarksInv, MarksTypeOK
    <2>5. QED
      BY <1>1, <2>1, <2>2, <2>4, MarksStay
  <1>4. ASSUME NEW mode \in {"incremental", "manual"}, BeginCollect(mode)
        PROVE  MarksInv'
    <2>1. /\ UNCHANGED <<clock, table, judged, received>> /\ ~run.going
          /\ run' = [going |-> TRUE, mode |-> mode, seenAt |-> clock, seen |-> {}]
      BY <1>4 DEF BeginCollect
    <2>2. Since' = clock /\ Since = clock
      BY <2>1 DEF Since
    <2>3. run' \in [going : BOOLEAN, mode : {"incremental", "manual"}, seenAt : 0..clock',
                    seen : SUBSET Event]
      BY <1>1, <2>1
    <2>4. MarksTypeOK'
      BY <1>1, <2>1, <2>3 DEF MarksInv, MarksTypeOK
    <2>5. QED
      BY <1>1, <2>1, <2>2, <2>4, MarksStay
  <1>5. ASSUME NEW e \in Event, NEW at \in 0..clock, NEW m \in Measure,
               Deliver(e, [at |-> at, measure |-> m])
        PROVE  MarksInv'
    <2>1. [at |-> at, measure |-> m] \in Content
      BY <1>1 DEF Content
    <2>2. QED
      BY <1>5, <2>1, DeliverIsMarked
  <1>6. CASE EndCollect
    <2>1. UNCHANGED <<clock, table, judged, received>> /\ run' = NoRun
      BY <1>6 DEF EndCollect
    <2>2. Since' = clock /\ Since <= clock
      BY <1>1, <2>1 DEF Since, NoRun
    <2>3. run' \in [going : BOOLEAN, mode : {"incremental", "manual"}, seenAt : 0..clock',
                    seen : SUBSET Event]
      BY <1>1, <2>1 DEF NoRun
    <2>4. MarksTypeOK'
      BY <1>1, <2>1, <2>3 DEF MarksInv, MarksTypeOK
    <2>5. QED
      BY <1>1, <2>1, <2>2, <2>4, MarksStay
  <1>7. QED
    BY <1>2, <1>3, <1>4, <1>5, <1>6 DEF MarksNext

LEMMA MarksHold == MarksSpec => []MarksInv
  BY MarksAssumption, MarksBegin, MarksStep, PTL DEF MarksSpec

\* A mark names the check behind it: a version is "valid" when no check fired
\* and not otherwise, it names the checks that did, and nothing unevaluated is
\* stored (Verdict.Validate, and the CHECKs of migration 014).
THEOREM MarksAreNamed == MarksSpec => []MarksTypeOK
  <1>1. MarksInv => MarksTypeOK
    BY DEF MarksInv
  <1>2. QED
    BY <1>1, MarksHold, PTL

\* The circumstances of a collection make no revision: two versions of an event
\* in a row differ in content, however often, late or in whatever mode it is
\* read (sameContent).
THEOREM RevisionsAreGenuine == MarksSpec => []NoFakeRevision
  <1>1. MarksInv => NoFakeRevision
    BY DEF MarksInv
  <1>2. QED
    BY <1>1, MarksHold, PTL

\* Circumstances apart, the mark on the current version is what the checks last
\* said of it, save the mark of an event still to come, which stays when its
\* instant has passed (sameContent compares no verdict).
THEOREM NoVerdictHides == MarksSpec => []NothingHides
  <1>1. ASSUME MarksInv PROVE NothingHides
    <2> SUFFICES ASSUME NEW e \in Event, VersionsOf(e) # {}
                 PROVE  /\ MarksOf(judged[e].rules) \subseteq MarksOf(CurrentOf(e).rules)
                        /\ MarksOf(CurrentOf(e).rules)
                             \subseteq MarksOf(judged[e].rules) \cup {"future_timestamp"}
      BY DEF NothingHides, MarksOf
    <2> DEFINE c == CurrentOf(e).content
    <2>1. PICK first \in 0..Since, last \in 0..Since :
             /\ first <= last
             /\ MarksOf(CurrentOf(e).rules) = Deserved(c, first)
             /\ MarksOf(judged[e].rules) = Deserved(c, last)
      BY <1>1 DEF MarksInv, Explained
    <2>2. c.at \in Nat /\ Tolerance \in Nat /\ first \in Nat /\ last \in Nat
      <3>1. table \in Seq(VersionRow)
        BY <1>1 DEF MarksInv, MarksTypeOK, VersionRow
      <3>2. CurrentOf(e) \in VersionRow
        BY <3>1, CurrentIs
      <3>3. QED
        BY <3>2, MarksAssumption DEF VersionRow, Content, MarksAssumption
    <2> HIDE DEF c
    <2>3. c.at > last + Tolerance => c.at > first + Tolerance
      BY <2>1, <2>2
    <2>4. Deserved(c, last) \subseteq Deserved(c, first)
      BY <2>3 DEF Deserved
    <2>5. Deserved(c, first) \subseteq Deserved(c, last) \cup {"future_timestamp"}
      BY DEF Deserved
    <2>6. QED
      BY <2>1, <2>4, <2>5
  <1>2. QED
    BY <1>1, MarksHold, PTL
==============================================================================
