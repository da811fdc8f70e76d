----------------------- MODULE GlobalEventQueueProofs -----------------------
(***************************************************************************)
(* For every number of queues and all clock frequencies: the global event  *)
(* queue moves its clock by what it was asked, leaves no event behind,     *)
(* handles each one on time, and keeps the clocks of the queues aligned.   *)
(***************************************************************************)
EXTENDS GlobalEventQueue, WellFoundedInduction, TLAPS

\* Zenon proves a leaf that names no other prover.
USE Zenon

-----------------------------------------------------------------------------
\* Clock conversion

\* Division rounds down.
LEMMA DivBounds ==
  ASSUME NEW a \in Nat, NEW b \in Nat \ {0}
  PROVE  /\ a \div b \in Nat
         /\ (a \div b) * b <= a
         /\ a < (a \div b) * b + b
BY SMTT(30)

\* A quotient is at least n if the dividend is at least n times the divisor, and less than
\* n if it is less.
LEMMA DivCompare ==
  ASSUME NEW a \in Nat, NEW b \in Nat \ {0}, NEW n \in Nat
  PROVE  n <= a \div b <=> n * b <= a
<1> DEFINE d == a \div b
<1>1. d \in Nat /\ d * b <= a /\ a < d * b + b
  BY DivBounds
<1> HIDE DEF d
<1>2. CASE n <= d
  <2>1. n * b <= d * b
    BY <1>1, <1>2, SMTT(30)
  <2>2. n * b \in Nat /\ d * b \in Nat
    BY <1>1, SMTT(30)
  <2> QED BY <1>1, <1>2, <2>1, <2>2, SMT DEF d
<1>3. CASE d + 1 <= n
  <2>1. (d + 1) * b <= n * b
    BY <1>1, <1>3, SMTT(30)
  <2>2. (d + 1) * b = d * b + b /\ n * b \in Nat /\ d * b \in Nat
    BY <1>1, SMTT(30)
  <2> QED BY <1>1, <1>3, <2>1, <2>2, SMT DEF d
<1> QED BY <1>1, <1>2, <1>3, SMT

\* What the proofs use of the conversions: both are monotone, and neither undoes the other
\* past where it started.
LEMMA Conversions ==
  ASSUME NEW q \in Queues
  PROVE  /\ \A t \in Nat : ToGlobal(q, t) \in Nat
         /\ \A g \in Nat : ToLocal(q, g) \in Nat /\ ToLocal(q, g) <= g
         /\ \A t, u \in Nat : t <= u => ToGlobal(q, t) <= ToGlobal(q, u)
         /\ \A t, g \in Nat : t <= ToLocal(q, g) => ToGlobal(q, t) <= g
<1> DEFINE F == frequency
           f == Freq[q]
<1>0. F \in Nat \ {0} /\ f \in Nat \ {0} /\ f <= F
  BY FrequencyAssumption, SMT
<1> HIDE DEF F, f
<1>1. ASSUME NEW t \in Nat PROVE t * F \in Nat /\ t * f \in Nat /\ t * f <= t * F
  BY <1>0, SMTT(30)
<1>2. ASSUME NEW t \in Nat PROVE ToGlobal(q, t) \in Nat /\ ToGlobal(q, t) * f <= t * F
  BY <1>0, <1>1, DivBounds DEF ToGlobal, F, f
<1>3. ASSUME NEW g \in Nat PROVE ToLocal(q, g) \in Nat /\ ToLocal(q, g) * F <= g * f
  BY <1>0, <1>1, DivBounds DEF ToLocal, F, f
<1>4. ASSUME NEW g \in Nat PROVE ToLocal(q, g) <= g
  <2> DEFINE l == ToLocal(q, g)
  <2>1. l \in Nat /\ l * F <= g * f /\ g * f <= g * F
    BY <1>1, <1>3
  <2> HIDE DEF l
  <2>2. SUFFICES ASSUME g + 1 <= l PROVE FALSE
    BY <2>1, SMT DEF l
  <2>3. (g + 1) * F <= l * F
    BY <1>0, <2>1, <2>2, SMTT(30)
  <2>4. (g + 1) * F = g * F + F /\ g * F \in Nat /\ l * F \in Nat /\ g * f \in Nat
    BY <1>0, <2>1, SMTT(30)
  <2> QED BY <1>0, <2>1, <2>3, <2>4, SMT
<1>5. ASSUME NEW t \in Nat, NEW u \in Nat, t <= u PROVE ToGlobal(q, t) <= ToGlobal(q, u)
  <2>1. t * F <= u * F
    BY <1>0, <1>5, SMTT(30)
  <2>2. ToGlobal(q, t) * f <= u * F
    <3>1. ToGlobal(q, t) * f \in Nat
      BY <1>0, <1>2, SMTT(30)
    <3> QED BY <1>1, <1>2, <2>1, <3>1, SMT
  <2> QED BY <1>0, <1>1, <1>2, <2>2, DivCompare DEF ToGlobal, F, f
<1>6. ASSUME NEW t \in Nat, NEW g \in Nat, t <= ToLocal(q, g) PROVE ToGlobal(q, t) <= g
  <2> DEFINE m == ToGlobal(q, t)
  <2>1. t * F <= g * f
    BY <1>0, <1>1, <1>6, DivCompare DEF ToLocal, F, f
  <2>2. m \in Nat /\ m * f <= t * F
    BY <1>2
  <2> HIDE DEF m
  <2>3. SUFFICES ASSUME g + 1 <= m PROVE FALSE
    BY <2>2, SMT DEF m
  <2>4. (g + 1) * f <= m * f
    BY <1>0, <2>2, <2>3, SMTT(30)
  <2>5. (g + 1) * f = g * f + f /\ g * f \in Nat /\ m * f \in Nat /\ t * F \in Nat
    BY <1>0, <2>2, SMTT(30)
  <2> QED BY <1>0, <2>1, <2>2, <2>4, <2>5, SMT
<1> QED BY <1>2, <1>3, <1>4, <1>5, <1>6

\* A set of natural numbers that is not empty has a least element.
LEMMA LeastNatural ==
  ASSUME NEW S \in SUBSET Nat, S # {}
  PROVE  \E m \in S : \A n \in S : m <= n
<1>1. PICK m \in S : \A n \in S : ~(<<n, m>> \in OpToRel(<, Nat))
  BY WFMin, NatLessThanWellFounded
<1>2. \A n \in S : <<n, m>> \in Nat \X Nat /\ <<n, m>>[1] = n /\ <<n, m>>[2] = m
  OBVIOUS
<1>3. \A n \in S : ~(n < m)
  BY <1>1, <1>2 DEF OpToRel
<1> QED BY <1>3, SMT

-----------------------------------------------------------------------------
\* The inductive invariant

\* The clock, with what is left of the steps, is at the goal.  A handler of Sync runs at the
\* clock's cycle, and after the last Sync nothing is left.
Progress ==
  /\ pc # "idle" => currentCycle + left = goal
  /\ pc = "handler" => hop <= left
  /\ pc # "handler" \/ todo # {} => hop = 0
  /\ todo # {} => pc \in {"sync", "handler"}
  /\ last => pc = "sync" /\ left = 0

\* No queue's clock is ahead of the global one.
NotAhead == \A q \in Queues : ToGlobal(q, now[q]) <= Instant

\* The clock of a queue that Sync is done with is not behind.
NotBehind ==
  \A q \in Queues \ todo :
    pc \in {"idle", "sync"} \/ todo # {} => ToLocal(q, currentCycle) <= now[q]

\* An event that waits is not overdue, unless it was inserted in this global cycle; in the
\* last Sync no event is due.
Pending ==
  \A q \in Queues : \A t \in keys[q] :
    /\ born[q][t] <= Instant
    /\ Instant <= ToGlobal(q, t) \/ born[q][t] = Instant
    /\ last => currentCycle < ToGlobal(q, t)

IInv == TypeOK /\ NoUnderflow /\ Progress /\ NotAhead /\ NotBehind /\ Pending

\* If any queue has an event, then GetNextEvent finds one, and all others are at its global
\* cycle or later.
LEMMA NextEventExists ==
  ASSUME TypeOK, NEW p \in Queues, NEW u \in keys[p]
  PROVE  \E q \in Queues, t \in Cycles : IsNextEvent(q, t)
<1> DEFINE S == {g \in Nat : \E q \in Queues : \E t \in keys[q] : g = ToGlobal(q, t)}
<1>0. Cycles \subseteq Nat /\ \A q \in Queues : keys[q] \subseteq Cycles
  BY FrequencyAssumption, SMT DEF TypeOK, Cycles
<1>1. \A q \in Queues : \A t \in keys[q] : ToGlobal(q, t) \in S
  BY <1>0, Conversions
<1>2. S # {} /\ S \in SUBSET Nat
  BY <1>1
<1>3. PICK m \in S : \A n \in S : m <= n
  BY <1>2, LeastNatural
<1>4. PICK q \in Queues : \E v \in keys[q] : m = ToGlobal(q, v)
  OBVIOUS
<1>5. PICK t \in keys[q] : \A w \in keys[q] : t <= w
  BY <1>0, <1>4, LeastNatural
<1>6. ToGlobal(q, t) <= m /\ ToGlobal(q, t) \in S
  <2>1. PICK v \in keys[q] : m = ToGlobal(q, v)
    BY <1>4
  <2>2. t \in Nat /\ v \in Nat /\ t <= v
    BY <1>0, <1>5
  <2>3. ToGlobal(q, t) <= ToGlobal(q, v)
    BY <2>2, Conversions
  <2> QED BY <1>1, <2>1, <2>3
<1>7. ToGlobal(q, t) = m
  BY <1>2, <1>3, <1>6, SMT
<1>8. \A r \in Queues : \A w \in keys[r] : ToGlobal(q, t) <= ToGlobal(r, w)
  BY <1>1, <1>3, <1>7
<1> QED BY <1>0, <1>5, <1>8 DEF IsNextEvent

-----------------------------------------------------------------------------
\* The invariant is inductive

\* Every clock starts at 0 with nothing due.
LEMMA InitIInv == Init => IInv
<1> SUFFICES ASSUME Init PROVE IInv
  OBVIOUS
<1>1. 0 \in Cycles /\ 0 \in 0..MaxSteps
  BY FrequencyAssumption, SMT DEF Cycles
<1>2. TypeOK
  BY <1>1 DEF Init, TypeOK
<1>3. NotAhead
  <2> SUFFICES ASSUME NEW q \in Queues PROVE ToGlobal(q, 0) <= 0
    BY DEF Init, NotAhead, Instant
  <2>1. 0 <= ToLocal(q, 0)
    BY Conversions, SMT
  <2> QED BY <2>1, Conversions
<1>4. NotBehind
  <2> SUFFICES ASSUME NEW q \in Queues PROVE ToLocal(q, 0) <= 0
    BY DEF Init, NotBehind
  <2> QED BY Conversions
<1>5. NoUnderflow /\ Progress /\ Pending
  BY DEF Init, NoUnderflow, Progress, Pending
<1> QED BY <1>2, <1>3, <1>4, <1>5 DEF IInv

\* The bounds as the steps below use them.
LEMMA Bounds ==
  ASSUME IInv
  PROVE  /\ Cycles \subseteq Nat /\ currentCycle \in Nat /\ left \in Nat /\ hop \in Nat
         /\ goal \in Nat /\ goal <= MaxCycle /\ MaxCycle \in Nat /\ MaxSteps \in Nat
         /\ left <= MaxSteps /\ hop <= MaxSteps /\ currentCycle <= MaxCycle
         /\ Instant \in Cycles
<1>1. /\ Cycles \subseteq Nat /\ currentCycle \in Nat /\ left \in Nat /\ hop \in Nat
      /\ goal \in Nat /\ goal <= MaxCycle /\ MaxCycle \in Nat /\ MaxSteps \in Nat
      /\ left <= MaxSteps /\ hop <= MaxSteps /\ currentCycle <= MaxCycle
  BY FrequencyAssumption, SMT DEF IInv, TypeOK, Cycles
<1>2. Instant \in Cycles
  BY <1>1, SMT DEF IInv, Progress, Instant, Cycles
<1> QED BY <1>1, <1>2

\* InsertEvent asks for a cycle that is not in its queue's past.
LEMMA InsertIInv ==
  ASSUME IInv, NEW q \in Queues, NEW t \in Cycles, Insert(q, t)
  PROVE  IInv'
<1>0. Instant \in Cycles /\ Instant \in Nat /\ Instant' = Instant /\ Cycles \subseteq Nat
  BY Bounds DEF Insert, Instant
<1>1. TypeOK'
  BY <1>0 DEF IInv, TypeOK, Insert
<1>2. \A p \in Queues : \A u \in keys'[p] : u \in keys[p] \/ (p = q /\ u = t)
  BY DEF IInv, TypeOK, Insert
<1>3. NoUnderflow'
  BY <1>2 DEF IInv, NoUnderflow, Insert
<1>4. Progress' /\ NotAhead' /\ NotBehind'
  BY <1>0 DEF IInv, Progress, NotAhead, NotBehind, Insert
<1>5. ~last
  BY DEF IInv, Progress, Insert
<1>6. ASSUME NEW p \in Queues, NEW u \in keys'[p]
      PROVE  /\ born'[p][u] <= Instant
             /\ Instant <= ToGlobal(p, u) \/ born'[p][u] = Instant
  <2>1. CASE p = q /\ u = t
    BY <1>0, <2>1, SMT DEF IInv, TypeOK, Insert
  <2>2. CASE u \in keys[p] /\ ~(p = q /\ u = t)
    <3>1. born'[p][u] = born[p][u]
      BY <2>2 DEF IInv, TypeOK, Insert
    <3> QED BY <2>2, <3>1 DEF IInv, Pending
  <2> QED BY <1>2, <2>1, <2>2
<1>7. Pending'
  BY <1>0, <1>5, <1>6 DEF Pending, Insert
<1> QED BY <1>1, <1>3, <1>4, <1>7 DEF IInv

\* Cycle sets out for the cycle it is to reach.
LEMMA CycleIInv ==
  ASSUME IInv, NEW steps \in 0..MaxSteps, Cycle(steps)
  PROVE  IInv'
<1>0. Instant' = Instant /\ currentCycle \in Nat /\ steps \in Nat /\ MaxCycle \in Nat
  BY Bounds, SMT DEF Cycle, Instant
<1>1. TypeOK'
  <2>1. goal' \in Cycles
    BY <1>0, SMT DEF Cycle, Cycles
  <2> QED BY <2>1 DEF IInv, TypeOK, Cycle
<1>2. Progress'
  BY <1>0 DEF IInv, Progress, Cycle
<1>3. NoUnderflow' /\ NotAhead' /\ NotBehind' /\ Pending'
  BY <1>0 DEF IInv, NoUnderflow, NotAhead, NotBehind, Pending, Progress, Cycle
<1> QED BY <1>1, <1>2, <1>3 DEF IInv

\* What the start of a queue's Process keeps, whether Cycle or Sync calls it: g is the global
\* cycle the handlers run at.
LEMMA ProcessKeeps ==
  ASSUME IInv, NEW q \in Queues, NEW t \in keys[q], NEW g \in Nat,
         \A u \in keys[q] : t <= u,
         Process(q, t), Instant' = g, Instant <= g, ToGlobal(q, t) <= g,
         \A p \in Queues : \A u \in keys[p] : g <= ToGlobal(p, u) \/ born[p][u] = g
  PROVE  /\ now' \in [Queues -> Cycles] /\ keys' \in [Queues -> SUBSET Cycles]
         /\ born' \in [Queues -> [Cycles -> Cycles]] /\ active' \in Queues \cup {None}
         /\ \A p \in Queues : now[p] <= now'[p]
         /\ NoUnderflow' /\ NotAhead'
         /\ \A p \in Queues : \A u \in keys'[p] :
              born'[p][u] <= g /\ (g <= ToGlobal(p, u) \/ born'[p][u] = g)
<1>0. /\ Cycles \subseteq Nat /\ 0 \in Cycles /\ t \in Cycles /\ Instant \in Nat
      /\ \A p \in Queues : keys[p] \subseteq Cycles /\ now[p] \in Nat
  <2>1. Cycles \subseteq Nat /\ 0 \in Cycles /\ Instant \in Nat
    BY Bounds, FrequencyAssumption, SMT DEF Cycles
  <2>2. \A p \in Queues : keys[p] \subseteq Cycles /\ now[p] \in Cycles
    BY DEF IInv, TypeOK
  <2> QED BY <2>1, <2>2
<1>1. /\ now' \in [Queues -> Cycles] /\ keys' \in [Queues -> SUBSET Cycles]
      /\ active' \in Queues \cup {None}
  BY <1>0 DEF IInv, TypeOK, Process
<1>2. born' \in [Queues -> [Cycles -> Cycles]]
  BY <1>0 DEF IInv, TypeOK, Process
<1>3. \A p \in Queues : now'[p] = IF p = q THEN t ELSE now[p]
  BY DEF IInv, TypeOK, Process
<1>4. ASSUME NEW p \in Queues, NEW u \in keys'[p]
      PROVE  u \in keys[p] /\ (p = q => u # t)
  BY DEF IInv, TypeOK, Process
<1>5. now[q] <= t
  BY DEF IInv, NoUnderflow
<1>6. \A p \in Queues : now[p] <= now'[p]
  BY <1>0, <1>3, <1>5, SMT
<1>7. NoUnderflow'
  BY <1>3, <1>4, ZenonT(30) DEF IInv, NoUnderflow
<1>8. NotAhead'
  <2> SUFFICES ASSUME NEW p \in Queues PROVE ToGlobal(p, now'[p]) <= g
    BY DEF NotAhead
  <2>1. CASE p = q
    BY <1>3, <2>1
  <2>2. CASE p # q
    <3>1. now'[p] = now[p] /\ ToGlobal(p, now[p]) <= Instant /\ ToGlobal(p, now[p]) \in Nat
      BY <1>0, <1>3, <2>2, Conversions DEF IInv, NotAhead
    <3> QED BY <1>0, <3>1, SMT
  <2> QED BY <2>1, <2>2
<1>9. ASSUME NEW p \in Queues, NEW u \in keys'[p]
      PROVE  born'[p][u] <= g /\ (g <= ToGlobal(p, u) \/ born'[p][u] = g)
  <2>1. u \in keys[p] /\ u \in Cycles /\ ~(p = q /\ u = t)
    BY <1>0, <1>4
  <2>2. born'[p][u] = born[p][u]
    BY <2>1 DEF IInv, TypeOK, Process
  <2>3. born[p][u] \in Cycles
    BY <2>1, ZenonT(30) DEF IInv, TypeOK
  <2>4. born[p][u] <= Instant
    BY <2>1 DEF IInv, Pending
  <2>5. g <= ToGlobal(p, u) \/ born[p][u] = g
    BY <2>1
  <2>6. born[p][u] <= g
    <3>1. born[p][u] \in Nat /\ Instant \in Nat
      BY <1>0, <2>3
    <3> QED BY <2>4, <3>1, SMT
  <2> QED BY <2>2, <2>5, <2>6
<1> QED BY <1>1, <1>2, <1>6, <1>7, <1>8, <1>9

\* The loop of Cycle hops to the event it found, or stays when that event is due.
LEMMA CycleLoopIInv ==
  ASSUME IInv, NEW q \in Queues, NEW t \in Cycles, CycleLoop(q, t)
  PROVE  IInv' /\ Instant' = (IF ToGlobal(q, t) > currentCycle THEN ToGlobal(q, t)
                                                               ELSE currentCycle)
<1> DEFINE due == ToGlobal(q, t)
           g == IF due > currentCycle THEN due ELSE currentCycle
<1>0. /\ Cycles \subseteq Nat /\ currentCycle \in Nat /\ left \in Nat /\ MaxSteps \in Nat
      /\ left <= MaxSteps /\ due \in Nat /\ Instant = currentCycle
      /\ \A p \in Queues : \A u \in keys[p] : ToGlobal(p, u) \in Nat /\ due <= ToGlobal(p, u)
  <2>1. \A p \in Queues : keys[p] \subseteq Nat
    BY Bounds DEF IInv, TypeOK
  <2>2. \A p \in Queues : \A u \in keys[p] : ToGlobal(p, u) \in Nat
    BY <2>1, Conversions
  <2> QED BY <2>2, Bounds DEF CycleLoop, IsNextEvent, Instant
<1>1. hop' \in Nat /\ hop' <= left /\ Instant' = g /\ g \in Nat /\ currentCycle <= g /\ due <= g
  <2> HIDE DEF due
  <2>1. hop' = IF due > currentCycle THEN due - currentCycle ELSE 0
    BY DEF CycleLoop, Steps, due
  <2>2. hop' <= left /\ Instant' = currentCycle + hop'
    BY DEF CycleLoop, Process, Instant
  <2> QED BY <1>0, <2>1, <2>2, SMT
<1>2. \A p \in Queues : \A u \in keys[p] : g <= ToGlobal(p, u) \/ born[p][u] = g
  BY <1>0 DEF IInv, Pending
<1> HIDE DEF g
<1>3. /\ now' \in [Queues -> Cycles] /\ keys' \in [Queues -> SUBSET Cycles]
      /\ born' \in [Queues -> [Cycles -> Cycles]] /\ active' \in Queues \cup {None}
      /\ NoUnderflow' /\ NotAhead'
      /\ \A p \in Queues : \A u \in keys'[p] :
           born'[p][u] <= g /\ (g <= ToGlobal(p, u) \/ born'[p][u] = g)
  BY <1>0, <1>1, <1>2, ProcessKeeps DEF CycleLoop, IsNextEvent
<1>4. TypeOK'
  <2>1. hop' \in 0..MaxSteps
    BY <1>0, <1>1, SMT
  <2> QED BY <1>3, <2>1 DEF IInv, TypeOK, CycleLoop, Process
<1>5. todo = {} /\ ~last
  BY DEF IInv, Progress, CycleLoop
<1>6. Progress' /\ NotBehind'
  BY <1>1, <1>5 DEF IInv, Progress, NotBehind, CycleLoop, Process
<1>7. Pending'
  BY <1>1, <1>3, <1>5 DEF Pending, CycleLoop
<1> QED BY <1>1, <1>3, <1>4, <1>6, <1>7 DEF IInv, g

\* Sync processes events that are due, at the cycle the loop has reached.
LEMMA SyncProcessIInv ==
  ASSUME IInv, NEW q \in Queues, NEW t \in Cycles, SyncProcess(q, t)
  PROVE  IInv' /\ ToGlobal(q, t) <= currentCycle /\ Instant' = currentCycle
<1>0. currentCycle \in Nat /\ Cycles \subseteq Nat
  BY Bounds
<1>1. Instant = currentCycle /\ hop = 0 /\ Instant' = currentCycle
  BY <1>0, SMT DEF IInv, Progress, SyncProcess, Process, Instant
<1>2. ToGlobal(q, t) <= currentCycle
  BY <1>0, Conversions DEF SyncProcess
<1>3. /\ now' \in [Queues -> Cycles] /\ keys' \in [Queues -> SUBSET Cycles]
      /\ born' \in [Queues -> [Cycles -> Cycles]] /\ active' \in Queues \cup {None}
      /\ \A p \in Queues : now[p] <= now'[p]
      /\ NoUnderflow' /\ NotAhead'
      /\ \A p \in Queues : \A u \in keys'[p] :
           /\ born'[p][u] <= currentCycle
           /\ currentCycle <= ToGlobal(p, u) \/ born'[p][u] = currentCycle
  <2>1. \A p \in Queues : \A u \in keys[p] :
          currentCycle <= ToGlobal(p, u) \/ born[p][u] = currentCycle
    BY <1>1 DEF IInv, Pending
  <2>2. Process(q, t) /\ t \in keys[q] /\ \A u \in keys[q] : t <= u
    BY DEF SyncProcess
  <2> QED BY <1>0, <1>1, <1>2, <2>1, <2>2, ProcessKeeps, SMT
<1>4. TypeOK'
  BY <1>3 DEF IInv, TypeOK, SyncProcess, Process
<1>5. ~last
  <2>1. ToGlobal(q, t) \in Nat
    BY <1>0, Conversions
  <2> QED BY <1>0, <1>2, <2>1, SMT DEF IInv, Pending, SyncProcess
<1>6. Progress'
  BY <1>0, <1>1, <1>5, Bounds, SMT DEF IInv, Progress, SyncProcess, Process
<1>7. NotBehind'
  <2> SUFFICES ASSUME NEW p \in Queues \ todo PROVE ToLocal(p, currentCycle) <= now'[p]
    BY DEF NotBehind, SyncProcess
  <2>1. ToLocal(p, currentCycle) <= now[p]
    BY DEF IInv, NotBehind, SyncProcess
  <2>2. ToLocal(p, currentCycle) \in Nat /\ now[p] \in Nat /\ now'[p] \in Nat
    BY <1>0, <1>3, Conversions DEF IInv, TypeOK
  <2> QED BY <1>3, <2>1, <2>2, SMT
<1>8. Pending'
  BY <1>1, <1>3, <1>5 DEF Pending, SyncProcess
<1> QED BY <1>1, <1>2, <1>3, <1>4, <1>6, <1>7, <1>8 DEF IInv

\* With no event within the steps, the rest of them lead to the cycle asked for.
LEMMA CycleRestIInv ==
  ASSUME IInv, CycleRest
  PROVE  IInv'
<1> USE DEF CycleRest, TakeRest
<1>0. /\ currentCycle \in Nat /\ left \in Nat /\ Cycles \subseteq Nat
      /\ currentCycle' = goal /\ Instant = currentCycle /\ Instant' = currentCycle'
      /\ goal = currentCycle + left
  BY Bounds DEF IInv, Progress, Instant
<1>1. TypeOK'
  <2>1. left' \in 0..MaxSteps /\ currentCycle' \in Cycles
    BY <1>0, Bounds, SMT DEF IInv, TypeOK
  <2> QED BY <2>1 DEF IInv, TypeOK
<1>2. ASSUME NEW p \in Queues, NEW u \in keys[p]
      PROVE  currentCycle + left < ToGlobal(p, u)
  <2>1. PICK q \in Queues, t \in Cycles : IsNextEvent(q, t)
    BY NextEventExists DEF IInv
  <2>2. Steps(q, t) > left
    BY <2>1
  <2>3. ToGlobal(q, t) <= ToGlobal(p, u)
    BY <2>1 DEF IsNextEvent
  <2>4. u \in Nat /\ t \in Nat
    BY <1>0 DEF IInv, TypeOK
  <2>5. ToGlobal(q, t) \in Nat /\ ToGlobal(p, u) \in Nat
    BY <2>4, Conversions
  <2> QED BY <1>0, <2>2, <2>3, <2>5, SMT DEF Steps
<1>3. Pending'
  <2> SUFFICES ASSUME NEW p \in Queues, NEW u \in keys[p]
               PROVE  /\ born[p][u] <= currentCycle'
                      /\ currentCycle' < ToGlobal(p, u)
    <3>1. \A p \in Queues : \A u \in keys[p] : ToGlobal(p, u) \in Nat
      <4>1. \A p \in Queues : keys[p] \subseteq Nat
        BY <1>0 DEF IInv, TypeOK
      <4> QED BY <4>1, Conversions
    <3> QED BY <1>0, <3>1, SMT DEF Pending
  <2>1. born[p][u] <= currentCycle
    BY <1>0 DEF IInv, Pending
  <2>2. u \in Cycles
    BY DEF IInv, TypeOK
  <2>3. born[p][u] \in Cycles
    BY <2>2, ZenonT(30) DEF IInv, TypeOK
  <2>4. born[p][u] \in Nat /\ currentCycle' = currentCycle + left
    BY <1>0, <2>3
  <2> QED BY <1>0, <1>2, <2>1, <2>4, SMT
<1>4. NotAhead'
  <2> SUFFICES ASSUME NEW p \in Queues PROVE ToGlobal(p, now[p]) <= currentCycle'
    BY <1>0 DEF NotAhead
  <2>1. ToGlobal(p, now[p]) <= currentCycle
    BY <1>0 DEF IInv, NotAhead
  <2>2. now[p] \in Nat
    BY <1>0 DEF IInv, TypeOK
  <2>3. ToGlobal(p, now[p]) \in Nat
    BY <2>2, Conversions
  <2> QED BY <1>0, <2>1, <2>3, SMT
<1>5. NoUnderflow' /\ NotBehind'
  BY DEF IInv, NoUnderflow, NotBehind
<1>6. Progress'
  BY <1>0, SMT DEF IInv, Progress
<1> QED BY <1>1, <1>3, <1>4, <1>5, <1>6 DEF IInv

\* When the handlers return the hop is added to the global clock, once.
LEMMA HandlersReturnIInv ==
  ASSUME IInv, HandlersReturn
  PROVE  IInv'
<1> USE DEF HandlersReturn
<1>0. /\ currentCycle \in Nat /\ left \in Nat /\ hop \in Nat /\ hop <= left
      /\ currentCycle' = Instant /\ Instant' = Instant /\ Instant \in Cycles
      /\ currentCycle + left = goal /\ left <= MaxSteps /\ MaxSteps \in Nat /\ ~last
  BY Bounds DEF IInv, Progress, Instant
<1>1. TypeOK'
  <2>1. left' \in 0..MaxSteps /\ hop' \in 0..MaxSteps
    BY <1>0, SMT
  <2>2. todo' \subseteq Queues /\ active' \in Queues \cup {None}
    BY DEF IInv, TypeOK
  <2> QED BY <1>0, <2>1, <2>2 DEF IInv, TypeOK
<1>2. Progress'
  BY <1>0, SMT DEF IInv, Progress
<1>3. NoUnderflow' /\ NotAhead' /\ Pending'
  BY <1>0 DEF IInv, NoUnderflow, NotAhead, Pending
<1>4. NotBehind'
  <2>1. CASE todo = {}
    BY <2>1 DEF NotBehind
  <2>2. CASE todo # {}
    <3>1. currentCycle' = currentCycle
      BY <1>0, <2>2, SMT DEF IInv, Progress
    <3> QED BY <2>2, <3>1 DEF IInv, NotBehind
  <2> QED BY <2>1, <2>2
<1> QED BY <1>1, <1>2, <1>3, <1>4 DEF IInv

\* Sync takes a queue to the global cycle in its own cycles, never backwards.
LEMMA SyncRestIInv ==
  ASSUME IInv, NEW q \in Queues, SyncRest(q)
  PROVE  IInv'
<1> DEFINE l == ToLocal(q, currentCycle)
           n == IF now[q] < l THEN l ELSE now[q]
<1>0. /\ currentCycle \in Nat /\ Cycles \subseteq Nat /\ l \in Nat /\ l \in Cycles
      /\ hop = 0 /\ currentCycle + left = goal
      /\ Instant = currentCycle /\ Instant' = currentCycle
  <2>1. currentCycle \in Nat /\ MaxCycle \in Nat /\ currentCycle <= MaxCycle
    BY Bounds
  <2>2. l \in Nat /\ l <= currentCycle
    BY <2>1, Conversions
  <2>3. l \in Cycles
    BY <2>1, <2>2, SMT DEF Cycles
  <2>4. Instant = currentCycle /\ Instant' = currentCycle
    BY DEF SyncRest, SyncNext, Instant
  <2>5. Cycles \subseteq Nat /\ hop = 0 /\ currentCycle + left = goal
    BY Bounds DEF IInv, Progress, SyncRest
  <2> QED BY <2>1, <2>2, <2>3, <2>4, <2>5
<1>1. now[q] \in Cycles /\ now[q] \in Nat
  BY <1>0 DEF IInv, TypeOK
<1>2. n \in Cycles /\ n \in Nat /\ now[q] <= n /\ l <= n
  BY <1>0, <1>1, SMT
<1>3. \A p \in Queues : now'[p] = IF p = q THEN n ELSE now[p]
  BY DEF IInv, TypeOK, SyncRest, Catch
<1>4. TypeOK'
  <2>1. now' \in [Queues -> Cycles]
    BY <1>0 DEF IInv, TypeOK, SyncRest, Catch
  <2>2. todo' \subseteq Queues /\ pc' \in {"idle", "next", "sync"} /\ last' \in BOOLEAN
    BY DEF IInv, TypeOK, SyncRest, SyncNext
  <2> QED BY <2>1, <2>2 DEF IInv, TypeOK, SyncRest, SyncNext
<1>5. NoUnderflow'
  <2> SUFFICES ASSUME NEW p \in Queues, NEW t \in keys[p] PROVE now'[p] <= t
    BY DEF NoUnderflow, SyncRest, SyncNext
  <2>1. now[p] <= t /\ t \in Nat
    BY <1>0 DEF IInv, TypeOK, NoUnderflow
  <2>2. CASE p = q /\ now[q] < l
    <3>1. t > l /\ now'[p] = l
      BY <1>3, <2>2 DEF SyncRest
    <3> QED BY <1>0, <2>1, <3>1, SMT
  <2>3. CASE ~(p = q /\ now[q] < l)
    BY <1>3, <2>1, <2>3
  <2> QED BY <2>2, <2>3
<1>6. NotAhead'
  <2> SUFFICES ASSUME NEW p \in Queues PROVE ToGlobal(p, now'[p]) <= currentCycle
    BY <1>0 DEF NotAhead
  <2>1. ToGlobal(p, now[p]) <= currentCycle
    BY <1>0 DEF IInv, NotAhead
  <2>2. ToGlobal(q, l) <= currentCycle
    BY <1>0, Conversions, SMT
  <2> QED BY <1>3, <2>1, <2>2
<1>7. NotBehind'
  <2> SUFFICES ASSUME NEW p \in Queues \ todo' PROVE ToLocal(p, currentCycle) <= now'[p]
    BY DEF NotBehind, SyncRest, SyncNext
  <2>1. CASE p = q
    BY <1>2, <1>3, <2>1
  <2>2. CASE p # q
    BY <1>3, <2>2 DEF IInv, NotBehind, SyncRest, SyncNext
  <2> QED BY <2>1, <2>2
<1>8. Pending'
  BY <1>0 DEF IInv, Pending, SyncRest, SyncNext
<1>9. Progress'
  BY <1>0 DEF IInv, Progress, TypeOK, SyncRest, SyncNext
<1> QED BY <1>4, <1>5, <1>6, <1>7, <1>8, <1>9 DEF IInv

\* Every step keeps the clocks together.
LEMMA NextIInv == IInv /\ [Next]_vars => IInv'
<1> SUFFICES ASSUME IInv, [Next]_vars PROVE IInv'
  OBVIOUS
<1>1. ASSUME NEW q \in Queues, NEW t \in Cycles, Insert(q, t) PROVE IInv'
  BY <1>1, InsertIInv
<1>2. ASSUME NEW steps \in 0..MaxSteps, Cycle(steps) PROVE IInv'
  BY <1>2, CycleIInv
<1>3. ASSUME NEW q \in Queues, NEW t \in Cycles, CycleLoop(q, t) PROVE IInv'
  BY <1>3, CycleLoopIInv
<1>4. ASSUME NEW q \in Queues, NEW t \in Cycles, SyncProcess(q, t) PROVE IInv'
  BY <1>4, SyncProcessIInv
<1>5. ASSUME CycleRest PROVE IInv'
  BY <1>5, CycleRestIInv
<1>6. ASSUME HandlersReturn PROVE IInv'
  BY <1>6, HandlersReturnIInv, SMT
<1>7. ASSUME NEW q \in Queues, SyncRest(q) PROVE IInv'
  BY <1>7, SyncRestIInv
<1>8. CASE UNCHANGED vars
  BY <1>8 DEF vars, IInv, TypeOK, NoUnderflow, Progress, NotAhead, NotBehind, Pending, Instant
<1> QED BY <1>1, <1>2, <1>3, <1>4, <1>5, <1>6, <1>7, <1>8 DEF Next, Run

\* The steps of the queue keep the clocks and the events that wait in the relation IInv
\* states.
THEOREM Invariant == Spec => []IInv
<1>1. Init => IInv
  BY InitIInv
<1>2. IInv /\ [Next]_vars => IInv'
  BY NextIInv
<1> QED BY <1>1, <1>2, PTL DEF Spec

-----------------------------------------------------------------------------
\* What follows

\* The clocks, the steps left and the cycle a handler runs at stay in range: Cycle never hops
\* further than the steps it was asked for.
THEOREM TypeCorrect == Spec => []TypeOK
<1>1. IInv => TypeOK
  BY DEF IInv
<1> QED BY <1>1, Invariant, PTL

\* No queue's clock passes the event it has next, so the unsigned difference Cycle passes to
\* Loop never wraps, whatever the ratio of the clocks.
THEOREM NoUnderflowHolds == Spec => []NoUnderflow
<1>1. IInv => NoUnderflow
  BY DEF IInv
<1> QED BY <1>1, Invariant, PTL

\* Between Cycles, Sync has left every queue's clock where the global one puts it, for every
\* ratio of the clocks.
THEOREM AlignedHolds == Spec => []Aligned
<1>1. IInv => Aligned
  <2> SUFFICES ASSUME IInv, pc = "idle", NEW q \in Queues
               PROVE  /\ ToLocal(q, currentCycle) <= now[q]
                      /\ ToGlobal(q, now[q]) <= currentCycle
    BY DEF Aligned
  <2>1. q \notin todo
    BY DEF IInv, Progress
  <2> QED BY <2>1 DEF IInv, NotAhead, NotBehind, Instant
<1> QED BY <1>1, Invariant, PTL

\* Cycle(steps) moves the global clock by exactly steps and leaves no event behind that was
\* due by then.
THEOREM CycleIsExact == Spec => CycleExact
<1> DEFINE Exact ==
      pc # "idle" /\ pc' = "idle" =>
        /\ currentCycle' = goal
        /\ \A q \in Queues : \A t \in keys'[q] : ToGlobal(q, t) > currentCycle'
<1>1. IInv /\ [Next]_vars => [Exact]_vars
  <2> SUFFICES ASSUME IInv, Next, pc # "idle", pc' = "idle"
               PROVE  /\ currentCycle' = goal
                      /\ \A q \in Queues : \A t \in keys'[q] : ToGlobal(q, t) > currentCycle'
    OBVIOUS
  <2>1. PICK q \in Queues : SyncRest(q)
    BY ZenonT(30) DEF Next, Run, Insert, Cycle, CycleLoop, SyncProcess, Process, CycleRest, TakeRest,
           HandlersReturn
  <2>2. last /\ pc = "sync" /\ keys' = keys /\ currentCycle' = currentCycle
    BY <2>1 DEF IInv, TypeOK, SyncRest, SyncNext
  <2>3. currentCycle = goal
    BY <2>2, Bounds, SMT DEF IInv, Progress
  <2>4. ASSUME NEW p \in Queues, NEW t \in keys[p] PROVE ToGlobal(p, t) > currentCycle
    <3>1. currentCycle < ToGlobal(p, t)
      BY <2>2 DEF IInv, Pending
    <3>2. t \in Nat /\ currentCycle \in Nat
      BY Bounds DEF IInv, TypeOK
    <3>3. ToGlobal(p, t) \in Nat
      BY <3>2, Conversions
    <3> QED BY <3>1, <3>2, <3>3
  <2> QED BY <2>2, <2>3, <2>4
<1> QED BY <1>1, Invariant, PTL DEF Spec, CycleExact

\* Every event is handled in the global cycle its own corresponds to, or in the one that
\* inserted it if that is later.
THEOREM OnTimeHolds == Spec => OnTime
<1> DEFINE Due(q, t) ==
      Instant' = IF ToGlobal(q, t) > born[q][t] THEN ToGlobal(q, t) ELSE born[q][t]
           Punctual == \A q \in Queues : \A t \in keys[q] \ keys'[q] : Due(q, t)
<1>1. ASSUME IInv, NEW q \in Queues, NEW t \in keys[q], pc # "handler",
             Instant' = IF ToGlobal(q, t) > currentCycle THEN ToGlobal(q, t) ELSE currentCycle
      PROVE  Due(q, t)
  <2>1. t \in Cycles
    BY <1>1 DEF IInv, TypeOK
  <2>2. /\ born[q][t] <= currentCycle
        /\ currentCycle <= ToGlobal(q, t) \/ born[q][t] = currentCycle
    BY <1>1 DEF IInv, Pending, Instant
  <2>3. born[q][t] \in Cycles
    BY <1>1, <2>1, ZenonT(30) DEF IInv, TypeOK
  <2>4. born[q][t] \in Nat /\ currentCycle \in Nat /\ t \in Nat
    BY <1>1, <2>1, <2>3, Bounds
  <2>5. ToGlobal(q, t) \in Nat
    BY <2>4, Conversions
  <2> QED BY <1>1, <2>2, <2>4, <2>5, SMT
<1>2. ASSUME IInv, NEW q \in Queues, NEW t \in Cycles, Process(q, t), Due(q, t)
      PROVE  Punctual
  <2>1. \A p \in Queues : \A u \in keys[p] \ keys'[p] : p = q /\ u = t
    BY <1>2 DEF IInv, TypeOK, Process
  <2> QED BY <1>2, <2>1
<1>3. ASSUME IInv, NEW q \in Queues, NEW t \in Cycles, CycleLoop(q, t) PROVE Punctual
  <2>1. t \in keys[q] /\ pc # "handler" /\ Process(q, t)
    BY <1>3 DEF CycleLoop, IsNextEvent
  <2> QED BY <1>1, <1>2, <1>3, <2>1, CycleLoopIInv
<1>4. ASSUME IInv, NEW q \in Queues, NEW t \in Cycles, SyncProcess(q, t) PROVE Punctual
  <2>1. t \in keys[q] /\ pc # "handler" /\ Process(q, t)
    BY <1>4 DEF SyncProcess
  <2>2. ToGlobal(q, t) <= currentCycle /\ Instant' = currentCycle
    BY <1>4, SyncProcessIInv
  <2>3. t \in Nat /\ currentCycle \in Nat
    BY <1>4, Bounds
  <2>4. ToGlobal(q, t) \in Nat
    BY <2>3, Conversions
  <2>5. ~(ToGlobal(q, t) > currentCycle)
    BY <2>2, <2>3, <2>4, SMT
  <2> QED BY <1>1, <1>2, <1>4, <2>1, <2>2, <2>5
<1>5. ASSUME \A q \in Queues : keys[q] \subseteq keys'[q] PROVE Punctual
  BY <1>5
<1>6. IInv /\ [Next]_vars => [Punctual]_vars
  <2> SUFFICES ASSUME IInv, Next PROVE Punctual
    OBVIOUS
  <2>1. CASE keys' = keys
    BY <1>5, <2>1
  <2>2. ASSUME NEW q \in Queues, NEW t \in Cycles, Insert(q, t) PROVE Punctual
    <3>1. \A p \in Queues : keys[p] \subseteq keys'[p]
      BY <2>2 DEF IInv, TypeOK, Insert
    <3> QED BY <1>5, <3>1
  <2> HIDE DEF Punctual
  <2> QED BY <1>3, <1>4, <2>1, <2>2 DEF Next, Run, Cycle, CycleRest, TakeRest, HandlersReturn,
                                        SyncRest, SyncNext
<1> QED BY <1>6, Invariant, PTL DEF Spec, OnTime
=============================================================================
