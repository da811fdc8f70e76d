-------------------------- MODULE EventQueueProofs --------------------------
(***************************************************************************)
(* For every number of events and every clock width: while handlers        *)
(* schedule only for later cycles, the event queue loses no event, handles *)
(* each one once and at its cycle, and Loop leaves the clock where it      *)
(* should.                                                                 *)
(***************************************************************************)
EXTENDS EventQueue, TLAPS

\* Zenon proves a leaf that names no other prover.
USE Zenon

-----------------------------------------------------------------------------
\* std::list's insert and erase

\* A list that continues another.
LEMMA Concatenation ==
  ASSUME NEW S, NEW a \in Seq(S), NEW b \in Seq(S)
  PROVE  (a \o b) \in Seq(S) /\ Len(a \o b) = Len(a) + Len(b)
BY SMT

\* list::insert puts the entry at its place and moves the ones behind it by one.
LEMMA ListInsertEntries ==
  ASSUME NEW S, NEW l \in Seq(S), NEW i \in 1..Len(l) + 1, NEW e \in S
  PROVE  /\ ListInsert(l, i, e) \in Seq(S)
         /\ Len(ListInsert(l, i, e)) = Len(l) + 1
         /\ ListInsert(l, i, e)[i] = e
         /\ \A j \in 1..i - 1 : ListInsert(l, i, e)[j] = l[j]
         /\ \A j \in i..Len(l) : ListInsert(l, i, e)[j + 1] = l[j]
<1> DEFINE a == SubSeq(l, 1, i - 1)
           b == SubSeq(l, i, Len(l))
           c == a \o <<e>>
<1>0. Len(l) \in Nat /\ i \in Int
  BY SMT
<1>1. a \in Seq(S) /\ Len(a) = i - 1 /\ \A j \in 1..i - 1 : a[j] = l[j]
  BY SMT
<1>2. b \in Seq(S) /\ Len(b) = Len(l) + 1 - i /\ \A j \in 1..Len(l) + 1 - i : b[j] = l[i + j - 1]
  BY SMT
<1> HIDE DEF a, b
<1>3. c \in Seq(S) /\ Len(c) = i /\ c[i] = e /\ \A j \in 1..i - 1 : c[j] = l[j]
  BY <1>1, SMT
<1> HIDE DEF c
<1>4. (c \o b) \in Seq(S) /\ Len(c \o b) = Len(l) + 1
  <2>1. (c \o b) \in Seq(S) /\ Len(c \o b) = Len(c) + Len(b)
    BY <1>2, <1>3, Concatenation
  <2> QED BY <1>0, <1>2, <1>3, <2>1, SMT
<1>5. (c \o b)[i] = e /\ \A j \in 1..i - 1 : (c \o b)[j] = l[j]
  BY <1>0, <1>2, <1>3, SMT
<1>6. ASSUME NEW j \in i..Len(l) PROVE (c \o b)[j + 1] = l[j]
  <2>1. j + 1 - i \in 1..Len(b) /\ (c \o b)[j + 1] = b[j + 1 - i]
    BY <1>0, <1>2, <1>3, SMT
  <2> QED BY <1>0, <1>2, <2>1, SMT
<1>7. ListInsert(l, i, e) = c \o b
  BY DEF ListInsert, a, b, c
<1> QED BY <1>4, <1>5, <1>6, <1>7

\* list::erase takes one entry out and moves the ones behind it by one.
LEMMA ListEraseEntries ==
  ASSUME NEW S, NEW l \in Seq(S), NEW i \in 1..Len(l)
  PROVE  /\ ListErase(l, i) \in Seq(S)
         /\ Len(ListErase(l, i)) = Len(l) - 1
         /\ \A j \in 1..i - 1 : ListErase(l, i)[j] = l[j]
         /\ \A j \in i + 1..Len(l) : ListErase(l, i)[j - 1] = l[j]
<1> DEFINE a == SubSeq(l, 1, i - 1)
           b == SubSeq(l, i + 1, Len(l))
<1>0. Len(l) \in Nat /\ i \in Int
  BY SMT
<1>1. a \in Seq(S) /\ Len(a) = i - 1 /\ \A j \in 1..i - 1 : a[j] = l[j]
  BY SMT
<1>2. b \in Seq(S) /\ Len(b) = Len(l) - i /\ \A j \in 1..Len(l) - i : b[j] = l[i + j]
  BY SMT
<1> HIDE DEF a, b
<1>3. (a \o b) \in Seq(S) /\ Len(a \o b) = Len(l) - 1
  <2>1. (a \o b) \in Seq(S) /\ Len(a \o b) = Len(a) + Len(b)
    BY <1>1, <1>2, Concatenation
  <2> QED BY <1>0, <1>1, <1>2, <2>1, SMT
<1>4. \A j \in 1..i - 1 : (a \o b)[j] = l[j]
  BY <1>0, <1>1, <1>2, SMT
<1>5. ASSUME NEW j \in i + 1..Len(l) PROVE (a \o b)[j - 1] = l[j]
  <2>1. j - i \in 1..Len(b) /\ (a \o b)[j - 1] = b[j - i]
    BY <1>0, <1>1, <1>2, SMT
  <2> QED BY <1>0, <1>2, <2>1, SMT
<1>6. ListErase(l, i) = a \o b
  BY DEF ListErase, a, b
<1> QED BY <1>3, <1>4, <1>5, <1>6

-----------------------------------------------------------------------------
\* Priorities

\* A callback keeps the priority it was asked for; every other event is stored with 0.
LEMMA Priorities ==
  /\ \A k \in Kinds : Asked[k] \in Int /\ Stored(k) \in Int
  /\ \A k \in Kinds : k \in Callbacks => Stored(k) = Asked[k]
  /\ \A k \in Kinds : k \notin Callbacks => Stored(k) = 0 /\ Asked[k] >= 0
BY SMT DEF Kinds, Asked, Stored, Callbacks

-----------------------------------------------------------------------------
\* The list of a cycle

\* The entries of list l behind position d are those of the events that wait for cycle t,
\* each once.
Lists(l, d, t, w) ==
  /\ \A i \in d + 1..Len(l) : l[i] \in Events /\ w[l[i]] = t
  /\ \A i, j \in d + 1..Len(l) : l[i] = l[j] => i = j
  /\ \A e \in Events : w[e] = t => \E i \in d + 1..Len(l) : l[i] = e

\* The callbacks among them are in the order of priority, those of negative priority before
\* everything else.
Ordered(l, d, k) ==
  \A i, j \in d + 1..Len(l) :
    i < j /\ k[l[j]] \in Callbacks /\ (k[l[i]] \in Callbacks \/ Asked[k[l[j]]] < 0)
      => Stored(k[l[i]]) <= Stored(k[l[j]])

\* A list stays a cycle's list when the same events are due at the cycle.
LEMMA ListsFrame ==
  ASSUME NEW l, NEW d, NEW t, NEW w, NEW u, Lists(l, d, t, w),
         \A e \in Events : w[e] = t <=> u[e] = t
  PROVE  Lists(l, d, t, u)
BY DEF Lists

\* A list stays ordered when its waiting entries keep their kinds.
LEMMA OrderedFrame ==
  ASSUME NEW l, NEW d, NEW k, NEW m, Ordered(l, d, k),
         \A i \in d + 1..Len(l) : m[l[i]] = k[l[i]]
  PROVE  Ordered(l, d, m)
BY DEF Ordered

\* Inserting an event that waits nowhere makes the list that of a cycle with one more event.
LEMMA ListsInsert ==
  ASSUME NEW l \in Seq(Events \cup {Freed}), NEW t \in Cycles,
         NEW w \in [Events -> Cycles \cup {None}], NEW e \in Events, NEW i \in 1..Len(l) + 1,
         Lists(l, 0, t, w), w[e] = None
  PROVE  Lists(ListInsert(l, i, e), 0, t, [w EXCEPT ![e] = t])
<1> DEFINE n == ListInsert(l, i, e)
           u == [w EXCEPT ![e] = t]
           At(j) == IF j < i THEN j ELSE j - 1
<1>0. Len(l) \in Nat /\ i \in Int /\ t # None
  BY ConstantsAssumption, SMT DEF Cycles
<1>1. /\ Len(n) = Len(l) + 1 /\ n[i] = e
      /\ \A j \in 1..i - 1 : n[j] = l[j]
      /\ \A j \in i..Len(l) : n[j + 1] = l[j]
  BY ListInsertEntries, SMT
<1> HIDE DEF n
<1>2. ASSUME NEW j \in 1..Len(n), j # i
      PROVE  At(j) \in 1..Len(l) /\ n[j] = l[At(j)]
  <2>1. CASE j > i
    <3>1. At(j) = j - 1 /\ j - 1 \in i..Len(l) /\ (j - 1) + 1 = j
      BY <1>0, <1>1, <2>1, SMT
    <3>2. n[j] = l[j - 1]
      BY <1>1, <3>1
    <3> QED BY <1>0, <3>1, <3>2, SMT
  <2>2. CASE j < i
    BY <1>0, <1>1, <2>2, SMT
  <2> QED BY <1>0, <1>1, <1>2, <2>1, <2>2, SMT
<1>3. /\ \A j \in 1..Len(l) : l[j] \in Events /\ l[j] # e /\ w[l[j]] = t
      /\ \A j, m \in 1..Len(l) : l[j] = l[m] => j = m
  BY <1>0, SMT DEF Lists
<1>4. ASSUME NEW j \in 1..Len(n) PROVE n[j] \in Events /\ u[n[j]] = t
  <2>1. CASE j = i
    BY <1>1, <2>1
  <2>2. CASE j # i
    BY <1>2, <1>3, <2>2, SMT
  <2> QED BY <2>1, <2>2
<1>5. ASSUME NEW j \in 1..Len(n), NEW m \in 1..Len(n), n[j] = n[m] PROVE j = m
  <2>1. CASE j = i
    BY <1>1, <1>2, <1>3, <1>5, <2>1, SMT
  <2>2. CASE m = i
    BY <1>1, <1>2, <1>3, <1>5, <2>2, SMT
  <2>3. CASE j # i /\ m # i
    <3>1. At(j) = At(m)
      <4> HIDE DEF At
      <4> QED BY <1>2, <1>3, <1>5, <2>3, SMTT(30)
    <3> QED BY <1>0, <1>1, <2>3, <3>1, SMT
  <2> QED BY <2>1, <2>2, <2>3
<1>6. ASSUME NEW f \in Events, u[f] = t PROVE \E j \in 1..Len(n) : n[j] = f
  <2>1. CASE f = e
    BY <1>0, <1>1, <2>1
  <2>2. CASE f # e
    <3>1. PICK j \in 1..Len(l) : l[j] = f
      BY <1>6, <2>2, SMT DEF Lists
    <3>2. CASE j < i
      BY <1>0, <1>1, <3>1, <3>2, SMT
    <3>3. CASE j >= i
      <4>1. j + 1 \in 1..Len(n) /\ n[j + 1] = f
        BY <1>0, <1>1, <3>1, <3>3, SMT
      <4> QED BY <4>1
    <3> QED BY <1>0, <3>2, <3>3, SMT
  <2> QED BY <2>1, <2>2
<1> QED BY <1>4, <1>5, <1>6, SMT DEF Lists, n

\* The place InsertEvent searches keeps the list ordered by priority.
LEMMA OrderedInsert ==
  ASSUME NEW l \in Seq(Events \cup {Freed}), NEW k \in [Events -> Kinds], NEW e \in Events,
         NEW c \in Kinds, NEW i \in 1..Len(l) + 1,
         Ordered(l, 0, k),
         \A j \in 1..Len(l) : l[j] \in Events /\ l[j] # e,
         i <= Len(l) => Stored(k[l[i]]) > Asked[c],
         \A j \in 1..i - 1 : Stored(k[l[j]]) <= Asked[c]
  PROVE  Ordered(ListInsert(l, i, e), 0, [k EXCEPT ![e] = c])
<1> DEFINE n == ListInsert(l, i, e)
           m == [k EXCEPT ![e] = c]
           At(j) == IF j < i THEN j ELSE j - 1
<1>0. Len(l) \in Nat /\ i \in Int
  BY SMT
<1>1. /\ Len(n) = Len(l) + 1 /\ n[i] = e
      /\ \A j \in 1..i - 1 : n[j] = l[j]
      /\ \A j \in i..Len(l) : n[j + 1] = l[j]
  BY ListInsertEntries, SMT
<1> HIDE DEF n
<1>2. ASSUME NEW j \in 1..Len(n), j # i
      PROVE  /\ At(j) \in 1..Len(l) /\ n[j] = l[At(j)]
             /\ m[n[j]] = k[l[At(j)]] /\ k[l[At(j)]] \in Kinds
  <2>1. CASE j > i
    <3>1. At(j) = j - 1 /\ j - 1 \in i..Len(l) /\ (j - 1) + 1 = j
      BY <1>0, <1>1, <2>1, SMT
    <3>2. n[j] = l[j - 1] /\ j - 1 \in 1..Len(l)
      BY <1>0, <1>1, <3>1, SMT
    <3> QED BY <3>1, <3>2
  <2>2. CASE j < i
    <3>1. At(j) = j /\ n[j] = l[j] /\ j \in 1..Len(l)
      BY <1>0, <1>1, <2>2, SMT
    <3> QED BY <3>1
  <2> QED BY <1>0, <1>1, <1>2, <2>1, <2>2, SMT
<1>3. m[n[i]] = c
  BY <1>1
<1>4. \A a, b \in 1..Len(l) :
        a < b /\ k[l[b]] \in Callbacks /\ (k[l[a]] \in Callbacks \/ Asked[k[l[b]]] < 0)
          => Stored(k[l[a]]) <= Stored(k[l[b]])
  BY SMT DEF Ordered
<1> HIDE DEF m
<1>5. ASSUME NEW p \in 1..Len(n), NEW q \in 1..Len(n), p < q, m[n[q]] \in Callbacks,
             m[n[p]] \in Callbacks \/ Asked[m[n[q]]] < 0
      PROVE  Stored(m[n[p]]) <= Stored(m[n[q]])
  <2>0. p \in Int /\ q \in Int
    BY <1>0, <1>1, SMT
  <2>1. CASE q = i
    <3>1. p # i /\ At(p) = p /\ p \in 1..i - 1
      BY <1>0, <1>5, <2>0, <2>1, SMT
    <3>2. m[n[p]] = k[l[p]]
      BY <1>2, <3>1
    <3> QED BY <1>3, <1>5, <2>1, <3>1, <3>2, Priorities
  <2>2. CASE p = i
    <3>1. q # i /\ i <= Len(l) /\ At(q) \in i..Len(l) /\ i \in 1..Len(l)
      BY <1>0, <1>1, <1>5, <2>0, <2>2, SMT
    <3>2. m[n[q]] = k[l[At(q)]] /\ At(q) \in 1..Len(l) /\ k[l[At(q)]] \in Kinds
      BY <1>2, <3>1
    <3> DEFINE b == At(q)
    <3> HIDE DEF At, b
    <3>3. CASE b = i
      BY <1>3, <1>5, <2>2, <3>1, <3>2, <3>3, Priorities, SMT DEF b
    <3>4. CASE b # i
      <4>1. i < b /\ b \in 1..Len(l) /\ k[l[i]] \in Kinds
        BY <1>0, <3>1, <3>2, <3>4, SMT DEF b
      <4>2. k[l[b]] \in Callbacks /\ (k[l[i]] \in Callbacks \/ Asked[k[l[b]]] < 0)
               => Stored(k[l[i]]) <= Stored(k[l[b]])
        BY <1>4, <3>1, <4>1
      <4> QED BY SMTT(30), <1>3, <1>5, <2>2, <3>1, <3>2, <4>1, <4>2, Priorities DEF b
    <3> QED BY <3>3, <3>4
  <2>3. CASE p # i /\ q # i
    <3>1. At(p) < At(q)
      BY <1>0, <1>5, <2>0, <2>3, SMT
    <3> HIDE DEF At
    <3> QED BY <1>2, <1>4, <1>5, <2>3, <3>1
  <2> QED BY <2>1, <2>2, <2>3
<1> QED BY <1>5, SMT DEF Ordered, n, m

\* Erasing a waiting entry leaves the list of the events that still wait, in order.
LEMMA ListsRemove ==
  ASSUME NEW l \in Seq(Events \cup {Freed}), NEW d \in Nat, NEW t \in Cycles,
         NEW w \in [Events -> Cycles \cup {None}], NEW k, NEW i \in d + 1..Len(l),
         Lists(l, d, t, w), Ordered(l, d, k)
  PROVE  /\ Lists(ListErase(l, i), d, t, [w EXCEPT ![l[i]] = None])
         /\ Ordered(ListErase(l, i), d, k)
<1> DEFINE n == ListErase(l, i)
           u == [w EXCEPT ![l[i]] = None]
           Up(j) == IF j < i THEN j ELSE j + 1
<1>0. Len(l) \in Nat /\ i \in 1..Len(l) /\ i \in Int /\ t # None
  BY ConstantsAssumption, SMT DEF Cycles
<1>1. /\ Len(n) = Len(l) - 1
      /\ \A j \in 1..i - 1 : n[j] = l[j]
      /\ \A j \in i + 1..Len(l) : n[j - 1] = l[j]
  BY <1>0, ListEraseEntries, ZenonT(30)
<1> HIDE DEF n
<1>2. ASSUME NEW j \in d + 1..Len(n)
      PROVE  Up(j) \in d + 1..Len(l) /\ Up(j) # i /\ n[j] = l[Up(j)]
  <2>0. j \in Int
    BY <1>0, <1>1, SMT
  <2>1. CASE j >= i
    <3>1. Up(j) = j + 1 /\ j + 1 \in i + 1..Len(l) /\ (j + 1) - 1 = j
      BY <1>0, <1>1, <2>0, <2>1, SMT
    <3>2. n[j] = l[j + 1]
      BY <1>1, <3>1
    <3> QED BY <1>0, <2>0, <2>1, <3>1, <3>2, SMT
  <2>2. CASE j < i
    BY <1>0, <1>1, <2>0, <2>2, SMT
  <2> QED BY <1>0, <2>0, <2>1, <2>2, SMT
<1>3. \A p, q \in d + 1..Len(n) : Up(p) = Up(q) => p = q
  BY <1>0, <1>1, SMT
<1>4. \A p, q \in d + 1..Len(n) : p < q => Up(p) < Up(q)
  BY <1>0, <1>1, SMT
<1>5. ASSUME NEW f \in Events, u[f] = t PROVE \E j \in d + 1..Len(n) : n[j] = f
  <2>1. f # l[i] /\ w[f] = t
    BY <1>0, <1>5
  <2>2. PICK a \in d + 1..Len(l) : l[a] = f
    BY <2>1 DEF Lists
  <2>3. a # i /\ a \in Int
    BY <1>0, <2>1, <2>2, SMT
  <2>4. CASE a < i
    BY <1>0, <1>1, <2>2, <2>4, SMT
  <2>5. CASE a > i
    <3>1. a \in i + 1..Len(l) /\ a - 1 \in d + 1..Len(n)
      BY <1>0, <1>1, <2>2, <2>5, SMT
    <3> QED BY <1>1, <2>2, <3>1
  <2> QED BY <1>0, <2>3, <2>4, <2>5, SMT
<1> HIDE DEF Up
<1>6. ASSUME NEW j \in d + 1..Len(n) PROVE n[j] \in Events /\ u[n[j]] = t
  BY <1>0, <1>2, SMT DEF Lists
<1>7. ASSUME NEW p \in d + 1..Len(n), NEW q \in d + 1..Len(n), n[p] = n[q] PROVE p = q
  BY <1>2, <1>3, <1>7, SMTT(30) DEF Lists
<1>8. Lists(n, d, t, u)
  BY <1>5, <1>6, <1>7 DEF Lists
<1>9. Ordered(n, d, k)
  BY <1>2, <1>4 DEF Ordered
<1> QED BY <1>8, <1>9 DEF n

\* The event after the first d is called, and the entries before it, freed or not, count no
\* more.
LEMMA ListsNext ==
  ASSUME NEW l \in Seq(Events \cup {Freed}), NEW n \in Seq(Events \cup {Freed}), NEW d \in Nat,
         NEW t \in Cycles, NEW w \in [Events -> Cycles \cup {None}], NEW k,
         Lists(l, d, t, w), Ordered(l, d, k), d + 1 \in 1..Len(l),
         Len(n) = Len(l), \A j \in d + 1..Len(l) : n[j] = l[j]
  PROVE  /\ Lists(n, d + 1, t, [w EXCEPT ![l[d + 1]] = None])
         /\ Ordered(n, d + 1, k)
<1>0. Len(l) \in Nat /\ t # None
  BY ConstantsAssumption, SMT DEF Cycles
<1>1. \A j \in (d + 1) + 1..Len(n) : j \in d + 1..Len(l) /\ j # d + 1 /\ n[j] = l[j]
  BY <1>0, SMT
<1>2. \A j \in (d + 1) + 1..Len(n) : l[j] # l[d + 1]
  BY <1>0, <1>1, SMT DEF Lists
<1>3. ASSUME NEW f \in Events, [w EXCEPT ![l[d + 1]] = None][f] = t
      PROVE  \E j \in (d + 1) + 1..Len(n) : n[j] = f
  <2>1. w[f] = t /\ f # l[d + 1]
    BY <1>0, <1>3
  <2>2. PICK j \in d + 1..Len(l) : l[j] = f
    BY <2>1 DEF Lists
  <2>3. j \in (d + 1) + 1..Len(n)
    BY <1>0, <2>1, <2>2, SMT
  <2> QED BY <2>2, <2>3
<1>4. \A j \in (d + 1) + 1..Len(n) : n[j] \in Events /\ [w EXCEPT ![l[d + 1]] = None][n[j]] = t
  BY <1>1, <1>2 DEF Lists
<1>5. \A i, j \in (d + 1) + 1..Len(n) : n[i] = n[j] => i = j
  BY <1>1, ZenonT(30) DEF Lists
<1>6. Ordered(n, d + 1, k)
  BY <1>1 DEF Ordered
<1> QED BY <1>3, <1>4, <1>5, <1>6 DEF Lists

\* How many entries of the list of cycle t Process is done with.
Done(t) == IF pc = "handler" /\ t = nextEventCycle THEN it ELSE 0

ListInv ==
  \A t \in Cycles : Lists(eventMap[t], Done(t), t, due) /\ Ordered(eventMap[t], Done(t), kind)

\* How far the running Loop still has to move the clock.
Left == IF pc = "idle" THEN 0 ELSE [one |-> 1, zero |-> 0, steps |-> stepCycles][caller]

ClockInv ==
  /\ currentCycle <= nextEventCycle /\ goal < MaxCycle
  /\ goal = currentCycle + Left
  /\ pc = "tick" => caller = "one" /\ currentCycle < nextEventCycle
  /\ pc = "loop" => caller = "steps"
  /\ pc \in {"process", "handler"}
       => nextEventCycle = currentCycle /\ eventMap[nextEventCycle] # <<>>
  /\ IF pc = "handler"
     THEN /\ it \in 1..Len(eventMap[nextEventCycle])
          /\ running \in Events /\ due[running] = None
          /\ \A j \in 1..it - 1 : eventMap[nextEventCycle][j] = Freed
     ELSE it = 0

QueueInv ==
  /\ TypeOK
  /\ IsEarliest(eventMap, nextEventCycle)
  /\ ClockInv
  /\ ListInv

-----------------------------------------------------------------------------
\* Each action keeps the invariant

\* The empty queue at cycle 0 is well formed.
LEMMA InitQueue == Init => QueueInv
<1> SUFFICES ASSUME Init PROVE QueueInv
  OBVIOUS
<1> USE ConstantsAssumption DEF Init
<1>1. TypeOK
  BY SMT DEF TypeOK, Cycles, NoEvent, Kinds, Asked
<1>2. IsEarliest(eventMap, nextEventCycle)
  BY DEF IsEarliest
<1>3. ClockInv
  BY SMT DEF ClockInv, Left, NoEvent
<1>4. ASSUME NEW t \in Cycles
      PROVE  Lists(eventMap[t], Done(t), t, due) /\ Ordered(eventMap[t], Done(t), kind)
  BY SMT DEF Cycles, Lists, Ordered, Done
<1> QED BY <1>1, <1>2, <1>3, <1>4 DEF QueueInv, ListInv

\* InsertEvent keeps the queue well formed, and calls no handler.
LEMMA InsertQueue ==
  ASSUME ~ Reentrant, QueueInv, NEW e \in Events, NEW k \in Kinds, NEW t \in Cycles,
         InsertEvent(e, k, t)
  PROVE  QueueInv' /\ running' = running
<1> USE DEF QueueInv
<1>1. PICK i \in Places(eventMap[t], k) :
        /\ eventMap' = [eventMap EXCEPT ![t] = ListInsert(@, i, e)]
        /\ it' = IF pc = "handler" /\ t = nextEventCycle /\ i <= it THEN it + 1 ELSE it
  BY DEF InsertEvent
<1> DEFINE l == eventMap[t]
<1>2. /\ currentCycle <= t /\ (pc = "handler" => nextEventCycle < t)
      /\ pc \in {"idle", "handler"} /\ pc' = pc
      /\ due[e] = None /\ e # running
      /\ nextEventCycle' = IF t < nextEventCycle THEN t ELSE nextEventCycle
      /\ kind' = [kind EXCEPT ![e] = k] /\ due' = [due EXCEPT ![e] = t]
      /\ UNCHANGED <<lastEventCycle, currentCycle, stepCycles, caller, goal>>
  BY SMT DEF InsertEvent, MayInsert, ClockInv, TypeOK, Cycles, loop
<1>3. /\ t \in Int /\ nextEventCycle \in Int /\ it' = it
      /\ (pc = "handler" => nextEventCycle' = nextEventCycle)
  BY <1>1, <1>2, SMT DEF TypeOK, Cycles
<1>4. l \in Seq(Events \cup {Freed}) /\ Done(t) = 0
  BY <1>2, <1>3, SMTT(30) DEF TypeOK, Done
<1>5. Lists(l, 0, t, due) /\ Ordered(l, 0, kind)
  BY <1>4 DEF ListInv
<1>6. \A j \in 1..Len(l) : l[j] \in Events /\ l[j] # e /\ l[j] # Freed
  BY <1>2, <1>5, ConstantsAssumption, SMT DEF Lists, Cycles
<1>7. /\ i \in 1..Len(l) + 1
      /\ i <= Len(l) => Stored(kind[l[i]]) > Asked[k]
      /\ \A j \in 1..i - 1 : Stored(kind[l[j]]) <= Asked[k]
  <2>1. i \in 1..Len(l) + 1 /\ Len(l) \in Nat
    BY <1>4, SMT DEF Places
  <2>2. i <= Len(l) => i \in 1..Len(l)
    BY <2>1, SMT
  <2>3. \A j \in 1..i - 1 : j \in 1..Len(l)
    BY <2>1, SMT
  <2> QED BY <1>6, <2>1, <2>2, <2>3 DEF Places
<1> HIDE DEF l
<1>8. eventMap'[t] = ListInsert(l, i, e) /\ \A u \in Cycles : u # t => eventMap'[u] = eventMap[u]
  BY <1>1 DEF TypeOK, l
<1>9. /\ ListInsert(l, i, e) \in Seq(Events \cup {Freed})
      /\ Len(ListInsert(l, i, e)) = Len(l) + 1 /\ Len(l) \in Nat
  BY <1>4, <1>7, ListInsertEntries, SMT
<1>10. eventMap'[t] # <<>>
  BY <1>8, <1>9, SMT
<1>11. TypeOK'
  <2>1. eventMap' \in [Cycles -> Seq(Events \cup {Freed})]
    BY <1>1, <1>9 DEF TypeOK, l
  <2> QED BY <1>2, <1>3, <2>1 DEF TypeOK
<1>12. IsEarliest(eventMap, nextEventCycle)'
  <2>1. CASE t < nextEventCycle
    BY <1>2, <1>3, <1>8, <1>10, <2>1, SMT DEF IsEarliest, Cycles, NoEvent, TypeOK
  <2>2. CASE ~ (t < nextEventCycle)
    BY <1>2, <1>3, <1>8, <1>10, <2>2, SMT DEF IsEarliest, Cycles, NoEvent, TypeOK
  <2> QED BY <2>1, <2>2
<1>a. running' = running
  <2>1. CASE pc = "handler"
    <3>1. eventMap'[nextEventCycle] = eventMap[nextEventCycle]
      BY <1>2, <1>3, <1>8, <2>1, SMT DEF TypeOK
    <3> QED BY <1>2, <1>3, <2>1, <3>1 DEF running
  <2>2. CASE pc # "handler"
    BY <1>2, <2>2 DEF running
  <2> QED BY <2>1, <2>2
<1>13. ClockInv'
  <2>1. CASE pc = "idle"
    BY <1>2, <1>3, <2>1 DEF ClockInv, Left, running, TypeOK, Cycles
  <2>2. CASE pc = "handler"
    <3>1. eventMap'[nextEventCycle] = eventMap[nextEventCycle]
      BY <1>2, <1>3, <1>8, <2>2, SMT DEF TypeOK
    <3>2. due'[running] = None
      BY <1>2, <2>2 DEF ClockInv, TypeOK
    <3>3. Left' = Left
      BY <1>2 DEF Left
    <3> QED BY <1>2, <1>3, <1>a, <2>2, <3>1, <3>2, <3>3 DEF ClockInv
  <2> QED BY <1>2, <2>1, <2>2
<1>14. \A u \in Cycles : Done(u)' = Done(u)
  BY <1>2, <1>3 DEF Done
<1>15. Lists(eventMap'[t], 0, t, due') /\ Ordered(eventMap'[t], 0, kind')
  <2>1. Lists(ListInsert(l, i, e), 0, t, [due EXCEPT ![e] = t])
    BY <1>2, <1>4, <1>5, <1>7, ListsInsert DEF TypeOK
  <2>2. Ordered(ListInsert(l, i, e), 0, [kind EXCEPT ![e] = k])
    BY <1>4, <1>5, <1>6, <1>7, OrderedInsert DEF TypeOK
  <2> QED BY <1>2, <1>8, <2>1, <2>2
<1>16. ASSUME NEW u \in Cycles, u # t
       PROVE  Lists(eventMap'[u], Done(u), u, due') /\ Ordered(eventMap'[u], Done(u), kind')
  <2>1. Lists(eventMap[u], Done(u), u, due) /\ Ordered(eventMap[u], Done(u), kind)
    BY DEF ListInv
  <2>2. u # None /\ \A f \in Events : due[f] = u <=> due'[f] = u
    BY <1>2, <1>16, ConstantsAssumption, SMT DEF TypeOK, Cycles
  <2>3. \A j \in Done(u) + 1..Len(eventMap[u]) : kind'[eventMap[u][j]] = kind[eventMap[u][j]]
    BY <1>2, <2>1, <2>2 DEF Lists, TypeOK
  <2>4. Lists(eventMap[u], Done(u), u, due')
    BY <2>1, <2>2, ListsFrame
  <2>5. Ordered(eventMap[u], Done(u), kind')
    BY <2>1, <2>3, OrderedFrame
  <2> QED BY <1>8, <1>16, <2>4, <2>5
<1>17. ListInv'
  BY <1>4, <1>14, <1>15, <1>16 DEF ListInv
<1> QED BY <1>a, <1>11, <1>12, <1>13, <1>17

\* RemoveEvent keeps the queue well formed, and calls no handler.
LEMMA RemoveQueue ==
  ASSUME QueueInv, NEW e \in Events, RemoveEvent(e)
  PROVE  QueueInv' /\ running' = running
<1> USE DEF QueueInv
<1> DEFINE t == due[e]
           l == eventMap[t]
<1>1. PICK i \in 1..Len(l) :
        /\ l[i] = e
        /\ eventMap' = [eventMap EXCEPT ![t] = ListErase(@, i)]
        /\ it' = IF pc = "handler" /\ t = nextEventCycle /\ i < it THEN it - 1 ELSE it
  BY DEF RemoveEvent
<1>2. /\ pc \in {"idle", "handler"} /\ pc' = pc
      /\ t \in Cycles
      /\ due' = [due EXCEPT ![e] = None]
      /\ UNCHANGED <<lastEventCycle, kind, currentCycle, stepCycles, caller, goal>>
  BY DEF RemoveEvent, TypeOK, loop
<1>3. PICK n \in Cycles : IsEarliest(eventMap', n) /\ nextEventCycle' = n
  BY DEF RemoveEvent
<1>4. /\ l \in Seq(Events \cup {Freed}) /\ Len(l) \in Nat /\ i \in Int
      /\ nextEventCycle \in Int /\ it \in Nat /\ t # None
  BY <1>2, ConstantsAssumption, SMT DEF TypeOK, Cycles
<1>5. i \in Done(t) + 1..Len(l) /\ Done(t) \in Nat /\ it' = it
  <2>1. CASE pc = "handler" /\ t = nextEventCycle
    <3>1. i # it
      BY <1>1, <1>4, <2>1 DEF ClockInv, running
    <3>2. ~ (i < it)
      <4>1. SUFFICES ASSUME i < it PROVE FALSE
        OBVIOUS
      <4>2. i \in 1..it - 1
        BY <1>4, <4>1, SMT
      <4> QED BY <1>1, <2>1, <4>2, ConstantsAssumption DEF ClockInv
    <3> QED BY <1>1, <1>4, <2>1, <3>1, <3>2, SMT DEF Done
  <2>2. CASE ~ (pc = "handler" /\ t = nextEventCycle)
    BY <1>1, <1>4, <2>2, SMT DEF Done
  <2> QED BY <2>1, <2>2
<1>6. /\ ListErase(l, i) \in Seq(Events \cup {Freed}) /\ Len(ListErase(l, i)) = Len(l) - 1
      /\ \A j \in 1..i - 1 : ListErase(l, i)[j] = l[j]
  BY <1>1, <1>4, ListEraseEntries, ZenonT(30)
<1> HIDE DEF l
<1>7. eventMap'[t] = ListErase(l, i) /\ \A u \in Cycles : u # t => eventMap'[u] = eventMap[u]
  BY <1>1, <1>2 DEF TypeOK, l
<1>8. l = eventMap[t] /\ l # <<>>
  BY <1>1, <1>4, SMT DEF l
<1> HIDE DEF t
<1>9. \A u \in Cycles : eventMap'[u] # <<>> => eventMap[u] # <<>>
  BY <1>7, <1>8
<1>10. nextEventCycle <= n
  BY <1>3, <1>9, SMT DEF IsEarliest, TypeOK, Cycles, NoEvent
<1>11. pc = "handler" => /\ n = nextEventCycle
                         /\ it \in 1..Len(eventMap'[nextEventCycle])
                         /\ \A j \in 1..it : eventMap'[nextEventCycle][j] = eventMap[nextEventCycle][j]
  <2> SUFFICES ASSUME pc = "handler"
               PROVE  /\ n = nextEventCycle
                      /\ it \in 1..Len(eventMap'[nextEventCycle])
                      /\ \A j \in 1..it :
                           eventMap'[nextEventCycle][j] = eventMap[nextEventCycle][j]
    OBVIOUS
  <2>1. it \in 1..Len(eventMap[nextEventCycle]) /\ nextEventCycle \in Cycles
    BY DEF ClockInv, TypeOK
  <2>2. /\ it \in 1..Len(eventMap'[nextEventCycle])
        /\ \A j \in 1..it : eventMap'[nextEventCycle][j] = eventMap[nextEventCycle][j]
    <3>1. CASE t = nextEventCycle
      <4>1. it < i /\ it \in 1..Len(l) - 1
        BY <1>4, <1>5, <1>8, <2>1, <3>1, SMT DEF Done
      <4> QED BY <1>4, <1>6, <1>7, <1>8, <3>1, <4>1, SMT
    <3>2. CASE t # nextEventCycle
      BY <1>7, <2>1, <3>2
    <3> QED BY <3>1, <3>2
  <2>3. eventMap'[nextEventCycle] # <<>>
    BY <2>2, <1>4, SMT
  <2> QED BY <1>3, <1>10, <2>1, <2>2, <2>3, SMT DEF IsEarliest, Cycles
<1>12. TypeOK'
  <2>1. eventMap' \in [Cycles -> Seq(Events \cup {Freed})]
    BY <1>1, <1>2, <1>6, <1>8 DEF TypeOK
  <2> QED BY <1>2, <1>3, <1>5, <2>1 DEF TypeOK
<1>a. running' = running
  <2>1. CASE pc = "handler"
    <3>1. nextEventCycle' = nextEventCycle /\ it \in 1..it
      BY <1>3, <1>4, <1>11, <2>1, SMT DEF ClockInv
    <3> QED BY <1>2, <1>5, <1>11, <2>1, <3>1 DEF running
  <2>2. CASE pc # "handler"
    BY <1>2, <2>2 DEF running
  <2> QED BY <2>1, <2>2
<1>13. ClockInv'
  <2>1. Left' = Left
    BY <1>2 DEF Left
  <2>2. CASE pc = "idle"
    BY <1>2, <1>3, <1>5, <1>10, <2>1, <2>2, SMT DEF ClockInv, TypeOK, Cycles
  <2>3. CASE pc = "handler"
    <3>1. nextEventCycle' = nextEventCycle
      BY <1>3, <1>11, <2>3
    <3>2. due'[running] = None
      BY <1>2, <2>3 DEF ClockInv, TypeOK
    <3>3. \A j \in 1..it - 1 : eventMap'[nextEventCycle][j] = Freed
      <4>1. \A j \in 1..it - 1 : eventMap[nextEventCycle][j] = Freed
        BY <2>3 DEF ClockInv
      <4>2. \A j \in 1..it - 1 : j \in 1..it
        BY <1>4, SMT
      <4>3. \A j \in 1..it :
              eventMap'[nextEventCycle][j] = eventMap[nextEventCycle][j]
        BY <1>11, <2>3
      <4> HIDE DEF ClockInv, TypeOK, ListInv, QueueInv
      <4> QED BY <4>1, <4>2, <4>3
    <3>4. eventMap'[nextEventCycle] # <<>>
      BY <1>4, <1>11, <2>3, SMT
    <3> QED BY <1>2, <1>5, <1>11, <2>1, <2>3, <1>a, <3>1, <3>2, <3>3, <3>4 DEF ClockInv
  <2> QED BY <1>2, <2>2, <2>3
<1>14. \A u \in Cycles : Done(u)' = Done(u)
  BY <1>2, <1>3, <1>5, <1>11 DEF Done
<1>15. Lists(eventMap'[t], Done(t), t, due') /\ Ordered(eventMap'[t], Done(t), kind')
  <2>1. Lists(l, Done(t), t, due) /\ Ordered(l, Done(t), kind)
    BY <1>2, <1>8 DEF ListInv
  <2>2. /\ Lists(ListErase(l, i), Done(t), t, [due EXCEPT ![l[i]] = None])
        /\ Ordered(ListErase(l, i), Done(t), kind)
    BY <1>2, <1>4, <1>5, <2>1, ListsRemove DEF TypeOK
  <2>3. l[i] = e
    BY <1>1 DEF l, t
  <2> QED BY <1>2, <1>7, <2>2, <2>3
<1>16. ASSUME NEW u \in Cycles, u # t
       PROVE  Lists(eventMap'[u], Done(u), u, due') /\ Ordered(eventMap'[u], Done(u), kind')
  <2>1. Lists(eventMap[u], Done(u), u, due) /\ Ordered(eventMap[u], Done(u), kind)
    BY DEF ListInv
  <2>2. \A f \in Events : due[f] = u <=> due'[f] = u
    BY <1>2, <1>16, ConstantsAssumption, SMTT(30) DEF TypeOK, Cycles, t
  <2>3. Lists(eventMap[u], Done(u), u, due')
    BY <2>1, <2>2, ListsFrame
  <2> QED BY <1>2, <1>7, <1>16, <2>1, <2>3
<1>17. ListInv'
  BY <1>14, <1>15, <1>16 DEF ListInv
<1> QED BY <1>a, <1>3, <1>12, <1>13, <1>17

\* Loop moves the clock between walks and touches no list.
LEMMA LoopQueue ==
  ASSUME QueueInv, LoopOne \/ Tick \/ LoopZero \/ (\E steps \in 1..MaxSteps : LoopSteps(steps))
                     \/ LoopRest \/ LoopToEvent \/ LoopEnd
  PROVE  QueueInv'
<1> USE DEF QueueInv, queue, loop
<1>0. UNCHANGED <<queue, it>> /\ pc # "handler" /\ pc' # "handler"
  BY DEF LoopOne, Tick, LoopZero, LoopSteps, LoopRest, LoopToEvent, LoopEnd
<1>1. /\ currentCycle \in Nat /\ nextEventCycle \in Nat /\ stepCycles \in Nat /\ goal \in Nat
      /\ MaxCycle \in Nat /\ MaxSteps \in Nat /\ currentCycle < MaxCycle
      /\ nextEventCycle < MaxCycle => eventMap[nextEventCycle] # <<>>
  BY SMTT(30), ConstantsAssumption DEF TypeOK, ClockInv, Left, Cycles, IsEarliest, NoEvent
<1>2. TypeOK' /\ ClockInv'
  <2> USE DEF TypeOK, ClockInv, Left, Cycles
  <2>1. CASE LoopOne
    BY <1>0, <1>1, <2>1, SMT DEF LoopOne
  <2>2. CASE Tick
    BY SMTT(30), <1>0, <1>1, <2>2 DEF Tick
  <2>3. CASE LoopZero
    BY <1>0, <1>1, <2>3, SMT DEF LoopZero
  <2>4. ASSUME NEW steps \in 1..MaxSteps, LoopSteps(steps) PROVE TypeOK' /\ ClockInv'
    BY <1>0, <1>1, <2>4, SMTT(30) DEF LoopSteps
  <2>5. CASE LoopRest
    BY SMTT(30), <1>0, <1>1, <2>5 DEF LoopRest
  <2>6. CASE LoopToEvent
    <3>1. /\ currentCycle' = nextEventCycle /\ pc' = "process" /\ caller = "steps"
          /\ stepCycles' = stepCycles - (nextEventCycle - currentCycle)
          /\ nextEventCycle <= currentCycle + stepCycles
          /\ goal = currentCycle + stepCycles /\ UNCHANGED <<caller, goal>>
      BY <2>6, SMT DEF LoopToEvent
    <3>2. /\ stepCycles \in 0..MaxSteps /\ goal < MaxCycle /\ currentCycle <= nextEventCycle
          /\ nextEventCycle \in Cycles /\ MaxCycle \in Nat /\ stepCycles \in Nat
          /\ currentCycle \in Nat /\ nextEventCycle \in Nat
      BY <1>1
    <3> HIDE DEF TypeOK, ClockInv, Left, QueueInv
    <3>3. stepCycles' \in 0..MaxSteps /\ goal = currentCycle' + stepCycles'
      <4>1. MaxSteps \in Nat
        BY ConstantsAssumption
      <4>2. stepCycles - (nextEventCycle - currentCycle) \in 0..MaxSteps
        BY <3>1, <3>2, <4>1, SMT
      <4>3. goal = nextEventCycle + (stepCycles - (nextEventCycle - currentCycle))
        BY <3>1, <3>2, SMT
      <4> QED BY <3>1, <4>2, <4>3
    <3>4. eventMap[nextEventCycle] # <<>>
      <4>1. nextEventCycle < MaxCycle
        BY <3>1, <3>2, SMT
      <4> QED BY <1>1, <4>1
    <3>5. TypeOK'
      BY <1>0, <3>1, <3>2, <3>3 DEF TypeOK, QueueInv
    <3>6. ClockInv'
      BY <1>0, <3>1, <3>2, <3>3, <3>4, SMT DEF ClockInv, Left, QueueInv
    <3> QED BY <3>5, <3>6
  <2>7. CASE LoopEnd
    BY <1>0, <1>1, <2>7, SMT DEF LoopEnd
  <2> QED BY <2>1, <2>2, <2>3, <2>4, <2>5, <2>6, <2>7
<1>3. IsEarliest(eventMap, nextEventCycle)'
  BY <1>0 DEF IsEarliest
<1>4. ListInv'
  BY <1>0 DEF ListInv, Done
<1> QED BY <1>2, <1>3, <1>4

\* Process, at the first event of a cycle, keeps the queue well formed.
LEMMA ProcessFirstQueue ==
  ASSUME QueueInv, ProcessFirst
  PROVE  QueueInv'
<1> USE DEF QueueInv
<1> DEFINE t == nextEventCycle
           l == eventMap[t]
<1>1. /\ pc = "process" /\ pc' = "handler" /\ it = 0 /\ it' = 1
      /\ due' = [due EXCEPT ![l[1]] = None]
      /\ UNCHANGED <<eventMap, nextEventCycle, lastEventCycle, kind, currentCycle, stepCycles,
                     caller, goal>>
  BY DEF ProcessFirst, ClockInv, loop
<1>2. /\ l \in Seq(Events \cup {Freed}) /\ Len(l) \in Nat /\ t \in Cycles
      /\ 1 \in 1..Len(l)
  <2>1. l \in Seq(Events \cup {Freed}) /\ t \in Cycles
    BY DEF TypeOK
  <2>2. l # <<>>
    BY <1>1 DEF ClockInv
  <2> QED BY <2>1, <2>2, SMT
<1>3. Lists(l, 0, t, due) /\ Ordered(l, 0, kind)
  BY <1>1, <1>2 DEF ListInv, Done
<1>4. l[1] \in Events /\ due[l[1]] = t
  BY <1>2, <1>3, SMT DEF Lists
<1> HIDE DEF l
<1>5. TypeOK'
  BY <1>1 DEF TypeOK
<1>6. running' = l[1]
  BY <1>1 DEF running, l
<1>7. ClockInv'
  <2>1. Left' = Left
    BY <1>1 DEF Left
  <2>2. due'[l[1]] = None /\ \A j \in 1..1 - 1 : eventMap[t][j] = Freed
    BY SMTT(30), <1>1, <1>4 DEF TypeOK
  <2> QED BY <1>1, <1>2, <1>4, <1>6, <2>1, <2>2 DEF ClockInv, l
<1>8. Lists(l, 1, t, due') /\ Ordered(l, 1, kind)
  <2>1. 0 \in Nat /\ 0 + 1 \in 1..Len(l) /\ 0 + 1 = 1
    BY <1>2, SMT
  <2>2. due \in [Events -> Cycles \cup {None}]
    BY DEF TypeOK
  <2>3. /\ Lists(l, 0 + 1, t, [due EXCEPT ![l[0 + 1]] = None])
        /\ Ordered(l, 0 + 1, kind)
    BY <1>2, <1>3, <2>1, <2>2, ListsNext
  <2> QED BY <1>1, <2>1, <2>3 DEF l
<1>9. ASSUME NEW u \in Cycles, u # t
      PROVE  Lists(eventMap[u], 0, u, due') /\ Ordered(eventMap[u], 0, kind)
  <2>1. Lists(eventMap[u], 0, u, due) /\ Ordered(eventMap[u], 0, kind)
    BY <1>1 DEF ListInv, Done
  <2>2. u # None /\ due \in [Events -> Cycles \cup {None}]
    BY ConstantsAssumption, SMT DEF TypeOK, Cycles
  <2>3. \A f \in Events : due[f] = u <=> due'[f] = u
    BY <1>1, <1>4, <1>9, <2>2 DEF l
  <2> QED BY <2>1, <2>3, ListsFrame
<1>10. ListInv'
  BY <1>1, <1>8, <1>9 DEF ListInv, Done, l
<1>11. IsEarliest(eventMap, nextEventCycle)'
  BY <1>1 DEF IsEarliest
<1> QED BY <1>5, <1>7, <1>10, <1>11

\* Process, when it frees an event and calls the next, keeps the queue well formed.
LEMMA ProcessNextQueue ==
  ASSUME QueueInv, ProcessNext
  PROVE  QueueInv'
<1> USE DEF QueueInv
<1> DEFINE t == nextEventCycle
           l == eventMap[t]
           n == [l EXCEPT ![it] = Freed]
<1>1. /\ pc = "handler" /\ pc' = "handler" /\ it' = it + 1 /\ it < Len(l)
      /\ due' = [due EXCEPT ![l[it + 1]] = None]
      /\ eventMap' = [eventMap EXCEPT ![t][it] = Freed]
      /\ UNCHANGED <<nextEventCycle, lastEventCycle, kind, currentCycle, stepCycles,
                     caller, goal>>
  BY DEF ProcessNext, loop
<1>2. /\ l \in Seq(Events \cup {Freed}) /\ Len(l) \in Nat /\ t \in Cycles
      /\ it \in 1..Len(l) /\ it \in Nat /\ it + 1 \in 1..Len(l)
  <2>1. l \in Seq(Events \cup {Freed}) /\ t \in Cycles /\ it \in Nat
    BY DEF TypeOK
  <2>2. it \in 1..Len(l)
    BY <1>1 DEF ClockInv
  <2> QED BY <1>1, <2>1, <2>2, SMT
<1>3. Lists(l, it, t, due) /\ Ordered(l, it, kind)
  BY <1>1, <1>2 DEF ListInv, Done
<1>4. l[it + 1] \in Events /\ due[l[it + 1]] = t
  BY <1>2, <1>3, SMT DEF Lists
<1>5. /\ n \in Seq(Events \cup {Freed}) /\ Len(n) = Len(l)
      /\ n[it] = Freed /\ \A j \in 1..Len(l) : j # it => n[j] = l[j]
  BY <1>2, SMT
<1>6. eventMap' = [eventMap EXCEPT ![t] = n]
  BY <1>1, <1>2 DEF TypeOK
<1>7. \A j \in 1..it - 1 : l[j] = Freed
  BY <1>1 DEF ClockInv
<1>8. l = eventMap[t]
  OBVIOUS
<1> HIDE DEF l, n
<1>9. eventMap'[t] = n /\ \A u \in Cycles : u # t => eventMap'[u] = eventMap[u]
  BY <1>2, <1>6 DEF TypeOK
<1>10. TypeOK'
  <2>1. eventMap' \in [Cycles -> Seq(Events \cup {Freed})]
    BY <1>5, <1>6 DEF TypeOK
  <2>2. due' \in [Events -> Cycles \cup {None}]
    <3>1. due \in [Events -> Cycles \cup {None}]
      BY SMT DEF TypeOK
    <3>2. due' = [due EXCEPT ![l[it + 1]] = None]
      BY <1>1
    <3> HIDE DEF l, TypeOK, ClockInv, ListInv, QueueInv
    <3> QED BY <3>1, <3>2
  <2>3. it' \in Nat
    BY <1>1, <1>2, SMT
  <2> QED BY <1>1, <2>1, <2>2, <2>3 DEF TypeOK
<1>11. n[it + 1] = l[it + 1]
  BY <1>2, <1>5, SMT
<1>12. running' = l[it + 1]
  BY <1>1, <1>9, <1>11 DEF running
<1>13. n # <<>> /\ l # <<>>
  BY <1>2, <1>5, SMT
<1>14. ClockInv'
  <2>1. Left' = Left
    BY <1>1 DEF Left
  <2>2. due'[l[it + 1]] = None
    BY <1>1, <1>4 DEF TypeOK
  <2>3. ASSUME NEW j \in 1..(it + 1) - 1 PROVE n[j] = Freed
    <3>1. j = it \/ (j \in 1..it - 1 /\ j # it /\ j \in 1..Len(l))
      BY <1>2, SMT
    <3>2. CASE j = it
      BY <1>5, <3>2
    <3>3. CASE j \in 1..it - 1 /\ j # it /\ j \in 1..Len(l)
      BY <1>5, <1>7, <3>3, SMT
    <3> QED BY <3>1, <3>2, <3>3
  <2> QED BY <1>1, <1>2, <1>4, <1>5, <1>9, <1>12, <1>13, <2>1, <2>2, <2>3, SMT DEF ClockInv
<1>15. Lists(n, it + 1, t, due') /\ Ordered(n, it + 1, kind)
  <2>1. \A j \in it + 1..Len(l) : n[j] = l[j]
    BY <1>2, <1>5, SMT
  <2>2. due \in [Events -> Cycles \cup {None}]
    BY SMT DEF TypeOK
  <2>3. /\ Lists(n, it + 1, t, [due EXCEPT ![l[it + 1]] = None])
        /\ Ordered(n, it + 1, kind)
    BY <1>2, <1>3, <1>5, <2>1, <2>2, ListsNext
  <2> QED BY <1>1, <2>3 DEF l
<1>16. ASSUME NEW u \in Cycles, u # t
       PROVE  Lists(eventMap[u], 0, u, due') /\ Ordered(eventMap[u], 0, kind)
  <2>1. Lists(eventMap[u], 0, u, due) /\ Ordered(eventMap[u], 0, kind)
    BY <1>16 DEF ListInv, Done
  <2>2. u # None /\ due \in [Events -> Cycles \cup {None}]
    BY ConstantsAssumption, SMT DEF TypeOK, Cycles
  <2>3. \A f \in Events : due[f] = u <=> due'[f] = u
    BY <1>1, <1>4, <1>16, <2>2 DEF l
  <2> QED BY <2>1, <2>3, ListsFrame, SMT
<1>17. ListInv'
  BY <1>1, <1>9, <1>15, <1>16 DEF ListInv, Done
<1>18. IsEarliest(eventMap, nextEventCycle)'
  BY <1>1, <1>8, <1>9, <1>13 DEF IsEarliest
<1> QED BY <1>10, <1>14, <1>17, <1>18, SMT

\* Process, when it erases the finished list, keeps the queue well formed.
LEMMA ProcessEndQueue ==
  ASSUME QueueInv, ProcessEnd
  PROVE  QueueInv'
<1> USE DEF QueueInv
<1> DEFINE t == nextEventCycle
           l == eventMap[t]
<1>1. /\ pc = "handler" /\ it = Len(l) /\ it' = 0
      /\ pc' = [one |-> "tick", zero |-> "idle", steps |-> "loop"][caller]
      /\ lastEventCycle' = t
      /\ eventMap' = [eventMap EXCEPT ![t] = <<>>]
      /\ UNCHANGED <<kind, due, currentCycle, stepCycles, caller, goal>>
  BY DEF ProcessEnd, loop
<1>2. PICK n \in Cycles : IsEarliest(eventMap', n) /\ nextEventCycle' = n
  BY DEF ProcessEnd
<1>3. l \in Seq(Events \cup {Freed}) /\ Len(l) \in Nat /\ t \in Cycles
  BY SMT DEF TypeOK
<1>4. Lists(l, Len(l), t, due)
  BY <1>1, <1>3 DEF ListInv, Done
<1>5. \A f \in Events : due[f] # t
  BY <1>3, <1>4, SMT DEF Lists
<1>6. eventMap'[t] = <<>> /\ \A u \in Cycles : u # t => eventMap'[u] = eventMap[u]
  BY <1>1, <1>3 DEF TypeOK
<1>7. pc' \in {"tick", "idle", "loop"}
  BY <1>1, SMT DEF TypeOK
<1>8. TypeOK'
  <2>1. eventMap' \in [Cycles -> Seq(Events \cup {Freed})]
    BY <1>1, SMT DEF TypeOK
  <2> QED BY <1>1, <1>2, <1>3, <1>7, <2>1 DEF TypeOK
<1>9. currentCycle < n
  <2>1. currentCycle = t /\ currentCycle < MaxCycle
    BY <1>1, ConstantsAssumption, SMT DEF ClockInv, TypeOK, Cycles, Left
  <2>2. CASE eventMap'[n] # <<>>
    <3>1. n # t /\ eventMap[n] # <<>>
      BY <1>2, <1>6, <2>2
    <3> QED BY <1>2, <1>3, <2>1, <3>1, SMT DEF IsEarliest, Cycles, NoEvent
  <2>3. CASE n = NoEvent
    BY <2>1, <2>3 DEF NoEvent
  <2> QED BY <1>2, <2>2, <2>3 DEF IsEarliest
<1>10. ClockInv'
  BY <1>1, <1>2, <1>7, <1>9, SMTT(30) DEF ClockInv, Left, TypeOK, Cycles
<1>11. ASSUME NEW u \in Cycles
       PROVE  Lists(eventMap'[u], 0, u, due) /\ Ordered(eventMap'[u], 0, kind)
  <2>1. CASE u = t
    BY <1>5, <1>6, <2>1, SMT DEF Lists, Ordered
  <2>2. CASE u # t
    BY <1>6, <2>2 DEF ListInv, Done
  <2> QED BY <2>1, <2>2
<1>12. ListInv'
  BY <1>1, <1>7, <1>11 DEF ListInv, Done
<1> QED BY <1>2, <1>8, <1>10, <1>12

\* Every step keeps the queue well formed if no handler inserts at its own cycle.
LEMMA NextQueue ==
  ASSUME ~ Reentrant, QueueInv, [Next]_vars
  PROVE  QueueInv'
<1>1. CASE UNCHANGED vars
  BY <1>1
  DEF vars, queue, loop, QueueInv, TypeOK, IsEarliest, ClockInv, Left, running, ListInv, Done
<1> QED
  BY <1>1, InsertQueue, RemoveQueue, LoopQueue, ProcessFirstQueue, ProcessNextQueue,
     ProcessEndQueue
  DEF Next, Run

\* So the queue is always well formed.
LEMMA QueueAlways ==
  ASSUME ~ Reentrant
  PROVE  Spec => []QueueInv
BY InitQueue, NextQueue, PTL DEF Spec

-----------------------------------------------------------------------------
\* What a step that calls a handler does

\* The event Process calls next waited for the current cycle, and no callback that waits for
\* it has a higher priority.
LEMMA CallStep ==
  ASSUME QueueInv, ProcessFirst \/ ProcessNext
  PROVE  /\ running' \in Events /\ due[running'] = currentCycle
         /\ due' = [due EXCEPT ![running'] = None]
         /\ UNCHANGED <<currentCycle, kind>>
         /\ \A f \in Events :
              due[f] = due[running'] /\ {kind[running'], kind[f]} \subseteq Callbacks
                => Asked[kind[running']] <= Asked[kind[f]]
<1> DEFINE t == nextEventCycle
           l == eventMap[t]
           d == Done(t)
<1>1. /\ d \in Nat /\ d + 1 \in 1..Len(l) /\ Len(l) \in Nat /\ t = currentCycle /\ t \in Cycles
  <2>1. l \in Seq(Events \cup {Freed}) /\ t \in Cycles /\ it \in Nat
    BY DEF QueueInv, TypeOK
  <2>2. t = currentCycle /\ l # <<>>
    BY DEF QueueInv, ClockInv, ProcessFirst, ProcessNext
  <2>3. Len(l) \in Nat /\ Len(l) # 0
    BY <2>1, <2>2, SMT
  <2>4. d = 0 \/ (d = it /\ it < Len(l))
    BY DEF ProcessFirst, ProcessNext, Done
  <2> QED BY <2>1, <2>2, <2>3, <2>4, SMT
<1>2. running' = l[d + 1] /\ due' = [due EXCEPT ![l[d + 1]] = None] /\ UNCHANGED <<currentCycle, kind>>
  <2>1. CASE ProcessFirst
    BY <2>1, SMT DEF ProcessFirst, running, Done, loop
  <2>2. CASE ProcessNext
    <3>1. /\ pc' = "handler" /\ it' = it + 1 /\ nextEventCycle' = t /\ d = it
          /\ eventMap' = [eventMap EXCEPT ![t][it] = Freed]
          /\ due' = [due EXCEPT ![l[it + 1]] = None] /\ UNCHANGED <<currentCycle, kind>>
      BY <2>2 DEF ProcessNext, Done, loop
    <3>2. eventMap'[t] = [l EXCEPT ![it] = Freed]
      BY <1>1, <3>1 DEF QueueInv, TypeOK
    <3>3. l \in Seq(Events \cup {Freed})
      BY DEF QueueInv, TypeOK
    <3>4. [l EXCEPT ![it] = Freed][it + 1] = l[it + 1]
      BY <1>1, <3>1, <3>3, SMT
    <3> QED BY <3>1, <3>2, <3>4 DEF running
  <2> QED BY <2>1, <2>2
<1>3. Lists(l, d, t, due) /\ Ordered(l, d, kind)
  BY <1>1 DEF QueueInv, ListInv
<1>4. d + 1 \in d + 1..Len(l)
  BY <1>1, SMT
<1> HIDE DEF l, d, t
<1>5. l[d + 1] \in Events /\ due[l[d + 1]] = t
  BY <1>3, <1>4 DEF Lists
<1>6. ASSUME NEW f \in Events, due[f] = t, kind[l[d + 1]] \in Callbacks, kind[f] \in Callbacks
      PROVE  Asked[kind[l[d + 1]]] <= Asked[kind[f]]
  <2>1. PICK i \in d + 1..Len(l) : l[i] = f
    BY <1>3, <1>6 DEF Lists
  <2>2. /\ kind[f] \in Kinds /\ kind[l[d + 1]] \in Kinds
        /\ Stored(kind[f]) = Asked[kind[f]] /\ Asked[kind[f]] \in Int
        /\ Stored(kind[l[d + 1]]) = Asked[kind[l[d + 1]]]
    BY <1>5, <1>6, Priorities DEF QueueInv, TypeOK
  <2>3. CASE i = d + 1
    BY <2>1, <2>2, <2>3, SMT
  <2>4. CASE i # d + 1
    <3>1. d + 1 < i
      BY <1>1, <2>4, SMT
    <3> QED BY <1>3, <1>4, <1>6, <2>1, <2>2, <3>1 DEF Ordered
  <2> QED BY <2>3, <2>4
<1> QED BY <1>1, <1>2, <1>5, <1>6

\* Every other step calls no handler, and only an insertion or a removal changes what waits.
LEMMA OtherSteps ==
  ASSUME ~ Reentrant, QueueInv, [Next]_vars, ~ (ProcessFirst \/ ProcessNext)
  PROVE  running' \in {running, None}
<1>1. CASE UNCHANGED vars
  BY <1>1 DEF vars, queue, loop, running
<1>2. CASE \E e \in Events, k \in Kinds, t \in Cycles : InsertEvent(e, k, t)
  BY <1>2, InsertQueue
<1>3. CASE \E e \in Events : RemoveEvent(e)
  BY <1>3, RemoveQueue
<1>4. CASE LoopOne \/ LoopZero \/ (\E steps \in 1..MaxSteps : LoopSteps(steps))
  BY <1>4 DEF LoopOne, LoopZero, LoopSteps, running
<1>5. CASE Tick \/ LoopRest \/ LoopToEvent \/ LoopEnd
  BY <1>5 DEF Tick, LoopRest, LoopToEvent, LoopEnd, running
<1>6. CASE ProcessEnd
  <2>1. pc' # "handler"
    BY <1>6, SMT DEF ProcessEnd, QueueInv, TypeOK
  <2> QED BY <2>1 DEF running
<1> QED BY <1>1, <1>2, <1>3, <1>4, <1>5, <1>6 DEF Next, Run

-----------------------------------------------------------------------------
\* The theorems.  Reentrant is FALSE in all of them: with a handler that inserts at the cycle
\* being processed NoneLost fails.

\* The queue, the clock and Process's iterator keep their types: stepCycles, which is
\* unsigned, never goes below zero, and the clock stays below "no event".
THEOREM QueueTypeCorrect ==
  ASSUME ~ Reentrant
  PROVE  Spec => []TypeOK
BY QueueAlways, PTL DEF QueueInv

\* No event that waits is missing from the list of its cycle or behind Process's iterator.
THEOREM NothingIsLost ==
  ASSUME ~ Reentrant
  PROVE  Spec => []NoneLost
<1>1. QueueInv => NoneLost
  <2> SUFFICES ASSUME QueueInv, NEW e \in Events, due[e] # None
               PROVE  \E i \in 1..Len(eventMap[due[e]]) :
                        /\ eventMap[due[e]][i] = e
                        /\ pc = "handler" /\ due[e] = nextEventCycle => i > it
    BY DEF NoneLost
  <2>1. /\ due[e] \in Cycles /\ it \in Nat
        /\ eventMap[due[e]] \in Seq(Events \cup {Freed}) /\ Len(eventMap[due[e]]) \in Nat
    BY SMTT(30) DEF QueueInv, TypeOK
  <2>2. PICK i \in Done(due[e]) + 1..Len(eventMap[due[e]]) : eventMap[due[e]][i] = e
    BY <2>1 DEF QueueInv, ListInv, Lists
  <2>3. i \in 1..Len(eventMap[due[e]])
    BY <2>1, SMT DEF Done
  <2>4. pc = "handler" /\ due[e] = nextEventCycle => i > it
    BY <2>1, SMT DEF Done
  <2> QED BY <2>2, <2>3, <2>4
<1> QED BY <1>1, QueueAlways, PTL

\* nextEventCycle is the first key of the map, and Process's assertion holds.
THEOREM NextIsFirstKey ==
  ASSUME ~ Reentrant
  PROVE  Spec => []NextIsEarliest
<1>1. QueueInv => NextIsEarliest
  BY DEF QueueInv, ClockInv, NextIsEarliest
<1> QED BY <1>1, QueueAlways, PTL

\* A Loop that returns has moved the clock by what it was asked.
THEOREM LoopKeepsTime ==
  ASSUME ~ Reentrant
  PROVE  Spec => LoopAdvances
<1>1. ASSUME QueueInv, [Next]_vars, pc # "idle", pc' = "idle"
      PROVE  currentCycle' = goal
  <2>1. /\ currentCycle \in Nat /\ stepCycles \in Nat /\ goal = currentCycle + Left
        /\ Left = [one |-> 1, zero |-> 0, steps |-> stepCycles][caller]
        /\ caller \in {"one", "zero", "steps"}
    BY <1>1, SMT DEF QueueInv, TypeOK, ClockInv, Cycles, Left
  <2>2. CASE Tick
    BY SMTT(30), <1>1, <2>1, <2>2 DEF Tick, QueueInv, ClockInv
  <2>3. CASE LoopRest \/ LoopEnd
    BY <1>1, <2>1, <2>3, SMT DEF LoopRest, LoopEnd, loop, QueueInv, ClockInv
  <2>4. CASE ProcessEnd
    <3>1. caller = "zero" /\ currentCycle' = currentCycle
      BY <1>1, <2>1, <2>4, SMT DEF ProcessEnd, loop
    <3> QED BY <2>1, <3>1, SMT
  <2> QED
    BY ZenonT(30), <1>1, <2>2, <2>3, <2>4
    DEF Next, Run, vars, InsertEvent, RemoveEvent, LoopOne, LoopZero, LoopSteps, LoopToEvent,
        ProcessFirst, ProcessNext
<1>2. QueueInv /\ [Next]_vars => [pc # "idle" /\ pc' = "idle" => currentCycle' = goal]_vars
  BY <1>1
<1> QED BY <1>2, QueueAlways, PTL DEF Spec, LoopAdvances

\* Callbacks of one cycle run in the order of their priorities.
THEOREM CallbacksKeepOrder ==
  ASSUME ~ Reentrant
  PROVE  Spec => CallbacksInOrder
<1> DEFINE Order == \A e, f \in Events :
                      Called(e) /\ due[f] = due[e] /\ {kind[e], kind[f]} \subseteq Callbacks
                        => Asked[kind[e]] <= Asked[kind[f]]
<1>1. ASSUME QueueInv, [Next]_vars
      PROVE  Order
  <2>1. CASE ProcessFirst \/ ProcessNext
    BY <1>1, <2>1, CallStep DEF Called
  <2>2. CASE ~ (ProcessFirst \/ ProcessNext)
    <3>1. running' \in {running, None}
      BY <1>1, <2>2, OtherSteps
    <3>2. running = None \/ due[running] = None
      BY <1>1 DEF QueueInv, ClockInv, running
    <3> QED BY <3>1, <3>2, ConstantsAssumption DEF Called
  <2> QED BY <2>1, <2>2
<1>2. QueueInv /\ [Next]_vars => [Order]_vars
  BY <1>1
<1> QED BY <1>2, QueueAlways, PTL DEF Spec, CallbacksInOrder

\* The queue implements Agenda: an event is handled once, at its cycle, and Loop's clock does
\* not pass one that waits.
THEOREM QueueKeepsItsPromise ==
  ASSUME ~ Reentrant
  PROVE  Spec => ImplementsAgenda
<1>1. Init => Promise!Init
  BY DEF Init, Promise!Init, running
<1>2. ASSUME QueueInv, [Next]_vars
      PROVE  [Promise!Next]_Promise!vars
  <2> USE <1>2 DEF Promise!vars
  <2>1. /\ currentCycle \in Cycles /\ currentCycle \in Nat /\ nextEventCycle \in Cycles
        /\ nextEventCycle \in Nat /\ due \in [Events -> Cycles \cup {None}]
        /\ stepCycles \in Nat /\ goal < MaxCycle /\ MaxCycle \in Nat
        /\ goal = currentCycle + Left
    BY ConstantsAssumption, SMT DEF QueueInv, TypeOK, ClockInv, Cycles
  <2>2. \A e \in Events : due[e] # None => due[e] >= nextEventCycle
    <3> SUFFICES ASSUME NEW e \in Events, due[e] # None PROVE due[e] >= nextEventCycle
      OBVIOUS
    <3>1. due[e] \in Cycles /\ eventMap[due[e]] \in Seq(Events \cup {Freed}) /\ Done(due[e]) \in Nat
      BY <2>1 DEF QueueInv, TypeOK, Done
    <3>2. PICK i \in Done(due[e]) + 1..Len(eventMap[due[e]]) : eventMap[due[e]][i] = e
      BY <3>1, ZenonT(30) DEF QueueInv, ListInv, Lists
    <3>3. eventMap[due[e]] # <<>>
      BY <3>1, <3>2, SMT
    <3> QED BY <2>1, <3>1, <3>3 DEF QueueInv, IsEarliest, Cycles
  <2>3. CASE UNCHANGED vars
    BY <2>3 DEF vars, queue, loop, running
  <2>4. ASSUME NEW e \in Events, NEW k \in Kinds, NEW t \in Cycles, InsertEvent(e, k, t)
        PROVE  Promise!Next
    <3>1. running' = running
      BY <2>4, InsertQueue
    <3>2. Promise!Insert(e, t)
      BY <2>1, <2>4, <3>1, SMT DEF InsertEvent, MayInsert, Promise!Insert, loop, Cycles
    <3> QED BY <3>2 DEF Promise!Next
  <2>5. ASSUME NEW e \in Events, RemoveEvent(e)
        PROVE  Promise!Next
    <3>1. running' = running
      BY <2>5, RemoveQueue
    <3>2. Promise!Cancel(e)
      BY <2>5, <3>1 DEF RemoveEvent, Promise!Cancel, loop
    <3> QED BY <3>2 DEF Promise!Next
  <2>6. CASE LoopOne \/ LoopZero \/ (\E steps \in 1..MaxSteps : LoopSteps(steps)) \/ LoopEnd
    BY <2>6 DEF LoopOne, LoopZero, LoopSteps, LoopEnd, queue, loop, running
  <2>7. ASSUME Tick \/ LoopRest \/ LoopToEvent
        PROVE  [Promise!Next]_Promise!vars
    <3>1. running = None /\ running' = None /\ due' = due
      BY <2>7 DEF Tick, LoopRest, LoopToEvent, queue, running
    <3>2. currentCycle' \in Nat /\ currentCycle <= currentCycle' /\ currentCycle' <= nextEventCycle
      BY <2>1, <2>7, SMT DEF Tick, LoopRest, LoopToEvent, QueueInv, ClockInv
    <3>3. currentCycle' \in Cycles
      BY <2>1, <3>2, SMT DEF Cycles
    <3>4. \A e \in Events : due[e] # None => due[e] >= currentCycle'
      BY <2>1, <2>2, <3>2, SMT DEF Cycles
    <3>5. CASE currentCycle' # currentCycle
      <4>1. Promise!Advance(currentCycle')
        BY <2>1, <3>1, <3>2, <3>4, <3>5, SMT DEF Promise!Advance
      <4> QED BY <3>3, <4>1 DEF Promise!Next
    <3>6. CASE currentCycle' = currentCycle
      BY <3>1, <3>6
    <3> QED BY <3>5, <3>6
  <2>8. CASE ProcessFirst \/ ProcessNext
    <3>1. Promise!Handle(running') /\ running' \in Events
      BY <2>8, CallStep DEF Promise!Handle
    <3> QED BY <3>1 DEF Promise!Next
  <2>9. CASE ProcessEnd
    <3>1. pc' # "handler"
      BY SMTT(30), <2>9 DEF ProcessEnd, QueueInv, TypeOK
    <3>2. Promise!Finish
      BY <2>9, <3>1 DEF ProcessEnd, loop, running, Promise!Finish
    <3> QED BY ZenonT(30), <3>2 DEF Promise!Next
  <2> QED BY <2>3, <2>4, <2>5, <2>6, <2>7, <2>8, <2>9 DEF Next, Run
<1> QED BY <1>1, <1>2, QueueAlways, PTL DEF Spec, ImplementsAgenda, Promise!Spec
=============================================================================
