----------------------- MODULE MemoryControllerProofs -----------------------
(***************************************************************************)
(* What the memory controller promises its callers and its banks: a        *)
(* request that it has taken is in one place and is lost nowhere, and the  *)
(* rows of its view are the rows that the queued commands will leave.      *)
(* InOnePlace, NoneDropped and ViewAgrees.                                 *)
(***************************************************************************)
EXTENDS MemoryControllerSteps

\* Zenon proves a leaf that names no other prover.
USE ZenonT(30)

-----------------------------------------------------------------------------
\* Numbers

\* The positions of short sequences.
LEMMA ShortPositions ==
  /\ {1, 2, 3} \subseteq Nat /\ 1 <= 1 /\ 1 <= 2 /\ 2 <= 2
  /\ 1 \in 1..1 /\ {1, 2} \subseteq 1..2 /\ {1, 2, 3} \subseteq 1..3
  /\ \A i \in 1..1 : i = 1
  /\ \A i \in 1..2 : i = 1 \/ i = 2
  /\ \A i \in 1..3 : i = 1 \/ i = 2 \/ i = 3
BY SMT

\* Positions and their order.
LEMMA PositionOrder ==
  /\ \A n \in Nat : /\ 1 \in Int /\ n \in Int /\ 1 <= n + 1 /\ n - 1 + 1 = n
                   /\ \A i \in 1..n : i \in Nat
  /\ \A i, j \in Nat : /\ i # 0 /\ i <= j => i \in 1..j
                       /\ i <= j /\ i # j => i < j
                       /\ i < j => i # j /\ ~(j <= i)
                       /\ i < j \/ j < i \/ i = j
                       /\ i <= i
  /\ \A i, j, k \in Nat : k <= i /\ i < j => k <= j
BY SMTT(30)

-----------------------------------------------------------------------------
\* A request is in one place

\* A column command that is still to be issued.
ColumnAt(queues, q, i) ==
  i \in 1..Len(queues[q]) /\ ~queues[q][i].issued /\ queues[q][i].type \in Columns

\* Where request r can be: behind a column command, among the transactions, in the banks.
Carried(queues, r) == \E q \in Queues : \E i \in 1..Len(queues[q]) :
                        ColumnAt(queues, q, i) /\ queues[q][i].id = r
Waits(mem, r) == \E i \in 1..Len(mem) : mem[i].id = r

\* A request has one column command, which follows the activation made for it at once.
QueuedOnce(queues) ==
  /\ \A q \in Queues : \A i \in 1..Len(queues[q]) :
       /\ queues[q][i].id # 0 <=> queues[q][i].type \in Columns \cup {"ACTIVATE"}
       /\ ~queues[q][i].issued /\ queues[q][i].type = "ACTIVATE" =>
            ColumnAt(queues, q, i + 1) /\ queues[q][i + 1].id = queues[q][i].id
  /\ \A q, p \in Queues : \A i \in 1..Len(queues[q]), j \in 1..Len(queues[p]) :
       /\ ColumnAt(queues, q, i) /\ ColumnAt(queues, p, j)
       /\ queues[q][i].id = queues[p][j].id
       => q = p /\ i = j

Distinct(mem) == \A i, j \in 1..Len(mem) : mem[i].id = mem[j].id => i = j

Apart(queues, mem, d) ==
  \A r \in Requests : /\ ~(Carried(queues, r) /\ Waits(mem, r))
                      /\ ~(Carried(queues, r) /\ Doing(d, r))
                      /\ ~(Waits(mem, r) /\ Doing(d, r))

Placed ==
  /\ Typed
  /\ QueuedOnce(commandQueues) /\ Distinct(memQueue) /\ Apart(commandQueues, memQueue, dev)

\* Issuing the head of a queue moves its request into the banks, if it is a column command.
LEMMA IssuePlaces ==
  ASSUME dev \in Devices, NEW queues \in QueueFunctions, NoneIssued(queues), QueuedOnce(queues),
         NEW q \in Queues, IssueEffect(queues, q)
  PROVE  LET c == queues[q][1] IN
         /\ QueuedOnce(commandQueues')
         /\ \A r : Carried(commandQueues', r) <=> Carried(queues, r) /\ ~(c.type \in Columns /\ r = c.id)
         /\ \A r : Doing(dev', r) <=> Doing(dev, r) \/ (c.type \in Columns /\ r = c.id)
<1> DEFINE new == commandQueues'
           c == queues[q][1]
<1>1. \A p \in Queues : \A i \in 1..Len(queues[p]) :
        /\ new[p][i].id = queues[p][i].id /\ new[p][i].type = queues[p][i].type
        /\ new[p][i].issued <=> p = q /\ i = 1
  BY SMT DEF IssueEffect, NoneIssued
<1>2. \A p \in Queues : Len(new[p]) = Len(queues[p]) /\ Len(new[p]) \in Nat
  BY SMT DEF IssueEffect, QueueFunctions
<1>3. c \in CommandRecords /\ dev' = IssueCommand(dev, c) /\ 1 \in 1..Len(queues[q])
  BY DEF IssueEffect
<1> HIDE DEF new
<1>4. \A p \in Queues : \A i : ColumnAt(new, p, i) <=> ColumnAt(queues, p, i) /\ ~(p = q /\ i = 1)
  BY <1>1, <1>2, SMT DEF ColumnAt, NoneIssued
<1>5. \A p \in Queues : \A i \in 1..Len(new[p]) :
        /\ new[p][i].id # 0 <=> new[p][i].type \in Columns \cup {"ACTIVATE"}
        /\ ~new[p][i].issued /\ new[p][i].type = "ACTIVATE" =>
             ColumnAt(new, p, i + 1) /\ new[p][i + 1].id = new[p][i].id
  <2> SUFFICES ASSUME NEW p \in Queues, NEW i \in 1..Len(queues[p])
               PROVE  /\ new[p][i].id # 0 <=> new[p][i].type \in Columns \cup {"ACTIVATE"}
                      /\ ~new[p][i].issued /\ new[p][i].type = "ACTIVATE" =>
                           ColumnAt(new, p, i + 1) /\ new[p][i + 1].id = new[p][i].id
    BY <1>2
  <2>1. /\ queues[p][i].id # 0 <=> queues[p][i].type \in Columns \cup {"ACTIVATE"}
        /\ queues[p][i].type = "ACTIVATE" =>
             ColumnAt(queues, p, i + 1) /\ queues[p][i + 1].id = queues[p][i].id
    BY DEF QueuedOnce, NoneIssued
  <2>2. i + 1 # 1
    BY <1>2, SMT
  <2>3. ColumnAt(queues, p, i + 1) => i + 1 \in 1..Len(queues[p])
    BY DEF ColumnAt
  <2> QED BY <1>1, <1>4, <2>1, <2>2, <2>3
<1>6. \A p, s \in Queues : \A i \in 1..Len(new[p]), j \in 1..Len(new[s]) :
        ColumnAt(new, p, i) /\ ColumnAt(new, s, j) /\ new[p][i].id = new[s][j].id => p = s /\ i = j
  BY <1>1, <1>2, <1>4, SMT DEF QueuedOnce
<1>7. QueuedOnce(new)
  BY <1>5, <1>6 DEF QueuedOnce
<1>8. \A r : Carried(new, r) <=> Carried(queues, r) /\ ~(c.type \in Columns /\ r = c.id)
  <2>1. c.type \in Columns => ColumnAt(queues, q, 1)
    BY <1>3 DEF ColumnAt, NoneIssued
  <2>2. \A p \in Queues : \A i \in 1..Len(queues[p]) :
          ColumnAt(queues, p, i) /\ c.type \in Columns /\ queues[p][i].id = c.id => p = q /\ i = 1
    BY <1>3, <2>1, SMT DEF QueuedOnce
  <2>3. ASSUME NEW r, Carried(new, r) PROVE Carried(queues, r) /\ ~(c.type \in Columns /\ r = c.id)
    BY <1>1, <1>2, <1>4, <2>2, <2>3, SMTT(30) DEF Carried
  <2>4. ASSUME NEW r, Carried(queues, r), ~(c.type \in Columns /\ r = c.id) PROVE Carried(new, r)
    <3>1. PICK p \in Queues : \E i \in 1..Len(queues[p]) : ColumnAt(queues, p, i) /\ queues[p][i].id = r
      BY <2>4 DEF Carried
    <3>2. PICK i \in 1..Len(queues[p]) : ColumnAt(queues, p, i) /\ queues[p][i].id = r
      BY <3>1
    <3>3. ~(p = q /\ i = 1)
      BY <2>4, <3>2 DEF ColumnAt
    <3> QED BY <1>1, <1>2, <1>4, <3>2, <3>3 DEF Carried
  <2> QED BY <2>3, <2>4
<1>9. \A r : Doing(dev', r) <=> Doing(dev, r) \/ (c.type \in Columns /\ r = c.id)
  BY <1>3, IssueDone
<1> QED BY <1>7, <1>8, <1>9 DEF new

\* The commands of a transaction end with its column command, right behind the activation.
OnceCarried(s, r) ==
  /\ Len(s) \in Nat \ {0} /\ s[Len(s)].type \in Columns /\ s[Len(s)].id = r
  /\ \A i \in 1..Len(s) :
       /\ s[i].type \in Columns \cup {"ACTIVATE", "PRECHARGE"}
       /\ s[i].id # 0 <=> s[i].type \in Columns \cup {"ACTIVATE"}
       /\ s[i].type \in Columns => i = Len(s)
       /\ s[i].type = "ACTIVATE" => i + 1 = Len(s) /\ s[i].id = r

\* Of the commands a transaction becomes, the column command alone carries its request, as the last.
LEMMA CommandsOnce ==
  ASSUME NEW t \in TransactionRecords, NEW last \in BOOLEAN, activateQueued \in [Banks -> BOOLEAN],
         effectiveRow \in [Banks -> [SubArrays -> Nat \cup {NoRow}]]
  PROVE  OnceCarried(Commands(t, last), t.id)
<1> DEFINE IsCol(c) == c.type \in Columns /\ c.id = t.id
           IsAct(c) == c.type = "ACTIVATE" /\ c.id = t.id
           IsPre(c) == c.type = "PRECHARGE" /\ c.id = 0
<1>1. /\ \A x \in BOOLEAN : IsCol(Column(t, x))
      /\ IsAct(Command("ACTIVATE", t)) /\ IsPre(CloseFor(t))
  BY CommandFields DEF Columns
<1>2. t.id # 0 /\ "ACTIVATE" \notin Columns /\ "PRECHARGE" \notin Columns
  <2>1. t.id \in Requests /\ 0 \notin Nat \ {0}
    BY DEF TransactionRecords
  <2> QED BY <2>1, RankAssumption DEF Columns, Reads, Writes
<1>3. ASSUME NEW a, NEW b, NEW c, IsCol(c), IsAct(b), IsPre(a)
      PROVE  /\ OnceCarried(<<c>>, t.id) /\ OnceCarried(<<b, c>>, t.id)
             /\ OnceCarried(<<a, b, c>>, t.id)
  <2>1. OnceCarried(<<c>>, t.id)
    BY <1>2, <1>3, SMT DEF OnceCarried
  <2>2. OnceCarried(<<b, c>>, t.id)
    BY <1>2, <1>3, SMT DEF OnceCarried
  <2>3. OnceCarried(<<a, b, c>>, t.id)
    BY <1>2, <1>3, SMT DEF OnceCarried
  <2> QED BY <2>1, <2>2, <2>3
<1> HIDE DEF IsCol, IsAct, IsPre
<1> QED BY <1>1, <1>3, CommandsCases

\* Scheduling moves the request from the transactions to an empty queue.
LEMMA SchedulePlaces ==
  ASSUME Placed, NEW i, NEW queues, ScheduleEffect(i, queues)
  PROVE  LET t == memQueue[i] IN
         /\ t.id \in Requests
         /\ QueuedOnce(queues) /\ Distinct(memQueue')
         /\ \A r : Carried(queues, r) <=> Carried(commandQueues, r) \/ r = t.id
         /\ \A r : Waits(memQueue', r) <=> Waits(memQueue, r) /\ r # t.id
<1> DEFINE t == memQueue[i]
           q == QueueId(t.bank, t.sub)
           s == queues[q]
           n == Len(s)
<1>1. /\ i \in 1..Len(memQueue) /\ t \in TransactionRecords /\ q \in Queues
      /\ queues \in QueueFunctions /\ commandQueues[q] = <<>>
      /\ \A p \in Queues : p # q => queues[p] = commandQueues[p]
      /\ memQueue' = Without(i)
  BY DEF ScheduleEffect
<1>2. OnceCarried(s, t.id) /\ \A j \in 1..n : ~s[j].issued
  BY TypedFacts, CommandsOnce, CommandsType DEF ScheduleEffect, Placed
<1>3. t.id \in Requests
  BY <1>1 DEF TransactionRecords
<1>4. /\ QueuedOnce(commandQueues) /\ Distinct(memQueue) /\ Waits(memQueue, t.id)
      /\ ~Carried(commandQueues, t.id) /\ memQueue \in Seq(TransactionRecords)
  BY <1>1, <1>3, TypedFacts DEF Placed, Apart, Waits
<1> HIDE DEF t, q
<1>5. \A p \in Queues : p # q => \A j : ColumnAt(queues, p, j) <=> ColumnAt(commandQueues, p, j)
  BY <1>1 DEF ColumnAt
<1>6. \A j : ColumnAt(queues, q, j) <=> j = n
  BY <1>2, SMT DEF ColumnAt, OnceCarried
<1>7. \A j : ~ColumnAt(commandQueues, q, j)
  BY <1>1, SMT DEF ColumnAt
<1>8. QueuedOnce(queues)
  <2>1. ASSUME NEW p \in Queues, NEW j \in 1..Len(queues[p])
        PROVE  /\ queues[p][j].id # 0 <=> queues[p][j].type \in Columns \cup {"ACTIVATE"}
               /\ ~queues[p][j].issued /\ queues[p][j].type = "ACTIVATE" =>
                    ColumnAt(queues, p, j + 1) /\ queues[p][j + 1].id = queues[p][j].id
    <3>1. CASE p = q
      BY <1>2, <1>6, <3>1 DEF OnceCarried
    <3>2. CASE p # q
      <4>1. queues[p] = commandQueues[p] /\ \A k : ColumnAt(queues, p, k) <=> ColumnAt(commandQueues, p, k)
        BY <1>1, <1>5, <3>2
      <4>2. /\ queues[p][j].id # 0 <=> queues[p][j].type \in Columns \cup {"ACTIVATE"}
            /\ ~queues[p][j].issued /\ queues[p][j].type = "ACTIVATE" =>
                 ColumnAt(commandQueues, p, j + 1) /\ queues[p][j + 1].id = queues[p][j].id
        BY <1>4, <4>1, SMT DEF QueuedOnce
      <4> QED BY <4>1, <4>2
    <3> QED BY <3>1, <3>2
  <2>2. ASSUME NEW p \in Queues, NEW u \in Queues, NEW j \in 1..Len(queues[p]), NEW k \in 1..Len(queues[u]),
               ColumnAt(queues, p, j), ColumnAt(queues, u, k), queues[p][j].id = queues[u][k].id
        PROVE  p = u /\ j = k
    <3>1. \A v \in Queues : \A l \in 1..Len(queues[v]) :
            v # q /\ ColumnAt(queues, v, l) => queues[v][l].id # t.id
      BY <1>1, <1>4, <1>5 DEF Carried
    <3>2. s[n].id = t.id
      BY <1>2 DEF OnceCarried
    <3>3. CASE p = q \/ u = q
      BY <1>6, <2>2, <3>1, <3>2, <3>3, SMTT(30)
    <3>4. CASE p # q /\ u # q
      <4>1. queues[p] = commandQueues[p] /\ queues[u] = commandQueues[u]
        BY <1>1, <3>4
      <4>2. ColumnAt(commandQueues, p, j) /\ ColumnAt(commandQueues, u, k)
        BY <1>5, <2>2, <3>4
      <4> QED BY <1>4, <2>2, <4>1, <4>2 DEF QueuedOnce
    <3> QED BY <3>3, <3>4
  <2> QED BY <2>1, <2>2, SMT DEF QueuedOnce
<1>9. ASSUME NEW r PROVE Carried(queues, r) <=> Carried(commandQueues, r) \/ r = t.id
  <2>1. s[n].id = t.id /\ n \in 1..Len(s)
    BY <1>2, SMT DEF OnceCarried
  <2>2. Carried(queues, r) => Carried(commandQueues, r) \/ r = t.id
    BY <1>1, <1>5, <1>6, <2>1 DEF Carried
  <2>3. Carried(queues, t.id)
    BY <1>1, <1>6, <2>1 DEF Carried
  <2>4. Carried(commandQueues, r) => Carried(queues, r)
    BY <1>1, <1>5, <1>7 DEF Carried
  <2> QED BY <2>2, <2>3, <2>4
<1> DEFINE new == memQueue'
           At0(j) == IF j < i THEN j ELSE j + 1
<1>10. /\ Len(memQueue) \in Nat /\ i \in Nat /\ Len(new) = Len(memQueue) - 1
       /\ \A j \in 1..Len(new) : new[j] = memQueue[At0(j)] /\ At0(j) \in 1..Len(memQueue) /\ At0(j) # i
  <2>1. /\ Len(memQueue) \in Nat /\ i \in 1..Len(memQueue) /\ new = Without(i)
        /\ Len(new) = Len(memQueue) - 1 /\ \A j \in 1..Len(new) : new[j] = memQueue[At0(j)]
    BY <1>1, <1>4, WithoutElements, TypedFacts DEF Placed
  <2> HIDE DEF new
  <2>2. i \in Nat /\ \A j \in 1..Len(new) : At0(j) \in 1..Len(memQueue) /\ At0(j) # i
    BY <2>1, SMTT(30)
  <2> QED BY <2>1, <2>2
<1>11. \A j \in 1..Len(memQueue) : j # i => \E k \in 1..Len(new) : At0(k) = j
  <2> SUFFICES ASSUME NEW j \in 1..Len(memQueue), j # i PROVE \E k \in 1..Len(new) : At0(k) = j
    OBVIOUS
  <2>1. CASE j < i
    BY <1>1, <1>10, <2>1, SMT
  <2>2. CASE j > i
    <3>1. j - 1 \in 1..Len(new) /\ At0(j - 1) = j
      BY <1>1, <1>10, <2>2, SMTT(30)
    <3> QED BY <3>1
  <2> QED BY <1>10, <2>1, <2>2, SMT
<1>12. \A j, k \in 1..Len(new) : At0(j) = At0(k) => j = k
  BY <1>10, SMT
<1> HIDE DEF new, At0
<1>13. Distinct(new)
  BY <1>4, <1>10, <1>12, SMT DEF Distinct
<1>14. \A r : Waits(new, r) <=> Waits(memQueue, r) /\ r # t.id
  <2>1. \A j \in 1..Len(memQueue) : memQueue[j].id = t.id => j = i
    BY <1>1, <1>4 DEF Distinct, t
  <2>2. \A r : Waits(new, r) => Waits(memQueue, r)
    BY <1>10 DEF Waits
  <2>3. \A j \in 1..Len(new) : new[j].id # t.id
    BY <1>10, <2>1
  <2>4. ASSUME NEW r, Waits(memQueue, r), r # t.id PROVE Waits(new, r)
    <3>1. PICK j \in 1..Len(memQueue) : memQueue[j].id = r
      BY <2>4 DEF Waits
    <3>2. j # i
      BY <2>4, <3>1 DEF t
    <3>3. PICK k \in 1..Len(new) : At0(k) = j
      BY <1>11, <3>2
    <3>4. new[k].id = r
      BY <1>10, <3>1, <3>3
    <3> QED BY <3>4 DEF Waits
  <2>5. \A r : Waits(new, r) => r # t.id
    BY <2>3 DEF Waits
  <2> QED BY <2>2, <2>4, <2>5
<1> QED BY <1>3, <1>8, <1>9, <1>13, <1>14 DEF new, t

\* The cleanup takes away issued commands only, which carry no request any more.
LEMMA CleanupPlaces ==
  ASSUME Placed, CleanupEffect
  PROVE  /\ QueuedOnce(commandQueues')
         /\ \A r : Carried(commandQueues', r) <=> Carried(commandQueues, r)
<1> DEFINE old == commandQueues
           new == commandQueues'
           K(q) == Dropped(q)
<1>1. ASSUME NEW q \in Queues
      PROVE  /\ Len(old[q]) \in Nat /\ Len(new[q]) = Len(old[q]) - K(q)
             /\ \A i \in 1..Len(new[q]) : new[q][i] = old[q][i + K(q)]
  BY CleanupShift DEF Placed
<1>2. \A q \in Queues : K(q) \in {0, 1}
  BY CleanupShift DEF Placed
<1>4. QueuedOnce(old)
  BY DEF Placed
<1>6. ASSUME NEW q \in Queues, NEW i \in 1..Len(old[q]), ~old[q][i].issued
      PROVE  i - K(q) \in 1..Len(new[q]) /\ i - K(q) + K(q) = i
  BY <1>6, CleanupShift DEF Placed
<1> HIDE DEF K, old, new
<1>5. \A q \in Queues : \A i \in 1..Len(new[q]) : i + K(q) \in 1..Len(old[q]) /\ i + 1 + K(q) = i + K(q) + 1
  BY <1>1, <1>2, SMT
<1>7. \A q \in Queues : \A i \in Nat \ {0} : ColumnAt(new, q, i) <=> ColumnAt(old, q, i + K(q))
  <2> SUFFICES ASSUME NEW q \in Queues, NEW i \in Nat \ {0}
               PROVE  ColumnAt(new, q, i) <=> ColumnAt(old, q, i + K(q))
    OBVIOUS
  <2>1. i \in 1..Len(new[q]) <=> i + K(q) \in 1..Len(old[q])
    BY <1>1, <1>2, SMTT(30)
  <2> QED BY <1>1, <2>1 DEF ColumnAt
<1>8. QueuedOnce(new)
  <2>1. ASSUME NEW q \in Queues, NEW i \in 1..Len(new[q])
        PROVE  /\ new[q][i].id # 0 <=> new[q][i].type \in Columns \cup {"ACTIVATE"}
               /\ ~new[q][i].issued /\ new[q][i].type = "ACTIVATE" =>
                    ColumnAt(new, q, i + 1) /\ new[q][i + 1].id = new[q][i].id
    <3> DEFINE j == i + K(q)
    <3>1. j \in 1..Len(old[q]) /\ new[q][i] = old[q][j] /\ i + 1 \in Nat \ {0} /\ i + 1 + K(q) = j + 1
      BY <1>1, <1>2, <1>5, SMTT(30)
    <3>2. /\ old[q][j].id # 0 <=> old[q][j].type \in Columns \cup {"ACTIVATE"}
          /\ ~old[q][j].issued /\ old[q][j].type = "ACTIVATE" =>
               ColumnAt(old, q, j + 1) /\ old[q][j + 1].id = old[q][j].id
      BY <1>4, <3>1 DEF QueuedOnce
    <3> HIDE DEF j
    <3>3. ColumnAt(old, q, j + 1) => ColumnAt(new, q, i + 1)
      BY <1>7, <3>1
    <3>4. ColumnAt(new, q, i + 1) => new[q][i + 1] = old[q][j + 1]
      BY <1>1, <3>1, SMTT(30) DEF ColumnAt
    <3> QED BY <3>1, <3>2, <3>3, <3>4
  <2>2. ASSUME NEW q \in Queues, NEW p \in Queues, NEW i \in 1..Len(new[q]), NEW j \in 1..Len(new[p]),
               ColumnAt(new, q, i), ColumnAt(new, p, j), new[q][i].id = new[p][j].id
        PROVE  q = p /\ i = j
    <3>1. /\ i + K(q) \in 1..Len(old[q]) /\ j + K(p) \in 1..Len(old[p]) /\ i \in Nat \ {0} /\ j \in Nat \ {0}
          /\ old[q][i + K(q)].id = old[p][j + K(p)].id
      <4>1. new[q][i] = old[q][i + K(q)] /\ new[p][j] = old[p][j + K(p)]
        BY <1>1
      <4>2. i \in Nat \ {0} /\ j \in Nat \ {0}
        BY <1>1, <1>2, SMTT(30)
      <4> QED BY <1>5, <2>2, <4>1, <4>2
    <3>2. ColumnAt(old, q, i + K(q)) /\ ColumnAt(old, p, j + K(p))
      BY <1>7, <2>2, <3>1
    <3>3. q = p /\ i + K(q) = j + K(p)
      BY <1>4, <3>1, <3>2, SMTT(30) DEF QueuedOnce
    <3> QED BY <1>2, <3>1, <3>3, SMTT(30)
  <2> QED BY <2>1, <2>2, SMT DEF QueuedOnce
<1>9. ASSUME NEW r PROVE Carried(new, r) <=> Carried(old, r)
  <2>1. ASSUME NEW q \in Queues, NEW i \in 1..Len(new[q]), ColumnAt(new, q, i), new[q][i].id = r
        PROVE  Carried(old, r)
    <3>1. i \in Nat \ {0}
      BY <1>1, <1>2, SMTT(30)
    <3>2. i + K(q) \in 1..Len(old[q]) /\ ColumnAt(old, q, i + K(q)) /\ old[q][i + K(q)].id = r
      BY <1>1, <1>5, <1>7, <2>1, <3>1
    <3> QED BY <3>2 DEF Carried
  <2>2. ASSUME NEW q \in Queues, NEW i \in 1..Len(old[q]), ColumnAt(old, q, i), old[q][i].id = r
        PROVE  Carried(new, r)
    <3> DEFINE j == i - K(q)
    <3>1. j \in 1..Len(new[q]) /\ j + K(q) = i
      BY <1>6, <2>2 DEF ColumnAt
    <3> HIDE DEF j
    <3>2. ColumnAt(new, q, j) /\ new[q][j].id = r
      BY <1>1, <1>7, <2>2, <3>1, SMT
    <3> QED BY <3>1, <3>2 DEF Carried
  <2> QED BY <2>1, <2>2 DEF Carried
<1> QED BY <1>8, <1>9 DEF old, new

\* What a refresh appends carries no request.
LEMMA RefreshPlaces ==
  ASSUME Counting, Placed, NEW h \in Heads, RefreshEffect(h)
  PROVE  /\ QueuedOnce(commandQueues')
         /\ \A r : Carried(commandQueues', r) <=> Carried(commandQueues, r)
<1> DEFINE old == commandQueues
           new == commandQueues'
<1>1. ASSUME NEW q \in Queues
      PROVE  /\ \A i \in 1..Len(old[q]) : i \in 1..Len(new[q]) /\ new[q][i] = old[q][i]
             /\ \A i \in 1..Len(new[q]) : i \in 1..Len(old[q])
                  \/ (new[q][i].id = 0 /\ new[q][i].type \in {"PRECHARGE_ALL", "REFRESH"})
  <2> DEFINE add == RefreshCommands(q, h)
  <2>1. /\ \A i \in 1..Len(old[q]) : i \in 1..Len(new[q]) /\ new[q][i] = old[q][i]
        /\ \A i \in 1..Len(add) : new[q][Len(old[q]) + i] = add[i]
        /\ \A i \in 1..Len(new[q]) : i \in 1..Len(old[q]) \/ i - Len(old[q]) \in 1..Len(add)
        /\ Len(old[q]) \in Nat /\ Len(new[q]) \in Nat
    BY TypedFacts, SMTT(30) DEF RefreshEffect, QueueFunctions, Placed
  <2>2. \A i \in 1..Len(add) : add[i].id = 0 /\ add[i].type \in {"PRECHARGE_ALL", "REFRESH"}
    BY RefreshCommandsShape, TypedFacts, SMT DEF Placed, RefreshShape
  <2> HIDE DEF add
  <2>3. \A i \in 1..Len(new[q]) : Len(old[q]) + (i - Len(old[q])) = i
    BY <2>1, SMT
  <2>4. ASSUME NEW i \in 1..Len(new[q]), i \notin 1..Len(old[q])
        PROVE  new[q][i].id = 0 /\ new[q][i].type \in {"PRECHARGE_ALL", "REFRESH"}
    <3>1. i - Len(old[q]) \in 1..Len(add)
      BY <2>1, <2>4
    <3>2. new[q][Len(old[q]) + (i - Len(old[q]))] = add[i - Len(old[q])]
      BY <2>1, <3>1
    <3>3. new[q][i] = add[i - Len(old[q])]
      BY <2>3, <3>2
    <3> QED BY <2>2, <3>1, <3>3
  <2> QED BY <2>1, <2>4
<1>2. {"PRECHARGE_ALL", "REFRESH"} \cap (Columns \cup {"ACTIVATE"}) = {}
  BY DEF Columns, Reads, Writes
<1>3. QueuedOnce(old)
  BY DEF Placed
<1> HIDE DEF old, new
<1>4. \A q \in Queues : \A i : ColumnAt(new, q, i) <=> ColumnAt(old, q, i)
  BY <1>1, <1>2 DEF ColumnAt
<1>5. \A q \in Queues : \A i \in 1..Len(new[q]) :
        /\ new[q][i].id # 0 <=> new[q][i].type \in Columns \cup {"ACTIVATE"}
        /\ ~new[q][i].issued /\ new[q][i].type = "ACTIVATE" =>
             ColumnAt(new, q, i + 1) /\ new[q][i + 1].id = new[q][i].id
  <2> SUFFICES ASSUME NEW q \in Queues, NEW i \in 1..Len(new[q])
               PROVE  /\ new[q][i].id # 0 <=> new[q][i].type \in Columns \cup {"ACTIVATE"}
                      /\ ~new[q][i].issued /\ new[q][i].type = "ACTIVATE" =>
                           ColumnAt(new, q, i + 1) /\ new[q][i + 1].id = new[q][i].id
    OBVIOUS
  <2>1. CASE i \in 1..Len(old[q])
    <3>1. ColumnAt(old, q, i + 1) => new[q][i + 1] = old[q][i + 1]
      BY <1>1 DEF ColumnAt
    <3>2. /\ old[q][i].id # 0 <=> old[q][i].type \in Columns \cup {"ACTIVATE"}
          /\ ~old[q][i].issued /\ old[q][i].type = "ACTIVATE" =>
               ColumnAt(old, q, i + 1) /\ old[q][i + 1].id = old[q][i].id
      BY <1>3, <2>1 DEF QueuedOnce
    <3>3. new[q][i] = old[q][i]
      BY <1>1, <2>1
    <3> QED BY <1>4, <3>1, <3>2, <3>3
  <2>2. CASE i \notin 1..Len(old[q])
    BY <1>1, <1>2, <2>2
  <2> QED BY <2>1, <2>2
<1>6. QueuedOnce(new)
  <2>1. ASSUME NEW q \in Queues, NEW p \in Queues, NEW i \in 1..Len(new[q]), NEW j \in 1..Len(new[p]),
               ColumnAt(new, q, i), ColumnAt(new, p, j), new[q][i].id = new[p][j].id
        PROVE  q = p /\ i = j
    <3>1. /\ ColumnAt(old, q, i) /\ i \in 1..Len(old[q]) /\ new[q][i] = old[q][i]
          /\ ColumnAt(old, p, j) /\ j \in 1..Len(old[p]) /\ new[p][j] = old[p][j]
      BY <1>1, <1>4, <2>1 DEF ColumnAt
    <3> QED BY <1>3, <2>1, <3>1, SMTT(30) DEF QueuedOnce
  <2> QED BY <1>5, <2>1, SMTT(30) DEF QueuedOnce
<1>7. \A r : Carried(new, r) <=> Carried(old, r)
  BY <1>1, <1>4 DEF Carried, ColumnAt
<1> QED BY <1>6, <1>7 DEF old, new

\* Where the requests are after a step, and that none is lost on the way.
Kept ==
  \A r :
    Carried(commandQueues, r) \/ Waits(memQueue, r) \/ Doing(dev, r)
      => \/ Carried(commandQueues', r) \/ Waits(memQueue', r) \/ Doing(dev', r)
         \/ \E e \in dev.events : e.what = "done" /\ e.id = r /\ e.left = 0

PlacedNext ==
  /\ QueuedOnce(commandQueues') /\ Distinct(memQueue') /\ Apart(commandQueues', memQueue', dev')
  /\ Kept

\* Cycling the queues leaves every request in one place.
LEMMA CyclePlaces ==
  ASSUME Counting, dev \in Devices, config \in Configurations, curQueue \in Nat,
         NEW queues \in QueueFunctions, NoneIssued(queues) \/ lastIssue, QueuedOnce(queues),
         NEW mem, Apart(queues, mem, dev), CycleCommandQueues(queues)
  PROVE  /\ QueuedOnce(commandQueues') /\ Apart(commandQueues', mem, dev')
         /\ \A r : Carried(queues, r) \/ Doing(dev, r) => Carried(commandQueues', r) \/ Doing(dev', r)
<1>1. CASE Rests(queues)
  BY <1>1 DEF Rests, issue
<1>2. ASSUME NEW q \in Queues, Issues(queues, q)
      PROVE  /\ QueuedOnce(commandQueues') /\ Apart(commandQueues', mem, dev')
             /\ \A r : Carried(queues, r) \/ Doing(dev, r) => Carried(commandQueues', r) \/ Doing(dev', r)
  <2> DEFINE c == queues[q][1]
             moved == c.type \in Columns
  <2>1. IssueEffect(queues, q)
    BY <1>2, IssueEffects
  <2>2. NoneIssued(queues) /\ 1 \in 1..Len(queues[q])
    BY <2>1 DEF IssueEffect
  <2>3. /\ QueuedOnce(commandQueues')
        /\ \A r : Carried(commandQueues', r) <=> Carried(queues, r) /\ ~(moved /\ r = c.id)
        /\ \A r : Doing(dev', r) <=> Doing(dev, r) \/ (moved /\ r = c.id)
    BY <2>1, <2>2, IssuePlaces
  <2>4. moved => Carried(queues, c.id)
    BY <2>2 DEF Carried, ColumnAt, NoneIssued
  <2> HIDE DEF c, moved
  <2>5. Apart(commandQueues', mem, dev')
    BY <2>3, <2>4 DEF Apart
  <2> QED BY <2>3, <2>5
<1> QED BY <1>1, <1>2, CycleCases

\* So does every handler.
LEMMA CyclePlaced ==
  ASSUME Counting, Placed, Cycle
  PROVE  PlacedNext
<1>1. PICK queues : /\ \/ queues = commandQueues /\ UNCHANGED <<memQueue, view, wakes>>
                       \/ \E i \in Ready : Schedules(i, queues)
                    /\ CycleCommandQueues(queues)
  BY CycleParts DEF Placed
<1>2. Typed /\ ~CleanupDue
  BY CycleParts DEF Placed
<1>3. /\ queues \in QueueFunctions /\ (NoneIssued(queues) \/ lastIssue)
      /\ QueuedOnce(queues) /\ Distinct(memQueue') /\ Apart(queues, memQueue', dev)
      /\ \A r : Carried(commandQueues, r) \/ Waits(memQueue, r)
                               => Carried(queues, r) \/ Waits(memQueue', r)
  <2>1. CASE queues = commandQueues /\ UNCHANGED <<memQueue, view, wakes>>
    BY <1>2, <2>1, TypedFacts, TypedRest DEF Placed, CleanupDue
  <2>2. ASSUME NEW i \in Ready, Schedules(i, queues)
        PROVE  /\ queues \in QueueFunctions /\ (NoneIssued(queues) \/ lastIssue)
               /\ QueuedOnce(queues) /\ Distinct(memQueue') /\ Apart(queues, memQueue', dev)
               /\ \A r : Carried(commandQueues, r) \/ Waits(memQueue, r)
                                        => Carried(queues, r) \/ Waits(memQueue', r)
    <3> DEFINE t == memQueue[i]
    <3>1. ScheduleEffect(i, queues)
      BY <1>2, <2>2, ScheduleEffects
    <3>2. /\ QueuedOnce(queues) /\ Distinct(memQueue')
          /\ \A r : Carried(queues, r) <=> Carried(commandQueues, r) \/ r = t.id
          /\ \A r : Waits(memQueue', r) <=> Waits(memQueue, r) /\ r # t.id
      BY <3>1, SchedulePlaces
    <3>3. Waits(memQueue, t.id) /\ Apart(commandQueues, memQueue, dev)
      BY <3>1 DEF ScheduleEffect, Waits, Placed
    <3>4. queues \in QueueFunctions /\ (NoneIssued(queues) \/ lastIssue)
      BY <1>2, <2>2, ScheduleTyped
    <3> HIDE DEF t
    <3> QED BY <3>2, <3>3, <3>4 DEF Apart
  <2> QED BY <1>1, <2>1, <2>2
<1>4. /\ QueuedOnce(commandQueues') /\ Apart(commandQueues', memQueue', dev')
      /\ \A r : Carried(queues, r) \/ Doing(dev, r) => Carried(commandQueues', r) \/ Doing(dev', r)
  BY <1>1, <1>2, <1>3, TypedFacts, CyclePlaces
<1> QED BY <1>3, <1>4 DEF PlacedNext, Kept

\* A command wakeup moves at most one request, from its queue to the banks.
LEMMA CallbackPlaced ==
  ASSUME Counting, Placed, CommandQueueCallback
  PROVE  PlacedNext
<1>1. CycleCommandQueues(commandQueues) /\ memQueue' = memQueue /\ ~CleanupDue
  BY DEF CommandQueueCallback
<1>2. /\ Typed /\ QueuedOnce(commandQueues) /\ Distinct(memQueue)
      /\ Apart(commandQueues, memQueue, dev)
  BY DEF Placed
<1>3. /\ dev \in Devices /\ config \in Configurations /\ curQueue \in Nat
      /\ commandQueues \in QueueFunctions /\ (NoneIssued(commandQueues) \/ lastIssue)
  BY <1>1, <1>2, TypedFacts, TypedRest DEF CleanupDue
<1>4. /\ QueuedOnce(commandQueues') /\ Apart(commandQueues', memQueue, dev')
      /\ \A r : Carried(commandQueues, r) \/ Doing(dev, r) => Carried(commandQueues', r) \/ Doing(dev', r)
  BY <1>1, <1>2, <1>3, CyclePlaces
<1> QED BY <1>1, <1>2, <1>4 DEF PlacedNext, Kept

\* What CleanupCallback takes off a queue has been issued: no request moves.
LEMMA CleanupPlaced ==
  ASSUME Counting, Placed, CleanupCallback
  PROVE  PlacedNext
<1>1. memQueue' = memQueue /\ dev' = dev
  BY DEF CleanupCallback
<1>2. CleanupEffect
  BY CleanupEffects DEF Placed
<1>3. /\ QueuedOnce(commandQueues')
      /\ \A r : Carried(commandQueues', r) <=> Carried(commandQueues, r)
  BY <1>2, CleanupPlaces
<1> QED BY <1>1, <1>3 DEF PlacedNext, Kept, Placed, Apart

\* An answer of the device ends at most the request it is for.
LEMMA ResponsePlaced ==
  ASSUME Placed, NEW e \in dev.events, Response(e)
  PROVE  PlacedNext
<1>1. dev' = RequestComplete(dev, e) /\ memQueue' = memQueue /\ commandQueues' = commandQueues /\ e.left = 0
  BY DEF Response
<1>2. dev \in Devices
  BY TypedFacts DEF Placed
<1>3. \A r : /\ Doing(dev', r) => Doing(dev, r)
             /\ Doing(dev, r) => Doing(dev', r) \/ (e.what = "done" /\ e.id = r)
  BY <1>1, <1>2, ResponseDone
<1>4. Kept
  BY <1>1, <1>3 DEF Kept
<1> QED BY <1>1, <1>3, <1>4 DEF PlacedNext, Placed, Apart

\* The commands of a refresh carry no request.
LEMMA RefreshPlaced ==
  ASSUME Counting, Placed, NEW h \in Heads, RefreshCallback(h)
  PROVE  PlacedNext
<1>1. Typed
  BY DEF Placed
<1>2. memQueue' = memQueue /\ dev' = dev
  BY DEF RefreshCallback
<1>3. Refreshes(h) \/ commandQueues' = commandQueues
  BY <1>1, RefreshParts
<1>4. /\ QueuedOnce(commandQueues')
      /\ \A r : Carried(commandQueues', r) <=> Carried(commandQueues, r)
  BY <1>1, <1>3, RefreshEffects, RefreshPlaces DEF Placed
<1> QED BY <1>2, <1>4 DEF PlacedNext, Kept, Placed, Apart

\* No request moves when the clock does.
LEMMA AdvancePlaced ==
  ASSUME Placed, Advance
  PROVE  PlacedNext
<1>1. Typed
  BY DEF Placed
<1>2. commandQueues' = commandQueues /\ dev' = Tick(dev)
  BY DEF Advance
<1>3. \A r : Doing(dev', r) <=> Doing(dev, r)
  BY <1>1, <1>2, TickDone, TypedFacts
<1>4. Len(memQueue') = Len(memQueue) /\ \A i \in 1..Len(memQueue) : memQueue'[i].id = memQueue[i].id
  BY <1>1, Aged
<1>5. \A r : Waits(memQueue', r) <=> Waits(memQueue, r)
  BY <1>4 DEF Waits
<1>6. Distinct(memQueue')
  BY <1>4 DEF Distinct, Placed
<1> QED BY <1>2, <1>3, <1>5, <1>6 DEF PlacedNext, Kept, Placed, Apart

\* Where a request is, by the sets the runs use.
Located ==
  \A r : /\ r \in Waiting <=> Waits(memQueue, r)
         /\ r \in Queued <=> Carried(commandQueues, r)
         /\ r \in InFlight <=> Doing(dev, r)

\* The three sets of the properties are the places the proof speaks of.
LEMMA Places == Placed => Located
<1> SUFFICES ASSUME Placed, NEW r
             PROVE  /\ r \in Waiting <=> Waits(memQueue, r)
                    /\ r \in Queued <=> Carried(commandQueues, r)
                    /\ r \in InFlight <=> Doing(dev, r)
  BY DEF Located
<1>1. r \in Waiting <=> Waits(memQueue, r)
  BY DEF Waiting, Waits
<1>2. r \in InFlight <=> Doing(dev, r)
  BY DEF InFlight, Doing
<1>3. r \in Queued <=> r # 0 /\ \E q \in Queues : \E i \in Unissued(q) : commandQueues[q][i].id = r
  <2>1. \A q, i : At(<<q, i>>) = commandQueues[q][i]
    BY DEF At
  <2>2. \A x : x \in Pending <=> \E q \in Queues : \E i \in Unissued(q) : x = <<q, i>>
    BY SMT DEF Pending
  <2>3. r \in Queued <=> r # 0 /\ \E x \in Pending : At(x).id = r
    BY DEF Queued
  <2> HIDE DEF Pending, At, Unissued
  <2>4. ASSUME NEW q \in Queues, NEW i \in Unissued(q), commandQueues[q][i].id = r
        PROVE  \E x \in Pending : At(x).id = r
    <3>1. <<q, i>> \in Pending /\ At(<<q, i>>).id = r
      BY <2>1, <2>2, <2>4
    <3> QED BY <3>1
  <2>5. ASSUME NEW x \in Pending, At(x).id = r
        PROVE  \E q \in Queues : \E i \in Unissued(q) : commandQueues[q][i].id = r
    <3>1. PICK q \in Queues : \E i \in Unissued(q) : x = <<q, i>>
      BY <2>2
    <3>2. PICK i \in Unissued(q) : x = <<q, i>>
      BY <3>1
    <3>3. commandQueues[q][i].id = r
      BY <2>1, <2>5, <3>2
    <3> QED BY <3>3
  <2> QED BY <2>3, <2>4, <2>5
<1>4. QueuedOnce(commandQueues)
  BY DEF Placed
<1>5. ASSUME r # 0, NEW q \in Queues, NEW i \in Unissued(q), commandQueues[q][i].id = r
      PROVE  Carried(commandQueues, r)
  <2>1. i \in 1..Len(commandQueues[q]) /\ ~commandQueues[q][i].issued
    BY DEF Unissued
  <2>2. CASE commandQueues[q][i].type \in Columns
    BY <1>5, <2>1, <2>2 DEF Carried, ColumnAt
  <2>3. CASE commandQueues[q][i].type = "ACTIVATE"
    <3>1. ColumnAt(commandQueues, q, i + 1) /\ commandQueues[q][i + 1].id = r
      BY <1>4, <1>5, <2>1, <2>3 DEF QueuedOnce
    <3> QED BY <3>1 DEF Carried, ColumnAt
  <2> QED BY <1>4, <1>5, <2>1, <2>2, <2>3 DEF QueuedOnce
<1>6. ASSUME Carried(commandQueues, r)
      PROVE  r # 0 /\ \E q \in Queues : \E i \in Unissued(q) : commandQueues[q][i].id = r
  BY <1>4, <1>6, SMTT(30) DEF Carried, ColumnAt, QueuedOnce, Unissued
<1> QED BY <1>1, <1>2, <1>3, <1>5, <1>6

\* A request that arrives was nowhere, and waits.
LEMMA ArrivePlaced ==
  ASSUME Counting, Placed, Arrive
  PROVE  PlacedNext
<1> DEFINE r0 == Min(Requests \ Busy)
<1>1. PICK t \in Transactions : Enqueue(r0, t)
  BY DEF Arrive
<1>2. r0 \in Requests /\ r0 \notin Busy
  <2>1. Requests \ Busy \in SUBSET Nat /\ Requests \ Busy # {}
    BY RankAssumption DEF Arrive
  <2> QED BY <2>1, LeastNatural
<1> HIDE DEF r0
<1>3. ~Waits(memQueue, r0) /\ ~Carried(commandQueues, r0) /\ ~Doing(dev, r0)
  BY <1>2, Places DEF Busy, Located
<1> DEFINE new == [op |-> t.op, bank |-> t.bank, sub |-> t.sub, row |-> t.row, id |-> r0, fresh |-> TRUE]
<1>4. /\ memQueue' = Append(memQueue, new) /\ commandQueues' = commandQueues /\ dev' = dev
      /\ new.id = r0
  BY <1>1 DEF Enqueue, issue
<1> HIDE DEF new
<1>5. memQueue \in Seq(TransactionRecords) /\ Len(memQueue) \in Nat
  BY TypedFacts DEF Placed
<1>6. /\ Len(memQueue') = Len(memQueue) + 1 /\ memQueue'[Len(memQueue) + 1].id = r0
      /\ \A i \in 1..Len(memQueue) : memQueue'[i] = memQueue[i]
  BY <1>4, <1>5, SMTT(30)
<1>7. \A r : Waits(memQueue', r) <=> Waits(memQueue, r) \/ r = r0
  BY <1>5, <1>6, SMTT(30) DEF Waits
<1>8. Distinct(memQueue')
  BY <1>3, <1>5, <1>6, SMT DEF Distinct, Waits, Placed
<1> QED BY <1>3, <1>4, <1>7, <1>8 DEF PlacedNext, Kept, Placed, Apart

\* Every step leaves a request in one place, and loses none.
LEMMA NextPlaced ==
  ASSUME Counting, Placed, [Next]_vars
  PROVE  Placed' /\ Kept
<1>1. Typed' /\ config' = config
  <2>1. Typed'
    BY NextTyped DEF Placed
  <2>2. config' = config
    BY ConfigUnchanged
  <2> QED BY <2>1, <2>2
<1>2. PlacedNext
  <2>1. CASE Next
    BY <2>1, ArrivePlaced, CyclePlaced, CallbackPlaced, CleanupPlaced, ResponsePlaced, RefreshPlaced,
       AdvancePlaced DEF Next, Handle
  <2>2. CASE UNCHANGED vars
    BY <2>2 DEF vars, issue, PlacedNext, Kept, Placed
  <2> QED BY <2>1, <2>2
<1>3. Queues' = Queues
  BY <1>1, ConfigKept
<1>4. QueuedOnce(commandQueues)' /\ Distinct(memQueue)' /\ Apart(commandQueues, memQueue, dev)'
  <2>1. \A x, q, i : ColumnAt(x, q, i)' <=> ColumnAt(x, q, i)
    BY DEF ColumnAt
  <2>2. QueuedOnce(commandQueues)'
    BY <1>2, <1>3 DEF PlacedNext, QueuedOnce, ColumnAt
  <2>3. \A r : Carried(commandQueues, r)' <=> Carried(commandQueues', r)
    BY <1>3 DEF Carried, ColumnAt
  <2>4. Apart(commandQueues, memQueue, dev)'
    BY <1>2, <2>3 DEF PlacedNext, Apart, Waits, Doing
  <2> QED BY <1>2, <2>2, <2>4 DEF PlacedNext, Distinct
<1> QED BY <1>1, <1>2, <1>4 DEF Placed, PlacedNext

\* No request is anywhere at the start.
LEMMA InitPlaced ==
  ASSUME Counting
  PROVE  Init => Placed
<1> SUFFICES ASSUME Init PROVE Placed
  OBVIOUS
<1>1. memQueue = <<>> /\ dev.events = {} /\ \A q \in Queues : commandQueues[q] = <<>>
  BY DEF Init, InitDevice
<1> QED BY <1>1, InitTyped, SMTT(30) DEF Placed, QueuedOnce, Distinct, Apart, Carried, Waits, Doing

\* Each request is in one place throughout.
LEMMA PlacedAlways ==
  ASSUME Counting
  PROVE  Spec => []Placed
BY InitPlaced, NextPlaced, PTL DEF Spec

\* So InOnePlace holds throughout ...
LEMMA OnePlaceAlways ==
  ASSUME Counting
  PROVE  Spec => []InOnePlace
<1>1. Placed => InOnePlace
  <2> SUFFICES ASSUME Placed PROVE InOnePlace
    OBVIOUS
  <2>1. memQueue \in Seq(TransactionRecords) /\ Len(memQueue) \in Nat /\ commandQueues \in QueueFunctions
    BY TypedFacts DEF Placed
  <2>2. \A r : Waits(memQueue, r) => r \in Requests
    <3>1. \A i \in 1..Len(memQueue) : memQueue[i] \in TransactionRecords
      BY <2>1, SMT
    <3>2. \A t \in TransactionRecords : t.id \in Requests
      BY DEF TransactionRecords
    <3> QED BY <3>1, <3>2 DEF Waits
  <2>3. \A r : r \in Queued => r \in Requests
    <3>1. \A q \in Queues : \A i \in 1..Len(commandQueues[q]) : commandQueues[q][i].id \in Requests \cup {0}
      <4>1. \A q \in Queues : \A i \in 1..Len(commandQueues[q]) : commandQueues[q][i] \in CommandRecords
        BY <2>1, SMT DEF QueueFunctions
      <4>2. \A c \in CommandRecords : c.id \in Requests \cup {0}
        BY DEF CommandRecords
      <4> QED BY <4>1, <4>2
    <3>2. \A r : Carried(commandQueues, r) => r \in Requests \cup {0}
      BY <3>1 DEF Carried
    <3> QED BY <3>2, Places DEF Queued, Located
  <2>4. /\ Waiting \cap Queued = {} /\ Waiting \cap InFlight = {} /\ Queued \cap InFlight = {}
    BY <2>2, <2>3, Places DEF Placed, Apart, Located
  <2>5. Cardinality(Waiting) = Len(memQueue)
    <3> DEFINE f == [i \in 1..Len(memQueue) |-> memQueue[i].id]
    <3>1. /\ f \in [1..Len(memQueue) -> Waiting]
          /\ \A i, j \in 1..Len(memQueue) : f[i] = f[j] => i = j
          /\ \A x \in Waiting : \E i \in 1..Len(memQueue) : f[i] = x
      BY DEF Waiting, Placed, Distinct
    <3>2. 1 \in Int /\ Len(memQueue) \in Int /\ 1 <= Len(memQueue) + 1
      BY <2>1, SMT
    <3> HIDE DEF f
    <3>3. Cardinality(Waiting) = Len(memQueue) - 1 + 1
      BY <3>1, <3>2, NumberedSize
    <3> QED BY <2>1, <3>3, SMTT(30)
  <2> QED BY <2>4, <2>5 DEF InOnePlace
<1> QED BY <1>1, PlacedAlways, PTL

\* ... and no step drops a request.
LEMMA NeverDropped ==
  ASSUME Counting
  PROVE  Spec => NoneDropped
<1>0. Placed' => Located'
  BY Places, PTL
<1>1. Placed /\ Placed' /\ [Next]_vars =>
        [\A r \in Busy : r \in Busy' \/ \E e \in dev.events : e.what = "done" /\ e.id = r /\ e.left = 0]_vars
  <2> SUFFICES ASSUME Placed, Placed', [Next]_vars, NEW r \in Busy
               PROVE  r \in Busy' \/ \E e \in dev.events : e.what = "done" /\ e.id = r /\ e.left = 0
    OBVIOUS
  <2>1. Kept /\ config' = config
    BY ConfigUnchanged, NextPlaced
  <2>2. Carried(commandQueues, r) \/ Waits(memQueue, r) \/ Doing(dev, r)
    BY Places DEF Busy, Located
  <2>3. Located'
    BY <1>0
  <2>4. \A x : Carried(commandQueues, x)' <=> Carried(commandQueues', x)
    BY <2>1, ConfigKept DEF Carried, ColumnAt
  <2>5. \A x : (x \in Waiting)' <=> Waits(memQueue', x)
    BY <2>3 DEF Located, Waits
  <2>6. \A x : (x \in InFlight)' <=> Doing(dev', x)
    BY <2>3 DEF Located, Doing
  <2>7. \A x : (x \in Queued)' <=> Carried(commandQueues', x)
    BY <2>3, <2>4 DEF Located
  <2> QED BY <2>1, <2>2, <2>5, <2>6, <2>7 DEF Kept, Busy
<1> QED BY <1>1, PlacedAlways, PTL DEF Spec, NoneDropped

-----------------------------------------------------------------------------
\* The controller's view is what the banks will be

\* A command still queued at place i that opens or closes the row of subarray s of bank b.
TouchesAt(queue, i, b, s) == i \in 1..Len(queue) /\ ~queue[i].issued /\ Touches(queue[i], b, s)

\* `row' is what the commands in the queue leave there: what the last of them leaves, or the row
\* the device has when there is none.
Leaves(queue, d, b, s, row) ==
  \/ (\A i \in 1..Len(queue) : ~TouchesAt(queue, i, b, s)) /\ RowOf(d, b, s) = row
  \/ \E i \in 1..Len(queue) :
       /\ TouchesAt(queue, i, b, s) /\ LeftBy(queue[i]) = row
       /\ \A j \in 1..Len(queue) : TouchesAt(queue, j, b, s) => j <= i

\* The rows of the view are what the queues leave, and a bank counts as activated while the view
\* has a row of it open.
Follows(queues, d, rows) ==
  \A b \in Banks : \A s \in SubArrays : Leaves(queues[QueueId(b, s)], d, b, s, rows[b][s])
Flagged(rows, flags) == \A b \in Banks : flags[b] <=> \E s \in SubArrays : rows[b][s] # NoRow

\* Every command for a bank's rows is in the queue of the subarrays it is for: there is no refresh
\* whose PRECHARGE_ALL is for all of them, there is one subarray to a bank, or the subarrays of a
\* bank share a queue.
SharedQueues ==
  \/ ~UseRefresh
  \/ SubArrayNum = 1
  \/ \A c \in Configurations : c.queueModel # "PerSubArray"

\* Only a refresh queues a PRECHARGE_ALL.
OnlyRefreshes(queues) ==
  UseRefresh \/ \A q \in Queues : \A i \in 1..Len(queues[q]) : queues[q][i].type # "PRECHARGE_ALL"

\* A command opens or closes rows of the subarrays of its own queue.
LEMMA TouchesItsQueue ==
  ASSUME SharedQueues, config \in Configurations, NEW c, c.sub \in SubArrays,
         UseRefresh \/ c.type # "PRECHARGE_ALL", NEW b, NEW s \in SubArrays, Touches(c, b, s)
  PROVE  QueueId(b, s) = QueueId(c.bank, c.sub)
<1>1. c.bank = b
  BY DEF Touches
<1>2. CASE SubArrayNum = 1
  BY <1>1, <1>2, SMTT(30) DEF SubArrays
<1>3. CASE \A x \in Configurations : x.queueModel # "PerSubArray"
  BY <1>1, <1>3, QueueIds
<1>4. CASE ~UseRefresh
  BY <1>4 DEF Touches
<1> QED BY <1>2, <1>3, <1>4 DEF SharedQueues

\* Issuing the head of a queue moves what it leaves from the queue to the device.
LEMMA IssueLeaves ==
  ASSUME NEW old, NEW new, Len(old) \in Nat, 1 \in 1..Len(old), Len(new) = Len(old),
         ~old[1].issued, new[1].issued, \A i \in 1..Len(old) : i # 1 => new[i] = old[i],
         NEW d, NEW n, NEW b, NEW s, NEW row, Leaves(old, d, b, s, row),
         RowOf(n, b, s) = IF Touches(old[1], b, s) THEN LeftBy(old[1]) ELSE RowOf(d, b, s)
  PROVE  Leaves(new, n, b, s, row)
<1>1. \A i \in 1..Len(old) : TouchesAt(new, i, b, s) <=> i # 1 /\ TouchesAt(old, i, b, s)
  BY DEF TouchesAt
<1>2. TouchesAt(old, 1, b, s) <=> Touches(old[1], b, s)
  BY DEF TouchesAt
<1>3. CASE (\A i \in 1..Len(old) : ~TouchesAt(old, i, b, s)) /\ RowOf(d, b, s) = row
  <2>1. \A i \in 1..Len(new) : ~TouchesAt(new, i, b, s)
    BY <1>1, <1>3
  <2>2. RowOf(n, b, s) = row
    BY <1>2, <1>3
  <2> QED BY <2>1, <2>2 DEF Leaves
<1>4. ASSUME NEW i \in 1..Len(old), TouchesAt(old, i, b, s), LeftBy(old[i]) = row,
             \A j \in 1..Len(old) : TouchesAt(old, j, b, s) => j <= i
      PROVE  Leaves(new, n, b, s, row)
  <2>1. CASE i = 1
    <3>1. \A j \in 1..Len(old) : TouchesAt(old, j, b, s) => j = 1
      BY <1>4, <2>1, SMTT(30)
    <3>2. \A j \in 1..Len(new) : ~TouchesAt(new, j, b, s)
      BY <1>1, <3>1
    <3>3. RowOf(n, b, s) = row
      BY <1>2, <1>4, <2>1
    <3> QED BY <3>2, <3>3 DEF Leaves
  <2>2. CASE i # 1
    <3>1. i \in 1..Len(new) /\ TouchesAt(new, i, b, s) /\ LeftBy(new[i]) = row
      BY <1>1, <1>4, <2>2
    <3>2. \A j \in 1..Len(new) : TouchesAt(new, j, b, s) => j <= i
      BY <1>1, <1>4
    <3> QED BY <3>1, <3>2 DEF Leaves
  <2> QED BY <2>1, <2>2
<1> QED BY <1>3, <1>4 DEF Leaves

\* Cycling the queues keeps the view.
LEMMA IssueFollows ==
  ASSUME SharedQueues, config \in Configurations, dev \in Devices, Sound(dev),
         NEW queues \in QueueFunctions, Sorted(queues), NoneIssued(queues),
         OnlyRefreshes(queues), NEW q \in Queues, IssueEffect(queues, q), NEW rows, Follows(queues, dev, rows)
  PROVE  Sound(dev') /\ Follows(commandQueues', dev', rows) /\ OnlyRefreshes(commandQueues')
<1> DEFINE c == queues[q][1]
<1>1. /\ c \in CommandRecords /\ IsIssuable(dev, c) /\ dev' = IssueCommand(dev, c)
      /\ 1 \in 1..Len(queues[q]) /\ commandQueues'[q][1].issued
      /\ \A r \in Queues : Len(commandQueues'[r]) = Len(queues[r]) /\ (r # q => commandQueues'[r] = queues[r])
      /\ \A i \in 1..Len(queues[q]) : i # 1 => commandQueues'[q][i] = queues[q][i]
  BY DEF IssueEffect
<1>2. /\ Sound(dev')
      /\ \A b \in Banks : \A s \in SubArrays :
           RowOf(dev', b, s) = IF Touches(c, b, s) THEN LeftBy(c) ELSE RowOf(dev, b, s)
  BY <1>1, RankRows
<1>3. c.sub \in SubArrays /\ QueueId(c.bank, c.sub) = q /\ ~c.issued /\ Len(queues[q]) \in Nat
  BY <1>1, SMT DEF CommandRecords, Sorted, NoneIssued, QueueFunctions
<1>4. UseRefresh \/ c.type # "PRECHARGE_ALL"
  BY <1>1 DEF OnlyRefreshes
<1>5. OnlyRefreshes(commandQueues')
  <2> SUFFICES ASSUME ~UseRefresh, NEW r \in Queues, NEW i \in 1..Len(commandQueues'[r])
               PROVE  commandQueues'[r][i].type # "PRECHARGE_ALL"
    BY DEF OnlyRefreshes
  <2>1. i \in 1..Len(queues[r]) /\ queues[r][i].type # "PRECHARGE_ALL"
    BY <1>1 DEF OnlyRefreshes
  <2>2. CASE r = q /\ i = 1
    BY <2>1, <2>2 DEF IssueEffect
  <2>3. CASE ~(r = q /\ i = 1)
    BY <1>1, <2>1, <2>3
  <2> QED BY <2>2, <2>3
<1> HIDE DEF c
<1>6. ASSUME NEW b \in Banks, NEW s \in SubArrays
      PROVE  Leaves(commandQueues'[QueueId(b, s)], dev', b, s, rows[b][s])
  <2>1. Leaves(queues[QueueId(b, s)], dev, b, s, rows[b][s]) /\ QueueId(b, s) \in Queues
    BY QueueIds DEF Follows
  <2>2. CASE QueueId(b, s) = q
    <3>1. Leaves(queues[q], dev, b, s, rows[b][s]) /\ Len(commandQueues'[q]) = Len(queues[q])
      BY <1>1, <2>1, <2>2
    <3>2. RowOf(dev', b, s) = IF Touches(queues[q][1], b, s) THEN LeftBy(queues[q][1]) ELSE RowOf(dev, b, s)
      BY <1>2 DEF c
    <3>3. ~queues[q][1].issued /\ 1 \in 1..Len(queues[q]) /\ commandQueues'[q][1].issued
      BY <1>1, <1>3 DEF c
    <3>4. \A i \in 1..Len(queues[q]) : i # 1 => commandQueues'[q][i] = queues[q][i]
      BY <1>1
    <3>5. Leaves(commandQueues'[q], dev', b, s, rows[b][s])
      BY <1>3, <3>1, <3>2, <3>3, <3>4, IssueLeaves
    <3> QED BY <2>2, <3>5
  <2>3. CASE QueueId(b, s) # q
    <3>1. ~Touches(c, b, s)
      BY <1>3, <1>4, <2>3, TouchesItsQueue
    <3>2. RowOf(dev', b, s) = RowOf(dev, b, s) /\ commandQueues'[QueueId(b, s)] = queues[QueueId(b, s)]
      BY <1>1, <1>2, <2>1, <2>3, <3>1
    <3> QED BY <2>1, <3>2 DEF Leaves
  <2> QED BY <2>2, <2>3
<1> QED BY <1>2, <1>5, <1>6 DEF Follows

\* What is appended to a queue counts after what is there.
LEMMA AppendLeaves ==
  ASSUME NEW old, NEW add, NEW new, Len(old) \in Nat, Len(add) \in Nat, Len(new) = Len(old) + Len(add),
         \A i \in 1..Len(old) : new[i] = old[i], \A i \in 1..Len(add) : new[Len(old) + i] = add[i],
         NEW d, NEW b, NEW s, NEW row
  PROVE  /\ (\A i \in 1..Len(add) : ~TouchesAt(add, i, b, s)) /\ Leaves(old, d, b, s, row)
              => Leaves(new, d, b, s, row)
         /\ \A i \in 1..Len(add) :
              /\ TouchesAt(add, i, b, s) /\ LeftBy(add[i]) = row
              /\ \A j \in 1..Len(add) : TouchesAt(add, j, b, s) => j <= i
              => Leaves(new, d, b, s, row)
<1>1. \A i \in 1..Len(old) : i \in 1..Len(new) /\ (TouchesAt(new, i, b, s) <=> TouchesAt(old, i, b, s))
  BY SMT DEF TouchesAt
<1>2. \A i \in 1..Len(add) :
        /\ Len(old) + i \in 1..Len(new)
        /\ TouchesAt(new, Len(old) + i, b, s) <=> TouchesAt(add, i, b, s)
  BY SMT DEF TouchesAt
<1>3. \A i \in 1..Len(new) : i \in 1..Len(old) \/ (i - Len(old) \in 1..Len(add) /\ Len(old) + (i - Len(old)) = i)
  BY SMT
<1>4. ASSUME \A i \in 1..Len(add) : ~TouchesAt(add, i, b, s), Leaves(old, d, b, s, row)
      PROVE  Leaves(new, d, b, s, row)
  <2>1. \A i \in 1..Len(new) : TouchesAt(new, i, b, s) => i \in 1..Len(old) /\ TouchesAt(old, i, b, s)
    <3> SUFFICES ASSUME NEW i \in 1..Len(new), TouchesAt(new, i, b, s), i \notin 1..Len(old) PROVE FALSE
      BY <1>1
    <3>1. i - Len(old) \in 1..Len(add) /\ Len(old) + (i - Len(old)) = i
      BY <1>3
    <3>2. TouchesAt(new, Len(old) + (i - Len(old)), b, s) <=> TouchesAt(add, i - Len(old), b, s)
      BY <1>2, <3>1
    <3> QED BY <1>4, <3>1, <3>2
  <2>2. CASE (\A i \in 1..Len(old) : ~TouchesAt(old, i, b, s)) /\ RowOf(d, b, s) = row
    BY <2>1, <2>2 DEF Leaves
  <2>3. ASSUME NEW i \in 1..Len(old), TouchesAt(old, i, b, s), LeftBy(old[i]) = row,
               \A j \in 1..Len(old) : TouchesAt(old, j, b, s) => j <= i
        PROVE  Leaves(new, d, b, s, row)
    <3>1. i \in 1..Len(new) /\ TouchesAt(new, i, b, s) /\ LeftBy(new[i]) = row
      BY <1>1, <2>3
    <3>2. \A j \in 1..Len(new) : TouchesAt(new, j, b, s) => j <= i
      BY <2>1, <2>3
    <3> QED BY <3>1, <3>2 DEF Leaves
  <2> QED BY <1>4, <2>2, <2>3 DEF Leaves
<1>5. ASSUME NEW i \in 1..Len(add), TouchesAt(add, i, b, s), LeftBy(add[i]) = row,
             \A j \in 1..Len(add) : TouchesAt(add, j, b, s) => j <= i
      PROVE  Leaves(new, d, b, s, row)
  <2>1. Len(old) + i \in 1..Len(new) /\ TouchesAt(new, Len(old) + i, b, s) /\ LeftBy(new[Len(old) + i]) = row
    BY <1>2, <1>5
  <2>2. ASSUME NEW j \in 1..Len(new), TouchesAt(new, j, b, s) PROVE j <= Len(old) + i
    <3>1. CASE j \in 1..Len(old)
      BY <3>1, SMT
    <3>2. CASE j - Len(old) \in 1..Len(add) /\ Len(old) + (j - Len(old)) = j
      <4>1. TouchesAt(add, j - Len(old), b, s)
        BY <1>2, <2>2, <3>2
      <4>2. j - Len(old) <= i
        BY <1>5, <3>2, <4>1
      <4> QED BY <3>2, <4>2, SMT
    <3> QED BY <1>3, <3>1, <3>2
  <2> QED BY <2>1, <2>2 DEF Leaves
<1> QED BY <1>4, <1>5

\* The cleanup takes away an issued command only.
LEMMA ShiftLeaves ==
  ASSUME NEW old, NEW new, NEW k \in {0, 1}, Len(old) \in Nat, Len(new) = Len(old) - k,
         \A i \in 1..Len(new) : i + k \in 1..Len(old) /\ new[i] = old[i + k] /\ i \in Nat \ {0},
         \A i \in 1..Len(old) : ~old[i].issued => i - k \in 1..Len(new) /\ i - k + k = i,
         NEW d, NEW b, NEW s, NEW row, Leaves(old, d, b, s, row)
  PROVE  Leaves(new, d, b, s, row)
<1>1. \A i \in 1..Len(new) : TouchesAt(new, i, b, s) <=> TouchesAt(old, i + k, b, s)
  BY DEF TouchesAt
<1>2. \A i \in 1..Len(old) : TouchesAt(old, i, b, s) => i - k \in 1..Len(new) /\ i - k + k = i
  BY DEF TouchesAt
<1>3. CASE (\A i \in 1..Len(old) : ~TouchesAt(old, i, b, s)) /\ RowOf(d, b, s) = row
  BY <1>1, <1>3 DEF Leaves
<1>4. ASSUME NEW i \in 1..Len(old), TouchesAt(old, i, b, s), LeftBy(old[i]) = row,
             \A j \in 1..Len(old) : TouchesAt(old, j, b, s) => j <= i
      PROVE  Leaves(new, d, b, s, row)
  <2>1. i - k \in 1..Len(new) /\ i - k + k = i
    BY <1>2, <1>4
  <2>2. TouchesAt(new, i - k, b, s) /\ LeftBy(new[i - k]) = row
    BY <1>1, <1>4, <2>1
  <2>3. \A j \in 1..Len(new) : TouchesAt(new, j, b, s) => j <= i - k
    BY <1>1, <1>4, SMTT(30)
  <2> QED BY <2>1, <2>2, <2>3 DEF Leaves
<1> QED BY <1>3, <1>4 DEF Leaves

\* What the commands of transaction t leave in its subarray, and that they touch no other.
LEMMA CommandsLeave ==
  ASSUME NEW t \in TransactionRecords, NEW last \in BOOLEAN, activateQueued \in [Banks -> BOOLEAN],
         effectiveRow \in [Banks -> [SubArrays -> Nat \cup {NoRow}]]
  PROVE  LET cs == Commands(t, last)
             closes == last /\ ~IsMiss(t)
         IN /\ Len(cs) \in Nat
            /\ \A b, s : \A i \in 1..Len(cs) : TouchesAt(cs, i, b, s) => b = t.bank /\ s = t.sub
            /\ \/ \E i \in 1..Len(cs) :
                    /\ TouchesAt(cs, i, t.bank, t.sub)
                    /\ LeftBy(cs[i]) = IF closes THEN NoRow ELSE t.row
                    /\ \A j \in 1..Len(cs) : TouchesAt(cs, j, t.bank, t.sub) => j <= i
               \/ /\ ~closes /\ effectiveRow[t.bank][t.sub] = t.row
                  /\ \A i \in 1..Len(cs) : ~TouchesAt(cs, i, t.bank, t.sub)
<1> DEFINE act == Command("ACTIVATE", t)
           pre == CloseFor(t)
           cs == Commands(t, last)
           closes == last /\ ~IsMiss(t)
           Touching(c) == ~c.issued /\ Touches(c, t.bank, t.sub)
           Only(c) == \A b, s : Touches(c, b, s) => b = t.bank /\ s = t.sub
<1>1. Touching(act) /\ LeftBy(act) = t.row /\ Only(act)
  BY CommandFields DEF Touches, LeftBy
<1>2. Touching(pre) /\ Only(pre)
  BY CommandFields DEF Touches
<1>3. ASSUME NEW l \in BOOLEAN
      PROVE  (Touching(Column(t, l)) <=> l) /\ LeftBy(Column(t, l)) = NoRow /\ Only(Column(t, l))
  <2> DEFINE col == Column(t, l)
  <2>1. /\ col.type \in Reads \cup Writes /\ col.bank = t.bank /\ col.sub = t.sub /\ ~col.issued
        /\ col.type \in {"READ_PRECHARGE", "WRITE_PRECHARGE"} <=> l
    BY CommandFields
  <2> HIDE DEF col
  <2> QED BY <2>1 DEF Touches, LeftBy, Reads, Writes, col
<1> HIDE DEF act, pre, Touching, Only
<1>4. ASSUME NEW x, NEW y, cs = <<x, y>>, Only(x), Only(y), Touching(x), LeftBy(x) = t.row,
             Touching(y) <=> closes, LeftBy(y) = NoRow
      PROVE  /\ Len(cs) \in Nat
             /\ \A b, s : \A i \in 1..Len(cs) : TouchesAt(cs, i, b, s) => b = t.bank /\ s = t.sub
             /\ \E i \in 1..Len(cs) :
                  /\ TouchesAt(cs, i, t.bank, t.sub)
                  /\ LeftBy(cs[i]) = IF closes THEN NoRow ELSE t.row
                  /\ \A j \in 1..Len(cs) : TouchesAt(cs, j, t.bank, t.sub) => j <= i
  <2> HIDE DEF cs, closes
  <2>1. Len(cs) = 2 /\ cs[1] = x /\ cs[2] = y
    BY <1>4
  <2>2. {1, 2} \subseteq 1..Len(cs) /\ \A i \in 1..Len(cs) : i = 1 \/ i = 2
    BY <2>1, ShortPositions
  <2>3. /\ TouchesAt(cs, 1, t.bank, t.sub) /\ (TouchesAt(cs, 2, t.bank, t.sub) <=> closes)
    BY <1>4, <2>1, <2>2 DEF TouchesAt, Touching
  <2>4. \A b, s : \A i \in 1..Len(cs) : TouchesAt(cs, i, b, s) => b = t.bank /\ s = t.sub
    <3> SUFFICES ASSUME NEW b, NEW s, NEW i \in 1..Len(cs), TouchesAt(cs, i, b, s)
                 PROVE  b = t.bank /\ s = t.sub
      OBVIOUS
    <3>1. cs[i] = x \/ cs[i] = y
      BY <2>1, <2>2
    <3>2. Touches(cs[i], b, s)
      BY DEF TouchesAt
    <3> QED BY <1>4, <3>1, <3>2 DEF Only
  <2>5. CASE closes
    <3>1. 2 \in 1..Len(cs) /\ \A j \in 1..Len(cs) : j <= 2
      BY <2>1, <2>2, ShortPositions
    <3> QED BY <1>4, <2>1, <2>3, <2>4, <2>5, <3>1
  <2>6. CASE ~closes
    <3>1. 1 \in 1..Len(cs) /\ \A j \in 1..Len(cs) : TouchesAt(cs, j, t.bank, t.sub) => j <= 1
      BY <2>1, <2>2, <2>3, <2>6, ShortPositions
    <3> QED BY <1>4, <2>1, <2>3, <2>4, <2>6, <3>1
  <2> QED BY <2>5, <2>6
<1>5. CASE ~IsHit(t) /\ ~IsMiss(t) /\ cs = <<act, Column(t, last)>>
  <2>1. Touching(Column(t, last)) <=> closes
    BY <1>3, <1>5
  <2> HIDE DEF cs, closes
  <2> QED BY <1>1, <1>3, <1>4, <1>5, <2>1 DEF cs, closes
<1>6. CASE IsMiss(t) /\ cs = <<act, Column(t, FALSE)>>
  <2>1. Touching(Column(t, FALSE)) <=> closes
    BY <1>3, <1>6
  <2>2. LeftBy(Column(t, FALSE)) = NoRow /\ Only(Column(t, FALSE))
    BY <1>3
  <2> QED BY <1>1, <1>4, <1>6, <2>1, <2>2
<1>7. CASE IsMiss(t) /\ cs = <<pre, act, Column(t, FALSE)>>
  <2>1. ~closes /\ ~Touching(Column(t, FALSE)) /\ Only(Column(t, FALSE))
    BY <1>3, <1>7
  <2> DEFINE col == Column(t, FALSE)
  <2> HIDE DEF cs, closes, col
  <2>2. Len(cs) = 3 /\ cs[1] = pre /\ cs[2] = act /\ cs[3] = col
    BY <1>7 DEF col
  <2>3. {1, 2, 3} \subseteq 1..Len(cs) /\ \A i \in 1..Len(cs) : i = 1 \/ i = 2 \/ i = 3
    BY <2>2, ShortPositions
  <2>4. TouchesAt(cs, 2, t.bank, t.sub) /\ ~TouchesAt(cs, 3, t.bank, t.sub)
    <3>1. 2 \in 1..Len(cs)
      BY <2>3
    <3>2. ~cs[2].issued /\ Touches(cs[2], t.bank, t.sub)
      BY <1>1, <2>2 DEF Touching
    <3>3. ~(~cs[3].issued /\ Touches(cs[3], t.bank, t.sub))
      BY <2>1, <2>2 DEF Touching, col
    <3> QED BY <3>1, <3>2, <3>3 DEF TouchesAt
  <2>5. \A b, s : \A i \in 1..Len(cs) : TouchesAt(cs, i, b, s) => b = t.bank /\ s = t.sub
    BY <1>1, <1>2, <2>1, <2>2, <2>3 DEF TouchesAt, Only, col
  <2>6. 2 \in 1..Len(cs) /\ \A j \in 1..Len(cs) : TouchesAt(cs, j, t.bank, t.sub) => j <= 2
    BY <2>2, <2>3, <2>4, ShortPositions
  <2>7. LeftBy(cs[2]) = IF closes THEN NoRow ELSE t.row
    BY <1>1, <2>1, <2>2
  <2> QED BY <2>2, <2>4, <2>5, <2>6, <2>7, ShortPositions DEF cs, closes
<1>8. CASE IsHit(t) /\ ~IsMiss(t) /\ cs = <<Column(t, last)>>
  <2> DEFINE col == Column(t, last)
  <2>1. (Touching(col) <=> closes) /\ LeftBy(col) = NoRow /\ Only(col)
    BY <1>3, <1>8
  <2>2. effectiveRow[t.bank][t.sub] = t.row
    BY <1>8 DEF IsHit
  <2> HIDE DEF cs, closes, col
  <2>3. Len(cs) = 1 /\ cs[1] = col
    BY <1>8 DEF col
  <2>4. 1 \in 1..Len(cs) /\ \A i \in 1..Len(cs) : i = 1
    BY <2>3, ShortPositions
  <2>5. TouchesAt(cs, 1, t.bank, t.sub) <=> closes
    BY <2>1, <2>3, <2>4 DEF TouchesAt, Touching
  <2>6. \A b, s : \A i \in 1..Len(cs) : TouchesAt(cs, i, b, s) => b = t.bank /\ s = t.sub
    BY <2>1, <2>3, <2>4 DEF TouchesAt, Only
  <2>7. CASE closes
    <3>1. 1 \in 1..Len(cs) /\ \A j \in 1..Len(cs) : j <= 1
      BY <2>4, ShortPositions
    <3>2. LeftBy(cs[1]) = IF closes THEN NoRow ELSE t.row
      BY <2>1, <2>3, <2>7
    <3>3. TouchesAt(cs, 1, t.bank, t.sub) /\ Len(cs) \in Nat
      BY <2>3, <2>5, <2>7, ShortPositions
    <3> QED BY <2>6, <3>1, <3>2, <3>3 DEF cs, closes
  <2>8. CASE ~closes
    <3>1. Len(cs) \in Nat /\ \A i \in 1..Len(cs) : ~TouchesAt(cs, i, t.bank, t.sub)
      BY <2>3, <2>4, <2>5, <2>8, ShortPositions
    <3> QED BY <2>2, <2>6, <2>8, <3>1 DEF cs, closes
  <2> QED BY <2>7, <2>8
<1> QED BY <1>5, <1>6, <1>7, <1>8, CommandsCases DEF act, pre

\* Scheduling a transaction keeps the view.
LEMMA ScheduleFollows ==
  ASSUME Typed, NEW i, NEW queues, ScheduleEffect(i, queues),
         Follows(commandQueues, dev, effectiveRow), Flagged(effectiveRow, activateQueued)
  PROVE  Follows(queues, dev, effectiveRow') /\ Flagged(effectiveRow', activateQueued')
<1> DEFINE t == memQueue[i]
           q == QueueId(t.bank, t.sub)
           last == IsLastRequest(t, Without(i))
           cs == Commands(t, last)
           closes == last /\ ~IsMiss(t)
           row == IF closes THEN NoRow ELSE t.row
<1>1. /\ t \in TransactionRecords /\ last \in BOOLEAN /\ commandQueues[q] = <<>> /\ queues[q] = cs
      /\ \A r \in Queues : r # q => queues[r] = commandQueues[r]
      /\ UpdateView(t, last)
  BY DEF ScheduleEffect
<1>2. t.bank \in Banks /\ t.sub \in SubArrays /\ t.row \in Nat /\ t.row # NoRow
  BY <1>1, RankAssumption, ControllerAssumption DEF TransactionRecords
<1>3. /\ activateQueued \in [Banks -> BOOLEAN] /\ effectiveRow \in [Banks -> [SubArrays -> Nat \cup {NoRow}]]
      /\ \A b \in Banks, s \in SubArrays : QueueId(b, s) \in Queues
  BY TypedFacts, QueueIds
<1>4. /\ Len(cs) \in Nat
      /\ \A b, s : \A j \in 1..Len(cs) : TouchesAt(cs, j, b, s) => b = t.bank /\ s = t.sub
      /\ \/ \E j \in 1..Len(cs) :
              /\ TouchesAt(cs, j, t.bank, t.sub) /\ LeftBy(cs[j]) = row
              /\ \A k \in 1..Len(cs) : TouchesAt(cs, k, t.bank, t.sub) => k <= j
         \/ /\ ~closes /\ effectiveRow[t.bank][t.sub] = t.row
            /\ \A j \in 1..Len(cs) : ~TouchesAt(cs, j, t.bank, t.sub)
  BY <1>1, <1>3, CommandsLeave
<1>5. /\ effectiveRow' = [effectiveRow EXCEPT ![t.bank][t.sub] = row]
      /\ activateQueued' = [activateQueued EXCEPT ![t.bank] =
           closes => IsHit(t) /\ \E u \in SubArrays \ {t.sub} : effectiveRow[t.bank][u] # NoRow]
  BY <1>1 DEF UpdateView
<1> HIDE DEF t, q, cs, row
<1>6. /\ \A b \in Banks : \A s \in SubArrays : effectiveRow'[b][s] =
           IF b = t.bank /\ s = t.sub THEN row ELSE effectiveRow[b][s]
      /\ \A b \in Banks : b # t.bank => activateQueued'[b] = activateQueued[b]
      /\ activateQueued'[t.bank] <=>
           (closes => IsHit(t) /\ \E u \in SubArrays \ {t.sub} : effectiveRow[t.bank][u] # NoRow)
  BY <1>2, <1>3, <1>5
<1>7. ASSUME NEW b \in Banks, NEW s \in SubArrays
      PROVE  Leaves(queues[QueueId(b, s)], dev, b, s, effectiveRow'[b][s])
  <2>1. Leaves(commandQueues[QueueId(b, s)], dev, b, s, effectiveRow[b][s]) /\ QueueId(b, s) \in Queues
    BY <1>3 DEF Follows
  <2>2. CASE QueueId(b, s) = q
    <3>1. RowOf(dev, b, s) = effectiveRow[b][s]
      <4>1. \A j \in 1..Len(commandQueues[q]) : FALSE
        BY <1>1, SMTT(30)
      <4> QED BY <2>1, <2>2, <4>1 DEF Leaves
    <3>2. CASE b = t.bank /\ s = t.sub
      <4>1. effectiveRow'[b][s] = row
        BY <1>6, <3>2
      <4>2. ASSUME NEW j \in 1..Len(cs), TouchesAt(cs, j, t.bank, t.sub), LeftBy(cs[j]) = row,
                   \A k \in 1..Len(cs) : TouchesAt(cs, k, t.bank, t.sub) => k <= j
            PROVE  Leaves(cs, dev, t.bank, t.sub, row)
        BY <4>2 DEF Leaves
      <4>3. ASSUME ~closes, effectiveRow[t.bank][t.sub] = t.row,
                   \A j \in 1..Len(cs) : ~TouchesAt(cs, j, t.bank, t.sub)
            PROVE  Leaves(cs, dev, t.bank, t.sub, row)
        BY <3>1, <3>2, <4>3 DEF Leaves, row
      <4>4. Leaves(cs, dev, t.bank, t.sub, row)
        BY <1>4, <4>2, <4>3
      <4> QED BY <1>1, <2>2, <3>2, <4>1, <4>4
    <3>3. CASE ~(b = t.bank /\ s = t.sub)
      <4>1. effectiveRow'[b][s] = effectiveRow[b][s]
        BY <1>6, <3>3
      <4>2. \A j \in 1..Len(cs) : ~TouchesAt(cs, j, b, s)
        BY <1>4, <3>3
      <4>3. Leaves(cs, dev, b, s, effectiveRow[b][s])
        BY <3>1, <4>2 DEF Leaves
      <4> QED BY <1>1, <2>2, <4>1, <4>3
    <3> QED BY <3>2, <3>3
  <2>3. CASE QueueId(b, s) # q
    <3>1. ~(b = t.bank /\ s = t.sub)
      BY <2>3 DEF q
    <3>2. effectiveRow'[b][s] = effectiveRow[b][s]
      BY <1>6, <3>1
    <3>3. queues[QueueId(b, s)] = commandQueues[QueueId(b, s)]
      BY <1>1, <2>1, <2>3
    <3> QED BY <2>1, <3>2, <3>3
  <2> QED BY <2>2, <2>3
<1>8. ASSUME NEW b \in Banks
      PROVE  activateQueued'[b] <=> \E s \in SubArrays : effectiveRow'[b][s] # NoRow
  <2>1. activateQueued[b] <=> \E s \in SubArrays : effectiveRow[b][s] # NoRow
    BY DEF Flagged
  <2>2. CASE b # t.bank
    BY <1>6, <2>1, <2>2
  <2>3. CASE b = t.bank /\ ~closes
    <3>1. row # NoRow
      BY <1>2, <2>3 DEF row
    <3> QED BY <1>2, <1>6, <2>3, <3>1, SMTT(30)
  <2>4. CASE b = t.bank /\ closes
    <3>1. row = NoRow
      BY <2>4 DEF row
    <3>2. ~IsHit(t) => ~activateQueued[b]
      BY <2>4 DEF IsHit, IsMiss
    <3>3. (\E s \in SubArrays : effectiveRow'[b][s] # NoRow)
            <=> \E u \in SubArrays \ {t.sub} : effectiveRow[b][u] # NoRow
      BY <1>6, <2>4, <3>1, SMTT(30)
    <3>4. activateQueued'[b] <=> IsHit(t) /\ \E u \in SubArrays \ {t.sub} : effectiveRow[b][u] # NoRow
      BY <1>6, <2>4
    <3> QED BY <2>1, <3>2, <3>3, <3>4
  <2> QED BY <2>2, <2>3, <2>4
<1> QED BY <1>7, <1>8 DEF Follows, Flagged

\* A refresh closes in the view what its precharges will close.
LEMMA RefreshFollows ==
  ASSUME Counting, SharedQueues, Typed, NEW h \in Heads, Refreshes(h),
         Follows(commandQueues, dev, effectiveRow), Flagged(effectiveRow, activateQueued)
  PROVE  Follows(commandQueues', dev, effectiveRow') /\ Flagged(effectiveRow', activateQueued')
<1> DEFINE closed(b) == b \in Group(h) /\ activateQueued[b]
<1>1. /\ config \in Configurations /\ activateQueued \in [Banks -> BOOLEAN] /\ RefreshEffect(h)
      /\ effectiveRow \in [Banks -> [SubArrays -> Nat \cup {NoRow}]]
      /\ commandQueues \in QueueFunctions
  BY TypedFacts, RefreshEffects
<1>2. /\ \A b \in Banks : \A s \in SubArrays :
           effectiveRow'[b][s] = IF closed(b) THEN NoRow ELSE effectiveRow[b][s]
      /\ \A b \in Banks : activateQueued'[b] <=> activateQueued[b] /\ b \notin Group(h)
  BY DEF Refreshes, CloseGroup
<1>3. 0 \in SubArrays
  BY Constants, SMT DEF SubArrays
<1>4. ASSUME NEW b \in Banks, NEW s \in SubArrays
      PROVE  Leaves(commandQueues'[QueueId(b, s)], dev, b, s, effectiveRow'[b][s])
  <2> DEFINE q == QueueId(b, s)
             old == commandQueues[q]
             add == RefreshCommands(q, h)
             new == commandQueues'[q]
  <2>1. q \in Queues /\ Leaves(old, dev, b, s, effectiveRow[b][s])
    BY <1>1, QueueIds DEF Follows
  <2>2. /\ add \in Seq(CommandRecords)
        /\ \A i \in 1..Len(add) :
             /\ ~add[i].issued /\ add[i].id = 0 /\ add[i].sub = 0 /\ QueueId(add[i].bank, 0) = q
             /\ \/ add[i].type = "PRECHARGE_ALL" /\ add[i].bank \in Group(h) /\ activateQueued[add[i].bank]
                \/ add[i].type = "REFRESH" /\ add[i].bank = h /\ i = Len(add) /\ q = QueueId(h, 0)
        /\ \A a \in Group(h) : activateQueued[a] /\ QueueId(a, 0) = q =>
             \E i \in 1..Len(add) : add[i].type = "PRECHARGE_ALL" /\ add[i].bank = a
    <3>1. RefreshShape(add, q, h)
      BY <1>1, <2>1, RefreshCommandsShape
    <3> HIDE DEF add, q
    <3> QED BY <3>1 DEF RefreshShape
  <2>3. /\ Len(new) = Len(old) + Len(add)
        /\ \A i \in 1..Len(old) : new[i] = old[i]
        /\ \A i \in 1..Len(add) : new[Len(old) + i] = add[i]
    BY <1>1, <2>1 DEF RefreshEffect
  <2>4. old \in Seq(CommandRecords)
    BY <1>1, <2>1 DEF QueueFunctions
  <2>5. q = QueueId(b, 0)
    <3>1. CASE SubArrayNum = 1
      BY <3>1, SMT DEF SubArrays
    <3>2. CASE \A x \in Configurations : x.queueModel # "PerSubArray"
      BY <1>1, <3>2, QueueIds
    <3> QED BY <3>1, <3>2 DEF SharedQueues, Heads
  <2> HIDE DEF q, old, add, new
  <2>6. Len(old) \in Nat /\ Len(add) \in Nat
    BY <2>2, <2>4, SMTT(30)
  <2>7. \A i \in 1..Len(add) : TouchesAt(add, i, b, s) <=> add[i].type = "PRECHARGE_ALL" /\ add[i].bank = b
    BY <2>2 DEF TouchesAt, Touches
  <2>8. CASE closed(b)
    <3> DEFINE T == {i \in 1..Len(add) : TouchesAt(add, i, b, s)}
    <3>1. \E i \in 1..Len(add) : TouchesAt(add, i, b, s)
      BY <2>2, <2>5, <2>7, <2>8
    <3>2. T \in SUBSET (1..Len(add)) /\ T # {}
      BY <3>1
    <3>3. Max(T) \in T /\ \A i \in T : i <= Max(T)
      BY <2>6, <3>2, GreatestNatural
    <3> DEFINE m == Max(T)
    <3>4. /\ m \in 1..Len(add) /\ TouchesAt(add, m, b, s)
          /\ \A i \in 1..Len(add) : TouchesAt(add, i, b, s) => i <= m
      BY <3>3
    <3> HIDE DEF m
    <3>5. LeftBy(add[m]) = NoRow
      BY <2>7, <3>4 DEF LeftBy
    <3>6. Leaves(new, dev, b, s, NoRow)
      BY <2>3, <2>6, <3>4, <3>5, AppendLeaves
    <3>7. effectiveRow'[b][s] = NoRow
      BY <1>2, <2>8
    <3> QED BY <3>6, <3>7 DEF new, q
  <2>9. CASE ~closed(b)
    <3>1. \A i \in 1..Len(add) : ~TouchesAt(add, i, b, s)
      BY <2>2, <2>7, <2>9
    <3>2. Leaves(new, dev, b, s, effectiveRow[b][s])
      BY <2>1, <2>3, <2>6, <3>1, AppendLeaves
    <3>3. effectiveRow'[b][s] = effectiveRow[b][s]
      BY <1>2, <2>9
    <3> QED BY <3>2, <3>3 DEF new, q
  <2> QED BY <2>8, <2>9
<1>5. ASSUME NEW b \in Banks
      PROVE  activateQueued'[b] <=> \E s \in SubArrays : effectiveRow'[b][s] # NoRow
  <2>1. activateQueued[b] <=> \E s \in SubArrays : effectiveRow[b][s] # NoRow
    BY DEF Flagged
  <2> QED BY <1>2, <2>1
<1> QED BY <1>4, <1>5 DEF Follows, Flagged

\* So does the cleanup.
LEMMA CleanupFollows ==
  ASSUME Typed, CleanupEffect, NEW rows, Follows(commandQueues, dev, rows)
  PROVE  Follows(commandQueues', dev, rows)
<1> SUFFICES ASSUME NEW b \in Banks, NEW s \in SubArrays
             PROVE  Leaves(commandQueues'[QueueId(b, s)], dev, b, s, rows[b][s])
  BY DEF Follows
<1> DEFINE q == QueueId(b, s)
           k == Dropped(q)
<1>1. q \in Queues /\ Leaves(commandQueues[q], dev, b, s, rows[b][s])
  BY TypedFacts, QueueIds DEF Follows
<1>2. /\ k \in {0, 1} /\ Len(commandQueues[q]) \in Nat /\ Len(commandQueues'[q]) = Len(commandQueues[q]) - k
      /\ \A i \in 1..Len(commandQueues'[q]) :
           /\ i + k \in 1..Len(commandQueues[q]) /\ commandQueues'[q][i] = commandQueues[q][i + k]
           /\ i \in Nat \ {0}
      /\ \A i \in 1..Len(commandQueues[q]) : ~commandQueues[q][i].issued =>
           i - k \in 1..Len(commandQueues'[q]) /\ i - k + k = i
  BY <1>1, CleanupShift
<1> HIDE DEF q, k
<1>3. Leaves(commandQueues'[q], dev, b, s, rows[b][s])
  BY <1>1, <1>2, ShiftLeaves
<1> QED BY <1>3 DEF q

\* The rows of the device are all the view needs of it.
LEMMA SameRows ==
  ASSUME NEW queues, NEW d, NEW n, NEW rows, Follows(queues, d, rows),
         \A b \in Banks : \A s \in SubArrays : RowOf(n, b, s) = RowOf(d, b, s)
  PROVE  Follows(queues, n, rows)
BY DEF Follows, Leaves

\* Cycling the queues keeps the view.
LEMMA CycleFollows ==
  ASSUME Counting, SharedQueues, Typed, Sound(dev), NEW queues \in QueueFunctions, Sorted(queues),
         NoneIssued(queues) \/ lastIssue, CycleCommandQueues(queues), OnlyRefreshes(queues),
         NEW rows, Follows(queues, dev, rows)
  PROVE  Sound(dev') /\ Follows(commandQueues', dev', rows) /\ OnlyRefreshes(commandQueues')
<1>1. CASE Rests(queues)
  BY <1>1 DEF Rests, issue
<1>2. ASSUME NEW q \in Queues, Issues(queues, q)
      PROVE  Sound(dev') /\ Follows(commandQueues', dev', rows) /\ OnlyRefreshes(commandQueues')
  <2>1. IssueEffect(queues, q)
    BY <1>2, IssueEffects
  <2>2. NoneIssued(queues)
    BY <2>1 DEF IssueEffect
  <2> QED BY <2>1, <2>2, TypedFacts, IssueFollows
<1> QED BY <1>1, <1>2, CycleCases, TypedFacts

\* Scheduling a transaction queues no PRECHARGE_ALL.
LEMMA ScheduleQueues ==
  ASSUME Typed, OnlyRefreshes(commandQueues), NEW i, NEW queues, ScheduleEffect(i, queues)
  PROVE  OnlyRefreshes(queues)
<1> DEFINE t == memQueue[i]
           last == IsLastRequest(t, Without(i))
           cs == Commands(t, last)
<1>1. /\ t \in TransactionRecords /\ last \in BOOLEAN
      /\ \A q \in Queues : queues[q] = commandQueues[q] \/ queues[q] = cs
  BY DEF ScheduleEffect
<1>2. \A j \in 1..Len(cs) : cs[j].type # "PRECHARGE_ALL"
  BY <1>1, TypedFacts, CommandsType
<1> HIDE DEF cs
<1> QED BY <1>1, <1>2 DEF OnlyRefreshes

\* The cleanup queues nothing.
LEMMA CleanupQueues ==
  ASSUME Typed, OnlyRefreshes(commandQueues), CleanupEffect
  PROVE  OnlyRefreshes(commandQueues')
<1> SUFFICES ASSUME ~UseRefresh, NEW q \in Queues, NEW i \in 1..Len(commandQueues'[q])
             PROVE  commandQueues'[q][i].type # "PRECHARGE_ALL"
  BY DEF OnlyRefreshes
<1>1. PICK k : i + k \in 1..Len(commandQueues[q]) /\ commandQueues'[q][i] = commandQueues[q][i + k]
  BY CleanupShift
<1> QED BY <1>1 DEF OnlyRefreshes

\* The invariant, and what every step keeps of it.
Viewed ==
  /\ Typed /\ Sound(dev) /\ OnlyRefreshes(commandQueues)
  /\ Follows(commandQueues, dev, effectiveRow) /\ Flagged(effectiveRow, activateQueued)

ViewedNext ==
  /\ Sound(dev') /\ OnlyRefreshes(commandQueues')
  /\ Follows(commandQueues', dev', effectiveRow') /\ Flagged(effectiveRow', activateQueued')

\* A cycle keeps it ...
LEMMA CycleViewed ==
  ASSUME Counting, SharedQueues, Viewed, Cycle
  PROVE  ViewedNext
<1>1. /\ Typed /\ Sound(dev) /\ OnlyRefreshes(commandQueues)
      /\ Follows(commandQueues, dev, effectiveRow) /\ Flagged(effectiveRow, activateQueued)
  BY DEF Viewed
<1>2. ~CleanupDue
  BY <1>1, CycleParts
<1>3. PICK queues : /\ \/ queues = commandQueues /\ UNCHANGED <<memQueue, view, wakes>>
                       \/ \E i \in Ready : Schedules(i, queues)
                    /\ CycleCommandQueues(queues)
  BY <1>1, CycleParts
<1>4. /\ queues \in QueueFunctions /\ Sorted(queues) /\ (NoneIssued(queues) \/ lastIssue)
      /\ OnlyRefreshes(queues)
      /\ Follows(queues, dev, effectiveRow') /\ Flagged(effectiveRow', activateQueued')
  <2>1. CASE queues = commandQueues /\ UNCHANGED <<memQueue, view, wakes>>
    BY <1>1, <1>2, <2>1, TypedFacts, TypedRest DEF CleanupDue, view
  <2>2. ASSUME NEW i \in Ready, Schedules(i, queues)
        PROVE  /\ queues \in QueueFunctions /\ Sorted(queues) /\ (NoneIssued(queues) \/ lastIssue)
               /\ OnlyRefreshes(queues)
               /\ Follows(queues, dev, effectiveRow') /\ Flagged(effectiveRow', activateQueued')
    <3>1. ScheduleEffect(i, queues)
      BY <1>1, <2>2, ScheduleEffects
    <3>2. Follows(queues, dev, effectiveRow') /\ Flagged(effectiveRow', activateQueued')
      BY <1>1, <3>1, ScheduleFollows
    <3>3. OnlyRefreshes(queues)
      BY <1>1, <3>1, ScheduleQueues
    <3> QED BY <1>1, <1>2, <2>2, <3>2, <3>3, ScheduleTyped
  <2> QED BY <1>3, <2>1, <2>2
<1> QED BY <1>1, <1>3, <1>4, CycleFollows DEF ViewedNext

\* ... a command wakeup ...
LEMMA CallbackViewed ==
  ASSUME Counting, SharedQueues, Viewed, CommandQueueCallback
  PROVE  ViewedNext
<1>1. /\ Typed /\ Sound(dev) /\ OnlyRefreshes(commandQueues)
      /\ Follows(commandQueues, dev, effectiveRow) /\ Flagged(effectiveRow, activateQueued)
  BY SMT DEF Viewed
<1>2. CycleCommandQueues(commandQueues) /\ UNCHANGED <<effectiveRow, activateQueued>> /\ ~CleanupDue
  BY DEF CommandQueueCallback, view
<1>3. /\ commandQueues \in QueueFunctions /\ Sorted(commandQueues)
      /\ NoneIssued(commandQueues) \/ lastIssue
  BY <1>1, <1>2, TypedFacts, TypedRest DEF CleanupDue
<1> QED BY <1>1, <1>2, <1>3, CycleFollows DEF ViewedNext

\* ... and the handlers that issue nothing.
LEMMA RestViewed ==
  ASSUME Counting, SharedQueues, Viewed
  PROVE  /\ CleanupCallback => ViewedNext
         /\ \A e \in dev.events : Response(e) => ViewedNext
         /\ \A h \in Heads : RefreshCallback(h) => ViewedNext
         /\ Advance => ViewedNext
         /\ UNCHANGED <<dev, commandQueues, effectiveRow, activateQueued>> => ViewedNext
<1>1. /\ Typed /\ Sound(dev) /\ dev \in Devices /\ OnlyRefreshes(commandQueues)
      /\ Follows(commandQueues, dev, effectiveRow) /\ Flagged(effectiveRow, activateQueued)
  BY TypedFacts DEF Viewed
<1>2. ASSUME CleanupCallback PROVE ViewedNext
  <2>1. Follows(commandQueues', dev, effectiveRow) /\ OnlyRefreshes(commandQueues')
    BY <1>1, <1>2, CleanupEffects, CleanupFollows, CleanupQueues
  <2> QED BY <1>1, <1>2, <2>1 DEF CleanupCallback, ViewedNext, view
<1>3. ASSUME NEW e \in dev.events, Response(e) PROVE ViewedNext
  <2>1. dev' = RequestComplete(dev, e) /\ UNCHANGED <<commandQueues, effectiveRow, activateQueued>>
    BY <1>3 DEF Response, view
  <2>2. Sound(dev') /\ \A b \in Banks : \A s \in SubArrays : RowOf(dev', b, s) = RowOf(dev, b, s)
    BY <1>1, <2>1, RankRows
  <2> QED BY <1>1, <2>1, <2>2, SameRows DEF ViewedNext, OnlyRefreshes
<1>4. ASSUME NEW h \in Heads, RefreshCallback(h) PROVE ViewedNext
  <2>1. dev' = dev
    BY <1>1, <1>4, RefreshParts
  <2>2. CASE Refreshes(h)
    BY <1>1, <2>1, <2>2, RefreshFollows DEF ViewedNext, OnlyRefreshes, Heads
  <2>3. CASE UNCHANGED <<commandQueues, view, refreshQueued, nextRefreshBank, handledRefresh, wakes>>
    BY <1>1, <2>1, <2>3 DEF ViewedNext, OnlyRefreshes, view
  <2> QED BY <1>1, <1>4, <2>2, <2>3, RefreshParts
<1>5. ASSUME Advance PROVE ViewedNext
  <2>1. dev' = Tick(dev) /\ UNCHANGED <<commandQueues, effectiveRow, activateQueued>> /\ ~ResponseDue
    BY <1>5 DEF Advance, view
  <2>2. Sound(dev') /\ \A b \in Banks : \A s \in SubArrays : RowOf(dev', b, s) = RowOf(dev, b, s)
    BY <1>1, <2>1, RankRows DEF ResponseDue
  <2> QED BY <1>1, <2>1, <2>2, SameRows DEF ViewedNext, OnlyRefreshes
<1>6. UNCHANGED <<dev, commandQueues, effectiveRow, activateQueued>> => ViewedNext
  BY <1>1 DEF ViewedNext, OnlyRefreshes
<1> QED BY <1>2, <1>3, <1>4, <1>5, <1>6

\* Every step keeps it.
LEMMA NextViewed ==
  ASSUME Counting, SharedQueues
  PROVE  Viewed /\ [Next]_vars => Viewed'
<1> SUFFICES ASSUME Viewed, [Next]_vars PROVE Viewed'
  OBVIOUS
<1>1. Typed' /\ \A b, s : QueueId(b, s)' = QueueId(b, s)
  BY NextTyped, ConfigUnchanged, ConfigKept DEF Viewed
<1>2. ViewedNext
  <2>1. CASE Arrive \/ UNCHANGED vars
    <3>1. UNCHANGED <<dev, commandQueues, effectiveRow, activateQueued>>
      BY <2>1 DEF Arrive, Enqueue, vars, view, issue
    <3> QED BY <3>1, RestViewed
  <2> QED BY <2>1, CycleViewed, CallbackViewed, RestViewed DEF Next, Handle
<1>3. OnlyRefreshes(commandQueues') /\ Queues' = Queues
  BY <1>2, ConfigUnchanged, ConfigKept DEF ViewedNext, Viewed
<1>4. OnlyRefreshes(commandQueues)'
  BY <1>3 DEF OnlyRefreshes
<1>5. Sound(dev)' /\ Flagged(effectiveRow, activateQueued)'
  BY <1>2 DEF ViewedNext, Flagged
<1>6. Follows(commandQueues, dev, effectiveRow)'
  BY <1>1, <1>2 DEF ViewedNext, Follows
<1> QED BY <1>1, <1>4, <1>5, <1>6 DEF Viewed

\* The view is right throughout.
LEMMA ViewAlways ==
  ASSUME Counting, SharedQueues
  PROVE  Spec => []ViewAgrees
<1>1. Init => Viewed
  <2> SUFFICES ASSUME Init PROVE Viewed
    OBVIOUS
  <2>1. /\ dev = InitDevice /\ config \in Configurations
        /\ \A q \in Queues : commandQueues[q] = <<>>
        /\ \A b \in Banks : ~activateQueued[b] /\ \A s \in SubArrays : effectiveRow[b][s] = NoRow
    BY DEF Init
  <2>2. Follows(commandQueues, dev, effectiveRow)
    <3>1. \A i : i \notin 1..Len(<<>>)
      BY SMT
    <3>2. ASSUME NEW b \in Banks, NEW s \in SubArrays
          PROVE  commandQueues[QueueId(b, s)] = <<>> /\ RowOf(dev, b, s) = effectiveRow[b][s]
      BY <2>1, RankRows, QueueIds
    <3> QED BY <3>1, <3>2 DEF Follows, Leaves
  <2>3. OnlyRefreshes(commandQueues)
    BY <2>1, SMT DEF OnlyRefreshes
  <2> QED BY <2>1, <2>2, <2>3, RankRows, InitTyped DEF Viewed, Flagged
<1>2. Viewed => ViewAgrees
  <2> SUFFICES ASSUME Viewed, NEW b \in Banks, NEW s \in SubArrays PROVE effectiveRow[b][s] = RowAfter(b, s)
    BY DEF ViewAgrees, Viewed, Flagged
  <2> DEFINE q == QueueId(b, s)
             queue == commandQueues[q]
  <2>1. /\ q \in Queues /\ queue \in Seq(CommandRecords)
        /\ Leaves(queue, dev, b, s, effectiveRow[b][s])
    BY TypedFacts, QueueIds DEF Viewed, Follows, QueueFunctions
  <2>2. RowCommands(b, s) = {i \in 1..Len(queue) : TouchesAt(queue, i, b, s)}
    BY DEF RowCommands, Unissued, TouchesAt, Touches
  <2> DEFINE T == RowCommands(b, s)
  <2>3. RowAfter(b, s) = IF T = {} THEN RowOf(dev, b, s) ELSE LeftBy(queue[Max(T)])
    BY DEF RowAfter, RowOf, LeftBy
  <2> HIDE DEF q, queue, T
  <2>4. Len(queue) \in Nat
    BY <2>1, SMT
  <2>5. CASE T = {}
    BY <2>1, <2>2, <2>3, <2>5 DEF Leaves, T
  <2>6. CASE T # {}
    <3>1. T \in SUBSET (1..Len(queue))
      BY <2>2 DEF T
    <3>2. Max(T) \in T /\ \A i \in T : i <= Max(T)
      BY <2>4, <2>6, <3>1, GreatestNatural
    <3>3. PICK i \in 1..Len(queue) :
            /\ TouchesAt(queue, i, b, s) /\ LeftBy(queue[i]) = effectiveRow[b][s]
            /\ \A j \in 1..Len(queue) : TouchesAt(queue, j, b, s) => j <= i
      BY <2>1, <2>2, <2>6 DEF Leaves, T
    <3>4. i \in T /\ \A j \in T : j <= i
      BY <2>2, <3>3 DEF T
    <3>5. i = Max(T)
      <4> DEFINE m == Max(T)
      <4>1. m \in 1..Len(queue) /\ m \in T
        BY <3>1, <3>2
      <4>2. i <= m /\ m <= i
        BY <3>2, <3>4, <4>1
      <4> HIDE DEF m
      <4> QED BY <2>4, <4>1, <4>2, SMTT(30) DEF m
    <3> QED BY <2>3, <2>6, <3>3, <3>5
  <2> QED BY <2>5, <2>6
<1> QED BY <1>1, <1>2, NextViewed, PTL DEF Spec

-----------------------------------------------------------------------------
\* Counting, from the library's theorems on finite sets

F == INSTANCE FiniteSetTheorems

\* The library's sizes and finite sets are those of the model.
LEMMA SameSizes ==
  ASSUME NEW S
  PROVE  F!Cardinality(S) = Cardinality(S) /\ (F!IsFiniteSet(S) <=> IsFiniteSet(S))
<1>1. F!Cardinality(S) = Cardinality(S)
  BY SMT DEF F!Cardinality, Cardinality
<1>2. F!IsFiniteSet(S) <=> IsFiniteSet(S)
  BY SMT DEF F!IsFiniteSet, IsFiniteSet
<1> QED BY <1>1, <1>2

\* A set of natural numbers has a least element.
LEMMA LeastExists ==
  ASSUME NEW S \in SUBSET Nat, S # {}
  PROVE  \E m \in S : \A n \in S : m <= n
<1>1. PICK m \in S : \A n \in S : ~(<<n, m>> \in F!OpToRel(<, Nat))
  BY F!WFMin, F!NatLessThanWellFounded
<1>2. \A n \in S : <<n, m>> \in Nat \X Nat /\ <<n, m>>[1] = n /\ <<n, m>>[2] = m
  OBVIOUS
<1>3. \A n \in S : ~(n < m)
  BY <1>1, <1>2 DEF F!OpToRel
<1>4. \A n \in S : m <= n
  BY <1>3, SMT
<1> QED BY <1>4

\* An interval is finite, and how large it is.
LEMMA IntervalIsFinite ==
  ASSUME NEW a \in Int, NEW b \in Int, a <= b + 1
  PROVE  F!IsFiniteSet(a..b) /\ F!Cardinality(a..b) = b - a + 1
<1>1. F!IsFiniteSet(a..b) /\ F!Cardinality(a..b) = IF a > b THEN 0 ELSE b - a + 1
  BY F!FS_Interval
<1> QED BY <1>1, SMT

\* A set that an interval numbers is as large as the interval.
LEMMA NumberedByInterval ==
  ASSUME NEW a \in Int, NEW b \in Int, a <= b + 1, NEW T, NEW f \in [a..b -> T],
         \A i, j \in a..b : f[i] = f[j] => i = j,
         \A x \in T : \E i \in a..b : f[i] = x
  PROVE  Cardinality(T) = b - a + 1
<1>1. f \in F!Bijection(a..b, T)
  BY DEF F!Bijection, F!Injection, F!IsInjective, F!Surjection
<1>2. F!ExistsBijection(a..b, T)
  BY <1>1 DEF F!ExistsBijection
<1>3. F!Cardinality(T) = F!Cardinality(a..b)
  BY <1>2, IntervalIsFinite, F!FS_Bijection
<1> QED BY <1>3, IntervalIsFinite, SameSizes

\* The positions of a set of them are numbered from one on, in their order.
LEMMA PositionsAreNumbered ==
  ASSUME NEW n \in Nat, NEW P \in SUBSET (1..n)
  PROVE  Numbered(P)
<1>1. F!IsFiniteSet(P) /\ Cardinality(P) \in Nat
  <2>1. 1 \in Int /\ n \in Int /\ 1 <= n + 1
    BY PositionOrder
  <2>2. F!IsFiniteSet(1..n)
    BY <2>1, IntervalIsFinite
  <2> QED BY <2>2, F!FS_Subset, F!FS_CardinalityType, SameSizes
<1>2. ASSUME NEW i \in P PROVE UpTo(P, i) \in 1..Cardinality(P)
  <2> DEFINE A == {j \in P : j <= i}
  <2>1. A \in SUBSET P /\ i \in A
    <3>1. i <= i
      BY PositionOrder
    <3> QED BY <3>1
  <2>2. UpTo(P, i) = Cardinality(A)
    BY DEF UpTo
  <2> HIDE DEF A
  <2>3. F!IsFiniteSet(A) /\ Cardinality(A) <= Cardinality(P)
    BY <1>1, <2>1, F!FS_Subset, SameSizes
  <2>4. Cardinality(A) \in Nat /\ Cardinality(A) # 0
    BY <2>1, <2>3, F!FS_CardinalityType, F!FS_EmptySet, SameSizes
  <2> QED BY <1>1, <2>2, <2>3, <2>4, PositionOrder
<1>3. ASSUME NEW i \in P, NEW j \in P, i < j PROVE UpTo(P, i) < UpTo(P, j)
  <2> DEFINE A == {k \in P : k <= i}
             B == {k \in P : k <= j}
  <2>1. A \in SUBSET B /\ B \in SUBSET P /\ j \in B /\ j \notin A
    <3>1. (\A k \in P : k <= i => k <= j) /\ j <= j /\ ~(j <= i)
      BY <1>3, PositionOrder
    <3> QED BY <3>1
  <2>2. UpTo(P, i) = Cardinality(A) /\ UpTo(P, j) = Cardinality(B)
    BY DEF UpTo
  <2> HIDE DEF A, B
  <2>3. F!IsFiniteSet(B)
    BY <1>1, <2>1, F!FS_Subset
  <2>4. Cardinality(A) <= Cardinality(B) /\ Cardinality(A) # Cardinality(B)
    <3>1. /\ F!Cardinality(A) <= F!Cardinality(B)
          /\ F!Cardinality(B) = F!Cardinality(A) => B = A
      BY <2>1, <2>3, F!FS_Subset
    <3>2. F!Cardinality(A) = Cardinality(A) /\ F!Cardinality(B) = Cardinality(B)
      BY SameSizes
    <3> QED BY <2>1, <3>1, <3>2
  <2>5. UpTo(P, i) \in Nat /\ UpTo(P, j) \in Nat
    BY <1>1, <1>2, PositionOrder
  <2> QED BY <2>2, <2>4, <2>5, PositionOrder
<1>4. ASSUME NEW k \in 1..Cardinality(P) PROVE \E i \in P : UpTo(P, i) = k
  <2> DEFINE f == [i \in P |-> UpTo(P, i)]
             N == 1..Cardinality(P)
  <2>1. f \in [P -> N]
    BY <1>2
  <2>2. ASSUME NEW i \in P, NEW j \in P, f[i] = f[j] PROVE i = j
    <3>1. UpTo(P, i) \in Nat /\ UpTo(P, j) \in Nat /\ (i < j \/ j < i \/ i = j)
      BY <1>1, <1>2, PositionOrder
    <3>2. UpTo(P, i) = UpTo(P, j)
      BY <2>2
    <3> QED BY <1>3, <3>1, <3>2, PositionOrder
  <2>3. f \in F!Injection(P, N)
    BY <2>1, <2>2 DEF F!Injection, F!IsInjective
  <2>4. 1 \in Int /\ Cardinality(P) \in Int /\ 1 <= Cardinality(P) + 1 /\ Cardinality(P) - 1 + 1 = Cardinality(P)
    BY <1>1, PositionOrder
  <2>5. F!IsFiniteSet(N) /\ F!Cardinality(N) = F!Cardinality(P)
    BY <2>4, IntervalIsFinite, SameSizes
  <2> HIDE DEF N
  <2>6. f \in F!Surjection(P, N)
    BY <2>3, <2>5, F!FS_Injection
  <2> QED BY <2>6 DEF F!Surjection, N
<1> QED BY <1>1, <1>2, <1>3, <1>4 DEF Numbered

\* The hypothesis of the lemmas holds.
LEMMA CountingHolds == Counting
BY LeastExists, NumberedByInterval, PositionsAreNumbered DEF Counting

-----------------------------------------------------------------------------
\* What the controller promises

\* The state has its types, for every number of banks, subarrays and requests: TypeOK, which
\* bounds the transaction queue, the queue position and the starvation counters as the code's
\* arrays and comparisons need it.
THEOREM TypeCorrect == Spec => []TypeOK
BY CountingHolds, TypedAlways, PTL DEF Typed

\* No refresh is owed between the handlers: the pulse that reaches the threshold of its group
\* makes HandleRefresh take that very group, wherever nextRefreshBank stands.
THEOREM NothingIsOwed == Spec => []NothingOwed
BY CountingHolds, TypedAlways, PTL DEF Typed

\* The banks kept for a refresh are those a queued REFRESH is for, one for each group, and their
\* rows are closed in the controller's view (ResetRefreshQueued's assertion), in every behaviour
\* in which the pulse of a group finds the last refresh of the group issued.  Without that
\* HandleRefresh queues a second REFRESH behind the first, and the first to go clears the flags.
THEOREM RefreshesAgree == Spec /\ []RefreshInTime => []RefreshAgrees
BY CountingHolds, RefreshedAlways, PTL

\* A request object is in one place at a time, for every number of requests, banks and queues,
\* every queue model and page policy: it waits in the transaction queue once, or a queued column
\* command carries it, or it is on its way through the banks.
THEOREM RequestsAreInOnePlace == Spec => []InOnePlace
BY CountingHolds, OnePlaceAlways, PTL

\* No request is dropped: it leaves the controller only with the response that completes it.  In
\* particular FRFCFS::Cycle never takes a transaction that IssueMemoryCommands then refuses.
THEOREM NoRequestIsDropped == Spec => NoneDropped
BY CountingHolds, NeverDropped, PTL

\* The controller's view of the banks agrees with them, for every number of banks and requests and
\* all timings, while the rank has the row that the queued commands leave open (effectiveRow and
\* activateQueued against SubArray's state): IssueMemoryCommands can decide between hit, miss and
\* closed bank without asking the banks.  It needs that the banks are not refreshed, that they have
\* one subarray, or that their subarrays share a command queue: the PRECHARGE_ALL of a refresh is
\* for all the subarrays of a bank and goes to the queue of the first.
THEOREM ViewIsRight ==
  ASSUME SharedQueues
  PROVE  Spec => []ViewAgrees
BY CountingHolds, ViewAlways, PTL
=============================================================================
