----------------------- MODULE MemoryControllerSteps ------------------------
(***************************************************************************)
(* What every step of the memory controller does to the rank, the queues   *)
(* and the view, operator by operator, and that it keeps the types and owes *)
(* no refresh.  Everything holds for all banks, queues and timings.        *)
(***************************************************************************)
EXTENDS MemoryController, RankProofs

\* Zenon proves a leaf that names no other prover.
USE ZenonT(30)

-----------------------------------------------------------------------------
\* Least and greatest elements, and the elements at some positions of a sequence

\* How many positions of S are not after i.
UpTo(S, i) == Cardinality({j \in S : j <= i})

\* The positions of S are numbered from one on, in their order.
Numbered(S) ==
  /\ Cardinality(S) \in Nat
  /\ \A i \in S : UpTo(S, i) \in 1..Cardinality(S)
  /\ \A i, j \in S : i < j => UpTo(S, i) < UpTo(S, j)
  /\ \A k \in 1..Cardinality(S) : \E i \in S : UpTo(S, i) = k

\* What the proofs use of natural numbers and finite sets: a set of numbers has a least one, a
\* set whose elements an interval numbers is as large as it, and positions can be numbered.
\* MemoryControllerProofs shows that it holds; until then it is a hypothesis.
Counting ==
  /\ \A S \in SUBSET Nat : S # {} => \E m \in S : \A n \in S : m <= n
  /\ \A a, b \in Int : \A T : \A f \in [a..b -> T] :
       /\ a <= b + 1
       /\ \A i, j \in a..b : f[i] = f[j] => i = j
       /\ \A x \in T : \E i \in a..b : f[i] = x
       => Cardinality(T) = b - a + 1
  /\ \A n \in Nat : \A S \in SUBSET (1..n) : Numbered(S)

\* A set of natural numbers that is not empty has a least element.
LEMMA LeastNatural ==
  ASSUME Counting, NEW S \in SUBSET Nat, S # {}
  PROVE  Min(S) \in S /\ \A n \in S : Min(S) <= n
<1>1. \E m \in S : \A n \in S : m <= n
  BY DEF Counting
<1> QED BY <1>1 DEF Min

\* So has a bounded one a greatest.
LEMMA GreatestNatural ==
  ASSUME Counting, NEW n \in Nat, NEW S \in SUBSET (1..n), S # {}
  PROVE  Max(S) \in S /\ \A i \in S : i <= Max(S)
<1> DEFINE T == {n - i : i \in S}
<1>1. T \in SUBSET Nat /\ T # {}
  <2>1. \A i \in S : i \in Nat /\ i <= n /\ n - i \in Nat
    BY SMT
  <2> QED BY <2>1
<1>2. PICK i \in S : n - i = Min(T)
  BY <1>1, LeastNatural
<1>3. \A j \in S : j <= i
  BY <1>1, <1>2, LeastNatural, SMT
<1>4. \A j \in S : i >= j
  BY <1>3
<1>5. Max(S) \in S /\ \A j \in S : Max(S) >= j
  BY <1>4 DEF Max
<1> QED BY <1>5

\* A set whose elements are numbered by an interval is as large as the interval.
LEMMA NumberedSize ==
  ASSUME Counting, NEW a \in Int, NEW b \in Int, a <= b + 1, NEW T, NEW f \in [a..b -> T],
         \A i, j \in a..b : f[i] = f[j] => i = j,
         \A x \in T : \E i \in a..b : f[i] = x
  PROVE  Cardinality(T) = b - a + 1
BY DEF Counting

\* The size of an interval.
LEMMA IntervalSize ==
  ASSUME Counting, NEW a \in Int, NEW b \in Int, a <= b + 1
  PROVE  Cardinality(a..b) = b - a + 1
<1> DEFINE f == [i \in a..b |-> i]
<1>1. /\ f \in [a..b -> a..b] /\ \A i, j \in a..b : f[i] = f[j] => i = j
      /\ \A x \in a..b : \E i \in a..b : f[i] = x
  OBVIOUS
<1> HIDE DEF f
<1> QED BY <1>1, NumberedSize

\* The sizes of no and of one element.
LEMMA SmallSizes ==
  ASSUME Counting
  PROVE  Cardinality({}) = 0 /\ \A x : Cardinality({x}) = 1
<1>1. Cardinality({}) = 0
  <2>1. 1..0 = {} /\ 1 \in Int /\ 0 \in Int /\ 1 <= 0 + 1 /\ 0 - 1 + 1 = 0
    BY SMT
  <2> QED BY <2>1, IntervalSize
<1>2. ASSUME NEW x PROVE Cardinality({x}) = 1
  <2> DEFINE f == [i \in 1..1 |-> x]
  <2>1. 1 \in 1..1 /\ (\A i \in 1..1 : i = 1) /\ 1 \in Int /\ 1 <= 1 + 1 /\ 1 - 1 + 1 = 1
    BY SMT
  <2>2. /\ f \in [1..1 -> {x}] /\ \A i, j \in 1..1 : f[i] = f[j] => i = j
        /\ \A y \in {x} : \E i \in 1..1 : f[i] = y
    BY <2>1
  <2> HIDE DEF f
  <2>3. Cardinality({x}) = 1 - 1 + 1
    BY <2>1, <2>2, NumberedSize
  <2> QED BY <2>1, <2>3
<1> QED BY <1>1, <1>2

\* Select takes the elements at the positions of S, each to its number.
LEMMA SelectElements ==
  ASSUME Counting, NEW T, NEW s \in Seq(T), NEW S \in SUBSET (1..Len(s))
  PROVE  /\ Cardinality(S) \in Nat
         /\ Select(s, S) \in Seq(T) /\ Len(Select(s, S)) = Cardinality(S)
         /\ \A i \in S : UpTo(S, i) \in 1..Cardinality(S) /\ Select(s, S)[UpTo(S, i)] = s[i]
         /\ \A k \in 1..Cardinality(S) : \E i \in S : UpTo(S, i) = k
         /\ \A i, j \in S : i < j => UpTo(S, i) < UpTo(S, j)
<1> DEFINE n == Cardinality(S)
           At2(k) == CHOOSE i \in S : UpTo(S, i) = k
<1>0. Len(s) \in Nat /\ \A i \in 1..Len(s) : s[i] \in T
  BY SMT
<1>1. /\ n \in Nat
      /\ \A i \in S : UpTo(S, i) \in 1..n
      /\ \A i, j \in S : i < j => UpTo(S, i) < UpTo(S, j)
      /\ \A k \in 1..n : \E i \in S : UpTo(S, i) = k
  BY <1>0 DEF Counting, Numbered
<1>2. Select(s, S) = [k \in 1..n |-> s[At2(k)]]
  BY DEF Select, UpTo
<1>3. \A k \in 1..n : At2(k) \in S /\ UpTo(S, At2(k)) = k
  BY <1>1
<1>4. \A k \in 1..n : s[At2(k)] \in T
  BY <1>0, <1>3
<1>5. Select(s, S) \in Seq(T) /\ Len(Select(s, S)) = n
  <2> HIDE DEF n, At2
  <2>1. Select(s, S) \in [1..n -> T]
    BY <1>2, <1>4
  <2> QED BY <1>1, <2>1, SMT
<1>6. ASSUME NEW i \in S PROVE Select(s, S)[UpTo(S, i)] = s[i]
  <2> HIDE DEF n, At2
  <2>1. UpTo(S, i) \in 1..n
    BY <1>1
  <2>2. PICK m \in S : m = At2(UpTo(S, i)) /\ UpTo(S, m) = UpTo(S, i)
    BY <1>3, <2>1
  <2>3. i \in Nat /\ m \in Nat /\ UpTo(S, i) \in Nat
    BY <1>0, <1>1, <2>1, SMT
  <2>4. (i < m => UpTo(S, i) < UpTo(S, m)) /\ (m < i => UpTo(S, m) < UpTo(S, i))
    BY <1>1
  <2>5. m = i
    BY <2>2, <2>3, <2>4, SMT
  <2> QED BY <1>2, <2>1, <2>2, <2>5
<1> QED BY <1>1, <1>5, <1>6

\* With the first element left out, or not, the rest stays as it is.
LEMMA SelectSuffix ==
  ASSUME Counting, NEW T, NEW s \in Seq(T)
  PROVE  /\ Select(s, 1..Len(s)) = s
         /\ s # <<>> => Select(s, 2..Len(s)) = Tail(s)
\* Sequences are equal when their elements are.
<1>SeqEqual.
    ASSUME NEW S, NEW u \in Seq(S), NEW v \in Seq(S), Len(u) = Len(v), \A i \in 1..Len(u) : u[i] = v[i]
    PROVE  u = v
  BY <1>SeqEqual, SMT 

<1>0. Len(s) \in Nat
  BY SMT
<1>1. Select(s, 1..Len(s)) = s
  <2> DEFINE S == 1..Len(s)
  <2>1. \A i \in S : UpTo(S, i) = i
    <3> SUFFICES ASSUME NEW i \in S PROVE UpTo(S, i) = i
      OBVIOUS
    <3>1. {j \in S : j <= i} = 1..i
      BY <1>0, SMT
    <3>2. Cardinality(1..i) = i
      BY IntervalSize, SMT
    <3> QED BY <3>1, <3>2 DEF UpTo
  <2>2. Cardinality(S) = Len(s)
    BY <1>0, IntervalSize, SMT
  <2>3. /\ Select(s, S) \in Seq(T) /\ Len(Select(s, S)) = Len(s)
        /\ \A i \in S : Select(s, S)[i] = s[i]
    BY <2>1, <2>2, SelectElements
  <2> QED BY <2>3, <1>SeqEqual
<1>2. ASSUME s # <<>> PROVE Select(s, 2..Len(s)) = Tail(s)
  <2> DEFINE S == 2..Len(s)
  <2>1. \A i \in S : UpTo(S, i) = i - 1
    <3> SUFFICES ASSUME NEW i \in S PROVE UpTo(S, i) = i - 1
      OBVIOUS
    <3>1. {j \in S : j <= i} = 2..i
      BY <1>0, SMT
    <3>2. Cardinality(2..i) = i - 1
      BY IntervalSize, SMT
    <3> QED BY <3>1, <3>2 DEF UpTo
  <2>2. Cardinality(S) = Len(s) - 1 /\ Len(s) >= 1
    BY <1>0, <1>2, IntervalSize, SMT
  <2>a. S \in SUBSET (1..Len(s))
    BY <1>0, SMT
  <2>3. /\ Select(s, S) \in Seq(T) /\ Len(Select(s, S)) = Len(s) - 1
        /\ \A i \in S : Select(s, S)[i - 1] = s[i]
    <3> HIDE DEF S
    <3>1. /\ Select(s, S) \in Seq(T) /\ Len(Select(s, S)) = Cardinality(S)
          /\ \A i \in S : Select(s, S)[UpTo(S, i)] = s[i]
      BY <2>a, SelectElements
    <3> QED BY <2>1, <2>2, <3>1
  <2>4. Tail(s) \in Seq(T) /\ Len(Tail(s)) = Len(s) - 1
    BY <1>2, SMT
  <2>5. \A k \in 1..Len(s) - 1 : Select(s, S)[k] = Tail(s)[k]
    <3> SUFFICES ASSUME NEW k \in 1..Len(s) - 1 PROVE Select(s, S)[k] = Tail(s)[k]
      OBVIOUS
    <3>1. k + 1 \in S /\ (k + 1) - 1 = k /\ Tail(s)[k] = s[k + 1]
      BY <1>0, <1>2, SMT
    <3> QED BY <2>3, <3>1
  <2> QED BY <2>3, <2>4, <2>5, <1>SeqEqual
<1> QED BY <1>1, <1>2

-----------------------------------------------------------------------------
\* Queues and bank groups

\* Every bank and subarray has its queue; with one queue for a bank or for the rank, a bank's
\* subarrays share it.
LEMMA QueueIds ==
  ASSUME config \in Configurations
  PROVE  /\ QueueCount \in Nat \ {0}
         /\ \A b \in Banks, s \in SubArrays : QueueId(b, s) \in Queues
         /\ config.queueModel # "PerSubArray" => \A b, s, u : QueueId(b, s) = QueueId(b, u)
<1>1. /\ config.queueModel \in {"PerRank", "PerBank", "PerSubArray"}
      /\ BANKS \in Nat /\ BANKS >= 1 /\ SubArrayNum \in Nat /\ SubArrayNum >= 1
  BY ControllerAssumption, Constants, SMT
<1>2. CASE config.queueModel = "PerRank"
  BY <1>1, <1>2, SMT DEF QueueCount, QueueId, Queues
<1>3. CASE config.queueModel = "PerBank"
  BY <1>1, <1>3, SMT DEF QueueCount, QueueId, Queues, Banks
<1>4. CASE config.queueModel = "PerSubArray"
  <2>1. QueueCount = BANKS * SubArrayNum /\ BANKS * SubArrayNum \in Nat \ {0}
    BY <1>1, <1>4, SMT DEF QueueCount
  <2>2. ASSUME NEW b \in Banks, NEW s \in SubArrays PROVE QueueId(b, s) \in Queues
    <3>1. b \in Nat /\ b + 1 <= BANKS /\ s \in Nat /\ s <= SubArrayNum - 1
      BY <1>1, SMT DEF Banks, SubArrays
    <3>2. b * SubArrayNum \in Nat /\ (b + 1) * SubArrayNum <= BANKS * SubArrayNum
      BY <1>1, <3>1, SMT
    <3>3. (b + 1) * SubArrayNum = b * SubArrayNum + SubArrayNum
      BY <1>1, <3>1, SMT
    <3>4. b * SubArrayNum + s \in 0..BANKS * SubArrayNum - 1
      BY <1>1, <2>1, <3>1, <3>2, <3>3, SMTT(30)
    <3> QED BY <1>4, <2>1, <3>4 DEF QueueId, Queues
  <2> QED BY <1>4, <2>1, <2>2
<1> QED BY <1>1, <1>2, <1>3, <1>4

\* Multiplying by a positive number keeps the order and can be undone.
LEMMA Multiples ==
  ASSUME NEW k \in Nat \ {0}, NEW x \in Nat, NEW y \in Nat
  PROVE  /\ x * k \in Nat /\ (x + y) * k = x * k + y * k
         /\ x < y => x * k + k <= y * k
         /\ x * k < y * k => x < y
         /\ x * k = y * k => x = y
<1>1. x * k \in Nat /\ y * k \in Nat /\ (x + y) * k = x * k + y * k
  BY SMTT(30)
<1>2. \A m, n \in Nat : m < n => m * k + k <= n * k
  <2> SUFFICES ASSUME NEW m \in Nat, NEW n \in Nat, m < n PROVE m * k + k <= n * k
    OBVIOUS
  <2>1. PICK d \in Nat : n = m + 1 + d
    <3>1. n - m - 1 \in Nat /\ n = m + 1 + (n - m - 1)
      BY SMT
    <3> QED BY <3>1
  <2>2. (m + 1 + d) * k = m * k + k + d * k /\ d * k \in Nat /\ m * k \in Nat
    BY <2>1, SMTT(30)
  <2> QED BY <2>1, <2>2, SMT
<1> QED BY <1>1, <1>2, SMT

\* The number of bank groups.
Groups == BANKS \div BanksPerRefresh

\* The banks are a whole number of refresh groups.
LEMMA GroupCount == Groups \in Nat \ {0} /\ BANKS = Groups * BanksPerRefresh
<1>1. BANKS \in Nat \ {0} /\ BanksPerRefresh \in Nat \ {0} /\ BANKS % BanksPerRefresh = 0
  BY Constants, RankAssumption
<1>2. Groups \in Nat /\ BANKS = Groups * BanksPerRefresh
  BY <1>1, SMTT(30) DEF Groups
<1> QED BY <1>1, <1>2, SMTT(30)

\* The banks of the group at a head are those from the head on.
LEMMA GroupMembers ==
  ASSUME NEW g \in 0..Groups - 1
  PROVE  /\ g * BanksPerRefresh \in Banks
         /\ Group(g * BanksPerRefresh)
              = g * BanksPerRefresh..g * BanksPerRefresh + BanksPerRefresh - 1
<1> DEFINE k == BanksPerRefresh
           h == g * k
<1>1. k \in Nat \ {0} /\ g \in Nat /\ h \in Nat /\ BANKS \in Nat /\ BANKS = Groups * k
  BY Constants, GroupCount, Multiples, SMTT(30)
<1>2. h + k <= BANKS
  BY <1>1, GroupCount, Multiples, SMTT(30)
<1>3. \A b \in Nat : b \div k = g <=> b \in h..h + k - 1
  BY <1>1, SMTT(30)
<1>4. h \div k = g
  BY <1>1, <1>3, SMTT(30)
<1>5. \A b : b \in Banks /\ b \div k = g <=> b \in h..h + k - 1
  BY <1>1, <1>2, <1>3, SMTT(30) DEF Banks
<1> QED BY <1>1, <1>2, <1>4, <1>5, SMTT(30) DEF Group, Banks

\* The heads are the multiples of BanksPerRefresh.
LEMMA HeadMultiples ==
  ASSUME Counting
  PROVE  /\ \A h \in Heads : h \in Banks /\ \E g \in 0..Groups - 1 : h = g * BanksPerRefresh
         /\ UseRefresh => \A g \in 0..Groups - 1 : g * BanksPerRefresh \in Heads
         /\ UseRefresh => Cardinality(Heads) = Groups
         /\ ~UseRefresh => Heads = {}
<1> DEFINE k == BanksPerRefresh
<1>1. k \in Nat \ {0} /\ BANKS \in Nat /\ Groups \in Nat \ {0} /\ BANKS = Groups * k
  BY Constants, GroupCount
<1>2. ASSUME NEW b \in Banks, b % k = 0 PROVE \E g \in 0..Groups - 1 : b = g * k
  <2>1. b \in Nat /\ b < BANKS
    BY <1>1, SMT DEF Banks
  <2>2. b \div k \in Nat /\ b = (b \div k) * k
    BY <1>1, <1>2, <2>1, SMTT(30)
  <2>3. b \div k < Groups
    BY <1>1, <2>1, <2>2, Multiples, SMTT(30)
  <2>4. b \div k \in 0..Groups - 1
    BY <1>1, <2>2, <2>3, SMTT(30)
  <2> QED BY <2>2, <2>4
<1>3. ASSUME NEW g \in 0..Groups - 1 PROVE (g * k) % k = 0 /\ g * k \in Banks
  <2>1. g \in Nat
    BY SMT
  <2>2. (g * k) % k = 0
    BY <1>1, <2>1, SMTT(30)
  <2> QED BY <2>2, GroupMembers
<1>4. ASSUME UseRefresh PROVE Cardinality(Heads) = Groups
  <2> DEFINE f == [g \in 0..Groups - 1 |-> g * k]
  <2>1. f \in [0..Groups - 1 -> Heads]
    BY <1>3, <1>4 DEF Heads
  <2>2. \A g, j \in 0..Groups - 1 : f[g] = f[j] => g = j
    BY <1>1, Multiples, SMT
  <2>3. \A b \in Heads : \E g \in 0..Groups - 1 : f[g] = b
    BY <1>2, <1>4 DEF Heads
  <2>4. 0 \in Int /\ Groups - 1 \in Int /\ 0 <= (Groups - 1) + 1 /\ (Groups - 1) - 0 + 1 = Groups
    BY <1>1, SMT
  <2> HIDE DEF f
  <2> QED BY <2>1, <2>2, <2>3, <2>4, NumberedSize
<1> QED BY <1>2, <1>3, <1>4 DEF Heads

-----------------------------------------------------------------------------
\* The inductive invariant

TransactionRecords ==
  [op : {"READ", "WRITE"}, bank : Banks, sub : SubArrays, row : Nat, id : Requests, fresh : BOOLEAN]

QueueFunctions == [Queues -> Seq(CommandRecords)]

\* What a command queue holds belongs there.
Sorted(queues) ==
  \A q \in Queues : \A i \in 1..Len(queues[q]) : QueueId(queues[q][i].bank, queues[q][i].sub) = q

\* Only the first command of a queue can be an issued one ...
IssuedFirst(queues) ==
  \A q \in Queues : \A i \in 1..Len(queues[q]) : queues[q][i].issued => i = 1

\* ... and once the cleanup has run there is none.
NoneIssued(queues) ==
  \A q \in Queues : \A i \in 1..Len(queues[q]) : ~queues[q][i].issued

Typed ==
  /\ TypeOK /\ NothingOwed
  /\ dev \in Devices
  /\ Sorted(commandQueues) /\ IssuedFirst(commandQueues)
  /\ NoneIssued(commandQueues) \/ lastIssue \/ 0 \in cleanups
  /\ lastIssue => 1 \in cleanups
  /\ \E g \in 0..Groups - 1 : nextRefreshBank = g * BanksPerRefresh

\* The fields of the commands made of a transaction.
LEMMA CommandFields ==
  ASSUME NEW t \in TransactionRecords, NEW last \in BOOLEAN
  PROVE  LET act == Command("ACTIVATE", t)
             col == Column(t, last)
             pre == CloseFor(t)
         IN /\ act \in CommandRecords /\ act.type = "ACTIVATE" /\ act.bank = t.bank
            /\ act.sub = t.sub /\ act.row = t.row /\ act.id = t.id /\ ~act.issued
            /\ col \in CommandRecords /\ col.type \in Reads \cup Writes /\ col.bank = t.bank
            /\ col.sub = t.sub /\ col.id = t.id /\ ~col.issued
            /\ col.type \in {"READ_PRECHARGE", "WRITE_PRECHARGE"} <=> last
            /\ pre.type = "PRECHARGE" /\ pre.bank = t.bank
            /\ pre.sub = t.sub /\ pre.id = 0 /\ ~pre.issued
            /\ effectiveRow[t.bank][t.sub] \in Nat => pre \in CommandRecords
<1>1. /\ t.op \in {"READ", "WRITE"} /\ t.bank \in Banks /\ t.sub \in SubArrays /\ t.row \in Nat
      /\ t.id \in Requests
  BY DEF TransactionRecords
<1> QED BY <1>1
    DEF Command, Column, CloseFor, BankCommand, CommandRecords, CommandTypes, Reads, Writes, Precharges

\* The commands IssueMemoryCommands makes of a transaction.
LEMMA CommandsCases ==
  ASSUME NEW t \in TransactionRecords, NEW last \in BOOLEAN, activateQueued \in [Banks -> BOOLEAN],
         effectiveRow \in [Banks -> [SubArrays -> Nat \cup {NoRow}]]
  PROVE  LET row == effectiveRow[t.bank][t.sub]
             act == Command("ACTIVATE", t)
         IN \/ ~IsHit(t) /\ ~IsMiss(t) /\ Commands(t, last) = <<act, Column(t, last)>>
            \/ IsMiss(t) /\ ~IsHit(t) /\ row = NoRow /\ Commands(t, last) = <<act, Column(t, FALSE)>>
            \/ /\ IsMiss(t) /\ ~IsHit(t) /\ row \in Nat
               /\ Commands(t, last) = <<CloseFor(t), act, Column(t, FALSE)>>
            \/ IsHit(t) /\ ~IsMiss(t) /\ Commands(t, last) = <<Column(t, last)>>
<1>1. activateQueued[t.bank] \in BOOLEAN /\ effectiveRow[t.bank][t.sub] \in Nat \cup {NoRow}
  BY SMT DEF TransactionRecords
<1>2. CASE ~activateQueued[t.bank]
  BY <1>2 DEF Commands, IsHit, IsMiss
<1>3. CASE IsHit(t)
  BY <1>3 DEF Commands, IsHit, IsMiss
<1>4. CASE IsMiss(t)
  BY <1>1, <1>4 DEF Commands, IsHit, IsMiss
<1> QED BY <1>1, <1>2, <1>3, <1>4 DEF IsHit, IsMiss

\* They go to the transaction's place, and none of them is issued yet.
LEMMA CommandsType ==
  ASSUME NEW t \in TransactionRecords, NEW last \in BOOLEAN, activateQueued \in [Banks -> BOOLEAN],
         effectiveRow \in [Banks -> [SubArrays -> Nat \cup {NoRow}]]
  PROVE  /\ Commands(t, last) \in Seq(CommandRecords)
         /\ \A i \in 1..Len(Commands(t, last)) :
              LET c == Commands(t, last)[i]
              IN c.bank = t.bank /\ c.sub = t.sub /\ ~c.issued /\ c.type # "REFRESH" /\ c.type # "PRECHARGE_ALL"
<1> DEFINE Fits(c) == /\ c \in CommandRecords /\ c.bank = t.bank /\ c.sub = t.sub /\ ~c.issued
                      /\ c.type # "REFRESH" /\ c.type # "PRECHARGE_ALL"
           AllFit(s) == s \in Seq(CommandRecords) /\ \A i \in 1..Len(s) : Fits(s[i])
<1>1. /\ \A x \in BOOLEAN : Fits(Column(t, x))
      /\ Fits(Command("ACTIVATE", t))
      /\ effectiveRow[t.bank][t.sub] \in Nat => Fits(CloseFor(t))
  BY CommandFields DEF Reads, Writes
<1>2. \A a, b, c : Fits(a) /\ Fits(b) /\ Fits(c) => AllFit(<<a>>) /\ AllFit(<<a, b>>) /\ AllFit(<<a, b, c>>)
  BY SMT
<1>3. AllFit(Commands(t, last))
  <2> HIDE DEF Fits, AllFit
  <2> QED BY <1>1, <1>2, CommandsCases
<1> QED BY <1>3

-----------------------------------------------------------------------------
\* The steps, each by what it does to the queues

\* CycleCommandQueues issues the head of a queue ...
Issues(queues, q) ==
  LET c == Head(queues[q]) IN
  /\ queues[q] # <<>> /\ ~lastIssue /\ ~handledRefresh /\ IsIssuable(dev, c)
  /\ dev' = IssueCommand(dev, c)
  /\ commandQueues' = [queues EXCEPT ![q][1] = Issued(@)]
  /\ lastIssue' = TRUE
  /\ cleanups' = cleanups \cup {1}
  /\ curQueue' = MoveCurrentQueue(curQueue)
  /\ refreshQueued' = IF c.type = "REFRESH" THEN ResetRefreshQueued(c) ELSE refreshQueued

\* ... or none.
Rests(queues) == commandQueues' = queues /\ UNCHANGED issue

\* CycleCommandQueues issues the head of one queue, or it leaves the queues and the device alone.
LEMMA CycleCases ==
  ASSUME Counting, config \in Configurations, curQueue \in Nat, NEW queues, CycleCommandQueues(queues)
  PROVE  Rests(queues) \/ \E q \in Queues : Issues(queues, q)
<1>1. CASE Issuable(queues) = {}
  BY <1>1 DEF CycleCommandQueues, Rests
<1>2. CASE Issuable(queues) # {}
  <2>1. QueueCount \in Nat \ {0}
    BY QueueIds
  <2>2. Issuable(queues) \in SUBSET Nat
    BY <2>1, SMT DEF Issuable
  <2>3. Min(Issuable(queues)) \in Issuable(queues)
    BY <1>2, <2>2, LeastNatural
  <2> DEFINE i == Min(Issuable(queues))
             q == (curQueue + i) % QueueCount
  <2>4. q \in Queues
    BY <2>1, <2>2, <2>3, SMTT(30) DEF Queues
  <2>5. Issues(queues, q)
    BY <1>2, <2>3 DEF CycleCommandQueues, Issues, Issuable
  <2> QED BY <2>4, <2>5
<1> QED BY <1>1, <1>2

\* Precharges for the open banks of the group of h whose queue is q, then the refresh.
RefreshShape(new, q, h) ==
  /\ new \in Seq(CommandRecords)
  /\ \A i \in 1..Len(new) :
       /\ ~new[i].issued /\ new[i].id = 0 /\ new[i].sub = 0 /\ QueueId(new[i].bank, 0) = q
       /\ \/ new[i].type = "PRECHARGE_ALL" /\ new[i].bank \in Group(h) /\ activateQueued[new[i].bank]
          \/ new[i].type = "REFRESH" /\ new[i].bank = h /\ i = Len(new) /\ q = QueueId(h, 0)
  /\ \A b \in Group(h) : activateQueued[b] /\ QueueId(b, 0) = q =>
       \E i \in 1..Len(new) : new[i].type = "PRECHARGE_ALL" /\ new[i].bank = b
  /\ q = QueueId(h, 0) => Len(new) # 0 /\ new[Len(new)].type = "REFRESH"

\* What HandleRefresh appends to a queue.
LEMMA RefreshCommandsShape ==
  ASSUME Counting, config \in Configurations, activateQueued \in [Banks -> BOOLEAN],
         NEW h \in Heads, NEW q \in Queues
  PROVE  RefreshShape(RefreshCommands(q, h), q, h)
<1> DEFINE k == BanksPerRefresh
           all == [i \in 1..k |-> BankCommand("PRECHARGE_ALL", h + i - 1, 0)]
           open == {i \in 1..k : activateQueued[h + i - 1] /\ QueueId(h + i - 1, 0) = q}
           pre == Select(all, open)
           ref == IF q = QueueId(h, 0) THEN <<BankCommand("REFRESH", h, 0)>> ELSE <<>>
<1>1. k \in Nat /\ h \in Nat /\ h \in Banks /\ Group(h) = h..h + k - 1 /\ 0 \in SubArrays
  BY Constants, HeadMultiples, GroupMembers, SMTT(30) DEF Banks, SubArrays
<1>2. \A i \in 1..k : h + i - 1 \in Banks /\ h + i - 1 \in Group(h)
  <2>1. \A i \in 1..k : h + i - 1 \in Group(h)
    BY <1>1, SMTT(30)
  <2> QED BY <2>1 DEF Group
<1>3. ASSUME NEW b \in Banks, NEW type \in CommandTypes
      PROVE  LET c == BankCommand(type, b, 0)
             IN /\ c \in CommandRecords /\ c.type = type /\ c.bank = b /\ c.sub = 0 /\ c.id = 0
                /\ ~c.issued
  BY <1>1 DEF BankCommand, Command, CommandRecords
<1>4. "PRECHARGE_ALL" \in CommandTypes /\ "REFRESH" \in CommandTypes
  BY DEF CommandTypes, Precharges
<1>5. all \in Seq(CommandRecords) /\ Len(all) = k /\ open \in SUBSET (1..Len(all))
  BY <1>1, <1>2, <1>3, <1>4, SMTT(30)
<1>6. \A i \in 1..k : all[i] = BankCommand("PRECHARGE_ALL", h + i - 1, 0)
  OBVIOUS
<1>7. RefreshCommands(q, h) = pre \o ref
  BY DEF RefreshCommands
<1> HIDE DEF all
<1>8. /\ pre \in Seq(CommandRecords) /\ Len(pre) \in Nat
      /\ \A i \in open : \E m \in 1..Len(pre) : pre[m] = all[i]
      /\ \A m \in 1..Len(pre) : \E i \in open : pre[m] = all[i]
  <2> HIDE DEF open
  <2>1. /\ Cardinality(open) \in Nat
        /\ pre \in Seq(CommandRecords) /\ Len(pre) = Cardinality(open)
        /\ \A i \in open : UpTo(open, i) \in 1..Cardinality(open) /\ pre[UpTo(open, i)] = all[i]
        /\ \A m \in 1..Cardinality(open) : \E i \in open : UpTo(open, i) = m
    BY <1>5, SelectElements, SMTT(30)
  <2> HIDE DEF pre
  <2> QED BY <2>1
<1>9. \A i \in open : /\ all[i].type = "PRECHARGE_ALL" /\ all[i].bank = h + i - 1 /\ all[i].sub = 0
                      /\ all[i].id = 0 /\ ~all[i].issued
                      /\ h + i - 1 \in Group(h) /\ activateQueued[h + i - 1] /\ QueueId(h + i - 1, 0) = q
  BY <1>2, <1>3, <1>4, <1>6, SMTT(30)
<1>10. \A b \in Group(h) : activateQueued[b] /\ QueueId(b, 0) = q =>
         \E i \in open : all[i].type = "PRECHARGE_ALL" /\ all[i].bank = b
  <2> SUFFICES ASSUME NEW b \in Group(h), activateQueued[b], QueueId(b, 0) = q
               PROVE  \E i \in open : all[i].type = "PRECHARGE_ALL" /\ all[i].bank = b
    OBVIOUS
  <2>1. b - h + 1 \in 1..k /\ h + (b - h + 1) - 1 = b
    BY <1>1, SMT
  <2>2. b - h + 1 \in open
    BY <2>1
  <2> QED BY <1>9, <2>1, <2>2
<1>11. /\ \A m \in 1..Len(pre) :
            /\ ~pre[m].issued /\ pre[m].id = 0 /\ pre[m].sub = 0 /\ QueueId(pre[m].bank, 0) = q
            /\ pre[m].type = "PRECHARGE_ALL" /\ pre[m].bank \in Group(h) /\ activateQueued[pre[m].bank]
       /\ \A b \in Group(h) : activateQueued[b] /\ QueueId(b, 0) = q =>
            \E m \in 1..Len(pre) : pre[m].type = "PRECHARGE_ALL" /\ pre[m].bank = b
  <2> HIDE DEF pre, open
  <2>1. \A m \in 1..Len(pre) : \E i \in open : pre[m] = all[i]
    BY <1>8
  <2>2. \A i \in open : \E m \in 1..Len(pre) : pre[m] = all[i]
    BY <1>8
  <2>3. ASSUME NEW m \in 1..Len(pre)
        PROVE  /\ ~pre[m].issued /\ pre[m].id = 0 /\ pre[m].sub = 0 /\ QueueId(pre[m].bank, 0) = q
               /\ pre[m].type = "PRECHARGE_ALL" /\ pre[m].bank \in Group(h) /\ activateQueued[pre[m].bank]
    <3>1. PICK i \in open : pre[m] = all[i]
      BY <2>1
    <3> QED BY <1>9, <3>1
  <2>4. ASSUME NEW b \in Group(h), activateQueued[b], QueueId(b, 0) = q
        PROVE  \E m \in 1..Len(pre) : pre[m].type = "PRECHARGE_ALL" /\ pre[m].bank = b
    <3>1. PICK i \in open : all[i].type = "PRECHARGE_ALL" /\ all[i].bank = b
      BY <1>10, <2>4
    <3>2. PICK m \in 1..Len(pre) : pre[m] = all[i]
      BY <2>2
    <3> QED BY <3>1, <3>2
  <2> QED BY <2>3, <2>4
<1> HIDE DEF pre
<1>12. CASE q = QueueId(h, 0)
  <2> DEFINE r == BankCommand("REFRESH", h, 0)
             new == Append(pre, r)
  <2>1. r \in CommandRecords /\ r.type = "REFRESH" /\ r.bank = h /\ r.sub = 0 /\ r.id = 0 /\ ~r.issued
    BY <1>1, <1>3, <1>4
  <2> HIDE DEF r
  <2>2. RefreshCommands(q, h) = new
    BY <1>7, <1>8, <1>12, <2>1, SMTT(30) DEF r
  <2>a. new \in Seq(CommandRecords) /\ Len(new) = Len(pre) + 1 /\ new[Len(pre) + 1] = r
    BY <1>8, <2>1, SMTT(30)
  <2>b. \A i \in 1..Len(pre) : new[i] = pre[i]
    BY <1>8, <2>1, SMTT(30)
  <2>3. /\ new \in Seq(CommandRecords) /\ Len(new) = Len(pre) + 1 /\ new[Len(new)] = r
        /\ \A i \in 1..Len(pre) : i \in 1..Len(new) /\ new[i] = pre[i]
        /\ \A i \in 1..Len(new) : i = Len(new) \/ i \in 1..Len(pre)
    <3> HIDE DEF new
    <3> QED BY <1>8, <2>a, <2>b, SMTT(30)
  <2> HIDE DEF new
  <2>4. \A i \in 1..Len(new) :
          /\ ~new[i].issued /\ new[i].id = 0 /\ new[i].sub = 0 /\ QueueId(new[i].bank, 0) = q
          /\ \/ new[i].type = "PRECHARGE_ALL" /\ new[i].bank \in Group(h) /\ activateQueued[new[i].bank]
             \/ new[i].type = "REFRESH" /\ new[i].bank = h /\ i = Len(new) /\ q = QueueId(h, 0)
    BY <1>11, <1>12, <2>1, <2>3, SMTT(30)
  <2>5. \A b \in Group(h) : activateQueued[b] /\ QueueId(b, 0) = q =>
          \E i \in 1..Len(new) : new[i].type = "PRECHARGE_ALL" /\ new[i].bank = b
    BY <1>11, <2>3, SMTT(30)
  <2>6. Len(new) # 0
    BY <1>8, <2>3, SMTT(30)
  <2>7. RefreshShape(new, q, h)
    BY <2>1, <2>3, <2>4, <2>5, <2>6 DEF RefreshShape
  <2> QED BY <2>2, <2>7
<1>13. CASE q # QueueId(h, 0)
  <2>1. RefreshCommands(q, h) = pre
    BY <1>7, <1>8, <1>13, SMTT(30)
  <2>2. RefreshShape(pre, q, h)
    BY <1>8, <1>11, <1>13 DEF RefreshShape
  <2> QED BY <2>1, <2>2
<1> QED BY <1>12, <1>13

\* A cycle that schedules transaction i leaves these queues to CycleCommandQueues.
Schedules(i, queues) ==
  LET t == memQueue[i]
      last == IsLastRequest(t, Without(i))
  IN /\ queues = [commandQueues EXCEPT ![QueueId(t.bank, t.sub)] = Commands(t, last)]
     /\ memQueue' = Without(i)
     /\ UpdateView(t, last)
     /\ wakes' = wakes \cup NextWakeup(queues)

\* What a cycle does: it schedules a transaction or none, then it cycles the queues.
LEMMA CycleParts ==
  ASSUME Counting, Typed, Cycle
  PROVE  /\ UNCHANGED <<config, refresh>> /\ cycles' \in [0..1 -> Nat]
         /\ ~CleanupDue /\ ~ResponseDue
         /\ \E queues : /\ \/ queues = commandQueues /\ UNCHANGED <<memQueue, view, wakes>>
                           \/ \E i \in Ready : Schedules(i, queues)
                        /\ CycleCommandQueues(queues)
\* One of the four searches finds a transaction when one is ready.
<1>NextRequestReady.
    ASSUME memQueue \in Seq(TransactionRecords), Ready # {}
    PROVE  NextRequest \in Ready
  <2> USE <1>NextRequestReady
  <2> DEFINE found == Searches
             some == {k \in 1..4 : found[k] # {}}
  <2>1. Ready \in SUBSET Nat
    BY SMTT(30) DEF Ready
  <2>2. \A k \in 1..4 : found[k] \in SUBSET Ready
    BY SMT DEF Searches
  <2>3. PICK i \in Ready : TRUE
    OBVIOUS
  <2>4. i \in found[3] \/ i \in found[4]
    BY <2>3 DEF Searches
  <2> HIDE DEF found
  <2>5. some \in SUBSET Nat /\ some # {}
    BY <2>4, SMTT(30)
  <2>6. Min(some) \in some
    BY <2>5, LeastNatural
  <2>7. found[Min(some)] \in SUBSET Nat /\ found[Min(some)] # {}
    BY <2>1, <2>2, <2>6
  <2>8. Min(found[Min(some)]) \in found[Min(some)]
    BY <2>7, LeastNatural
  <2>9. NextRequest = Min(found[Min(some)])
    BY DEF NextRequest, found
  <2> QED BY <2>2, <2>6, <2>8, <2>9

<1>1. memQueue \in Seq(TransactionRecords) /\ cycles \in [0..1 -> Nat]
      /\ commandQueues \in QueueFunctions
  BY DEF Typed, TypeOK, TransactionRecords, QueueFunctions, CommandRecords
<1> DEFINE next == [cycles EXCEPT ![0] = @ - 1]
           Finish(queues) ==
             /\ CycleCommandQueues(queues)
             /\ cycles' = Recheck(IF Woken(queues, memQueue') THEN [next EXCEPT ![1] = @ + 1] ELSE next,
                                  commandQueues', memQueue')
<1>2. \A queues : Finish(queues) => cycles' \in [0..1 -> Nat]
  <2>1. next \in [0..1 -> Nat] /\ [next EXCEPT ![1] = @ + 1] \in [0..1 -> Nat]
    BY <1>1, SMT DEF Cycle, CycleDue
  <2>2. \A f \in [0..1 -> Nat] : \A queues, mem : Recheck(f, queues, mem) \in [0..1 -> Nat]
    BY DEF Recheck
  <2> HIDE DEF next
  <2> SUFFICES ASSUME NEW queues, Finish(queues) PROVE cycles' \in [0..1 -> Nat]
    OBVIOUS
  <2>3. CASE Woken(queues, memQueue')
    BY <2>1, <2>2, <2>3
  <2>4. CASE ~Woken(queues, memQueue')
    BY <2>1, <2>2, <2>4
  <2> QED BY <2>3, <2>4
<1>3. CASE Ready = {}
  <2>1. UNCHANGED <<memQueue, view, wakes>> /\ Finish(commandQueues)
    BY <1>3 DEF Cycle
  <2> QED BY <1>2, <2>1 DEF Cycle
<1>4. CASE Ready # {}
  <2> DEFINE i == NextRequest
             t == memQueue[i]
             last == IsLastRequest(t, Without(i))
             q == QueueId(t.bank, t.sub)
             queues == [commandQueues EXCEPT ![q] = @ \o Commands(t, last)]
  <2>1. i \in Ready /\ commandQueues[q] = <<>>
    BY <1>1, <1>4, <1>NextRequestReady DEF Ready
  <2>2. Takes(t)
    BY <2>1 DEF Takes
  <2>3. /\ memQueue' = Without(i) /\ UpdateView(t, last) /\ wakes' = wakes \cup NextWakeup(queues)
        /\ Finish(queues)
    BY <1>4, <2>2 DEF Cycle
  <2>4. <<>> \o Commands(t, last) = Commands(t, last)
    BY SMT
  <2>5. queues = [commandQueues EXCEPT ![q] = Commands(t, last)]
    BY <2>1, <2>4
  <2>6. Schedules(i, queues)
    BY <2>3, <2>5 DEF Schedules
  <2> HIDE DEF queues
  <2> QED BY <1>2, <2>1, <2>3, <2>6 DEF Cycle
<1> QED BY <1>3, <1>4

\* The pulse of a group makes a refresh of that group: it is the only one that needs any.
Refreshes(h) ==
  /\ commandQueues' = [q \in Queues |-> commandQueues[q] \o RefreshCommands(q, h)]
  /\ CloseGroup(h)
  /\ refreshQueued' = [b \in Banks |-> refreshQueued[b] \/ b \in Group(h)]
  /\ nextRefreshBank' = IF nextRefreshBank + BanksPerRefresh >= BANKS THEN 0
                        ELSE nextRefreshBank + BanksPerRefresh
  /\ handledRefresh' = TRUE
  /\ wakes' = wakes \cup NextWakeup(commandQueues')
  /\ UNCHANGED <<starvationCounter, delayedRefreshCounter>>

\* A pulse is for its own group: HandleRefresh is done for it at once, or it is only counted and stays
\* below the threshold.
LEMMA RefreshParts ==
  ASSUME Counting, Typed, NEW h \in Heads, RefreshCallback(h)
  PROVE  /\ pulse[h] = 0 /\ pulse' = [pulse EXCEPT ![h] = tREFI]
         /\ UNCHANGED <<config, memQueue, dev, curQueue, lastIssue, cleanups, cycles, bankNeedRefresh>>
         /\ \/ Refreshes(h)
            \/ /\ delayedRefreshCounter' = [delayedRefreshCounter EXCEPT ![h] = @ + 1]
               /\ delayedRefreshCounter[h] + 1 < DelayedRefreshThreshold
               /\ UNCHANGED <<commandQueues, view, refreshQueued, nextRefreshBank, handledRefresh, wakes>>
\* The remainder of a number that is less than twice the divisor.
<1>Remainder.
    ASSUME NEW a \in Nat, NEW b \in Nat \ {0}, a < b + b
    PROVE  a % b = IF a < b THEN a ELSE a - b
  BY <1>Remainder, SMTT(30)

\* From a head on, every group is met once around.
<1>GroupFound.
    ASSUME UseRefresh, NEW g \in 0..Groups - 1
    PROVE  /\ \A i \in 0..Groups - 1 :
                (g * BanksPerRefresh + i * BanksPerRefresh) % BANKS \in Heads
           /\ \A u \in Heads : \E i \in 0..Groups - 1 :
                (g * BanksPerRefresh + i * BanksPerRefresh) % BANKS = u
  <2> USE <1>GroupFound
  <2> DEFINE k == BanksPerRefresh
             bank(i) == (g * k + i * k) % BANKS
  <2>1. k \in Nat \ {0} /\ BANKS \in Nat \ {0} /\ Groups \in Nat \ {0} /\ BANKS = Groups * k /\ g \in Nat
    BY Constants, GroupCount, SMTT(30)
  <2>2. ASSUME NEW i \in 0..Groups - 1
        PROVE  bank(i) = (IF g + i < Groups THEN g + i ELSE g + i - Groups) * k
    <3>1. i \in Nat /\ g * k \in Nat /\ i * k \in Nat /\ g * k + k <= BANKS /\ i * k + k <= BANKS
          /\ (g + i) * k = g * k + i * k
      BY <2>1, Multiples, SMTT(30)
    <3> DEFINE x == g * k + i * k
    <3>a. x \in Nat /\ x < BANKS + BANKS
      BY <2>1, <3>1, SMT
    <3>b. bank(i) = x % BANKS
      OBVIOUS
    <3> HIDE DEF x, bank
    <3>2. (x < BANKS => bank(i) = x) /\ (~(x < BANKS) => bank(i) = x - BANKS)
      BY <2>1, <3>a, <3>b, <1>Remainder
    <3>3. CASE g + i < Groups
      <4>1. (g + i) * k + k <= BANKS
        BY <2>1, <3>1, <3>3, Multiples, SMTT(30)
      <4> QED BY <2>1, <3>1, <3>2, <3>3, <4>1, SMTT(30) DEF x
    <3>4. CASE ~(g + i < Groups)
      <4>1. g + i - Groups \in Nat
        BY <2>1, <3>1, <3>4, SMTT(30)
      <4>2. PICK j \in Nat : j = g + i - Groups
        BY <4>1
      <4>3. (Groups + j) * k = Groups * k + j * k /\ j * k \in Nat
        BY <2>1, <4>2, Multiples
      <4>4. Groups + j = g + i
        BY <2>1, <3>1, <4>2, SMTT(30)
      <4>5. g * k + i * k = BANKS + j * k
        BY <2>1, <3>1, <4>3, <4>4
      <4> QED BY <2>1, <3>1, <3>2, <3>4, <4>2, <4>3, <4>5, SMTT(30) DEF x
    <3> QED BY <3>3, <3>4
  <2>3. ASSUME NEW i \in 0..Groups - 1 PROVE bank(i) \in Heads
    <3>1. (IF g + i < Groups THEN g + i ELSE g + i - Groups) \in 0..Groups - 1
      BY <2>1, SMT
    <3> QED BY <2>2, <3>1, HeadMultiples
  <2>4. ASSUME NEW u \in Heads PROVE \E i \in 0..Groups - 1 : bank(i) = u
    <3>1. PICK j \in 0..Groups - 1 : u = j * k
      BY HeadMultiples
    <3>2. PICK i \in 0..Groups - 1 : j = IF g + i < Groups THEN g + i ELSE g + i - Groups
      <4>1. CASE g <= j
        <5>1. j - g \in 0..Groups - 1 /\ j = g + (j - g) /\ g + (j - g) < Groups
          BY <2>1, <4>1, SMT
        <5> QED BY <5>1
      <4>2. CASE j < g
        <5>1. /\ j - g + Groups \in 0..Groups - 1 /\ ~(g + (j - g + Groups) < Groups)
              /\ j = g + (j - g + Groups) - Groups
          BY <2>1, <4>2, SMT
        <5> QED BY <5>1
      <4> QED BY <2>1, <4>1, <4>2, SMTT(30)
    <3> QED BY <2>2, <3>1, <3>2
  <2> QED BY <2>3, <2>4

<1> DEFINE k == BanksPerRefresh
           counter == [delayedRefreshCounter EXCEPT ![h] = @ + 1]
           need == [b \in Banks |-> bankNeedRefresh[b] \/ (b \in Group(h) /\ NeedRefresh(h, counter))]
           bank(i) == (nextRefreshBank + i * k) % BANKS
           needed == {i \in 0..Cardinality(Heads) - 1 : NeedRefresh(bank(i), counter)}
<1>1. /\ delayedRefreshCounter \in [Heads -> Nat] /\ bankNeedRefresh \in [Banks -> BOOLEAN]
      /\ \A g \in Heads : delayedRefreshCounter[g] < DelayedRefreshThreshold
      /\ \A b \in Banks : bankNeedRefresh[b] = FALSE
      /\ DelayedRefreshThreshold \in Nat
  BY ControllerAssumption DEF Typed, TypeOK, NothingOwed
<1>2. UseRefresh /\ Cardinality(Heads) = Groups /\ Groups \in Nat
  BY HeadMultiples, GroupCount DEF Heads
<1>3. PICK g \in 0..Groups - 1 : nextRefreshBank = g * k
  BY DEF Typed
<1>4. /\ \A i \in 0..Groups - 1 : bank(i) \in Heads
      /\ \E i \in 0..Groups - 1 : bank(i) = h
  BY <1>2, <1>3, <1>GroupFound
<1>5. \A g2 \in Heads : NeedRefresh(g2, counter)
                          <=> g2 = h /\ delayedRefreshCounter[h] + 1 >= DelayedRefreshThreshold
  BY <1>1, SMT DEF NeedRefresh
<1>6. /\ pulse[h] = 0 /\ pulse' = [pulse EXCEPT ![h] = tREFI]
      /\ UNCHANGED <<config, memQueue, dev, curQueue, lastIssue, cleanups, cycles>>
  BY DEF RefreshCallback
<1>7. CASE needed = {}
  <2>1. ~NeedRefresh(h, counter)
    <3> HIDE DEF bank, counter
    <3> QED BY <1>2, <1>4, <1>7
  <2>2. need = bankNeedRefresh
    <3> HIDE DEF counter
    <3> QED BY <1>1, <2>1
  <2>3. /\ delayedRefreshCounter' = counter /\ bankNeedRefresh' = need
        /\ UNCHANGED <<commandQueues, view, refreshQueued, nextRefreshBank, handledRefresh, wakes>>
    BY <1>7 DEF RefreshCallback
  <2>4. delayedRefreshCounter[h] + 1 < DelayedRefreshThreshold
    <3> HIDE DEF counter
    <3> QED BY <1>1, <1>5, <2>1, SMTT(30)
  <2> HIDE DEF need, needed, bank
  <2> QED BY <1>6, <2>2, <2>3, <2>4
<1>8. CASE needed # {}
  <2>1. needed \in SUBSET Nat
    BY SMTT(30)
  <2>2. Min(needed) \in needed
    BY <1>8, <2>1, LeastNatural
  <2>3. bank(Min(needed)) \in Heads /\ NeedRefresh(bank(Min(needed)), counter)
    <3> HIDE DEF bank, counter
    <3> QED BY <1>2, <1>4, <2>2
  <2>4. bank(Min(needed)) = h
    <3> HIDE DEF bank, counter, needed
    <3> QED BY <1>5, <2>3
  <2>5. HandleRefresh(bank(Min(needed)), counter, need)
    BY <1>8 DEF RefreshCallback
  <2>6. HandleRefresh(h, counter, need)
    <3> HIDE DEF bank, counter, needed, need
    <3> QED BY <2>4, <2>5
  <2> DEFINE after == [counter EXCEPT ![h] = @ - 1]
  <2>7. after = delayedRefreshCounter /\ ~NeedRefresh(h, after)
    <3>1. after = [x \in Heads |-> after[x]]
      BY <1>1
    <3>2. delayedRefreshCounter[h] \in Nat /\ (delayedRefreshCounter[h] + 1) - 1 = delayedRefreshCounter[h]
      BY <1>1, SMTT(30)
    <3>3. \A x \in Heads : after[x] = delayedRefreshCounter[x]
      BY <1>1, <3>2
    <3>4. after = delayedRefreshCounter
      <4> HIDE DEF after
      <4> QED BY <1>1, <3>1, <3>3
    <3> HIDE DEF after
    <3> QED BY <1>1, <3>4, SMT DEF NeedRefresh
  <2>8. bankNeedRefresh' = [b \in Banks |-> need[b] /\ (b \in Group(h) => NeedRefresh(h, after))]
    BY <2>6 DEF HandleRefresh
  <2>9. bankNeedRefresh' = bankNeedRefresh
    <3> HIDE DEF after, counter
    <3> QED BY <1>1, <2>7, <2>8
  <2>10. Refreshes(h)
    <3>1. delayedRefreshCounter' = after
      BY <2>6 DEF HandleRefresh
    <3> HIDE DEF after, counter, need
    <3> QED BY <2>6, <2>7, <3>1 DEF HandleRefresh, Refreshes
  <2> QED BY <1>6, <2>9, <2>10
<1> QED BY <1>7, <1>8

-----------------------------------------------------------------------------
\* Types, and no refresh owed

\* The configuration never changes, and with it the shape of the queues.
LEMMA ConfigKept ==
  ASSUME config' = config
  PROVE  /\ QueueCount' = QueueCount /\ Queues' = Queues /\ QueueFunctions' = QueueFunctions
         /\ \A b, s : QueueId(b, s)' = QueueId(b, s)
         /\ \A x : /\ Sorted(x)' = Sorted(x) /\ IssuedFirst(x)' = IssuedFirst(x)
                   /\ NoneIssued(x)' = NoneIssued(x)
<1>1. QueueCount' = QueueCount
  BY DEF QueueCount
<1>2. Queues' = Queues
  BY <1>1 DEF Queues
<1>3. QueueFunctions' = QueueFunctions
  BY <1>2 DEF QueueFunctions
<1>4. \A b, s : QueueId(b, s)' = QueueId(b, s)
  BY DEF QueueId
<1>5. \A x : Sorted(x)' = Sorted(x)
  BY <1>2, <1>4 DEF Sorted
<1>6. \A x : IssuedFirst(x)' = IssuedFirst(x) /\ NoneIssued(x)' = NoneIssued(x)
  BY <1>2 DEF IssuedFirst, NoneIssued
<1> QED BY <1>1, <1>2, <1>3, <1>4, <1>5, <1>6

\* What the state is typed by, conjunct by conjunct.
LEMMA TypedFacts ==
  ASSUME Typed
  PROVE  /\ config \in Configurations /\ dev \in Devices
         /\ commandQueues \in QueueFunctions /\ Sorted(commandQueues) /\ IssuedFirst(commandQueues)
         /\ memQueue \in Seq(TransactionRecords) /\ Len(memQueue) \in Nat
         /\ activateQueued \in [Banks -> BOOLEAN] /\ refreshQueued \in [Banks -> BOOLEAN]
         /\ effectiveRow \in [Banks -> [SubArrays -> Nat \cup {NoRow}]]
         /\ curQueue \in 0..QueueCount /\ curQueue \in Nat /\ QueueCount \in Nat \ {0}
         /\ lastIssue \in BOOLEAN /\ cleanups \subseteq 0..1 /\ wakes \subseteq Nat
<1>1. QueueCount \in Nat \ {0}
  BY QueueIds DEF Typed, TypeOK
<1>2. commandQueues \in QueueFunctions /\ memQueue \in Seq(TransactionRecords)
  BY DEF Typed, TypeOK, QueueFunctions, CommandRecords, TransactionRecords
<1>3. Len(memQueue) \in Nat /\ (curQueue \in 0..QueueCount => curQueue \in Nat)
  BY <1>1, <1>2, SMT
<1> QED BY <1>1, <1>2, <1>3 DEF Typed, TypeOK

\* The lengths of the queues and their positions are numbers.
LEMMA QueueLengths ==
  ASSUME NEW queues \in QueueFunctions, NEW q \in Queues
  PROVE  Len(queues[q]) \in Nat /\ \A i \in 1..Len(queues[q]) : i \in Nat
BY SMTT(30) DEF QueueFunctions

\* The queue to begin with stays in range.
LEMMA CurrentQueueMoves ==
  ASSUME QueueCount \in Nat \ {0}, curQueue \in 0..QueueCount
  PROVE  MoveCurrentQueue(curQueue) \in 0..QueueCount
BY SMTT(30) DEF MoveCurrentQueue

\* What issuing the head of a queue does.
IssueEffect(queues, q) ==
  LET c == queues[q][1]
      new == commandQueues'
  IN /\ queues[q] # <<>> /\ 1 \in 1..Len(queues[q]) /\ c \in CommandRecords
     /\ ~lastIssue /\ lastIssue' = TRUE /\ cleanups' = cleanups \cup {1}
     /\ curQueue' = MoveCurrentQueue(curQueue)
     /\ IsIssuable(dev, c) /\ dev' = IssueCommand(dev, c)
     /\ refreshQueued' = IF c.type = "REFRESH" THEN ResetRefreshQueued(c) ELSE refreshQueued
     /\ new \in QueueFunctions
     /\ \A r \in Queues : Len(new[r]) = Len(queues[r]) /\ (r # q => new[r] = queues[r])
     /\ \A i \in 1..Len(queues[q]) : i # 1 => new[q][i] = queues[q][i]
     /\ new[q][1].issued /\ new[q][1].type = c.type /\ new[q][1].bank = c.bank
     /\ new[q][1].sub = c.sub /\ new[q][1].row = c.row /\ new[q][1].id = c.id

\* What the head that goes leaves: it is marked in its place, and every other command is as it was.
LEMMA IssueEffects ==
  ASSUME NEW queues \in QueueFunctions, NEW q \in Queues, Issues(queues, q)
  PROVE  IssueEffect(queues, q)
\* Issuing changes nothing of a command but its mark.
<1>IssuedFields.
    ASSUME NEW c \in CommandRecords
    PROVE  /\ Issued(c) \in CommandRecords /\ Issued(c).issued
           /\ Issued(c).type = c.type /\ Issued(c).bank = c.bank /\ Issued(c).sub = c.sub
           /\ Issued(c).row = c.row /\ Issued(c).id = c.id
  BY DEF Issued, CommandRecords

\* The queues once the head of one is marked.
<1>MarkedQueues.
    ASSUME NEW old \in QueueFunctions, NEW p \in Queues, old[p] # <<>>
    PROVE  LET marked == [old EXCEPT ![p][1] = Issued(@)] IN
           /\ marked \in QueueFunctions
           /\ Head(old[p]) = old[p][1] /\ old[p][1] \in CommandRecords
           /\ \A r \in Queues : Len(marked[r]) = Len(old[r]) /\ (r # p => marked[r] = old[r])
           /\ marked[p][1] = Issued(old[p][1])
           /\ \A i \in 1..Len(old[p]) : i # 1 => marked[p][i] = old[p][i]
  <2> USE <1>MarkedQueues
  <2> DEFINE s == old[p]
             m == [s EXCEPT ![1] = Issued(@)]
  <2>1. s \in Seq(CommandRecords) /\ Len(s) \in Nat /\ 1 \in 1..Len(s) /\ s[1] \in CommandRecords
    BY SMTT(30) DEF QueueFunctions
  <2>2. m \in Seq(CommandRecords) /\ Len(m) = Len(s)
        /\ m[1] = Issued(s[1]) /\ \A i \in 1..Len(s) : i # 1 => m[i] = s[i]
    BY <2>1, <1>IssuedFields, SMT
  <2>3. [old EXCEPT ![p][1] = Issued(@)] = [old EXCEPT ![p] = m]
    BY DEF QueueFunctions
  <2>4. \A r \in Queues : [old EXCEPT ![p] = m][r] = IF r = p THEN m ELSE old[r]
    BY DEF QueueFunctions
  <2>5. [old EXCEPT ![p] = m] \in QueueFunctions
    BY <2>2 DEF QueueFunctions
  <2> HIDE DEF m
  <2> QED BY <2>1, <2>2, <2>3, <2>4, <2>5, SMTT(30)

<1> DEFINE c == Head(queues[q])
           marked == [queues EXCEPT ![q][1] = Issued(@)]
<1>1. /\ queues[q] # <<>> /\ ~lastIssue /\ lastIssue' = TRUE /\ cleanups' = cleanups \cup {1}
      /\ curQueue' = MoveCurrentQueue(curQueue)
      /\ IsIssuable(dev, c) /\ dev' = IssueCommand(dev, c)
      /\ commandQueues' = marked
      /\ refreshQueued' = IF c.type = "REFRESH" THEN ResetRefreshQueued(c) ELSE refreshQueued
  BY DEF Issues
<1>2. /\ marked \in QueueFunctions
      /\ c = queues[q][1] /\ c \in CommandRecords
      /\ \A r \in Queues : Len(marked[r]) = Len(queues[r]) /\ (r # q => marked[r] = queues[r])
      /\ marked[q][1] = Issued(queues[q][1])
      /\ \A i \in 1..Len(queues[q]) : i # 1 => marked[q][i] = queues[q][i]
  BY <1>1, <1>MarkedQueues
<1>3. 1 \in 1..Len(queues[q])
  BY <1>1, SMT DEF QueueFunctions
<1> HIDE DEF c, marked
<1>4. /\ Issued(c).issued /\ Issued(c).type = c.type /\ Issued(c).bank = c.bank
      /\ Issued(c).sub = c.sub /\ Issued(c).row = c.row /\ Issued(c).id = c.id
  BY <1>2, <1>IssuedFields
<1> QED BY <1>1, <1>2, <1>3, <1>4 DEF IssueEffect

\* memQueue without its i-th transaction.
LEMMA WithoutElements ==
  ASSUME memQueue \in Seq(TransactionRecords), NEW i \in 1..Len(memQueue)
  PROVE  /\ Without(i) \in Seq(TransactionRecords) /\ Len(Without(i)) = Len(memQueue) - 1
         /\ \A j \in 1..Len(Without(i)) : Without(i)[j] = memQueue[IF j < i THEN j ELSE j + 1]
<1> DEFINE m == memQueue
           a == SubSeq(m, 1, i - 1)
           b == SubSeq(m, i + 1, Len(m))
<1>1. /\ a \in Seq(TransactionRecords) /\ Len(a) = i - 1 /\ \A j \in 1..Len(a) : a[j] = m[j]
  BY SMT
<1>2. /\ b \in Seq(TransactionRecords) /\ Len(b) = Len(m) - i
      /\ \A j \in 1..Len(b) : b[j] = m[i + j]
  BY SMT
<1>3. Without(i) = a \o b
  BY DEF Without
<1> HIDE DEF a, b
<1>4. Len(Without(i)) = Len(m) - 1 /\ Without(i) \in Seq(TransactionRecords)
  BY <1>1, <1>2, <1>3, SMT
<1>5. ASSUME NEW j \in 1..Len(Without(i)) PROVE Without(i)[j] = m[IF j < i THEN j ELSE j + 1]
  <2>1. CASE j < i
    BY <1>1, <1>2, <1>3, <1>4, <2>1, SMTT(30)
  <2>2. CASE ~(j < i)
    <3>1. j - (i - 1) \in 1..Len(b) /\ i + (j - (i - 1)) = j + 1
      BY <1>2, <1>4, <2>2, SMTT(30)
    <3>2. Without(i)[j] = b[j - (i - 1)]
      BY <1>1, <1>2, <1>3, <1>4, <2>2, SMTT(30)
    <3> QED BY <1>2, <2>2, <3>1, <3>2
  <2> QED BY <2>1, <2>2
<1> QED BY <1>4, <1>5

\* The next wakeup is a time.
LEMMA WakeupType ==
  ASSUME Counting, Typed, NEW queues \in QueueFunctions
  PROVE  NextWakeup(queues) \subseteq Nat
<1> DEFINE heads == HeadCommands(queues)
           times == {NextIssuable(dev, c) : c \in heads}
<1>1. heads \subseteq CommandRecords
  <2> SUFFICES ASSUME NEW b \in Banks, queues[QueueId(b, 0)] # <<>>
               PROVE  Head(queues[QueueId(b, 0)]) \in CommandRecords
    BY DEF HeadCommands
  <2>1. QueueId(b, 0) \in Queues
    BY QueueIds, TypedFacts, Constants, SMTT(30) DEF SubArrays
  <2> QED BY <2>1, SMT DEF QueueFunctions
<1> HIDE DEF heads
<1>2. times \in SUBSET Nat
  BY <1>1, TypedFacts, RankTypes
<1>3. heads # {} => Min(times) \in Nat
  <2>1. heads # {} => times # {}
    OBVIOUS
  <2> HIDE DEF times
  <2> QED BY <1>2, <2>1, LeastNatural
<1>4. heads # {} => Later(1, Min(times)) \in Nat
  BY <1>3, Times
<1> QED BY <1>4 DEF NextWakeup, heads

\* What scheduling transaction i does.
ScheduleEffect(i, queues) ==
  LET t == memQueue[i]
      q == QueueId(t.bank, t.sub)
      last == IsLastRequest(t, Without(i))
  IN /\ i \in 1..Len(memQueue) /\ t \in TransactionRecords /\ last \in BOOLEAN
     /\ ~refreshQueued[t.bank] /\ commandQueues[q] = <<>>
     /\ q \in Queues /\ queues \in QueueFunctions
     /\ queues[q] = Commands(t, last) /\ \A r \in Queues : r # q => queues[r] = commandQueues[r]
     /\ memQueue' = Without(i) /\ UpdateView(t, last)
     /\ wakes' = wakes \cup NextWakeup(queues)

\* What scheduling a transaction leaves: its commands are alone in their queue, which was empty.
LEMMA ScheduleEffects ==
  ASSUME Typed, NEW i \in Ready, NEW queues, Schedules(i, queues)
  PROVE  ScheduleEffect(i, queues)
<1> DEFINE t == memQueue[i]
           q == QueueId(t.bank, t.sub)
           last == IsLastRequest(t, Without(i))
<1>1. /\ i \in 1..Len(memQueue) /\ t \in TransactionRecords
      /\ ~refreshQueued[t.bank] /\ commandQueues[q] = <<>>
  BY TypedFacts, SMTT(30) DEF Ready
<1>2. t.bank \in Banks /\ t.sub \in SubArrays
  BY <1>1 DEF TransactionRecords
<1>3. q \in Queues
  BY <1>2, QueueIds, TypedFacts
<1>4. last \in BOOLEAN
  <2>1. config.closePage \in 0..2
    BY TypedFacts, ControllerAssumption
  <2>2. config.closePage = 0 \/ config.closePage = 1 \/ config.closePage = 2
    BY <2>1, SMT
  <2> HIDE DEF t
  <2> QED BY <2>2 DEF IsLastRequest
<1> HIDE DEF t, q, last
<1>5. Commands(t, last) \in Seq(CommandRecords)
  BY <1>1, <1>4, CommandsType, TypedFacts
<1>6. /\ queues = [commandQueues EXCEPT ![q] = Commands(t, last)]
      /\ memQueue' = Without(i) /\ UpdateView(t, last) /\ wakes' = wakes \cup NextWakeup(queues)
  BY DEF Schedules, t, q, last
<1>7. /\ queues \in QueueFunctions /\ queues[q] = Commands(t, last)
      /\ \A r \in Queues : r # q => queues[r] = commandQueues[r]
  BY <1>3, <1>5, <1>6, TypedFacts DEF QueueFunctions
<1> QED BY <1>1, <1>3, <1>4, <1>6, <1>7 DEF ScheduleEffect, t, q, last

\* Scheduling keeps the types.
LEMMA ScheduleTyped ==
  ASSUME Counting, Typed, ~CleanupDue, NEW i \in Ready, NEW queues, Schedules(i, queues)
  PROVE  /\ queues \in QueueFunctions /\ Sorted(queues) /\ IssuedFirst(queues)
         /\ NoneIssued(queues) \/ lastIssue
         /\ memQueue' \in Seq(TransactionRecords) /\ Len(memQueue') <= QueueSize
         /\ activateQueued' \in [Banks -> BOOLEAN]
         /\ effectiveRow' \in [Banks -> [SubArrays -> Nat \cup {NoRow}]]
         /\ starvationCounter' \in [Banks -> [SubArrays -> 0..StarvationThreshold]]
         /\ wakes' \subseteq Nat
<1> DEFINE t == memQueue[i]
           q == QueueId(t.bank, t.sub)
           last == IsLastRequest(t, Without(i))
<1>0. ScheduleEffect(i, queues)
  BY ScheduleEffects
<1>1. /\ t \in TransactionRecords /\ t.bank \in Banks /\ t.sub \in SubArrays /\ t.row \in Nat
      /\ last \in BOOLEAN
  BY <1>0 DEF ScheduleEffect, TransactionRecords
<1>2. /\ queues \in QueueFunctions /\ q \in Queues /\ queues[q] = Commands(t, last)
      /\ \A r \in Queues : r # q => queues[r] = commandQueues[r]
      /\ UpdateView(t, last)
  BY <1>0 DEF ScheduleEffect
<1>3. \A j \in 1..Len(queues[q]) :
        QueueId(queues[q][j].bank, queues[q][j].sub) = q /\ ~queues[q][j].issued
  <2> HIDE DEF t, last
  <2> QED BY <1>1, <1>2, CommandsType, TypedFacts, SMTT(30) DEF q
<1>4. memQueue' \in Seq(TransactionRecords) /\ Len(memQueue') <= QueueSize
  <2>1. i \in 1..Len(memQueue) /\ memQueue' = Without(i)
    BY <1>0 DEF ScheduleEffect
  <2>2. memQueue' \in Seq(TransactionRecords) /\ Len(memQueue') = Len(memQueue) - 1
    BY <2>1, WithoutElements, TypedFacts
  <2>3. Len(memQueue) <= QueueSize /\ QueueSize \in Nat /\ Len(memQueue) \in Nat
    BY TypedFacts, ControllerAssumption DEF Typed, TypeOK
  <2> QED BY <2>2, <2>3, SMTT(30)
<1>5. wakes' \subseteq Nat
  BY <1>0, WakeupType, TypedFacts DEF ScheduleEffect
<1> HIDE DEF t, q, last
<1>6. Sorted(queues)
  BY <1>2, <1>3, TypedFacts DEF Sorted
<1>7. IssuedFirst(queues)
  BY <1>2, <1>3, TypedFacts DEF IssuedFirst
<1>8. NoneIssued(queues) \/ lastIssue
  BY <1>2, <1>3 DEF NoneIssued, Typed, CleanupDue
<1>9. activateQueued' \in [Banks -> BOOLEAN]
  BY <1>1, <1>2, TypedFacts DEF UpdateView
<1>10. effectiveRow' \in [Banks -> [SubArrays -> Nat \cup {NoRow}]]
  BY <1>1, <1>2, TypedFacts DEF UpdateView
<1>11. starvationCounter' \in [Banks -> [SubArrays -> 0..StarvationThreshold]]
  <2>1. starvationCounter \in [Banks -> [SubArrays -> 0..StarvationThreshold]]
        /\ StarvationThreshold \in Nat
    BY ControllerAssumption DEF Typed, TypeOK
  <2>2. \A n \in 0..StarvationThreshold : Min({n + 1, StarvationThreshold}) \in 0..StarvationThreshold
    <3> SUFFICES ASSUME NEW n \in 0..StarvationThreshold
                 PROVE  Min({n + 1, StarvationThreshold}) \in 0..StarvationThreshold
      OBVIOUS
    <3> DEFINE S == {n + 1, StarvationThreshold}
    <3>1. S \in SUBSET Nat /\ S # {} /\ StarvationThreshold \in S
      BY <2>1, SMT
    <3> HIDE DEF S
    <3>2. Min(S) \in Nat /\ Min(S) <= StarvationThreshold
      BY <3>1, LeastNatural
    <3> QED BY <2>1, <3>2, SMTT(30) DEF S
  <2> QED BY <1>1, <1>2, <2>1, <2>2, SMTT(30) DEF UpdateView
<1> QED BY <1>2, <1>4, <1>5, <1>6, <1>7, <1>8, <1>9, <1>10, <1>11

\* The rest of what Typed says.
LEMMA TypedRest ==
  ASSUME Typed
  PROVE  /\ Len(memQueue) <= QueueSize
         /\ starvationCounter \in [Banks -> [SubArrays -> 0..StarvationThreshold]]
         /\ cycles \in [0..1 -> Nat] /\ handledRefresh \in BOOLEAN
         /\ delayedRefreshCounter \in [Heads -> Nat] /\ pulse \in [Heads -> Nat]
         /\ \A h \in Heads : delayedRefreshCounter[h] < DelayedRefreshThreshold
         /\ \E g \in 0..Groups - 1 : nextRefreshBank = g * BanksPerRefresh
         /\ NoneIssued(commandQueues) \/ lastIssue \/ 0 \in cleanups
         /\ lastIssue => 1 \in cleanups
BY DEF Typed, TypeOK, NothingOwed

\* It holds initially.
LEMMA InitTyped ==
  ASSUME Counting
  PROVE  Init => Typed
<1> SUFFICES ASSUME Init PROVE Typed
  OBVIOUS
<1>1. config \in Configurations /\ QueueCount \in Nat \ {0}
  BY QueueIds DEF Init
<1>2. /\ 0 \in Banks /\ DelayedRefreshThreshold \in Nat \ {0} /\ tREFI \in Nat /\ StarvationThreshold \in Nat
      /\ QueueSize \in Nat
  BY Constants, ControllerAssumption, SMTT(30) DEF Banks
<1>3. pulse \in [Heads -> Nat]
  <2> SUFFICES ASSUME NEW h \in Heads
               PROVE  tREFI + (h \div BanksPerRefresh) * (tREFI \div Cardinality(Heads)) \in Nat
    BY DEF Init
  <2>1. Cardinality(Heads) \in Nat \ {0} /\ h \in Nat /\ BanksPerRefresh \in Nat \ {0}
    BY HeadMultiples, GroupCount, Constants, SMTT(30) DEF Heads, Banks
  <2>2. h \div BanksPerRefresh \in Nat /\ tREFI \div Cardinality(Heads) \in Nat
    BY <1>2, <2>1, SMTT(30)
  <2> QED BY <1>2, <2>2, SMTT(30)
<1>4. 0 \in 0..Groups - 1 /\ nextRefreshBank = 0 * BanksPerRefresh
  BY GroupCount, Constants, SMT DEF Init
<1>5. commandQueues \in [Queues -> Seq(CommandRecords)] /\ \A q \in Queues : Len(commandQueues[q]) = 0
  BY SMT DEF Init
<1>6. Sorted(commandQueues) /\ IssuedFirst(commandQueues) /\ NoneIssued(commandQueues)
  BY <1>5, SMT DEF Sorted, IssuedFirst, NoneIssued
<1>7. TypeOK
  <2>1. 0 \in 0..QueueCount /\ 0 \in 0..StarvationThreshold /\ Len(<<>>) <= QueueSize /\ 0 \in Nat
    BY <1>1, <1>2, SMTT(30)
  <2>2. \A T : <<>> \in Seq(T)
    BY SMT
  <2>3. /\ starvationCounter \in [Banks -> [SubArrays -> 0..StarvationThreshold]]
        /\ effectiveRow \in [Banks -> [SubArrays -> Nat \cup {NoRow}]]
        /\ delayedRefreshCounter \in [Heads -> Nat] /\ cycles \in [0..1 -> Nat]
    BY <2>1 DEF Init
  <2>4. /\ activateQueued \in [Banks -> BOOLEAN] /\ refreshQueued \in [Banks -> BOOLEAN]
        /\ bankNeedRefresh \in [Banks -> BOOLEAN]
    BY DEF Init
  <2> QED BY <1>1, <1>2, <1>3, <1>5, <2>1, <2>2, <2>3, <2>4 DEF Init, TypeOK, CommandRecords
<1>8. NothingOwed
  BY <1>2, SMT DEF Init, NothingOwed
<1> QED BY <1>4, <1>6, <1>7, <1>8, RankTypes DEF Init, Typed

\* What the cleanup leaves of each queue.
CleanupEffect ==
  /\ commandQueues' \in QueueFunctions
  /\ \A q \in Queues : \E k \in {0, 1} :
       /\ k = 1 <=> commandQueues[q] # <<>> /\ commandQueues[q][1].issued
       /\ Len(commandQueues'[q]) = Len(commandQueues[q]) - k
       /\ \A i \in 1..Len(commandQueues'[q]) : commandQueues'[q][i] = commandQueues[q][i + k]

\* CleanupCallback takes the first command off a queue, if that is issued, and nothing else.
LEMMA CleanupEffects ==
  ASSUME Counting, Typed, CleanupCallback
  PROVE  CleanupEffect
\* The cleanup takes away the first command of a queue where it was issued.
<1>CleanedQueue.
    ASSUME config \in Configurations, commandQueues \in QueueFunctions, IssuedFirst(commandQueues),
           NEW q \in Queues
    PROVE  LET s == commandQueues[q]
               t == Select(s, Unissued(q))
           IN /\ t \in Seq(CommandRecords)
              /\ \E k \in {0, 1} :
                   /\ k = 1 <=> s # <<>> /\ s[1].issued
                   /\ Len(t) = Len(s) - k /\ \A i \in 1..Len(t) : t[i] = s[i + k]
  <2> USE <1>CleanedQueue
  <2> DEFINE s == commandQueues[q]
  <2>1. s \in Seq(CommandRecords) /\ Len(s) \in Nat
    BY SMTT(30) DEF QueueFunctions
  <2>2. CASE s # <<>> /\ s[1].issued
    <3>1. Unissued(q) = 2..Len(s)
      BY <2>1, <2>2, SMTT(30) DEF Unissued, IssuedFirst
    <3>2. Select(s, Unissued(q)) = Tail(s)
      BY <2>1, <2>2, <3>1, SelectSuffix
    <3>3. Tail(s) \in Seq(CommandRecords) /\ Len(Tail(s)) = Len(s) - 1
          /\ \A i \in 1..Len(Tail(s)) : Tail(s)[i] = s[i + 1]
      BY <2>1, <2>2, SMTT(30)
    <3> QED BY <2>2, <3>2, <3>3
  <2>3. CASE ~(s # <<>> /\ s[1].issued)
    <3>1. Unissued(q) = 1..Len(s)
      BY <2>1, <2>3, SMTT(30) DEF Unissued, IssuedFirst
    <3>2. Select(s, Unissued(q)) = s
      BY <2>1, <3>1, SelectSuffix
    <3>3. Len(s) = Len(s) - 0 /\ \A i \in 1..Len(s) : s[i] = s[i + 0]
      BY <2>1, SMTT(30)
    <3> QED BY <2>1, <2>3, <3>2, <3>3, SMTT(30)
  <2> QED BY <2>2, <2>3

<1>1. commandQueues' = [q \in Queues |-> Select(commandQueues[q], Unissued(q))]
  BY DEF CleanupCallback
<1>2. \A q \in Queues : commandQueues'[q] = Select(commandQueues[q], Unissued(q))
  BY <1>1
<1>3. ASSUME NEW q \in Queues
      PROVE  /\ commandQueues'[q] \in Seq(CommandRecords)
             /\ \E k \in {0, 1} :
                  /\ k = 1 <=> commandQueues[q] # <<>> /\ commandQueues[q][1].issued
                  /\ Len(commandQueues'[q]) = Len(commandQueues[q]) - k
                  /\ \A i \in 1..Len(commandQueues'[q]) : commandQueues'[q][i] = commandQueues[q][i + k]
  <2> DEFINE t == Select(commandQueues[q], Unissued(q))
  <2>1. /\ t \in Seq(CommandRecords)
        /\ \E k \in {0, 1} :
             /\ k = 1 <=> commandQueues[q] # <<>> /\ commandQueues[q][1].issued
             /\ Len(t) = Len(commandQueues[q]) - k
             /\ \A i \in 1..Len(t) : t[i] = commandQueues[q][i + k]
    BY <1>CleanedQueue, TypedFacts
  <2> HIDE DEF t
  <2>2. commandQueues'[q] = t
    BY <1>2 DEF t
  <2> QED BY <2>1, <2>2
<1> QED BY <1>1, <1>3 DEF CleanupEffect, QueueFunctions

\* How far the cleanup moves the commands of a queue, and where it takes each of them from.
Dropped(q) == IF commandQueues[q] # <<>> /\ commandQueues[q][1].issued THEN 1 ELSE 0

\* The commands behind the one CleanupCallback takes off move up by a place.
LEMMA CleanupShift ==
  ASSUME Typed, CleanupEffect, NEW q \in Queues
  PROVE  LET old == commandQueues[q]
             new == commandQueues'[q]
         IN /\ Dropped(q) \in {0, 1} /\ Len(old) \in Nat /\ Len(new) = Len(old) - Dropped(q)
            /\ \A i \in 1..Len(new) : /\ i + Dropped(q) \in 1..Len(old) /\ new[i] = old[i + Dropped(q)]
                                      /\ i \in Nat \ {0}
            /\ \A i \in 1..Len(old) : ~old[i].issued =>
                 i - Dropped(q) \in 1..Len(new) /\ i - Dropped(q) + Dropped(q) = i
<1> DEFINE old == commandQueues[q]
           new == commandQueues'[q]
<1>1. PICK k \in {0, 1} :
        /\ k = 1 <=> old # <<>> /\ old[1].issued
        /\ Len(new) = Len(old) - k
        /\ \A i \in 1..Len(new) : new[i] = old[i + k]
  BY DEF CleanupEffect
<1>2. k = Dropped(q) /\ (k = 1 => old[1].issued)
  BY <1>1 DEF Dropped
<1>3. Len(old) \in Nat
  BY TypedFacts, SMT DEF QueueFunctions
<1> HIDE DEF old, new
<1>4. \A i \in 1..Len(new) : i + k \in 1..Len(old) /\ i \in Nat \ {0}
  BY <1>1, <1>3, SMTT(30)
<1>5. \A i \in 1..Len(old) : ~old[i].issued => i - k \in 1..Len(new) /\ i - k + k = i
  BY <1>1, <1>2, <1>3, SMTT(30)
<1> QED BY <1>1, <1>2, <1>3, <1>4, <1>5 DEF old, new

\* What a refresh appends to each queue.
RefreshEffect(h) ==
  /\ commandQueues' \in QueueFunctions
  /\ \A q \in Queues :
       LET old == commandQueues[q]
           add == RefreshCommands(q, h)
           new == commandQueues'[q]
       IN /\ add \in Seq(CommandRecords) /\ Len(new) = Len(old) + Len(add)
          /\ \A i \in 1..Len(old) : i \in 1..Len(new) /\ new[i] = old[i]
          /\ \A i \in 1..Len(add) : Len(old) + i \in 1..Len(new) /\ new[Len(old) + i] = add[i]
          /\ \A i \in 1..Len(new) : i \in 1..Len(old) \/ i - Len(old) \in 1..Len(add)

\* What HandleRefresh leaves in a queue: what was there, and its own commands behind.
LEMMA RefreshEffects ==
  ASSUME Counting, Typed, NEW h \in Heads, Refreshes(h)
  PROVE  RefreshEffect(h)
<1>1. commandQueues' = [q \in Queues |-> commandQueues[q] \o RefreshCommands(q, h)]
  BY DEF Refreshes
<1>2. ASSUME NEW q \in Queues
      PROVE  LET old == commandQueues[q]
                 add == RefreshCommands(q, h)
                 new == commandQueues'[q]
             IN /\ add \in Seq(CommandRecords) /\ Len(new) = Len(old) + Len(add)
                /\ new \in Seq(CommandRecords)
                /\ \A i \in 1..Len(old) : i \in 1..Len(new) /\ new[i] = old[i]
                /\ \A i \in 1..Len(add) : Len(old) + i \in 1..Len(new) /\ new[Len(old) + i] = add[i]
                /\ \A i \in 1..Len(new) : i \in 1..Len(old) \/ i - Len(old) \in 1..Len(add)
  <2> DEFINE old == commandQueues[q]
             add == RefreshCommands(q, h)
             new == commandQueues'[q]
  <2>1. new = old \o add
    BY <1>1
  <2>2. old \in Seq(CommandRecords)
    BY TypedFacts DEF QueueFunctions
  <2>3. add \in Seq(CommandRecords)
    BY RefreshCommandsShape, TypedFacts DEF RefreshShape
  <2> HIDE DEF old, add, new
  <2>4. /\ Len(old) \in Nat /\ Len(add) \in Nat /\ Len(new) = Len(old) + Len(add)
        /\ new \in Seq(CommandRecords)
    BY <2>1, <2>2, <2>3, SMTT(30)
  <2>5. \A i \in 1..Len(old) : new[i] = old[i]
    BY <2>1, <2>2, <2>3, SMTT(30)
  <2>6. \A i \in 1..Len(add) : new[Len(old) + i] = add[i]
    BY <2>1, <2>2, <2>3, SMTT(30)
  <2>7. /\ \A i \in 1..Len(old) : i \in 1..Len(new)
        /\ \A i \in 1..Len(add) : Len(old) + i \in 1..Len(new)
        /\ \A i \in 1..Len(new) : i \in 1..Len(old) \/ i - Len(old) \in 1..Len(add)
    BY <2>4, SMTT(30)
  <2> QED BY <2>3, <2>4, <2>5, <2>6, <2>7 DEF old, add, new
<1> QED BY <1>1, <1>2 DEF RefreshEffect, QueueFunctions

\* What a cycle does to the transactions that wait: they are not fresh any more.
LEMMA Aged ==
  ASSUME Typed, Advance
  PROVE  /\ memQueue' \in Seq(TransactionRecords) /\ Len(memQueue') = Len(memQueue)
         /\ \A i \in 1..Len(memQueue) : memQueue'[i].id = memQueue[i].id
<1>1. memQueue' = [i \in 1..Len(memQueue) |-> [memQueue[i] EXCEPT !.fresh = FALSE]]
  BY DEF Advance
<1>2. ASSUME NEW t \in TransactionRecords
      PROVE  [t EXCEPT !.fresh = FALSE] \in TransactionRecords /\ [t EXCEPT !.fresh = FALSE].id = t.id
  BY DEF TransactionRecords
<1>3. \A i \in 1..Len(memQueue) : memQueue[i] \in TransactionRecords
  BY TypedFacts, SMT
<1>4. \A i \in 1..Len(memQueue) : memQueue'[i] = [memQueue[i] EXCEPT !.fresh = FALSE]
  BY <1>1
<1>5. \A i \in 1..Len(memQueue) : memQueue'[i] \in TransactionRecords /\ memQueue'[i].id = memQueue[i].id
  BY <1>2, <1>3, <1>4
<1>6. memQueue' \in [1..Len(memQueue) -> TransactionRecords]
  BY <1>1, <1>2, <1>3
<1> QED BY <1>5, <1>6, TypedFacts, SMTT(30)

\* No step changes the configuration.
LEMMA ConfigUnchanged ==
  ASSUME [Next]_vars
  PROVE  config' = config
BY DEF vars, Next, Handle, Arrive, Enqueue, Cycle, CommandQueueCallback, CleanupCallback, Response,
             RefreshCallback, Advance

\* So does every step.
LEMMA NextTyped ==
  ASSUME Counting
  PROVE  Typed /\ [Next]_vars => Typed'
\* Issuing a command, or none, keeps the types.
<1>IssueTyped.
    ASSUME Typed, ~CleanupDue, NEW queues \in QueueFunctions, Sorted(queues), IssuedFirst(queues),
           NoneIssued(queues) \/ lastIssue, CycleCommandQueues(queues)
    PROVE  /\ commandQueues' \in QueueFunctions /\ Sorted(commandQueues') /\ IssuedFirst(commandQueues')
           /\ NoneIssued(commandQueues') \/ lastIssue'
           /\ lastIssue' \in BOOLEAN /\ (lastIssue' => 1 \in cleanups') /\ cleanups' \subseteq 0..1
           /\ curQueue' \in 0..QueueCount /\ refreshQueued' \in [Banks -> BOOLEAN] /\ dev' \in Devices
  <2> USE <1>IssueTyped
  <2>1. CASE Rests(queues)
    BY <2>1, TypedFacts DEF Typed, Rests, issue
  <2>2. ASSUME NEW q \in Queues, Issues(queues, q)
        PROVE  /\ commandQueues' \in QueueFunctions /\ Sorted(commandQueues') /\ IssuedFirst(commandQueues')
               /\ lastIssue' = TRUE /\ 1 \in cleanups' /\ cleanups' \subseteq 0..1
               /\ curQueue' \in 0..QueueCount /\ refreshQueued' \in [Banks -> BOOLEAN] /\ dev' \in Devices
    <3>0. IssueEffect(queues, q)
      BY <2>2, IssueEffects
    <3>a. ASSUME NEW r \in Queues, NEW i \in 1..Len(commandQueues'[r])
          PROVE  /\ i \in 1..Len(queues[r])
                 /\ \/ commandQueues'[r][i] = queues[r][i]
                    \/ /\ i = 1 /\ commandQueues'[r][i].bank = queues[r][i].bank
                       /\ commandQueues'[r][i].sub = queues[r][i].sub
      <4>1. Len(commandQueues'[r]) = Len(queues[r]) /\ (r # q => commandQueues'[r] = queues[r])
        BY <3>0 DEF IssueEffect
      <4>2. CASE r = q /\ i = 1
        BY <3>0, <4>1, <4>2 DEF IssueEffect
      <4>3. CASE r = q /\ i # 1
        BY <3>0, <4>1, <4>3 DEF IssueEffect
      <4> QED BY <4>1, <4>2, <4>3
    <3>1. Sorted(commandQueues')
      BY <3>a DEF Sorted
    <3>2. IssuedFirst(commandQueues')
      BY <3>a DEF IssuedFirst
    <3>3. dev' \in Devices
      BY <3>0, RankTypes, TypedFacts DEF IssueEffect
    <3>4. curQueue' \in 0..QueueCount
      BY <3>0, TypedFacts, CurrentQueueMoves DEF IssueEffect
    <3>5. refreshQueued' \in [Banks -> BOOLEAN]
      BY <3>0, TypedFacts DEF ResetRefreshQueued, IssueEffect
    <3>6. 1 \in 0..1
      BY SMT
    <3> QED BY <3>0, <3>1, <3>2, <3>3, <3>4, <3>5, <3>6, TypedFacts DEF IssueEffect
  <2> QED BY <2>1, <2>2, CycleCases, TypedFacts

\* The parts of Typed, with what they say of the queues.
<1>TypedAgain.
    ASSUME Typed, config' = config, dev' \in Devices,
           commandQueues' \in QueueFunctions, Sorted(commandQueues'), IssuedFirst(commandQueues'),
           NoneIssued(commandQueues') \/ lastIssue' \/ 0 \in cleanups',
           lastIssue' \in BOOLEAN, lastIssue' => 1 \in cleanups', cleanups' \subseteq 0..1,
           curQueue' \in 0..QueueCount, refreshQueued' \in [Banks -> BOOLEAN],
           memQueue' \in Seq(TransactionRecords), Len(memQueue') <= QueueSize,
           activateQueued' \in [Banks -> BOOLEAN],
           effectiveRow' \in [Banks -> [SubArrays -> Nat \cup {NoRow}]],
           starvationCounter' \in [Banks -> [SubArrays -> 0..StarvationThreshold]],
           wakes' \subseteq Nat, cycles' \in [0..1 -> Nat], handledRefresh' \in BOOLEAN,
           bankNeedRefresh' = bankNeedRefresh, delayedRefreshCounter' \in [Heads -> Nat],
           \A h \in Heads : delayedRefreshCounter'[h] < DelayedRefreshThreshold,
           \E g \in 0..Groups - 1 : nextRefreshBank' = g * BanksPerRefresh,
           pulse' \in [Heads -> Nat]
    PROVE  Typed'
  <2> USE <1>TypedAgain
  <2>1. /\ Queues' = Queues /\ QueueCount' = QueueCount
        /\ Sorted(commandQueues)' /\ IssuedFirst(commandQueues)'
        /\ (NoneIssued(commandQueues) \/ lastIssue \/ 0 \in cleanups)'
    BY ConfigKept
  <2>2. nextRefreshBank' \in Banks
    BY GroupMembers, SMT
  <2>3. config' \in Configurations /\ bankNeedRefresh' \in [Banks -> BOOLEAN] /\ NothingOwed'
    BY DEF Typed, TypeOK, NothingOwed
  <2>4. TypeOK'
    BY <2>1, <2>2, <2>3 DEF TypeOK, QueueFunctions, CommandRecords, TransactionRecords
  <2> QED BY <2>1, <2>3, <2>4 DEF Typed

\* Every handler keeps the types.
<1>ArriveTyped.
    ASSUME Typed, Arrive
    PROVE  Typed'
  <2> USE <1>ArriveTyped
  <2>1. PICK t \in Transactions : Enqueue(Min(Requests \ Busy), t)
    BY DEF Arrive
  <2>2. Min(Requests \ Busy) \in Requests
    <3>1. Requests \ Busy \in SUBSET Nat /\ Requests \ Busy # {}
      BY RankAssumption DEF Arrive
    <3> QED BY <3>1, LeastNatural
  <2> DEFINE r == Min(Requests \ Busy)
             new == [op |-> t.op, bank |-> t.bank, sub |-> t.sub, row |-> t.row, id |-> r, fresh |-> TRUE]
  <2>3. new \in TransactionRecords
    BY <2>2, ControllerAssumption DEF TransactionRecords
  <2>4. /\ memQueue' = Append(memQueue, new) /\ Len(memQueue) < QueueSize
        /\ UNCHANGED <<config, commandQueues, view, refresh, issue, wakes>>
        /\ cycles' = cycles \/ cycles' = [cycles EXCEPT ![0] = 1]
    BY <2>1 DEF Enqueue
  <2> HIDE DEF new
  <2>5. memQueue' \in Seq(TransactionRecords) /\ Len(memQueue') <= QueueSize
    BY <2>3, <2>4, TypedFacts, ControllerAssumption, SMTT(30)
  <2>6. cycles' \in [0..1 -> Nat]
    BY <2>4, TypedRest, SMT
  <2> QED BY <2>4, <2>5, <2>6, TypedFacts, TypedRest, <1>TypedAgain DEF view, refresh, issue

\* A cycle of FRFCFS keeps the types.
<1>CycleTyped.
    ASSUME Typed, Cycle
    PROVE  Typed'
  <2> USE <1>CycleTyped
  <2>1. PICK queues : /\ \/ queues = commandQueues /\ UNCHANGED <<memQueue, view, wakes>>
                         \/ \E i \in Ready : Schedules(i, queues)
                      /\ CycleCommandQueues(queues)
    BY CycleParts
  <2>2. /\ UNCHANGED <<config, refresh>> /\ cycles' \in [0..1 -> Nat] /\ ~CleanupDue
    BY CycleParts
  <2>3. /\ queues \in QueueFunctions /\ Sorted(queues) /\ IssuedFirst(queues)
        /\ NoneIssued(queues) \/ lastIssue
        /\ memQueue' \in Seq(TransactionRecords) /\ Len(memQueue') <= QueueSize
        /\ activateQueued' \in [Banks -> BOOLEAN]
        /\ effectiveRow' \in [Banks -> [SubArrays -> Nat \cup {NoRow}]]
        /\ starvationCounter' \in [Banks -> [SubArrays -> 0..StarvationThreshold]]
        /\ wakes' \subseteq Nat
    <3>1. CASE queues = commandQueues /\ UNCHANGED <<memQueue, view, wakes>>
      BY <2>2, <3>1, TypedFacts, TypedRest DEF view, CleanupDue
    <3>2. CASE \E i \in Ready : Schedules(i, queues)
      BY <2>2, <3>2, ScheduleTyped
    <3> QED BY <2>1, <3>1, <3>2
  <2>4. /\ commandQueues' \in QueueFunctions /\ Sorted(commandQueues') /\ IssuedFirst(commandQueues')
        /\ NoneIssued(commandQueues') \/ lastIssue'
        /\ lastIssue' \in BOOLEAN /\ (lastIssue' => 1 \in cleanups') /\ cleanups' \subseteq 0..1
        /\ curQueue' \in 0..QueueCount /\ refreshQueued' \in [Banks -> BOOLEAN] /\ dev' \in Devices
    BY <2>1, <2>2, <2>3, <1>IssueTyped
  <2> QED BY <2>2, <2>3, <2>4, TypedRest, <1>TypedAgain DEF refresh

\* So does a command wakeup.
<1>CallbackTyped.
    ASSUME Typed, CommandQueueCallback
    PROVE  Typed'
  <2> USE <1>CallbackTyped
  <2>1. /\ CycleCommandQueues(commandQueues) /\ UNCHANGED <<config, memQueue, view, refresh>>
        /\ wakes' = (wakes \ {0}) \cup NextWakeup(commandQueues) /\ ~CleanupDue
        /\ cycles' = cycles \/ cycles' = [cycles EXCEPT ![1] = @ + 1]
    BY DEF CommandQueueCallback
  <2>2. cycles' \in [0..1 -> Nat] /\ wakes' \subseteq Nat
    BY <2>1, TypedFacts, TypedRest, WakeupType, SMTT(30)
  <2>3. /\ commandQueues' \in QueueFunctions /\ Sorted(commandQueues') /\ IssuedFirst(commandQueues')
        /\ NoneIssued(commandQueues') \/ lastIssue'
        /\ lastIssue' \in BOOLEAN /\ (lastIssue' => 1 \in cleanups') /\ cleanups' \subseteq 0..1
        /\ curQueue' \in 0..QueueCount /\ refreshQueued' \in [Banks -> BOOLEAN] /\ dev' \in Devices
    BY <2>1, TypedFacts, TypedRest, <1>IssueTyped DEF CleanupDue
  <2> QED BY <2>1, <2>2, <2>3, TypedFacts, TypedRest, <1>TypedAgain DEF view, refresh

\* So does a cleanup, which leaves no issued command in the queues.
<1>CleanupTyped.
    ASSUME Typed, CleanupCallback
    PROVE  Typed'
  <2> USE <1>CleanupTyped
  <2>1. /\ cleanups' = cleanups \ {0}
        /\ UNCHANGED <<config, memQueue, view, refresh, dev, refreshQueued, curQueue, lastIssue, cycles, wakes>>
    BY DEF CleanupCallback
  <2>2. CleanupEffect
    BY CleanupEffects
  <2>3. ASSUME NEW q \in Queues, NEW i \in 1..Len(commandQueues'[q])
        PROVE  /\ QueueId(commandQueues'[q][i].bank, commandQueues'[q][i].sub) = q
               /\ ~commandQueues'[q][i].issued
    <3>1. PICK k \in {0, 1} :
            /\ k = 1 <=> commandQueues[q] # <<>> /\ commandQueues[q][1].issued
            /\ Len(commandQueues'[q]) = Len(commandQueues[q]) - k
            /\ \A j \in 1..Len(commandQueues'[q]) : commandQueues'[q][j] = commandQueues[q][j + k]
      BY <2>2 DEF CleanupEffect
    <3>2. Len(commandQueues[q]) \in Nat /\ (Len(commandQueues[q]) # 0 => commandQueues[q] # <<>>)
      BY TypedFacts, SMTT(30) DEF QueueFunctions
    <3>3. i + k \in 1..Len(commandQueues[q]) /\ (i + k = 1 => k = 0) /\ (k = 0 => k # 1)
      BY <3>1, <3>2, SMT
    <3>4. commandQueues'[q][i] = commandQueues[q][i + k]
      BY <3>1
    <3>5. QueueId(commandQueues[q][i + k].bank, commandQueues[q][i + k].sub) = q
      BY <3>3, TypedFacts DEF Sorted
    <3>6. commandQueues[q][i + k].issued => i + k = 1 /\ k = 0 /\ commandQueues[q][1].issued
      BY <3>3, TypedFacts DEF IssuedFirst
    <3>7. ~commandQueues[q][i + k].issued
      <4>1. i + k = 1 => commandQueues[q] # <<>>
        BY <3>2, <3>3, SMT
      <4> QED BY <3>1, <3>3, <3>6, <4>1
    <3> QED BY <3>4, <3>5, <3>7
  <2>4. Sorted(commandQueues') /\ IssuedFirst(commandQueues') /\ NoneIssued(commandQueues')
    BY <2>3 DEF Sorted, IssuedFirst, NoneIssued
  <2> QED BY <2>1, <2>2, <2>4, TypedFacts, TypedRest, <1>TypedAgain, SMTT(30) DEF view, refresh, CleanupEffect

\* So does an answer of the device.
<1>ResponseTyped.
    ASSUME Typed, NEW e \in dev.events, Response(e)
    PROVE  Typed'
  <2> USE <1>ResponseTyped
  <2>1. /\ dev' = RequestComplete(dev, e)
        /\ UNCHANGED <<config, memQueue, commandQueues, view, refresh,
                       refreshQueued, curQueue, lastIssue, cleanups, cycles, wakes>>
    BY DEF Response
  <2>2. dev' \in Devices
    BY <2>1, RankTypes, TypedFacts
  <2> QED BY <2>1, <2>2, TypedFacts, TypedRest, <1>TypedAgain DEF view, refresh

\* So does a pulse: the threshold was not reached before it, and is not when it is done.
<1>RefreshTyped.
    ASSUME Typed, NEW h \in Heads, RefreshCallback(h)
    PROVE  Typed'
  <2> USE <1>RefreshTyped
  <2>1. /\ pulse' = [pulse EXCEPT ![h] = tREFI]
        /\ UNCHANGED <<config, memQueue, dev, curQueue, lastIssue, cleanups, cycles, bankNeedRefresh>>
    BY RefreshParts
  <2>2. pulse' \in [Heads -> Nat]
    BY <2>1, TypedRest, ControllerAssumption
  <2>3. CASE Refreshes(h)
    <3>1. RefreshEffect(h)
      BY <2>3, RefreshEffects
    <3>2. ASSUME NEW q \in Queues, NEW i \in 1..Len(commandQueues'[q])
          PROVE  /\ QueueId(commandQueues'[q][i].bank, commandQueues'[q][i].sub) = q
                 /\ \/ ~commandQueues'[q][i].issued
                    \/ /\ i \in 1..Len(commandQueues[q])
                       /\ commandQueues'[q][i] = commandQueues[q][i]
      <4> DEFINE old == commandQueues[q]
                 add == RefreshCommands(q, h)
      <4>1. /\ \A j \in 1..Len(old) : commandQueues'[q][j] = old[j]
            /\ \A j \in 1..Len(add) : commandQueues'[q][Len(old) + j] = add[j]
            /\ i \in 1..Len(old) \/ i - Len(old) \in 1..Len(add)
            /\ i \in Nat /\ Len(old) \in Nat
        BY <3>1, TypedFacts, QueueLengths DEF RefreshEffect
      <4>2. \A j \in 1..Len(add) : ~add[j].issued /\ QueueId(add[j].bank, add[j].sub) = q
        <5>1. RefreshShape(add, q, h)
          BY RefreshCommandsShape, TypedFacts
        <5> HIDE DEF add
        <5>2. \A j \in 1..Len(add) : ~add[j].issued /\ add[j].sub = 0 /\ QueueId(add[j].bank, 0) = q
          BY <5>1 DEF RefreshShape
        <5> QED BY <5>2
      <4> HIDE DEF old, add
      <4>3. CASE i \in 1..Len(old)
        BY <4>1, <4>3, TypedFacts DEF Sorted, old
      <4>4. CASE i - Len(old) \in 1..Len(add)
        <5>1. Len(old) + (i - Len(old)) = i
          BY <4>1, SMT
        <5>2. commandQueues'[q][i] = add[i - Len(old)]
          BY <4>1, <4>4, <5>1
        <5> QED BY <4>2, <4>4, <5>2
      <4> QED BY <4>1, <4>3, <4>4
    <3>3. /\ commandQueues' \in QueueFunctions /\ Sorted(commandQueues') /\ IssuedFirst(commandQueues')
          /\ NoneIssued(commandQueues) => NoneIssued(commandQueues')
      <4>1. commandQueues' \in QueueFunctions
        BY <3>1 DEF RefreshEffect
      <4>2. Sorted(commandQueues')
        BY <3>2 DEF Sorted
      <4>3. IssuedFirst(commandQueues')
        BY <3>2, TypedFacts DEF IssuedFirst
      <4>4. NoneIssued(commandQueues) => NoneIssued(commandQueues')
        BY <3>2 DEF NoneIssued
      <4> QED BY <4>1, <4>2, <4>3, <4>4
    <3>4. /\ activateQueued' \in [Banks -> BOOLEAN] /\ refreshQueued' \in [Banks -> BOOLEAN]
          /\ effectiveRow' \in [Banks -> [SubArrays -> Nat \cup {NoRow}]]
      BY <2>3, TypedFacts DEF Refreshes, CloseGroup
    <3>5. wakes' \subseteq Nat
      <4>1. wakes' = wakes \cup NextWakeup(commandQueues')
        BY <2>3 DEF Refreshes
      <4>2. \A x \in QueueFunctions : NextWakeup(x) \subseteq Nat
        BY WakeupType
      <4> QED BY <3>3, <4>1, <4>2, TypedFacts
    <3>6. \E g \in 0..Groups - 1 : nextRefreshBank' = g * BanksPerRefresh
      <4>1. PICK g \in 0..Groups - 1 : nextRefreshBank = g * BanksPerRefresh
        BY TypedRest
      <4>2. /\ Groups \in Nat \ {0} /\ BanksPerRefresh \in Nat \ {0} /\ BANKS = Groups * BanksPerRefresh
            /\ nextRefreshBank' = IF nextRefreshBank + BanksPerRefresh >= BANKS THEN 0
                                  ELSE nextRefreshBank + BanksPerRefresh
        BY <2>3, GroupCount, Constants DEF Refreshes
      <4>3. (g + 1) * BanksPerRefresh = g * BanksPerRefresh + BanksPerRefresh
            /\ 0 * BanksPerRefresh = 0 /\ g * BanksPerRefresh \in Nat
        BY <4>2, SMTT(30)
      <4>4. CASE g + 1 = Groups
        BY <4>1, <4>2, <4>3, <4>4, SMTT(30)
      <4>5. CASE g + 1 < Groups
        <5>1. (g + 1) * BanksPerRefresh + BanksPerRefresh <= BANKS
          BY <4>2, <4>5, Multiples, SMTT(30)
        <5>2. nextRefreshBank' = (g + 1) * BanksPerRefresh
          BY <4>1, <4>2, <4>3, <5>1, SMTT(30)
        <5>3. g + 1 \in 0..Groups - 1
          BY <4>2, <4>5, SMTT(30)
        <5> QED BY <5>2, <5>3
      <4> QED BY <4>2, <4>4, <4>5, SMTT(30)
    <3>7. handledRefresh' = TRUE /\ UNCHANGED <<starvationCounter, delayedRefreshCounter>>
      BY <2>3 DEF Refreshes
    <3> QED BY <2>1, <2>2, <3>3, <3>4, <3>5, <3>6, <3>7, TypedFacts, TypedRest, <1>TypedAgain
  <2>4. CASE /\ delayedRefreshCounter' = [delayedRefreshCounter EXCEPT ![h] = @ + 1]
             /\ delayedRefreshCounter[h] + 1 < DelayedRefreshThreshold
             /\ UNCHANGED <<commandQueues, view, refreshQueued, nextRefreshBank, handledRefresh, wakes>>
    <3>1. /\ delayedRefreshCounter' \in [Heads -> Nat]
          /\ \A g \in Heads : delayedRefreshCounter'[g] < DelayedRefreshThreshold
      BY <2>4, TypedRest, SMTT(30)
    <3> QED BY <2>1, <2>2, <2>4, <3>1, TypedFacts, TypedRest, <1>TypedAgain DEF view
  <2> QED BY <2>3, <2>4, RefreshParts

\* So does the clock, which moves when no countdown is over.
<1>AdvanceTyped.
    ASSUME Typed, Advance
    PROVE  Typed'
  <2> USE <1>AdvanceTyped
  <2>1. /\ ~CleanupDue /\ ~RefreshDue /\ ~CommandDue /\ dev' = Tick(dev)
        /\ lastIssue' = FALSE /\ handledRefresh' = FALSE
        /\ cycles' = [t \in 0..1 |-> IF t = 0 THEN cycles[1] ELSE 0]
        /\ wakes' = {t - 1 : t \in wakes} /\ cleanups' = {t - 1 : t \in cleanups}
        /\ pulse' = [h \in Heads |-> pulse[h] - 1]
        /\ UNCHANGED <<config, commandQueues, view, bankNeedRefresh, delayedRefreshCounter, nextRefreshBank,
                       refreshQueued, curQueue>>
    BY DEF Advance
  <2>2. dev' \in Devices
    BY <2>1, RankTypes, TypedFacts
  <2>3. cycles' \in [0..1 -> Nat]
    BY <2>1, TypedRest, SMTT(30)
  <2>4. wakes' \subseteq Nat
    BY <2>1, TypedFacts, SMTT(30) DEF CommandDue
  <2>5. cleanups' \subseteq 0..1 /\ (1 \in cleanups => 0 \in cleanups')
    BY <2>1, TypedFacts, SMTT(30) DEF CleanupDue
  <2>6. pulse' \in [Heads -> Nat]
    BY <2>1, TypedRest, SMT DEF RefreshDue
  <2>7. NoneIssued(commandQueues') \/ 0 \in cleanups'
    BY <2>1, <2>5, TypedRest DEF CleanupDue
  <2> QED BY <2>1, <2>2, <2>3, <2>4, <2>5, <2>6, <2>7, Aged, TypedFacts, TypedRest, <1>TypedAgain DEF view

<1> SUFFICES ASSUME Typed, [Next]_vars PROVE Typed'
  OBVIOUS
<1>1. CASE Next
  BY <1>1, <1>ArriveTyped, <1>CycleTyped, <1>CallbackTyped, <1>CleanupTyped, <1>ResponseTyped, <1>RefreshTyped,
     <1>AdvanceTyped DEF Next, Handle
<1>2. CASE UNCHANGED vars
  BY <1>2, TypedFacts, TypedRest, <1>TypedAgain DEF vars, view, refresh, issue
<1> QED BY <1>1, <1>2

\* The types, and what they need, hold throughout.
LEMMA TypedAlways ==
  ASSUME Counting
  PROVE  Spec => []Typed
BY InitTyped, NextTyped, PTL DEF Spec

-----------------------------------------------------------------------------
\* A bank is kept for a refresh while one is queued

\* A refresh that is still to be issued.
RefreshAt(queues, q, i) ==
  i \in 1..Len(queues[q]) /\ ~queues[q][i].issued /\ queues[q][i].type = "REFRESH"

\* The flags of a group are set while its refresh is queued, which is in one place.
OneRefresh(queues, flags) ==
  /\ \A q \in Queues : \A i \in 1..Len(queues[q]) :
       RefreshAt(queues, q, i) => /\ queues[q][i].bank \in Heads
                                  /\ \A b \in Group(queues[q][i].bank) : flags[b]
  /\ \A q, p \in Queues : \A i \in 1..Len(queues[q]), j \in 1..Len(queues[p]) :
       RefreshAt(queues, q, i) /\ RefreshAt(queues, p, j) /\ queues[q][i].bank = queues[p][j].bank
       => q = p /\ i = j
  /\ \A b \in Banks : flags[b] =>
       \E q \in Queues : \E i \in 1..Len(queues[q]) :
         RefreshAt(queues, q, i) /\ b \in Group(queues[q][i].bank)

RowsKeptClosed == \A b \in Banks : refreshQueued[b] => ~activateQueued[b]

\* The groups of two heads have no bank in common.
LEMMA GroupsApart ==
  ASSUME Counting, NEW h \in Heads, NEW g \in Heads
  PROVE  /\ h \in Group(h) /\ Group(h) \subseteq Banks
         /\ \A b \in Group(h) : b \in Group(g) => h = g
<1> DEFINE k == BanksPerRefresh
<1>1. k \in Nat \ {0} /\ Groups \in Nat \ {0}
  BY Constants, GroupCount
<1>2. PICK x \in 0..Groups - 1 : h = x * k
  BY HeadMultiples
<1>3. PICK y \in 0..Groups - 1 : g = y * k
  BY HeadMultiples
<1>4. Group(h) = h..h + k - 1 /\ Group(g) = g..g + k - 1
  BY <1>2, <1>3, GroupMembers
<1>5. x \in Nat /\ y \in Nat /\ h \in Nat /\ g \in Nat
  BY <1>1, <1>2, <1>3, Multiples, SMTT(30)
<1>6. (x < y => h + k <= g) /\ (y < x => g + k <= h)
  BY <1>1, <1>2, <1>3, <1>5, Multiples
<1>7. h \in Group(h)
  BY <1>1, <1>4, <1>5, SMTT(30)
<1>8. ASSUME NEW b \in Group(h), b \in Group(g) PROVE x = y
  BY <1>1, <1>4, <1>5, <1>6, <1>8, SMTT(30)
<1> QED BY <1>2, <1>3, <1>7, <1>8 DEF Group

\* What the refreshes and the flags are, and what every step keeps of it.
Refreshed == Typed /\ OneRefresh(commandQueues, refreshQueued) /\ RowsKeptClosed

\* A shift by none or one takes no two positions to the same one.
LEMMA SmallShifts ==
  /\ \A k \in {0, 1} : k \in Nat
  /\ \A i, j, k \in Nat : i + k = j + k => i = j
BY SMT

RefreshedNext ==
  /\ OneRefresh(commandQueues', refreshQueued')
  /\ \A b \in Banks : refreshQueued'[b] => ~activateQueued'[b]

\* Every step keeps them, as long as the pulses find the refreshes issued.
LEMMA NextRefreshed ==
  ASSUME Counting
  PROVE  Refreshed /\ RefreshInTime /\ [Next]_vars => Refreshed'
\* Scheduling a transaction queues no refresh.
<1>ScheduleRefresh.
    ASSUME Typed, NEW i, NEW queues, ScheduleEffect(i, queues), NEW flags, OneRefresh(commandQueues, flags)
    PROVE  OneRefresh(queues, flags)
  <2> USE <1>ScheduleRefresh
  <2> DEFINE t == memQueue[i]
             q == QueueId(t.bank, t.sub)
  <2>1. /\ q \in Queues /\ commandQueues[q] = <<>>
        /\ \A p \in Queues : p # q => queues[p] = commandQueues[p]
    BY DEF ScheduleEffect
  <2>2. \A j \in 1..Len(queues[q]) : queues[q][j].type # "REFRESH"
    <3> DEFINE last == IsLastRequest(t, Without(i))
               cs == Commands(t, last)
    <3>1. t \in TransactionRecords /\ last \in BOOLEAN /\ queues[q] = cs
      BY DEF ScheduleEffect
    <3>2. \A j \in 1..Len(cs) : cs[j].type # "REFRESH"
      BY <3>1, TypedFacts, CommandsType
    <3> HIDE DEF cs
    <3> QED BY <3>1, <3>2
  <2> HIDE DEF t, q
  <2>3. \A p \in Queues : \A j : RefreshAt(queues, p, j) <=> RefreshAt(commandQueues, p, j)
    BY <2>1, <2>2, SMT DEF RefreshAt
  <2>4. \A p \in Queues : \A j : RefreshAt(queues, p, j) =>
          queues[p] = commandQueues[p] /\ j \in 1..Len(queues[p])
    BY <2>1, <2>2 DEF RefreshAt
  <2>5. ASSUME NEW p \in Queues, NEW j \in 1..Len(queues[p]), RefreshAt(queues, p, j)
        PROVE  queues[p][j].bank \in Heads /\ \A b \in Group(queues[p][j].bank) : flags[b]
    <3>1. queues[p] = commandQueues[p] /\ RefreshAt(commandQueues, p, j)
      BY <2>3, <2>4, <2>5
    <3> QED BY <3>1 DEF OneRefresh
  <2>6. ASSUME NEW p \in Queues, NEW s \in Queues, NEW j \in 1..Len(queues[p]), NEW l \in 1..Len(queues[s]),
               RefreshAt(queues, p, j), RefreshAt(queues, s, l), queues[p][j].bank = queues[s][l].bank
        PROVE  p = s /\ j = l
    <3>1. /\ queues[p] = commandQueues[p] /\ RefreshAt(commandQueues, p, j)
          /\ queues[s] = commandQueues[s] /\ RefreshAt(commandQueues, s, l)
      BY <2>3, <2>4, <2>6
    <3> QED BY <2>6, <3>1 DEF OneRefresh
  <2>7. ASSUME NEW b \in Banks, flags[b]
        PROVE  \E p \in Queues : \E j \in 1..Len(queues[p]) :
                 RefreshAt(queues, p, j) /\ b \in Group(queues[p][j].bank)
    <3>0. PICK p \in Queues : \E j \in 1..Len(commandQueues[p]) :
            RefreshAt(commandQueues, p, j) /\ b \in Group(commandQueues[p][j].bank)
      BY <2>7 DEF OneRefresh
    <3>1. PICK j \in 1..Len(commandQueues[p]) :
            RefreshAt(commandQueues, p, j) /\ b \in Group(commandQueues[p][j].bank)
      BY <3>0
    <3>2. RefreshAt(queues, p, j) /\ j \in 1..Len(queues[p]) /\ queues[p] = commandQueues[p]
      BY <2>3, <2>4, <3>1
    <3> QED BY <3>1, <3>2
  <2> QED BY <2>5, <2>6, <2>7 DEF OneRefresh

\* Issuing a refresh takes it away together with the flags of its group.
<1>IssueRefresh.
    ASSUME NEW queues \in QueueFunctions, NoneIssued(queues), NEW q \in Queues, IssueEffect(queues, q),
           refreshQueued \in [Banks -> BOOLEAN], OneRefresh(queues, refreshQueued)
    PROVE  OneRefresh(commandQueues', refreshQueued')
  <2> USE <1>IssueRefresh
  <2> DEFINE new == commandQueues'
             c == queues[q][1]
             flags == refreshQueued'
  <2>1. \A p \in Queues : \A i \in 1..Len(queues[p]) :
          /\ new[p][i].bank = queues[p][i].bank /\ new[p][i].type = queues[p][i].type
          /\ new[p][i].issued <=> p = q /\ i = 1
    BY DEF IssueEffect, NoneIssued
  <2>2. \A p \in Queues : Len(new[p]) = Len(queues[p])
    BY DEF IssueEffect
  <2>3. 1 \in 1..Len(queues[q]) /\ flags = IF c.type = "REFRESH" THEN ResetRefreshQueued(c) ELSE refreshQueued
    BY DEF IssueEffect
  <2>4. \A b \in Banks : flags[b] <=> refreshQueued[b] /\ ~(c.type = "REFRESH" /\ b \in Group(c.bank))
    BY <2>3 DEF ResetRefreshQueued
  <2> HIDE DEF new, flags
  <2>5. \A p \in Queues : \A i : RefreshAt(new, p, i) <=> RefreshAt(queues, p, i) /\ ~(p = q /\ i = 1)
    BY <2>1, <2>2, SMTT(30) DEF RefreshAt, NoneIssued
  <2>6. c.type = "REFRESH" => RefreshAt(queues, q, 1) /\ c.bank \in Heads
    BY <2>3 DEF RefreshAt, NoneIssued, OneRefresh
  <2>7. ASSUME NEW p \in Queues, NEW i \in 1..Len(new[p]), RefreshAt(new, p, i)
        PROVE  new[p][i].bank \in Heads /\ \A b \in Group(new[p][i].bank) : flags[b]
    <3> DEFINE h == queues[p][i].bank
    <3>1. /\ RefreshAt(queues, p, i) /\ ~(p = q /\ i = 1) /\ i \in 1..Len(queues[p]) /\ new[p][i].bank = h
      BY <2>1, <2>2, <2>5, <2>7
    <3>2. h \in Heads /\ \A b \in Group(h) : refreshQueued[b]
      BY <3>1 DEF OneRefresh
    <3>3. c.type = "REFRESH" => h # c.bank
      BY <2>3, <2>6, <3>1 DEF OneRefresh
    <3> HIDE DEF h, c
    <3>4. \A b \in Group(h) : b \in Banks /\ ~(c.type = "REFRESH" /\ b \in Group(c.bank))
      BY <2>6, <3>2, <3>3, GroupsApart
    <3> QED BY <2>4, <3>1, <3>2, <3>4
  <2>8. ASSUME NEW p \in Queues, NEW s \in Queues, NEW i \in 1..Len(new[p]), NEW j \in 1..Len(new[s]),
               RefreshAt(new, p, i), RefreshAt(new, s, j), new[p][i].bank = new[s][j].bank
        PROVE  p = s /\ i = j
    <3>1. /\ RefreshAt(queues, p, i) /\ i \in 1..Len(queues[p]) /\ new[p][i].bank = queues[p][i].bank
          /\ RefreshAt(queues, s, j) /\ j \in 1..Len(queues[s]) /\ new[s][j].bank = queues[s][j].bank
      BY <2>1, <2>2, <2>5, <2>8
    <3>2. queues[p][i].bank = queues[s][j].bank
      BY <2>8, <3>1
    <3> QED BY <3>1, <3>2 DEF OneRefresh
  <2>9. ASSUME NEW b \in Banks, flags[b]
        PROVE  \E p \in Queues : \E i \in 1..Len(new[p]) : RefreshAt(new, p, i) /\ b \in Group(new[p][i].bank)
    <3>1. refreshQueued[b] /\ ~(c.type = "REFRESH" /\ b \in Group(c.bank))
      BY <2>4, <2>9
    <3>2. PICK p \in Queues : \E i \in 1..Len(queues[p]) :
            RefreshAt(queues, p, i) /\ b \in Group(queues[p][i].bank)
      BY <3>1 DEF OneRefresh
    <3>3. PICK i \in 1..Len(queues[p]) : RefreshAt(queues, p, i) /\ b \in Group(queues[p][i].bank)
      BY <3>2
    <3>4. ~(p = q /\ i = 1)
      BY <3>1, <3>3 DEF RefreshAt
    <3> QED BY <2>1, <2>2, <2>5, <3>3, <3>4
  <2> QED BY <2>7, <2>8, <2>9 DEF OneRefresh, new, flags

\* The cleanup takes away no refresh that is still to be issued.
<1>CleanupRefresh.
    ASSUME Typed, CleanupEffect, NEW flags, OneRefresh(commandQueues, flags)
    PROVE  OneRefresh(commandQueues', flags)
  <2> USE <1>CleanupRefresh
  <2> DEFINE old == commandQueues
             new == commandQueues'
             K(q) == Dropped(q)
  <2>1. \A q \in Queues :
          /\ K(q) \in {0, 1}
          /\ \A i \in 1..Len(new[q]) : /\ i + K(q) \in 1..Len(old[q]) /\ new[q][i] = old[q][i + K(q)]
                                       /\ i \in Nat \ {0}
          /\ \A i \in 1..Len(old[q]) : ~old[q][i].issued =>
               i - K(q) \in 1..Len(new[q]) /\ i - K(q) + K(q) = i
    BY CleanupShift
  <2>2. OneRefresh(old, flags)
    OBVIOUS
  <2> HIDE DEF K, old, new
  <2>3. \A q \in Queues : \A i \in 1..Len(new[q]) :
          RefreshAt(new, q, i) <=> RefreshAt(old, q, i + K(q))
    BY <2>1 DEF RefreshAt
  <2>4. ASSUME NEW q \in Queues, NEW i \in 1..Len(new[q]), RefreshAt(new, q, i)
        PROVE  new[q][i].bank \in Heads /\ \A b \in Group(new[q][i].bank) : flags[b]
    <3>1. i + K(q) \in 1..Len(old[q]) /\ RefreshAt(old, q, i + K(q)) /\ new[q][i] = old[q][i + K(q)]
      BY <2>1, <2>3, <2>4
    <3> QED BY <2>2, <3>1 DEF OneRefresh
  <2>5. ASSUME NEW q \in Queues, NEW p \in Queues, NEW i \in 1..Len(new[q]), NEW j \in 1..Len(new[p]),
               RefreshAt(new, q, i), RefreshAt(new, p, j), new[q][i].bank = new[p][j].bank
        PROVE  q = p /\ i = j
    <3>1. i + K(q) \in 1..Len(old[q]) /\ RefreshAt(old, q, i + K(q)) /\ new[q][i] = old[q][i + K(q)]
      BY <2>1, <2>3, <2>5
    <3>2. j + K(p) \in 1..Len(old[p]) /\ RefreshAt(old, p, j + K(p)) /\ new[p][j] = old[p][j + K(p)]
      BY <2>1, <2>3, <2>5
    <3>3. q = p /\ i + K(q) = j + K(p)
      <4>1. old[q][i + K(q)].bank = old[p][j + K(p)].bank
        BY <2>5, <3>1, <3>2
      <4> QED BY <2>2, <3>1, <3>2, <4>1 DEF OneRefresh
    <3>4. i \in Nat /\ j \in Nat /\ K(q) \in Nat
      BY <2>1, SmallShifts
    <3> QED BY <3>3, <3>4, SmallShifts
  <2>6. ASSUME NEW b \in Banks, flags[b]
        PROVE  \E q \in Queues : \E i \in 1..Len(new[q]) : RefreshAt(new, q, i) /\ b \in Group(new[q][i].bank)
    <3>1. PICK q \in Queues : \E i \in 1..Len(old[q]) : RefreshAt(old, q, i) /\ b \in Group(old[q][i].bank)
      BY <2>2, <2>6 DEF OneRefresh
    <3>2. PICK i \in 1..Len(old[q]) : RefreshAt(old, q, i) /\ b \in Group(old[q][i].bank)
      BY <3>1
    <3> DEFINE j == i - K(q)
    <3>3. j \in 1..Len(new[q]) /\ j + K(q) = i
      BY <2>1, <3>2 DEF RefreshAt
    <3> HIDE DEF j
    <3>4. RefreshAt(new, q, j) /\ new[q][j] = old[q][i]
      BY <2>1, <2>3, <3>2, <3>3
    <3> QED BY <3>2, <3>3, <3>4
  <2> QED BY <2>4, <2>5, <2>6 DEF OneRefresh, new

\* A group whose refresh is issued gets the next one.
<1>AppendRefresh.
    ASSUME Typed, NEW h \in Heads, Refreshes(h), OneRefresh(commandQueues, refreshQueued), ~refreshQueued[h]
    PROVE  OneRefresh(commandQueues', refreshQueued')
  <2> USE <1>AppendRefresh
  <2> DEFINE old == commandQueues
             new == commandQueues'
             flags == refreshQueued'
             home == QueueId(h, 0)
  <2>1. RefreshEffect(h) /\ home \in Queues /\ h \in Banks /\ Group(h) \subseteq Banks /\ h \in Group(h)
    BY RefreshEffects, QueueIds, HeadMultiples, GroupsApart, TypedFacts, Constants, SMTT(30) DEF SubArrays
  <2>2. \A b \in Banks : flags[b] <=> refreshQueued[b] \/ b \in Group(h)
    BY DEF Refreshes
  <2>3. ASSUME NEW q \in Queues
        PROVE  /\ Len(new[q]) \in Nat
               /\ \A i \in 1..Len(old[q]) : i \in 1..Len(new[q]) /\ new[q][i] = old[q][i]
               /\ \A i \in 1..Len(new[q]) : \/ i \in 1..Len(old[q])
                                            \/ new[q][i].type = "PRECHARGE_ALL"
                                            \/ new[q][i].bank = h /\ i = Len(new[q]) /\ q = home
               /\ q = home => /\ Len(new[q]) \in 1..Len(new[q]) /\ Len(new[q]) \notin 1..Len(old[q])
                              /\ new[q][Len(new[q])].type = "REFRESH" /\ ~new[q][Len(new[q])].issued
                              /\ new[q][Len(new[q])].bank = h
    <3> DEFINE add == RefreshCommands(q, h)
               m == Len(old[q])
               n == Len(add)
    <3>1. /\ \A i \in 1..m : i \in 1..Len(new[q]) /\ new[q][i] = old[q][i]
          /\ \A i \in 1..n : new[q][m + i] = add[i]
          /\ \A i \in 1..Len(new[q]) : i \in 1..m \/ i - m \in 1..n
          /\ Len(new[q]) = m + n
      BY <2>1 DEF RefreshEffect
    <3>2. m \in Nat /\ n \in Nat
      <4>1. m \in Nat
        BY TypedFacts, SMT DEF QueueFunctions
      <4>2. add \in Seq(CommandRecords)
        BY <2>1 DEF RefreshEffect
      <4> QED BY <4>1, <4>2, SMTT(30)
    <3>3. /\ \A i \in 1..n : \/ add[i].type = "PRECHARGE_ALL"
                             \/ add[i].bank = h /\ i = n /\ q = home
          /\ \A i \in 1..n : add[i].type = "REFRESH" => add[i].bank = h
          /\ \A i \in 1..n : ~add[i].issued
          /\ q = home => n # 0 /\ add[n].type = "REFRESH"
      <4>1. RefreshShape(add, q, h)
        BY RefreshCommandsShape, TypedFacts
      <4> HIDE DEF add
      <4> QED BY <4>1 DEF RefreshShape
    <3> HIDE DEF add, m, n
    <3>4. \A i \in 1..Len(new[q]) : i \notin 1..m => new[q][i] = add[i - m] /\ i - m \in 1..n
      <4> SUFFICES ASSUME NEW i \in 1..Len(new[q]), i \notin 1..m
                   PROVE  new[q][i] = add[i - m] /\ i - m \in 1..n
        OBVIOUS
      <4>1. i - m \in 1..n /\ m + (i - m) = i
        BY <3>1, <3>2, SMT
      <4>2. new[q][m + (i - m)] = add[i - m]
        BY <3>1, <4>1
      <4> QED BY <4>1, <4>2
    <3>5. Len(new[q]) \in Nat
      BY <3>1, <3>2, SMTT(30)
    <3>6. \A i \in 1..Len(new[q]) : i - m = n => i = Len(new[q])
      BY <3>1, <3>2, SMTT(30)
    <3>7. \A i \in 1..Len(new[q]) : \/ i \in 1..m \/ new[q][i].type = "PRECHARGE_ALL"
                                    \/ new[q][i].bank = h /\ i = Len(new[q]) /\ q = home
      BY <3>3, <3>4, <3>6
    <3>8. ASSUME q = home
          PROVE  /\ Len(new[q]) \in 1..Len(new[q]) /\ Len(new[q]) \notin 1..m
                 /\ new[q][Len(new[q])] = add[n] /\ n \in 1..n
      <4>1. n # 0
        BY <3>3, <3>8
      <4>2. Len(new[q]) \in 1..Len(new[q]) /\ Len(new[q]) \notin 1..m /\ n \in 1..n
        BY <3>1, <3>2, <4>1, SMTT(30)
      <4> QED BY <3>1, <4>2
    <3> QED BY <3>1, <3>3, <3>5, <3>7, <3>8 DEF m
  <2>4. OneRefresh(old, refreshQueued)
    OBVIOUS
  <2> HIDE DEF old, new, flags, home
  <2>5. \A q \in Queues : \A i : RefreshAt(new, q, i) <=> RefreshAt(old, q, i) \/ (q = home /\ i = Len(new[q]))
    BY <2>3, SMT DEF RefreshAt
  <2>6. \A q \in Queues : \A i \in 1..Len(old[q]) : RefreshAt(old, q, i) => old[q][i].bank # h
    BY <2>1, <2>4 DEF OneRefresh
  <2>7. ASSUME NEW q \in Queues, NEW i \in 1..Len(new[q]), RefreshAt(new, q, i)
        PROVE  new[q][i].bank \in Heads /\ \A b \in Group(new[q][i].bank) : flags[b]
    <3>1. CASE RefreshAt(old, q, i)
      <4>1. i \in 1..Len(old[q]) /\ new[q][i] = old[q][i]
        BY <2>3, <3>1 DEF RefreshAt
      <4>2. old[q][i].bank \in Heads /\ \A b \in Group(old[q][i].bank) : refreshQueued[b]
        BY <2>4, <3>1, <4>1 DEF OneRefresh
      <4> QED BY <2>2, <4>1, <4>2 DEF Group
    <3>2. CASE q = home /\ i = Len(new[q])
      BY <2>1, <2>2, <2>3, <3>2
    <3> QED BY <2>5, <2>7, <3>1, <3>2
  <2>8. ASSUME NEW q \in Queues, NEW p \in Queues, NEW i \in 1..Len(new[q]), NEW j \in 1..Len(new[p]),
               RefreshAt(new, q, i), RefreshAt(new, p, j), new[q][i].bank = new[p][j].bank
        PROVE  q = p /\ i = j
    <3>1. \A s \in Queues : \A l : RefreshAt(old, s, l) =>
            l \in 1..Len(old[s]) /\ new[s][l] = old[s][l] /\ new[s][l].bank # h
      BY <2>3, <2>6, SMTT(30) DEF RefreshAt
    <3>2. CASE RefreshAt(old, q, i) /\ RefreshAt(old, p, j)
      <4>1. /\ i \in 1..Len(old[q]) /\ j \in 1..Len(old[p])
            /\ old[q][i].bank = old[p][j].bank
        BY <2>8, <3>1, <3>2
      <4> QED BY <2>4, <3>2, <4>1 DEF OneRefresh
    <3>3. CASE ~RefreshAt(old, q, i) \/ ~RefreshAt(old, p, j)
      BY <2>3, <2>5, <2>8, <3>1, <3>3, SMTT(30)
    <3> QED BY <3>2, <3>3
  <2>9. ASSUME NEW b \in Banks, flags[b]
        PROVE  \E q \in Queues : \E i \in 1..Len(new[q]) : RefreshAt(new, q, i) /\ b \in Group(new[q][i].bank)
    <3>1. CASE refreshQueued[b]
      <4>1. PICK q \in Queues : \E i \in 1..Len(old[q]) : RefreshAt(old, q, i) /\ b \in Group(old[q][i].bank)
        BY <2>4, <3>1 DEF OneRefresh
      <4> QED BY <2>3, <2>5, <4>1, SMTT(30)
    <3>2. CASE b \in Group(h)
      <4>1. /\ Len(new[home]) \in 1..Len(new[home]) /\ RefreshAt(new, home, Len(new[home]))
            /\ new[home][Len(new[home])].bank = h
        BY <2>1, <2>3, <2>5
      <4> QED BY <2>1, <3>2, <4>1
    <3> QED BY <2>2, <2>9, <3>1, <3>2
  <2> QED BY <2>7, <2>8, <2>9 DEF OneRefresh, new, flags

\* Cycling the queues keeps the flags and the refreshes together.
<1>CycleRefresh.
    ASSUME Typed, NEW queues \in QueueFunctions, NoneIssued(queues) \/ lastIssue,
           OneRefresh(queues, refreshQueued), CycleCommandQueues(queues)
    PROVE  /\ OneRefresh(commandQueues', refreshQueued')
           /\ \A b \in Banks : refreshQueued'[b] => refreshQueued[b]
  <2> USE <1>CycleRefresh
  <2>1. CASE Rests(queues)
    BY <2>1 DEF Rests, issue
  <2>2. ASSUME NEW q \in Queues, Issues(queues, q)
        PROVE  /\ OneRefresh(commandQueues', refreshQueued')
               /\ \A b \in Banks : refreshQueued'[b] => refreshQueued[b]
    <3>1. IssueEffect(queues, q)
      BY <2>2, IssueEffects
    <3>2. NoneIssued(queues)
      BY <3>1 DEF IssueEffect
    <3>3. OneRefresh(commandQueues', refreshQueued')
      BY <3>1, <3>2, TypedFacts, <1>IssueRefresh
    <3>4. \A b \in Banks : refreshQueued'[b] => refreshQueued[b]
      BY <3>1 DEF IssueEffect, ResetRefreshQueued
    <3> QED BY <3>3, <3>4
  <2> QED BY <2>1, <2>2, CycleCases, TypedFacts

\* A cycle of FRFCFS schedules nothing for a bank that is kept for a refresh.
<1>CycleRefreshed.
    ASSUME Refreshed, Cycle
    PROVE  RefreshedNext
  <2> USE <1>CycleRefreshed
  <2>1. Typed /\ OneRefresh(commandQueues, refreshQueued) /\ RowsKeptClosed
    BY DEF Refreshed
  <2>2. ~CleanupDue
    BY <2>1, CycleParts
  <2>3. PICK queues : /\ \/ queues = commandQueues /\ UNCHANGED <<memQueue, view, wakes>>
                         \/ \E i \in Ready : Schedules(i, queues)
                      /\ CycleCommandQueues(queues)
    BY <2>1, CycleParts
  <2>4. /\ queues \in QueueFunctions /\ (NoneIssued(queues) \/ lastIssue) /\ OneRefresh(queues, refreshQueued)
        /\ \A b \in Banks : refreshQueued[b] => ~activateQueued'[b]
    <3>1. CASE queues = commandQueues /\ UNCHANGED <<memQueue, view, wakes>>
      BY <2>1, <2>2, <3>1, TypedFacts, TypedRest DEF RowsKeptClosed, CleanupDue, view
    <3>2. ASSUME NEW i \in Ready, Schedules(i, queues)
          PROVE  /\ queues \in QueueFunctions /\ (NoneIssued(queues) \/ lastIssue)
                 /\ OneRefresh(queues, refreshQueued)
                 /\ \A b \in Banks : refreshQueued[b] => ~activateQueued'[b]
      <4>1. ScheduleEffect(i, queues)
        BY <2>1, <3>2, ScheduleEffects
      <4>2. OneRefresh(queues, refreshQueued)
        BY <2>1, <4>1, <1>ScheduleRefresh
      <4>3. \A b \in Banks : b # memQueue[i].bank => activateQueued'[b] = activateQueued[b]
        BY <2>1, <4>1, TypedFacts DEF ScheduleEffect, UpdateView
      <4>4. ~refreshQueued[memQueue[i].bank]
        BY <4>1 DEF ScheduleEffect
      <4> QED BY <2>1, <2>2, <3>2, <4>2, <4>3, <4>4, ScheduleTyped DEF RowsKeptClosed
    <3> QED BY <2>3, <3>1, <3>2
  <2> QED BY <2>1, <2>3, <2>4, <1>CycleRefresh DEF RefreshedNext

\* A command wakeup clears the flags of a group with the refresh that goes.
<1>CallbackRefreshed.
    ASSUME Refreshed, CommandQueueCallback
    PROVE  RefreshedNext
  <2> USE <1>CallbackRefreshed
  <2>1. Typed /\ OneRefresh(commandQueues, refreshQueued) /\ RowsKeptClosed
    BY SMT DEF Refreshed
  <2>2. CycleCommandQueues(commandQueues) /\ activateQueued' = activateQueued /\ ~CleanupDue
    BY DEF CommandQueueCallback, view
  <2>3. commandQueues \in QueueFunctions /\ (NoneIssued(commandQueues) \/ lastIssue)
    BY <2>1, <2>2, TypedFacts, TypedRest DEF CleanupDue
  <2> QED BY <2>1, <2>2, <2>3, <1>CycleRefresh DEF RefreshedNext, RowsKeptClosed

\* A pulse queues a refresh for a group that has none queued, and closes its rows in the view.
<1>HandlerRefreshed.
    ASSUME Refreshed, RefreshInTime, NEW h \in Heads, RefreshCallback(h)
    PROVE  RefreshedNext
  <2> USE <1>HandlerRefreshed
  <2>1. Typed /\ OneRefresh(commandQueues, refreshQueued) /\ RowsKeptClosed
    BY DEF Refreshed
  <2>2. ~refreshQueued[h]
    BY <2>1, RefreshParts DEF RefreshInTime
  <2>3. CASE Refreshes(h)
    <3>1. OneRefresh(commandQueues', refreshQueued')
      BY <2>1, <2>2, <2>3, <1>AppendRefresh
    <3>2. \A b \in Banks : refreshQueued'[b] => ~activateQueued'[b]
      BY <2>1, <2>3 DEF Refreshes, CloseGroup, RowsKeptClosed
    <3> QED BY <3>1, <3>2 DEF RefreshedNext
  <2>4. CASE UNCHANGED <<commandQueues, view, refreshQueued, nextRefreshBank, handledRefresh, wakes>>
    BY <2>1, <2>4 DEF RefreshedNext, RowsKeptClosed, view
  <2> QED BY <2>1, <2>3, <2>4, RefreshParts

<1> SUFFICES ASSUME Refreshed, RefreshInTime, [Next]_vars PROVE Refreshed'
  OBVIOUS
<1>1. Typed /\ OneRefresh(commandQueues, refreshQueued) /\ RowsKeptClosed
  BY DEF Refreshed
<1>2. Typed' /\ Queues' = Queues
  BY <1>1, NextTyped, ConfigUnchanged, ConfigKept
<1>3. RefreshedNext
  <2>1. CASE CleanupCallback
    <3>1. OneRefresh(commandQueues', refreshQueued)
      BY <1>1, <2>1, CleanupEffects, <1>CleanupRefresh
    <3> QED BY <1>1, <2>1, <3>1 DEF CleanupCallback, RefreshedNext, RowsKeptClosed, view
  <2>2. CASE UNCHANGED <<commandQueues, refreshQueued, activateQueued>>
    BY <1>1, <2>2 DEF RefreshedNext, RowsKeptClosed
  <2>3. CASE Arrive \/ Advance \/ (\E e \in dev.events : Response(e)) \/ UNCHANGED vars
    <3>1. UNCHANGED <<commandQueues, refreshQueued, activateQueued>>
      BY <2>3 DEF Arrive, Enqueue, Advance, Response, vars, view, issue
    <3> QED BY <2>2, <3>1
  <2> QED BY <2>1, <2>3, <1>CycleRefreshed, <1>CallbackRefreshed, <1>HandlerRefreshed DEF Next, Handle
<1>4. OneRefresh(commandQueues, refreshQueued)'
  BY <1>2, <1>3 DEF RefreshedNext, OneRefresh, RefreshAt
<1> QED BY <1>2, <1>3, <1>4 DEF Refreshed, RefreshedNext, RowsKeptClosed

\* The flags agree with the refreshes throughout.
LEMMA RefreshedAlways ==
  ASSUME Counting
  PROVE  Spec /\ []RefreshInTime => []RefreshAgrees
<1>1. Init => Refreshed
  <2> SUFFICES ASSUME Init PROVE Refreshed
    BY SMT
  <2>1. /\ \A q \in Queues : commandQueues[q] = <<>>
        /\ \A b \in Banks : ~refreshQueued[b]
    BY DEF Init
  <2>2. OneRefresh(commandQueues, refreshQueued)
    BY <2>1, SMT DEF OneRefresh
  <2> QED BY <2>1, <2>2, InitTyped DEF Refreshed, RowsKeptClosed
<1>2. Refreshed => RefreshAgrees
  <2> SUFFICES ASSUME Refreshed, NEW b \in Banks
               PROVE  /\ Cardinality({x \in Pending : At(x).type = "REFRESH" /\ b \in Group(At(x).bank)})
                           = IF refreshQueued[b] THEN 1 ELSE 0
                      /\ refreshQueued[b] => ~activateQueued[b]
    BY DEF RefreshAgrees
  <2>1. OneRefresh(commandQueues, refreshQueued) /\ RowsKeptClosed
    BY DEF Refreshed
  <2> DEFINE S == {x \in Pending : At(x).type = "REFRESH" /\ b \in Group(At(x).bank)}
  <2>2. \A x : x \in S <=> \E q \in Queues : \E i \in 1..Len(commandQueues[q]) :
                 x = <<q, i>> /\ RefreshAt(commandQueues, q, i) /\ b \in Group(commandQueues[q][i].bank)
    <3>1. \A q, i : At(<<q, i>>) = commandQueues[q][i]
      BY DEF At
    <3>2. \A x : x \in Pending <=> \E q \in Queues : \E i \in 1..Len(commandQueues[q]) :
                   x = <<q, i>> /\ ~commandQueues[q][i].issued
      BY SMT DEF Pending, Unissued
    <3>3. ASSUME NEW x \in S
          PROVE  \E q \in Queues : \E i \in 1..Len(commandQueues[q]) :
                   x = <<q, i>> /\ RefreshAt(commandQueues, q, i) /\ b \in Group(commandQueues[q][i].bank)
      <4>1. x \in Pending /\ At(x).type = "REFRESH" /\ b \in Group(At(x).bank)
        BY <3>3
      <4>2. PICK q \in Queues : \E i \in 1..Len(commandQueues[q]) :
              x = <<q, i>> /\ ~commandQueues[q][i].issued
        BY <3>2, <4>1
      <4>3. PICK i \in 1..Len(commandQueues[q]) : x = <<q, i>> /\ ~commandQueues[q][i].issued
        BY <4>2
      <4>4. At(x) = commandQueues[q][i]
        BY <3>1, <4>3
      <4>5. RefreshAt(commandQueues, q, i) /\ b \in Group(commandQueues[q][i].bank)
        BY <4>1, <4>3, <4>4 DEF RefreshAt
      <4> QED BY <4>3, <4>5
    <3>4. ASSUME NEW q \in Queues, NEW i \in 1..Len(commandQueues[q]),
                 RefreshAt(commandQueues, q, i), b \in Group(commandQueues[q][i].bank)
          PROVE  <<q, i>> \in S
      <4>1. <<q, i>> \in Pending
        BY <3>2, <3>4 DEF RefreshAt
      <4>2. At(<<q, i>>).type = "REFRESH" /\ b \in Group(At(<<q, i>>).bank)
        BY <3>1, <3>4 DEF RefreshAt
      <4> QED BY <4>1, <4>2
    <3> HIDE DEF S
    <3> QED BY <3>3, <3>4
  <2> HIDE DEF S
  <2>3. CASE refreshQueued[b]
    <3>1. PICK q \in Queues : \E i \in 1..Len(commandQueues[q]) :
            RefreshAt(commandQueues, q, i) /\ b \in Group(commandQueues[q][i].bank)
      BY <2>1, <2>3 DEF OneRefresh
    <3>2. PICK i \in 1..Len(commandQueues[q]) :
            RefreshAt(commandQueues, q, i) /\ b \in Group(commandQueues[q][i].bank)
      BY <3>1
    <3>3. <<q, i>> \in S
      BY <2>2, <3>2
    <3>4. ASSUME NEW p \in Queues, NEW j \in 1..Len(commandQueues[p]),
                 RefreshAt(commandQueues, p, j), b \in Group(commandQueues[p][j].bank)
          PROVE  p = q /\ j = i
      <4>1. commandQueues[p][j].bank \in Heads /\ commandQueues[q][i].bank \in Heads
        BY <2>1, <3>2, <3>4 DEF OneRefresh
      <4>2. commandQueues[p][j].bank = commandQueues[q][i].bank
        BY <3>2, <3>4, <4>1, GroupsApart
      <4> QED BY <2>1, <3>2, <3>4, <4>2 DEF OneRefresh
    <3>5. S = {<<q, i>>}
      BY <2>2, <3>3, <3>4
    <3> QED BY <2>1, <2>3, <3>5, SmallSizes DEF RowsKeptClosed, S
  <2>4. CASE ~refreshQueued[b]
    <3>1. S = {}
      BY <2>1, <2>2, <2>4 DEF OneRefresh
    <3> QED BY <2>4, <3>1, SmallSizes DEF S
  <2> QED BY <2>3, <2>4
<1> QED BY <1>1, <1>2, NextRefreshed, PTL DEF Spec
=============================================================================
