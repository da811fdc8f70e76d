-------------------------- MODULE MemoryController --------------------------
(***************************************************************************)
(* The FRFCFS memory controller (NVmain/MemControl/FRFCFS and the base     *)
(* class src/MemoryController.cpp) in front of one rank.  Transactions     *)
(* wait in memQueue until their command queue is empty, become a few       *)
(* commands there, and are issued head by head; a pulse of the event queue *)
(* adds refreshes.  The controller never looks at the banks to choose: it  *)
(* keeps its own view of the row each subarray will have open once the     *)
(* queued commands are done.                                               *)
(*                                                                         *)
(* Every handler of the event queue is an action.  In a cycle they run in  *)
(* the order of their priorities: cleanup, responses, refresh, transaction *)
(* wakeups, command wakeups.  Times are cycles left, as in Rank.           *)
(*                                                                         *)
(* A row is at the sense amplifiers as a whole (RBSize is COLS), and there *)
(* are no caching banks and no write pausing: FindCachedAddress and        *)
(* FindWriteStalledRead find nothing.                                      *)
(***************************************************************************)
EXTENDS Rank, FiniteSets, FiniteSetsExt

CONSTANTS Transactions,         \* what may be asked for: [op, bank, sub, row]
          Configurations,       \* the values of QueueModel and ClosePage considered
          QueueSize, StarvationThreshold,
          UseRefresh, DelayedRefreshThreshold, tREFI

ASSUME ControllerAssumption ==
  /\ Transactions \subseteq [op : {"READ", "WRITE"}, bank : Banks, sub : SubArrays, row : Nat]
  /\ Configurations \subseteq [queueModel : {"PerRank", "PerBank", "PerSubArray"}, closePage : 0..2]
  /\ UseRefresh \in BOOLEAN
  /\ {QueueSize, StarvationThreshold, DelayedRefreshThreshold, tREFI} \subseteq Nat \ {0}

VARIABLES config,           \* what SetConfig has read
          dev,              \* the rank
          memQueue,         \* the transactions, oldest first
          commandQueues,
          activateQueued,   \* per bank: the view has a row open
          effectiveRow,     \* per subarray, NoRow where activeSubArray is false
          starvationCounter,
          refreshQueued, bankNeedRefresh,
          delayedRefreshCounter, nextRefreshBank,
          curQueue,
          lastIssue, handledRefresh,    \* lastIssueCycle and handledRefresh are this cycle
          cycles,           \* how many EventCycles wait in this cycle and in the next
          wakes,            \* when CommandQueueCallbacks wait
          cleanups,         \* when CleanupCallbacks wait
          pulse             \* per bank group, when the RefreshCallback waits

view == <<activateQueued, effectiveRow, starvationCounter>>
refresh == <<bankNeedRefresh, delayedRefreshCounter, nextRefreshBank, pulse, handledRefresh>>
issue == <<dev, refreshQueued, curQueue, lastIssue, cleanups>>
vars == <<config, memQueue, commandQueues, view, refresh, issue, cycles, wakes>>

\* The bank groups that are refreshed together, each named by its first bank.
Heads == {b \in Banks : UseRefresh /\ b % BanksPerRefresh = 0}

\* GetCommandQueueId with one rank.
QueueId(b, s) ==
  CASE config.queueModel = "PerRank" -> 0
    [] config.queueModel = "PerBank" -> b
    [] config.queueModel = "PerSubArray" -> b * SubArrayNum + s

QueueCount ==
  CASE config.queueModel = "PerRank" -> 1
    [] config.queueModel = "PerBank" -> BANKS
    [] config.queueModel = "PerSubArray" -> BANKS * SubArrayNum

Queues == 0..QueueCount - 1

Command(type, t) ==
  [type |-> type, bank |-> t.bank, sub |-> t.sub, row |-> t.row, id |-> t.id, issued |-> FALSE]

\* The commands a bank's address alone names.
BankCommand(type, b, s) == Command(type, [bank |-> b, sub |-> s, row |-> 0, id |-> 0])

Init ==
  /\ config \in Configurations
  /\ dev = InitDevice
  /\ memQueue = <<>>
  /\ commandQueues = [q \in Queues |-> <<>>]
  /\ activateQueued = [b \in Banks |-> FALSE]
  /\ effectiveRow = [b \in Banks |-> [s \in SubArrays |-> NoRow]]
  /\ starvationCounter = [b \in Banks |-> [s \in SubArrays |-> 0]]
  /\ refreshQueued = [b \in Banks |-> FALSE]
  /\ bankNeedRefresh = [b \in Banks |-> FALSE]
  /\ delayedRefreshCounter = [h \in Heads |-> 0]
  /\ nextRefreshBank = 0
  /\ curQueue = 0
  /\ lastIssue = FALSE
  /\ handledRefresh = FALSE
  /\ cycles = [t \in 0..1 |-> 0]
  /\ wakes = {}
  /\ cleanups = {}
  /\ pulse = [h \in Heads |-> tREFI + (h \div BanksPerRefresh) * (tREFI \div Cardinality(Heads))]

\* The elements of sequence s at the positions in S, in their order.
Select(s, S) ==
  [k \in 1..Cardinality(S) |-> s[CHOOSE i \in S : Cardinality({j \in S : j <= i}) = k]]

\* The places of the commands that are still to be issued.
Unissued(q) == {i \in 1..Len(commandQueues[q]) : ~commandQueues[q][i].issued}
Pending == UNION {{<<q, i>> : i \in Unissued(q)} : q \in Queues}
At(x) == commandQueues[x[1]][x[2]]

-----------------------------------------------------------------------------
\* What is due in the current cycle

CleanupDue == 0 \in cleanups
ResponseDue == \E e \in dev.events : e.left = 0
RefreshDue == \E h \in Heads : pulse[h] = 0
CycleDue == cycles[0] > 0
CommandDue == 0 \in wakes

\* Whether the command queue is empty, or holds one command that was issued.
EffectivelyEmpty(queue) == queue = <<>> \/ (Len(queue) = 1 /\ Head(queue).issued)

TransactionAvailable(q, transactions) ==
  \E i \in 1..Len(transactions) : QueueId(transactions[i].bank, transactions[i].sub) = q

-----------------------------------------------------------------------------
\* Wakeups

\* The heads NextIssuable looks at: of the queues that the first subarrays' addresses name.
HeadCommands(queues) ==
  {Head(queues[QueueId(b, 0)]) : b \in {c \in Banks : queues[QueueId(c, 0)] # <<>>}}

\* A NextIssuable that waits for the last head instead of the first.
NextWakeupLast(queues) ==
  LET heads == HeadCommands(queues)
  IN IF heads = {} THEN {} ELSE {Later(1, Max({NextIssuable(dev, c) : c \in heads}))}

\* The cycles left until the first of them may go, at least one; none if there is no head.
\* A refresh that is owed would be handled here as well: NothingOwed shows that none is.
NextWakeup(queues) ==
  LET heads == HeadCommands(queues)
  IN IF heads = {} THEN {} ELSE {Later(1, Min({NextIssuable(dev, c) : c \in heads}))}

\* CycleCommandQueues: the first queue from curQueue on whose head may go issues it.
Issuable(queues) ==
  {i \in 0..QueueCount - 1 :
     LET queue == queues[(curQueue + i) % QueueCount]
     IN queue # <<>> /\ ~lastIssue /\ ~handledRefresh /\ IsIssuable(dev, Head(queue))}

\* A CycleCommandQueues that leaves waking the transactions to MemoryController::Cycle.
WokenNever(queues, transactions) == FALSE

\* Whether it empties a queue that a transaction waits for, and so asks for an EventCycle.
Woken(queues, transactions) ==
  LET issuable == Issuable(queues)
      q == (curQueue + Min(issuable)) % QueueCount
  IN issuable # {} /\ Len(queues[q]) = 1 /\ TransactionAvailable(q, transactions)

\* ResetRefreshQueued that only resets the flag of the bank the refresh is addressed to.
ResetRefreshQueuedHead(c) == [refreshQueued EXCEPT ![c.bank] = FALSE]

ResetRefreshQueued(c) == [b \in Banks |-> refreshQueued[b] /\ b \notin Group(c.bank)]

\* A MoveCurrentQueue that never goes back to the first queue.
MoveCurrentQueueOn(queue) == queue + 1

\* The comparison lets the position run one past the last queue.
MoveCurrentQueue(queue) == IF queue + 1 > QueueCount THEN 0 ELSE queue + 1

Issued(c) == [c EXCEPT !.issued = TRUE]

CycleCommandQueues(queues) ==
  LET issuable == Issuable(queues)
      q == (curQueue + Min(issuable)) % QueueCount
      c == Head(queues[q])
  IN
  IF issuable = {}
  THEN commandQueues' = queues /\ UNCHANGED issue
  ELSE /\ dev' = IssueCommand(dev, c)
       /\ commandQueues' = [queues EXCEPT ![q][1] = Issued(@)]
       /\ lastIssue' = TRUE
       /\ cleanups' = cleanups \cup {1}
       /\ curQueue' = MoveCurrentQueue(curQueue)
       /\ refreshQueued' = IF c.type = "REFRESH" THEN ResetRefreshQueued(c) ELSE refreshQueued

-----------------------------------------------------------------------------
\* Transactions

\* FRFCFS::IssueCommand and Enqueue: a transaction is accepted while memQueue has room,
\* and wakes the controller in this cycle when its command queue is empty.
Enqueue(r, t) ==
  /\ ~CleanupDue /\ ~ResponseDue
  /\ Len(memQueue) < QueueSize
  /\ memQueue' = Append(memQueue, [op |-> t.op, bank |-> t.bank, sub |-> t.sub, row |-> t.row,
                                   id |-> r, fresh |-> TRUE])
  /\ cycles' = IF EffectivelyEmpty(commandQueues[QueueId(t.bank, t.sub)]) /\ cycles[0] = 0
               THEN [cycles EXCEPT ![0] = 1] ELSE cycles
  /\ UNCHANGED <<config, commandQueues, view, refresh, issue, wakes>>

\* Searches that take a queue for empty when its last command has just been issued.
ReadyEffectively ==
  {i \in 1..Len(memQueue) :
     LET t == memQueue[i] IN
     /\ EffectivelyEmpty(commandQueues[QueueId(t.bank, t.sub)])
     /\ ~bankNeedRefresh[t.bank] /\ ~refreshQueued[t.bank]
     /\ ~t.fresh}

\* What the four searches of FRFCFS::Cycle have in common: the command queue is empty, the
\* bank is not kept for a refresh, and the transaction did not arrive in this cycle.
Ready ==
  {i \in 1..Len(memQueue) :
     LET t == memQueue[i] IN
     /\ commandQueues[QueueId(t.bank, t.sub)] = <<>>
     /\ ~bankNeedRefresh[t.bank] /\ ~refreshQueued[t.bank]
     /\ ~t.fresh}

IsHit(t) == activateQueued[t.bank] /\ effectiveRow[t.bank][t.sub] = t.row
IsMiss(t) == activateQueued[t.bank] /\ effectiveRow[t.bank][t.sub] # t.row

\* A starvation counter nobody looks at.
IsStarvedNever(t) == FALSE

IsStarved(t) == IsMiss(t) /\ starvationCounter[t.bank][t.sub] >= StarvationThreshold

\* FindStarvedRequest, FindRowBufferHit, FindOldestReadyRequest and FindClosedBankRequest,
\* in this order; each takes the oldest.
Searches ==
  <<{i \in Ready : IsStarved(memQueue[i])},
    {i \in Ready : IsHit(memQueue[i])},
    {i \in Ready : activateQueued[memQueue[i].bank]},
    {i \in Ready : ~activateQueued[memQueue[i].bank]}>>

NextRequest ==
  LET found == Searches IN Min(found[Min({k \in 1..4 : found[k] # {}})])

\* A search that leaves the transaction it found in the queue.
WithoutNone(i) == memQueue

\* memQueue with the transaction it found erased.
Without(i) == SubSeq(memQueue, 1, i - 1) \o SubSeq(memQueue, i + 1, Len(memQueue))

\* Whether the row may be closed behind transaction t, with `others' still waiting.
IsLastRequest(t, others) ==
  CASE config.closePage = 0 -> FALSE
    [] config.closePage = 1 ->
         \A i \in 1..Len(others) :
           ~(others[i].bank = t.bank /\ others[i].sub = t.sub /\ others[i].row = t.row)
    [] config.closePage = 2 -> TRUE

Column(t, last) == Command(IF ~last THEN t.op ELSE IF t.op = "READ" THEN "READ_PRECHARGE"
                                                   ELSE "WRITE_PRECHARGE", t)

\* Whether IssueMemoryCommands takes t: it adds to a queue that is not empty only for a hit.
Takes(t) == IsHit(t) \/ commandQueues[QueueId(t.bank, t.sub)] = <<>>

\* The precharge of the row that the view has open where t goes.
CloseFor(t) ==
  [BankCommand("PRECHARGE", t.bank, t.sub) EXCEPT !.row = effectiveRow[t.bank][t.sub]]

\* The commands it makes of t: for a closed bank, for a miss and for a hit.
Commands(t, last) ==
  CASE ~activateQueued[t.bank] -> <<Command("ACTIVATE", t), Column(t, last)>>
    [] IsMiss(t) -> IF effectiveRow[t.bank][t.sub] = NoRow
                    THEN <<Command("ACTIVATE", t), Column(t, FALSE)>>
                    ELSE <<CloseFor(t), Command("ACTIVATE", t), Column(t, FALSE)>>
    [] IsHit(t) -> <<Column(t, last)>>

\* The view IssueMemoryCommands leaves.  The counter only matters up to its threshold.
UpdateView(t, last) ==
  LET closes == last /\ ~IsMiss(t) IN
  /\ effectiveRow' = [effectiveRow EXCEPT ![t.bank][t.sub] = IF closes THEN NoRow ELSE t.row]
  /\ activateQueued' = [activateQueued EXCEPT ![t.bank] =
       closes => IsHit(t) /\ \E u \in SubArrays \ {t.sub} : effectiveRow[t.bank][u] # NoRow]
  /\ starvationCounter' = [starvationCounter EXCEPT ![t.bank][t.sub] =
       IF IsHit(t) THEN Min({@ + 1, StarvationThreshold}) ELSE 0]

\* MemoryController::Cycle: look again in the next cycle if a queue can take a transaction.
Recheck(next, queues, transactions) ==
  IF /\ next[1] = 0
     /\ \E q \in Queues : EffectivelyEmpty(queues[q]) /\ TransactionAvailable(q, transactions)
  THEN [next EXCEPT ![1] = 1] ELSE next

\* FRFCFS::Cycle, the handler of an EventCycle.
Cycle ==
  /\ ~CleanupDue /\ ~ResponseDue /\ ~RefreshDue /\ CycleDue
  /\ LET next == [cycles EXCEPT ![0] = @ - 1]
         Finish(queues) ==
           /\ CycleCommandQueues(queues)
           /\ cycles' = Recheck(IF Woken(queues, memQueue') THEN [next EXCEPT ![1] = @ + 1] ELSE next,
                                commandQueues', memQueue')
     IN IF Ready = {}
        THEN /\ UNCHANGED <<memQueue, view, wakes>>
             /\ Finish(commandQueues)
        ELSE LET i == NextRequest
                 t == memQueue[i]
                 last == IsLastRequest(t, Without(i))
                 queues == [commandQueues EXCEPT ![QueueId(t.bank, t.sub)] = @ \o Commands(t, last)]
             IN /\ memQueue' = Without(i)
                /\ \/ /\ Takes(t)
                      /\ UpdateView(t, last)
                      /\ wakes' = wakes \cup NextWakeup(queues)
                      /\ Finish(queues)
                   \/ /\ ~Takes(t)
                      /\ UNCHANGED <<view, wakes>>
                      /\ Finish(commandQueues)
  /\ UNCHANGED <<config, refresh>>

\* CommandQueueCallback: the next wakeup is decided before the queues are cycled.
CommandQueueCallback ==
  /\ ~CleanupDue /\ ~ResponseDue /\ ~RefreshDue /\ ~CycleDue /\ CommandDue
  /\ wakes' = (wakes \ {0}) \cup NextWakeup(commandQueues)
  /\ CycleCommandQueues(commandQueues)
  /\ cycles' = IF Woken(commandQueues, memQueue) THEN [cycles EXCEPT ![1] = @ + 1] ELSE cycles
  /\ UNCHANGED <<config, memQueue, view, refresh>>

CleanupCallback ==
  /\ CleanupDue
  /\ commandQueues' = [q \in Queues |-> Select(commandQueues[q], Unissued(q))]
  /\ cleanups' = cleanups \ {0}
  /\ UNCHANGED <<config, memQueue, view, refresh, dev, refreshQueued, curQueue, lastIssue, cycles, wakes>>

\* An EventResponse: the device acts on it, and a request that is done is handed back.
Response(e) ==
  /\ ~CleanupDue /\ e.left = 0
  /\ dev' = RequestComplete(dev, e)
  /\ UNCHANGED <<config, memQueue, commandQueues, view, refresh,
                 refreshQueued, curQueue, lastIssue, cleanups, cycles, wakes>>

-----------------------------------------------------------------------------
\* Refresh

\* What HandleRefresh appends to queue q for the group of h: a PRECHARGE_ALL for each bank
\* the view has open, then the refresh itself in the queue of the head.
RefreshCommands(q, h) ==
  LET all == [i \in 1..BanksPerRefresh |-> BankCommand("PRECHARGE_ALL", h + i - 1, 0)]
      open == {i \in 1..BanksPerRefresh : activateQueued[h + i - 1] /\ QueueId(h + i - 1, 0) = q}
  IN Select(all, open)
     \o (IF q = QueueId(h, 0) THEN <<BankCommand("REFRESH", h, 0)>> ELSE <<>>)

\* A HandleRefresh that leaves the rows it precharges in the view.
CloseGroupLater(h) == UNCHANGED <<effectiveRow, activateQueued>>

CloseGroup(h) ==
  /\ effectiveRow' = [b \in Banks |-> IF b \in Group(h) /\ activateQueued[b]
                                      THEN [s \in SubArrays |-> NoRow] ELSE effectiveRow[b]]
  /\ activateQueued' = [b \in Banks |-> activateQueued[b] /\ b \notin Group(h)]

\* NeedRefresh with the check that HandleRefresh has commented out.
NeedRefreshIdle(h, counter) ==
  /\ counter[h] >= DelayedRefreshThreshold
  /\ \A b \in Group(h) : EffectivelyEmpty(commandQueues[QueueId(b, 0)])

NeedRefresh(h, counter) == counter[h] >= DelayedRefreshThreshold

\* HandleRefresh for the group of h, with the counters and flags the pulse has set.
HandleRefresh(h, counter, need) ==
  LET queues == [q \in Queues |-> commandQueues[q] \o RefreshCommands(q, h)]
      after == [counter EXCEPT ![h] = @ - 1]
  IN
  /\ commandQueues' = queues
  /\ CloseGroup(h)
  /\ refreshQueued' = [b \in Banks |-> refreshQueued[b] \/ b \in Group(h)]
  /\ delayedRefreshCounter' = after
  /\ bankNeedRefresh' = [b \in Banks |-> need[b] /\ (b \in Group(h) => NeedRefresh(h, after))]
  /\ nextRefreshBank' = IF nextRefreshBank + BanksPerRefresh >= BANKS THEN 0
                        ELSE nextRefreshBank + BanksPerRefresh
  /\ handledRefresh' = TRUE
  /\ wakes' = wakes \cup NextWakeup(queues)
  /\ UNCHANGED starvationCounter

\* RefreshCallback for the pulse of the group of h: ProcessRefreshPulse counts it and sends
\* the pulse again, HandleRefresh takes the first group from nextRefreshBank on that needs one.
RefreshCallback(h) ==
  /\ ~CleanupDue /\ ~ResponseDue /\ pulse[h] = 0
  /\ pulse' = [pulse EXCEPT ![h] = tREFI]
  /\ LET counter == [delayedRefreshCounter EXCEPT ![h] = @ + 1]
         need == [b \in Banks |-> bankNeedRefresh[b]
                    \/ (b \in Group(h) /\ NeedRefresh(h, counter))]
         needed == {i \in 0..Cardinality(Heads) - 1 :
                      NeedRefresh((nextRefreshBank + i * BanksPerRefresh) % BANKS, counter)}
     IN IF needed = {}
        THEN /\ delayedRefreshCounter' = counter /\ bankNeedRefresh' = need
             /\ UNCHANGED <<commandQueues, view, refreshQueued, nextRefreshBank, handledRefresh, wakes>>
        ELSE HandleRefresh((nextRefreshBank + Min(needed) * BanksPerRefresh) % BANKS, counter, need)
  /\ UNCHANGED <<config, memQueue, dev, curQueue, lastIssue, cleanups, cycles>>

-----------------------------------------------------------------------------
\* Time passes once nothing is due.
Advance ==
  /\ ~CleanupDue /\ ~ResponseDue /\ ~RefreshDue /\ ~CycleDue /\ ~CommandDue
  /\ dev' = Tick(dev)
  /\ memQueue' = [i \in 1..Len(memQueue) |-> [memQueue[i] EXCEPT !.fresh = FALSE]]
  /\ lastIssue' = FALSE
  /\ handledRefresh' = FALSE
  /\ cycles' = [t \in 0..1 |-> IF t = 0 THEN cycles[1] ELSE 0]
  /\ wakes' = {t - 1 : t \in wakes}
  /\ cleanups' = {t - 1 : t \in cleanups}
  /\ pulse' = [h \in Heads |-> pulse[h] - 1]
  /\ UNCHANGED <<config, commandQueues, view, bankNeedRefresh, delayedRefreshCounter, nextRefreshBank,
                 refreshQueued, curQueue>>

\* Where a request is.
Waiting == {memQueue[i].id : i \in 1..Len(memQueue)}
Queued == {At(x).id : x \in Pending} \ {0}
InFlight == {e.id : e \in {f \in dev.events : f.what = "done"}}
Busy == Waiting \cup Queued \cup InFlight

\* A caller has a request object that is not in use; which one does not matter.
Arrive == Requests \ Busy # {} /\ \E t \in Transactions : Enqueue(Min(Requests \ Busy), t)

Handle ==
  \/ Cycle
  \/ CommandQueueCallback
  \/ CleanupCallback
  \/ \E e \in dev.events : Response(e)
  \/ \E h \in Heads : RefreshCallback(h)

Next == Arrive \/ Handle \/ Advance

Spec == Init /\ [][Next]_vars

\* Nothing is left to run in this cycle.
Quiet == ~CleanupDue /\ ~ResponseDue /\ ~RefreshDue /\ ~CycleDue /\ ~CommandDue

\* The simulation goes on: Process runs what is due, and Loop moves the clock.  A cycle in
\* which no countdown is left changes nothing, so the clock's fairness is weak.
FairSpec == Spec /\ []<>Quiet /\ WF_vars(Advance)

-----------------------------------------------------------------------------
\* Properties

TypeOK ==
  /\ config \in Configurations
  /\ memQueue \in Seq([op : {"READ", "WRITE"}, bank : Banks, sub : SubArrays, row : Nat,
                       id : Requests, fresh : BOOLEAN])
  /\ Len(memQueue) <= QueueSize
  /\ commandQueues \in [Queues -> Seq([type : CommandTypes, bank : Banks, sub : SubArrays, row : Nat,
                                       id : Requests \cup {0}, issued : BOOLEAN])]
  /\ activateQueued \in [Banks -> BOOLEAN]
  /\ effectiveRow \in [Banks -> [SubArrays -> Nat \cup {NoRow}]]
  /\ starvationCounter \in [Banks -> [SubArrays -> 0..StarvationThreshold]]
  /\ refreshQueued \in [Banks -> BOOLEAN] /\ bankNeedRefresh \in [Banks -> BOOLEAN]
  /\ delayedRefreshCounter \in [Heads -> Nat]
  /\ nextRefreshBank \in Banks /\ curQueue \in 0..QueueCount
  /\ lastIssue \in BOOLEAN /\ handledRefresh \in BOOLEAN
  /\ cycles \in [0..1 -> Nat] /\ wakes \subseteq Nat /\ cleanups \subseteq 0..1
  /\ pulse \in [Heads -> Nat]

\* The commands still queued that open or close a row of subarray s of bank b.
RowCommands(b, s) ==
  {i \in Unissued(QueueId(b, s)) :
     LET c == commandQueues[QueueId(b, s)][i] IN
     /\ c.bank = b
     /\ \/ c.type = "PRECHARGE_ALL"
        \/ /\ c.sub = s
           /\ c.type \in {"ACTIVATE", "PRECHARGE", "READ_PRECHARGE", "WRITE_PRECHARGE"}}

\* The row that will be open there once the queue has drained.
RowAfter(b, s) ==
  LET last == commandQueues[QueueId(b, s)][Max(RowCommands(b, s))]
  IN IF RowCommands(b, s) = {}
     THEN IF s \in dev.open[b] THEN dev.sub[b][s].row ELSE NoRow
     ELSE IF last.type = "ACTIVATE" THEN last.row ELSE NoRow

\* The controller's view is what the banks will be once the queued commands are done: a
\* transaction scheduled by it finds the row it was promised (activateQueued,
\* activeSubArray and effectiveRow against SubArray's state).
ViewAgrees ==
  \A b \in Banks :
    /\ \A s \in SubArrays : effectiveRow[b][s] = RowAfter(b, s)
    /\ activateQueued[b] <=> \E s \in SubArrays : effectiveRow[b][s] # NoRow

\* Whenever the clock is about to move, a command wakeup is set no later than the first
\* command left in each queue can go (ScheduleCommandWake and CommandQueueCallback).
CommandsHaveWakes ==
  Quiet => \A q \in Queues : Unissued(q) # {} =>
             \E w \in wakes : w <= Later(1, NextIssuable(dev, commandQueues[q][Min(Unissued(q))]))

\* A bank is kept for a refresh exactly while one REFRESH for its group is queued, and then
\* its rows are closed or about to be: the assertion of ResetRefreshQueued holds, and the
\* refresh can be issued.
RefreshAgrees ==
  \A b \in Banks :
    /\ Cardinality({x \in Pending : At(x).type = "REFRESH" /\ b \in Group(At(x).bank)})
         = IF refreshQueued[b] THEN 1 ELSE 0
    /\ refreshQueued[b] => ~activateQueued[b]

\* A pulse finds its group's last refresh issued: the pulses are far enough apart for the queue
\* to drain between two of them (tREFI against the commands before the REFRESH).
RefreshInTime == \A h \in Heads : pulse[h] = 0 => ~refreshQueued[h]

\* Every pulse has become a command by the end of its callback: no refresh is owed when
\* NextIssuable is asked for the next wakeup.
NothingOwed ==
  /\ \A h \in Heads : delayedRefreshCounter[h] < DelayedRefreshThreshold
  /\ \A b \in Banks : ~bankNeedRefresh[b]

\* A request is in one place: it waits, or is queued once, or is on its way through the banks.
InOnePlace ==
  /\ Waiting \cap Queued = {} /\ Waiting \cap InFlight = {} /\ Queued \cap InFlight = {}
  /\ Cardinality(Waiting) = Len(memQueue)

\* A request leaves the controller only by being completed: FRFCFS::Cycle does not look at
\* what IssueMemoryCommands returns for the transaction it has taken out of the queue.
NoneDropped ==
  [][\A r \in Busy : r \in Busy' \/ \E e \in dev.events : e.what = "done" /\ e.id = r /\ e.left = 0]_vars

\* Every transaction is completed, whatever else arrives.
Served == \A r \in Requests : r \in Busy ~> r \notin Busy
=============================================================================
