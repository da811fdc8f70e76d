--------------------------- MODULE GlobalEventQueue ---------------------------
(***************************************************************************)
(* NVMain's global event queue (NVmain/src/EventQueue.cpp): it keeps the   *)
(* event queues of memory systems that run at different clocks in step.    *)
(* Its own clock is the processor's.  Cycle goes from event to event over  *)
(* all the queues, and Sync brings every queue's clock up to the global    *)
(* one.  An event queue is here what Agenda promises of it: a clock and    *)
(* the cycles that have events.  Handlers insert into their own queue and, *)
(* as a DRAM cache does on a miss, into another one.                       *)
(***************************************************************************)
EXTENDS Integers, FiniteSets

CONSTANTS Queues,
          frequency,     \* of the global clock
          Freq,          \* of each queue's clock, the CLK of its configuration
          MaxCycle,      \* bound on the global clock
          MaxSteps,      \* the largest argument of Cycle
          MaxEvents,     \* bound on the cycles with events a queue holds at once
          None

\* AddSystem asserts that no memory system is faster than the global clock.
ASSUME FrequencyAssumption ==
  /\ frequency \in Nat \ {0} /\ Freq \in [Queues -> 1..frequency]
  /\ MaxCycle \in Nat /\ MaxSteps \in Nat /\ MaxEvents \in Nat
  /\ None \notin Queues

Cycles == 0..MaxCycle

\* Between a queue's clock and the global one, both rounded down.
ToGlobal(q, t) == (t * frequency) \div Freq[q]

ToLocal(q, g) == (g * Freq[q]) \div frequency

VARIABLES currentCycle,
          now,       \* each queue's currentCycle
          keys,      \* the cycles each queue has events at
          pc,
          left,      \* steps - iterationSteps
          hop,       \* globalQueueSteps
          active,    \* the queue whose Loop runs
          todo,      \* the queues Sync has still to visit
          last,      \* is this Sync the one before the break?
          born,      \* history: the global cycle a key appeared at
          goal       \* history: where this Cycle is to leave the clock

vars == <<currentCycle, now, keys, pc, left, hop, active, todo, last, born, goal>>

Init ==
  /\ currentCycle = 0
  /\ now = [q \in Queues |-> 0]
  /\ keys = [q \in Queues |-> {}]
  /\ pc = "idle"
  /\ left = 0 /\ hop = 0
  /\ active = None
  /\ todo = {}
  /\ last = FALSE
  /\ born = [q \in Queues |-> [t \in Cycles |-> 0]]
  /\ goal = 0

\* The global cycle a handler runs at.  currentCycle itself is only advanced afterwards.
Instant == IF pc = "handler" THEN currentCycle + hop ELSE currentCycle

\* Insertions: by gem5 or the trace reader between Cycles, or by a handler.
Insert(q, t) ==
  /\ pc \in {"idle", "handler"}
  /\ t >= now[q] /\ (q = active => t > now[q])
  /\ t \notin keys[q] /\ Cardinality(keys[q]) < MaxEvents
  /\ keys' = [keys EXCEPT ![q] = @ \cup {t}]
  /\ born' = [born EXCEPT ![q][t] = Instant]
  /\ UNCHANGED <<currentCycle, now, pc, left, hop, active, todo, last, goal>>

-----------------------------------------------------------------------------
\* Cycle

Cycle(steps) ==
  /\ pc = "idle"
  /\ currentCycle + steps <= MaxCycle
  /\ pc' = "next"
  /\ left' = steps
  /\ goal' = currentCycle + steps
  /\ UNCHANGED <<currentCycle, now, keys, hop, active, todo, last, born>>

\* GetNextEvent that stops at the first queue that has an event.
IsNextEventOfAny(q, t) == t \in keys[q] /\ \A u \in keys[q] : t <= u

\* t is q's next event and no queue has one that is globally earlier.
IsNextEvent(q, t) ==
  /\ t \in keys[q] /\ \A u \in keys[q] : t <= u
  /\ \A p \in Queues : \A u \in keys[p] : ToGlobal(q, t) <= ToGlobal(p, u)

Steps(q, t) == IF ToGlobal(q, t) > currentCycle THEN ToGlobal(q, t) - currentCycle ELSE 0

\* Process of queue q at cycle t starts: its clock is there, and its entry is taken.
Process(q, t) ==
  /\ now' = [now EXCEPT ![q] = t]
  /\ keys' = [keys EXCEPT ![q] = @ \ {t}]
  /\ born' = [born EXCEPT ![q][t] = 0]
  /\ active' = q
  /\ pc' = "handler"

\* CycleLoop that does not look whether the event is within the steps.
CycleLoopBeyond(q, t) ==
  /\ pc = "next"
  /\ IsNextEvent(q, t)
  /\ hop' = Steps(q, t)
  /\ Process(q, t)
  /\ UNCHANGED <<currentCycle, left, todo, last, goal>>

\* The next event is within the steps: its queue's Loop goes as far and handles it.
CycleLoop(q, t) ==
  /\ pc = "next"
  /\ IsNextEvent(q, t) /\ Steps(q, t) <= left
  /\ hop' = Steps(q, t)
  /\ Process(q, t)
  /\ UNCHANGED <<currentCycle, left, todo, last, goal>>

\* The clock takes the rest of the steps, and the last Sync starts.
TakeRest ==
  /\ currentCycle' = currentCycle + left
  /\ left' = 0
  /\ todo' = Queues
  /\ last' = TRUE
  /\ pc' = "sync"
  /\ UNCHANGED <<now, keys, hop, active, born, goal>>

\* CycleRest for an event that is due with the last step.
CycleRestEarly ==
  /\ pc = "next"
  /\ \A q \in Queues, t \in Cycles : IsNextEvent(q, t) => Steps(q, t) >= left
  /\ TakeRest

\* No event is within the steps.
CycleRest ==
  /\ pc = "next"
  /\ \A q \in Queues, t \in Cycles : IsNextEvent(q, t) => Steps(q, t) > left
  /\ TakeRest

\* The handlers of the cycle returned, to Cycle or to Sync's Loop.
HandlersReturn ==
  /\ pc = "handler"
  /\ currentCycle' = currentCycle + hop
  /\ left' = left - hop
  /\ hop' = 0
  /\ todo' = IF todo = {} THEN Queues ELSE todo
  /\ active' = IF todo = {} THEN None ELSE active
  /\ pc' = "sync"
  /\ UNCHANGED <<now, keys, last, born, goal>>

-----------------------------------------------------------------------------
\* Sync

\* A queue whose clock is behind: Loop handles what is due on the way.
SyncProcess(q, t) ==
  /\ pc = "sync" /\ q \in todo /\ active \in {q, None}
  /\ now[q] < ToLocal(q, currentCycle)
  /\ t \in keys[q] /\ (\A u \in keys[q] : t <= u) /\ t <= ToLocal(q, currentCycle)
  /\ Process(q, t)
  /\ UNCHANGED <<currentCycle, left, hop, todo, last, goal>>

\* Sync is done with queue q.
SyncNext(q) ==
  /\ todo' = todo \ {q}
  /\ active' = None
  /\ pc' = IF todo' # {} THEN "sync" ELSE IF last THEN "idle" ELSE "next"
  /\ last' = (last /\ todo' # {})
  /\ UNCHANGED <<currentCycle, keys, left, hop, born, goal>>

\* Loop leaves the clock where it was to go, if that is ahead.
Catch(q) ==
  now' = [now EXCEPT ![q] = IF @ < ToLocal(q, currentCycle) THEN ToLocal(q, currentCycle) ELSE @]

\* Sync that sets a clock without looping over the events on the way.
SyncRestSkips(q) ==
  /\ pc = "sync" /\ q \in todo /\ active \in {q, None}
  /\ Catch(q)
  /\ SyncNext(q)

\* Sync that leaves a clock where its last event was.
SyncRestStays(q) ==
  /\ pc = "sync" /\ q \in todo /\ active \in {q, None}
  /\ now[q] < ToLocal(q, currentCycle) => \A t \in keys[q] : t > ToLocal(q, currentCycle)
  /\ UNCHANGED now
  /\ SyncNext(q)

\* Nothing more is due on the way, or the clock is not behind.
SyncRest(q) ==
  /\ pc = "sync" /\ q \in todo /\ active \in {q, None}
  /\ now[q] < ToLocal(q, currentCycle) => \A t \in keys[q] : t > ToLocal(q, currentCycle)
  /\ Catch(q)
  /\ SyncNext(q)

Run ==
  \/ \E q \in Queues, t \in Cycles : CycleLoop(q, t) \/ SyncProcess(q, t)
  \/ CycleRest \/ HandlersReturn
  \/ \E q \in Queues : SyncRest(q)

Next ==
  \/ \E q \in Queues, t \in Cycles : Insert(q, t)
  \/ \E steps \in 0..MaxSteps : Cycle(steps)
  \/ Run

Spec == Init /\ [][Next]_vars

-----------------------------------------------------------------------------
\* Correctness

TypeOK ==
  /\ currentCycle \in Cycles /\ goal \in Cycles
  /\ now \in [Queues -> Cycles]
  /\ keys \in [Queues -> SUBSET Cycles]
  /\ pc \in {"idle", "next", "handler", "sync"}
  /\ left \in 0..MaxSteps /\ hop \in 0..MaxSteps
  /\ active \in Queues \cup {None}
  /\ todo \subseteq Queues
  /\ last \in BOOLEAN
  /\ born \in [Queues -> [Cycles -> Cycles]]

\* No queue's clock runs ahead of the event it has next, so that the unsigned difference
\* Cycle passes to Loop is no huge number.
NoUnderflow == \A q \in Queues : \A t \in keys[q] : now[q] <= t

\* Between Cycles every queue's clock is where the global one puts it: not behind, and ahead
\* only for an event whose global cycle, rounded down, has come.
Aligned ==
  pc = "idle" => \A q \in Queues :
                   /\ ToLocal(q, currentCycle) <= now[q]
                   /\ ToGlobal(q, now[q]) <= currentCycle

\* Cycle(steps) moves the global clock by exactly steps and leaves no event behind that was
\* due by then, whichever queue it is in and whichever handler inserted it.
CycleExact ==
  [][pc # "idle" /\ pc' = "idle" =>
       /\ currentCycle' = goal
       /\ \A q \in Queues : \A t \in keys'[q] : ToGlobal(q, t) > currentCycle']_vars

\* An event is handled in the global cycle its own corresponds to, or in the one that
\* inserted it if that is later.
OnTime ==
  [][\A q \in Queues : \A t \in keys[q] \ keys'[q] :
       LET due == ToGlobal(q, t)
       IN  Instant' = IF due > born[q][t] THEN due ELSE born[q][t]]_vars
=============================================================================
