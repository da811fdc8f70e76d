----------------------------- MODULE EventQueue -----------------------------
(***************************************************************************)
(* NVMain's event queue (NVmain/src/EventQueue.cpp): a map from cycles to  *)
(* lists of events in priority order, a clock that Loop moves from one     *)
(* event to the next, and Process, which walks the list of a cycle and     *)
(* calls the handlers.  Handlers run inside the walk and insert and remove *)
(* events themselves, so each handler is two steps here, its call and its  *)
(* return, with the insertions it makes in between.                        *)
(***************************************************************************)
EXTENDS Integers, Sequences

CONSTANTS Events,      \* the Event objects, used again once freed
          None,        \* no cycle, no event
          Freed,       \* a list entry whose Event was deleted
          MaxCycle,    \* the largest ncycle_t, also "no event"
          MaxSteps,    \* the largest argument of Loop
          Reentrant    \* may a handler insert at the cycle being processed?

ASSUME ConstantsAssumption ==
  /\ MaxCycle \in Nat \ {0} /\ MaxSteps \in Nat
  /\ None \notin Nat /\ None \notin Events /\ Freed \notin Events
  /\ Reentrant \in BOOLEAN

Cycles == 0..MaxCycle

NoEvent == MaxCycle

\* The events the memory controller and the banks insert, with the priority they ask for.
Asked == [cycle |-> 30, response |-> 0, refresh |-> 20, command |-> 40, cleanup |-> -10]

Kinds == DOMAIN Asked

Callbacks == {"refresh", "command", "cleanup"}

\* InsertCallback that leaves the default as well.
StoredNever(k) == 0

\* The priority an Event holds: InsertCallback sets it, InsertEvent leaves the default.
Stored(k) == IF k \in Callbacks THEN Asked[k] ELSE 0

\* std::list's insert before position i, and erase of position i.
ListInsert(list, i, e) == SubSeq(list, 1, i - 1) \o <<e>> \o SubSeq(list, i, Len(list))

ListErase(list, i) == SubSeq(list, 1, i - 1) \o SubSeq(list, i + 1, Len(list))

VARIABLES eventMap,        \* cycle -> list of events; an empty list is no entry
          nextEventCycle,
          lastEventCycle,
          currentCycle,
          stepCycles,      \* what Loop(steps) has left
          it,              \* Process's iterator, 0 outside Process
          pc,
          caller,          \* which Loop is running: "one", "zero" or "steps"
          kind,            \* what each Event holds
          due,             \* history: the cycle an event was inserted for and waits for
          goal             \* history: where the running Loop is to leave the clock

queue == <<eventMap, nextEventCycle, lastEventCycle, kind, due>>
loop == <<currentCycle, stepCycles, caller, goal>>
vars == <<queue, loop, it, pc>>

running == IF pc = "handler" THEN eventMap[nextEventCycle][it] ELSE None

Init ==
  /\ eventMap = [t \in Cycles |-> <<>>]
  /\ nextEventCycle = NoEvent
  /\ lastEventCycle = 0
  /\ currentCycle = 0
  /\ stepCycles = 0
  /\ it = 0
  /\ pc = "idle"
  /\ caller = "one"
  /\ kind \in [Events -> {"cycle"}]
  /\ due = [e \in Events |-> None]
  /\ goal = 0

\* t is the first key of the map, as eventMap.begin()->first finds it.
IsEarliest(map, t) ==
  \/ t = NoEvent /\ \A u \in Cycles : map[u] = <<>>
  \/ map[t] # <<>> /\ \A u \in Cycles : map[u] # <<>> => t <= u

-----------------------------------------------------------------------------
\* Inserting and removing

\* Where InsertEvent puts an event of kind k: before the first entry of higher priority.
\* What a freed entry's priority reads as is anything.
Places(list, k) ==
  {i \in 1..Len(list) + 1 :
     /\ i <= Len(list) => list[i] = Freed \/ Stored(kind[list[i]]) > Asked[k]
     /\ \A j \in 1..i - 1 : list[j] = Freed \/ Stored(kind[list[j]]) <= Asked[k]}

\* Callers schedule for later cycles, except that a transaction which arrives wakes the
\* controller in the current one.  It may arrive inside a handler: a completed request
\* makes gem5 send the one that was refused, and a bus without delay passes a response on.
MayInsert(k, t) ==
  \/ currentCycle < t
  \/ currentCycle = t /\ pc = "idle" /\ k = "cycle"
  \/ currentCycle = t /\ pc = "handler" /\ Reentrant
       /\ kind[running] = "response" /\ k \in {"cycle", "response"}

\* InsertEvent and InsertCallback, called between Loops or by a handler.
InsertEvent(e, k, t) ==
  /\ pc \in {"idle", "handler"}
  /\ due[e] = None /\ e # running
  /\ MayInsert(k, t)
  /\ nextEventCycle' = IF t < nextEventCycle THEN t ELSE nextEventCycle
  /\ \E i \in Places(eventMap[t], k) :
       /\ eventMap' = [eventMap EXCEPT ![t] = ListInsert(@, i, e)]
       /\ it' = IF pc = "handler" /\ t = nextEventCycle /\ i <= it THEN it + 1 ELSE it
  /\ kind' = [kind EXCEPT ![e] = k]
  /\ due' = [due EXCEPT ![e] = t]
  /\ UNCHANGED <<lastEventCycle, pc, loop>>

\* RemoveEvent that drops the map entry without looking whether its list is empty.
RemoveEventErasesEntry(e) ==
  /\ pc \in {"idle", "handler"}
  /\ due[e] # None /\ kind[e] = "response"
  /\ pc = "handler" => due[e] # nextEventCycle
  /\ eventMap' = [eventMap EXCEPT ![due[e]] = <<>>]
  /\ \E t \in Cycles : IsEarliest(eventMap', t) /\ nextEventCycle' = t
  /\ due' = [due EXCEPT ![e] = None]
  /\ UNCHANGED <<lastEventCycle, kind, pc, it, loop>>

\* RemoveEvent that leaves nextEventCycle as it was.
RemoveEventKeepsNext(e) ==
  /\ pc \in {"idle", "handler"}
  /\ due[e] # None /\ kind[e] = "response"
  /\ \E i \in 1..Len(eventMap[due[e]]) :
       /\ eventMap[due[e]][i] = e
       /\ eventMap' = [eventMap EXCEPT ![due[e]] = ListErase(@, i)]
  /\ due' = [due EXCEPT ![e] = None]
  /\ UNCHANGED <<nextEventCycle, lastEventCycle, kind, pc, it, loop>>

\* RemoveEvent, which a bank calls for the completion of a write it cancels.
RemoveEvent(e) ==
  /\ pc \in {"idle", "handler"}
  /\ due[e] # None /\ kind[e] = "response"
  /\ \E i \in 1..Len(eventMap[due[e]]) :
       /\ eventMap[due[e]][i] = e
       /\ eventMap' = [eventMap EXCEPT ![due[e]] = ListErase(@, i)]
       /\ it' = IF pc = "handler" /\ due[e] = nextEventCycle /\ i < it THEN it - 1 ELSE it
  /\ \E t \in Cycles : IsEarliest(eventMap', t) /\ nextEventCycle' = t
  /\ due' = [due EXCEPT ![e] = None]
  /\ UNCHANGED <<lastEventCycle, kind, pc, loop>>

-----------------------------------------------------------------------------
\* Loop

\* Loop() that only moves the clock.
LoopOneTicks ==
  /\ pc = "idle"
  /\ currentCycle + 1 < MaxCycle
  /\ pc' = "tick"
  /\ caller' = "one"
  /\ goal' = currentCycle + 1
  /\ UNCHANGED <<queue, it, currentCycle, stepCycles>>

\* Loop(), one cycle: an event of the current cycle first, then the clock.
LoopOne ==
  /\ pc = "idle"
  /\ currentCycle + 1 < MaxCycle
  /\ pc' = IF nextEventCycle = currentCycle THEN "process" ELSE "tick"
  /\ caller' = "one"
  /\ goal' = currentCycle + 1
  /\ UNCHANGED <<queue, it, currentCycle, stepCycles>>

Tick ==
  /\ pc = "tick"
  /\ currentCycle' = currentCycle + 1
  /\ pc' = "idle"
  /\ UNCHANGED <<queue, it, stepCycles, caller, goal>>

\* Loop(0), which only handles what is due now.
LoopZero ==
  /\ pc = "idle"
  /\ nextEventCycle = currentCycle
  /\ pc' = "process"
  /\ caller' = "zero"
  /\ goal' = currentCycle
  /\ UNCHANGED <<queue, it, currentCycle, stepCycles>>

LoopSteps(steps) ==
  /\ pc = "idle"
  /\ steps > 0 /\ currentCycle + steps < MaxCycle
  /\ pc' = "loop"
  /\ caller' = "steps"
  /\ stepCycles' = steps
  /\ goal' = currentCycle + steps
  /\ UNCHANGED <<queue, it, currentCycle>>

\* The next event is beyond what is left: the clock takes the rest.
LoopRest ==
  /\ pc = "loop" /\ stepCycles > 0
  /\ nextEventCycle > currentCycle + stepCycles
  /\ currentCycle' = currentCycle + stepCycles
  /\ stepCycles' = 0
  /\ pc' = "idle"
  /\ UNCHANGED <<queue, it, caller, goal>>

\* LoopToEvent that counts the steps from cycle 0.
LoopToEventFromZero ==
  /\ pc = "loop" /\ stepCycles > 0
  /\ nextEventCycle <= currentCycle + stepCycles
  /\ currentCycle' = nextEventCycle
  /\ stepCycles' = stepCycles - nextEventCycle
  /\ pc' = "process"
  /\ UNCHANGED <<queue, it, caller, goal>>

\* LoopToEvent that does not count the steps it took.
LoopToEventUncounted ==
  /\ pc = "loop" /\ stepCycles > 0
  /\ nextEventCycle <= currentCycle + stepCycles
  /\ currentCycle' = nextEventCycle
  /\ pc' = "process"
  /\ UNCHANGED <<queue, it, stepCycles, caller, goal>>

LoopToEvent ==
  /\ pc = "loop" /\ stepCycles > 0
  /\ nextEventCycle <= currentCycle + stepCycles
  /\ currentCycle' = nextEventCycle
  /\ stepCycles' = stepCycles - (nextEventCycle - currentCycle)
  /\ pc' = "process"
  /\ UNCHANGED <<queue, it, caller, goal>>

\* A while condition that holds at zero steps too.
LoopEndStays ==
  /\ pc = "loop" /\ stepCycles = 0
  /\ UNCHANGED vars

LoopEnd ==
  /\ pc = "loop" /\ stepCycles = 0
  /\ pc' = "idle"
  /\ UNCHANGED <<queue, it, loop>>

-----------------------------------------------------------------------------
\* Process

\* The first entry of the list is called.
ProcessFirst ==
  /\ pc = "process"
  /\ it' = 1
  /\ due' = [due EXCEPT ![eventMap[nextEventCycle][1]] = None]
  /\ pc' = "handler"
  /\ UNCHANGED <<eventMap, nextEventCycle, lastEventCycle, kind, loop>>

\* A handler returned: its event is deleted, but stays in the list, and the next is called.
ProcessNext ==
  /\ pc = "handler" /\ it < Len(eventMap[nextEventCycle])
  /\ eventMap' = [eventMap EXCEPT ![nextEventCycle][it] = Freed]
  /\ it' = it + 1
  /\ due' = [due EXCEPT ![eventMap[nextEventCycle][it + 1]] = None]
  /\ UNCHANGED <<nextEventCycle, lastEventCycle, kind, pc, loop>>

\* The last handler returned: the list goes, and the next key is looked up.
ProcessEnd ==
  /\ pc = "handler" /\ it = Len(eventMap[nextEventCycle])
  /\ eventMap' = [eventMap EXCEPT ![nextEventCycle] = <<>>]
  /\ lastEventCycle' = nextEventCycle
  /\ \E t \in Cycles : IsEarliest(eventMap', t) /\ nextEventCycle' = t
  /\ it' = 0
  /\ pc' = [one |-> "tick", zero |-> "idle", steps |-> "loop"][caller]
  /\ UNCHANGED <<kind, due, loop>>

-----------------------------------------------------------------------------
Run == Tick \/ LoopRest \/ LoopToEvent \/ LoopEnd \/ ProcessFirst \/ ProcessNext \/ ProcessEnd

Next ==
  \/ \E e \in Events, k \in Kinds, t \in Cycles : InsertEvent(e, k, t)
  \/ \E e \in Events : RemoveEvent(e)
  \/ LoopOne \/ LoopZero
  \/ \E steps \in 1..MaxSteps : LoopSteps(steps)
  \/ Run

Spec == Init /\ [][Next]_vars

\* Process is an ordinary function: nothing keeps a Loop that was called from going on.
FairSpec == Spec /\ WF_vars(Run)

-----------------------------------------------------------------------------
\* Correctness

TypeOK ==
  /\ eventMap \in [Cycles -> Seq(Events \cup {Freed})]
  /\ nextEventCycle \in Cycles /\ lastEventCycle \in Cycles
  /\ currentCycle \in Cycles /\ goal \in Cycles
  /\ stepCycles \in 0..MaxSteps
  /\ it \in Nat
  /\ pc \in {"idle", "loop", "tick", "process", "handler"}
  /\ caller \in {"one", "zero", "steps"}
  /\ kind \in [Events -> Kinds]
  /\ due \in [Events -> Cycles \cup {None}]

\* No event is lost: one that was inserted, and was neither handled nor removed, is in the
\* list of its cycle, ahead of the iterator if that list is being walked.
NoneLost ==
  \A e \in Events : due[e] # None =>
    \E i \in 1..Len(eventMap[due[e]]) :
      /\ eventMap[due[e]][i] = e
      /\ pc = "handler" /\ due[e] = nextEventCycle => i > it

\* nextEventCycle, which Loop and the simulator step by, is the map's first key after any
\* insertion, removal or walk, and Process finds a list there, as its assertion says.
NextIsEarliest ==
  /\ IsEarliest(eventMap, nextEventCycle)
  /\ pc = "process" => eventMap[nextEventCycle] # <<>>

\* However many events it meets, Loop leaves the clock as far on as it was asked.
LoopAdvances == [][pc # "idle" /\ pc' = "idle" => currentCycle' = goal]_vars

\* e is called by this step.
Called(e) == due[e] # None /\ due'[e] = None /\ running' = e

\* Two callbacks of one cycle run in the order of their priorities, whenever and in
\* whichever order they were inserted.
CallbacksInOrder ==
  [][\A e, f \in Events :
       Called(e) /\ due[f] = due[e] /\ {kind[e], kind[f]} \subseteq Callbacks
         => Asked[kind[e]] <= Asked[kind[f]]]_vars

\* The queue keeps its promise: each event is handled once and at its cycle.
Promise == INSTANCE Agenda WITH now <- currentCycle

ImplementsAgenda == Promise!Spec

\* A call of Loop returns, whatever its handlers insert for later cycles.
LoopReturns == pc # "idle" ~> pc = "idle"
=============================================================================
