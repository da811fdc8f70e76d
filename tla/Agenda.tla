------------------------------- MODULE Agenda -------------------------------
(***************************************************************************)
(* What an event queue promises the parts of NVMain that schedule with it. *)
(* An event is handled at the cycle it was inserted for, no sooner, no     *)
(* later and not twice, and the clock does not pass an event that waits.   *)
(* How the events are kept is left to EventQueue, which implements this.   *)
(***************************************************************************)
EXTENDS Integers

CONSTANTS Events, Cycles, None

VARIABLES now,       \* the current cycle
          due,       \* the cycle each event waits for, or None
          running    \* the event whose handler runs, or None

vars == <<now, due, running>>

Init ==
  /\ now = 0
  /\ due = [e \in Events |-> None]
  /\ running = None

Insert(e, t) ==
  /\ due[e] = None /\ e # running
  /\ t >= now
  /\ due' = [due EXCEPT ![e] = t]
  /\ UNCHANGED <<now, running>>

Cancel(e) ==
  /\ due[e] # None
  /\ due' = [due EXCEPT ![e] = None]
  /\ UNCHANGED <<now, running>>

\* The handler of an event starts when its cycle has come.
Handle(e) ==
  /\ due[e] = now
  /\ running' = e
  /\ due' = [due EXCEPT ![e] = None]
  /\ UNCHANGED now

Finish ==
  /\ running' = None
  /\ UNCHANGED <<now, due>>

\* Time passes between handlers, and never past an event that waits.
Advance(t) ==
  /\ running = None
  /\ t > now
  /\ \A e \in Events : due[e] # None => due[e] >= t
  /\ now' = t
  /\ UNCHANGED <<due, running>>

Next ==
  \/ \E e \in Events, t \in Cycles : Insert(e, t)
  \/ \E e \in Events : Cancel(e) \/ Handle(e)
  \/ \E t \in Cycles : Advance(t)
  \/ Finish

Spec == Init /\ [][Next]_vars
=============================================================================
