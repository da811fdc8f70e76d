-------------------------- MODULE MCEmasConcurrent --------------------------
(* Overlapping invocations of a bounded number, on a configured EMAS. *)
EXTENDS MCEmasState

CONSTANT MaxCalls  \* the invocations a behaviour may start

VARIABLE calls

MCInit == ConfiguredInit /\ calls = 0

MCNext ==
  \/ /\ calls < MaxCalls
     /\ calls' = calls + 1
     /\ \E p \in Procs, c \in Commands, f \in Families \cup {NoFamily} : Invoke(p, c, f)
  \/ /\ \E p \in Procs : Step(p) \/ Crash(p)
     /\ UNCHANGED calls

MCSpec == MCInit /\ [][MCNext]_<<vars, calls>>
MCFairSpec == MCSpec /\ \A p \in Procs : WF_vars(Step(p))
=============================================================================
