----------------------------- MODULE MCEmasState -----------------------------
(* Small instances of EmasState.  Both families of the repository, Test and *)
(* SCM, build the same binary; only Test sets the variables a run needs.    *)
EXTENDS EmasState, TLC

CONSTANTS Test, SCM, Arm

SharedBinary == [f \in Families |-> Arm]
OnlyTest == {Test} \cap Families

\* A first EMAS_config has succeeded and the Work tree is complete.
ConfiguredInit ==
  /\ state = [Default EXCEPT !.configured = TRUE]
  /\ open = {}
  /\ lock = Hash(state)
  /\ work = Paths
  /\ scripts = [f \in Families |-> {"build"}]
  /\ compiled = {}
  /\ pc = [p \in Procs |-> "idle"]
  /\ cmd = [p \in Procs |-> "other"]
  /\ target = [p \in Procs |-> NoFamily]
  /\ stage = [p \in Procs |-> "none"]
  /\ env = [p \in Procs |-> Empty]
  /\ seen = [p \in Procs |-> Empty]
=============================================================================
