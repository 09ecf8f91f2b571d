------------------------------ MODULE Rollout ------------------------------
(***************************************************************************)
(* What a reload promises (ADR-0015): one config at a time is taken, and   *)
(* it is in force in a fixed order, first the backends, then the algorithm *)
(* that chooses among them, and last the record of it, which the next      *)
(* config is compared with. A config that is refused leaves no trace.      *)
(*                                                                         *)
(* Process implements it with two triggers, a mutex, a registry of         *)
(* instances and a selector.                                               *)
(***************************************************************************)
CONSTANTS Configs,  \* the configs that may ever be in force
          Start     \* the one at startup

VARIABLES
  config,    \* the recorded config
  target,    \* the one being brought into force
  backends,  \* the backends that are served, in order
  algorithm  \* the algorithm that chooses among them

vars == <<config, target, backends, algorithm>>

Init ==
  /\ config = Start /\ target = Start
  /\ backends = Start.backends /\ algorithm = Start.algorithm

\* A config is taken when no other is on its way.
Accept(c) ==
  /\ target = config
  /\ target' = c
  /\ UNCHANGED <<config, backends, algorithm>>

SwitchFleet ==
  /\ backends' = target.backends
  /\ UNCHANGED <<config, target, algorithm>>

\* The new algorithm never sees the previous backends.
SwitchSelector ==
  /\ backends = target.backends
  /\ algorithm' = target.algorithm
  /\ UNCHANGED <<config, target, backends>>

\* What is recorded is in force.
Record ==
  /\ backends = target.backends /\ algorithm = target.algorithm
  /\ config' = target
  /\ UNCHANGED <<target, backends, algorithm>>

Next == (\E c \in Configs : Accept(c)) \/ SwitchFleet \/ SwitchSelector \/ Record

Spec == Init /\ [][Next]_vars
=============================================================================
