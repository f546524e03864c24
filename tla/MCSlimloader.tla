---------------------------- MODULE MCSlimloader ----------------------------
(***************************************************************************)
(* Instances of Slimloader for TLC: two slots with a partition, and a      *)
(* third one that a State can name and the device does not have.           *)
(***************************************************************************)
EXTENDS Slimloader

MCSlots == 0 .. 2
MCPartitions == {0, 1}

\* The default of the example board, and of the trait.
TraitDefault == [status |-> "Initial", target |-> 0, backup |-> 0]

\* A policy that rejects some states: those whose target has no partition.
\* A backup without one is accepted, as everything is on the example board.
TargetExists == {s \in States : s.target \in MCPartitions}

\* The instance is one the theorems are about.
ASSUME InstanceIsOrdinary == OrdinaryPolicy

AnyJournal == States \cup {NoState}
=============================================================================
