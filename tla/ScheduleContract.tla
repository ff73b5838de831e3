-------------------------- MODULE ScheduleContract --------------------------
(***************************************************************************)
(* What a Backup's owner may rely on, whatever Kubernetes or the operator  *)
(* goes through: specs are numbered, at most one schedule is in force, a   *)
(* schedule in force is never older than the generation the status         *)
(* acknowledges, acknowledgements only move forward, and none is given     *)
(* while the schedule of another generation is in force.                   *)
(***************************************************************************)
EXTENDS Naturals

VARIABLES
    generation,     \* The number of the newest spec
    built,          \* The generation of the schedule in force, 0 if none
    acknowledged,   \* The generation the status says was reconciled
    retired         \* The Backup is gone

vars == <<generation, built, acknowledged, retired>>

TypeOK ==
    /\ generation \in Nat
    /\ built \in Nat
    /\ acknowledged \in Nat
    /\ retired \in BOOLEAN

Init ==
    /\ generation = 1
    /\ built = 0
    /\ acknowledged = 0
    /\ retired = FALSE

\* The user applies a new spec.
Edit ==
    /\ ~retired
    /\ generation' = generation + 1
    /\ UNCHANGED <<built, acknowledged, retired>>

\* A schedule comes into force; it may already be out of date.
Build ==
    /\ built = 0
    /\ built' \in 1 .. generation
    /\ built' >= acknowledged
    /\ UNCHANGED <<generation, acknowledged, retired>>

\* The schedule is taken out of force.
Withdraw ==
    /\ built # 0
    /\ built' = 0
    /\ UNCHANGED <<generation, acknowledged, retired>>

Acknowledge ==
    /\ ~retired
    /\ acknowledged' \in (acknowledged + 1) .. generation
    /\ built \in {0, acknowledged'}
    /\ UNCHANGED <<generation, built, retired>>

\* The Backup goes, and its status with it.
Retire ==
    /\ ~retired
    /\ retired' = TRUE
    /\ acknowledged' = 0
    /\ UNCHANGED <<generation, built>>

Next == Edit \/ Build \/ Withdraw \/ Acknowledge \/ Retire

Spec == Init /\ [][Next]_vars
=============================================================================
