------------------------------- MODULE WalInv -------------------------------
(***************************************************************************)
(* The inductive invariant of Wal.tla, the predicates of WalState.tla of   *)
(* its variables.                                                          *)
(***************************************************************************)
EXTENDS Wal, WalState

\* The workload leaves the two races out.
NoRace == ~budget.rotationRace /\ ~budget.encryptRace

\* The inductive invariant.
Inv ==
    /\ budget \in Workload /\ spent \in Seq(Nat) /\ acked \subseteq Records /\ discarded \subseteq Records
    /\ Nonces(log, control, spent)
    /\ Sound(log, segs, control, io, proc, Len(spent), discarded, acked, NoRace)

=============================================================================
