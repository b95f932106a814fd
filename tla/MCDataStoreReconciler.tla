----------------------- MODULE MCDataStoreReconciler -----------------------
(***************************************************************************)
(* Instances of DataStoreReconciler for TLC.  Passwords are only compared  *)
(* for equality, so the safety runs treat them as a symmetry set.  Two are *)
(* enough: one of the volume and a fresh one.                              *)
(***************************************************************************)
EXTENDS DataStoreReconciler, TLC

CONSTANTS p1, p2

PasswordSymmetry == Permutations({p1, p2})

(* A symmetry set is not sound for liveness.  The images differ in their   *)
(* names only: of a behaviour that starts with a profile it is pg16.       *)
InitFromOneImage == Init /\ profile \in {Nothing, "pg16"}

FairSpecFromOneImage == InitFromOneImage /\ [][Next]_vars /\ Fairness
=============================================================================
