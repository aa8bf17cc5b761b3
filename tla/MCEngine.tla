------------------------------ MODULE MCEngine ------------------------------
(* Instances of Engine for TLC: constants that are functions, and symmetry. *)
EXTENDS Engine, TLC

CONSTANTS t1, t2, impl, closed

OneStep   == impl :> "work"
TwoSteps  == impl :> "work" @@ closed :> "done"
NoBlocks  == [t \in Task |-> {}]
T2AfterT1 == t1 :> {} @@ t2 :> {t1}

SessionSymmetry == Permutations(Session)
=============================================================================
