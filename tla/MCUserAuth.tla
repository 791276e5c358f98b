------------------------------ MODULE MCUserAuth ------------------------------
(* Instances of UserAuth: one client a beside the manager.                  *)
EXTENDS UserAuth, TLC

CONSTANTS mgr, a

MCHash == [p \in Passage |-> p]
AllLists == SUBSET (Passage \ {Manager})
Symmetry == Permutations(Handler) \cup Permutations(Ident) \cup Permutations(Ctx)
===============================================================================
