--------------------------- MODULE MCUserContexts ---------------------------
(* Instances of UserContexts: one client a beside the manager.              *)
EXTENDS UserContexts, TLC

CONSTANTS mgr, a

MCHash == [p \in Passage |-> p]
AllLists == SUBSET (Passage \ {Manager})
==============================================================================
