---------------------------- MODULE MCAnyTLSWrite ----------------------------
(* Instances of AnyTLSWrite.                                                *)
EXTENDS AnyTLSWrite, TLC

Symmetry == Permutations(Writer) \cup Permutations(Setter) \cup Permutations(Stream)
==============================================================================
