---------------------------- MODULE MCJuicityUsers ----------------------------
(* Instances of PassageSync and JuicityUsers: a is a client with one        *)
(* passage; c1, c2 and v belong to another: c1 and c2 differ in Out only, v *)
(* has another password; the name of z does not parse.                      *)
EXTENDS JuicityUsers, TLC

CONSTANTS mgr, a, c1, c2, v, z

HashOf == (mgr :> "hm") @@ (a :> "ha") @@ (c1 :> "hc") @@ (c2 :> "hc") @@ (v :> "hv") @@ (z :> "hz")
ClientOf == (mgr :> "um") @@ (a :> "ua") @@ (c1 :> "uc") @@ (c2 :> "uc") @@ (v :> "uc") @@ (z :> "um")

MCArg == {HashOf[p] : p \in Passage}
MCHash == [p \in Passage |-> HashOf[p]]
MCUuid == {ClientOf[p] : p \in Passage}
MCUuidOf == [p \in Passage |-> ClientOf[p]]

(* Every list in which each client has at most one passage.                 *)
AllLists == {L \in SUBSET (Passage \ {Manager}) :
                 \A p, q \in L : ClientOf[p] = ClientOf[q] => p = q}

(* c1 and c2 have the same hash and identifier.                             *)
Symmetry == Permutations(Syncers) \cup Permutations({c1, c2})
===============================================================================
