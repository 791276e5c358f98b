------------------------------ MODULE MCStructures ------------------------------
(***************************************************************************)
(* The data structures of infra/, checked in one run: they share nothing,   *)
(* so each initial state chooses one of them and the others stand still.    *)
(***************************************************************************)
EXTENDS Lru, LruList, Trie, TLC

VARIABLE which

(* The least power of two that is enough.                                   *)
MCClosest(need) ==
    CHOOSE p \in {2 ^ k : k \in 0..need} : p >= need /\ \A k \in 0..need : 2 ^ k >= need => p <= 2 ^ k

(* The ones that stand still have no need of all their initial states.      *)
IdleLru == LruInit /\ strategy = "FixedLength"
IdleTrie == TrieInit /\ dict = {} /\ str = [i \in 1..Width |-> 0]

StructuresInit ==
    \/ which = "lru" /\ LruInit /\ LlInit /\ IdleTrie
    \/ which = "lrulist" /\ IdleLru /\ LlInit /\ IdleTrie
    \/ which = "trie" /\ IdleLru /\ LlInit /\ TrieInit

StructuresNext ==
    \/ which = "lru" /\ LruNext /\ UNCHANGED <<which, llvars, trieVars>>
    \/ which = "lrulist" /\ LlNext /\ UNCHANGED <<which, lruVars, trieVars>>
    \/ which = "trie" /\ TrieNext /\ UNCHANGED <<which, lruVars, llvars>>

(* Nothing tells the walkers of a list apart.                               *)
WalkerSymmetry == Permutations(Walker)
================================================================================
