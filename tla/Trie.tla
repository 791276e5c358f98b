---------------------------------- MODULE Trie ----------------------------------
(***************************************************************************)
(* Packages infra/trie and infra/ip_mtu_trie: a static trie over the bits   *)
(* of the networks of the interfaces, whose chains of single children are   *)
(* replaced by one edge with a string, and the match of an address in it,   *)
(* from which a relay of UDP takes the size of its buffer.  A node is the   *)
(* word that leads to it.                                                   *)
(*                                                                          *)
(* An address always has the full width, so no string is shorter than a     *)
(* word; Match is written for shorter ones too and is wrong there.          *)
(***************************************************************************)
EXTENDS Naturals, Sequences, FiniteSets

CONSTANTS
    Width,      \* bits of an address
    MaxDict     \* bound on the networks

ASSUME TrieAssumption == Width \in Nat \ {0} /\ MaxDict \in Nat

Bit == {0, 1}
BitString(n) == [1..n -> Bit]
Network == UNION {BitString(n) : n \in 0..Width}

IsPrefix(p, q) == Len(p) <= Len(q) /\ \A i \in 1..Len(p) : p[i] = q[i]

VARIABLES
    dict,     \* v4Prefix2MTU: the networks whose MTU is known
    edges,    \* the trie: the node each bit leads to from each node
    str,      \* Match: the address,
    pos,      \*        the runes read,
    builder,  \*        what was matched,
    at,       \*        the node p,
    prefix,   \*        and the last network met on the way
    match     \* "new", "matching", "done"

trieVars == <<dict, edges, str, pos, builder, at, prefix, match>>

TrieInit ==
    /\ dict \in {{}} \cup {{of[i] : i \in 1..MaxDict} : of \in [1..MaxDict -> Network]}
    /\ str \in BitString(Width)
    /\ edges = <<>> /\ pos = 0 /\ builder = <<>> /\ at = <<>> /\ prefix = <<>>
    /\ match = "new"

------------------------------------------------------------------------------
(* New: a node for every beginning of a network.  The loop over the runes   *)
(* of the empty network marks nothing.                                      *)
Nodes == {<<>>} \cup UNION {{SubSeq(w, 1, n) : n \in 0..Len(w)} : w \in dict}
IsEnd(p) == p \in dict /\ p # <<>>
Child(p) == {b \in Bit : Append(p, b) \in Nodes}

(* makeJump: an edge leads to the first node at which something can happen. *)
Fork_Branches(p) == Cardinality(Child(p)) # 1
Fork(p) == IsEnd(p) \/ Cardinality(Child(p)) > 1

Below(p, b) == {q \in Nodes : IsPrefix(Append(p, b), q) /\ Fork(q)}
Jump(p, b) == CHOOSE q \in Below(p, b) : \A r \in Below(p, b) : Len(q) <= Len(r)

TrieNew ==
    /\ match = "new"
    /\ edges' = [p \in {q \in Nodes : q = <<>> \/ Fork(q)} |-> [b \in Child(p) |-> Jump(p, b)]]
    /\ match' = "matching"
    /\ UNCHANGED <<dict, str, pos, builder, at, prefix>>

------------------------------------------------------------------------------
(* Match: one round of its loop.                                            *)
Stop ==
    /\ match' = "done"
    /\ UNCHANGED <<dict, edges, str, pos, builder, at, prefix>>

Ended == pos = Width \/ str[pos + 1] \notin DOMAIN edges[at]

Label(q) == SubSeq(q, Len(at) + 1, Len(q))
Rest == SubSeq(str, pos + 1, Width)

(* The rune, or the string of the edge, agrees with the address.            *)
Matches(q) == IsPrefix(Label(q), Rest)

Advance(q) ==
    /\ Matches(q)
    /\ pos' = pos + Len(Label(q))
    /\ builder' = builder \o Label(q)
    /\ at' = q
    /\ prefix' = IF IsEnd(q) THEN builder' ELSE prefix
    /\ match' = IF IsEnd(q) /\ Len(builder') = Width THEN "done" ELSE "matching"
    /\ UNCHANGED <<dict, edges, str>>

MatchRune ==
    /\ match = "matching"
    /\ \/ Ended /\ Stop
       \/ /\ ~Ended
          /\ LET q == edges[at][str[pos + 1]]
             IN  Advance(q) \/ (~Matches(q) /\ Stop)

TrieNext == TrieNew \/ MatchRune

TrieSpec == TrieInit /\ [][TrieNext]_trieVars

------------------------------------------------------------------------------
(* GetMTU: the network whose MTU the address is given, if there is one.     *)
GetMTU == {d \in dict : d = prefix}

(* Whatever networks the interfaces have, one inside the other, side by     *)
(* side, everything or nothing: the MTU is that of the longest network that *)
(* contains the address, and the default only if none does.                 *)
Containing == {d \in dict : IsPrefix(d, str)}
MatchIsLongest ==
    match = "done" => GetMTU = {d \in Containing : \A e \in Containing : Len(e) <= Len(d)}
================================================================================
