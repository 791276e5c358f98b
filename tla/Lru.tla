---------------------------------- MODULE Lru ----------------------------------
(***************************************************************************)
(* Package infra/lru: a doubly linked list of infra/linklist in the order   *)
(* of use, and two maps between keys and its nodes.  One mutex covers every *)
(* operation, so each is a step.  Inserting pops expired nodes from the     *)
(* back and stops at the first that is not: that this drops exactly the     *)
(* expired ones, and that the pointers and the maps stay in agreement, is   *)
(* what the refinement of RecencyMap says.                                  *)
(*                                                                          *)
(* Insert of a key that is in the map is exported and never called: the     *)
(* pools of contexts use GetOrInsert, Get and GetKeys.                      *)
(***************************************************************************)
EXTENDS Naturals, Sequences, FiniteSets

CONSTANTS
    Key,
    LruNode,          \* nodes of the list; one that left it can be made again
    First, Last,      \* its two sentinels, head and tail
    NoNode, NoKey,    \* nil
    Limit, MaxTime    \* the limit; bound on the clock

ASSUME LruAssumption ==
    /\ First # Last /\ {First, Last} \cap LruNode = {} /\ NoNode \notin LruNode /\ NoKey \notin Key
    /\ IsFiniteSet(Key) /\ IsFiniteSet(LruNode) /\ Cardinality(LruNode) > Cardinality(Key)
    /\ Limit \in Nat \ {0} /\ MaxTime \in Nat

VARIABLES
    strategy,
    list,          \* the pointers: a record of next and prior
    index,         \* the node of each key
    reverseIndex,  \* the key of each node
    lastUse,       \* LastUseTime of what a node holds
    time

lruVars == <<strategy, list, index, reverseIndex, lastUse, time>>

------------------------------------------------------------------------------
(* linklist                                                                 *)
InsertAfter(l, p, n) ==
    [next |-> [l.next EXCEPT ![n] = l.next[p], ![p] = n],
     prior |-> [l.prior EXCEPT ![n] = p, ![l.next[p]] = n]]

(* Remove, and the first half of Promote.                                   *)
Unlink_Half(l, p) ==
    [l EXCEPT !.next[l.prior[p]] = l.next[p]]

Unlink(l, p) ==
    [next |-> [l.next EXCEPT ![l.prior[p]] = l.next[p]],
     prior |-> [l.prior EXCEPT ![l.next[p]] = l.prior[p]]]

Promote(l, p) ==
    IF p = l.next[First] THEN l ELSE InsertAfter(Unlink(l, p), First, p)

Back(l) == l.prior[Last]

NewLinklist ==
    [next |-> [n \in LruNode \cup {First, Last} |-> IF n = First THEN Last ELSE NoNode],
     prior |-> [n \in LruNode \cup {First, Last} |-> IF n = Last THEN First ELSE NoNode]]

------------------------------------------------------------------------------
LruInit ==
    /\ strategy \in {"FixedLength", "FixedTimeout"}
    /\ list = NewLinklist
    /\ index = [k \in Key |-> NoNode]
    /\ reverseIndex = [n \in LruNode |-> NoKey]
    /\ lastUse = [n \in LruNode |-> 0]
    /\ time = 0

(* get: the value becomes the most recently used.                           *)
LruGet(k) ==
    /\ index[k] # NoNode
    /\ list' = Promote(list, index[k])
    /\ lastUse' = [lastUse EXCEPT ![index[k]] = time]
    /\ UNCHANGED <<strategy, index, reverseIndex, time>>

(* What insert works on, and what it does with the node at the back.        *)
Pop(s) ==
    LET back == Back(s.list)
    IN  [list |-> Unlink(s.list, back),
         index |-> [s.index EXCEPT ![s.keys[back]] = NoNode],
         keys |-> [s.keys EXCEPT ![back] = NoKey]]

Expired(s, used) == Back(s.list) # First /\ time - used[Back(s.list)] >= Limit

(* The loop leaves off at the first that has not expired, hence after as    *)
(* many rounds as there are nodes at the latest.                            *)
PopBack(s, used) == IF Expired(s, used) THEN Pop(s) ELSE s

PopExpired(s, used) ==
    LET popped[n \in 0 .. Cardinality(LruNode)] ==
            IF n = 0 THEN s ELSE PopBack(popped[n - 1], used)
    IN  popped[Cardinality(LruNode)]

TooLong(s) == Cardinality({k \in Key : s.index[k] # NoNode}) > Limit

(* insert, of a key that get has not found.                                 *)
LruInsert(k) ==
    LET node == CHOOSE n \in LruNode : reverseIndex[n] = NoKey
        used == [lastUse EXCEPT ![node] = time]
        pushed == [list |-> InsertAfter(list, First, node),
                   index |-> [index EXCEPT ![k] = node],
                   keys |-> [reverseIndex EXCEPT ![node] = k]]
        left == IF strategy = "FixedTimeout" THEN PopExpired(pushed, used)
                ELSE IF TooLong(pushed) THEN Pop(pushed) ELSE pushed
    IN  /\ index[k] = NoNode
        /\ list' = left.list /\ index' = left.index /\ reverseIndex' = left.keys
        /\ lastUse' = used
        /\ UNCHANGED <<strategy, time>>

LruTick ==
    /\ time < MaxTime
    /\ time' = time + 1
    /\ UNCHANGED <<strategy, list, index, reverseIndex, lastUse>>

LruNext == LruTick \/ \E k \in Key : LruGet(k) \/ LruInsert(k)

LruSpec == LruInit /\ [][LruNext]_lruVars

------------------------------------------------------------------------------
(* The nodes in the order of the list, as far as they are linked, and what  *)
(* they hold.                                                               *)
Linked(l) ==
    LET after[i \in 0 .. Cardinality(LruNode)] ==
            [n \in LruNode \cup {First} |->
                IF i = 0 \/ l.next[n] \notin LruNode THEN <<>>
                ELSE <<l.next[n]>> \o after[i - 1][l.next[n]]]
    IN  after[Cardinality(LruNode)][First]

Entries ==
    LET nodes == Linked(list)
    IN  [i \in 1..Len(nodes) |-> [key |-> reverseIndex[nodes[i]], at |-> lastUse[nodes[i]]]]

(* Whatever keys come and go and however long they stay away, the list, its *)
(* maps and the times in its nodes behave as the map that forgets: entries  *)
(* stand in the order of use under the right keys, and an insertion drops   *)
(* all that have expired and none that has not.                             *)
Recency == INSTANCE RecencyMap WITH recent <- Entries
LruForgets == Recency!Spec
================================================================================
