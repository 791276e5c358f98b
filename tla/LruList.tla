-------------------------------- MODULE LruList --------------------------------
(***************************************************************************)
(* Package infra/lrulist: the list of a user context, which handlers walk   *)
(* in copies (GetListCopy, DestroyListCopy) while a sync inserts and        *)
(* removes in place, and growingPool, from which the arrays under the list  *)
(* and its copies come and to which they go back.                           *)
(*                                                                          *)
(* muList covers the list, so an operation under it is a step, except that  *)
(* an Insert which outgrows the pool is several: its Get changes size and   *)
(* pool one after the other, and Put, called by DestroyListCopy, reads both *)
(* without the mutex of the pool.                                           *)
(*                                                                          *)
(* The lists of this program are made by NewWithList, which starts no       *)
(* updater: max and avg stay 0 and nothing sorts a list.  Weights are kept  *)
(* as far as Insert compares them with its new weight of 1: promoted or not.*)
(***************************************************************************)
EXTENDS Naturals, Sequences

CONSTANTS
    Walker,   \* goroutines that take copies
    Node,     \* nodes; one that nothing points to can be made again
    Nil,      \* what a fresh array holds
    Array,    \* arrays; likewise
    NoArray,
    MaxLen,   \* bound on the length of the list
    Closest(_) \* 1 << pool.GetClosestN(need), of a library: at least what is needed

ASSUME LruListAssumption ==
    /\ Nil \notin Node /\ NoArray \notin Array
    /\ Node # {} /\ Array # {}
    /\ MaxLen \in Nat \ {0}
    /\ \A need \in 1..MaxLen : Closest(need) \in Nat /\ Closest(need) >= need

VARIABLES
    cells,    \* the contents of each array, up to its capacity
    muList,   \* who holds it across steps: "insert" or "nobody"
    cur, len, \* the array of l.list and its length
    vals,     \* the nodes the growing Insert is about to insert
    size,     \* growingPool.size
    gen,      \* growingPool.pool: how often it was replaced
    pooled,   \* the arrays in each sync.Pool: pairs of a generation and an array
    promoted, \* the nodes whose weight is not 0
    wpc,      \* each walker: "idle", "walk", "slice", "put" (in Put)
    copy,     \* its array
    snap,     \* history: the list when it was copied
    grow,     \* Insert: "off", "size", "pool", "move"
    panicked, \* a slice expression was out of range
    raced     \* history: size was replaced while a Put had compared it already

walkVars == <<wpc, copy, snap>>
listVars == <<muList, cur, len, vals, grow, promoted>>
poolVars == <<size, gen, pooled>>
llvars == <<cells, listVars, poolVars, walkVars, panicked, raced>>

Cap(a) == Len(cells[a])
List == SubSeq(cells[cur], 1, len)
Inside(s) == {s[i] : i \in 1..Len(s)}

(* An array of capacity n that begins with s.                               *)
Fill(n, s) == [i \in 1..n |-> IF i <= Len(s) THEN s[i] ELSE Nil]
Fresh(n) == Fill(n, <<>>)

Used == {cur} \cup {copy[w] : w \in Walker} \cup {e[2] : e \in pooled}
Free == Array \ Used
FreeNodes == Node \ (Inside(List) \cup UNION {Inside(snap[w]) : w \in Walker})

(* NewWithList                                                              *)
LlInit ==
    LET a == CHOOSE x \in Array : TRUE
        first == CHOOSE x \in Node : TRUE
    IN  /\ cells = [b \in Array |-> IF b = a THEN Fill(Closest(1), <<first>>) ELSE <<>>]
        /\ muList = "nobody" /\ cur = a /\ len = 1 /\ vals = <<>>
        /\ size = Closest(1) /\ gen = 0 /\ pooled = {}
        /\ promoted = {}
        /\ wpc = [w \in Walker |-> "idle"]
        /\ copy = [w \in Walker |-> NoArray]
        /\ snap = [w \in Walker |-> <<>>]
        /\ grow = "off" /\ panicked = FALSE /\ raced = FALSE

------------------------------------------------------------------------------
(* growingPool.Get, apart from its replacing size and pool: what the pool   *)
(* has, or else a new array.  [:need] panics beyond the capacity.           *)
Taken(a) ==
    \/ <<gen, a>> \in pooled
    \/ /\ \A b \in Array : <<gen, b>> \notin pooled
       /\ a \in Free /\ a = CHOOSE x \in Free : TRUE
Capacity(a) == IF <<gen, a>> \in pooled THEN Cap(a) ELSE size

(* sync.Pool may drop what it holds at any time.                            *)
PoolForgets(e) ==
    /\ e \in pooled
    /\ pooled' = pooled \ {e}
    /\ cells' = [cells EXCEPT ![e[2]] = <<>>]
    /\ UNCHANGED <<listVars, size, gen, walkVars, panicked, raced>>

------------------------------------------------------------------------------
(* GetListCopy.                                                             *)
GetListCopy_Alias(w) ==
    /\ wpc[w] = "idle" /\ muList = "nobody"
    /\ copy' = [copy EXCEPT ![w] = cur]
    /\ snap' = [snap EXCEPT ![w] = List]
    /\ wpc' = [wpc EXCEPT ![w] = "walk"]
    /\ UNCHANGED <<cells, listVars, poolVars, panicked, raced>>

GetListCopy(w) ==
    /\ wpc[w] = "idle" /\ muList = "nobody"
    /\ \E a \in Array :
          /\ Taken(a)
          /\ panicked' = (Capacity(a) < len)
          /\ cells' = [cells EXCEPT ![a] =
                          IF panicked' THEN @ ELSE Fill(Capacity(a), List)]
          /\ pooled' = pooled \ {<<gen, a>>}
          /\ copy' = [copy EXCEPT ![w] = a]
    /\ snap' = [snap EXCEPT ![w] = List]
    /\ wpc' = [wpc EXCEPT ![w] = "walk"]
    /\ UNCHANGED <<listVars, size, gen, raced>>

(* Promote adds 1 to the weight of a node of the copy.                      *)
PromoteNode(w, n) ==
    /\ wpc[w] = "walk" /\ n \in Inside(snap[w])
    /\ promoted' = promoted \cup {n}
    /\ UNCHANGED <<cells, muList, cur, len, vals, grow, poolVars, walkVars, panicked, raced>>

(* Remove of a node found in a copy, perhaps removed by another meanwhile.  *)
RemoveNode(w, n) ==
    /\ wpc[w] = "walk" /\ n \in Inside(snap[w]) /\ muList = "nobody"
    /\ \E i \in 1..len :
          /\ List[i] = n /\ \A j \in 1 .. i - 1 : List[j] # n
          /\ cells' = [cells EXCEPT ![cur] =
                          Fill(Cap(cur), SubSeq(List, 1, i - 1) \o SubSeq(List, i + 1, len))]
    /\ len' = len - 1
    /\ UNCHANGED <<muList, cur, vals, grow, promoted, poolVars, walkVars, panicked, raced>>

(* DestroyListCopy: Put compares the capacity with size, slices to size and *)
(* hands the array to the pool, reading all three without the mutex.        *)
Forget(w) ==
    /\ copy' = [copy EXCEPT ![w] = NoArray]
    /\ snap' = [snap EXCEPT ![w] = <<>>]

PutCompares(w) ==
    /\ wpc[w] = "walk"
    /\ IF Cap(copy[w]) = size
          THEN /\ wpc' = [wpc EXCEPT ![w] = "slice"]
               /\ UNCHANGED <<cells, copy, snap>>
          ELSE /\ wpc' = [wpc EXCEPT ![w] = "idle"]
               /\ cells' = [cells EXCEPT ![copy[w]] = <<>>]
               /\ Forget(w)
    /\ UNCHANGED <<listVars, poolVars, panicked, raced>>

PutSlices(w) ==
    /\ wpc[w] = "slice"
    /\ panicked' = (Cap(copy[w]) < size)
    /\ wpc' = [wpc EXCEPT ![w] = "put"]
    /\ UNCHANGED <<cells, listVars, poolVars, copy, snap, raced>>

PutPools(w) ==
    /\ wpc[w] = "put"
    /\ pooled' = pooled \cup {<<gen, copy[w]>>}
    /\ cells' = [cells EXCEPT ![copy[w]] = Fresh(Len(@))]
    /\ wpc' = [wpc EXCEPT ![w] = "idle"]
    /\ Forget(w)
    /\ UNCHANGED <<listVars, size, gen, panicked, raced>>

------------------------------------------------------------------------------
(* Insert: before the first node of a weight below the new weight, which is *)
(* l.max + 1 = 1.                                                           *)
InsertBefore ==
    LET low == {i \in 1..len : List[i] \notin promoted}
    IN  IF low = {} THEN len + 1 ELSE CHOOSE i \in low : \A j \in low : i <= j

Inserted(new) == SubSeq(List, 1, InsertBefore - 1) \o new \o SubSeq(List, InsertBefore, len)

(* With room in the array the tail is moved in place ...                    *)
InsertInPlace(new) ==
    /\ muList = "nobody" /\ Cap(cur) >= len + Len(new)
    /\ cells' = [cells EXCEPT ![cur] = Fill(Cap(cur), Inserted(new))]
    /\ len' = len + Len(new)
    /\ promoted' = promoted \cup Inside(new)
    /\ UNCHANGED <<muList, cur, vals, grow, poolVars, walkVars, panicked, raced>>

(* ... without it an array comes from the pool, which grows first:          *)
InsertStarts(new) ==
    /\ muList = "nobody" /\ Cap(cur) < len + Len(new)
    /\ muList' = "insert" /\ vals' = new
    /\ grow' = IF len + Len(new) > size THEN "size" ELSE "move"
    /\ UNCHANGED <<cells, cur, len, promoted, poolVars, walkVars, panicked, raced>>

(* p.size = 1 << pool.GetClosestN(need)                                     *)
GrowSize ==
    /\ grow = "size"
    /\ size' = Closest(len + Len(vals))
    /\ raced' = (raced \/ \E w \in Walker : wpc[w] \in {"slice", "put"})
    /\ grow' = "pool"
    /\ UNCHANGED <<cells, muList, cur, len, vals, promoted, gen, pooled, walkVars, panicked>>

(* p.pool = &sync.Pool{...}: what the old one held is garbage.              *)
GrowPool_Keep ==
    /\ grow = "pool"
    /\ grow' = "move"
    /\ UNCHANGED <<cells, muList, cur, len, vals, promoted, poolVars, walkVars, panicked, raced>>

GrowPool ==
    /\ grow = "pool"
    /\ gen' = gen + 1
    /\ pooled' = {}
    /\ cells' = [a \in Array |-> IF a \in {e[2] : e \in pooled} THEN <<>> ELSE cells[a]]
    /\ grow' = "move"
    /\ UNCHANGED <<muList, cur, len, vals, promoted, size, walkVars, panicked, raced>>

(* The list moves to the new array; the old one is Put if it has the size.  *)
InsertMoves ==
    /\ grow = "move"
    /\ \E a \in Array :
          /\ Taken(a)
          /\ panicked' = (Capacity(a) < len + Len(vals))
          /\ LET back == IF Cap(cur) = size THEN {<<gen, cur>>} ELSE {}
             IN  /\ pooled' = (pooled \ {<<gen, a>>}) \cup back
                 /\ cells' = [cells EXCEPT ![a] = IF panicked' THEN @ ELSE Fill(Capacity(a), Inserted(vals)),
                                           ![cur] = IF back = {} THEN <<>> ELSE Fresh(Len(@))]
          /\ cur' = a
    /\ len' = len + Len(vals)
    /\ promoted' = promoted \cup Inside(vals)
    /\ muList' = "nobody" /\ vals' = <<>> /\ grow' = "off"
    /\ UNCHANGED <<size, gen, walkVars, raced>>

(* A sync inserts passages, one or two at a time; as nodes they are alike.  *)
Distinct(n) == {new \in [1..n -> FreeNodes] : \A i, j \in 1..n : new[i] = new[j] => i = j}
NewNodes ==
    {CHOOSE new \in Distinct(n) : TRUE : n \in {m \in 1..2 : Distinct(m) # {} /\ len + m <= MaxLen}}

InsertSteps ==
    \/ \E new \in NewNodes : InsertInPlace(new) \/ InsertStarts(new)
    \/ GrowSize
    \/ GrowPool
    \/ InsertMoves

WalkerSteps(w) ==
    \/ GetListCopy(w)
    \/ \E n \in Node : PromoteNode(w, n) \/ RemoveNode(w, n)
    \/ PutCompares(w)
    \/ PutSlices(w)
    \/ PutPools(w)

LlNext ==
    /\ ~panicked
    /\ \/ InsertSteps
       \/ \E w \in Walker : WalkerSteps(w)
       \/ \E e \in pooled : PoolForgets(e)

LlSpec == LlInit /\ [][LlNext]_llvars

------------------------------------------------------------------------------
(* What a handler walks stays the list as it was when it was copied: no     *)
(* insertion, removal or growth of the list, and no other copy, reaches the *)
(* array it reads.                                                          *)
CopiesAreSnapshots ==
    ~panicked => \A w \in Walker :
        wpc[w] = "walk" => /\ Cap(copy[w]) >= Len(snap[w])
                           /\ SubSeq(cells[copy[w]], 1, Len(snap[w])) = snap[w]

(* The pool hands out arrays that are large enough, unless a Put came       *)
(* between the two assignments of a Get that grows it: only that race makes *)
(* a slice expression of package lrulist panic.                             *)
PanicNeedsRace == panicked => raced
================================================================================
