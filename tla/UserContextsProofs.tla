-------------------------- MODULE UserContextsProofs --------------------------
(***************************************************************************)
(* The contexts of the shadowsocks and vmess servers follow the passage     *)
(* table for any number of syncs, handlers, addresses and passages, and the *)
(* table behaves as PassageSync says.                                       *)
(*                                                                          *)
(* The argument: a traversal that has GetKeys behind it runs alone with the *)
(* pool.  A handler that misses takes the pool's mutex and then waits for   *)
(* the server's, so it can neither insert nor expire a context before the   *)
(* traversal ends; one that took its snapshot earlier still holds the       *)
(* pool's mutex, and GetKeys waits for its insertion.                       *)
(***************************************************************************)
EXTENDS UserAuth, TLAPS

Traversing(t) == pc[t] \in {"keys", "get", "update"}

(* The two mutexes are held by who is inside the critical sections.         *)
MutexHeld ==
    /\ \A t \in Syncers : Traversing(t) <=> mutex = t
    /\ \A h \in Handler : hpc[h] \in {"snapshot", "insert"} <=> poolMutex = h

(* A handler that is inserting owns a new context nobody else knows.        *)
NewContexts ==
    \A h \in Handler :
        /\ hpc[h] \in {"snapshot", "insert"} => index[ip[h]] = NoCtx
        /\ hpc[h] = "insert" => ctx[h] \in Ctx /\ \A i \in Ident : index[i] # ctx[h]
        /\ hpc[h] = "auth" => ctx[h] \in Ctx

(* The pooled contexts a traversal has still to update.                     *)
ToVisit(t) ==
    IF pc[t] = "keys" THEN Pooled
    ELSE keys[t] \cup {i \in Pooled : pc[t] = "update" /\ index[i] = cur[t]}

(* What a traversal has visited lists the table, what it has not would by   *)
(* its own update.                                                          *)
TraversalInv ==
    \A t \in Syncers : mutex = t =>
        /\ \A i \in Pooled \ ToVisit(t) : members[index[i]] = table
        /\ \A i \in ToVisit(t) : index[i] # NoCtx /\ Apply(t, members[index[i]]) = table
        /\ \A h \in Handler : hpc[h] = "insert" =>
               pc[t] = "keys" /\ Apply(t, members[ctx[h]]) = table
        /\ pc[t] = "update" =>
               cur[t] \in Ctx /\ \A i \in keys[t] : index[i] # cur[t]

(* Between traversals every context, pooled or about to be, lists it.       *)
QuietInv ==
    mutex = Nobody =>
        /\ \A i \in Pooled : members[index[i]] = table
        /\ \A h \in Handler : hpc[h] = "insert" => members[ctx[h]] = table

IInv ==
    /\ TypeOK
    /\ NoNilContext
    /\ MutexHeld
    /\ NewContexts
    /\ ContextsDistinct
    /\ TraversalInv
    /\ QuietInv

------------------------------------------------------------------------------
(* RemovePassages' and AddPassages' effect on a list is again a list.       *)
LEMMA ListTypes ==
    ASSUME NEW bag \in [Passage -> Nat], NEW S
    PROVE  /\ Table!Without(bag, S) \in [Passage -> Nat]
           /\ Table!With(bag, S) \in [Passage -> Nat]
  BY DEF Table!Without, Table!With

LEMMA ApplyType ==
    ASSUME NEW t \in Syncers, NEW bag \in [Passage -> Nat]
    PROVE  Apply(t, bag) \in [Passage -> Nat]
  BY ListTypes DEF Apply

LEMMA CollectType ==
    ASSUME NEW bags \in [Ctx -> [Passage -> Nat]], NEW idx, NEW held
    PROVE  Collect(bags, idx, held) \in [Ctx -> [Passage -> Nat]]
  BY DEF Collect, EmptyBag

LEMMA InitIInv == Init => IInv
  <1> SUFFICES ASSUME Init
               PROVE  IInv
    OBVIOUS
  <1> USE ContextAssumption
  <1>1. TypeOK
    BY DEF Init, TypeOK, Table!OnlyManager, EmptyBag
  <1>2. NoNilContext /\ MutexHeld /\ NewContexts /\ ContextsDistinct
    BY DEF Init, NoNilContext, MutexHeld, Traversing, NewContexts, ContextsDistinct, Pooled
  <1>3. TraversalInv /\ QuietInv
    BY DEF Init, TraversalInv, QuietInv, Pooled
  <1> QED
    BY <1>1, <1>2, <1>3 DEF IInv

LEMMA StartSyncKeeps ==
    ASSUME IInv, NEW t \in Syncers, NEW L \in Lists, StartSync(t, L)
    PROVE  IInv'
  <1> USE ContextAssumption DEF IInv, StartSync, handlerVars
  <1>1. L \in SUBSET (Passage \ {Manager})
    BY DEF Table!PassageAssumption
  <1>2. TypeOK'
    BY <1>1 DEF TypeOK, Table!Surplus, Table!Missing, Table!Members
  <1>3. NoNilContext' /\ MutexHeld'
    BY DEF NoNilContext, MutexHeld, Traversing, TypeOK
  <1>4. NewContexts' /\ ContextsDistinct'
    BY DEF NewContexts, ContextsDistinct, Pooled
  <1>5. TraversalInv' /\ QuietInv'
    BY DEF TraversalInv, QuietInv, Pooled
  <1> QED
    BY <1>2, <1>3, <1>4, <1>5

LEMMA LockTableKeeps ==
    ASSUME IInv, NEW t \in Syncers, LockTable(t)
    PROVE  IInv'
  <1> USE ContextAssumption DEF IInv, LockTable, handlerVars
  <1>1. TypeOK'
    BY ListTypes DEF TypeOK
  <1>2. NoNilContext' /\ MutexHeld'
    BY DEF NoNilContext, MutexHeld, Traversing, TypeOK
  <1>3. NewContexts' /\ ContextsDistinct'
    BY DEF NewContexts, ContextsDistinct, Pooled
  <1>4. QuietInv'
    BY DEF QuietInv
  <1>5. TraversalInv'
    <2>1. pc'[t] = "keys" /\ phase'[t] = pc[t]
      BY DEF TypeOK
    <2>2. \A bag : bag = table => table' = Apply(t, bag)'
      BY <2>1 DEF Apply
    <2> QED
      BY <2>1, <2>2 DEF TraversalInv, QuietInv, ToVisit, Pooled, TypeOK, MutexHeld, Traversing
  <1> QED
    BY <1>1, <1>2, <1>3, <1>4, <1>5

LEMMA GetKeysKeeps ==
    ASSUME IInv, NEW t \in Syncers, GetKeys(t)
    PROVE  IInv'
  <1> USE ContextAssumption DEF IInv, GetKeys, handlerVars
  <1>1. TypeOK'
    BY DEF TypeOK, Pooled
  <1>2. NoNilContext' /\ MutexHeld'
    BY DEF NoNilContext, MutexHeld, Traversing, TypeOK
  <1>3. NewContexts' /\ ContextsDistinct' /\ QuietInv'
    BY DEF NewContexts, ContextsDistinct, QuietInv, Pooled
  <1>4. TraversalInv'
    <2>1. mutex = t /\ pc'[t] = "get" /\ keys'[t] = Pooled
      BY DEF MutexHeld, Traversing, TypeOK
    <2>2. \A h \in Handler : hpc[h] # "insert"
      BY DEF MutexHeld
    <2> QED
      BY <2>1, <2>2 DEF TraversalInv, ToVisit, Pooled, TypeOK, Apply
  <1> QED
    BY <1>1, <1>2, <1>3, <1>4

LEMMA GetContextKeeps ==
    ASSUME IInv, NEW t \in Syncers, NEW i \in Ident, GetContext(t, i)
    PROVE  IInv'
  <1> USE ContextAssumption DEF IInv, GetContext, handlerVars
  <1>1. mutex = t /\ i \in ToVisit(t)
    BY DEF MutexHeld, Traversing, ToVisit
  <1>2. index[i] # NoCtx /\ pc'[t] = "update" /\ cur'[t] = index[i]
    BY <1>1 DEF TraversalInv, TypeOK
  <1>3. TypeOK'
    BY DEF TypeOK
  <1>4. NoNilContext' /\ MutexHeld'
    BY <1>2 DEF NoNilContext, MutexHeld, Traversing, TypeOK
  <1>5. NewContexts' /\ ContextsDistinct' /\ QuietInv'
    BY DEF NewContexts, ContextsDistinct, QuietInv, Pooled
  <1>6. TraversalInv'
    <2>1. keys[t] \subseteq Pooled /\ keys'[t] = keys[t] \ {i}
      BY <1>1 DEF TraversalInv, ToVisit, Pooled, TypeOK
    <2>2. ToVisit(t)' = ToVisit(t)
      BY <1>2, <2>1 DEF ToVisit, Pooled, ContextsDistinct
    <2>3. \A j \in keys'[t] : index[j] # cur'[t]
      BY <1>2, <2>1 DEF ContextsDistinct, Pooled
    <2>4. cur'[t] \in Ctx
      BY <1>2 DEF TypeOK
    <2>5. \A bag : Apply(t, bag)' = Apply(t, bag)
      BY DEF Apply
    <2>6. \A h \in Handler : hpc[h] # "insert"
      BY <1>1 DEF TraversalInv
    <2> QED
      BY <1>1, <2>2, <2>3, <2>4, <2>5, <2>6 DEF TraversalInv, Pooled
  <1> QED
    BY <1>3, <1>4, <1>5, <1>6

LEMMA UpdateContextKeeps ==
    ASSUME IInv, NEW t \in Syncers, UpdateContext(t)
    PROVE  IInv'
  <1> USE ContextAssumption DEF IInv, UpdateContext, handlerVars
  <1>1. mutex = t /\ cur[t] \in Ctx /\ \A i \in keys[t] : index[i] # cur[t]
    BY DEF MutexHeld, Traversing, TraversalInv
  <1>2. /\ members' \in [Ctx -> [Passage -> Nat]]
        /\ members'[cur[t]] = Apply(t, members[cur[t]])
        /\ \A c \in Ctx : c # cur[t] => members'[c] = members[c]
    BY <1>1, ApplyType DEF TypeOK
  <1>3. TypeOK'
    BY <1>2 DEF TypeOK
  <1>4. NoNilContext' /\ MutexHeld'
    BY DEF NoNilContext, MutexHeld, Traversing, TypeOK
  <1>5. NewContexts' /\ ContextsDistinct' /\ QuietInv'
    BY <1>1 DEF NewContexts, ContextsDistinct, QuietInv, Pooled
  <1>6. TraversalInv'
    <2>1. pc'[t] = "get" /\ cur'[t] = NoCtx
      BY DEF TypeOK
    <2>2. ToVisit(t)' = keys[t]
      BY <2>1 DEF ToVisit, Pooled
    <2>3. ToVisit(t) = keys[t] \cup {i \in Pooled : index[i] = cur[t]}
      BY DEF ToVisit
    <2>4. \A i \in Pooled : index[i] \in Ctx
      BY DEF Pooled, TypeOK
    <2>5. ASSUME NEW i \in Pooled \ keys[t]
          PROVE  members'[index[i]] = table
      <3>1. CASE index[i] = cur[t]
        BY <1>1, <1>2, <2>3, <3>1 DEF TraversalInv
      <3>2. CASE index[i] # cur[t]
        BY <1>1, <1>2, <2>3, <2>4, <3>2 DEF TraversalInv
      <3> QED
        BY <3>1, <3>2
    <2>6. ASSUME NEW i \in keys[t]
          PROVE  index[i] # NoCtx /\ Apply(t, members'[index[i]]) = table
      <3>1. index[i] # NoCtx /\ Apply(t, members[index[i]]) = table
        BY <1>1, <2>3 DEF TraversalInv
      <3>2. members'[index[i]] = members[index[i]]
        BY <1>1, <1>2, <3>1 DEF TypeOK
      <3> QED
        BY <3>1, <3>2
    <2>7. \A bag : Apply(t, bag)' = Apply(t, bag)
      BY DEF Apply
    <2>8. \A h \in Handler : hpc[h] # "insert"
      BY <1>1 DEF TraversalInv
    <2> QED
      BY <1>1, <2>1, <2>2, <2>5, <2>6, <2>7, <2>8 DEF TraversalInv, Pooled
  <1> QED
    BY <1>3, <1>4, <1>5, <1>6

LEMMA UnlockTableKeeps ==
    ASSUME IInv, NEW t \in Syncers, UnlockTable(t)
    PROVE  IInv'
  <1> USE ContextAssumption DEF IInv, UnlockTable, handlerVars
  <1>1. mutex = t /\ ToVisit(t) = {}
    BY DEF MutexHeld, Traversing, ToVisit
  <1>2. TypeOK'
    BY DEF TypeOK
  <1>3. NoNilContext' /\ MutexHeld'
    BY <1>1 DEF NoNilContext, MutexHeld, Traversing, TypeOK
  <1>4. NewContexts' /\ ContextsDistinct'
    BY DEF NewContexts, ContextsDistinct, Pooled
  <1>5. TraversalInv' /\ QuietInv'
    BY <1>1 DEF TraversalInv, QuietInv, Pooled
  <1> QED
    BY <1>2, <1>3, <1>4, <1>5

------------------------------------------------------------------------------
(* A step that leaves the table, the traversals, the pool and the lists     *)
(* alone, and neither begins nor ends an insertion.                         *)
LEMMA QuietStepKeeps ==
    ASSUME TraversalInv, QuietInv,
           UNCHANGED <<table, syncerVars, mutex, index, members>>,
           \A h \in Handler : hpc'[h] = "insert" => hpc[h] = "insert" /\ ctx'[h] = ctx[h]
    PROVE  TraversalInv' /\ QuietInv'
  <1>1. \A t, bag : Apply(t, bag)' = Apply(t, bag)
    BY DEF Apply, syncerVars
  <1>2. \A t : ToVisit(t)' = ToVisit(t)
    BY DEF ToVisit, Pooled, syncerVars
  <1>3. Pooled' = Pooled
    BY DEF Pooled
  <1> QED
    BY <1>1, <1>2, <1>3 DEF TraversalInv, QuietInv, syncerVars

LEMMA GetHitKeeps ==
    ASSUME IInv, NEW h \in Handler, NEW i \in Ident, GetHit(h, i)
    PROVE  IInv'
  <1> USE ContextAssumption DEF IInv, GetHit
  <1>1. TypeOK'
    BY DEF TypeOK, syncerVars
  <1>2. NoNilContext' /\ MutexHeld'
    BY DEF NoNilContext, MutexHeld, Traversing, TypeOK, syncerVars
  <1>3. NewContexts' /\ ContextsDistinct'
    BY DEF NewContexts, ContextsDistinct, Pooled, TypeOK
  <1>4. TraversalInv' /\ QuietInv'
    BY QuietStepKeeps DEF TypeOK
  <1> QED
    BY <1>1, <1>2, <1>3, <1>4

LEMMA GetMissKeeps ==
    ASSUME IInv, NEW h \in Handler, NEW i \in Ident, GetMiss(h, i)
    PROVE  IInv'
  <1> USE ContextAssumption DEF IInv, GetMiss
  <1>1. TypeOK'
    BY DEF TypeOK, syncerVars
  <1>2. NoNilContext' /\ MutexHeld'
    BY DEF NoNilContext, MutexHeld, Traversing, TypeOK, syncerVars
  <1>3. NewContexts' /\ ContextsDistinct'
    BY DEF NewContexts, ContextsDistinct, Pooled, TypeOK
  <1>4. TraversalInv' /\ QuietInv'
    BY QuietStepKeeps DEF TypeOK
  <1> QED
    BY <1>1, <1>2, <1>3, <1>4

LEMMA SnapshotKeeps ==
    ASSUME IInv, NEW h \in Handler, NEW c \in Ctx, Snapshot(h, c)
    PROVE  IInv'
  <1> USE ContextAssumption DEF IInv, Snapshot
  <1>1. TypeOK'
    BY DEF TypeOK, syncerVars
  <1>2. NoNilContext' /\ MutexHeld'
    BY DEF NoNilContext, MutexHeld, Traversing, TypeOK, syncerVars
  <1>3. \A i \in Ident : index[i] # c
    BY DEF Referenced
  <1>4. NewContexts' /\ ContextsDistinct'
    BY <1>3 DEF NewContexts, ContextsDistinct, Pooled, TypeOK
  <1>5. TraversalInv'
    BY DEF TraversalInv
  <1>6. QuietInv'
    <2>1. \A i \in Pooled : members'[index[i]] = table
      BY <1>3 DEF QuietInv, Pooled, TypeOK
    <2>2. \A g \in Handler : hpc'[g] = "insert" => g = h
      BY DEF MutexHeld, TypeOK
    <2> QED
      BY <2>1, <2>2 DEF QuietInv, Pooled, TypeOK
  <1> QED
    BY <1>1, <1>2, <1>4, <1>5, <1>6

LEMMA InsertKeeps ==
    ASSUME IInv, NEW h \in Handler, NEW expired \in SUBSET Ident, Insert(h, expired)
    PROVE  IInv'
  <1> USE ContextAssumption DEF IInv, Insert
  <1>1. /\ ctx[h] \in Ctx
        /\ ip[h] \in Ident
        /\ \A i \in Ident : index[i] # ctx[h]
        /\ \A g \in Handler : hpc[g] \in {"snapshot", "insert"} => g = h
    BY DEF NewContexts, TypeOK, MutexHeld
  <1>2. /\ index' \in [Ident -> Ctx \cup {NoCtx}]
        /\ index'[ip[h]] = ctx[h]
        /\ \A i \in Ident : i # ip[h] => index'[i] \in {index[i], NoCtx}
    BY <1>1 DEF TypeOK
  <1>3. TypeOK'
    BY <1>2, CollectType DEF TypeOK, syncerVars
  <1>4. NoNilContext' /\ MutexHeld'
    BY <1>1 DEF NoNilContext, MutexHeld, Traversing, TypeOK, syncerVars
  <1>5. NewContexts' /\ ContextsDistinct'
    BY <1>1, <1>2 DEF NewContexts, ContextsDistinct, Pooled, TypeOK
  <1>6. \A i \in Pooled' : members'[index'[i]] = members[index'[i]]
    BY <1>2 DEF Collect, Referenced, Pooled
  <1>7. \A i \in Pooled' : IF i = ip[h] THEN index'[i] = ctx[h]
                                        ELSE i \in Pooled /\ index'[i] = index[i]
    BY <1>2 DEF Pooled
  <1>8. \A g \in Handler : hpc'[g] # "insert"
    BY <1>1 DEF TypeOK
  <1>9. QuietInv'
    BY <1>6, <1>7, <1>8 DEF QuietInv
  <1>10. TraversalInv'
    <2>1. ASSUME NEW t \in Syncers, mutex = t
          PROVE  /\ \A i \in Pooled' \ ToVisit(t)' : members'[index'[i]] = table
                 /\ \A i \in ToVisit(t)' :
                        index'[i] # NoCtx /\ Apply(t, members'[index'[i]]) = table
                 /\ pc[t] = "keys"
      <3>1. pc[t] = "keys" /\ Apply(t, members[ctx[h]]) = table
        BY <2>1 DEF TraversalInv
      <3>2. ToVisit(t)' = Pooled' /\ ToVisit(t) = Pooled
        BY <3>1 DEF ToVisit, syncerVars
      <3>3. \A i \in Pooled : Apply(t, members[index[i]]) = table
        BY <2>1, <3>2 DEF TraversalInv
      <3> QED
        BY <1>6, <1>7, <3>1, <3>2, <3>3 DEF Pooled
    <2>2. UNCHANGED <<mutex, pc, phase, keys, cur, table, toRemove, toAdd>>
      BY DEF syncerVars
    <2> HIDE DEF IInv, Insert
    <2> QED
      BY <1>8, <2>1, <2>2 DEF TraversalInv, Apply
  <1> QED
    BY <1>3, <1>4, <1>5, <1>9, <1>10

LEMMA VisitsPooled ==
    ASSUME TypeOK, TraversalInv, NEW t \in Syncers, mutex = t
    PROVE  ToVisit(t) \subseteq Pooled
  <1> SUFFICES ASSUME NEW i \in ToVisit(t)
               PROVE  i \in Pooled
    OBVIOUS
  <1>1. index[i] # NoCtx
    BY DEF TraversalInv
  <1>2. i \in Ident
    BY DEF ToVisit, Pooled, TypeOK
  <1> QED
    BY <1>1, <1>2 DEF Pooled

LEMMA GetListCopyKeeps ==
    ASSUME IInv, NEW h \in Handler, GetListCopy(h)
    PROVE  IInv'
  <1> USE ContextAssumption DEF IInv, GetListCopy
  <1>1. TypeOK'
    BY CollectType DEF TypeOK, syncerVars, Table!Members
  <1>2. NoNilContext' /\ MutexHeld'
    BY DEF NoNilContext, MutexHeld, Traversing, TypeOK, syncerVars
  <1>3. NewContexts' /\ ContextsDistinct'
    BY DEF NewContexts, ContextsDistinct, Pooled, TypeOK
  <1>4. \A i \in Pooled : members'[index[i]] = members[index[i]]
    BY DEF Collect, Referenced, Pooled, TypeOK
  <1>5. \A g \in Handler : hpc'[g] = "insert" =>
            hpc[g] = "insert" /\ ctx'[g] = ctx[g] /\ members'[ctx[g]] = members[ctx[g]]
    <2> SUFFICES ASSUME NEW g \in Handler, hpc'[g] = "insert"
                 PROVE  hpc[g] = "insert" /\ ctx'[g] = ctx[g] /\ members'[ctx[g]] = members[ctx[g]]
      OBVIOUS
    <2>1. hpc[g] = "insert" /\ ctx'[g] = ctx[g]
      BY DEF TypeOK
    <2>2. ctx[g] \in Ctx /\ ctx[g] \in Referenced(index, ctx')
      BY <2>1 DEF NewContexts, Referenced
    <2> QED
      BY <2>1, <2>2 DEF Collect
  <1>6. QuietInv'
    BY <1>4, <1>5 DEF QuietInv, Pooled
  <1>7. TraversalInv'
    <2>1. /\ \A t : ToVisit(t)' = ToVisit(t)
          /\ Pooled' = Pooled
          /\ UNCHANGED <<pc, mutex, table, cur, keys, index, phase, toRemove, toAdd>>
      BY DEF ToVisit, Pooled, syncerVars
    <2>2. \A t \in Syncers : mutex = t => ToVisit(t) \subseteq Pooled
      BY VisitsPooled
    <2>3. ASSUME NEW t \in Syncers, mutex = t
          PROVE  /\ \A i \in Pooled \ ToVisit(t) : members'[index[i]] = table
                 /\ \A i \in ToVisit(t) :
                        index[i] # NoCtx /\ Apply(t, members'[index[i]]) = table
      <3>1. /\ \A i \in Pooled \ ToVisit(t) : members[index[i]] = table
            /\ \A i \in ToVisit(t) : index[i] # NoCtx /\ Apply(t, members[index[i]]) = table
        BY <2>3 DEF TraversalInv
      <3>2. \A i \in ToVisit(t) : members'[index[i]] = members[index[i]]
        BY <1>4, <2>2, <2>3
      <3> QED
        BY <1>4, <3>1, <3>2
    <2>4. ASSUME NEW t \in Syncers, mutex = t, NEW g \in Handler, hpc'[g] = "insert"
          PROVE  pc[t] = "keys" /\ Apply(t, members'[ctx'[g]]) = table
      <3>1. hpc[g] = "insert" /\ members'[ctx'[g]] = members[ctx[g]]
        BY <1>5, <2>4
      <3>2. pc[t] = "keys" /\ Apply(t, members[ctx[g]]) = table
        BY <2>4, <3>1 DEF TraversalInv
      <3> QED
        BY <3>1, <3>2
    <2>5. ASSUME NEW t \in Syncers, mutex = t, pc[t] = "update"
          PROVE  cur[t] \in Ctx /\ \A i \in keys[t] : index[i] # cur[t]
      BY <2>5 DEF TraversalInv
    <2>6. SUFFICES ASSUME NEW t \in Syncers, mutex = t
                   PROVE  /\ \A i \in Pooled \ ToVisit(t) : members'[index[i]] = table
                          /\ \A i \in ToVisit(t) :
                                 index[i] # NoCtx /\ Apply(t, members'[index[i]]) = table
                          /\ \A g \in Handler : hpc'[g] = "insert" =>
                                 pc[t] = "keys" /\ Apply(t, members'[ctx'[g]]) = table
                          /\ pc[t] = "update" =>
                                 cur[t] \in Ctx /\ \A i \in keys[t] : index[i] # cur[t]
      <3> HIDE DEF GetListCopy, IInv
      <3> QED
        BY <2>1 DEF TraversalInv, Apply
    <2> QED
      BY <2>3, <2>4, <2>5, <2>6
  <1> QED
    BY <1>1, <1>2, <1>3, <1>6, <1>7

LEMMA ProbeKeeps ==
    ASSUME IInv, NEW h \in Handler, Probe(h)
    PROVE  IInv'
  <1> USE ContextAssumption DEF IInv, Probe
  <1>1. TypeOK'
    BY DEF TypeOK, syncerVars
  <1>2. NoNilContext' /\ MutexHeld'
    BY DEF NoNilContext, MutexHeld, Traversing, TypeOK, syncerVars
  <1>3. NewContexts' /\ ContextsDistinct'
    BY DEF NewContexts, ContextsDistinct, Pooled, TypeOK
  <1>4. TraversalInv' /\ QuietInv'
    BY QuietStepKeeps DEF TypeOK
  <1> QED
    BY <1>1, <1>2, <1>3, <1>4

LEMMA NextKeepsIInv == IInv /\ [Next]_vars => IInv'
  <1> SUFFICES ASSUME IInv, [Next]_vars
               PROVE  IInv'
    OBVIOUS
  <1>1. CASE UNCHANGED vars
    <2>1. UNCHANGED <<table, syncerVars, mutex, index, members>> /\ UNCHANGED handlerVars
      BY <1>1 DEF vars
    <2>2. TraversalInv' /\ QuietInv'
      BY <2>1, QuietStepKeeps DEF IInv, handlerVars
    <2> QED
      BY <1>1, <2>2 DEF vars, syncerVars, handlerVars, IInv, TypeOK, NoNilContext, MutexHeld,
                        Traversing, NewContexts, ContextsDistinct, Pooled
  <1>2. ASSUME NEW t \in Syncers, NEW L \in Lists, StartSync(t, L)
        PROVE  IInv'
    BY <1>2, StartSyncKeeps
  <1>3. ASSUME NEW t \in Syncers, SyncStep(t)
        PROVE  IInv'
    BY <1>3, LockTableKeeps, GetKeysKeeps, GetContextKeeps, UpdateContextKeeps,
       UnlockTableKeeps DEF SyncStep
  <1>4. ASSUME NEW h \in Handler, NEW i \in Ident, GetHit(h, i) \/ GetMiss(h, i)
        PROVE  IInv'
    BY <1>4, GetHitKeeps, GetMissKeeps
  <1>5. ASSUME NEW h \in Handler, HandlerStep(h)
        PROVE  IInv'
    BY <1>5, SnapshotKeeps, InsertKeeps, GetListCopyKeeps, ProbeKeeps DEF HandlerStep
  <1> QED
    BY <1>1, <1>2, <1>3, <1>4, <1>5 DEF Next

LEMMA SpecIInv == Spec => []IInv
  BY InitIInv, NextKeepsIInv, PTL DEF Spec

(* The mutexes, the pool, the lists and the goroutines keep their types.    *)
THEOREM TypeCorrect == Spec => []TypeOK
  <1>1. IInv => TypeOK
    BY DEF IInv
  <1> QED
    BY SpecIInv, <1>1, PTL

(* addPassages, removePassagesFunc and GetUserContextOrInsert together keep *)
(* every pooled context equal to s.passages whenever Server.mutex is free.  *)
THEOREM ContextsAlwaysMatch == Spec => []ContextsMatchPassages
  <1>1. IInv => ContextsMatchPassages
    BY DEF IInv, QuietInv, ContextsMatchPassages
  <1> QED
    BY SpecIInv, <1>1, PTL

(* The type assertion on what Get returns never meets nil: no context is    *)
(* dropped between GetKeys and Get.                                         *)
THEOREM NeverNilContext == Spec => []NoNilContext
  <1>1. IInv => NoNilContext
    BY DEF IInv
  <1> QED
    BY SpecIInv, <1>1, PTL

------------------------------------------------------------------------------
(* The program counters PassageSync sees.                                   *)
TablePC ==
    [t \in Syncers |->
        IF pc[t] \in {"keys", "get", "update"}
        THEN IF phase[t] = "remove" THEN "add" ELSE "idle"
        ELSE pc[t]]

LEMMA InitRefines == Init => Table!Init
  BY DEF Init, Table!Init

(* Every step of the servers changes s.passages as one of PassageSync's     *)
(* steps does, or leaves it alone.                                          *)
LEMMA StepRefines == IInv /\ [Next]_vars => [Table!Next]_(Table!vars)
  <1> SUFFICES ASSUME IInv, [Next]_vars
               PROVE  Table!Next \/ UNCHANGED Table!vars
    OBVIOUS
  <1> USE DEF Table!vars, Table!syncVars, syncerVars, handlerVars
  <1>1. CASE UNCHANGED vars
    BY <1>1 DEF vars
  <1>2. ASSUME NEW t \in Syncers, NEW L \in Lists, StartSync(t, L)
        PROVE  Table!StartSync(t, L)
    <2>1. TablePC[t] = "idle" /\ TablePC' = [TablePC EXCEPT ![t] = "remove"]
      BY <1>2 DEF StartSync, TablePC, IInv, TypeOK
    <2> QED
      BY <1>2, <2>1 DEF StartSync, Table!StartSync, TablePC
  <1>3. ASSUME NEW t \in Syncers, LockTable(t)
        PROVE  Table!RemovePassages(t) \/ Table!AddPassages(t)
    <2>1. CASE pc[t] = "remove"
      <3>1. TablePC[t] = "remove" /\ TablePC' = [TablePC EXCEPT ![t] = "add"]
        BY <1>3, <2>1 DEF LockTable, TablePC, IInv, TypeOK
      <3> QED
        BY <1>3, <2>1, <3>1 DEF LockTable, Table!RemovePassages, TablePC
    <2>2. CASE pc[t] = "add"
      <3>1. TablePC[t] = "add" /\ TablePC' = [TablePC EXCEPT ![t] = "idle"]
        BY <1>3, <2>2 DEF LockTable, TablePC, IInv, TypeOK
      <3> QED
        BY <1>3, <2>2, <3>1 DEF LockTable, Table!AddPassages, TablePC
    <2> QED
      BY <1>3, <2>1, <2>2 DEF LockTable
  <1>4. ASSUME NEW t \in Syncers,
               \/ GetKeys(t)
               \/ \E i \in Ident : GetContext(t, i)
               \/ UpdateContext(t)
               \/ UnlockTable(t)
        PROVE  UNCHANGED Table!vars
    <2>1. TablePC' = TablePC
      <3>1. CASE GetKeys(t)
        BY <3>1 DEF GetKeys, TablePC, IInv, TypeOK
      <3>2. ASSUME NEW i \in Ident, GetContext(t, i)
            PROVE  TablePC' = TablePC
        <4>1. IInv'
          BY <3>2, GetContextKeeps
        <4>2. pc'[t] = "update"
          BY <3>2, <4>1 DEF IInv, NoNilContext, TypeOK, GetContext
        <4> QED
          BY <3>2, <4>2 DEF GetContext, TablePC, IInv, TypeOK
      <3>3. CASE UpdateContext(t)
        BY <3>3 DEF UpdateContext, TablePC, IInv, TypeOK
      <3>4. CASE UnlockTable(t)
        BY <3>4 DEF UnlockTable, TablePC, IInv, TypeOK
      <3> QED
        BY <1>4, <3>1, <3>2, <3>3, <3>4
    <2> QED
      BY <1>4, <2>1 DEF GetKeys, GetContext, UpdateContext, UnlockTable, TablePC
  <1>5. ASSUME NEW h \in Handler,
               \/ \E i \in Ident : GetHit(h, i) \/ GetMiss(h, i)
               \/ HandlerStep(h)
        PROVE  UNCHANGED Table!vars
    BY <1>5 DEF GetHit, GetMiss, HandlerStep, Snapshot, Insert, GetListCopy, Probe
  <1> QED
    BY <1>1, <1>2, <1>3, <1>4, <1>5 DEF Next, SyncStep, Table!Next, Table!Step

(* The passage table of the shadowsocks and vmess servers implements        *)
(* PassageSync: the traversal of the pool is invisible in s.passages.       *)
THEOREM RefinesPassageSync == Spec => TableSpec
  BY InitRefines, StepRefines, SpecIInv, PTL DEF Spec, TableSpec, Table!Spec

------------------------------------------------------------------------------
(* What requests see.  A list no traversal is in the middle of holds what   *)
(* is settled and nothing that is not live; what a request holds of a       *)
(* context the pool has dropped was right when it was dropped, and the two  *)
(* histories of the request only widen.                                     *)
Between(bag, below, above) ==
    below \subseteq Table!Members(bag) /\ Table!Members(bag) \subseteq above

InUse(c) == \E i \in Ident : index[i] = c

HandlerInv(h) ==
    /\ ~Idle(h) => Live \subseteq live[h] /\ settled[h] \subseteq Settled
    /\ hpc[h] = "auth" => Between(members[ctx[h]], settled[h], live[h])
    /\ hpc[h] = "probe" => settled[h] \subseteq copy[h] /\ copy[h] \subseteq live[h]

AuthInv ==
    /\ \A t \in Syncers : pc[t] = "update" => InUse(cur[t])
    /\ \A h \in Handler : HandlerInv(h)

(* A list that becomes the table by what the traversal does to it lies      *)
(* between what is settled and what is live.                                *)
LEMMA UpdateBetween ==
    ASSUME TypeOK, NEW t \in Syncers, mutex = t, phase[t] \in {"remove", "add"},
           NEW bag \in [Passage -> Nat], Apply(t, bag) = table \/ bag = table
    PROVE  Between(bag, Settled, Live)
<1>1. CASE bag = table
  BY <1>1 DEF Between, Settled, Live
<1>2. CASE Apply(t, bag) = table /\ phase[t] = "remove"
  <2>1. \A p \in Passage : table[p] = IF InHash[p] \in Table!RemovedKeys(toRemove[t])
                                      THEN 0 ELSE bag[p]
    BY <1>2 DEF Apply, Table!Without
  <2>2. \A p \in Passage : InHash[p] \in Table!RemovedKeys(toRemove[t]) => p \in Removing
    BY <1>2 DEF Removing
  <2> QED
    BY <2>1, <2>2 DEF Between, Settled, Live, Table!Members
<1>3. CASE Apply(t, bag) = table /\ phase[t] = "add"
  <2>1. \A p \in Passage : table[p] = IF p \in toAdd[t] THEN bag[p] + 1 ELSE bag[p]
    BY <1>3 DEF Apply, Table!With
  <2>2. \A p \in Passage : p \in toAdd[t] => p \in Adding
    BY <1>3 DEF Adding
  <2> QED
    BY <2>1, <2>2 DEF Between, Settled, Live, Table!Members
<1> QED BY <1>1, <1>2, <1>3

LEMMA PooledBetween ==
    ASSUME IInv, NEW i \in Pooled
    PROVE  Between(members[index[i]], Settled, Live)
<1>1. members[index[i]] \in [Passage -> Nat]
  BY DEF IInv, TypeOK, Pooled
<1>2. CASE mutex = Nobody
  BY <1>2 DEF IInv, QuietInv, Between, Settled, Live
<1>3. ASSUME NEW t \in Syncers, mutex = t PROVE Between(members[index[i]], Settled, Live)
  <2>1. Apply(t, members[index[i]]) = table \/ members[index[i]] = table
    BY <1>3 DEF IInv, TraversalInv
  <2> QED BY <1>1, <1>3, <2>1, UpdateBetween DEF IInv, TypeOK
<1> QED BY <1>2, <1>3 DEF IInv, TypeOK

(* A request authenticates against the list it held before, or against one  *)
(* that is in the pool; it probes what it probed, or what it has copied.    *)
Continues(h) ==
    /\ hpc'[h] = "auth" =>
          \/ \E i \in Pooled' : index'[i] = ctx'[h]
          \/ hpc[h] = "auth" /\ members'[ctx'[h]] = members[ctx[h]]
    /\ hpc'[h] = "probe" =>
          \/ hpc[h] = "probe" /\ copy'[h] = copy[h]
          \/ hpc[h] = "auth" /\ copy'[h] = Table!Members(members[ctx[h]])

LEMMA StepContinues ==
    ASSUME IInv, AuthInv, [Next]_vars, NEW h \in Handler PROVE Continues(h)
<1> USE ContextAssumption DEF IInv, TypeOK, Continues
<1>1. CASE UNCHANGED vars
  BY <1>1 DEF vars, handlerVars
<1>2. ASSUME NEW t \in Syncers, NEW L \in Lists, StartSync(t, L) PROVE Continues(h)
  BY <1>2 DEF StartSync, handlerVars
<1>3. ASSUME NEW t \in Syncers,
             \/ LockTable(t) \/ GetKeys(t) \/ UnlockTable(t)
             \/ \E i \in Ident : GetContext(t, i)
      PROVE  Continues(h)
  BY <1>3 DEF LockTable, GetKeys, UnlockTable, GetContext, handlerVars
<1>4. ASSUME NEW t \in Syncers, UpdateContext(t) PROVE Continues(h)
  <2>1. PICK i \in Ident : index[i] = cur[t]
    BY <1>4 DEF AuthInv, InUse, UpdateContext
  <2>2. cur[t] \in Ctx
    BY <1>4 DEF MutexHeld, Traversing, TraversalInv, UpdateContext
  <2>3. i \in Pooled' /\ index' = index
    BY <1>4, <2>1, <2>2 DEF UpdateContext, Pooled
  <2>4. ctx[h] # cur[t] => members'[ctx[h]] = members[ctx[h]]
    BY <1>4 DEF UpdateContext
  <2> QED BY <1>4, <2>1, <2>3, <2>4 DEF UpdateContext, handlerVars
<1>5. ASSUME NEW g \in Handler, NEW i \in Ident, GetHit(g, i) \/ GetMiss(g, i)
      PROVE  Continues(h)
  <2>1. CASE GetHit(g, i)
    BY <2>1 DEF GetHit, Pooled
  <2>2. CASE GetMiss(g, i)
    BY <2>2 DEF GetMiss
  <2> QED BY <1>5, <2>1, <2>2
<1>6. ASSUME NEW g \in Handler, NEW c \in Ctx, Snapshot(g, c) PROVE Continues(h)
  <2>1. hpc[h] = "auth" => ctx[h] # c
    BY <1>6 DEF Snapshot, Referenced
  <2> QED BY <1>6, <2>1 DEF Snapshot
<1>7. ASSUME NEW g \in Handler, NEW expired \in SUBSET Ident, Insert(g, expired)
      PROVE  Continues(h)
  <2>1. CASE h = g
    <3>1. ip[g] \in Ident /\ index'[ip[g]] = ctx[g] /\ ctx[g] \in Ctx
      BY <1>7 DEF Insert, NewContexts
    <3> QED BY <1>7, <2>1, <3>1 DEF Insert, Pooled
  <2>2. CASE h # g /\ hpc[h] = "auth"
    <3>1. ctx[h] \in Ctx /\ ctx[h] \in Referenced(index', ctx)
      BY <2>2 DEF NewContexts, Referenced
    <3> QED BY <1>7, <2>2, <3>1 DEF Insert, Collect
  <2>3. CASE h # g /\ hpc[h] # "auth"
    <3>1. hpc'[h] = hpc[h] /\ copy'[h] = copy[h]
      BY <1>7, <2>3 DEF Insert
    <3> QED BY <2>3, <3>1
  <2> QED BY <2>1, <2>2, <2>3
<1>8. ASSUME NEW g \in Handler, GetListCopy(g) PROVE Continues(h)
  <2>1. CASE h = g
    BY <1>8, <2>1 DEF GetListCopy
  <2>2. CASE h # g /\ hpc[h] = "auth"
    <3>1. ctx'[h] = ctx[h]
      BY <1>8, <2>2 DEF GetListCopy
    <3>2. ctx[h] \in Ctx /\ ctx[h] \in Referenced(index, ctx')
      BY <2>2, <3>1 DEF NewContexts, Referenced
    <3> QED BY <1>8, <2>2, <3>1, <3>2 DEF GetListCopy, Collect
  <2> QED BY <1>8, <2>1, <2>2 DEF GetListCopy
<1>9. ASSUME NEW g \in Handler, Probe(g) PROVE Continues(h)
  BY <1>9 DEF Probe
<1> QED
  BY <1>1, <1>2, <1>3, <1>4, <1>5, <1>6, <1>7, <1>8, <1>9 DEF Next, SyncStep, HandlerStep

(* A context a traversal is updating stays in the pool: nobody inserts.     *)
LEMMA UpdatedInUse ==
    ASSUME IInv, AuthInv, [Next]_vars, NEW t \in Syncers, pc'[t] = "update"
    PROVE  InUse(cur[t])'
<1> USE ContextAssumption DEF IInv, TypeOK, InUse
<1>1. ASSUME UNCHANGED <<pc, cur, index>> PROVE InUse(cur[t])'
  BY <1>1 DEF AuthInv
<1>2. ASSUME NEW s \in Syncers, NEW i \in Ident, GetContext(s, i) PROVE InUse(cur[t])'
  BY <1>2 DEF GetContext, AuthInv
<1>3. ASSUME NEW s \in Syncers, (\E L \in Lists : StartSync(s, L)) \/ LockTable(s) \/ GetKeys(s)
                                \/ UpdateContext(s) \/ UnlockTable(s)
      PROVE  InUse(cur[t])'
  BY <1>3 DEF StartSync, LockTable, GetKeys, UpdateContext, UnlockTable, AuthInv
<1>4. ASSUME NEW g \in Handler, NEW expired \in SUBSET Ident, Insert(g, expired)
      PROVE  InUse(cur[t])'
  <2>1. pc[t] = "update"
    BY <1>4 DEF Insert, syncerVars
  <2>2. mutex = t
    BY <2>1 DEF MutexHeld, Traversing
  <2> QED BY <1>4, <2>1, <2>2 DEF TraversalInv, Insert
<1>5. ASSUME NEW g \in Handler,
             \/ \E i \in Ident : GetHit(g, i) \/ GetMiss(g, i)
             \/ \E c \in Ctx : Snapshot(g, c)
             \/ GetListCopy(g) \/ Probe(g)
      PROVE  InUse(cur[t])'
  BY <1>1, <1>5 DEF GetHit, GetMiss, Snapshot, GetListCopy, Probe, syncerVars
<1> QED
  BY <1>1, <1>2, <1>3, <1>4, <1>5 DEF Next, SyncStep, HandlerStep, vars, syncerVars

(* The same of every pooled context, as a state predicate.                  *)
PooledIsBetween == \A i \in Pooled : Between(members[index[i]], Settled, Live)

LEMMA PooledIsBetweenHolds == IInv => PooledIsBetween
  BY PooledBetween DEF PooledIsBetween

(* A request keeps what it holds or takes it from the pool, and what is     *)
(* pooled after the step lies between what is then settled and live.        *)
LEMMA AuthStep == ASSUME IInv, AuthInv, [ANext]_avars PROVE IInv' /\ AuthInv'
<1>1. [Next]_vars
  BY DEF ANext, avars
<1>2. IInv'
  BY <1>1, NextKeepsIInv
<1>3. PooledIsBetween'
  BY <1>2, PooledIsBetweenHolds, PTL
<1>4. ASSUME NEW t \in Syncers, pc'[t] = "update" PROVE InUse(cur[t])'
  BY <1>1, <1>4, UpdatedInUse
<1>5. CASE UNCHANGED avars
  <2>1. UNCHANGED <<hpc, ctx, members, copy, live, settled>>
    BY <1>5 DEF avars, vars, handlerVars
  <2>2. Live' = Live /\ Settled' = Settled
    BY <1>5 DEF avars, vars, syncerVars, Live, Settled, Removing, Adding
  <2>3. ASSUME NEW h \in Handler PROVE HandlerInv(h)'
    BY <2>1, <2>2 DEF AuthInv, HandlerInv, Idle, Between
  <2> QED BY <1>2, <1>4, <2>3 DEF AuthInv
<1>6. CASE ANext
  <2>1. ASSUME NEW h \in Handler PROVE HandlerInv(h)'
    <3>1. ~Idle(h)' => /\ Live' \subseteq live'[h] /\ settled'[h] \subseteq Settled'
                       /\ ~Idle(h) => live[h] \subseteq live'[h] /\ settled'[h] \subseteq settled[h]
      BY <1>6 DEF ANext, Record
    <3>2. Continues(h)
      BY <1>1, StepContinues
    <3>3. ASSUME hpc'[h] = "auth"
          PROVE  Between(members[ctx[h]], settled[h], live[h])'
      <4>1. CASE \E i \in Pooled' : index'[i] = ctx'[h]
        BY <1>3, <3>1, <3>3, <4>1 DEF PooledIsBetween, Between, Idle
      <4>2. CASE hpc[h] = "auth" /\ members'[ctx'[h]] = members[ctx[h]]
        BY <3>1, <3>3, <4>2 DEF AuthInv, HandlerInv, Between, Idle
      <4> QED BY <3>2, <3>3, <4>1, <4>2 DEF Continues
    <3>4. ASSUME hpc'[h] = "probe"
          PROVE  settled'[h] \subseteq copy'[h] /\ copy'[h] \subseteq live'[h]
      <4>1. ~Idle(h) /\ settled[h] \subseteq copy'[h] /\ copy'[h] \subseteq live[h]
        BY <3>2, <3>4 DEF Continues, AuthInv, HandlerInv, Between, Idle
      <4> QED BY <3>1, <3>4, <4>1 DEF Idle
    <3> QED BY <3>1, <3>3, <3>4 DEF HandlerInv
  <2> QED BY <1>2, <1>4, <2>1 DEF AuthInv
<1> QED BY <1>2, <1>5, <1>6

(* Both invariants together are inductive.                                  *)
LEMMA SpecAuthInv == ASpec => [](IInv /\ AuthInv)
<1>1. AInit => IInv /\ AuthInv
  <2>1. AInit => IInv
    BY InitIInv DEF AInit
  <2>2. AInit => AuthInv
    BY DEF AInit, Init, AuthInv, HandlerInv, Idle
  <2> QED BY <2>1, <2>2
<1> QED BY <1>1, AuthStep, PTL DEF ASpec

(* A request that Auth accepts presents a passage that was live while it    *)
(* ran, however contexts are created, refreshed and dropped meanwhile.      *)
THEOREM AcceptedAlwaysLive == ASpec => []AcceptedWasLive
<1>1. AuthInv => AcceptedWasLive
  BY DEF AuthInv, HandlerInv, AcceptedWasLive
<1> QED BY <1>1, SpecAuthInv, PTL

(* Auth finds every passage that no call was adding or removing while the   *)
(* request ran.                                                             *)
THEOREM SettledAlwaysFound == ASpec => []SettledIsFound
<1>1. AuthInv => SettledIsFound
  BY DEF AuthInv, HandlerInv, SettledIsFound
<1> QED BY <1>1, SpecAuthInv, PTL
(* The history variables only watch: whatever the contexts do while they    *)
(* are recorded, they do without them, so that authentication is judged     *)
(* against the syncs of the passage table that UserContexts implements.     *)
THEOREM HistoryOnlyWatches == ASpec => Spec /\ TableSpec
<1>1. AInit => Init
  BY DEF AInit
<1>2. [ANext]_avars => [Next]_vars
  BY DEF ANext, avars
<1>3. ASpec => Spec
  BY <1>1, <1>2, PTL DEF ASpec, Spec
<1> QED BY <1>3, RefinesPassageSync

------------------------------------------------------------------------------
(* The two mutexes, taken in either order.                                  *)

(* A traversal is before a call of the pool, and GetOrInsert before         *)
(* s.mutex.Lock in its callback; each has what the other waits for.         *)
WantsPool(t) == pc[t] = "keys" \/ (pc[t] = "get" /\ keys[t] # {})
Crossed(t, h) == mutex = t /\ WantsPool(t) /\ poolMutex = h /\ hpc[h] = "snapshot"

(* Whoever holds one mutex and waits for the other waits for a goroutine    *)
(* that has no more to wait for, unless the two have crossed: no third      *)
(* goroutine and no other state of the pool can keep them.                  *)
OnlyCrossingBlocks ==
    /\ \A t \in Syncers : mutex = t /\ WantsPool(t) /\ poolMutex # Nobody =>
           \E h \in Handler : poolMutex = h /\ (hpc[h] = "insert" \/ Crossed(t, h))
    /\ \A h \in Handler : poolMutex = h /\ hpc[h] = "snapshot" /\ mutex # Nobody =>
           \E t \in Syncers : mutex = t /\ (~WantsPool(t) \/ Crossed(t, h))

(* A sync that does not return has met a new client's GetOrInsert: this is  *)
(* the only wait of the component that need not end.                        *)
THEOREM CrossingAloneBlocks == Spec => []OnlyCrossingBlocks
<1>1. IInv => OnlyCrossingBlocks
  <2> SUFFICES ASSUME IInv PROVE OnlyCrossingBlocks
    OBVIOUS
  <2>1. ASSUME NEW t \in Syncers, mutex = t, WantsPool(t), poolMutex # Nobody
        PROVE  \E h \in Handler : poolMutex = h /\ (hpc[h] = "insert" \/ Crossed(t, h))
    <3>1. PICK h \in Handler : poolMutex = h
      BY <2>1 DEF IInv, TypeOK
    <3>2. hpc[h] \in {"snapshot", "insert"}
      BY <3>1 DEF IInv, MutexHeld
    <3> QED
      BY <2>1, <3>1, <3>2 DEF Crossed
  <2>2. ASSUME NEW h \in Handler, poolMutex = h, hpc[h] = "snapshot", mutex # Nobody
        PROVE  \E t \in Syncers : mutex = t /\ (~WantsPool(t) \/ Crossed(t, h))
    <3>1. PICK t \in Syncers : mutex = t
      BY <2>2 DEF IInv, TypeOK
    <3> QED
      BY <2>2, <3>1 DEF Crossed
  <2> QED
    BY <2>1, <2>2 DEF OnlyCrossingBlocks
<1> QED
  BY <1>1, SpecIInv, PTL

(* Once they have crossed, no sync takes another step, no client gets a     *)
(* context, known address or new, and the passages stay what they are.      *)
Frozen(h) == UNCHANGED <<table, syncerVars, mutex, poolMutex, index, hpc[h]>>
CrossingIsForever ==
    [][\A t \in Syncers, h \in Handler : Crossed(t, h) => Frozen(h) /\ Crossed(t, h)']_vars

LEMMA CrossedStep ==
    ASSUME IInv, [Next]_vars, NEW t \in Syncers, NEW h \in Handler, Crossed(t, h)
    PROVE  Frozen(h) /\ Crossed(t, h)'
<1>1. /\ mutex = t /\ poolMutex = h /\ mutex # Nobody /\ poolMutex # Nobody
      /\ WantsPool(t) /\ hpc[h] = "snapshot"
      /\ \A s \in Syncers : Traversing(s) => s = t
      /\ \A g \in Handler : hpc[g] \in {"snapshot", "insert"} => g = h
  BY ContextAssumption DEF Crossed, IInv, MutexHeld
<1>2. ASSUME UNCHANGED vars PROVE Frozen(h)
  BY <1>2 DEF Frozen, vars, handlerVars
<1>3. ASSUME NEW s \in Syncers, (\E L \in Lists : StartSync(s, L)) \/ SyncStep(s)
      PROVE  FALSE
  <2>1. CASE \E L \in Lists : StartSync(s, L)
    BY <1>1, <2>1 DEF StartSync
  <2>2. CASE LockTable(s) \/ GetKeys(s) \/ \E i \in Ident : GetContext(s, i)
    BY <1>1, <2>2 DEF LockTable, GetKeys, GetContext
  <2>3. CASE UpdateContext(s) \/ UnlockTable(s)
    <3>1. s = t
      BY <1>1, <2>3 DEF UpdateContext, UnlockTable, Traversing
    <3> QED
      BY <1>1, <2>3, <3>1 DEF UpdateContext, UnlockTable, WantsPool
  <2> QED
    BY <1>3, <2>1, <2>2, <2>3 DEF SyncStep
<1>4. ASSUME NEW g \in Handler,
             (\E i \in Ident : GetHit(g, i) \/ GetMiss(g, i)) \/ HandlerStep(g)
      PROVE  Frozen(h)
  <2>1. CASE \E i \in Ident : GetHit(g, i) \/ GetMiss(g, i)
    BY <1>1, <2>1 DEF GetHit, GetMiss
  <2>2. CASE \E c \in Ctx : Snapshot(g, c)
    BY <1>1, <2>2 DEF Snapshot
  <2>3. CASE \E expired \in SUBSET Ident : Insert(g, expired)
    BY <1>1, <2>3 DEF Insert
  <2>4. CASE GetListCopy(g) \/ Probe(g)
    <3>1. /\ hpc[g] \in {"auth", "probe"} /\ g # h
          /\ UNCHANGED <<table, syncerVars, mutex, poolMutex, index>>
          /\ \E next \in {"probe", "idle"} : hpc' = [hpc EXCEPT ![g] = next]
      BY <1>1, <2>4 DEF GetListCopy, Probe
    <3> QED
      BY <3>1 DEF Frozen, IInv, TypeOK
  <2> QED
    BY <1>4, <2>1, <2>2, <2>3, <2>4 DEF HandlerStep
<1>5. Frozen(h)
  BY <1>2, <1>3, <1>4 DEF Next
<1> QED
  BY <1>5 DEF Frozen, Crossed, WantsPool, syncerVars

(* The deadlock of AddPassages and RemovePassages with GetOrInsert lasts    *)
(* until the program is restarted.                                          *)
THEOREM CrossingLastsForever == Spec => CrossingIsForever
<1>1. IInv /\ [Next]_vars =>
          [\A t \in Syncers, h \in Handler : Crossed(t, h) => Frozen(h) /\ Crossed(t, h)']_vars
  BY CrossedStep
<1> QED
  BY <1>1, SpecIInv, PTL DEF Spec, CrossingIsForever
================================================================================
