---------------------------- MODULE UserContexts ----------------------------
(***************************************************************************)
(* The passage table of the shadowsocks and vmess servers together with the *)
(* contexts their connection handlers authenticate against.                 *)
(*                                                                          *)
(* A handler fetches the context of its client's address from an LRU pool;  *)
(* a context is a private list of passages in order of preference.  On a    *)
(* miss GetOrInsert calls back, with the pool's mutex held, into a function *)
(* that takes the server's mutex and copies s.passages.  AddPassages and    *)
(* RemovePassages hold the server's mutex, change s.passages and then go    *)
(* through the pool, taking its mutex for GetKeys and for every Get.        *)
(*                                                                          *)
(* Expiry is by time (one hour since the last use); which contexts have     *)
(* expired when a new one is inserted is left open.  The order of a list    *)
(* is left out: a list is the bag of its passages.                          *)
(***************************************************************************)
EXTENDS Naturals

CONSTANTS
    Passage, Manager, Arg, InHash, Lists, Syncers,   \* as in PassageSync
    Handler,   \* goroutines of handleTCP / handleUDP / handleConn
    Ident,     \* client addresses, the keys of the pool
    Ctx,       \* contexts
    NoCtx,     \* no context: nil
    Nobody     \* holder of a free mutex

VARIABLES
    table, list, toRemove, toAdd,   \* as in PassageSync
    pc,         \* what each syncing goroutine does next
    phase,      \* "remove" or "add": the pass its traversal belongs to
    keys,       \* idents its traversal has still to visit
    cur,        \* context its traversal has just looked up
    mutex,      \* Server.mutex: who holds it
    poolMutex,  \* LRU.mutex: who holds it
    index,      \* LRU.index: the context of each ident, NoCtx if absent
    members,    \* the list of each context, as a bag
    hpc,        \* what each handler does next
    ip,         \* the ident of its client
    ctx,        \* the context it was given
    copy        \* the passages in the copy of the list it probes

syncerVars == <<list, toRemove, toAdd, pc, phase, keys, cur>>
handlerVars == <<hpc, ip, ctx, copy>>
vars == <<table, syncerVars, mutex, poolMutex, index, members, handlerVars>>

(* s.passages as PassageSync sees it: the table changes in the step that    *)
(* takes the mutex, the traversal that follows is invisible.                *)
Table ==
    INSTANCE PassageSync
    WITH pc <- [t \in Syncers |->
                    IF pc[t] \in {"keys", "get", "update"}
                    THEN IF phase[t] = "remove" THEN "add" ELSE "idle"
                    ELSE pc[t]]

ASSUME ContextAssumption ==
    /\ Table!PassageAssumption
    /\ NoCtx \notin Ctx
    /\ Nobody \notin Handler \cup Syncers
    /\ Handler \cap Syncers = {}

EmptyBag == [p \in Passage |-> 0]
Pooled == {i \in Ident : index[i] # NoCtx}

(* What the running pass does to a list of passages.                        *)
Apply_AddOnly(t, bag) ==
    IF phase[t] = "remove" THEN bag ELSE Table!With(bag, toAdd[t])
Apply(t, bag) ==
    IF phase[t] = "remove" THEN Table!Without(bag, toRemove[t])
                           ELSE Table!With(bag, toAdd[t])

(* Contexts nothing points to are garbage: their lists are forgotten so     *)
(* that a Ctx can stand for a new one.                                      *)
Referenced(idx, held) ==
    {idx[i] : i \in Ident} \cup {held[h] : h \in Handler} \cup {cur[t] : t \in Syncers}
Collect(bags, idx, held) ==
    [c \in Ctx |-> IF c \in Referenced(idx, held) THEN bags[c] ELSE EmptyBag]

------------------------------------------------------------------------------
(* NewJohn added the manager; no client has come yet.                       *)
Init ==
    /\ table = Table!OnlyManager
    /\ pc = [t \in Syncers |-> "idle"]
    /\ list = [t \in Syncers |-> {}]
    /\ toRemove = [t \in Syncers |-> {}]
    /\ toAdd = [t \in Syncers |-> {}]
    /\ phase = [t \in Syncers |-> "remove"]
    /\ keys = [t \in Syncers |-> {}]
    /\ cur = [t \in Syncers |-> NoCtx]
    /\ mutex = Nobody /\ poolMutex = Nobody
    /\ index = [i \in Ident |-> NoCtx]
    /\ members = [c \in Ctx |-> EmptyBag]
    /\ hpc = [h \in Handler |-> "idle"]
    /\ ip \in [Handler -> Ident]
    /\ ctx = [h \in Handler |-> NoCtx]
    /\ copy = [h \in Handler |-> {}]

(* Passages() holds the mutex only to copy the slice.                       *)
StartSync(t, L) ==
    /\ mutex = Nobody
    /\ pc[t] = "idle"
    /\ pc' = [pc EXCEPT ![t] = "remove"]
    /\ list' = [list EXCEPT ![t] = L]
    /\ toRemove' = [toRemove EXCEPT ![t] = Table!Surplus(Table!Members(table), L)]
    /\ toAdd' = [toAdd EXCEPT ![t] = Table!Missing(Table!Members(table), L)]
    /\ UNCHANGED <<table, phase, keys, cur, mutex, poolMutex, index, members, handlerVars>>

(* Faulty: the mutex covers s.passages only.                                *)
LockTable_Short(t) ==
    /\ pc[t] \in {"remove", "add"}
    /\ mutex = Nobody
    /\ mutex' = Nobody
    /\ phase' = [phase EXCEPT ![t] = pc[t]]
    /\ table' = IF pc[t] = "remove" THEN Table!Without(table, toRemove[t])
                                    ELSE Table!With(table, toAdd[t])
    /\ pc' = [pc EXCEPT ![t] = "keys"]
    /\ UNCHANGED <<list, toRemove, toAdd, keys, cur, poolMutex, index, members, handlerVars>>

(* RemovePassages, or AddPassages, takes the mutex and changes s.passages.  *)
LockTable(t) ==
    /\ pc[t] \in {"remove", "add"}
    /\ mutex = Nobody
    /\ mutex' = t
    /\ phase' = [phase EXCEPT ![t] = pc[t]]
    /\ table' = IF pc[t] = "remove" THEN Table!Without(table, toRemove[t])
                                    ELSE Table!With(table, toAdd[t])
    /\ pc' = [pc EXCEPT ![t] = "keys"]
    /\ UNCHANGED <<list, toRemove, toAdd, keys, cur, poolMutex, index, members, handlerVars>>

(* socketIdents := s.userContextPool.Infra().GetKeys()                      *)
GetKeys(t) ==
    /\ pc[t] = "keys"
    /\ poolMutex = Nobody
    /\ keys' = [keys EXCEPT ![t] = Pooled]
    /\ pc' = [pc EXCEPT ![t] = "get"]
    /\ UNCHANGED <<table, list, toRemove, toAdd, phase, cur, mutex, poolMutex, index,
                   members, handlerVars>>

(* Infra().Get(ident), asserted to be a *UserContext: panics on nil.       *)
GetContext(t, i) ==
    /\ pc[t] = "get"
    /\ i \in keys[t]
    /\ poolMutex = Nobody
    /\ keys' = [keys EXCEPT ![t] = @ \ {i}]
    /\ cur' = [cur EXCEPT ![t] = index[i]]
    /\ pc' = [pc EXCEPT ![t] = IF index[i] = NoCtx THEN "panic" ELSE "update"]
    /\ UNCHANGED <<table, list, toRemove, toAdd, phase, mutex, poolMutex, index, members,
                   handlerVars>>

(* userContext.Insert(vals), or userContext.Remove of every node that fits. *)
UpdateContext(t) ==
    /\ pc[t] = "update"
    /\ members' = [members EXCEPT ![cur[t]] = Apply(t, @)]
    /\ cur' = [cur EXCEPT ![t] = NoCtx]
    /\ pc' = [pc EXCEPT ![t] = "get"]
    /\ UNCHANGED <<table, list, toRemove, toAdd, phase, keys, mutex, poolMutex, index,
                   handlerVars>>

(* Faulty: returns after RemovePassages.                                    *)
UnlockTable_Return(t) ==
    /\ pc[t] = "get"
    /\ keys[t] = {}
    /\ mutex' = Nobody
    /\ pc' = [pc EXCEPT ![t] = "idle"]
    /\ UNCHANGED <<table, list, toRemove, toAdd, phase, keys, cur, poolMutex, index, members,
                   handlerVars>>

(* Every ident visited: the deferred unlock.                                *)
UnlockTable(t) ==
    /\ pc[t] = "get"
    /\ keys[t] = {}
    /\ mutex' = Nobody
    /\ pc' = [pc EXCEPT ![t] = IF phase[t] = "remove" THEN "add" ELSE "idle"]
    /\ UNCHANGED <<table, list, toRemove, toAdd, phase, keys, cur, poolMutex, index, members,
                   handlerVars>>

------------------------------------------------------------------------------
(* GetUserContextOrInsert for a known address.                              *)
GetHit(h, i) ==
    /\ hpc[h] = "idle"
    /\ poolMutex = Nobody
    /\ index[i] # NoCtx
    /\ ip' = [ip EXCEPT ![h] = i]
    /\ ctx' = [ctx EXCEPT ![h] = index[i]]
    /\ hpc' = [hpc EXCEPT ![h] = "auth"]
    /\ UNCHANGED <<table, syncerVars, mutex, poolMutex, index, members, copy>>

(* ... and for a new one: the pool stays locked across valFunc.             *)
GetMiss(h, i) ==
    /\ hpc[h] = "idle"
    /\ poolMutex = Nobody
    /\ index[i] = NoCtx
    /\ poolMutex' = h
    /\ ip' = [ip EXCEPT ![h] = i]
    /\ hpc' = [hpc EXCEPT ![h] = "snapshot"]
    /\ UNCHANGED <<table, syncerVars, mutex, index, members, ctx, copy>>

(* Faulty: copies s.passages without the mutex.                             *)
Snapshot_NoLock(h, c) ==
    /\ hpc[h] = "snapshot"
    /\ c \in Ctx \ Referenced(index, ctx)
    /\ members' = [members EXCEPT ![c] = table]
    /\ ctx' = [ctx EXCEPT ![h] = c]
    /\ hpc' = [hpc EXCEPT ![h] = "insert"]
    /\ UNCHANGED <<table, syncerVars, mutex, poolMutex, index, ip, copy>>

(* valFunc: NewUserContext(s.passages) under the server's mutex.            *)
Snapshot(h, c) ==
    /\ hpc[h] = "snapshot"
    /\ mutex = Nobody
    /\ c \in Ctx \ Referenced(index, ctx)
    /\ members' = [members EXCEPT ![c] = table]
    /\ ctx' = [ctx EXCEPT ![h] = c]
    /\ hpc' = [hpc EXCEPT ![h] = "insert"]
    /\ UNCHANGED <<table, syncerVars, mutex, poolMutex, index, ip, copy>>

(* LRU.insert: the new context goes in front, the expired ones are popped.  *)
Insert(h, expired) ==
    /\ hpc[h] = "insert"
    /\ expired \subseteq Pooled \ {ip[h]}
    /\ index' = [i \in Ident |-> IF i = ip[h] THEN ctx[h]
                                 ELSE IF i \in expired THEN NoCtx ELSE index[i]]
    /\ members' = Collect(members, index', ctx)
    /\ poolMutex' = Nobody
    /\ hpc' = [hpc EXCEPT ![h] = "auth"]
    /\ UNCHANGED <<table, syncerVars, mutex, ip, ctx, copy>>

(* UserContext.Auth works on a copy of the list.                            *)
GetListCopy(h) ==
    /\ hpc[h] = "auth"
    /\ copy' = [copy EXCEPT ![h] = Table!Members(members[ctx[h]])]
    /\ ctx' = [ctx EXCEPT ![h] = NoCtx]
    /\ members' = Collect(members, index, ctx')
    /\ hpc' = [hpc EXCEPT ![h] = "probe"]
    /\ UNCHANGED <<table, syncerVars, mutex, poolMutex, index, ip>>

(* The copy is probed; the request goes on with what was found.             *)
Probe(h) ==
    /\ hpc[h] = "probe"
    /\ copy' = [copy EXCEPT ![h] = {}]
    /\ hpc' = [hpc EXCEPT ![h] = "idle"]
    /\ UNCHANGED <<table, syncerVars, mutex, poolMutex, index, members, ip, ctx>>

SyncStep(t) ==
    \/ LockTable(t)
    \/ GetKeys(t)
    \/ \E i \in Ident : GetContext(t, i)
    \/ UpdateContext(t)
    \/ UnlockTable(t)

HandlerStep(h) ==
    \/ \E c \in Ctx : Snapshot(h, c)
    \/ \E expired \in SUBSET Ident : Insert(h, expired)
    \/ GetListCopy(h)
    \/ Probe(h)

Next ==
    \/ \E t \in Syncers : (\E L \in Lists : StartSync(t, L)) \/ SyncStep(t)
    \/ \E h \in Handler : (\E i \in Ident : GetHit(h, i) \/ GetMiss(h, i)) \/ HandlerStep(h)

Spec == Init /\ [][Next]_vars

(* Goroutines keep running, and sync.Mutex is fair to its waiters: one that *)
(* could take a mutex again and again takes it.                             *)
FairSpec ==
    /\ Spec
    /\ \A t \in Syncers : SF_vars(SyncStep(t))
    /\ \A h \in Handler : SF_vars(HandlerStep(h))

------------------------------------------------------------------------------
TypeOK ==
    /\ table \in [Passage -> Nat]
    /\ list \in [Syncers -> SUBSET (Passage \ {Manager})]
    /\ toRemove \in [Syncers -> SUBSET Passage]
    /\ toAdd \in [Syncers -> SUBSET (Passage \ {Manager})]
    /\ pc \in [Syncers -> {"idle", "remove", "add", "keys", "get", "update", "panic"}]
    /\ phase \in [Syncers -> {"remove", "add"}]
    /\ keys \in [Syncers -> SUBSET Ident]
    /\ cur \in [Syncers -> Ctx \cup {NoCtx}]
    /\ mutex \in Syncers \cup {Nobody}
    /\ poolMutex \in Handler \cup {Nobody}
    /\ index \in [Ident -> Ctx \cup {NoCtx}]
    /\ members \in [Ctx -> [Passage -> Nat]]
    /\ hpc \in [Handler -> {"idle", "snapshot", "insert", "auth", "probe"}]
    /\ ip \in [Handler -> Ident]
    /\ ctx \in [Handler -> Ctx \cup {NoCtx}]
    /\ copy \in [Handler -> SUBSET Passage]

(* Whenever no sync holds the server's mutex, every pooled context lists    *)
(* exactly the passages of the server: a context created while a sync was   *)
(* under way is neither missed nor updated twice.                           *)
ContextsMatchPassages ==
    mutex = Nobody => \A i \in Pooled : members[index[i]] = table

(* No two addresses share a context, so no list is updated twice.           *)
ContextsDistinct ==
    \A i, j \in Pooled : index[i] = index[j] => i = j

(* An ident GetKeys returned is still there when Get asks for it; otherwise *)
(* the type assertion on nil would panic with the mutex held.               *)
NoNilContext == \A t \in Syncers : pc[t] # "panic"

(* SyncPassages returns.                                                    *)
SyncReturns == \A t \in Syncers : pc[t] # "idle" ~> pc[t] = "idle"

(* s.passages behaves as PassageSync says.                                  *)
TableSpec == Table!Spec
==============================================================================
