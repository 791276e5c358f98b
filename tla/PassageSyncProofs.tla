--------------------------- MODULE PassageSyncProofs ---------------------------
(***************************************************************************)
(* What holds of the passage table, and of the juicity server's map of      *)
(* clients, for any passages, clients, lists and number of overlapping      *)
(* syncs.                                                                   *)
(***************************************************************************)
EXTENDS JuicityUsers, TLAPS

(* RemovePassages keeps the manager's entry and takes out every client it   *)
(* was given; AddPassages touches only what it was given.                   *)
LEMMA BagFacts ==
    ASSUME table \in [Passage -> Nat], NEW S \in SUBSET Passage
    PROVE  /\ Without(table, S) \in [Passage -> Nat]
           /\ With(table, S) \in [Passage -> Nat]
           /\ Without(table, S)[Manager] = table[Manager]
           /\ \A p \in Passage : Without(table, S)[p] > 0 =>
                  table[p] > 0 /\ (p # Manager => p \notin S)
           /\ \A p \in Passage : p \notin S => With(table, S)[p] = table[p]
  BY PassageAssumption DEF Without, With, RemovedKeys

(* AddPassages is only handed passages of the goroutine's own list.         *)
AddsListed == \A t \in Syncers : toAdd[t] \subseteq list[t]

IInv == TypeOK /\ ManagerKept /\ AddsListed /\ NoStrays

LEMMA InitIInv == Init => IInv
  BY PassageAssumption
     DEF Init, IInv, TypeOK, ManagerKept, AddsListed, NoStrays, OnlyManager, Members

LEMMA StartKeepsIInv ==
    ASSUME IInv, NEW t \in Syncers, NEW L \in Lists, StartSync(t, L)
    PROVE  IInv'
  <1> USE DEF IInv
  <1>1. L \in SUBSET (Passage \ {Manager})
    BY PassageAssumption
  <1>2. TypeOK'
    BY <1>1 DEF StartSync, TypeOK, Surplus, Missing, Members
  <1>3. ManagerKept'
    BY DEF StartSync, ManagerKept
  <1>4. AddsListed'
    BY <1>1 DEF StartSync, AddsListed, TypeOK, Missing
  <1>5. NoStrays'
    <2> SUFFICES ASSUME NEW p \in Members(table)' \ {Manager}
                 PROVE  \E u \in Syncers :
                            p \in list'[u] \/ (pc'[u] = "remove" /\ p \in toRemove'[u])
      BY DEF NoStrays
    <2>1. p \in Members(table)
      BY DEF StartSync, Members
    <2>2. p \in L \/ p \in Surplus(Members(table), L)
      BY <2>1 DEF Surplus
    <2>3. list'[t] = L /\ pc'[t] = "remove" /\ toRemove'[t] = Surplus(Members(table), L)
      BY DEF StartSync, TypeOK
    <2> QED
      BY <2>2, <2>3
  <1> QED
    BY <1>2, <1>3, <1>4, <1>5

LEMMA RemoveKeepsIInv ==
    ASSUME IInv, NEW t \in Syncers, RemovePassages(t)
    PROVE  IInv'
  <1> USE DEF IInv
  <1>1. /\ toRemove[t] \in SUBSET Passage
        /\ table \in [Passage -> Nat]
    BY DEF TypeOK
  <1>2. /\ table' \in [Passage -> Nat]
        /\ table'[Manager] = table[Manager]
        /\ \A p \in Passage : table'[p] > 0 =>
               table[p] > 0 /\ (p # Manager => p \notin toRemove[t])
    BY <1>1, BagFacts DEF RemovePassages
  <1>3. TypeOK' /\ ManagerKept' /\ AddsListed'
    BY <1>2 DEF RemovePassages, TypeOK, ManagerKept, AddsListed
  <1>4. NoStrays'
    <2> SUFFICES ASSUME NEW p \in Members(table)' \ {Manager}
                 PROVE  \E u \in Syncers :
                            p \in list'[u] \/ (pc'[u] = "remove" /\ p \in toRemove'[u])
      BY DEF NoStrays
    <2>1. p \in Members(table) /\ p \notin toRemove[t]
      BY <1>2 DEF Members
    <2>2. PICK u \in Syncers : p \in list[u] \/ (pc[u] = "remove" /\ p \in toRemove[u])
      BY <2>1 DEF NoStrays
    <2> QED
      BY <2>1, <2>2 DEF RemovePassages, TypeOK
  <1> QED
    BY <1>3, <1>4

LEMMA AddKeepsIInv ==
    ASSUME IInv, NEW t \in Syncers, AddPassages(t)
    PROVE  IInv'
  <1> USE DEF IInv
  <1>1. /\ toAdd[t] \in SUBSET Passage
        /\ Manager \notin toAdd[t]
        /\ toAdd[t] \subseteq list[t]
        /\ table \in [Passage -> Nat]
    BY DEF TypeOK, AddsListed
  <1>2. /\ table' \in [Passage -> Nat]
        /\ \A p \in Passage : p \notin toAdd[t] => table'[p] = table[p]
    BY <1>1, BagFacts DEF AddPassages
  <1>3. TypeOK' /\ ManagerKept' /\ AddsListed'
    BY <1>1, <1>2, PassageAssumption DEF AddPassages, TypeOK, ManagerKept, AddsListed
  <1>4. NoStrays'
    <2> SUFFICES ASSUME NEW p \in Members(table)' \ {Manager}
                 PROVE  \E u \in Syncers :
                            p \in list'[u] \/ (pc'[u] = "remove" /\ p \in toRemove'[u])
      BY DEF NoStrays
    <2>1. CASE p \in toAdd[t]
      BY <2>1, <1>1 DEF AddPassages
    <2>2. CASE p \notin toAdd[t]
      <3>1. p \in Members(table)
        BY <1>2, <2>2 DEF Members
      <3>2. PICK u \in Syncers : p \in list[u] \/ (pc[u] = "remove" /\ p \in toRemove[u])
        BY <3>1 DEF NoStrays
      <3> QED
        BY <3>2 DEF AddPassages, TypeOK
    <2> QED
      BY <2>1, <2>2
  <1> QED
    BY <1>3, <1>4

LEMMA NextKeepsIInv == IInv /\ [Next]_vars => IInv'
  <1> SUFFICES ASSUME IInv, [Next]_vars
               PROVE  IInv'
    OBVIOUS
  <1>1. CASE UNCHANGED vars
    BY <1>1 DEF vars, syncVars, IInv, TypeOK, ManagerKept, AddsListed, NoStrays, Members
  <1>2. ASSUME NEW t \in Syncers, NEW L \in Lists, StartSync(t, L)
        PROVE  IInv'
    BY <1>2, StartKeepsIInv
  <1>3. ASSUME NEW t \in Syncers, RemovePassages(t)
        PROVE  IInv'
    BY <1>3, RemoveKeepsIInv
  <1>4. ASSUME NEW t \in Syncers, AddPassages(t)
        PROVE  IInv'
    BY <1>4, AddKeepsIInv
  <1> QED
    BY <1>1, <1>2, <1>3, <1>4 DEF Next, Step

LEMMA SpecIInv == Spec => []IInv
  BY InitIInv, NextKeepsIInv, PTL DEF Spec

(* The table, the goroutines' positions and their differences keep their    *)
(* types (SyncPassages, Passages, RemovePassages, AddPassages).             *)
THEOREM TypeCorrect == Spec => []TypeOK
  <1>1. IInv => TypeOK
    BY DEF IInv
  <1> QED
    BY SpecIInv, <1>1, PTL

(* No interleaving of RemovePassages and AddPassages removes or duplicates  *)
(* the manager's passage.                                                   *)
THEOREM ManagerAlwaysKept == Spec => []ManagerKept
  <1>1. IInv => ManagerKept
    BY DEF IInv
  <1> QED
    BY SpecIInv, <1>1, PTL

(* However the syncs overlap, a client in the table is named by some        *)
(* goroutine's last list or about to be taken out by it.                    *)
THEOREM NoClientLingers == Spec => []NoStrays
  <1>1. IInv => NoStrays
    BY DEF IInv
  <1> QED
    BY SpecIInv, <1>1, PTL

------------------------------------------------------------------------------
(* A goroutine only takes out what its list does not name, and a passage    *)
(* that nothing shares its In.Argument with is in the table, about to be    *)
(* added, or left out of the last list of some goroutine.                   *)
RemovesUnlisted == \A t \in Syncers : toRemove[t] \cap list[t] = {}

Accounted(p) ==
    \/ p \in Members(table)
    \/ \E t \in Syncers : p \notin list[t] \/ (pc[t] # "idle" /\ p \in toAdd[t])

AInv == IInv /\ RemovesUnlisted /\ \A p \in Unshared : Accounted(p)

LEMMA InitAInv == Init => AInv
  <1> SUFFICES ASSUME Init
               PROVE  RemovesUnlisted /\ \A p \in Unshared : Accounted(p)
    BY InitIInv DEF AInv
  <1>1. PICK t \in Syncers : TRUE
    BY PassageAssumption
  <1> QED
    BY <1>1 DEF Init, RemovesUnlisted, Accounted

LEMMA StartKeepsAInv ==
    ASSUME AInv, NEW t \in Syncers, NEW L \in Lists, StartSync(t, L)
    PROVE  AInv'
  <1>1. IInv' /\ TypeOK
    BY StartKeepsIInv DEF AInv, IInv
  <1>2. /\ list' = [list EXCEPT ![t] = L]
        /\ pc' = [pc EXCEPT ![t] = "remove"]
        /\ toRemove' = [toRemove EXCEPT ![t] = Members(table) \ L]
        /\ toAdd' = [toAdd EXCEPT ![t] = L \ Members(table)]
        /\ table' = table
    BY DEF StartSync, Surplus, Missing
  <1>3. RemovesUnlisted'
    BY <1>1, <1>2 DEF AInv, RemovesUnlisted, TypeOK
  <1>4. ASSUME NEW p \in Unshared
        PROVE  Accounted(p)'
    <2>1. CASE p \in Members(table)
      BY <2>1, <1>2 DEF Accounted, Members
    <2>2. CASE p \notin Members(table)
      <3>1. p \notin list'[t] \/ (pc'[t] # "idle" /\ p \in toAdd'[t])
        BY <1>1, <1>2, <2>2 DEF TypeOK
      <3> QED
        BY <3>1 DEF Accounted
    <2> QED
      BY <2>1, <2>2
  <1> QED
    BY <1>1, <1>3, <1>4 DEF AInv

LEMMA RemoveKeepsAInv ==
    ASSUME AInv, NEW t \in Syncers, RemovePassages(t)
    PROVE  AInv'
  <1>1. IInv' /\ TypeOK
    BY RemoveKeepsIInv DEF AInv, IInv
  <1>2. /\ table' = Without(table, toRemove[t])
        /\ pc' = [pc EXCEPT ![t] = "add"]
        /\ UNCHANGED <<list, toRemove, toAdd>>
    BY DEF RemovePassages
  <1>3. RemovesUnlisted'
    BY <1>2 DEF AInv, RemovesUnlisted
  <1>4. ASSUME NEW p \in Unshared
        PROVE  Accounted(p)'
    <2>1. p \in Passage /\ \A q \in Passage : InHash[q] = InHash[p] => q = p
      BY DEF Unshared
    <2>2. CASE p \in Members(table) /\ p \in toRemove[t]
      BY <1>2, <2>2 DEF AInv, RemovesUnlisted, Accounted
    <2>3. CASE p \in Members(table) /\ p \notin toRemove[t]
      <3>1. InHash[p] \notin RemovedKeys(toRemove[t])
        BY <1>1, <2>1, <2>3 DEF RemovedKeys, TypeOK
      <3>2. table'[p] = table[p]
        BY <1>2, <2>1, <3>1 DEF Without
      <3> QED
        BY <2>1, <2>3, <3>2 DEF Accounted, Members
    <2>4. CASE p \notin Members(table)
      <3>1. PICK u \in Syncers : p \notin list[u] \/ (pc[u] # "idle" /\ p \in toAdd[u])
        BY <2>4 DEF AInv, Accounted
      <3>2. p \notin list'[u] \/ (pc'[u] # "idle" /\ p \in toAdd'[u])
        BY <1>1, <1>2, <3>1 DEF TypeOK
      <3> QED
        BY <3>2 DEF Accounted
    <2> QED
      BY <2>2, <2>3, <2>4
  <1> QED
    BY <1>1, <1>3, <1>4 DEF AInv

LEMMA AddKeepsAInv ==
    ASSUME AInv, NEW t \in Syncers, AddPassages(t)
    PROVE  AInv'
  <1>1. IInv' /\ TypeOK
    BY AddKeepsIInv DEF AInv, IInv
  <1>2. /\ table' = With(table, toAdd[t])
        /\ pc' = [pc EXCEPT ![t] = "idle"]
        /\ UNCHANGED <<list, toRemove, toAdd>>
    BY DEF AddPassages
  <1>3. RemovesUnlisted'
    BY <1>2 DEF AInv, RemovesUnlisted
  <1>4. ASSUME NEW p \in Unshared
        PROVE  Accounted(p)'
    <2>1. p \in Passage
      BY DEF Unshared
    <2>2. CASE p \in Members(table) \/ p \in toAdd[t]
      BY <1>1, <1>2, <2>1, <2>2 DEF Accounted, Members, With, TypeOK
    <2>3. CASE p \notin Members(table) /\ p \notin toAdd[t]
      <3>1. PICK u \in Syncers : p \notin list[u] \/ (pc[u] # "idle" /\ p \in toAdd[u])
        BY <2>3 DEF AInv, Accounted
      <3>2. p \notin list'[u] \/ (pc'[u] # "idle" /\ p \in toAdd'[u])
        BY <1>1, <1>2, <2>3, <3>1 DEF TypeOK
      <3> QED
        BY <3>2 DEF Accounted
    <2> QED
      BY <2>2, <2>3
  <1> QED
    BY <1>1, <1>3, <1>4 DEF AInv

LEMMA NextKeepsAInv == AInv /\ [Next]_vars => AInv'
  <1> SUFFICES ASSUME AInv, [Next]_vars
               PROVE  AInv'
    OBVIOUS
  <1>1. CASE UNCHANGED vars
    <2>1. IInv'
      BY <1>1, NextKeepsIInv DEF AInv
    <2> QED
      BY <1>1, <2>1 DEF AInv, RemovesUnlisted, Accounted, Members, vars, syncVars
  <1>2. ASSUME NEW t \in Syncers, NEW L \in Lists, StartSync(t, L)
        PROVE  AInv'
    BY <1>2, StartKeepsAInv
  <1>3. ASSUME NEW t \in Syncers, RemovePassages(t)
        PROVE  AInv'
    BY <1>3, RemoveKeepsAInv
  <1>4. ASSUME NEW t \in Syncers, AddPassages(t)
        PROVE  AInv'
    BY <1>4, AddKeepsAInv
  <1> QED
    BY <1>1, <1>2, <1>3, <1>4 DEF Next, Step

LEMMA SpecAInv == Spec => []AInv
  BY InitAInv, NextKeepsAInv, PTL DEF Spec

(* Syncs that agree leave the list they agree on (SyncPassages), as far as  *)
(* RemovePassages can tell the passages apart.                              *)
THEOREM AgreementReached == Spec => []AgreedListReached
  <1>1. AInv => AgreedListReached
    <2> SUFFICES ASSUME AInv, NEW L \in Lists,
                        \A t \in Syncers : pc[t] = "idle" /\ list[t] = L,
                        NEW p \in Unshared
                 PROVE  p \in Members(table) <=> p \in L \cup {Manager}
      BY DEF AgreedListReached
    <2>1. p \in Members(table) \ {Manager} => p \in L
      BY DEF AInv, IInv, NoStrays
    <2>2. p \in L => p \in Members(table)
      BY DEF AInv, Accounted
    <2>3. Manager \in Members(table)
      BY PassageAssumption DEF AInv, IInv, ManagerKept, Members
    <2> QED
      BY <2>1, <2>2, <2>3
  <1> QED
    BY SpecAInv, <1>1, PTL

(* RemovePassages takes out no client of the list it works for.             *)
THEOREM OnlyUnlistedRemoved == Spec => RemovesOnlyUnlisted
  <1>1. ASSUME AInv, [Next]_vars
        PROVE  \A p \in Passage :
            table'[p] < table[p] =>
                \E t \in Syncers, q \in Passage \ {Manager} :
                    /\ pc[t] = "remove"
                    /\ InHash[q] = InHash[p]
                    /\ q \notin list[t]
    <2> SUFFICES ASSUME NEW p \in Passage, table'[p] < table[p]
                 PROVE  \E t \in Syncers, q \in Passage \ {Manager} :
                            pc[t] = "remove" /\ InHash[q] = InHash[p] /\ q \notin list[t]
      OBVIOUS
    <2>0. TypeOK
      BY <1>1 DEF AInv, IInv
    <2>1. table' # table
      BY <2>0 DEF TypeOK
    <2>2. ASSUME NEW t \in Syncers, RemovePassages(t)
          PROVE  \E q \in Passage \ {Manager} :
                     pc[t] = "remove" /\ InHash[q] = InHash[p] /\ q \notin list[t]
      <3>1. InHash[p] \in RemovedKeys(toRemove[t])
        BY <2>2, <2>0 DEF RemovePassages, Without, TypeOK
      <3>2. PICK q \in toRemove[t] \ {Manager} : InHash[q] = InHash[p]
        BY <3>1 DEF RemovedKeys
      <3> QED
        BY <1>1, <2>0, <2>2, <3>2 DEF RemovePassages, AInv, RemovesUnlisted, TypeOK
    <2>3. ASSUME NEW t \in Syncers, AddPassages(t)
          PROVE  FALSE
      BY <2>3, <2>0 DEF AddPassages, With, TypeOK
    <2>4. PICK t \in Syncers : Step(t)
      BY <1>1, <2>1 DEF Next, vars
    <2>5. RemovePassages(t)
      BY <2>1, <2>3, <2>4 DEF Step, StartSync
    <2> QED
      BY <2>2, <2>5
  <1>2. AInv /\ [Next]_vars => [\A p \in Passage :
          table'[p] < table[p] =>
              \E t \in Syncers, q \in Passage \ {Manager} :
                  /\ pc[t] = "remove"
                  /\ InHash[q] = InHash[p]
                  /\ q \notin list[t]]_vars
    BY <1>1
  <1> QED
    BY SpecAInv, <1>2, PTL DEF Spec, RemovesOnlyUnlisted

------------------------------------------------------------------------------
(* The juicity server's map of clients.                                     *)

UsersTypeOK == users \in [Uuid -> Passage \cup {NoUser}]

JIInv == IInv /\ UsersTypeOK /\ LoadsFromTable

(* What addPassages leaves in the map for one identifier.                   *)
LEMMA StoreFacts ==
    ASSUME NEW S \in SUBSET Passage, NEW f \in Store(S)
    PROVE  /\ f \in [Uuid -> UNION {S, {users[u] : u \in Uuid}}]
           /\ \A u \in Uuid : IF u \in Uuids(S) THEN f[u] \in S /\ UuidOf[f[u]] = u
                                               ELSE f[u] = users[u]
  <1>1. PICK last \in LastOf(S) :
            f = [u \in Uuid |-> IF u \in Uuids(S) THEN last[u] ELSE users[u]]
    BY DEF Store
  <1>2. \A u \in Uuids(S) : last[u] \in S /\ UuidOf[last[u]] = u
    BY DEF LastOf
  <1> QED
    BY <1>1, <1>2

(* The bag of the table and the map of the clients move together.           *)
LEMMA InitJIInv == JInit => JIInv
  <1> SUFFICES ASSUME JInit
               PROVE  JIInv
    OBVIOUS
  <1>1. IInv
    BY InitIInv DEF JInit
  <1>2. UsersTypeOK
    BY PassageAssumption, UuidAssumption DEF JInit, UsersTypeOK
  <1>3. LoadsFromTable
    <2> SUFFICES ASSUME NEW u \in Uuid, users[u] # NoUser
                 PROVE  users[u] \in Members(table) /\ UuidOf[users[u]] = u
      BY DEF LoadsFromTable
    <2>1. users[u] = Manager /\ u = UuidOf[Manager]
      BY DEF JInit
    <2>2. table[Manager] = 1
      BY PassageAssumption DEF JInit, Init, OnlyManager
    <2> QED
      BY <2>1, <2>2, PassageAssumption DEF Members
  <1> QED
    BY <1>1, <1>2, <1>3 DEF JIInv

LEMMA JStartKeeps ==
    ASSUME JIInv, NEW t \in Syncers, NEW L \in Lists, JStartSync(t, L)
    PROVE  JIInv'
  <1>1. IInv'
    BY StartKeepsIInv DEF JIInv, JStartSync
  <1>2. UNCHANGED <<table, users>>
    BY DEF JStartSync, StartSync
  <1> QED
    BY <1>1, <1>2 DEF JIInv, UsersTypeOK, LoadsFromTable, Members

LEMMA JRemoveKeeps ==
    ASSUME JIInv, NEW t \in Syncers, JRemovePassages(t)
    PROVE  JIInv'
  <1> DEFINE Gone == {p \in Members(table) : InHash[p] \in RemovedKeys(toRemove[t])}
  <1>1. IInv'
    BY RemoveKeepsIInv DEF JIInv, JRemovePassages
  <1>2. /\ users' = Forget(Gone)
        /\ table' = Without(table, toRemove[t])
        /\ toRemove[t] \in SUBSET Passage
        /\ table \in [Passage -> Nat]
    BY DEF JRemovePassages, RemovePassages, JIInv, IInv, TypeOK
  <1>3. UsersTypeOK'
    BY <1>2 DEF JIInv, UsersTypeOK, Forget
  <1>4. LoadsFromTable'
    <2> SUFFICES ASSUME NEW u \in Uuid, users'[u] # NoUser
                 PROVE  users'[u] \in Members(table)' /\ UuidOf[users'[u]] = u
      BY DEF LoadsFromTable
    <2>1. users'[u] = users[u] /\ u \notin Uuids(Gone)
      BY <1>2 DEF Forget
    <2>2. users[u] \in Members(table) /\ UuidOf[users[u]] = u
      BY <2>1 DEF JIInv, LoadsFromTable
    <2>3. users[u] \notin Gone
      BY <2>1, <2>2 DEF Uuids
    <2>4. users[u] \in Members(table)'
      BY <1>2, <2>2, <2>3 DEF Members, Without
    <2> QED
      BY <2>1, <2>2, <2>4
  <1> QED
    BY <1>1, <1>3, <1>4 DEF JIInv

LEMMA JAddKeeps ==
    ASSUME JIInv, NEW t \in Syncers, JAddPassages(t)
    PROVE  JIInv'
  <1>1. IInv'
    BY AddKeepsIInv DEF JIInv, JAddPassages
  <1>2. /\ users' \in Store(toAdd[t])
        /\ table' = With(table, toAdd[t])
        /\ toAdd[t] \in SUBSET Passage
        /\ table \in [Passage -> Nat]
    BY DEF JAddPassages, AddPassages, JIInv, IInv, TypeOK
  <1>3. /\ users' \in [Uuid -> UNION {toAdd[t], {users[u] : u \in Uuid}}]
        /\ \A u \in Uuid : IF u \in Uuids(toAdd[t])
                          THEN users'[u] \in toAdd[t] /\ UuidOf[users'[u]] = u
                          ELSE users'[u] = users[u]
    BY <1>2, StoreFacts
  <1>4. UsersTypeOK'
    <2>1. UNION {toAdd[t], {users[u] : u \in Uuid}} \subseteq Passage \cup {NoUser}
      BY <1>2 DEF JIInv, UsersTypeOK
    <2> QED
      BY <1>3, <2>1 DEF UsersTypeOK
  <1>5. LoadsFromTable'
    <2> SUFFICES ASSUME NEW u \in Uuid, users'[u] # NoUser
                 PROVE  users'[u] \in Members(table)' /\ UuidOf[users'[u]] = u
      BY DEF LoadsFromTable
    <2>1. CASE u \in Uuids(toAdd[t])
      BY <1>2, <1>3, <2>1 DEF Members, With
    <2>2. CASE u \notin Uuids(toAdd[t])
      <3>1. users'[u] = users[u]
        BY <1>3, <2>2
      <3>2. users[u] \in Members(table) /\ UuidOf[users[u]] = u
        BY <3>1 DEF JIInv, LoadsFromTable
      <3> QED
        BY <1>2, <3>1, <3>2 DEF Members, With
    <2> QED
      BY <2>1, <2>2
  <1> QED
    BY <1>1, <1>4, <1>5 DEF JIInv

LEMMA JNextKeeps == JIInv /\ [JNext]_jvars => JIInv'
  <1> SUFFICES ASSUME JIInv, [JNext]_jvars
               PROVE  JIInv'
    OBVIOUS
  <1>1. CASE UNCHANGED jvars
    <2>1. UNCHANGED vars /\ UNCHANGED users
      BY <1>1 DEF jvars
    <2>2. IInv'
      BY <2>1, NextKeepsIInv DEF JIInv
    <2> QED
      BY <2>1, <2>2 DEF JIInv, UsersTypeOK, LoadsFromTable, Members, vars
  <1>2. ASSUME NEW t \in Syncers, NEW L \in Lists, JStartSync(t, L)
        PROVE  JIInv'
    BY <1>2, JStartKeeps
  <1>3. ASSUME NEW t \in Syncers, JRemovePassages(t)
        PROVE  JIInv'
    BY <1>3, JRemoveKeeps
  <1>4. ASSUME NEW t \in Syncers, JAddPassages(t)
        PROVE  JIInv'
    BY <1>4, JAddKeeps
  <1> QED
    BY <1>1, <1>2, <1>3, <1>4 DEF JNext

LEMMA JSpecJIInv == JSpec => []JIInv
  BY InitJIInv, JNextKeeps, PTL DEF JSpec

(* Whatever syncs overlap, users.Load never returns a passage that          *)
(* RemovePassages has taken out of the table.                               *)
THEOREM JuicityLoadsFromTable == JSpec => []LoadsFromTable
  <1>1. JIInv => LoadsFromTable
    BY DEF JIInv
  <1> QED
    BY JSpecJIInv, <1>1, PTL

(* What handleAuth loads for the identifier of the control server.          *)
ManagerLoads == users[UuidOf[Manager]] = Manager

(* Juicity forgets the control server only in a step that appends or takes  *)
(* out a client that got the manager's identifier, because its name does    *)
(* not parse; and then for good, since no list ever names the manager.      *)
ManagerLostByOther ==
    [][/\ ManagerLoads' => ManagerLoads
       /\ ManagerLoads /\ ~ManagerLoads' =>
             \E p \in Passage \ {Manager} : UuidOf[p] = UuidOf[Manager] /\ table'[p] # table[p]]_jvars

LEMMA ManagerStep ==
    ASSUME JIInv, [JNext]_jvars
    PROVE  /\ ManagerLoads' => ManagerLoads
           /\ ManagerLoads /\ ~ManagerLoads' =>
                 \E p \in Passage \ {Manager} :
                     UuidOf[p] = UuidOf[Manager] /\ table'[p] # table[p]
  <1> DEFINE Goal == /\ ManagerLoads' => ManagerLoads
                     /\ ManagerLoads /\ ~ManagerLoads' =>
                           \E p \in Passage \ {Manager} :
                               UuidOf[p] = UuidOf[Manager] /\ table'[p] # table[p]
             um == UuidOf[Manager]
  <1>1. um \in Uuid /\ Manager \in Passage /\ Manager # NoUser /\ TypeOK /\ UsersTypeOK
    BY PassageAssumption, UuidAssumption DEF JIInv, IInv
  <1>2. CASE users' = users
    BY <1>2 DEF ManagerLoads
  <1>3. ASSUME NEW t \in Syncers, JRemovePassages(t)
        PROVE  Goal
    <2> DEFINE Gone == {p \in Members(table) : InHash[p] \in RemovedKeys(toRemove[t])}
    <2>1. users' = Forget(Gone) /\ table' = Without(table, toRemove[t])
          /\ toRemove[t] \in SUBSET Passage
      BY <1>1, <1>3 DEF JRemovePassages, RemovePassages, TypeOK
    <2>2. CASE um \notin Uuids(Gone)
      BY <1>1, <2>1, <2>2 DEF Forget, ManagerLoads
    <2>3. CASE um \in Uuids(Gone)
      <3>1. PICK p \in Gone : UuidOf[p] = um
        BY <2>3 DEF Uuids
      <3>2. p \in Passage \ {Manager} /\ table[p] > 0
        BY <2>1, PassageAssumption DEF Members, RemovedKeys
      <3>3. table'[p] = 0
        BY <2>1, <3>2 DEF Without
      <3>4. ~ManagerLoads'
        BY <1>1, <2>1, <2>3 DEF Forget, ManagerLoads
      <3> QED
        BY <3>1, <3>2, <3>3, <3>4
    <2> QED
      BY <2>2, <2>3
  <1>4. ASSUME NEW t \in Syncers, JAddPassages(t)
        PROVE  Goal
    <2>1. /\ users' \in Store(toAdd[t]) /\ table' = With(table, toAdd[t])
          /\ toAdd[t] \in SUBSET (Passage \ {Manager}) /\ table \in [Passage -> Nat]
      BY <1>1, <1>4 DEF JAddPassages, AddPassages, TypeOK
    <2>2. IF um \in Uuids(toAdd[t]) THEN users'[um] \in toAdd[t] /\ UuidOf[users'[um]] = um
                                   ELSE users'[um] = users[um]
      <3>1. toAdd[t] \in SUBSET Passage
        BY <2>1
      <3> QED
        BY <1>1, <2>1, <3>1, StoreFacts
    <2>3. CASE um \notin Uuids(toAdd[t])
      BY <2>2, <2>3 DEF ManagerLoads
    <2>4. CASE um \in Uuids(toAdd[t])
      <3>1. users'[um] \in Passage \ {Manager} /\ UuidOf[users'[um]] = um
        BY <2>1, <2>2, <2>4
      <3>2. table'[users'[um]] = table[users'[um]] + 1
        BY <2>1, <2>2, <2>4, <3>1 DEF With
      <3>3. table'[users'[um]] # table[users'[um]]
        BY <2>1, <3>1, <3>2
      <3> QED
        BY <3>1, <3>3 DEF ManagerLoads
    <2> QED
      BY <2>3, <2>4
  <1> QED
    BY <1>2, <1>3, <1>4 DEF JNext, JStartSync, jvars

(* However many syncs overlap: juicity forgets the control server only when *)
(* a client with its identifier comes or goes, and never knows it again.    *)
THEOREM JuicityManagerLost == JSpec => ManagerLostByOther
  <1>1. JIInv /\ [JNext]_jvars =>
            [/\ ManagerLoads' => ManagerLoads
             /\ ManagerLoads /\ ~ManagerLoads' =>
                   \E p \in Passage \ {Manager} :
                       UuidOf[p] = UuidOf[Manager] /\ table'[p] # table[p]]_jvars
    BY ManagerStep
  <1> QED
    BY JSpecJIInv, <1>1, PTL DEF JSpec, ManagerLostByOther

(* Types of the juicity users map: it holds passages or nothing.            *)
THEOREM JuicityTypeCorrect == JSpec => []JTypeOK
  <1>1. JIInv => JTypeOK
    BY DEF JIInv, IInv, UsersTypeOK, JTypeOK
  <1> QED
    BY JSpecJIInv, <1>1, PTL

(* A passage whose identifier no other has is never forgotten while it      *)
(* stands in the table: removePassagesFunc deletes the identifier only      *)
(* together with it.                                                        *)
THEOREM JuicityUnsharedLoad == JSpec => []UnsharedClientsLoad
  <1>1. JInit => UnsharedClientsLoad
    BY PassageAssumption, UuidAssumption
       DEF JInit, Init, OnlyManager, Members, UnsharedClientsLoad
  <1>2. ASSUME JIInv, UnsharedClientsLoad, [JNext]_jvars
        PROVE  UnsharedClientsLoad'
    <2> SUFFICES ASSUME NEW p \in Passage, p \in Members(table)',
                        \A q \in Passage : UuidOf[q] = UuidOf[p] => q = p
                 PROVE  users'[UuidOf[p]] = p
      BY DEF UnsharedClientsLoad, Members
    <2>1. /\ UuidOf[p] \in Uuid
          /\ TypeOK
      BY <1>2, UuidAssumption DEF JIInv, IInv
    <2>2. CASE UNCHANGED <<table, users>>
      BY <1>2, <2>2 DEF UnsharedClientsLoad, Members
    <2>3. ASSUME NEW t \in Syncers, JRemovePassages(t)
          PROVE  users'[UuidOf[p]] = p
      <3> DEFINE Gone == {q \in Members(table) : InHash[q] \in RemovedKeys(toRemove[t])}
      <3>1. p \in Members(table) /\ p \notin Gone
        BY <2>1, <2>3 DEF JRemovePassages, RemovePassages, Without, Members, TypeOK
      <3>2. UuidOf[p] \notin Uuids(Gone)
        BY <3>1 DEF Uuids, Members
      <3>3. users'[UuidOf[p]] = users[UuidOf[p]]
        BY <2>1, <2>3, <3>2 DEF JRemovePassages, Forget
      <3> QED
        BY <1>2, <3>1, <3>3 DEF UnsharedClientsLoad
    <2>4. ASSUME NEW t \in Syncers, JAddPassages(t)
          PROVE  users'[UuidOf[p]] = p
      <3>1. /\ users' \in Store(toAdd[t])
            /\ table' = With(table, toAdd[t])
            /\ toAdd[t] \in SUBSET Passage
        BY <2>1, <2>4 DEF JAddPassages, AddPassages, TypeOK
      <3>2. IF UuidOf[p] \in Uuids(toAdd[t])
               THEN users'[UuidOf[p]] \in toAdd[t] /\ UuidOf[users'[UuidOf[p]]] = UuidOf[p]
               ELSE users'[UuidOf[p]] = users[UuidOf[p]]
        BY <2>1, <3>1, StoreFacts
      <3>3. CASE p \in toAdd[t]
        <4>1. UuidOf[p] \in Uuids(toAdd[t])
          BY <3>3 DEF Uuids
        <4> QED
          BY <3>1, <3>2, <4>1
      <3>4. CASE p \notin toAdd[t]
        <4>1. UuidOf[p] \notin Uuids(toAdd[t])
          BY <3>1, <3>4 DEF Uuids
        <4>2. p \in Members(table)
          BY <3>1, <3>4 DEF With, Members
        <4> QED
          BY <1>2, <3>2, <4>1, <4>2 DEF UnsharedClientsLoad
      <3> QED
        BY <3>3, <3>4
    <2> QED
      BY <1>2, <2>2, <2>3, <2>4 DEF JNext, JStartSync, StartSync, jvars, vars
  <1> QED
    BY <1>1, <1>2, JSpecJIInv, PTL DEF JSpec

(* The juicity server's syncs are syncs of the table: each of its critical  *)
(* sections does to the table what PassageSync says, and the map of clients *)
(* next to it lets nothing else happen.                                     *)
THEOREM JuicityImplementsTable == JSpec => Spec
  <1>1. JInit => Init
    BY DEF JInit
  <1>2. [JNext]_jvars => [Next]_vars
    <2>1. ASSUME NEW t \in Syncers, NEW L \in Lists, JStartSync(t, L)
          PROVE  Next
      BY <2>1 DEF JStartSync, Next, Step
    <2>2. ASSUME NEW t \in Syncers, JRemovePassages(t)
          PROVE  Next
      BY <2>2 DEF JRemovePassages, Next, Step
    <2>3. ASSUME NEW t \in Syncers, JAddPassages(t)
          PROVE  Next
      BY <2>3 DEF JAddPassages, Next, Step
    <2> QED
      BY <2>1, <2>2, <2>3 DEF JNext, jvars
  <1> QED
    BY <1>1, <1>2, PTL DEF JSpec, Spec

(* Hence what holds of every table holds of the juicity server's: one entry *)
(* of the manager, no clients that no list names, agreement of syncs that   *)
(* agree, and no removal of what a list names.                              *)
THEOREM JuicityTableCorrect ==
    JSpec => /\ []ManagerKept
             /\ []NoStrays
             /\ []AgreedListReached
             /\ RemovesOnlyUnlisted
  BY JuicityImplementsTable, ManagerAlwaysKept, NoClientLingers, AgreementReached,
     OnlyUnlistedRemoved

(* A client that stands in the table while the map has forgotten it, and no *)
(* sync under way that changes that.                                        *)
LockedOut(p) ==
    /\ p \in Members(table) /\ users[UuidOf[p]] = NoUser
    /\ \A t \in Syncers : pc[t] # "idle" =>
           p \in list[t] /\ p \notin toRemove[t] /\ \A q \in toAdd[t] : UuidOf[q] # UuidOf[p]

StartsWithout(p) == \E t \in Syncers : pc[t] = "idle" /\ pc'[t] = "remove" /\ p \notin list'[t]

(* The clients whose In.Argument is their own and whose identifier no list  *)
(* names twice.                                                             *)
NamedOnce ==
    {p \in Unshared : \A L \in Lists : p \in L => \A q \in L : UuidOf[q] = UuidOf[p] => q = p}

(* Lists that go on naming the client do not cure it: Change finds it in    *)
(* the table and has nothing to add.  Only a list that leaves it out starts *)
(* a sync that can end the lockout.                                         *)
LockoutLasts ==
    [][\A p \in NamedOnce : LockedOut(p) => LockedOut(p)' \/ StartsWithout(p)]_jvars

LEMMA LockoutStep ==
    ASSUME JIInv, [JNext]_jvars, NEW p \in NamedOnce, LockedOut(p), ~StartsWithout(p)
    PROVE  LockedOut(p)'
  <1> USE DEF LockedOut
  <1>1. /\ p \in Passage /\ UuidOf[p] \in Uuid /\ TypeOK /\ UsersTypeOK
        /\ \A q \in Passage : InHash[q] = InHash[p] => q = p
    BY UuidAssumption DEF NamedOnce, Unshared, JIInv, IInv
  <1>2. CASE UNCHANGED jvars
    BY <1>2 DEF jvars, vars, syncVars, Members
  <1>3. ASSUME NEW t \in Syncers, NEW L \in Lists, JStartSync(t, L)
        PROVE  LockedOut(p)'
    <2>1. /\ UNCHANGED <<table, users>> /\ pc[t] = "idle" /\ pc'[t] = "remove" /\ list'[t] = L
          /\ toRemove'[t] = Members(table) \ L /\ toAdd'[t] = L \ Members(table)
          /\ \A s \in Syncers \ {t} : pc'[s] = pc[s] /\ list'[s] = list[s]
                 /\ toRemove'[s] = toRemove[s] /\ toAdd'[s] = toAdd[s]
      BY <1>1, <1>3 DEF JStartSync, StartSync, Surplus, Missing, TypeOK
    <2>2. p \in L
      BY <2>1 DEF StartsWithout
    <2>3. \A q \in L : UuidOf[q] = UuidOf[p] => q = p
      BY <2>2 DEF NamedOnce
    <2>4. p \in Members(table)'
      BY <2>1 DEF Members
    <2> QED
      BY <2>1, <2>2, <2>3, <2>4
  <1>4. ASSUME NEW t \in Syncers, JRemovePassages(t)
        PROVE  LockedOut(p)'
    <2>1. /\ pc[t] = "remove" /\ p \notin toRemove[t] /\ toRemove[t] \subseteq Passage
          /\ table' = Without(table, toRemove[t])
          /\ users' = Forget({q \in Members(table) : InHash[q] \in RemovedKeys(toRemove[t])})
          /\ UNCHANGED <<list, toRemove, toAdd>>
          /\ \A s \in Syncers : pc'[s] # "idle" => pc[s] # "idle"
      BY <1>1, <1>4 DEF JRemovePassages, RemovePassages, TypeOK
    <2>2. InHash[p] \notin RemovedKeys(toRemove[t])
      BY <1>1, <2>1 DEF RemovedKeys
    <2>3. p \in Members(table)'
      BY <1>1, <2>1, <2>2 DEF Without, Members
    <2>4. users'[UuidOf[p]] = NoUser
      BY <1>1, <2>1 DEF Forget
    <2> QED
      BY <2>1, <2>3, <2>4
  <1>5. ASSUME NEW t \in Syncers, JAddPassages(t)
        PROVE  LockedOut(p)'
    <2>1. /\ pc[t] = "add" /\ \A q \in toAdd[t] : UuidOf[q] # UuidOf[p]
          /\ table' = With(table, toAdd[t]) /\ users' \in Store(toAdd[t])
          /\ toAdd[t] \in SUBSET Passage
          /\ UNCHANGED <<list, toRemove, toAdd>>
          /\ \A s \in Syncers : pc'[s] # "idle" => pc[s] # "idle"
      BY <1>1, <1>5 DEF JAddPassages, AddPassages, TypeOK
    <2>2. p \in Members(table)'
      BY <1>1, <2>1 DEF With, Members, TypeOK
    <2>3. users'[UuidOf[p]] = NoUser
      <3>1. UuidOf[p] \notin Uuids(toAdd[t])
        BY <2>1 DEF Uuids
      <3> QED
        BY <1>1, <2>1, <3>1, StoreFacts
    <2> QED
      BY <2>1, <2>2, <2>3
  <1> QED
    BY <1>2, <1>3, <1>4, <1>5 DEF JNext

(* The lockout the faulty deletion of an identifier causes is not repaired  *)
(* by the next sync: the client stays out for as long as the control server *)
(* wants it in.                                                             *)
THEOREM JuicityLockoutLasts == JSpec => LockoutLasts
  <1>1. JIInv /\ [JNext]_jvars =>
            [\A p \in NamedOnce : LockedOut(p) => LockedOut(p)' \/ StartsWithout(p)]_jvars
    BY LockoutStep
  <1> QED
    BY JSpecJIInv, <1>1, PTL DEF JSpec, LockoutLasts
================================================================================
