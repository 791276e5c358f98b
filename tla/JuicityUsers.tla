----------------------------- MODULE JuicityUsers -----------------------------
(***************************************************************************)
(* The juicity server keeps, next to its passage table, a sync.Map from     *)
(* client UUID to passage, which handleAuth and handleStream read without   *)
(* the server's mutex.  AddPassages stores and RemovePassages deletes its   *)
(* entries one by one under the mutex; unlike the anytls server, juicity    *)
(* never rebuilds the map from the table.                                   *)
(***************************************************************************)
EXTENDS PassageSync

CONSTANTS
    Uuid,      \* client identifiers (In.Username, and ManagerUuid)
    UuidOf,    \* the identifier of each passage
    NoUser     \* absent from the map

(* In.Username is one of the fields In.Argument.Hash() covers.  Nothing     *)
(* else keeps identifiers apart: LocalizePassages drops the error of        *)
(* uuid.Parse, so names that do not parse get the zero UUID, which is       *)
(* ManagerUuid.                                                             *)
ASSUME UuidAssumption ==
    /\ UuidOf \in [Passage -> Uuid]
    /\ NoUser \notin Passage
    /\ \A p, q \in Passage : InHash[p] = InHash[q] => UuidOf[p] = UuidOf[q]

VARIABLE users   \* users[u]: what users.Load(u) returns

jvars == <<vars, users>>

(* Faulty variants are marked by their names, as in PassageSync.            *)
Uuids(S) == {UuidOf[p] : p \in S}

(* removePassagesFunc deletes the identifier of every entry it takes out,   *)
(* whichever entry the map holds for it.                                    *)
Forget_None(S) == users
Forget(S) == [u \in Uuid |-> IF u \in Uuids(S) THEN NoUser ELSE users[u]]

(* addPassages stores every passage it appends under its identifier; of     *)
(* several with one identifier the last in the list stays.                  *)
LastOf(S) == {f \in [Uuids(S) -> S] : \A u \in Uuids(S) : UuidOf[f[u]] = u}
Store_Present(S) ==
    {[u \in Uuid |-> IF u \in Uuids(S) /\ users[u] # NoUser THEN last[u] ELSE users[u]] :
        last \in LastOf(S)}
Store(S) ==
    {[u \in Uuid |-> IF u \in Uuids(S) THEN last[u] ELSE users[u]] : last \in LastOf(S)}

------------------------------------------------------------------------------
JInit ==
    /\ Init
    /\ users = [u \in Uuid |-> IF u = UuidOf[Manager] THEN Manager ELSE NoUser]

JStartSync(t, L) == StartSync(t, L) /\ UNCHANGED users

JRemovePassages(t) ==
    /\ RemovePassages(t)
    /\ users' = Forget({p \in Members(table) : InHash[p] \in RemovedKeys(toRemove[t])})

JAddPassages(t) ==
    /\ AddPassages(t)
    /\ users' \in Store(toAdd[t])

JNext ==
    \E t \in Syncers :
        \/ \E L \in Lists : JStartSync(t, L)
        \/ JRemovePassages(t)
        \/ JAddPassages(t)

JSpec == JInit /\ [][JNext]_jvars

------------------------------------------------------------------------------
(* Types, of the table too: the map holds passages or nothing.              *)
JTypeOK == TypeOK /\ users \in [Uuid -> Passage \cup {NoUser}]

(* A client taken out of the table is not admitted any more: every passage  *)
(* handleAuth or handleStream can load still stands in the table, under the *)
(* identifier it was loaded by, even when syncs overlap.                    *)
LoadsFromTable ==
    \A u \in Uuid : users[u] # NoUser =>
        users[u] \in Members(table) /\ UuidOf[users[u]] = u

(* handleStream answers "no such user" only for a client the table does not *)
(* have.                                                                    *)
TableClientsLoad ==
    \A p \in Members(table) : users[UuidOf[p]] # NoUser

(* The same of the passages that share their identifier with no other: no   *)
(* overlap of syncs makes juicity forget them, because only their own       *)
(* removal deletes their identifier.                                        *)
UnsharedClientsLoad ==
    \A p \in Members(table) :
        (\A q \in Passage : UuidOf[q] = UuidOf[p] => q = p) => users[UuidOf[p]] = p
===============================================================================
