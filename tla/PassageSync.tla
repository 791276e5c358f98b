----------------------------- MODULE PassageSync -----------------------------
(***************************************************************************)
(* The passage table of a protocol server and the goroutines that bring it  *)
(* in line with the list the control server (SweetLisa) sends.              *)
(*                                                                          *)
(* server.SyncPassages is three critical sections of the server's mutex:    *)
(* Passages() and common.Change compute a difference, RemovePassages takes  *)
(* the surplus out, AddPassages appends what is missing.  The mutex is free *)
(* between them, and two goroutines run the sequence: the registration loop *)
(* (register) and the connection that carries SweetLisa's SyncPassages      *)
(* message (handleMsg).  Each critical section is one step here; what the   *)
(* sections of shadowsocks and vmess do inside is module UserContexts.      *)
(*                                                                          *)
(* The slice s.passages may hold an entry several times and its order is    *)
(* never relied upon, so the table is a bag.                                *)
(***************************************************************************)
EXTENDS Naturals

CONSTANTS
    Passage,   \* the passages, told apart by In.Argument and Out.Argument
    Manager,   \* the passage of the control server, put there by NewJohn
    Arg,       \* values of In.Argument.Hash()
    InHash,    \* In.Argument.Hash() of each passage
    Lists,     \* the lists of passages the control server may send
    Syncers    \* the goroutines that call SyncPassages

(***************************************************************************)
(* A list names a client once: clients authenticate with In.Argument alone. *)
(* The password of the manager is drawn at random when the server starts.   *)
(***************************************************************************)
ASSUME PassageAssumption ==
    /\ Manager \in Passage
    /\ Syncers # {}
    /\ InHash \in [Passage -> Arg]
    /\ \A p \in Passage \ {Manager} : InHash[p] # InHash[Manager]
    /\ Lists \subseteq SUBSET (Passage \ {Manager})
    /\ \A L \in Lists : \A p, q \in L : InHash[p] = InHash[q] => p = q

VARIABLES
    table,     \* table[p]: how often p stands in s.passages
    pc,        \* what each goroutine does next
    list,      \* the list it was asked for (last)
    toRemove,  \* what Change told it to remove ...
    toAdd      \* ... and to add

syncVars == <<pc, list, toRemove, toAdd>>
vars == <<table, syncVars>>

Members(bag) == {p \in Passage : bag[p] > 0}

(* Faulty variants, here and below, are not used by the specification: each *)
(* is a mistake in the definition that follows which a property must notice.*)
Surplus_Swapped(from, to) == to \ from
Surplus_All(from, to) == from

(* Change keys both sides by In and Out.                                    *)
Surplus(from, to) == from \ to
Missing(from, to) == to \ from

(* RemovePassages compares In.Argument.Hash() only, and skips the manager.  *)
RemovedKeys_AlsoManager(S) == {InHash[p] : p \in S}
RemovedKeys(S) == {InHash[p] : p \in S \ {Manager}}
Without(bag, S) == [p \in Passage |-> IF InHash[p] \in RemovedKeys(S) THEN 0 ELSE bag[p]]
With(bag, S) == [p \in Passage |-> IF p \in S THEN bag[p] + 1 ELSE bag[p]]

OnlyManager == [p \in Passage |-> IF p = Manager THEN 1 ELSE 0]

------------------------------------------------------------------------------
(* NewJohn adds the manager before any other goroutine can see the server.  *)
Init ==
    /\ table = OnlyManager
    /\ pc = [t \in Syncers |-> "idle"]
    /\ list = [t \in Syncers |-> {}]
    /\ toRemove = [t \in Syncers |-> {}]
    /\ toAdd = [t \in Syncers |-> {}]

(* s.Passages() and common.Change.                                          *)
StartSync(t, L) ==
    /\ pc[t] = "idle"
    /\ pc' = [pc EXCEPT ![t] = "remove"]
    /\ list' = [list EXCEPT ![t] = L]
    /\ toRemove' = [toRemove EXCEPT ![t] = Surplus(Members(table), L)]
    /\ toAdd' = [toAdd EXCEPT ![t] = Missing(Members(table), L)]
    /\ UNCHANGED table

(* Faulty: SyncPassages returns when there is no client to remove.          *)
RemovePassages_Early(t) ==
    /\ pc[t] = "remove"
    /\ table' = Without(table, toRemove[t])
    /\ pc' = [pc EXCEPT ![t] = IF RemovedKeys(toRemove[t]) = {} THEN "idle" ELSE "add"]
    /\ UNCHANGED <<list, toRemove, toAdd>>

(* s.RemovePassages(toRemove, false).                                       *)
RemovePassages(t) ==
    /\ pc[t] = "remove"
    /\ table' = Without(table, toRemove[t])
    /\ pc' = [pc EXCEPT ![t] = "add"]
    /\ UNCHANGED <<list, toRemove, toAdd>>

(* s.AddPassages(toAdd).                                                    *)
AddPassages(t) ==
    /\ pc[t] = "add"
    /\ table' = With(table, toAdd[t])
    /\ pc' = [pc EXCEPT ![t] = "idle"]
    /\ UNCHANGED <<list, toRemove, toAdd>>

Step(t) ==
    \/ \E L \in Lists : StartSync(t, L)
    \/ RemovePassages(t)
    \/ AddPassages(t)

Next == \E t \in Syncers : Step(t)

Spec == Init /\ [][Next]_vars

------------------------------------------------------------------------------
TypeOK ==
    /\ table \in [Passage -> Nat]
    /\ pc \in [Syncers -> {"idle", "remove", "add"}]
    /\ list \in [Syncers -> SUBSET (Passage \ {Manager})]
    /\ toRemove \in [Syncers -> SUBSET Passage]
    /\ toAdd \in [Syncers -> SUBSET (Passage \ {Manager})]

(* Whatever lists arrive and however the syncs overlap, the control server  *)
(* keeps exactly one passage to reach this server by: RemovePassages with   *)
(* alsoManager = false skips it and AddPassages never duplicates it.        *)
ManagerKept == table[Manager] = 1

(* A client that no list names any more does not linger: what stands in the *)
(* table is named by the last list of some goroutine, or that goroutine has *)
(* computed that it must go and has not come to RemovePassages yet.         *)
NoStrays ==
    \A p \in Members(table) \ {Manager} :
        \E t \in Syncers :
            \/ p \in list[t]
            \/ pc[t] = "remove" /\ p \in toRemove[t]

(* The passages RemovePassages cannot confuse with another: p is the only   *)
(* one with its In.Argument.Hash().                                         *)
Unshared == {p \in Passage : \A q \in Passage : InHash[q] = InHash[p] => q = p}

(* Once no sync is running and every goroutine was asked for the same list, *)
(* the table holds that list, which is what SyncPassages is for: two syncs  *)
(* that agree cannot leave it wrong.  Passages of one In.Argument that      *)
(* differ in Out are excepted, because the difference tells them apart and  *)
(* RemovePassages does not: a late removal takes both.                      *)
AgreedListReached ==
    \A L \in Lists :
        (\A t \in Syncers : pc[t] = "idle" /\ list[t] = L)
            => Members(table) \cap Unshared = (L \cup {Manager}) \cap Unshared

(* A sync only takes out clients its own list does not name, together with  *)
(* the passages that share their In.Argument.                               *)
RemovesOnlyUnlisted ==
    [][\A p \in Passage :
          table'[p] < table[p] =>
              \E t \in Syncers, q \in Passage \ {Manager} :
                  /\ pc[t] = "remove"
                  /\ InHash[q] = InHash[p]
                  /\ q \notin list[t]]_vars
==============================================================================
