------------------------------ MODULE UserAuth ------------------------------
(***************************************************************************)
(* What authentication sees of the passages while syncs change them.        *)
(*                                                                          *)
(* UserContexts with two history variables per handler, which record what   *)
(* AddPassages and RemovePassages had effected while its request ran: a     *)
(* passage is live until the call that removes it returns, and settled from *)
(* the return of the call that adds it to the start of the one that removes *)
(* it.  A handler that keeps a context the pool has dropped in the meantime *)
(* is included.                                                             *)
(***************************************************************************)
EXTENDS UserContexts

VARIABLES
    live,     \* passages that were live at some moment of the request
    settled   \* passages that were settled at every moment of it

avars == <<vars, live, settled>>

(* The call in progress, and the passages it takes out or appends.          *)
Removing == {p \in Passage : \E t \in Syncers :
                 mutex = t /\ phase[t] = "remove" /\ InHash[p] \in Table!RemovedKeys(toRemove[t])}
Adding == {p \in Passage : \E t \in Syncers :
                 mutex = t /\ phase[t] = "add" /\ p \in toAdd[t]}

Live == Table!Members(table) \cup Removing
Settled == Table!Members(table) \ Adding

Idle(h) == hpc[h] = "idle"

AInit ==
    /\ Init
    /\ live = [h \in Handler |-> {}]
    /\ settled = [h \in Handler |-> {}]

(* A request begins when its handler calls GetUserContextOrInsert.          *)
Record ==
    /\ live' = [h \in Handler |->
                   IF Idle(h)' THEN {} ELSE (IF Idle(h) THEN Live ELSE live[h]) \cup Live']
    /\ settled' = [h \in Handler |->
                   IF Idle(h)' THEN {} ELSE (IF Idle(h) THEN Settled ELSE settled[h]) \cap Settled']

ANext == Next /\ Record

ASpec == AInit /\ [][ANext]_avars

------------------------------------------------------------------------------
(* Auth only accepts a passage that had not been completely removed when    *)
(* the request began: once RemovePassages has returned, no later request    *)
(* gets in with what it removed.                                            *)
AcceptedWasLive ==
    \A h \in Handler : hpc[h] = "probe" => copy[h] \subseteq live[h]

(* Auth turns no client away whose passage was there all along: an address  *)
(* whose context is created, refreshed or dropped from the pool meanwhile   *)
(* still finds every passage that no call was adding or removing.           *)
SettledIsFound ==
    \A h \in Handler : hpc[h] = "probe" => settled[h] \subseteq copy[h]
==============================================================================
