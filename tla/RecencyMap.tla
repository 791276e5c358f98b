------------------------------ MODULE RecencyMap ------------------------------
(***************************************************************************)
(* What package infra/lru promises: a map that forgets.  Its entries stand  *)
(* in the order of their last use; an entry that is used goes to the front, *)
(* and when a new one comes the map drops what has not been used for Limit  *)
(* (FixedTimeout), or the last one when it holds more than Limit            *)
(* (FixedLength).                                                           *)
(***************************************************************************)
EXTENDS Naturals, Sequences

CONSTANTS Key, Limit, MaxTime

VARIABLES
    recent,   \* the entries: records of a key and the time of its last use
    strategy,
    time

rvars == <<recent, strategy, time>>

Keys == {recent[i].key : i \in 1..Len(recent)}
Entry(k) == [key |-> k, at |-> time]

Init ==
    /\ recent = <<>>
    /\ strategy \in {"FixedLength", "FixedTimeout"}
    /\ time = 0

(* Get, or GetOrInsert of a key that is there.                              *)
Use(k) ==
    /\ \E i \in 1..Len(recent) :
          /\ recent[i].key = k
          /\ recent' = <<Entry(k)>> \o (SubSeq(recent, 1, i - 1) \o SubSeq(recent, i + 1, Len(recent)))
    /\ UNCHANGED <<strategy, time>>

(* GetOrInsert of a new key: what stays are the first m entries.            *)
Add(k) ==
    /\ k \notin Keys
    /\ LET more == <<Entry(k)>> \o recent
       IN  \E m \in 0..Len(more) :
             /\ recent' = SubSeq(more, 1, m)
             /\ IF strategy = "FixedTimeout"
                   THEN \A i \in 1..Len(more) : i <= m <=> time - more[i].at < Limit
                   ELSE m = IF Len(more) > Limit THEN Len(more) - 1 ELSE Len(more)
    /\ UNCHANGED <<strategy, time>>

Tick ==
    /\ time < MaxTime
    /\ time' = time + 1
    /\ UNCHANGED <<recent, strategy>>

Next == Tick \/ \E k \in Key : Use(k) \/ Add(k)

Spec == Init /\ [][Next]_rvars
===============================================================================
