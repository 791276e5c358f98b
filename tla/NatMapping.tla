----------------------------- MODULE NatMapping -----------------------------
(***************************************************************************)
(* What the NAT mapping of shadowsocks promises to the packets of a client: *)
(* one of them dials, the packets that come meanwhile wait, and the end of  *)
(* the dial, whatever it brings, is the end of the wait of all of them.     *)
(*                                                                          *)
(* A dial for a client whose passage names another server may be given up   *)
(* without an end: the code does so when that server's header cannot be     *)
(* had.  Nothing else may happen to a client that dials.                    *)
(***************************************************************************)
CONSTANTS
    Ident,     \* client addresses
    Handler,   \* goroutines that handle packets
    Relayed    \* addresses whose dial may be given up

VARIABLES
    phase,     \* of each client: "none", "pending" (somebody dials), "open"
    dialers,   \* the handlers that dial for it
    waiters    \* the handlers that wait for the end of its dial

natvars == <<phase, dialers, waiters>>

Init ==
    /\ phase = [i \in Ident |-> "none"]
    /\ dialers = [i \in Ident |-> {}]
    /\ waiters = [i \in Ident |-> {}]

Begin(i, h) ==
    /\ phase[i] = "none"
    /\ phase' = [phase EXCEPT ![i] = "pending"]
    /\ dialers' = [dialers EXCEPT ![i] = {h}]
    /\ UNCHANGED waiters

Await(i, h) ==
    /\ phase[i] = "pending" /\ h \notin dialers[i]
    /\ waiters' = [waiters EXCEPT ![i] = @ \cup {h}]
    /\ UNCHANGED <<phase, dialers>>

(* The dialler ends the dial and wakes everyone in one step.                *)
Finish(i, outcome) ==
    /\ phase[i] = "pending" /\ dialers[i] # {}
    /\ phase' = [phase EXCEPT ![i] = outcome]
    /\ dialers' = [dialers EXCEPT ![i] = {}]
    /\ waiters' = [waiters EXCEPT ![i] = {}]

GiveUp(i) ==
    /\ i \in Relayed /\ dialers[i] # {}
    /\ dialers' = [dialers EXCEPT ![i] = {}]
    /\ UNCHANGED <<phase, waiters>>

(* The relay of the socket ends.                                            *)
Expire(i) ==
    /\ phase[i] = "open"
    /\ phase' = [phase EXCEPT ![i] = "none"]
    /\ UNCHANGED <<dialers, waiters>>

Next ==
    \E i \in Ident :
        \/ \E h \in Handler : Begin(i, h) \/ Await(i, h)
        \/ \E outcome \in {"none", "open"} : Finish(i, outcome)
        \/ GiveUp(i)
        \/ Expire(i)

Spec == Init /\ [][Next]_natvars
=============================================================================
