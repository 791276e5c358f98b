------------------------------- MODULE UdpNat -------------------------------
(***************************************************************************)
(* The UDP side of the shadowsocks server: one goroutine per packet, a NAT  *)
(* mapping from client address to outbound socket, and one relay goroutine  *)
(* per socket for the way back.                                             *)
(*                                                                          *)
(* The first packet of an address inserts a placeholder, dials with the     *)
(* mapping unlocked and then replaces the placeholder by the socket.  A     *)
(* packet that meets a placeholder waits for its channel Establishing to be *)
(* closed; if it then holds no socket, the packet is handled again from the *)
(* start.  UDPConnMapping.Remove closes the channel of a placeholder and    *)
(* the socket of anything else.                                             *)
(*                                                                          *)
(* Every critical section of the mapping's mutex is one step.  A read       *)
(* deadline may expire at any time.  The bloom filter is exact here; its    *)
(* false positives and the salts of replies are left out.                   *)
(***************************************************************************)
EXTENDS Naturals, FiniteSets

CONSTANTS
    Handler,    \* goroutines of handleUDP
    Ident,      \* client addresses
    Packet,     \* packets, each with a salt of its own
    From,       \* the address a packet comes from
    Entry,      \* UDPConn objects
    NoEntry,    \* absent from the mapping
    Relayed     \* addresses whose passage names another server to relay through

ASSUME NatAssumption ==
    /\ Ident # {} /\ Packet # {}
    /\ From \in [Packet -> Ident]
    /\ NoEntry \notin Entry
    /\ Relayed \subseteq Ident

VARIABLES
    nm,           \* UDPConnMapping.nm
    established,  \* entries whose channel Establishing is closed
    sock,         \* PacketConn of each entry: "nil", "open" or "closed"
    relay,        \* its relay goroutine: "none", "running" or "removing"
    laddr,        \* the address that goroutine relays to
    pc,           \* what each handler does next
    packet,       \* the packet it handles
    conn,         \* the entry it works with
    bloom,        \* salts the filter has seen
    sent          \* how often each packet was written to a socket

vars == <<nm, established, sock, relay, laddr, pc, packet, conn, bloom, sent>>

Client(h) == From[packet[h]]

(* UDPConnMapping.Remove(i), as what it leaves of each variable.  Faulty    *)
(* variants, here and below, are mistakes a property must notice.           *)
RemovedNm(i) == [nm EXCEPT ![i] = NoEntry]
Woken_Nobody(i) == established
Woken(i) == IF nm[i] = NoEntry THEN established ELSE established \cup {nm[i]}
Closed_Never(i) == sock
Closed(i) ==
    [e \in Entry |-> IF e = nm[i] /\ e \in established THEN "closed" ELSE sock[e]]

(* An entry nothing refers to can stand for a new one; which one does not   *)
(* matter.                                                                  *)
Unreferenced(e) ==
    /\ \A i \in Ident : nm[i] # e
    /\ \A h \in Handler : conn[h] # e
    /\ relay[e] = "none"
Fresh(e) == Unreferenced(e) /\ e = CHOOSE f \in Entry : Unreferenced(f)

(* The value of a variable whose goroutine has ended.                       *)
AnyIdent == CHOOSE i \in Ident : TRUE
AnyPacket == CHOOSE p \in Packet : TRUE

------------------------------------------------------------------------------
Init ==
    /\ nm = [i \in Ident |-> NoEntry]
    /\ established = {}
    /\ sock = [e \in Entry |-> "nil"]
    /\ relay = [e \in Entry |-> "none"]
    /\ laddr = [e \in Entry |-> AnyIdent]
    /\ pc = [h \in Handler |-> "idle"]
    /\ packet = [h \in Handler |-> AnyPacket]
    /\ conn = [h \in Handler |-> NoEntry]
    /\ bloom = {}
    /\ sent = [p \in Packet |-> 0]

(* ListenUDP starts a goroutine; the network may deliver a packet again.    *)
Receive(h, p) ==
    /\ pc[h] = "idle"
    /\ pc' = [pc EXCEPT ![h] = "auth"]
    /\ packet' = [packet EXCEPT ![h] = p]
    /\ UNCHANGED <<nm, established, sock, relay, laddr, conn, bloom, sent>>

(* authUDP finds no passage.                                                *)
AuthFail(h) ==
    /\ pc[h] = "auth"
    /\ pc' = [pc EXCEPT ![h] = "done"]
    /\ UNCHANGED <<nm, established, sock, relay, laddr, packet, conn, bloom, sent>>

(* bloom.ExistOrAdd says the salt was seen: ErrReplayAttack.                *)
AuthReplay(h) ==
    /\ pc[h] = "auth"
    /\ packet[h] \in bloom
    /\ pc' = [pc EXCEPT ![h] = "replay"]
    /\ UNCHANGED <<nm, established, sock, relay, laddr, packet, conn, bloom, sent>>

(* Faulty: bloom.Exist without Add.                                         *)
AuthOk_Exist(h) ==
    /\ pc[h] = "auth"
    /\ packet[h] \notin bloom
    /\ \E next \in {"lookup", "done"} : pc' = [pc EXCEPT ![h] = next]
    /\ UNCHANGED <<nm, established, sock, relay, laddr, packet, conn, bloom, sent>>

(* The packet is genuine and new; NewMetadata may still refuse it.          *)
AuthOk(h) ==
    /\ pc[h] = "auth"
    /\ packet[h] \notin bloom
    /\ bloom' = bloom \cup {packet[h]}
    /\ \E next \in {"lookup", "done"} : pc' = [pc EXCEPT ![h] = next]
    /\ UNCHANGED <<nm, established, sock, relay, laddr, packet, conn, sent>>

(* nm.Get finds an entry, nm.Insert(connIdent, nil) makes a placeholder.    *)
LookupHit(h) ==
    /\ pc[h] = "lookup"
    /\ nm[Client(h)] # NoEntry
    /\ conn' = [conn EXCEPT ![h] = nm[Client(h)]]
    /\ pc' = [pc EXCEPT ![h] = "wait"]
    /\ UNCHANGED <<nm, established, sock, relay, laddr, packet, bloom, sent>>

(* Faulty: inserts although another packet has inserted since Get.          *)
LookupMiss_Unlocked(h, e) ==
    /\ pc[h] = "lookup"
    /\ Fresh(e)
    /\ nm' = [nm EXCEPT ![Client(h)] = e]
    /\ established' = established \ {e}
    /\ sock' = [sock EXCEPT ![e] = "nil"]
    /\ pc' = [pc EXCEPT ![h] = IF Client(h) \in Relayed THEN "header" ELSE "dial"]
    /\ UNCHANGED <<relay, laddr, packet, conn, bloom, sent>>

LookupMiss(h, e) ==
    /\ pc[h] = "lookup"
    /\ nm[Client(h)] = NoEntry
    /\ Fresh(e)
    /\ nm' = [nm EXCEPT ![Client(h)] = e]
    /\ established' = established \ {e}
    /\ sock' = [sock EXCEPT ![e] = "nil"]
    /\ pc' = [pc EXCEPT ![h] = IF Client(h) \in Relayed THEN "header" ELSE "dial"]
    /\ UNCHANGED <<relay, laddr, packet, conn, bloom, sent>>

(* GetHeader and NewDialer; an error returns and leaves the placeholder.    *)
Header(h) ==
    /\ pc[h] = "header"
    /\ \E next \in {"dial", "done"} : pc' = [pc EXCEPT ![h] = next]
    /\ UNCHANGED <<nm, established, sock, relay, laddr, packet, conn, bloom, sent>>

(* DialContext, with a timeout.                                             *)
Dial(h) ==
    /\ pc[h] = "dial"
    /\ \E next \in {"publish", "undo"} : pc' = [pc EXCEPT ![h] = next]
    /\ UNCHANGED <<nm, established, sock, relay, laddr, packet, conn, bloom, sent>>

(* Faulty: returns the dial error without removing the placeholder.         *)
Undo_Keep(h) ==
    /\ pc[h] = "undo"
    /\ pc' = [pc EXCEPT ![h] = "done"]
    /\ UNCHANGED <<nm, established, sock, relay, laddr, packet, conn, bloom, sent>>

(* A failed dial removes the placeholder.                                   *)
Undo(h) ==
    /\ pc[h] = "undo"
    /\ nm' = RemovedNm(Client(h))
    /\ established' = Woken(Client(h))
    /\ sock' = Closed(Client(h))
    /\ pc' = [pc EXCEPT ![h] = "done"]
    /\ UNCHANGED <<relay, laddr, packet, conn, bloom, sent>>

(* A successful one removes it too, inserts the socket under the same lock  *)
(* and starts the relay.                                                    *)
Publish(h, e) ==
    /\ pc[h] = "publish"
    /\ Fresh(e)
    /\ nm' = [nm EXCEPT ![Client(h)] = e]
    /\ established' = Woken(Client(h)) \cup {e}
    /\ sock' = [Closed(Client(h)) EXCEPT ![e] = "open"]
    /\ relay' = [relay EXCEPT ![e] = "running"]
    /\ laddr' = [laddr EXCEPT ![e] = Client(h)]
    /\ conn' = [conn EXCEPT ![h] = e]
    /\ pc' = [pc EXCEPT ![h] = "write"]
    /\ UNCHANGED <<packet, bloom, sent>>

(* <-conn.Establishing, then PacketConn is looked at: without a socket the  *)
(* function calls itself, and conn stays in the frame that waited.          *)
Wake(h) ==
    /\ pc[h] = "wait"
    /\ conn[h] \in established
    /\ IF sock[conn[h]] = "nil"
          THEN pc' = [pc EXCEPT ![h] = "auth"]
          ELSE pc' = [pc EXCEPT ![h] = "write"]
    /\ UNCHANGED <<nm, established, sock, relay, laddr, packet, conn, bloom, sent>>

(* SetReadDeadline, and in handleUDP WriteTo, which an unresolvable target  *)
(* or a socket closed in the meantime makes fail.                           *)
Write(h) ==
    /\ pc[h] = "write"
    /\ \/ /\ sock[conn[h]] = "open"
          /\ sent' = [sent EXCEPT ![packet[h]] = @ + 1]
       \/ UNCHANGED sent
    /\ pc' = [pc EXCEPT ![h] = "done"]
    /\ UNCHANGED <<nm, established, sock, relay, laddr, packet, conn, bloom>>

(* handleUDP returns.                                                       *)
Return(h) ==
    /\ pc[h] \in {"replay", "done"}
    /\ pc' = [pc EXCEPT ![h] = "idle"]
    /\ conn' = [conn EXCEPT ![h] = NoEntry]
    /\ packet' = [packet EXCEPT ![h] = AnyPacket]
    /\ UNCHANGED <<nm, established, sock, relay, laddr, bloom, sent>>

HandlerStep(h) ==
    \/ AuthFail(h)
    \/ AuthReplay(h)
    \/ AuthOk(h)
    \/ LookupHit(h)
    \/ \E e \in Entry : LookupMiss(h, e)
    \/ Header(h)
    \/ Dial(h)
    \/ Undo(h)
    \/ \E e \in Entry : Publish(h, e)
    \/ Wake(h)
    \/ Write(h)
    \/ Return(h)

(* relay returns: nothing read before the deadline, or a failed write.      *)
RelayEnds(e) ==
    /\ relay[e] = "running"
    /\ relay' = [relay EXCEPT ![e] = "removing"]
    /\ UNCHANGED <<nm, established, sock, laddr, pc, packet, conn, bloom, sent>>

(* ... and its goroutine removes what the mapping has for the address.      *)
RelayRemoves(e) ==
    /\ relay[e] = "removing"
    /\ nm' = RemovedNm(laddr[e])
    /\ established' = Woken(laddr[e])
    /\ sock' = Closed(laddr[e])
    /\ relay' = [relay EXCEPT ![e] = "none"]
    /\ laddr' = [laddr EXCEPT ![e] = AnyIdent]
    /\ UNCHANGED <<pc, packet, conn, bloom, sent>>

Next ==
    \/ \E h \in Handler : (\E p \in Packet : Receive(h, p)) \/ HandlerStep(h)
    \/ \E e \in Entry : RelayEnds(e) \/ RelayRemoves(e)

Spec == Init /\ [][Next]_vars

(* Goroutines keep running, and a dial ends within DialTimeout.             *)
FairSpec == Spec /\ \A h \in Handler : WF_vars(HandlerStep(h))

------------------------------------------------------------------------------
TypeOK ==
    /\ nm \in [Ident -> Entry \cup {NoEntry}]
    /\ established \subseteq Entry
    /\ sock \in [Entry -> {"nil", "open", "closed"}]
    /\ relay \in [Entry -> {"none", "running", "removing"}]
    /\ laddr \in [Entry -> Ident]
    /\ pc \in [Handler -> {"idle", "auth", "lookup", "header", "dial", "publish", "undo",
                           "wait", "write", "replay", "done"}]
    /\ packet \in [Handler -> Packet]
    /\ conn \in [Handler -> Entry \cup {NoEntry}]
    /\ \A h \in Handler : pc[h] \in {"wait", "write"} => conn[h] \in Entry
    /\ bloom \subseteq Packet
    /\ sent \in [Packet -> Nat]

Dialing == {h \in Handler : pc[h] \in {"header", "dial", "publish", "undo"}}
Open == {e \in Entry : sock[e] = "open"}

(* A relay that ends removes and closes its own socket, never one that      *)
(* another packet of the address has put into the mapping since, and a      *)
(* socket without a relay, which nothing would ever close, does not exist.  *)
RelayOwnsSocket ==
    \A e \in Entry :
        /\ relay[e] # "none" => nm[laddr[e]] = e /\ e \in established /\ e \in Open
        /\ e \in Open => relay[e] # "none"

(* However many packets of a client arrive at once, one of them dials, and  *)
(* none while the client has a socket.                                      *)
OneSocketPerClient ==
    /\ \A g, h \in Dialing : Client(g) = Client(h) => g = h
    /\ \A e \in Open : \A h \in Dialing : laddr[e] # Client(h)
    /\ \A e, f \in Open : laddr[e] = laddr[f] => e = f

(* A packet the network delivers again is not relayed again.                *)
SentOnce == \A p \in Packet : sent[p] <= 1

(* An entry that leaves the mapping leaves it with its channel closed: no   *)
(* packet goes on waiting for an entry nobody will finish.                  *)
RemovedIsEstablished ==
    [][\A i \in Ident :
          nm[i] # NoEntry /\ nm'[i] # nm[i] => nm[i] \in established']_vars

(* A packet that waits for the dial of another one does not wait for ever.  *)
WaitEnds == \A h \in Handler : pc[h] = "wait" ~> pc[h] # "wait"

(* ... which is true of the clients this server dials for directly.         *)
DirectWaitEnds ==
    \A h \in Handler : pc[h] = "wait" /\ Client(h) \notin Relayed ~> pc[h] # "wait"

(* The mapping as its clients see it: a client has a socket, or a dial      *)
(* under way, or neither.                                                   *)
Phase ==
    [i \in Ident |-> IF nm[i] = NoEntry THEN "none"
                     ELSE IF sock[nm[i]] = "open" THEN "open" ELSE "pending"]
Dialers == [i \in Ident |-> {h \in Dialing : Client(h) = i}]
Waits(h) == pc[h] = "wait" /\ conn[h] \notin established
Waiters == [i \in Ident |-> {h \in Handler : Waits(h) /\ Client(h) = i}]

(* However packets, dials and ending relays of all clients interleave, the  *)
(* placeholders and channels amount to one dial per client at a time, whose *)
(* end, by a socket or by an error, ends the wait of every packet that met  *)
(* it; and a socket is replaced only after its relay has ended.             *)
Mapping == INSTANCE NatMapping WITH phase <- Phase, dialers <- Dialers, waiters <- Waiters
NatPromise == Mapping!Spec
=============================================================================
