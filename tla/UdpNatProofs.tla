---------------------------- MODULE UdpNatProofs ----------------------------
(***************************************************************************)
(* Safety of UdpNat for any number of clients, packets and goroutines.      *)
(*                                                                          *)
(* The argument has two independent parts.  Mapping: the placeholder of a   *)
(* dialling handler stays in the mapping until that handler replaces it,    *)
(* and the socket of a relay until that relay removes it, because entries   *)
(* are inserted only where there is none (LookupMiss) or by the owner of    *)
(* the placeholder (Publish).  Sending: a packet that passed the filter is  *)
(* in the filter, so no second goroutine passes with it.                    *)
(***************************************************************************)
EXTENDS UdpNat, TLAPS

(* A dialling handler has its placeholder in the mapping.                   *)
PlaceholderHeld ==
    \A h \in Dialing : nm[Client(h)] \in Entry /\ nm[Client(h)] \notin established

(* An entry is in the mapping for one address.                              *)
EntriesDistinct ==
    \A i, j \in Ident : nm[i] = nm[j] /\ nm[i] # NoEntry => i = j

MapInv ==
    /\ TypeOK
    /\ PlaceholderHeld
    /\ EntriesDistinct
    /\ RelayOwnsSocket
    /\ \A g, h \in Dialing : Client(g) = Client(h) => g = h

(* A handler whose packet is past the filter.                               *)
Passed == {h \in Handler : pc[h] \in {"lookup", "header", "dial", "publish", "undo",
                                      "wait", "write"}}

SendInv ==
    /\ \A h \in Passed : packet[h] \in bloom /\ sent[packet[h]] = 0
    /\ \A g, h \in Passed : packet[g] = packet[h] => g = h
    /\ \A p \in Packet : sent[p] \in {0, 1} /\ (sent[p] = 1 => p \in bloom)

(* The address of a packet is an address.                                   *)
LEMMA ClientType == ASSUME TypeOK, NEW h \in Handler PROVE Client(h) \in Ident
  BY NatAssumption DEF TypeOK, Client

(* So are the values of variables without a goroutine.                      *)
LEMMA AnyType == AnyIdent \in Ident /\ AnyPacket \in Packet
  BY NatAssumption DEF AnyIdent, AnyPacket

------------------------------------------------------------------------------
(* Every variable of the NAT keeps its type, whatever the constants are.    *)
THEOREM TypeCorrect == Spec => []TypeOK
<1>1. Init => TypeOK
  BY NatAssumption, AnyType DEF Init, TypeOK
<1>2. TypeOK /\ [Next]_vars => TypeOK'
  <2> SUFFICES ASSUME TypeOK, [Next]_vars PROVE TypeOK'
    OBVIOUS
  <2> USE DEF TypeOK
  <2>1. CASE UNCHANGED vars
    BY <2>1 DEF vars
  <2>2. ASSUME NEW h \in Handler, NEW p \in Packet, Receive(h, p) PROVE TypeOK'
    BY <2>2 DEF Receive
  <2>3. ASSUME NEW h \in Handler, HandlerStep(h) PROVE TypeOK'
    <3>0. Client(h) \in Ident
      BY ClientType
    <3>1. CASE AuthFail(h)
      BY <3>1 DEF AuthFail
    <3>2. CASE AuthReplay(h)
      BY <3>2 DEF AuthReplay
    <3>3. CASE AuthOk(h)
      BY <3>3 DEF AuthOk
    <3>4. CASE LookupHit(h)
      BY <3>4, <3>0 DEF LookupHit
    <3>5. ASSUME NEW e \in Entry, LookupMiss(h, e) PROVE TypeOK'
      BY <3>5, <3>0 DEF LookupMiss
    <3>6. CASE Header(h)
      BY <3>6 DEF Header
    <3>7. CASE Dial(h)
      BY <3>7 DEF Dial
    <3>8. CASE Undo(h)
      BY <3>8, <3>0 DEF Undo, RemovedNm, Woken, Closed
    <3>9. ASSUME NEW e \in Entry, Publish(h, e) PROVE TypeOK'
      BY <3>9, <3>0 DEF Publish, Woken, Closed
    <3>10. CASE Wake(h)
      BY <3>10 DEF Wake
    <3>11. CASE Write(h)
      BY <3>11 DEF Write
    <3>12. CASE Return(h)
      BY <3>12, AnyType DEF Return
    <3> QED
      BY <2>3, <3>1, <3>2, <3>3, <3>4, <3>5, <3>6, <3>7, <3>8, <3>9, <3>10, <3>11, <3>12
      DEF HandlerStep
  <2>4. ASSUME NEW e \in Entry, RelayEnds(e) PROVE TypeOK'
    BY <2>4 DEF RelayEnds
  <2>5. ASSUME NEW e \in Entry, RelayRemoves(e) PROVE TypeOK'
    BY <2>5, AnyType DEF RelayRemoves, RemovedNm, Woken, Closed
  <2> QED
    BY <2>1, <2>2, <2>3, <2>4, <2>5 DEF Next
<1> QED
  BY <1>1, <1>2, PTL DEF Spec

------------------------------------------------------------------------------
(* Steps that leave the mapping, the sockets and the dialling handlers with *)
(* their clients as they are, or move a handler out of Dialing.             *)
LEMMA QuietStep ==
    ASSUME MapInv, TypeOK',
           UNCHANGED <<nm, established, sock, laddr>>,
           \A e \in Entry : relay[e] # "none" <=> relay'[e] # "none",
           \A h \in Dialing' : h \in Dialing /\ packet'[h] = packet[h]
    PROVE  MapInv'
  <1> USE DEF MapInv, Client
  <1>1. PlaceholderHeld'
    BY DEF PlaceholderHeld
  <1>2. EntriesDistinct'
    BY DEF EntriesDistinct
  <1>3. RelayOwnsSocket'
    BY DEF RelayOwnsSocket, Open
  <1>4. (\A g, h \in Dialing : Client(g) = Client(h) => g = h)'
    OBVIOUS
  <1> QED
    BY <1>1, <1>2, <1>3, <1>4

(* A placeholder goes where there was no entry: nobody dials for that       *)
(* address and no relay has a socket there.                                 *)
LEMMA MissKeepsMap ==
    ASSUME MapInv, TypeOK', NEW h \in Handler, NEW e \in Entry, LookupMiss(h, e)
    PROVE  MapInv'
  <1> USE NatAssumption DEF MapInv, Client
  <1>0. Client(h) \in Ident
    BY ClientType
  <1>1. /\ packet' = packet
        /\ Dialing' = Dialing \cup {h}
        /\ h \notin Dialing
    BY DEF LookupMiss, Dialing, TypeOK
  <1>2. /\ nm' = [nm EXCEPT ![Client(h)] = e]
        /\ established' = established \ {e}
        /\ sock' = [sock EXCEPT ![e] = "nil"]
        /\ UNCHANGED <<relay, laddr>>
        /\ nm[Client(h)] = NoEntry
        /\ \A i \in Ident : nm[i] # e
        /\ relay[e] = "none"
    BY DEF LookupMiss, Fresh, Unreferenced
  <1>3. \A g \in Dialing : Client(g) \in Ident /\ Client(g) # Client(h)
    BY <1>2, ClientType DEF PlaceholderHeld, Dialing
  <1>4. PlaceholderHeld'
    BY <1>0, <1>1, <1>2, <1>3 DEF PlaceholderHeld, TypeOK
  <1>5. EntriesDistinct'
    BY <1>0, <1>2 DEF EntriesDistinct, TypeOK
  <1>6. RelayOwnsSocket'
    BY <1>0, <1>2 DEF RelayOwnsSocket, Open, TypeOK
  <1>7. (\A g, k \in Dialing : Client(g) = Client(k) => g = k)'
    BY <1>1, <1>3
  <1> QED
    BY <1>4, <1>5, <1>6, <1>7

(* The placeholder a failed dial removes is its own and holds no socket.    *)
LEMMA UndoKeepsMap ==
    ASSUME MapInv, TypeOK', NEW h \in Handler, Undo(h)
    PROVE  MapInv'
  <1> USE NatAssumption DEF MapInv, Client
  <1>0. Client(h) \in Ident
    BY ClientType
  <1>1. /\ packet' = packet
        /\ Dialing' = Dialing \ {h}
        /\ h \in Dialing
    BY DEF Undo, Dialing, TypeOK
  <1>2. nm[Client(h)] \in Entry /\ nm[Client(h)] \notin established
    BY <1>1 DEF PlaceholderHeld
  <1>3. /\ nm' = [nm EXCEPT ![Client(h)] = NoEntry]
        /\ established' = established \cup {nm[Client(h)]}
        /\ sock' = sock
        /\ UNCHANGED <<relay, laddr>>
    BY <1>2 DEF Undo, RemovedNm, Woken, Closed, TypeOK
  <1>4. \A g \in Dialing \ {h} :
            Client(g) \in Ident /\ Client(g) # Client(h) /\ nm[Client(g)] # nm[Client(h)]
    BY <1>0, <1>1, <1>2, ClientType DEF EntriesDistinct, Dialing
  <1>5. PlaceholderHeld'
    BY <1>0, <1>1, <1>3, <1>4 DEF PlaceholderHeld, TypeOK
  <1>6. EntriesDistinct'
    BY <1>0, <1>3 DEF EntriesDistinct, TypeOK
  <1>7. RelayOwnsSocket'
    BY <1>0, <1>2, <1>3 DEF RelayOwnsSocket, Open, TypeOK
  <1>8. (\A g, k \in Dialing : Client(g) = Client(k) => g = k)'
    BY <1>1
  <1> QED
    BY <1>5, <1>6, <1>7, <1>8

(* A successful dial puts its socket where its placeholder was.             *)
LEMMA PublishKeepsMap ==
    ASSUME MapInv, TypeOK', NEW h \in Handler, NEW e \in Entry, Publish(h, e)
    PROVE  MapInv'
  <1> USE NatAssumption DEF MapInv, Client
  <1>0. Client(h) \in Ident
    BY ClientType
  <1>1. /\ packet' = packet
        /\ Dialing' = Dialing \ {h}
        /\ h \in Dialing
    BY DEF Publish, Dialing, TypeOK
  <1>2. nm[Client(h)] \in Entry /\ nm[Client(h)] \notin established
    BY <1>1 DEF PlaceholderHeld
  <1>3. /\ nm' = [nm EXCEPT ![Client(h)] = e]
        /\ established' = established \cup {nm[Client(h)], e}
        /\ sock' = [sock EXCEPT ![e] = "open"]
        /\ relay' = [relay EXCEPT ![e] = "running"]
        /\ laddr' = [laddr EXCEPT ![e] = Client(h)]
        /\ \A i \in Ident : nm[i] # e
        /\ relay[e] = "none"
    <2>1. Closed(From[packet[h]]) = sock
      BY <1>2 DEF Closed, TypeOK
    <2>2. Woken(From[packet[h]]) = established \cup {nm[From[packet[h]]]}
      BY <1>2 DEF Woken
    <2> QED
      BY <2>1, <2>2 DEF Publish, Fresh, Unreferenced
  <1>4. \A g \in Dialing \ {h} :
            Client(g) \in Ident /\ Client(g) # Client(h) /\ nm[Client(g)] # nm[Client(h)]
    BY <1>0, <1>1, <1>2, ClientType DEF EntriesDistinct, Dialing
  <1>5. PlaceholderHeld'
    BY <1>0, <1>1, <1>3, <1>4 DEF PlaceholderHeld, TypeOK
  <1>6. EntriesDistinct'
    BY <1>0, <1>3 DEF EntriesDistinct, TypeOK
  <1>7. RelayOwnsSocket'
    BY <1>0, <1>2, <1>3 DEF RelayOwnsSocket, Open, TypeOK
  <1>8. (\A g, k \in Dialing : Client(g) = Client(k) => g = k)'
    BY <1>1
  <1> QED
    BY <1>5, <1>6, <1>7, <1>8

(* What a relay removes is its own entry, with its own socket.              *)
LEMMA RelayRemovesKeepsMap ==
    ASSUME MapInv, TypeOK', NEW e \in Entry, RelayRemoves(e)
    PROVE  MapInv'
  <1> USE NatAssumption DEF MapInv, Client
  <1>1. /\ packet' = packet
        /\ Dialing' = Dialing
    BY DEF RelayRemoves, Dialing
  <1>2. /\ nm[laddr[e]] = e
        /\ e \in established
        /\ laddr[e] \in Ident
    BY DEF RelayOwnsSocket, RelayRemoves, TypeOK
  <1>3. /\ nm' = [nm EXCEPT ![laddr[e]] = NoEntry]
        /\ established' = established
        /\ sock' = [sock EXCEPT ![e] = "closed"]
        /\ relay' = [relay EXCEPT ![e] = "none"]
        /\ laddr' = [laddr EXCEPT ![e] = AnyIdent]
    <2>1. Closed(laddr[e]) = [sock EXCEPT ![e] = "closed"]
      <3>1. sock = [f \in Entry |-> sock[f]]
        BY DEF TypeOK
      <3>2. Closed(laddr[e]) = [f \in Entry |-> IF f = e THEN "closed" ELSE sock[f]]
        BY <1>2 DEF Closed
      <3> QED
        BY ONLY <3>1, <3>2
    <2>2. Woken(laddr[e]) = established
      BY <1>2 DEF Woken, TypeOK
    <2> QED
      BY <2>1, <2>2 DEF RelayRemoves, RemovedNm
  <1>4. \A g \in Dialing : Client(g) \in Ident /\ Client(g) # laddr[e]
    BY <1>2, ClientType DEF PlaceholderHeld, Dialing
  <1>5. PlaceholderHeld'
    BY <1>1, <1>2, <1>3, <1>4 DEF PlaceholderHeld, TypeOK
  <1>6. EntriesDistinct'
    BY <1>2, <1>3 DEF EntriesDistinct, TypeOK
  <1>7. RelayOwnsSocket'
    BY <1>2, <1>3 DEF RelayOwnsSocket, Open, TypeOK
  <1>8. (\A g, k \in Dialing : Client(g) = Client(k) => g = k)'
    BY <1>1
  <1> QED
    BY <1>5, <1>6, <1>7, <1>8

LEMMA MapInvariant == Spec => []MapInv
<1>1. Init => MapInv
  <2> SUFFICES ASSUME Init PROVE MapInv
    OBVIOUS
  <2>1. TypeOK
    BY NatAssumption, AnyType DEF Init, TypeOK
  <2>2. Dialing = {} /\ Open = {}
    BY DEF Init, Dialing, Open
  <2> QED
    BY <2>1, <2>2 DEF Init, MapInv, PlaceholderHeld, EntriesDistinct, RelayOwnsSocket
<1>2. MapInv /\ TypeOK' /\ [Next]_vars => MapInv'
  <2> SUFFICES ASSUME MapInv, TypeOK', [Next]_vars PROVE MapInv'
    OBVIOUS
  <2>0. TypeOK
    BY DEF MapInv
  <2>1. CASE UNCHANGED vars
    BY <2>1, QuietStep DEF vars, Dialing, Client
  <2>2. ASSUME NEW h \in Handler, NEW p \in Packet, Receive(h, p) PROVE MapInv'
    BY <2>2, <2>0, QuietStep DEF Receive, Dialing, Client, TypeOK
  <2>3. ASSUME NEW h \in Handler, HandlerStep(h) PROVE MapInv'
    <3>1. CASE AuthFail(h)
      BY <3>1, <2>0, QuietStep DEF AuthFail, Dialing, Client, TypeOK
    <3>2. CASE AuthReplay(h)
      BY <3>2, <2>0, QuietStep DEF AuthReplay, Dialing, Client, TypeOK
    <3>3. CASE AuthOk(h)
      BY <3>3, <2>0, QuietStep DEF AuthOk, Dialing, Client, TypeOK
    <3>4. CASE LookupHit(h)
      BY <3>4, <2>0, QuietStep DEF LookupHit, Dialing, Client, TypeOK
    <3>5. ASSUME NEW e \in Entry, LookupMiss(h, e) PROVE MapInv'
      BY <3>5, MissKeepsMap
    <3>6. CASE Header(h)
      BY <3>6, <2>0, QuietStep DEF Header, Dialing, Client, TypeOK
    <3>7. CASE Dial(h)
      BY <3>7, <2>0, QuietStep DEF Dial, Dialing, Client, TypeOK
    <3>8. CASE Undo(h)
      BY <3>8, UndoKeepsMap
    <3>9. ASSUME NEW e \in Entry, Publish(h, e) PROVE MapInv'
      BY <3>9, PublishKeepsMap
    <3>10. CASE Wake(h)
      BY <3>10, <2>0, QuietStep DEF Wake, Dialing, Client, TypeOK
    <3>11. CASE Write(h)
      BY <3>11, <2>0, QuietStep DEF Write, Dialing, Client, TypeOK
    <3>12. CASE Return(h)
      BY <3>12, <2>0, QuietStep DEF Return, Dialing, Client, TypeOK
    <3> QED
      BY <2>3, <3>1, <3>2, <3>3, <3>4, <3>5, <3>6, <3>7, <3>8, <3>9, <3>10, <3>11, <3>12
      DEF HandlerStep
  <2>4. ASSUME NEW e \in Entry, RelayEnds(e) PROVE MapInv'
    BY <2>4, <2>0, QuietStep DEF RelayEnds, Dialing, Client, TypeOK
  <2>5. ASSUME NEW e \in Entry, RelayRemoves(e) PROVE MapInv'
    BY <2>5, RelayRemovesKeepsMap
  <2> QED
    BY <2>1, <2>2, <2>3, <2>4, <2>5 DEF Next
<1> QED
  BY <1>1, <1>2, TypeCorrect, PTL DEF Spec

(* A relay removes and closes its own socket only, and no open socket is    *)
(* without a relay.                                                         *)
THEOREM RelaysOwnTheirSockets == Spec => []RelayOwnsSocket
<1>1. MapInv => RelayOwnsSocket
  BY DEF MapInv
<1> QED
  BY <1>1, MapInvariant, PTL

(* A client never has two sockets, nor a socket and a dial, nor two dials.  *)
THEOREM ClientsHaveOneSocket == Spec => []OneSocketPerClient
<1>1. MapInv => OneSocketPerClient
  <2> SUFFICES ASSUME MapInv PROVE OneSocketPerClient
    OBVIOUS
  <2> USE DEF MapInv
  <2>1. \A e \in Open : e \in Entry /\ nm[laddr[e]] = e /\ e \in established
    BY DEF RelayOwnsSocket, Open
  <2>2. \A h \in Dialing : nm[Client(h)] \notin established
    BY DEF PlaceholderHeld
  <2> QED
    BY <2>1, <2>2 DEF OneSocketPerClient
<1> QED
  BY <1>1, MapInvariant, PTL

(* Nobody is left waiting for an entry that has gone from the mapping.      *)
THEOREM RemovedEntriesAreEstablished == Spec => RemovedIsEstablished
<1>1. MapInv /\ [Next]_vars =>
          [\A i \in Ident : nm[i] # NoEntry /\ nm'[i] # nm[i] => nm[i] \in established']_vars
  <2> SUFFICES ASSUME MapInv, Next, NEW i \in Ident, nm[i] # NoEntry, nm'[i] # nm[i]
               PROVE  nm[i] \in established'
    OBVIOUS
  <2>0. TypeOK
    BY DEF MapInv
  <2>1. ASSUME NEW h \in Handler, NEW e \in Entry, LookupMiss(h, e)
        PROVE  nm[i] \in established'
    BY <2>1, <2>0, ClientType DEF LookupMiss, TypeOK
  <2>2. ASSUME NEW h \in Handler, Undo(h) PROVE nm[i] \in established'
    BY <2>2, <2>0, ClientType DEF Undo, RemovedNm, Woken, TypeOK
  <2>3. ASSUME NEW h \in Handler, NEW e \in Entry, Publish(h, e)
        PROVE  nm[i] \in established'
    BY <2>3, <2>0, ClientType DEF Publish, Woken, TypeOK
  <2>4. ASSUME NEW e \in Entry, RelayRemoves(e) PROVE nm[i] \in established'
    BY <2>4, <2>0 DEF RelayRemoves, RemovedNm, Woken, TypeOK
  <2> QED
    BY <2>1, <2>2, <2>3, <2>4
    DEF Next, HandlerStep, Receive, AuthFail, AuthReplay, AuthOk, LookupHit, Header, Dial,
        Wake, Write, Return, RelayEnds
<1> QED
  BY <1>1, MapInvariant, PTL DEF Spec, RemovedIsEstablished

------------------------------------------------------------------------------
(* Steps after which no handler is newly past the filter.                   *)
LEMMA QuietSend ==
    ASSUME SendInv, UNCHANGED <<bloom, sent>>,
           \A h \in Passed' : h \in Passed /\ packet'[h] = packet[h]
    PROVE  SendInv'
  BY DEF SendInv

LEMMA SendInvariant == Spec => []SendInv
<1>1. Init => SendInv
  BY DEF Init, SendInv, Passed
<1>2. TypeOK /\ SendInv /\ [Next]_vars => SendInv'
  <2> SUFFICES ASSUME TypeOK, SendInv, [Next]_vars PROVE SendInv'
    OBVIOUS
  <2>1. CASE UNCHANGED vars
    BY <2>1, QuietSend DEF vars, Passed
  <2>2. ASSUME NEW h \in Handler, NEW p \in Packet, Receive(h, p) PROVE SendInv'
    BY <2>2, QuietSend DEF Receive, Passed, TypeOK
  <2>3. ASSUME NEW h \in Handler, HandlerStep(h) PROVE SendInv'
    <3>1. CASE AuthFail(h)
      BY <3>1, QuietSend DEF AuthFail, Passed, TypeOK
    <3>2. CASE AuthReplay(h)
      BY <3>2, QuietSend DEF AuthReplay, Passed, TypeOK
    <3>3. CASE AuthOk(h)
      <4>1. /\ packet[h] \in Packet /\ packet[h] \notin bloom
            /\ bloom' = bloom \cup {packet[h]}
            /\ UNCHANGED <<packet, sent>>
            /\ Passed' \subseteq Passed \cup {h}
        BY <3>3 DEF AuthOk, Passed, TypeOK
      <4>2. sent[packet[h]] = 0 /\ \A g \in Passed : packet[g] # packet[h]
        BY <4>1 DEF SendInv
      <4> QED
        BY <4>1, <4>2 DEF SendInv
    <3>4. CASE LookupHit(h)
      BY <3>4, QuietSend DEF LookupHit, Passed, TypeOK
    <3>5. ASSUME NEW e \in Entry, LookupMiss(h, e) PROVE SendInv'
      BY <3>5, QuietSend DEF LookupMiss, Passed, TypeOK
    <3>6. CASE Header(h)
      BY <3>6, QuietSend DEF Header, Passed, TypeOK
    <3>7. CASE Dial(h)
      BY <3>7, QuietSend DEF Dial, Passed, TypeOK
    <3>8. CASE Undo(h)
      BY <3>8, QuietSend DEF Undo, Passed, TypeOK
    <3>9. ASSUME NEW e \in Entry, Publish(h, e) PROVE SendInv'
      BY <3>9, QuietSend DEF Publish, Passed, TypeOK
    <3>10. CASE Wake(h)
      BY <3>10, QuietSend DEF Wake, Passed, TypeOK
    <3>11. CASE Write(h)
      <4>1. /\ packet[h] \in Packet
            /\ h \in Passed /\ Passed' = Passed \ {h}
            /\ UNCHANGED <<packet, bloom>>
            /\ sent' = sent \/ sent' = [sent EXCEPT ![packet[h]] = @ + 1]
        BY <3>11 DEF Write, Passed, TypeOK
      <4> QED
        BY <4>1 DEF SendInv, TypeOK, Passed
    <3>12. CASE Return(h)
      BY <3>12, QuietSend DEF Return, Passed, TypeOK
    <3> QED
      BY <2>3, <3>1, <3>2, <3>3, <3>4, <3>5, <3>6, <3>7, <3>8, <3>9, <3>10, <3>11, <3>12
      DEF HandlerStep
  <2>4. ASSUME NEW e \in Entry, RelayEnds(e) PROVE SendInv'
    BY <2>4, QuietSend DEF RelayEnds, Passed
  <2>5. ASSUME NEW e \in Entry, RelayRemoves(e) PROVE SendInv'
    BY <2>5, QuietSend DEF RelayRemoves, Passed
  <2> QED
    BY <2>1, <2>2, <2>3, <2>4, <2>5 DEF Next
<1> QED
  BY <1>1, <1>2, TypeCorrect, PTL DEF Spec

(* No packet is relayed twice, however often it is delivered.               *)
THEOREM PacketsSentOnce == Spec => []SentOnce
<1>1. SendInv => SentOnce
  BY DEF SendInv, SentOnce
<1> QED
  BY <1>1, SendInvariant, PTL
------------------------------------------------------------------------------
(* UdpNat implements NatMapping.                                            *)
(*                                                                          *)
(* Whoever waits does so for the entry of his client, or was woken; and an  *)
(* entry in the mapping has its socket once its channel is closed.          *)
WaitInv ==
    \A h \in Handler : pc[h] = "wait" =>
        conn[h] \in established \/ conn[h] = nm[Client(h)]
EntryInv ==
    \A i \in Ident : nm[i] # NoEntry => (sock[nm[i]] = "open" <=> nm[i] \in established)

(* Only who relays through another server fetches its header.               *)
HeaderInv == \A h \in Handler : pc[h] = "header" => Client(h) \in Relayed

NatInv == MapInv /\ WaitInv /\ EntryInv /\ HeaderInv

LEMMA QuietNat ==
    ASSUME WaitInv, EntryInv, UNCHANGED <<nm, established, sock>>,
           \A h \in Handler : pc'[h] = "wait" =>
               \/ pc[h] = "wait" /\ packet'[h] = packet[h] /\ conn'[h] = conn[h]
               \/ packet'[h] = packet[h] /\ conn'[h] = nm[Client(h)]
    PROVE  WaitInv' /\ EntryInv'
<1>1. WaitInv'
  BY DEF WaitInv, Client
<1>2. EntryInv'
  BY DEF EntryInv
<1> QED
  BY <1>1, <1>2

(* A dialling handler's step on its placeholder.                            *)
LEMMA OwnPlaceholder ==
    ASSUME MapInv, NEW h \in Dialing
    PROVE  /\ Client(h) \in Ident
           /\ nm[Client(h)] \in Entry /\ nm[Client(h)] \notin established
           /\ Closed(Client(h)) = sock
           /\ Woken(Client(h)) = established \cup {nm[Client(h)]}
           /\ \A i \in Ident \ {Client(h)} : nm[i] # nm[Client(h)]
           /\ \A g \in Dialing \ {h} : Client(g) # Client(h)
<1>1. Client(h) \in Ident /\ nm[Client(h)] \in Entry /\ nm[Client(h)] \notin established
  BY ClientType DEF MapInv, PlaceholderHeld, Dialing
<1>2. Closed(Client(h)) = sock
  BY <1>1 DEF Closed, MapInv, TypeOK
<1>3. Woken(Client(h)) = established \cup {nm[Client(h)]}
  BY <1>1, NatAssumption DEF Woken
<1>4. \A i \in Ident \ {Client(h)} : nm[i] # nm[Client(h)]
  BY <1>1, NatAssumption DEF MapInv, EntriesDistinct
<1>5. \A g \in Dialing \ {h} : Client(g) # Client(h)
  BY DEF MapInv
<1> QED
  BY <1>1, <1>2, <1>3, <1>4, <1>5

(* A relay's step on its socket.                                            *)
LEMMA OwnSocket ==
    ASSUME MapInv, NEW e \in Entry, relay[e] # "none"
    PROVE  /\ laddr[e] \in Ident /\ nm[laddr[e]] = e /\ e \in established
           /\ sock[e] = "open"
           /\ Closed(laddr[e]) = [sock EXCEPT ![e] = "closed"]
           /\ Woken(laddr[e]) = established
           /\ \A i \in Ident \ {laddr[e]} : nm[i] # e
<1>1. laddr[e] \in Ident /\ nm[laddr[e]] = e /\ e \in established /\ sock[e] = "open"
  BY DEF MapInv, TypeOK, RelayOwnsSocket, Open
<1>2. Closed(laddr[e]) = [sock EXCEPT ![e] = "closed"]
  BY <1>1 DEF Closed, MapInv, TypeOK
<1>3. Woken(laddr[e]) = established
  BY <1>1 DEF Woken
<1>4. \A i \in Ident \ {laddr[e]} : nm[i] # e
  BY <1>1, NatAssumption DEF MapInv, EntriesDistinct
<1> QED
  BY <1>1, <1>2, <1>3, <1>4

LEMMA MissKeepsNat ==
    ASSUME NatInv, NEW h \in Handler, NEW e \in Entry, LookupMiss(h, e)
    PROVE  WaitInv' /\ EntryInv'
<1> USE DEF NatInv, MapInv
<1>0. Client(h) \in Ident
  BY ClientType
<1>1. /\ nm' = [nm EXCEPT ![Client(h)] = e]
      /\ established' = established \ {e}
      /\ sock' = [sock EXCEPT ![e] = "nil"]
      /\ UNCHANGED <<packet, conn>>
      /\ nm[Client(h)] = NoEntry
      /\ \A i \in Ident : nm[i] # e
      /\ \A g \in Handler : conn[g] # e
      /\ \A g \in Handler : pc'[g] = "wait" => pc[g] = "wait"
  BY DEF LookupMiss, Fresh, Unreferenced, TypeOK
<1>2. WaitInv'
  <2> SUFFICES ASSUME NEW g \in Handler, pc'[g] = "wait"
               PROVE  conn[g] \in established' \/ conn[g] = nm'[Client(g)]
    BY <1>1 DEF WaitInv, Client
  <2>1. pc[g] = "wait" /\ conn[g] \in Entry /\ Client(g) \in Ident
    BY <1>1, ClientType DEF TypeOK
  <2>2. conn[g] \in established \/ conn[g] = nm[Client(g)]
    BY <2>1 DEF WaitInv
  <2> QED
    BY <1>0, <1>1, <2>1, <2>2, NatAssumption DEF TypeOK
<1>3. EntryInv'
  BY <1>0, <1>1 DEF EntryInv, TypeOK
<1> QED
  BY <1>2, <1>3

LEMMA UndoKeepsNat ==
    ASSUME NatInv, NEW h \in Handler, Undo(h)
    PROVE  WaitInv' /\ EntryInv'
<1> USE DEF NatInv, MapInv
<1>0. h \in Dialing
  BY DEF Undo, Dialing
<1>1. /\ nm' = [nm EXCEPT ![Client(h)] = NoEntry]
      /\ established' = established \cup {nm[Client(h)]}
      /\ UNCHANGED <<sock, packet, conn>>
      /\ \A g \in Handler : pc'[g] = "wait" => pc[g] = "wait"
  BY <1>0, OwnPlaceholder DEF Undo, RemovedNm, TypeOK
<1>2. WaitInv'
  <2> SUFFICES ASSUME NEW g \in Handler, pc'[g] = "wait"
               PROVE  conn[g] \in established' \/ conn[g] = nm'[Client(g)]
    BY <1>1 DEF WaitInv, Client
  <2>1. pc[g] = "wait" /\ Client(g) \in Ident
    BY <1>1, ClientType
  <2>2. conn[g] \in established \/ conn[g] = nm[Client(g)]
    BY <2>1 DEF WaitInv
  <2> QED
    BY <1>0, <1>1, <2>1, <2>2 DEF TypeOK
<1>3. EntryInv'
  BY <1>0, <1>1, OwnPlaceholder DEF EntryInv, TypeOK
<1> QED
  BY <1>2, <1>3

LEMMA PublishKeepsNat ==
    ASSUME NatInv, NEW h \in Handler, NEW e \in Entry, Publish(h, e)
    PROVE  WaitInv' /\ EntryInv'
<1> USE DEF NatInv, MapInv
<1>0. h \in Dialing /\ h \in Handler
  BY DEF Publish, Dialing
<1>1. /\ nm' = [nm EXCEPT ![Client(h)] = e]
      /\ established' = established \cup {nm[Client(h)], e}
      /\ sock' = [sock EXCEPT ![e] = "open"]
      /\ packet' = packet
      /\ \A i \in Ident : nm[i] # e
      /\ \A g \in Handler : pc'[g] = "wait" => pc[g] = "wait" /\ conn'[g] = conn[g]
  <2>1. /\ established' = Woken(Client(h)) \cup {e}
        /\ sock' = [Closed(Client(h)) EXCEPT ![e] = "open"]
        /\ nm' = [nm EXCEPT ![Client(h)] = e]
        /\ pc' = [pc EXCEPT ![h] = "write"] /\ conn' = [conn EXCEPT ![h] = e]
        /\ packet' = packet /\ pc[h] = "publish"
        /\ \A i \in Ident : nm[i] # e
    BY DEF Publish, Fresh, Unreferenced
  <2>2. Closed(Client(h)) = sock /\ Woken(Client(h)) = established \cup {nm[Client(h)]}
    BY <1>0, OwnPlaceholder
  <2>3. /\ DOMAIN pc = Handler /\ pc' = [pc EXCEPT ![h] = "write"]
        /\ DOMAIN conn = Handler /\ conn' = [conn EXCEPT ![h] = e]
    BY <2>1 DEF TypeOK
  <2>4. \A g \in Handler : g # h => pc'[g] = pc[g] /\ conn'[g] = conn[g]
    BY ONLY <2>3
  <2>5. pc'[h] = "write"
    BY <1>0, <2>3
  <2> QED
    BY ONLY <1>0, <2>1, <2>2, <2>4, <2>5
<1>2. WaitInv'
  <2> SUFFICES ASSUME NEW g \in Handler, pc'[g] = "wait"
               PROVE  conn[g] \in established' \/ conn[g] = nm'[Client(g)]
    BY <1>1 DEF WaitInv, Client
  <2>1. pc[g] = "wait" /\ Client(g) \in Ident
    BY <1>1, ClientType
  <2>2. conn[g] \in established \/ conn[g] = nm[Client(g)]
    BY <2>1 DEF WaitInv
  <2> QED
    BY <1>0, <1>1, <2>1, <2>2 DEF TypeOK
<1>3. EntryInv'
  BY <1>0, <1>1, OwnPlaceholder DEF EntryInv, TypeOK
<1> QED
  BY <1>2, <1>3

LEMMA RelayRemovesKeepsNat ==
    ASSUME NatInv, NEW e \in Entry, RelayRemoves(e)
    PROVE  WaitInv' /\ EntryInv'
<1> USE DEF NatInv, MapInv
<1>0. relay[e] # "none"
  BY DEF RelayRemoves
<1>1. /\ nm' = [nm EXCEPT ![laddr[e]] = NoEntry]
      /\ sock' = [sock EXCEPT ![e] = "closed"]
      /\ UNCHANGED <<established, pc, packet, conn>>
  BY <1>0, OwnSocket DEF RelayRemoves, RemovedNm
<1>2. WaitInv'
  <2> SUFFICES ASSUME NEW g \in Handler, pc[g] = "wait"
               PROVE  conn[g] \in established \/ conn[g] = nm'[Client(g)]
    BY <1>1 DEF WaitInv, Client
  <2>1. Client(g) \in Ident
    BY ClientType
  <2>2. conn[g] \in established \/ conn[g] = nm[Client(g)]
    BY DEF WaitInv
  <2> QED
    BY <1>0, <1>1, <2>1, <2>2, OwnSocket DEF TypeOK
<1>3. EntryInv'
  BY <1>0, <1>1, OwnSocket DEF EntryInv, TypeOK
<1> QED
  BY <1>2, <1>3

(* The other steps of a handler leave the mapping alone, and none of them   *)
(* but LookupHit begins to wait.                                            *)
QuietHandlerStep(h) ==
    \/ AuthFail(h)
    \/ AuthReplay(h)
    \/ AuthOk(h)
    \/ LookupHit(h)
    \/ Header(h)
    \/ Dial(h)
    \/ Wake(h)
    \/ Write(h)
    \/ Return(h)

LEMMA NatInvariant == Spec => []NatInv
<1>1. Init => WaitInv /\ EntryInv
  BY DEF Init, WaitInv, EntryInv
<1>2. NatInv /\ [Next]_vars => WaitInv' /\ EntryInv'
  <2> SUFFICES ASSUME NatInv, [Next]_vars PROVE WaitInv' /\ EntryInv'
    OBVIOUS
  <2> USE DEF NatInv
  <2>0. TypeOK
    BY DEF MapInv
  <2>1. CASE UNCHANGED vars
    BY <2>1, QuietNat DEF vars
  <2>2. ASSUME NEW h \in Handler, NEW p \in Packet, Receive(h, p)
        PROVE  WaitInv' /\ EntryInv'
    BY <2>2, <2>0, QuietNat DEF Receive, TypeOK
  <2>3. ASSUME NEW h \in Handler, QuietHandlerStep(h) PROVE WaitInv' /\ EntryInv'
    <3>1. UNCHANGED <<nm, established, sock>>
      BY <2>3 DEF QuietHandlerStep, AuthFail, AuthReplay, AuthOk, LookupHit, Header, Dial,
                  Wake, Write, Return
    <3>2. \A g \in Handler : pc'[g] = "wait" =>
               \/ pc[g] = "wait" /\ packet'[g] = packet[g] /\ conn'[g] = conn[g]
               \/ packet'[g] = packet[g] /\ conn'[g] = nm[Client(g)]
      BY <2>3, <2>0 DEF QuietHandlerStep, AuthFail, AuthReplay, AuthOk, LookupHit, Header,
                        Dial, Wake, Write, Return, TypeOK
    <3> QED
      BY <3>1, <3>2, QuietNat
  <2>4. ASSUME NEW h \in Handler, HandlerStep(h) PROVE WaitInv' /\ EntryInv'
    BY <2>3, <2>4, MissKeepsNat, UndoKeepsNat, PublishKeepsNat
    DEF HandlerStep, QuietHandlerStep
  <2>5. ASSUME NEW e \in Entry, RelayEnds(e) PROVE WaitInv' /\ EntryInv'
    BY <2>5, <2>0, QuietNat DEF RelayEnds
  <2>6. ASSUME NEW e \in Entry, RelayRemoves(e) PROVE WaitInv' /\ EntryInv'
    BY <2>6, RelayRemovesKeepsNat
  <2> QED
    BY <2>1, <2>2, <2>4, <2>5, <2>6 DEF Next
<1>3. Init => HeaderInv
  BY DEF Init, HeaderInv
<1>4. NatInv /\ [Next]_vars => HeaderInv'
  <2> SUFFICES ASSUME NatInv, [Next]_vars PROVE HeaderInv'
    OBVIOUS
  <2>1. \A g \in Handler : pc'[g] = "header" =>
            packet'[g] = packet[g] /\ (pc[g] = "header" \/ Client(g) \in Relayed)
    BY DEF NatInv, MapInv, TypeOK, Next, HandlerStep, Receive, AuthFail, AuthReplay, AuthOk,
           LookupHit, LookupMiss, Header, Dial, Undo, Publish, Wake, Write, Return,
           RelayEnds, RelayRemoves, vars
  <2> QED
    BY <2>1 DEF NatInv, HeaderInv, Client
<1> QED
  BY <1>1, <1>2, <1>3, <1>4, MapInvariant, PTL DEF Spec, NatInv
(* What a step leaves of the abstract state.                                *)
LEMMA SamePhase ==
    ASSUME UNCHANGED <<nm, sock>> PROVE Phase' = Phase
  BY DEF Phase

LEMMA SameDialers ==
    ASSUME \A g \in Handler : (g \in Dialing' <=> g \in Dialing),
           \A g \in Dialing : packet'[g] = packet[g]
    PROVE  Dialers' = Dialers
<1>1. Dialing' = Dialing
  BY DEF Dialing
<1> QED
  BY <1>1 DEF Dialers, Client

LEMMA SameWaiters ==
    ASSUME \A g \in Handler : (Waits(g)' <=> Waits(g)),
           \A g \in Handler : Waits(g) => packet'[g] = packet[g]
    PROVE  Waiters' = Waiters
<1>1. ASSUME NEW i \in Ident
      PROVE  {g \in Handler : Waits(g) /\ Client(g) = i}'
                 = {g \in Handler : Waits(g) /\ Client(g) = i}
  BY DEF Client
<1> QED
  BY <1>1 DEF Waiters

(* The state of a client in the terms of NatMapping.                        *)
LEMMA Client1 ==
    ASSUME NEW i \in Ident
    PROVE  /\ Phase[i] = IF nm[i] = NoEntry THEN "none"
                         ELSE IF sock[nm[i]] = "open" THEN "open" ELSE "pending"
           /\ Dialers[i] = {h \in Dialing : Client(h) = i}
           /\ Waiters[i] = {h \in Handler : Waits(h) /\ Client(h) = i}
  BY DEF Phase, Dialers, Waiters

(* A step that replaces the entry of one client moves that client alone.    *)
LEMMA PhaseMoves ==
    ASSUME NatInv, NEW i \in Ident, NEW p,
           \A j \in Ident \ {i} : nm'[j] = nm[j] /\ (nm[j] \in Entry => sock'[nm[j]] = sock[nm[j]]),
           p = IF nm'[i] = NoEntry THEN "none"
               ELSE IF sock'[nm'[i]] = "open" THEN "open" ELSE "pending"
    PROVE  Phase' = [Phase EXCEPT ![i] = p]
<1>1. ASSUME NEW j \in Ident, j # i
      PROVE  (IF nm[j] = NoEntry THEN "none"
              ELSE IF sock[nm[j]] = "open" THEN "open" ELSE "pending")'
             = IF nm[j] = NoEntry THEN "none"
               ELSE IF sock[nm[j]] = "open" THEN "open" ELSE "pending"
  <2>1. nm'[j] = nm[j] /\ (nm[j] # NoEntry => sock'[nm[j]] = sock[nm[j]])
    BY <1>1 DEF MapInv, NatInv, TypeOK
  <2> QED
    BY ONLY <2>1
<1>2. Phase' = [j \in Ident |->
                  IF j = i THEN p
                  ELSE IF nm[j] = NoEntry THEN "none"
                       ELSE IF sock[nm[j]] = "open" THEN "open" ELSE "pending"]
  BY <1>1 DEF Phase
<1> QED
  BY <1>2 DEF Phase

LEMMA InitNat == Init => Mapping!Init
<1> SUFFICES ASSUME Init PROVE Mapping!Init
  OBVIOUS
<1>1. Phase = [i \in Ident |-> "none"]
  BY DEF Init, Phase
<1>2. Dialers = [i \in Ident |-> {}]
  BY DEF Init, Dialers, Dialing
<1>3. Waiters = [i \in Ident |-> {}]
  BY DEF Init, Waiters, Waits
<1> QED
  BY <1>1, <1>2, <1>3 DEF Mapping!Init

LEMMA MissBegins ==
    ASSUME NatInv, NEW h \in Handler, NEW e \in Entry, LookupMiss(h, e)
    PROVE  Client(h) \in Ident /\ Mapping!Begin(Client(h), h)
<1> USE DEF NatInv, MapInv
<1>0. Client(h) \in Ident
  BY ClientType
<1>1. /\ nm' = [nm EXCEPT ![Client(h)] = e]
      /\ established' = established \ {e}
      /\ sock' = [sock EXCEPT ![e] = "nil"]
      /\ UNCHANGED <<packet, conn>>
      /\ nm[Client(h)] = NoEntry
      /\ \A i \in Ident : nm[i] # e
      /\ \A g \in Handler : conn[g] # e
      /\ h \notin Dialing /\ Dialing' = Dialing \cup {h}
      /\ \A g \in Handler : pc'[g] = "wait" <=> pc[g] = "wait"
  BY DEF LookupMiss, Fresh, Unreferenced, Dialing, TypeOK
<1>2. Phase[Client(h)] = "none"
  BY <1>0, <1>1, Client1
<1>3. Phase' = [Phase EXCEPT ![Client(h)] = "pending"]
  <2>1. nm'[Client(h)] = e /\ e # NoEntry /\ sock'[e] # "open"
    BY <1>0, <1>1, NatAssumption DEF TypeOK
  <2>2. \A j \in Ident \ {Client(h)} :
            nm'[j] = nm[j] /\ (nm[j] \in Entry => sock'[nm[j]] = sock[nm[j]])
    BY <1>1 DEF TypeOK
  <2> QED
    BY ONLY NatInv, <1>0, <2>1, <2>2, PhaseMoves
<1>4. \A g \in Dialing : Client(g) # Client(h)
  BY <1>1, NatAssumption DEF PlaceholderHeld
<1>5. Dialers' = [Dialers EXCEPT ![Client(h)] = {h}]
  <2>1. \A i \in Ident : {g \in Dialing : Client(g) = i}'
            = IF i = Client(h) THEN {h} ELSE {g \in Dialing : Client(g) = i}
    BY <1>1, <1>4 DEF Client
  <2> QED
    BY <1>0, <2>1 DEF Dialers
<1>6. Waiters' = Waiters
  BY <1>1, SameWaiters DEF Waits
<1> QED
  BY <1>0, <1>2, <1>3, <1>5, <1>6 DEF Mapping!Begin

(* The end of a dial: everyone who waited for it had the placeholder.       *)
LEMMA EndOfDial ==
    ASSUME NatInv, NEW h \in Dialing,
           Dialing' = Dialing \ {h}, packet' = packet,
           established \cup {nm[Client(h)]} \subseteq established',
           \A g \in Handler : pc'[g] = "wait" <=> pc[g] = "wait",
           \A g \in Handler : pc[g] = "wait" => conn'[g] = conn[g],
           \A i \in Ident \ {Client(h)} : nm[i] \in established' => nm[i] \in established
    PROVE  /\ Client(h) \in Ident
           /\ Phase[Client(h)] = "pending" /\ Dialers[Client(h)] # {}
           /\ Dialers' = [Dialers EXCEPT ![Client(h)] = {}]
           /\ Waiters' = [Waiters EXCEPT ![Client(h)] = {}]
<1> USE DEF NatInv, MapInv
<1>1. /\ Client(h) \in Ident /\ nm[Client(h)] \in Entry /\ nm[Client(h)] \notin established
      /\ \A g \in Dialing \ {h} : Client(g) # Client(h)
  BY OwnPlaceholder
<1>2. Phase[Client(h)] = "pending"
  BY <1>1, Client1, NatAssumption DEF EntryInv
<1>3. Dialers[Client(h)] # {}
  BY <1>1, Client1
<1>4. Dialers' = [Dialers EXCEPT ![Client(h)] = {}]
  <2>1. \A i \in Ident : {g \in Dialing : Client(g) = i}'
            = IF i = Client(h) THEN {} ELSE {g \in Dialing : Client(g) = i}
    BY <1>1 DEF Client
  <2> QED
    BY <1>1, <2>1 DEF Dialers
<1>5. Waiters' = [Waiters EXCEPT ![Client(h)] = {}]
  <2>1. ASSUME NEW g \in Handler, Waits(g)'
        PROVE  Waits(g) /\ Client(g) # Client(h)
    <3>1. pc[g] = "wait" /\ conn[g] \notin established /\ conn[g] \notin established'
      BY <2>1 DEF Waits
    <3>2. conn[g] = nm[Client(g)]
      BY <3>1 DEF WaitInv
    <3> QED
      BY <3>1, <3>2 DEF Waits
  <2>2. ASSUME NEW g \in Handler, Waits(g), Client(g) # Client(h)
        PROVE  Waits(g)'
    <3>1. conn[g] = nm[Client(g)] /\ Client(g) \in Ident \ {Client(h)}
      BY <2>2, ClientType DEF WaitInv, Waits
    <3> QED
      BY <2>2, <3>1 DEF Waits
  <2>3. \A i \in Ident : {g \in Handler : Waits(g) /\ Client(g) = i}'
            = IF i = Client(h) THEN {} ELSE {g \in Handler : Waits(g) /\ Client(g) = i}
    BY <2>1, <2>2 DEF Client
  <2> QED
    BY <1>1, <2>3 DEF Waiters
<1> QED
  BY <1>1, <1>2, <1>3, <1>4, <1>5

LEMMA UndoFinishes ==
    ASSUME NatInv, NEW h \in Handler, Undo(h)
    PROVE  Client(h) \in Ident /\ Mapping!Finish(Client(h), "none")
<1> USE DEF NatInv, MapInv
<1>0. h \in Dialing
  BY DEF Undo, Dialing
<1>1. /\ nm' = [nm EXCEPT ![Client(h)] = NoEntry]
      /\ established' = established \cup {nm[Client(h)]}
      /\ UNCHANGED <<sock, packet, conn>>
      /\ Dialing' = Dialing \ {h}
      /\ \A g \in Handler : pc'[g] = "wait" <=> pc[g] = "wait"
  BY <1>0, OwnPlaceholder DEF Undo, RemovedNm, Dialing, TypeOK
<1>2. /\ Client(h) \in Ident
      /\ Phase[Client(h)] = "pending" /\ Dialers[Client(h)] # {}
      /\ Dialers' = [Dialers EXCEPT ![Client(h)] = {}]
      /\ Waiters' = [Waiters EXCEPT ![Client(h)] = {}]
  BY <1>0, <1>1, OwnPlaceholder, EndOfDial
<1>3. Phase' = [Phase EXCEPT ![Client(h)] = "none"]
  <2>1. nm'[Client(h)] = NoEntry
    BY <1>1, <1>2 DEF TypeOK
  <2>2. \A j \in Ident \ {Client(h)} :
            nm'[j] = nm[j] /\ (nm[j] \in Entry => sock'[nm[j]] = sock[nm[j]])
    BY <1>1
  <2> QED
    BY ONLY NatInv, <1>2, <2>1, <2>2, PhaseMoves
<1> QED
  BY <1>2, <1>3 DEF Mapping!Finish

LEMMA PublishFinishes ==
    ASSUME NatInv, NEW h \in Handler, NEW e \in Entry, Publish(h, e)
    PROVE  Client(h) \in Ident /\ Mapping!Finish(Client(h), "open")
<1> USE DEF NatInv, MapInv
<1>0. h \in Dialing
  BY DEF Publish, Dialing
<1>1. /\ nm' = [nm EXCEPT ![Client(h)] = e]
      /\ established' = established \cup {nm[Client(h)], e}
      /\ sock' = [sock EXCEPT ![e] = "open"]
      /\ packet' = packet
      /\ Dialing' = Dialing \ {h}
      /\ \A i \in Ident : nm[i] # e
      /\ \A g \in Handler : pc'[g] = "wait" <=> pc[g] = "wait"
      /\ \A g \in Handler : pc[g] = "wait" => conn'[g] = conn[g]
  <2>1. /\ established' = Woken(Client(h)) \cup {e}
        /\ sock' = [Closed(Client(h)) EXCEPT ![e] = "open"]
        /\ nm' = [nm EXCEPT ![Client(h)] = e]
        /\ pc' = [pc EXCEPT ![h] = "write"] /\ conn' = [conn EXCEPT ![h] = e]
        /\ packet' = packet /\ pc[h] = "publish"
        /\ \A i \in Ident : nm[i] # e
    BY DEF Publish, Fresh, Unreferenced
  <2>2. Closed(Client(h)) = sock /\ Woken(Client(h)) = established \cup {nm[Client(h)]}
    BY <1>0, OwnPlaceholder
  <2>3. /\ DOMAIN pc = Handler /\ pc' = [pc EXCEPT ![h] = "write"]
        /\ DOMAIN conn = Handler /\ conn' = [conn EXCEPT ![h] = e]
    BY <2>1 DEF TypeOK
  <2>4. \A g \in Handler : g # h => pc'[g] = pc[g] /\ conn'[g] = conn[g]
    BY ONLY <2>3
  <2>5. pc'[h] = "write"
    BY <1>0, <2>3
  <2> QED
    <3>1. Dialing' = Dialing \ {h}
      BY <1>0, <2>4, <2>5 DEF Dialing
    <3> QED
      BY ONLY <1>0, <2>1, <2>2, <2>4, <2>5, <3>1
<1>2. /\ Client(h) \in Ident
      /\ Phase[Client(h)] = "pending" /\ Dialers[Client(h)] # {}
      /\ Dialers' = [Dialers EXCEPT ![Client(h)] = {}]
      /\ Waiters' = [Waiters EXCEPT ![Client(h)] = {}]
  BY <1>0, <1>1, OwnPlaceholder, EndOfDial
<1>3. Phase' = [Phase EXCEPT ![Client(h)] = "open"]
  <2>1. nm'[Client(h)] = e /\ e # NoEntry /\ sock'[e] = "open"
    BY <1>1, <1>2, NatAssumption DEF TypeOK
  <2>2. \A j \in Ident \ {Client(h)} :
            nm'[j] = nm[j] /\ (nm[j] \in Entry => sock'[nm[j]] = sock[nm[j]])
    BY <1>1 DEF TypeOK
  <2> QED
    BY ONLY NatInv, <1>2, <2>1, <2>2, PhaseMoves
<1> QED
  BY <1>2, <1>3 DEF Mapping!Finish

LEMMA RelayExpires ==
    ASSUME NatInv, NEW e \in Entry, RelayRemoves(e)
    PROVE  laddr[e] \in Ident /\ Mapping!Expire(laddr[e])
<1> USE DEF NatInv, MapInv
<1>0. relay[e] # "none"
  BY DEF RelayRemoves
<1>1. /\ nm' = [nm EXCEPT ![laddr[e]] = NoEntry]
      /\ sock' = [sock EXCEPT ![e] = "closed"]
      /\ UNCHANGED <<established, pc, packet, conn>>
      /\ laddr[e] \in Ident /\ nm[laddr[e]] = e /\ sock[e] = "open"
      /\ \A i \in Ident \ {laddr[e]} : nm[i] # e
  BY <1>0, OwnSocket DEF RelayRemoves, RemovedNm
<1>2. Phase[laddr[e]] = "open"
  BY <1>1, Client1, NatAssumption
<1>3. Phase' = [Phase EXCEPT ![laddr[e]] = "none"]
  <2>1. nm'[laddr[e]] = NoEntry
    BY <1>1 DEF TypeOK
  <2>2. \A j \in Ident \ {laddr[e]} :
            nm'[j] = nm[j] /\ (nm[j] \in Entry => sock'[nm[j]] = sock[nm[j]])
    BY <1>1 DEF TypeOK
  <2> QED
    BY ONLY NatInv, <1>1, <2>1, <2>2, PhaseMoves
<1>4. Dialers' = Dialers
  BY <1>1, SameDialers DEF Dialing
<1>5. Waiters' = Waiters
  BY <1>1, SameWaiters DEF Waits
<1> QED
  BY <1>1, <1>2, <1>3, <1>4, <1>5 DEF Mapping!Expire

LEMMA HitAwaits ==
    ASSUME NatInv, NEW h \in Handler, LookupHit(h)
    PROVE  \/ UNCHANGED <<Phase, Dialers, Waiters>>
           \/ Client(h) \in Ident /\ Mapping!Await(Client(h), h)
<1> USE DEF NatInv, MapInv
<1>0. Client(h) \in Ident
  BY ClientType
<1>1. /\ UNCHANGED <<nm, sock, established, packet>>
      /\ nm[Client(h)] \in Entry /\ nm[Client(h)] # NoEntry
      /\ conn' = [conn EXCEPT ![h] = nm[Client(h)]]
      /\ pc[h] = "lookup" /\ pc' = [pc EXCEPT ![h] = "wait"]
  BY <1>0, NatAssumption DEF LookupHit, TypeOK
<1>2. Phase' = Phase
  BY <1>1, SamePhase
<1>3. Dialers' = Dialers
  BY <1>1, SameDialers DEF Dialing, TypeOK
<1>4. CASE nm[Client(h)] \in established
  <2>1. Waiters' = Waiters
    BY <1>1, <1>4, SameWaiters DEF Waits, TypeOK
  <2> QED
    BY <1>2, <1>3, <2>1
<1>5. CASE nm[Client(h)] \notin established
  <2>1. Phase[Client(h)] = "pending"
    BY <1>0, <1>1, <1>5, Client1 DEF EntryInv
  <2>2. h \notin Dialers[Client(h)]
    BY <1>0, <1>1, Client1 DEF Dialing
  <2>3. \A i \in Ident : {g \in Handler : Waits(g) /\ Client(g) = i}'
            = IF i = Client(h) THEN {g \in Handler : Waits(g) /\ Client(g) = i} \cup {h}
              ELSE {g \in Handler : Waits(g) /\ Client(g) = i}
    BY <1>1, <1>5 DEF Waits, Client, TypeOK
  <2>4. Waiters' = [Waiters EXCEPT ![Client(h)] = @ \cup {h}]
    BY <1>0, <2>3 DEF Waiters
  <2> QED
    BY <1>0, <1>2, <1>3, <2>1, <2>2, <2>4 DEF Mapping!Await
<1> QED
  BY <1>4, <1>5

LEMMA HeaderGivesUp ==
    ASSUME NatInv, NEW h \in Handler, Header(h)
    PROVE  \/ UNCHANGED <<Phase, Dialers, Waiters>>
           \/ Client(h) \in Ident /\ Mapping!GiveUp(Client(h))
<1> USE DEF NatInv, MapInv
<1>0. h \in Dialing /\ Client(h) \in Relayed
  BY DEF Header, Dialing, HeaderInv
<1>1. /\ UNCHANGED <<nm, sock, established, packet, conn>>
      /\ Client(h) \in Ident
      /\ \A g \in Handler : pc'[g] = "wait" <=> pc[g] = "wait"
  BY <1>0, OwnPlaceholder DEF Header, TypeOK
<1>2. Phase' = Phase /\ Waiters' = Waiters
  BY <1>1, SamePhase, SameWaiters DEF Waits
<1>3. CASE pc' = [pc EXCEPT ![h] = "dial"]
  <2>1. Dialers' = Dialers
    BY <1>0, <1>1, <1>3, SameDialers DEF Dialing, TypeOK
  <2> QED
    BY <1>2, <2>1
<1>4. CASE pc' = [pc EXCEPT ![h] = "done"]
  <2>1. Dialing' = Dialing \ {h} /\ \A g \in Dialing \ {h} : Client(g) # Client(h)
    BY <1>0, <1>4, OwnPlaceholder DEF Dialing, TypeOK
  <2>2. \A i \in Ident : {g \in Dialing : Client(g) = i}'
            = IF i = Client(h) THEN {} ELSE {g \in Dialing : Client(g) = i}
    BY <1>1, <2>1 DEF Client
  <2>3. Dialers' = [Dialers EXCEPT ![Client(h)] = {}]
    BY <1>1, <2>2 DEF Dialers
  <2>4. Dialers[Client(h)] # {}
    BY <1>0, <1>1, Client1
  <2> QED
    BY <1>0, <1>1, <1>2, <2>3, <2>4 DEF Mapping!GiveUp
<1> QED
  BY <1>3, <1>4 DEF Header

(* All other steps are stutters of NatMapping.                              *)
LEMMA OthersStutter ==
    ASSUME NatInv, NEW h \in Handler,
           \/ \E p \in Packet : Receive(h, p)
           \/ AuthFail(h)
           \/ AuthReplay(h)
           \/ AuthOk(h)
           \/ Dial(h)
           \/ Wake(h)
           \/ Write(h)
           \/ Return(h)
    PROVE  UNCHANGED <<Phase, Dialers, Waiters>>
<1> USE DEF NatInv, MapInv
<1>1. UNCHANGED <<nm, sock, established>>
  BY DEF Receive, AuthFail, AuthReplay, AuthOk, Dial, Wake, Write, Return
<1>2. /\ \A g \in Handler : g \in Dialing' <=> g \in Dialing
      /\ \A g \in Dialing : packet'[g] = packet[g]
  BY DEF Receive, AuthFail, AuthReplay, AuthOk, Dial, Wake, Write, Return, Dialing, TypeOK
<1>3. /\ \A g \in Handler : Waits(g)' <=> Waits(g)
      /\ \A g \in Handler : Waits(g) => packet'[g] = packet[g]
  BY DEF Receive, AuthFail, AuthReplay, AuthOk, Dial, Wake, Write, Return, Waits, TypeOK
<1> QED
  BY <1>1, <1>2, <1>3, SamePhase, SameDialers, SameWaiters

(* A step of the code is a step or a stutter of NatMapping.                 *)
LEMMA NatStep == NatInv /\ [Next]_vars => [Mapping!Next]_(Mapping!natvars)
<1> SUFFICES ASSUME NatInv, [Next]_vars
             PROVE  Mapping!Next \/ UNCHANGED <<Phase, Dialers, Waiters>>
  BY DEF Mapping!natvars
<1>1. CASE UNCHANGED vars
  BY <1>1, SamePhase, SameDialers, SameWaiters DEF vars, Dialing, Waits
<1>2. ASSUME NEW h \in Handler, (\E p \in Packet : Receive(h, p)) \/ HandlerStep(h)
      PROVE  Mapping!Next \/ UNCHANGED <<Phase, Dialers, Waiters>>
  <2>1. CASE LookupHit(h)
    BY <2>1, HitAwaits DEF Mapping!Next
  <2>2. CASE \E e \in Entry : LookupMiss(h, e)
    BY <2>2, MissBegins DEF Mapping!Next
  <2>3. CASE Header(h)
    BY <2>3, HeaderGivesUp DEF Mapping!Next
  <2>4. CASE Undo(h)
    BY <2>4, UndoFinishes DEF Mapping!Next
  <2>5. CASE \E e \in Entry : Publish(h, e)
    BY <2>5, PublishFinishes DEF Mapping!Next
  <2> QED
    BY <1>2, <2>1, <2>2, <2>3, <2>4, <2>5, OthersStutter DEF HandlerStep
<1>3. ASSUME NEW e \in Entry, RelayEnds(e)
      PROVE  Mapping!Next \/ UNCHANGED <<Phase, Dialers, Waiters>>
  <2>1. UNCHANGED <<nm, sock, established, pc, packet, conn>>
    BY <1>3 DEF RelayEnds
  <2> QED
    BY <2>1, SamePhase, SameDialers, SameWaiters DEF Dialing, Waits
<1>4. ASSUME NEW e \in Entry, RelayRemoves(e)
      PROVE  Mapping!Next
  BY <1>4, RelayExpires DEF Mapping!Next
<1> QED
  BY <1>1, <1>2, <1>3, <1>4 DEF Next

(* The placeholders and channels of the NAT implement one dial at a time    *)
(* for each client: a lookup begins it or waits for it, its end, by a       *)
(* socket or by an error, is seen by everyone who waited, and only for a    *)
(* client that is relayed through another server is it ever given up.       *)
THEOREM NatKeepsPromise == Spec => NatPromise
<1>1. Init => Mapping!Init
  BY InitNat
<1> QED
  BY <1>1, NatStep, NatInvariant, PTL DEF Spec, NatPromise, Mapping!Spec

(* Nobody waits for nothing: as long as a packet waits somebody dials for   *)
(* its client, whoever else comes, fails or expires, unless the client is   *)
(* relayed through another server, whose header may be what failed.  This   *)
(* is what NatMapping makes of a pending client, carried over.              *)
SomebodyDials ==
    \A h \in Handler : Waits(h) /\ Client(h) \notin Relayed =>
        \E g \in Dialing : Client(g) = Client(h)

THEOREM WaitersHaveDialler == Spec => []SomebodyDials
<1> DEFINE PendingIsDialled ==
        \A i \in Ident \ Relayed : Phase[i] = "pending" => Dialers[i] # {}
<1>1. Mapping!Init => PendingIsDialled
  BY DEF Mapping!Init
<1>2. ASSUME PendingIsDialled, [Mapping!Next]_(Mapping!natvars)
      PROVE  PendingIsDialled'
  <2>1. CASE UNCHANGED <<Phase, Dialers, Waiters>>
    BY <1>2, <2>1
  <2>2. ASSUME NEW i \in Ident, NEW h \in Handler, Mapping!Begin(i, h)
        PROVE  PendingIsDialled'
    BY <1>2, <2>2 DEF Mapping!Begin, Phase, Dialers
  <2>3. ASSUME NEW i \in Ident, NEW h \in Handler, Mapping!Await(i, h)
        PROVE  PendingIsDialled'
    BY <1>2, <2>3 DEF Mapping!Await
  <2>4. ASSUME NEW i \in Ident, NEW outcome \in {"none", "open"},
               Mapping!Finish(i, outcome)
        PROVE  PendingIsDialled'
    BY <1>2, <2>4 DEF Mapping!Finish, Phase, Dialers
  <2>5. ASSUME NEW i \in Ident, Mapping!GiveUp(i) PROVE PendingIsDialled'
    BY <1>2, <2>5 DEF Mapping!GiveUp, Dialers
  <2>6. ASSUME NEW i \in Ident, Mapping!Expire(i) PROVE PendingIsDialled'
    BY <1>2, <2>6 DEF Mapping!Expire, Phase
  <2> QED
    BY <1>2, <2>1, <2>2, <2>3, <2>4, <2>5, <2>6 DEF Mapping!Next, Mapping!natvars
<1>3. ASSUME NatInv, PendingIsDialled PROVE SomebodyDials
  <2> SUFFICES ASSUME NEW h \in Handler, Waits(h), Client(h) \notin Relayed
               PROVE  \E g \in Dialing : Client(g) = Client(h)
    BY DEF SomebodyDials
  <2>1. Client(h) \in Ident /\ conn[h] \in Entry /\ conn[h] = nm[Client(h)]
    BY <1>3, ClientType DEF NatInv, MapInv, TypeOK, WaitInv, Waits
  <2>2. Phase[Client(h)] = "pending"
    BY <1>3, <2>1, Client1, NatAssumption DEF NatInv, EntryInv, Waits
  <2>3. Dialers[Client(h)] # {}
    BY <1>3, <2>1, <2>2
  <2> QED
    BY <2>1, <2>3, Client1
<1> HIDE DEF PendingIsDialled
<1> QED
  BY <1>1, <1>2, <1>3, InitNat, NatStep, NatInvariant, PTL DEF Spec

(* A client whose dial was given up: its packets wait, nobody dials.        *)
Abandoned(i) == Phase[i] = "pending" /\ Dialers[i] = {}

(* Nothing takes the placeholder of such a client away: it is never dialled *)
(* for again and who waits for it goes on waiting, while more may join.     *)
AbandonedForGood ==
    [][\A i \in Ident : Abandoned(i) => Abandoned(i)' /\ Waiters[i] \subseteq Waiters'[i]]_vars

LEMMA AbandonedStep ==
    ASSUME Mapping!Next, NEW i \in Ident, Abandoned(i)
    PROVE  Abandoned(i)' /\ Waiters[i] \subseteq Waiters'[i]
<1>0. DOMAIN Phase = Ident /\ DOMAIN Dialers = Ident /\ DOMAIN Waiters = Ident
  BY DEF Phase, Dialers, Waiters
<1>1. ASSUME NEW j \in Ident, NEW h \in Handler, Mapping!Begin(j, h) \/ Mapping!Await(j, h)
      PROVE  Abandoned(i)' /\ Waiters[i] \subseteq Waiters'[i]
  <2>1. CASE Mapping!Begin(j, h)
    <3>1. Phase'[i] = Phase[i] /\ Dialers'[i] = Dialers[i] /\ Waiters' = Waiters
      BY ONLY <1>0, <2>1, Abandoned(i) DEF Mapping!Begin, Abandoned
    <3> QED
      BY ONLY <3>1, Abandoned(i) DEF Abandoned
  <2>2. CASE Mapping!Await(j, h)
    <3>1. Phase' = Phase /\ Dialers' = Dialers /\ Waiters[i] \subseteq Waiters'[i]
      BY ONLY <1>0, <2>2 DEF Mapping!Await
    <3> QED
      BY ONLY <3>1, Abandoned(i) DEF Abandoned
  <2> QED
    BY <1>1, <2>1, <2>2
<1>2. ASSUME NEW j \in Ident,
             \/ \E outcome \in {"none", "open"} : Mapping!Finish(j, outcome)
             \/ Mapping!GiveUp(j)
             \/ Mapping!Expire(j)
      PROVE  Abandoned(i)' /\ Waiters[i] \subseteq Waiters'[i]
  <2>1. j # i
    BY ONLY <1>2, Abandoned(i) DEF Mapping!Finish, Mapping!GiveUp, Mapping!Expire, Abandoned
  <2>2. Phase'[i] = Phase[i] /\ Dialers'[i] = Dialers[i] /\ Waiters'[i] = Waiters[i]
    BY ONLY <1>0, <1>2, <2>1 DEF Mapping!Finish, Mapping!GiveUp, Mapping!Expire
  <2> QED
    BY ONLY <2>2, Abandoned(i) DEF Abandoned
<1> QED
  BY <1>1, <1>2 DEF Mapping!Next

(* The header that fails while a client relayed through another server      *)
(* connects locks that client out until the program is restarted.           *)
THEOREM AbandonedClientsStay == Spec => AbandonedForGood
<1>1. [Mapping!Next]_(Mapping!natvars) =>
          [\A i \in Ident : Abandoned(i) => Abandoned(i)' /\ Waiters[i] \subseteq Waiters'[i]]_vars
  <2> SUFFICES ASSUME [Mapping!Next]_(Mapping!natvars), NEW i \in Ident, Abandoned(i)
               PROVE  Abandoned(i)' /\ Waiters[i] \subseteq Waiters'[i]
    OBVIOUS
  <2>1. CASE Mapping!Next
    BY <2>1, AbandonedStep
  <2>2. CASE UNCHANGED Mapping!natvars
    <3>1. Phase' = Phase /\ Dialers' = Dialers /\ Waiters' = Waiters
      BY ONLY <2>2 DEF Mapping!natvars
    <3> QED
      BY ONLY <3>1, Abandoned(i) DEF Abandoned
  <2> QED
    BY <2>1, <2>2
<1> QED
  BY <1>1, NatKeepsPromise, PTL DEF NatPromise, Mapping!Spec, AbandonedForGood
=============================================================================
