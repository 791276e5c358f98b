----------------------------- MODULE ServerProofs -----------------------------
(***************************************************************************)
(* What a server promises its control server and its host: the list it is   *)
(* given arrives (Registration), and nothing stays open once it was closed  *)
(* (Lifecycle).  Both hold for every bound, interval, protocol and set of    *)
(* connections.                                                             *)
(***************************************************************************)
EXTENDS Registration, Lifecycle, TLAPS

------------------------------------------------------------------------------
(* Registration.  The loop exists only in a server that runs, and the       *)
(* newest list is in use, on its way, or in the hands of the loop.          *)
LoopRuns == loop # "select" => john = "running"

Delivered ==
    john = "running" /\ ~disordered =>
        \/ held = wanted
        \/ wanted \in inbox
        \/ loop \in {"got", "sync"} /\ answer = wanted

RIInv == RTypeOK /\ PaceFollowsOutcome /\ LoopRuns /\ Delivered

LEMMA RInitInv == RInit => RIInv
<1> SUFFICES ASSUME RInit PROVE RIInv
  OBVIOUS
<1>1. RTypeOK
  <2>1. interval \in MinInterval .. MaxInterval
    BY RegistrationAssumption DEF RInit
  <2>2. wanted \in 0 .. MaxVersion /\ answer \in 0 .. wanted /\ held \in 0 .. wanted
    BY RegistrationAssumption DEF RInit
  <2> QED BY <2>1, <2>2, Zenon DEF RInit, RTypeOK
<1>2. PaceFollowsOutcome
  BY RegistrationAssumption DEF RInit, PaceFollowsOutcome
<1>3. LoopRuns /\ Delivered
  BY DEF RInit, LoopRuns, Delivered
<1> QED BY <1>1, <1>2, <1>3 DEF RIInv

LEMMA RStepInv == RIInv /\ [RNext]_rvars => RIInv'
<1> SUFFICES ASSUME RIInv, [RNext]_rvars PROVE RIInv'
  OBVIOUS
<1> USE RegistrationAssumption
    DEF RIInv, RTypeOK, PaceFollowsOutcome, LoopRuns, Delivered, outside, history
<1>1. CASE NewJohn BY <1>1 DEF NewJohn
<1>2. CASE Tick BY <1>2 DEF Tick
<1>3. CASE Stop BY <1>3 DEF Stop
<1>4. CASE RegisterFails BY <1>4 DEF RegisterFails, Min2
<1>5. CASE RegisterAnswered BY <1>5 DEF RegisterAnswered
<1>6. CASE RegisterAlive BY <1>6 DEF RegisterAlive
<1>7. CASE RegisterSyncs
  <2>0. disordered' \in BOOLEAN
    BY <1>7, Zenon DEF RegisterSyncs, Disorder
  <2>1. RTypeOK'
    <3>1. interval' \in MinInterval .. MaxInterval
      BY <1>7 DEF RegisterSyncs
    <3> QED BY <1>7, <2>0, <3>1, Zenon DEF RegisterSyncs
  <2>2. PaceFollowsOutcome'
    BY <1>7 DEF RegisterSyncs
  <2>3. LoopRuns'
    BY <1>7 DEF RegisterSyncs
  <2>4. ~disordered' => ~(answer < held) /\ (disordered => ~(answer < wanted))
    BY <1>7, Zenon DEF RegisterSyncs, Disorder
  <2>5. Delivered'
    BY <1>7, <2>4 DEF RegisterSyncs
  <2> QED BY <2>1, <2>2, <2>3, <2>5
<1>8. CASE Ping BY <1>8 DEF Ping
<1>9. ASSUME NEW v \in inbox, HandleSync(v) PROVE RIInv'
  <2>0. disordered' \in BOOLEAN
    BY <1>9, Zenon DEF HandleSync, Disorder
  <2>1. RTypeOK'
    BY <1>9, <2>0 DEF HandleSync
  <2>2. PaceFollowsOutcome'
    BY <1>9 DEF HandleSync
  <2>3. LoopRuns'
    BY <1>9 DEF HandleSync
  <2>4. ~disordered' => ~(v < held) /\ (disordered => ~(v < wanted))
    BY <1>9, Zenon DEF HandleSync, Disorder
  <2>5. Delivered'
    BY <1>9, <2>4 DEF HandleSync
  <2> QED BY <2>1, <2>2, <2>3, <2>5
<1>10. CASE ReRegister BY <1>10 DEF ReRegister
<1>11. CASE CloseServer BY <1>11 DEF CloseServer
<1>12. CASE Silence BY <1>12 DEF Silence
<1>13. CASE Reachable BY <1>13 DEF Reachable
<1>14. CASE ChangeList BY <1>14 DEF ChangeList
<1>15. ASSUME NEW v \in inbox, LoseMessage(v) PROVE RIInv'
  BY <1>15 DEF LoseMessage
<1>16. CASE UNCHANGED rvars BY <1>16 DEF rvars
<1> QED
  BY <1>1, <1>2, <1>3, <1>4, <1>5, <1>6, <1>7, <1>8, <1>9, <1>10, <1>11, <1>12,
     <1>13, <1>14, <1>15, <1>16
  DEF RNext, Register, HandleMsg, ROutside

LEMMA RegistrationInv == RSpec => []RIInv
  BY RInitInv, RStepInv, PTL DEF RSpec

(* The variables of Registration keep their types: in particular no list is *)
(* ever newer than the control server's, however register and handleMsg     *)
(* overlap.                                                                 *)
THEOREM RegistrationTypeCorrect == RSpec => []RTypeOK
<1>1. RIInv => RTypeOK
  BY DEF RIInv
<1> QED BY <1>1, RegistrationInv, PTL

(* registerBackground backs off exactly while its last attempt failed, and  *)
(* never beyond its bound.                                                  *)
THEOREM PaceIsRight == RSpec => []PaceFollowsOutcome
<1>1. RIInv => PaceFollowsOutcome
  BY DEF RIInv
<1> QED BY <1>1, RegistrationInv, PTL

(* Once every delivery of SyncPassages and register has arrived, the server *)
(* holds the control server's list, unless one was lost or overtaken.       *)
THEOREM ListGetsThere == RSpec => []ListArrives
<1>1. RIInv => ListArrives
  BY DEF RIInv, Delivered, ListArrives
<1> QED BY <1>1, RegistrationInv, PTL

------------------------------------------------------------------------------
(* Lifecycle.  Steps of Listen only some protocols have.                    *)
Paths ==
    /\ tpc["main"] = "startAcme" => proto = "anytls"
    /\ tpc["main"] \in {"setAcme", "setGrpc", "serveGrpc"} => proto = "grpc"
    /\ acme = "starting" => proto = "grpc"
    /\ "grpc" \in fields => proto = "grpc"
    /\ isClosed <=> close # "idle"
    /\ proto = "anytls" => close # "marked"

(* A loop that did not start has no socket; one that left closed it.        *)
LoopSockets ==
    \A t \in Thread :
        /\ listen = "off" => tpc[t] = "off"
        /\ tpc[t] \in {"off", "bind"} => sock[t] = "none"
        /\ tpc[t] = "left" /\ sock[t] = "open" =>
              t = "main" /\ proto = "anytls" /\ acceptErr

(* What Close finds in the fields of a server or has taken from them.       *)
InReach(x, known) ==
    \/ close = "idle" /\ x \in known
    \/ close = "taken" /\ x \in toClose

AcmeInReach ==
    sock["acme"] = "open" => proto = "grpc" \/ (proto = "anytls" /\ InReach("acme", fields))

ConnsInReach ==
    proto = "anytls" => \A c \in Conn : conn[c] = "served" => InReach(c, tracked)

LIInv == LTypeOK /\ Paths /\ LoopSockets /\ AcmeInReach /\ ConnsInReach

LEMMA LInitInv == LInit => LIInv
<1> SUFFICES ASSUME LInit PROVE LIInv
  OBVIOUS
<1> USE DEF Thread, Socket
<1>1. LTypeOK
  BY LifecycleAssumption DEF LInit, LTypeOK
<1>2. Paths
  BY DEF LInit, Paths
<1>3. LoopSockets /\ AcmeInReach /\ ConnsInReach
  BY DEF LInit, LoopSockets, AcmeInReach, ConnsInReach
<1> QED BY <1>1, <1>2, <1>3 DEF LIInv

(* Run, its goroutines and shutdown.signal touch none of it.                *)
LEMMA ControlInv ==
    ASSUME LIInv, \/ Validator \/ Shutdown
                  \/ \E ok \in BOOLEAN : NewServer(ok) \/ WaitDNS(ok)
    PROVE  LIInv'
<1> USE DEF LIInv, LTypeOK, Paths, LoopSockets, AcmeInReach, ConnsInReach, InReach,
            sockVars, connVars, closeVars
<1>1. CASE GoValidate BY <1>1 DEF GoValidate
<1>2. ASSUME NEW b \in BOOLEAN, ValidateCDN(b) PROVE LIInv'
  BY <1>2 DEF ValidateCDN
<1>3. CASE ValidateAgain BY <1>3 DEF ValidateAgain
<1>4. ASSUME NEW g \in {"listen", "cdn"}, Signal(g) PROVE LIInv'
  BY <1>4 DEF Signal
<1>5. CASE SignalDone BY <1>5 DEF SignalDone
<1>6. CASE SignalReturns BY <1>6 DEF SignalReturns
<1>7. CASE Wait BY <1>7 DEF Wait
<1>8. ASSUME NEW ok \in BOOLEAN, NewServer(ok) PROVE LIInv'
  BY <1>8 DEF NewServer
<1>9. ASSUME NEW ok \in BOOLEAN, WaitDNS(ok) PROVE LIInv'
  BY <1>9 DEF WaitDNS
<1> QED
  BY <1>1, <1>2, <1>3, <1>4, <1>5, <1>6, <1>7, <1>8, <1>9 DEF Validator, Shutdown

(* Listen: each loop keeps its own socket, and stores a socket only where   *)
(* Close will find it.                                                      *)
LEMMA ListenInv ==
    ASSUME LIInv, \/ Listener \/ MainLoop \/ AcceptFails
                  \/ \E ok \in BOOLEAN : ServeAcme(ok)
                  \/ \E t \in Thread : Loop(t)
    PROVE  LIInv'
<1> USE LifecycleAssumption
    DEF LIInv, LTypeOK, Paths, LoopSockets, AcmeInReach, ConnsInReach, InReach,
        Thread, Socket, ctlVars, connVars, closeVars, Close_
<1>1. CASE GoListen
  <2>1. LTypeOK'
    BY <1>1 DEF GoListen
  <2>2. Paths'
    BY <1>1 DEF GoListen
  <2>3. LoopSockets'
    BY <1>1 DEF GoListen
  <2>4. AcmeInReach'
    BY <1>1 DEF GoListen
  <2>5. ConnsInReach'
    BY <1>1 DEF GoListen
  <2> QED BY <2>1, <2>2, <2>3, <2>4, <2>5
<1>2. CASE ListenReturns BY <1>2 DEF ListenReturns, sockVars
<1>3. CASE ListenDeferred BY <1>3 DEF ListenDeferred, sockVars
<1>4. ASSUME NEW ok \in BOOLEAN, StartAutocertServer(ok) PROVE LIInv'
  <2>1. LTypeOK'
    <3>1. tpc' \in [Thread -> {"off", "bind", "startAcme", "setListener", "setAcme",
                              "setGrpc", "serveGrpc", "accept", "left"}]
      BY <1>4 DEF StartAutocertServer, ListenAcme
    <3>2. sock' \in [Socket -> {"none", "open", "closed"}]
      BY <1>4 DEF StartAutocertServer, ListenAcme
    <3>3. /\ acme' \in {"off", "starting", "serving", "ended"}
          /\ fields' \subseteq Socket \cup {"grpc"}
      BY <1>4 DEF StartAutocertServer, ListenAcme
    <3>4. UNCHANGED <<ctlVars, closeVars, connVars>>
      BY <1>4 DEF StartAutocertServer, ListenAcme
    <3> QED BY <3>1, <3>2, <3>3, <3>4
  <2>2. Paths'
    BY <1>4 DEF StartAutocertServer, ListenAcme
  <2>3. LoopSockets'
    BY <1>4 DEF StartAutocertServer, ListenAcme
  <2>4. AcmeInReach'
    BY <1>4 DEF StartAutocertServer, ListenAcme
  <2>5. ConnsInReach'
    BY <1>4 DEF StartAutocertServer, ListenAcme
  <2> QED BY <2>1, <2>2, <2>3, <2>4, <2>5
<1>5. CASE SetAutocertServer BY <1>5 DEF SetAutocertServer
<1>6. CASE SetGrpc BY <1>6 DEF SetGrpc
<1>7. CASE ServeGrpc BY <1>7 DEF ServeGrpc
<1>8. CASE AcceptFails BY <1>8 DEF AcceptFails, TakesFields
<1>9. ASSUME NEW ok \in BOOLEAN, ServeAcme(ok) PROVE LIInv'
  BY <1>9 DEF ServeAcme
<1>10. ASSUME NEW t \in Thread, NEW ok \in BOOLEAN, Bind(t, ok) PROVE LIInv'
  BY <1>10 DEF Bind
<1>11. ASSUME NEW t \in Thread, SetListener(t) PROVE LIInv'
  <2>1. LTypeOK'
    <3>1. CASE StoreListener(t) BY <3>1 DEF StoreListener
    <3>2. CASE ~StoreListener(t)
      <4>1. sock' \in [Socket -> {"none", "open", "closed"}]
        BY <1>11, <3>2 DEF SetListener
      <4>2. tpc' = [tpc EXCEPT ![t] = "left"]
        BY <1>11, <3>2 DEF SetListener
      <4>3. UNCHANGED <<ctlVars, fields, acme, closeVars, connVars>>
        BY <1>11, <3>2 DEF SetListener
      <4> QED BY <4>1, <4>2, <4>3
    <3> QED BY <3>1, <3>2
  <2>2. Paths'
    BY <1>11 DEF SetListener, StoreListener
  <2>3. LoopSockets'
    BY <1>11 DEF SetListener, StoreListener
  <2>4. AcmeInReach'
    BY <1>11 DEF SetListener, StoreListener
  <2>5. ConnsInReach'
    BY <1>11 DEF SetListener, StoreListener
  <2> QED BY <2>1, <2>2, <2>3, <2>4, <2>5
<1>12. ASSUME NEW t \in Thread, AcceptEnds(t) PROVE LIInv'
  BY <1>12 DEF AcceptEnds, TakesFields
<1> QED
  BY <1>1, <1>2, <1>3, <1>4, <1>5, <1>6, <1>7, <1>8, <1>9, <1>10, <1>11, <1>12
  DEF Listener, MainLoop, Loop

(* The others that take s.mutex touch none of it either.                    *)
LEMMA OthersInv ==
    ASSUME LIInv, OthersLock \/ OthersCross \/ OthersUnlock PROVE LIInv'
<1> USE DEF LIInv, LTypeOK, Paths, LoopSockets, AcmeInReach, ConnsInReach, InReach,
        ctlVars, sockVars, closeVars
<1>1. CASE OthersLock BY <1>1 DEF OthersLock
<1>2. CASE OthersCross BY <1>2 DEF OthersCross
<1>3. CASE OthersUnlock BY <1>3 DEF OthersUnlock
<1> QED BY <1>1, <1>2, <1>3

(* Connections: one that is served is tracked until it ends.                *)
LEMMA ConnInv ==
    ASSUME LIInv, NEW c \in Conn, Accept(c) \/ TrackConn(c) \/ UntrackConn(c)
    PROVE  LIInv'
<1> USE DEF LIInv, LTypeOK, Paths, LoopSockets, AcmeInReach, ConnsInReach, InReach,
        ctlVars, sockVars, closeVars
<1>1. CASE Accept(c) BY <1>1 DEF Accept
<1>2. CASE TrackConn(c) BY <1>2 DEF TrackConn, AddConn
<1>3. CASE UntrackConn(c) BY <1>3 DEF UntrackConn
<1> QED BY <1>1, <1>2, <1>3

(* Close: what it takes from the fields it has until it is closed.          *)
LEMMA CloseInv == ASSUME LIInv, Closing PROVE LIInv'
<1> USE LifecycleAssumption
    DEF LIInv, LTypeOK, Paths, LoopSockets, AcmeInReach, ConnsInReach, InReach,
        Thread, Socket, ctlVars, connVars, sockVars
<1>1. CASE CloseMark
  <2>1. LTypeOK'
    <3>1. toClose' \subseteq Socket \cup Conn /\ fields' \subseteq Socket \cup {"grpc"}
                   /\ tracked' \subseteq Conn /\ close' \in {"idle", "marked", "taken", "done"}
      BY <1>1 DEF CloseMark, TakesFields
    <3>2. isClosed' \in BOOLEAN
      BY <1>1, Zenon DEF CloseMark
    <3>3. UNCHANGED <<ctlVars, sock, tpc, acme, conn, others>>
      BY <1>1, Zenon DEF CloseMark
    <3> QED BY <3>1, <3>2, <3>3
  <2>2. Paths'
    BY <1>1 DEF CloseMark, TakesFields
  <2>3. LoopSockets'
    BY <1>1 DEF CloseMark, TakesFields
  <2>4. AcmeInReach'
    BY <1>1 DEF CloseMark, TakesFields
  <2>5. ConnsInReach'
    BY <1>1 DEF CloseMark, TakesFields
  <2> QED BY <2>1, <2>2, <2>3, <2>4, <2>5
<1>2. CASE CloseLock BY <1>2 DEF CloseLock
<1>3. ASSUME NEW s \in Socket, CloseSocket(s) PROVE LIInv'
  BY <1>3 DEF CloseSocket, Close_
<1>4. ASSUME NEW c \in Conn, CloseConn(c) PROVE LIInv'
  BY <1>4 DEF CloseConn
<1>5. CASE CloseDone BY <1>5 DEF CloseDone
<1> QED BY <1>1, <1>2, <1>3, <1>4, <1>5 DEF Closing

LEMMA LifecycleInv == LSpec => []LIInv
<1>1. LIInv /\ [LNext]_lvars => LIInv'
  <2> SUFFICES ASSUME LIInv, [LNext]_lvars PROVE LIInv'
    OBVIOUS
  <2>1. CASE UNCHANGED lvars
    BY <2>1 DEF lvars, ctlVars, sockVars, closeVars, connVars, LIInv, LTypeOK, Paths,
                LoopSockets, AcmeInReach, ConnsInReach, InReach
  <2>2. CASE LNext
    BY <2>2, ControlInv, ListenInv, OthersInv, ConnInv, CloseInv DEF LNext, LOutside
  <2> QED BY <2>1, <2>2
<1> QED BY <1>1, LInitInv, PTL DEF LSpec

(* The variables of Lifecycle keep their types, for any protocols and       *)
(* connections.                                                             *)
THEOREM LifecycleTypeCorrect == LSpec => []LTypeOK
<1>1. LIInv => LTypeOK
  BY DEF LIInv
<1> QED BY <1>1, LifecycleInv, PTL

(* However many connections there are: when Close is done and the loops of  *)
(* Listen have ended, no socket is open but the two NothingLeftOpen names,  *)
(* and anytls serves nobody.                                                *)
THEOREM NothingStaysOpen == LSpec => []NothingLeftOpen
<1>1. LIInv => NothingLeftOpen
  BY DEF LIInv, LTypeOK, LoopSockets, AcmeInReach, ConnsInReach, InReach,
         NothingLeftOpen, LoopsEnded, Socket, Thread
<1> QED BY <1>1, LifecycleInv, PTL

(* The mutex is lost, and Close, which needs it, has not had it.            *)
CrossedFirst == LocksListener /\ others = "crossed" /\ close \in {"idle", "marked"}

(* Run returns after once.Do, and that after Close.                         *)
RunAwaitsClose == (once = "done" => close = "done") /\ (run = "returned" => once = "done")

LEMMA RunAwaitsCloseInv == LSpec => []RunAwaitsClose
<1>1. LInit => RunAwaitsClose
  BY DEF LInit, RunAwaitsClose
<1>2. RunAwaitsClose /\ [LNext]_lvars => RunAwaitsClose'
  <2> SUFFICES ASSUME RunAwaitsClose, [LNext]_lvars PROVE RunAwaitsClose'
    OBVIOUS
  <2> USE DEF RunAwaitsClose, ctlVars, closeVars
  <2>1. CASE Validator
    BY <2>1 DEF Validator, GoValidate, ValidateCDN, ValidateAgain
  <2>2. CASE Shutdown
    BY <2>2 DEF Shutdown, Signal, SignalDone, SignalReturns, Wait
  <2>3. CASE Listener
    BY <2>3 DEF Listener, GoListen, ListenReturns, ListenDeferred
  <2>4. CASE MainLoop
    BY <2>4 DEF MainLoop, StartAutocertServer, ListenAcme, SetAutocertServer, SetGrpc, ServeGrpc
  <2>5. CASE Closing
    BY <2>5 DEF Closing, CloseMark, CloseLock, CloseSocket, CloseConn, CloseDone
  <2>6. CASE LOutside
    BY <2>6 DEF LOutside, NewServer, WaitDNS, ServeAcme, AcceptFails, Accept, OthersLock,
                OthersCross
  <2>7. ASSUME NEW t \in Thread, Loop(t) PROVE RunAwaitsClose'
    BY <2>7 DEF Loop, Bind, SetListener, StoreListener, AcceptEnds
  <2>8. ASSUME NEW c \in Conn, TrackConn(c) \/ UntrackConn(c) PROVE RunAwaitsClose'
    BY <2>8 DEF TrackConn, AddConn, UntrackConn
  <2>9. CASE OthersUnlock
    BY <2>9 DEF OthersUnlock
  <2>10. CASE UNCHANGED lvars
    BY <2>10 DEF lvars
  <2> QED
    BY <2>1, <2>2, <2>3, <2>4, <2>5, <2>6, <2>7, <2>8, <2>9, <2>10 DEF LNext
<1> QED BY <1>1, <1>2, PTL DEF LSpec

LEMMA CrossedStays == CrossedFirst /\ [LNext]_lvars => CrossedFirst'
<1> SUFFICES ASSUME CrossedFirst, [LNext]_lvars PROVE CrossedFirst'
  OBVIOUS
<1> USE DEF CrossedFirst, LocksListener, TakesFields, MutexFree, ctlVars, closeVars, connVars
<1>1. CASE Validator
  BY <1>1 DEF Validator, GoValidate, ValidateCDN, ValidateAgain
<1>2. CASE Shutdown
  BY <1>2 DEF Shutdown, Signal, SignalDone, SignalReturns, Wait
<1>3. CASE Listener
  BY <1>3 DEF Listener, GoListen, ListenReturns, ListenDeferred
<1>4. CASE MainLoop
  BY <1>4 DEF MainLoop, StartAutocertServer, ListenAcme, SetAutocertServer, SetGrpc, ServeGrpc
<1>5. CASE Closing
  BY <1>5 DEF Closing, CloseMark, CloseLock, CloseSocket, CloseConn, CloseDone
<1>6. CASE LOutside
  BY <1>6 DEF LOutside, NewServer, WaitDNS, ServeAcme, AcceptFails, Accept, OthersLock,
              OthersCross
<1>7. ASSUME NEW t \in Thread, Loop(t) PROVE CrossedFirst'
  BY <1>7 DEF Loop, Bind, SetListener, StoreListener, AcceptEnds
<1>8. ASSUME NEW c \in Conn, TrackConn(c) \/ UntrackConn(c) PROVE CrossedFirst'
  BY <1>8 DEF TrackConn, AddConn, UntrackConn
<1>9. CASE OthersUnlock
  BY <1>9 DEF OthersUnlock
<1>10. CASE UNCHANGED lvars
  BY <1>10 DEF lvars
<1> QED
  BY <1>1, <1>2, <1>3, <1>4, <1>5, <1>6, <1>7, <1>8, <1>9, <1>10 DEF LNext

(* A sync and a look-up of contexts that cross before Close has s.mutex     *)
(* keep Run from returning, for any number of connections and whoever asks  *)
(* for the shutdown.                                                        *)
THEOREM CrossingKeepsRun == LSpec => [](CrossedFirst => [](run # "returned"))
<1>1. RunAwaitsClose /\ CrossedFirst => run # "returned"
  BY DEF RunAwaitsClose, CrossedFirst
<1> QED BY <1>1, RunAwaitsCloseInv, CrossedStays, PTL DEF LSpec
================================================================================
