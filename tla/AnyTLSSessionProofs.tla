------------------------- MODULE AnyTLSSessionProofs -------------------------
(***************************************************************************)
(* Safety of AnyTLSSession for any number of streams and any peer, on a     *)
(* client and on a server.                                                  *)
(*                                                                          *)
(* That no stream is orphaned by Close rests on the order of its steps: a   *)
(* stream that is handed out and not closed is in the map up to             *)
(* ClearStreams, and no SYN can be written, hence no stream handed out,     *)
(* after CloseConn.                                                         *)
(* That the map is left clean needs to know who closes a stream that is in  *)
(* it, and that there is one stream per caller.  On a server it also needs  *)
(* that no one but recvLoop closes the session, which therefore stays open  *)
(* between the SYN of a stream and the start of its handler.                *)
(***************************************************************************)
EXTENDS AnyTLSSession, TLAPS

Busy == recv \in {"refuse", "forget", "closeRemote", "push"}
Refusing(d) == recv \in {"refuse", "forget"} /\ recvFor = d
Finishing(d) == recv = "closeRemote" /\ recvFor = d
Starting(d) == recv \in {"synack", "start"} /\ recvFor = d
Dialing == {"register", "syn", "undo", "abort", "addr", "wait", "settings", "version", "synack"}

(* The steps of Close are taken in order.                                   *)
CloseInv ==
    /\ closed <=> closing # "no"
    /\ connOpen => closing \in {"no", "conn"}

(* On a server nobody dials, and the session is open while recvLoop runs.   *)
ServerInv ==
    /\ recv \in {"synack", "start"} => ~isClient /\ recvFor \in streams /\ pc[recvFor] = "idle"
    /\ ~isClient => /\ closed => recv = "done"
                    /\ ~timedOut
                    /\ \A d \in Stream : pc[d] \notin Dialing /\ decided[d] = 0

(* A stream recvLoop is busy with was handed out.                           *)
RecvInv ==
    /\ Busy => pc[recvFor] \notin {"idle", "register", "syn", "undo"}
    /\ recv \in {"refuse", "forget"} => recvFor \in streamClosed

(* Where the stream of a caller can be.                                     *)
OpenInv ==
    \A d \in Stream :
        /\ pc[d] \in {"idle", "register"} =>
              d \notin streamClosed /\ (d \in streams => Starting(d))
        /\ pc[d] = "syn" => d \in streams \/ closing = "done"
        /\ pc[d] \in {"forget", "fin"} => d \in streamClosed
        /\ d \in Opened => \/ d \in streamClosed
                           \/ d \in streams /\ closing # "done"
                           \/ Finishing(d)

(* Who takes a stream out of the map.                                       *)
MapInv ==
    \A d \in streams :
        /\ pc[d] \notin {"abort", "fin"}
        /\ ~Finishing(d)
        /\ d \in streamClosed => Refusing(d) \/ pc[d] = "forget"
        /\ pc[d] = "closed" => Refusing(d)

(* The first version of 2 or more that anyone was told is final.            *)
VersionInv ==
    /\ timedOut => peerVersion = 0
    /\ \A d \in Stream : decided[d] >= 2 => peerVersion = decided[d]

------------------------------------------------------------------------------
(* The variables of a session keep their types.                             *)
THEOREM TypeCorrect == Spec => []TypeOK
<1>1. Init => TypeOK
  <2> SUFFICES ASSUME Init PROVE TypeOK
    OBVIOUS
  <2>1. closed \in BOOLEAN /\ connOpen \in BOOLEAN /\ settingsDone \in BOOLEAN
        /\ timedOut \in BOOLEAN /\ isClient \in BOOLEAN /\ receivedSettings \in BOOLEAN
    BY Zenon DEF Init
  <2>2. peerVersion \in 0..255 /\ 0 \in 0..255 /\ 0 \in 0..Cap
    BY SessionAssumption DEF Init
  <2>3. buffered \in [Stream -> 0..Cap] /\ decided \in [Stream -> 0..255]
    BY <2>2 DEF Init
  <2>4. pc \in [Stream -> Phase] /\ synack \in [Stream -> {"none", "ok", "error"}]
    BY DEF Init, Phase
  <2>5. /\ closing \in {"no", "conn", "streams", "done"}
        /\ recv = "read" /\ recvFor = NoStream /\ streams = {} /\ streamClosed = {}
    BY DEF Init
  <2> QED
    BY <2>1, <2>2, <2>3, <2>4, <2>5 DEF TypeOK
<1>2. TypeOK /\ [Next]_vars => TypeOK'
  <2> SUFFICES ASSUME TypeOK, [Next]_vars PROVE TypeOK'
    OBVIOUS
  <2> USE SessionAssumption
      DEF TypeOK, Phase, Go, Proceed, sessionVars, versionVars, sideVars, streamVars, recvVars,
          callerVars
  <2>1. CASE UNCHANGED vars
    BY <2>1 DEF vars
  <2>2. CASE CloseDialer
    BY <2>2 DEF CloseDialer, BeginClose
  <2>3. CASE CloseStep
    <3>1. CASE CloseConn
      <4>1. connOpen' \in BOOLEAN
        BY <3>1, Zenon DEF CloseConn
      <4> QED
        BY <3>1, <4>1 DEF CloseConn
    <3>2. CASE ClearStreams
      BY <3>2 DEF ClearStreams
    <3> QED
      BY <2>3, <3>1, <3>2 DEF CloseStep
  <2>4. ASSUME NEW d \in Stream, CallerStep(d) PROVE TypeOK'
    <3>1. CASE CallerProceeds(d)
      <4>1. ASSUME NEW v \in 0..255, Decide(d, v),
                   UNCHANGED <<sessionVars, streams, versionVars, streamVars, recvVars>>
            PROVE  TypeOK'
        BY <4>1 DEF Decide
      <4>2. CASE ServerSettingsState(d) \/ GetPeerVersion(d)
        <5>1. ASSUME Go(d, "settings"), UNCHANGED decided,
                     UNCHANGED <<sessionVars, streams, versionVars, streamVars, recvVars>>
              PROVE  TypeOK'
          BY <5>1
        <5>2. peerVersion \in 0..255
          OBVIOUS
        <5>3. CASE GetPeerVersion(d)
          BY <4>1, <5>2, <5>3 DEF GetPeerVersion
        <5>4. CASE ServerSettingsState(d)
          <6> USE DEF ServerSettingsState
          <6>1. Decide(d, peerVersion) \/ (Go(d, "settings") /\ UNCHANGED decided)
            BY <5>4, Zenon
          <6>2. UNCHANGED <<sessionVars, streams, versionVars, streamVars, recvVars>>
            BY <5>4, Zenon
          <6> QED
            BY <4>1, <5>1, <5>2, <6>1, <6>2, Zenon
        <5> QED
          BY <4>2, <5>3, <5>4
      <4>3. CASE Register(d) \/ UndoOpen(d) \/ ForgetStream(d)
        BY <4>3 DEF Register, UndoOpen, ForgetStream
      <4>4. CASE AbortOpen(d)
        BY <4>4 DEF AbortOpen, BeginClose
      <4>5. CASE SettingsArrived(d) \/ SettingsTimeout(d)
        <5>1. CASE SettingsArrived(d)
          BY <5>1 DEF SettingsArrived
        <5>2. CASE SettingsTimeout(d)
          <6>1. timedOut' \in BOOLEAN
            BY <5>2, Zenon DEF SettingsTimeout
          <6>2. UNCHANGED <<sessionVars, streams, peerVersion, settingsDone, sideVars,
                            streamVars, recvVars, decided>> /\ Go(d, "version")
            BY <5>2, Zenon DEF SettingsTimeout
          <6> QED
            BY <6>1, <6>2
        <5> QED
          BY <4>5, <5>1, <5>2
      <4>6. CASE SynackOk(d) \/ SynackFails(d) \/ CloseStream(d)
        BY <4>6 DEF SynackOk, SynackFails, CloseStream
      <4> QED
        BY <3>1, <4>2, <4>3, <4>4, <4>5, <4>6 DEF CallerProceeds
    <3>2. CASE OpenStream(d) \/ WriteSYN(d) \/ WriteAddr(d) \/ WriteFIN(d)
      BY <3>2 DEF OpenStream, WriteSYN, WriteAddr, WriteFIN
    <3>3. CASE WriteFails(d)
      BY <3>3 DEF WriteFails
    <3>4. CASE ReadData(d)
      BY <3>4 DEF ReadData
    <3>5. CASE ReadEOF(d) \/ Finish(d)
      BY <3>5 DEF ReadEOF, Finish
    <3> QED
      BY <2>4, <3>1, <3>2, <3>3, <3>4, <3>5 DEF CallerStep
  <2>5. CASE RecvStep
    <3>1. ASSUME NEW v \in Version, ReceiveServerSettings(v) PROVE TypeOK'
      <4>1. Byte(v) \in 0..255
        BY DEF Byte
      <4> QED
        <5>1. /\ peerVersion' = peerVersion \/ peerVersion' = Byte(v)
              /\ settingsDone' = TRUE /\ timedOut' = FALSE
              /\ UNCHANGED <<sessionVars, streams, sideVars, streamVars, recvVars, callerVars>>
          BY ONLY <3>1, Zenon DEF ReceiveServerSettings
        <5>2. peerVersion' \in 0..255
          BY <4>1, <5>1
        <5>3. settingsDone' \in BOOLEAN /\ timedOut' \in BOOLEAN
          BY ONLY <5>1, Zenon
        <5> QED
          BY <5>1, <5>2, <5>3
    <3>2. ASSUME NEW d \in Stream,
                 ReceiveSYNACK(d) \/ ReceiveRefusal(d) \/ ReceiveFIN(d) \/ ReceivePSH(d)
          PROVE  TypeOK'
      BY <3>2 DEF ReceiveSYNACK, ReceiveRefusal, ReceiveFIN, ReceivePSH
    <3>3. CASE Refuse \/ ForgetRefused \/ CloseRemote \/ DropPush
      BY <3>3 DEF Refuse, ForgetRefused, CloseRemote, DropPush
    <3>4. CASE Push
      BY <3>4 DEF Push
    <3>5. CASE ReceiveHeart \/ ReceiveEarlySYN \/ Answer \/ WriteSYNACK
      BY <3>5 DEF ReceiveHeart, ReceiveEarlySYN, Answer, WriteSYNACK
    <3>6. CASE ReceiveError \/ WriteAlert
      <4>1. closed' = TRUE /\ closing' = (IF closed THEN closing ELSE "conn")
            /\ recv' = "done" /\ recvFor' = NoStream
            /\ UNCHANGED <<connOpen, streams, versionVars, streamVars, callerVars>>
        BY <3>6, Zenon DEF ReceiveError, WriteAlert, BeginClose
      <4> QED
        BY <4>1
    <3>7. ASSUME NEW v \in Version, ReceiveSettings(v) PROVE TypeOK'
      <4>1. Byte(v) \in 0..255
        BY DEF Byte
      <4>2. receivedSettings' \in BOOLEAN
        BY <3>7, Zenon DEF ReceiveSettings
      <4> QED
        BY <3>7, <4>1, <4>2 DEF ReceiveSettings
    <3>8. ASSUME NEW d \in Stream, ReceiveSYN(d) PROVE TypeOK'
      BY <3>8 DEF ReceiveSYN
    <3>9. CASE StartHandler
      BY <3>9 DEF StartHandler
    <3> QED
      BY <2>5, <3>1, <3>2, <3>3, <3>4, <3>5, <3>6, <3>7, <3>8, <3>9
      DEF RecvStep, RecvProceeds, RecvWrites
  <2>6. CASE CloseTracked
    <3>1. connOpen' \in BOOLEAN
      BY <2>6, Zenon DEF CloseTracked
    <3> QED
      BY <2>6, <3>1 DEF CloseTracked
  <2> QED
    BY <2>1, <2>2, <2>3, <2>4, <2>5, <2>6 DEF Next
<1> QED
  BY <1>1, <1>2, PTL DEF Spec

------------------------------------------------------------------------------
StreamInv == CloseInv /\ ServerInv /\ RecvInv /\ OpenInv /\ MapInv

(* Where a stream is, step by step: the invariant both safety theorems      *)
(* about streams follow from.                                               *)
LEMMA StreamsAccounted == Spec => [](TypeOK /\ StreamInv)
<1>1. Init => StreamInv
  BY DEF Init, StreamInv, CloseInv, ServerInv, RecvInv, OpenInv, MapInv, Opened, Busy, Dialing
<1>2. TypeOK /\ TypeOK' /\ StreamInv /\ [Next]_vars => StreamInv'
  <2> SUFFICES ASSUME TypeOK, TypeOK', StreamInv, [Next]_vars PROVE StreamInv'
    OBVIOUS
  <2> USE SessionAssumption
      DEF TypeOK, Phase, Go, Proceed, sessionVars, versionVars, sideVars, streamVars, recvVars,
          callerVars, StreamInv, CloseInv, ServerInv, RecvInv, OpenInv, MapInv, Opened, Busy,
          Refusing, Finishing, Starting, Dialing
  <2>1. CASE UNCHANGED vars
    BY <2>1 DEF vars
  <2>2. CASE CloseDialer
    BY <2>2 DEF CloseDialer, BeginClose
  <2>3. CASE CloseConn
    BY <2>3 DEF CloseConn
  <2>4. CASE ClearStreams
    BY <2>4 DEF ClearStreams
  <2>5. ASSUME NEW d \in Stream, CallerStep(d) PROVE StreamInv'
    <3>1. CASE OpenStream(d)
      BY <3>1 DEF OpenStream
    <3>2. CASE Register(d)
      BY <3>2 DEF Register
    <3>3. CASE WriteSYN(d)
      BY <3>3 DEF WriteSYN
    <3>4. CASE WriteAddr(d)
      BY <3>4 DEF WriteAddr
    <3>5. CASE WriteFails(d)
      BY <3>5 DEF WriteFails
    <3>6. CASE UndoOpen(d)
      BY <3>6 DEF UndoOpen
    <3>7. CASE AbortOpen(d)
      BY <3>7 DEF AbortOpen, BeginClose
    <3>8. CASE ServerSettingsState(d)
      BY <3>8 DEF ServerSettingsState, Decide
    <3>9. CASE SettingsArrived(d)
      BY <3>9 DEF SettingsArrived
    <3>10. CASE SettingsTimeout(d)
      BY <3>10 DEF SettingsTimeout
    <3>11. CASE GetPeerVersion(d)
      BY <3>11 DEF GetPeerVersion, Decide
    <3>12. CASE SynackOk(d) \/ SynackFails(d)
      BY <3>12 DEF SynackOk, SynackFails
    <3>13. CASE ReadData(d)
      BY <3>13 DEF ReadData
    <3>14. CASE ReadEOF(d) \/ Finish(d)
      BY <3>14 DEF ReadEOF, Finish
    <3>15. CASE CloseStream(d)
      BY <3>15 DEF CloseStream
    <3>16. CASE ForgetStream(d)
      BY <3>16 DEF ForgetStream
    <3>17. CASE WriteFIN(d)
      BY <3>17 DEF WriteFIN
    <3> QED
      BY <2>5, <3>1, <3>2, <3>3, <3>4, <3>5, <3>6, <3>7, <3>8, <3>9, <3>10, <3>11, <3>12,
         <3>13, <3>14, <3>15, <3>16, <3>17 DEF CallerStep, CallerProceeds
  <2>6. CASE RecvStep
    <3>1. ASSUME NEW v \in Version, ReceiveServerSettings(v) PROVE StreamInv'
      BY <3>1 DEF ReceiveServerSettings
    <3>2. ASSUME NEW d \in Stream, ReceiveSYNACK(d) PROVE StreamInv'
      BY <3>2 DEF ReceiveSYNACK
    <3>3. ASSUME NEW d \in Stream, ReceiveRefusal(d) PROVE StreamInv'
      BY <3>3 DEF ReceiveRefusal, Reading, Known
    <3>4. ASSUME NEW d \in Stream, ReceiveFIN(d) PROVE StreamInv'
      BY <3>4 DEF ReceiveFIN, Reading, Known
    <3>5. ASSUME NEW d \in Stream, ReceivePSH(d) PROVE StreamInv'
      BY <3>5 DEF ReceivePSH, Reading, Known
    <3>6. CASE Refuse
      BY <3>6 DEF Refuse
    <3>7. CASE ForgetRefused
      BY <3>7 DEF ForgetRefused
    <3>8. CASE CloseRemote
      BY <3>8 DEF CloseRemote
    <3>9. CASE Push
      BY <3>9 DEF Push
    <3>10. CASE DropPush \/ ReceiveHeart \/ ReceiveEarlySYN \/ Answer
      BY <3>10 DEF DropPush, ReceiveHeart, ReceiveEarlySYN, Answer, Reading
    <3>11. CASE ReceiveError \/ WriteAlert
      BY <3>11 DEF ReceiveError, WriteAlert, BeginClose
    <3>12. ASSUME NEW v \in Version, ReceiveSettings(v) PROVE StreamInv'
      BY <3>12 DEF ReceiveSettings, Reading
    <3>13. ASSUME NEW d \in Stream, ReceiveSYN(d) PROVE StreamInv'
      BY <3>13 DEF ReceiveSYN, Reading
    <3>14. CASE WriteSYNACK
      BY <3>14 DEF WriteSYNACK
    <3>15. CASE StartHandler
      BY <3>15 DEF StartHandler
    <3> QED
      BY <2>6, <3>1, <3>2, <3>3, <3>4, <3>5, <3>6, <3>7, <3>8, <3>9, <3>10, <3>11, <3>12,
         <3>13, <3>14, <3>15
      DEF RecvStep, RecvProceeds, RecvWrites
  <2>7. CASE CloseTracked
    BY <2>7 DEF CloseTracked
  <2> QED
    BY <2>1, <2>2, <2>3, <2>4, <2>5, <2>6, <2>7 DEF Next, CloseStep
<1> QED
  BY <1>1, <1>2, TypeCorrect, PTL DEF Spec

(* Once Session.Close has returned, every stream OpenStream handed out is   *)
(* closed, so that no Read of it blocks.                                    *)
THEOREM NoStreamOrphaned == Spec => []NoOrphanStream
<1>1. TypeOK /\ StreamInv => NoOrphanStream
  BY DEF TypeOK, StreamInv, OpenInv, Finishing, NoOrphanStream, Opened
<1> QED
  BY <1>1, StreamsAccounted, PTL

(* A stream whose caller is done with it, or whose SYN could not be         *)
(* written, does not stay in Session.streams.                               *)
THEOREM MapLeftClean == Spec => []NothingLeftInMap
<1>1. StreamInv => NothingLeftInMap
  BY DEF StreamInv, MapInv, Refusing, NothingLeftInMap
<1> QED
  BY <1>1, StreamsAccounted, PTL

------------------------------------------------------------------------------
(* What a step can do to the versions callers were told.                    *)
LEMMA VersionStep ==
    ASSUME TypeOK, StreamInv, VersionInv, [Next]_vars
    PROVE  /\ VersionInv'
           /\ \A d, e \in Stream :
                 decided[d] >= 2 /\ decided[e] = 0 /\ decided'[e] # 0
                    => decided'[e] = decided[d]
<1> USE DEF TypeOK, VersionInv, Go, versionVars, sideVars, callerVars
<1> DEFINE Told == \A d, e \in Stream :
                 decided[d] >= 2 /\ decided[e] = 0 /\ decided'[e] # 0
                    => decided'[e] = decided[d]
<1>1. ASSUME UNCHANGED versionVars, UNCHANGED decided PROVE VersionInv' /\ Told
  BY <1>1
<1>2. ASSUME NEW c \in Stream, UNCHANGED versionVars, Decide(c, peerVersion)
      PROVE  VersionInv' /\ Told
  BY <1>2 DEF Decide
<1>3. ASSUME NEW c \in Stream, CallerStep(c) PROVE VersionInv' /\ Told
  <2>1. CASE ServerSettingsState(c)
    BY <2>1, <1>1, <1>2, Zenon DEF ServerSettingsState
  <2>2. CASE GetPeerVersion(c)
    BY <2>2, <1>2, Zenon DEF GetPeerVersion
  <2>3. CASE SettingsTimeout(c)
    BY <2>3 DEF SettingsTimeout
  <2>4. CASE ~(ServerSettingsState(c) \/ GetPeerVersion(c) \/ SettingsTimeout(c))
    <3>1. UNCHANGED versionVars /\ UNCHANGED decided
      BY <1>3, <2>4, Zenon
      DEF CallerStep, CallerProceeds, Register, UndoOpen, AbortOpen, SettingsArrived, SynackOk,
          SynackFails, CloseStream, ForgetStream, OpenStream, WriteSYN, WriteAddr, WriteFIN,
          WriteFails, ReadData, ReadEOF, Finish
    <3> QED
      BY <1>1, <3>1
  <2> QED
    BY <2>1, <2>2, <2>3, <2>4
<1>4. ASSUME NEW v \in Version, ReceiveServerSettings(v) PROVE VersionInv' /\ Told
  BY <1>4 DEF ReceiveServerSettings
<1>5. ASSUME NEW v \in Version, ReceiveSettings(v) PROVE VersionInv' /\ Told
  <2>1. ~isClient /\ UNCHANGED <<timedOut, decided>>
    BY <1>5 DEF ReceiveSettings
  <2>2. ~timedOut /\ \A d \in Stream : decided[d] = 0
    BY <2>1 DEF StreamInv, ServerInv
  <2> QED
    BY <2>1, <2>2
<1>6. CASE /\ RecvStep \/ CloseStep \/ CloseDialer \/ CloseTracked \/ UNCHANGED vars
           /\ \A v \in Version : ~(ReceiveServerSettings(v) \/ ReceiveSettings(v))
  <2>1. UNCHANGED versionVars /\ UNCHANGED decided
    BY <1>6, Zenon
    DEF RecvStep, RecvProceeds, RecvWrites, ReceiveSYNACK, ReceiveRefusal, ReceiveFIN,
        ReceivePSH, ReceiveSYN, Refuse, ForgetRefused, CloseRemote, Push, DropPush,
        StartHandler, Answer, WriteSYNACK, WriteAlert, ReceiveHeart, ReceiveEarlySYN,
        ReceiveError, CloseStep, CloseConn, ClearStreams, CloseDialer, CloseTracked, vars
  <2> QED
    BY <1>1, <2>1
<1> QED
  BY <1>3, <1>4, <1>5, <1>6 DEF Next

(* completePeerVersion and serverSettingsState: once a dial was told to     *)
(* wait for a SYNACK, every later dial is told the same version.            *)
THEOREM NoVersionDowngrade == Spec => NoDowngrade
<1>1. Init => VersionInv
  BY DEF Init, VersionInv
<1>2. TypeOK /\ StreamInv /\ VersionInv /\ [Next]_vars => VersionInv'
  BY VersionStep
<1>3. TypeOK /\ StreamInv /\ VersionInv /\ [Next]_vars =>
        [\A d, e \in Stream :
            decided[d] >= 2 /\ decided[e] = 0 /\ decided'[e] # 0
               => decided'[e] = decided[d]]_vars
  BY VersionStep
<1> QED
  BY <1>1, <1>2, <1>3, StreamsAccounted, PTL DEF Spec, NoDowngrade
==============================================================================
