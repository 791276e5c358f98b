---------------------------- MODULE AnyTLSSession ----------------------------
(***************************************************************************)
(* A session of anytls: many streams over one connection, on either side.   *)
(*                                                                          *)
(* On a client, callers of Dialer.DialContext open streams and wait until   *)
(* the peer is ready; on a server, recvLoop starts a handler for each       *)
(* stream the peer opens.  recvLoop hands the frames of the peer to the     *)
(* streams.  On a client Close may come from recvLoop, from Dialer.Close or *)
(* from a caller whose SYN could not be written; on a server it comes from  *)
(* recvLoop alone, and Server.Close closes the connection under it.  A      *)
(* stream has one caller or handler, who shares its name.                   *)
(*                                                                          *)
(* Frames may come from the peer at any time, but it opens a stream once;   *)
(* and it may stop reading: a write then blocks until the connection is     *)
(* closed.  How writers share the connection is module AnyTLSWrite.  Read   *)
(* deadlines are left out.                                                  *)
(***************************************************************************)
EXTENDS Integers

CONSTANTS
    Stream,     \* streams, each with its caller of DialContext or its handler
    NoStream,   \* no stream
    Version,    \* the versions a Settings or ServerSettings frame may announce
    Cap         \* capacity of Stream.readCh (32 in the code)

ASSUME SessionAssumption ==
    /\ NoStream \notin Stream
    /\ Version \subseteq Int
    /\ Cap \in Nat \ {0}

VARIABLES
    isClient,      \* Session.isClient, which nothing changes
    closed,        \* the channel Session.closed is closed
    closing,       \* what the call of Close that was first does next
    connOpen,      \* Session.conn is open
    streams,       \* the streams in Session.streams
    peerVersion,   \* Session.peerVersion, 0 while unknown
    settingsDone,  \* Session.serverSettingsDone
    timedOut,      \* Session.serverSettingsTimedOut
    receivedSettings,  \* of recvLoop: the client has sent its settings
    streamClosed,  \* streams whose channel closed is closed
    synack,        \* what has been put into synackCh of each stream
    buffered,      \* how many chunks of data wait in readCh
    recv,          \* what recvLoop does next
    recvFor,       \* ... and for which stream
    pc,            \* what each caller or handler does next
    decided        \* the version waitServerSettings gave it, 0 before

sessionVars == <<closed, closing, connOpen>>
sideVars == <<isClient, receivedSettings>>
versionVars == <<peerVersion, settingsDone, timedOut, sideVars>>
streamVars == <<streamClosed, synack, buffered>>
recvVars == <<recv, recvFor>>
callerVars == <<pc, decided>>
vars == <<sessionVars, streams, versionVars, streamVars, recvVars, callerVars>>

Go(d, next) == pc' = [pc EXCEPT ![d] = next]

Init ==
    /\ isClient \in BOOLEAN /\ receivedSettings = FALSE
    /\ closed = FALSE /\ closing = "no" /\ connOpen = TRUE
    /\ streams = {}
    /\ peerVersion = 0 /\ settingsDone = FALSE /\ timedOut = FALSE
    /\ streamClosed = {}
    /\ synack = [d \in Stream |-> "none"]
    /\ buffered = [d \in Stream |-> 0]
    /\ recv = "read" /\ recvFor = NoStream
    /\ pc = [d \in Stream |-> "idle"]
    /\ decided = [d \in Stream |-> 0]

------------------------------------------------------------------------------
(* Session.Close: only the first call does anything.                        *)
BeginClose ==
    /\ closed' = TRUE
    /\ closing' = IF closed THEN closing ELSE "conn"
    /\ UNCHANGED connOpen

(* Dialer.Close.                                                            *)
CloseDialer ==
    /\ isClient /\ ~closed
    /\ BeginClose
    /\ UNCHANGED <<streams, versionVars, streamVars, recvVars, callerVars>>

(* Server.Close closes the connections it tracks, without the session.      *)
CloseTracked ==
    /\ ~isClient /\ connOpen
    /\ connOpen' = FALSE
    /\ UNCHANGED <<closed, closing, streams, versionVars, streamVars, recvVars, callerVars>>

CloseConn ==
    /\ closing = "conn"
    /\ connOpen' = FALSE
    /\ closing' = "streams"
    /\ UNCHANGED <<closed, streams, versionVars, streamVars, recvVars, callerVars>>

(* Faulty: the streams in the map are just forgotten.                       *)
ClearStreams_Forget ==
    /\ closing = "streams"
    /\ streams' = {}
    /\ closing' = "done"
    /\ UNCHANGED <<closed, connOpen, versionVars, streamVars, recvVars, callerVars>>

(* closeRemote of every stream in the map, then an empty map.               *)
ClearStreams ==
    /\ closing = "streams"
    /\ streamClosed' = streamClosed \cup streams
    /\ streams' = {}
    /\ closing' = "done"
    /\ UNCHANGED <<closed, connOpen, versionVars, synack, buffered, recvVars,
                   callerVars>>

------------------------------------------------------------------------------
(* OpenStream looks whether the session is closed ...                       *)
OpenStream(d) ==
    /\ isClient /\ pc[d] = "idle"
    /\ Go(d, IF closed THEN "abort" ELSE "register")
    /\ UNCHANGED <<sessionVars, streams, versionVars, streamVars, recvVars, decided>>

(* ... puts a new stream into the map ...                                   *)
Register(d) ==
    /\ pc[d] = "register"
    /\ streams' = streams \cup {d}
    /\ Go(d, "syn")
    /\ UNCHANGED <<sessionVars, versionVars, streamVars, recvVars, decided>>

(* ... and writes the SYN.                                                  *)
WriteSYN(d) ==
    /\ pc[d] = "syn"
    /\ connOpen
    /\ Go(d, "addr")
    /\ UNCHANGED <<sessionVars, streams, versionVars, streamVars, recvVars, decided>>

(* A write fails on a closed connection, and may fail on an open one.       *)
WriteFails(d) ==
    /\ \/ pc[d] = "syn" /\ Go(d, "undo")
       \/ pc[d] = "addr" /\ Go(d, "close")
       \/ pc[d] = "fin" /\ Go(d, "closed")
    /\ UNCHANGED <<sessionVars, streams, versionVars, streamVars, recvVars, decided>>

(* Faulty: OpenStream returns the error and leaves the stream in the map.   *)
UndoOpen_Keep(d) ==
    /\ pc[d] = "undo"
    /\ Go(d, "abort")
    /\ UNCHANGED <<sessionVars, streams, versionVars, streamVars, recvVars, decided>>

(* closeStream(id, false), when the SYN could not be written.               *)
UndoOpen(d) ==
    /\ pc[d] = "undo"
    /\ streams' = streams \ {d}
    /\ Go(d, "abort")
    /\ UNCHANGED <<sessionVars, versionVars, streamVars, recvVars, decided>>

(* Dialer.openStream closes a session on which OpenStream failed.           *)
AbortOpen(d) ==
    /\ pc[d] = "abort"
    /\ BeginClose
    /\ Go(d, "closed")
    /\ UNCHANGED <<streams, versionVars, streamVars, recvVars, decided>>

(* The target address goes out as the first data of the stream.             *)
WriteAddr(d) ==
    /\ pc[d] = "addr"
    /\ connOpen
    /\ Go(d, "wait")
    /\ UNCHANGED <<sessionVars, streams, versionVars, streamVars, recvVars, decided>>

------------------------------------------------------------------------------
(* waitStreamReady waits for a SYNACK only from a peer of version 2.        *)
Decide(d, v) ==
    /\ decided' = [decided EXCEPT ![d] = IF v = 0 THEN 1 ELSE v]
    /\ Go(d, IF v < 2 THEN "ready" ELSE "synack")

(* serverSettingsState: the version, or that it has to be waited for.       *)
ServerSettingsState(d) ==
    /\ pc[d] = "wait"
    /\ IF settingsDone \/ peerVersion # 0 \/ timedOut
          THEN Decide(d, peerVersion)
          ELSE Go(d, "settings") /\ UNCHANGED decided
    /\ UNCHANGED <<sessionVars, streams, versionVars, streamVars, recvVars>>

(* serverSettingsCh is closed by the settings and by Close.                 *)
SettingsArrived(d) ==
    /\ pc[d] = "settings"
    /\ settingsDone \/ closed
    /\ Go(d, "version")
    /\ UNCHANGED <<sessionVars, streams, versionVars, streamVars, recvVars, decided>>

(* Faulty: the settings are never waited for with a time limit.             *)
SettingsTimeout_Never(d) ==
    /\ pc[d] = "settings"
    /\ FALSE
    /\ UNCHANGED vars

(* serverSettingsNegotiationTimeout, and markServerSettingsTimedOut.        *)
SettingsTimeout(d) ==
    /\ pc[d] = "settings"
    /\ timedOut' = (timedOut \/ (peerVersion = 0 /\ ~settingsDone))
    /\ Go(d, "version")
    /\ UNCHANGED <<sessionVars, streams, peerVersion, settingsDone, sideVars, streamVars,
                   recvVars, decided>>

(* getPeerVersion after the wait.                                           *)
GetPeerVersion(d) ==
    /\ pc[d] = "version"
    /\ Decide(d, peerVersion)
    /\ UNCHANGED <<sessionVars, streams, versionVars, streamVars, recvVars>>

(* waitSYNACK: select takes any case that is ready, the context's deadline  *)
(* among them.                                                              *)
SynackOk(d) ==
    /\ pc[d] = "synack"
    /\ synack[d] = "ok"
    /\ Go(d, "ready")
    /\ UNCHANGED <<sessionVars, streams, versionVars, streamVars, recvVars, decided>>

SynackFails(d) ==
    /\ pc[d] = "synack"
    /\ Go(d, "close")
    /\ UNCHANGED <<sessionVars, streams, versionVars, streamVars, recvVars, decided>>

------------------------------------------------------------------------------
(* Read returns a chunk that waits in readCh, or io.EOF once the channel    *)
(* closed is closed; with both it does either.                              *)
ReadData(d) ==
    /\ pc[d] = "ready"
    /\ buffered[d] > 0
    /\ buffered' = [buffered EXCEPT ![d] = @ - 1]
    /\ UNCHANGED <<sessionVars, streams, versionVars, streamClosed, synack, recvVars,
                   callerVars>>

ReadEOF(d) ==
    /\ pc[d] = "ready"
    /\ d \in streamClosed
    /\ Go(d, "eof")
    /\ UNCHANGED <<sessionVars, streams, versionVars, streamVars, recvVars, decided>>

(* The caller is done with its stream, or handleStream returns.             *)
Finish(d) ==
    /\ pc[d] \in {"ready", "eof"}
    /\ Go(d, "close")
    /\ UNCHANGED <<sessionVars, streams, versionVars, streamVars, recvVars, decided>>

(* Stream.Close does nothing more if the stream is closed already; else it  *)
(* takes it out of the map and, on a session that is open, writes a FIN.    *)
CloseStream(d) ==
    /\ pc[d] = "close"
    /\ streamClosed' = streamClosed \cup {d}
    /\ Go(d, IF d \in streamClosed THEN "closed" ELSE "forget")
    /\ UNCHANGED <<sessionVars, streams, versionVars, synack, buffered, recvVars, decided>>

ForgetStream(d) ==
    /\ pc[d] = "forget"
    /\ streams' = streams \ {d}
    /\ Go(d, IF closed THEN "closed" ELSE "fin")
    /\ UNCHANGED <<sessionVars, versionVars, streamVars, recvVars, decided>>

WriteFIN(d) ==
    /\ pc[d] = "fin"
    /\ connOpen
    /\ Go(d, "closed")
    /\ UNCHANGED <<sessionVars, streams, versionVars, streamVars, recvVars, decided>>

------------------------------------------------------------------------------
(* recvLoop reads frames; those for streams that are not in the map are     *)
(* dropped.  The peer knows of a stream once its SYN was written.           *)
Reading == recv = "read" /\ connOpen
Known(d) == d \in streams /\ pc[d] \notin {"syn", "undo"}
Proceed(op, d) == recv' = op /\ recvFor' = d

(* byte(v) of what strconv.Atoi makes of the settings.  (Faulty: v itself.) *)
Byte_Whole(v) == v
Byte(v) == v % 256

(* Faulty: the latest settings win.                                         *)
ReceiveServerSettings_Last(v) ==
    /\ isClient /\ Reading
    /\ peerVersion' = Byte(v)
    /\ settingsDone' = TRUE
    /\ timedOut' = FALSE
    /\ UNCHANGED <<sessionVars, streams, sideVars, streamVars, recvVars, callerVars>>

(* cmdServerSettings: completePeerVersion.                                  *)
ReceiveServerSettings(v) ==
    /\ isClient /\ Reading
    /\ peerVersion' = IF peerVersion = 0 \/ timedOut THEN Byte(v) ELSE peerVersion
    /\ settingsDone' = TRUE
    /\ timedOut' = FALSE
    /\ UNCHANGED <<sessionVars, streams, sideVars, streamVars, recvVars, callerVars>>

(* cmdSYNACK without a message: receiveSYNACK(nil).                         *)
ReceiveSYNACK(d) ==
    /\ Reading
    /\ Known(d)
    /\ synack' = [synack EXCEPT ![d] = IF @ = "none" THEN "ok" ELSE @]
    /\ UNCHANGED <<sessionVars, streams, versionVars, streamClosed, buffered, recvVars,
                   callerVars>>

(* cmdSYNACK with one: closeRemote, then the error goes into synackCh, then *)
(* closeStream.                                                             *)
ReceiveRefusal(d) ==
    /\ Reading
    /\ Known(d)
    /\ streamClosed' = streamClosed \cup {d}
    /\ Proceed("refuse", d)
    /\ UNCHANGED <<sessionVars, streams, versionVars, synack, buffered, callerVars>>

Refuse ==
    /\ recv = "refuse"
    /\ synack' = [synack EXCEPT ![recvFor] = IF @ = "none" THEN "error" ELSE @]
    /\ Proceed("forget", recvFor)
    /\ UNCHANGED <<sessionVars, streams, versionVars, streamClosed, buffered, callerVars>>

ForgetRefused ==
    /\ recv = "forget"
    /\ streams' = streams \ {recvFor}
    /\ Proceed("read", NoStream)
    /\ UNCHANGED <<sessionVars, versionVars, streamVars, callerVars>>

(* cmdFIN: closeStream, then closeRemote.                                   *)
ReceiveFIN(d) ==
    /\ Reading
    /\ Known(d)
    /\ streams' = streams \ {d}
    /\ Proceed("closeRemote", d)
    /\ UNCHANGED <<sessionVars, versionVars, streamClosed, synack, buffered, callerVars>>

CloseRemote ==
    /\ recv = "closeRemote"
    /\ streamClosed' = streamClosed \cup {recvFor}
    /\ Proceed("read", NoStream)
    /\ UNCHANGED <<sessionVars, streams, versionVars, synack, buffered, callerVars>>

(* cmdPSH: Stream.receive blocks while readCh is full, until the stream or  *)
(* the session is closed; a select with several cases takes any.            *)
ReceivePSH(d) ==
    /\ Reading
    /\ Known(d)
    /\ Proceed("push", d)
    /\ UNCHANGED <<sessionVars, streams, versionVars, streamVars, callerVars>>

Push ==
    /\ recv = "push"
    /\ buffered[recvFor] < Cap
    /\ buffered' = [buffered EXCEPT ![recvFor] = @ + 1]
    /\ Proceed("read", NoStream)
    /\ UNCHANGED <<sessionVars, streams, versionVars, streamClosed, synack, callerVars>>

(* Faulty: receive has no select, it just sends into readCh.                *)
DropPush_Never ==
    /\ recv = "push"
    /\ FALSE
    /\ UNCHANGED vars

DropPush ==
    /\ recv = "push"
    /\ recvFor \in streamClosed \/ closed
    /\ Proceed("read", NoStream)
    /\ UNCHANGED <<sessionVars, streams, versionVars, streamVars, callerVars>>

(* cmdHeartRequest is answered by recvLoop itself, as are the settings.     *)
ReceiveHeart ==
    /\ Reading
    /\ Proceed("answer", NoStream)
    /\ UNCHANGED <<sessionVars, streams, versionVars, streamVars, callerVars>>

Answer ==
    /\ recv = "answer"
    /\ Proceed("read", NoStream)
    /\ UNCHANGED <<sessionVars, streams, versionVars, streamVars, callerVars>>

(* cmdSettings on a server: setPeerVersion, and an answer to version 2.     *)
ReceiveSettings(v) ==
    /\ ~isClient /\ Reading
    /\ receivedSettings' = TRUE
    /\ IF v >= 2 THEN peerVersion' = Byte(v) /\ Proceed("answer", NoStream)
                 ELSE UNCHANGED <<peerVersion, recvVars>>
    /\ UNCHANGED <<sessionVars, streams, settingsDone, timedOut, isClient, streamVars, callerVars>>

(* cmdSYN on a server: getOrCreateStream, then a SYNACK from version 2 on,  *)
(* then the handler.  Before the settings the session ends with an alert.   *)
ReceiveSYN(d) ==
    /\ ~isClient /\ Reading
    /\ receivedSettings
    /\ pc[d] = "idle"
    /\ streams' = streams \cup {d}
    /\ Proceed(IF peerVersion >= 2 THEN "synack" ELSE "start", d)
    /\ UNCHANGED <<sessionVars, versionVars, streamVars, callerVars>>

ReceiveEarlySYN ==
    /\ ~isClient /\ Reading
    /\ ~receivedSettings
    /\ Proceed("alert", NoStream)
    /\ UNCHANGED <<sessionVars, streams, versionVars, streamVars, callerVars>>

WriteSYNACK ==
    /\ recv = "synack"
    /\ Proceed("start", recvFor)
    /\ UNCHANGED <<sessionVars, streams, versionVars, streamVars, callerVars>>

WriteAlert ==
    /\ recv = "alert"
    /\ Proceed("done", NoStream)
    /\ BeginClose
    /\ UNCHANGED <<streams, versionVars, streamVars, callerVars>>

(* go s.onStream(stream)                                                    *)
StartHandler ==
    /\ recv = "start"
    /\ Go(recvFor, "ready")
    /\ Proceed("read", NoStream)
    /\ UNCHANGED <<sessionVars, streams, versionVars, streamVars, decided>>

(* readFrame fails, or a frame ends the session (cmdAlert, unknown): the    *)
(* deferred Close.                                                          *)
ReceiveError ==
    /\ recv = "read"
    /\ Proceed("done", NoStream)
    /\ BeginClose
    /\ UNCHANGED <<streams, versionVars, streamVars, callerVars>>

------------------------------------------------------------------------------
(* What a caller does without the peer's help.                              *)
CallerProceeds(d) ==
    \/ Register(d)
    \/ UndoOpen(d)
    \/ AbortOpen(d)
    \/ ServerSettingsState(d)
    \/ SettingsArrived(d)
    \/ SettingsTimeout(d)
    \/ GetPeerVersion(d)
    \/ SynackOk(d)
    \/ SynackFails(d)
    \/ CloseStream(d)
    \/ ForgetStream(d)

CallerStep(d) ==
    \/ OpenStream(d)
    \/ WriteSYN(d)
    \/ WriteAddr(d)
    \/ WriteFIN(d)
    \/ WriteFails(d)
    \/ CallerProceeds(d)
    \/ ReadData(d)
    \/ ReadEOF(d)
    \/ Finish(d)

RecvProceeds == Refuse \/ ForgetRefused \/ CloseRemote \/ Push \/ DropPush \/ StartHandler

(* What recvLoop writes.                                                    *)
RecvWrites == Answer \/ WriteSYNACK \/ WriteAlert

RecvStep ==
    \/ \E v \in Version : ReceiveServerSettings(v) \/ ReceiveSettings(v)
    \/ \E d \in Stream :
          \/ ReceiveSYNACK(d) \/ ReceiveRefusal(d) \/ ReceiveFIN(d) \/ ReceivePSH(d)
          \/ ReceiveSYN(d)
    \/ RecvProceeds
    \/ RecvWrites
    \/ ReceiveHeart
    \/ ReceiveEarlySYN
    \/ ReceiveError

(* Faulty: the streams first, then the connection.                          *)
CloseStep_Swapped ==
    \/ /\ closing = "conn"
       /\ streamClosed' = streamClosed \cup streams
       /\ streams' = {}
       /\ closing' = "streams"
       /\ UNCHANGED <<closed, connOpen, versionVars, synack, buffered, recvVars, callerVars>>
    \/ /\ closing = "streams"
       /\ connOpen' = FALSE
       /\ closing' = "done"
       /\ UNCHANGED <<closed, streams, versionVars, streamVars, recvVars, callerVars>>

CloseStep == CloseConn \/ ClearStreams

Next ==
    \/ \E d \in Stream : CallerStep(d)
    \/ RecvStep
    \/ CloseStep
    \/ CloseDialer
    \/ CloseTracked

Spec == Init /\ [][Next]_vars

(* Goroutines keep running and timers fire, but a write on an open          *)
(* connection and the next frame may be waited for without end.  On a       *)
(* closed connection both fail at once.  A handler reads what its stream    *)
(* has, and returns after the end of it: it is assumed that the writes and  *)
(* dials between two reads of its relay return, which nothing in RelayTCP   *)
(* ensures (WritesReturn in module Relay).                                  *)
FairSpec ==
    /\ Spec
    /\ \A d \in Stream : WF_vars(CallerProceeds(d)) /\ WF_vars(~connOpen /\ WriteFails(d))
    /\ WF_vars(RecvProceeds)
    /\ \A d \in Stream : /\ WF_vars(~isClient /\ (ReadData(d) \/ ReadEOF(d)))
                         /\ WF_vars(~isClient /\ pc[d] = "eof" /\ Finish(d))
    /\ WF_vars(~connOpen /\ (RecvWrites \/ ReceiveError))
    /\ WF_vars(CloseStep)

------------------------------------------------------------------------------
Phase == {"idle", "register", "syn", "undo", "abort", "addr", "wait", "settings", "version",
          "synack", "ready", "eof", "close", "forget", "fin", "closed"}

TypeOK ==
    /\ isClient \in BOOLEAN /\ receivedSettings \in BOOLEAN
    /\ closed \in BOOLEAN
    /\ closing \in {"no", "conn", "streams", "done"}
    /\ connOpen \in BOOLEAN
    /\ streams \subseteq Stream
    /\ peerVersion \in 0..255
    /\ settingsDone \in BOOLEAN
    /\ timedOut \in BOOLEAN
    /\ streamClosed \subseteq Stream
    /\ synack \in [Stream -> {"none", "ok", "error"}]
    /\ buffered \in [Stream -> 0..Cap]
    /\ recv \in {"read", "refuse", "forget", "closeRemote", "push", "answer", "synack",
                "start", "alert", "done"}
    /\ recvFor \in Stream \cup {NoStream}
    /\ recv \in {"refuse", "forget", "closeRemote", "push", "synack", "start"} => recvFor \in Stream
    /\ pc \in [Stream -> Phase]
    /\ decided \in [Stream -> 0..255]

(* Streams OpenStream has returned.                                         *)
Opened == {d \in Stream : pc[d] \in {"addr", "wait", "settings", "version", "synack", "ready",
                                     "eof", "close", "forget", "fin"}}

(* Once Close has returned no reader of the session can block: every stream *)
(* handed out is closed, also one that was being opened meanwhile, except   *)
(* for the moment recvLoop takes to close the one it has a FIN for.         *)
NoOrphanStream ==
    closing = "done" =>
        \A d \in Opened : d \in streamClosed \/ (recv = "closeRemote" /\ recvFor = d)

(* A stream whose caller is finished with it does not stay in the map.      *)
NothingLeftInMap ==
    \A d \in streams : pc[d] = "closed" => recv \in {"refuse", "forget"} /\ recvFor = d

(* Two dials that were told to wait for a SYNACK saw the same version, and  *)
(* once one was told so no later dial falls back to version 1.              *)
NoDowngrade ==
    [][\A d, e \in Stream :
          decided[d] >= 2 /\ decided[e] = 0 /\ decided'[e] # 0 => decided'[e] = decided[d]]_vars

(* Close releases everyone: recvLoop ends, even if a full readCh has it     *)
(* blocked, and no caller stays in a write, a negotiation or a wait.        *)
CloseReleasesEveryone ==
    closed ~> recv = "done" /\ \A d \in Stream : pc[d] \in {"idle", "ready", "eof", "closed"}

(* A server whose connection is closed, by the peer or by Server.Close, is  *)
(* left with no goroutine of that session: recvLoop gets out of a full      *)
(* readCh, and every handler sees the end of its stream and returns.        *)
HandlersEnd ==
    ~isClient /\ ~connOpen ~> recv = "done" /\ \A d \in Stream : pc[d] \in {"idle", "closed"}

(* Dials do not wait for a silent peer beyond their time limits.            *)
Negotiating == {d \in Stream : pc[d] \in {"wait", "settings", "version", "synack"}}
NegotiationEnds == Negotiating # {} ~> Negotiating = {}
==============================================================================
