-------------------------- MODULE AnyTLSWriteProofs --------------------------
(***************************************************************************)
(* The write deadlines of the streams of a session do not get mixed up, and *)
(* neither do their frames, for any number of streams, writers and setters. *)
(*                                                                          *)
(* writeMu gives the connection to one frame at a time (OneFrame), a stream *)
(* is active only while its own frame has the connection (ActiveWrites),    *)
(* and every copy of a deadline on its way to the connection was given to   *)
(* the stream it travels for (DeadlinesAsked).                              *)
(***************************************************************************)
EXTENDS AnyTLSWrite, TLAPS

OneFrame ==
    \A w \in Writer :
        pc[w] \in {"check", "begin", "header", "data", "end", "unlock"} => writeMu = w

ActiveWrites ==
    activeWrite # NoStream =>
        /\ writeMu \in Writer
        /\ pc[writeMu] \in {"header", "data", "end"}
        /\ stream[writeMu] = activeWrite

DeadlinesAsked ==
    /\ \A s \in Stream : writeDeadline[s] \in asked[s] \cup {0}
    /\ \A w \in Writer : pc[w] = "begin" => deadline[w] \in asked[stream[w]] \cup {0}
    /\ \A g \in Setter : setPc[g] = "update" => setTo[g] \in asked[setStream[g]]
    /\ connDeadline # 0 => activeWrite # NoStream /\ connDeadline \in asked[activeWrite]

IInv == TypeOK /\ OneFrame /\ ActiveWrites /\ DeadlinesAsked

(* Whatever deadline a write runs under was given to the stream that is     *)
(* writing; a control frame runs under none.                                *)
DeadlineStaysWithStream ==
    \A w \in Writer : Writing(w) /\ connDeadline # 0 =>
        stream[w] # NoStream /\ connDeadline \in asked[stream[w]]

LEMMA OwnDeadline == IInv => DeadlineStaysWithStream
  BY DEF IInv, TypeOK, OneFrame, ActiveWrites, DeadlinesAsked, DeadlineStaysWithStream, Writing

LEMMA InitIInv == Init => IInv
  <1> SUFFICES ASSUME Init PROVE IInv
    OBVIOUS
  <1>0. 0 \in Time
    BY WriteAssumption DEF Time
  <1>1. TypeOK
    BY <1>0 DEF Init, TypeOK
  <1> QED
    BY <1>1 DEF Init, IInv, OneFrame, ActiveWrites, DeadlinesAsked

LEMMA NextIInv == IInv /\ [Next]_vars => IInv'
  <1> SUFFICES ASSUME IInv, [Next]_vars PROVE IInv'
    OBVIOUS
  <1> USE WriteAssumption DEF IInv, connVars, writerVars, setterVars
  <1>1. CASE UNCHANGED vars
    BY <1>1 DEF vars, TypeOK, OneFrame, ActiveWrites, DeadlinesAsked
  <1>2. CASE Tick
    BY <1>2 DEF Tick, TypeOK, OneFrame, ActiveWrites, DeadlinesAsked, Time
  <1>3. CASE CloseConn
    BY <1>3 DEF CloseConn, TypeOK, OneFrame, ActiveWrites, DeadlinesAsked
  <1>4. ASSUME NEW w \in Writer, NEW s \in Stream \cup {NoStream}, StartWrite(w, s) PROVE IInv'
    <2>1. TypeOK'
      BY <1>4 DEF StartWrite, TypeOK
    <2>2. OneFrame'
      BY <1>4 DEF StartWrite, TypeOK, OneFrame
    <2>3. ActiveWrites'
      BY <1>4 DEF StartWrite, TypeOK, ActiveWrites
    <2>4. DeadlinesAsked'
      BY <1>4 DEF StartWrite, TypeOK, DeadlinesAsked
    <2> QED
      BY <2>1, <2>2, <2>3, <2>4
  <1>5. ASSUME NEW w \in Writer, WriterStep(w) PROVE IInv'
    <2>1. CASE LockWriteMu(w)
      <3>1. TypeOK'
        BY <2>1 DEF LockWriteMu, TypeOK
      <3>2. OneFrame'
        BY <2>1 DEF LockWriteMu, TypeOK, OneFrame
      <3>3. ActiveWrites'
        BY <2>1 DEF LockWriteMu, TypeOK, ActiveWrites, OneFrame
      <3>4. DeadlinesAsked'
        BY <2>1 DEF LockWriteMu, TypeOK, DeadlinesAsked, ActiveWrites, OneFrame
      <3> QED
        BY <3>1, <3>2, <3>3, <3>4
    <2>2. CASE GetWriteDeadline(w)
      <3>1. TypeOK'
        BY <2>2 DEF GetWriteDeadline, TypeOK
      <3>2. OneFrame'
        BY <2>2 DEF GetWriteDeadline, TypeOK, OneFrame
      <3>3. ActiveWrites'
        BY <2>2 DEF GetWriteDeadline, TypeOK, ActiveWrites, OneFrame
      <3>4. DeadlinesAsked'
        BY <2>2 DEF GetWriteDeadline, TypeOK, DeadlinesAsked, ActiveWrites, OneFrame
      <3> QED
        BY <3>1, <3>2, <3>3, <3>4
    <2>3. CASE BeginStreamWrite(w)
      <3>1. TypeOK'
        BY <2>3 DEF BeginStreamWrite, TypeOK
      <3>2. OneFrame'
        BY <2>3 DEF BeginStreamWrite, TypeOK, OneFrame
      <3>3. ActiveWrites'
        BY <2>3 DEF BeginStreamWrite, TypeOK, ActiveWrites, OneFrame
      <3>4. DeadlinesAsked'
        BY <2>3 DEF BeginStreamWrite, TypeOK, DeadlinesAsked, ActiveWrites, OneFrame
      <3> QED
        BY <3>1, <3>2, <3>3, <3>4
    <2>4. CASE WriteHeader(w)
      <3>1. TypeOK'
        BY <2>4 DEF WriteHeader, TypeOK
      <3>2. OneFrame'
        BY <2>4 DEF WriteHeader, TypeOK, OneFrame
      <3>3. ActiveWrites'
        BY <2>4 DEF WriteHeader, TypeOK, ActiveWrites, OneFrame
      <3>4. DeadlinesAsked'
        BY <2>4 DEF WriteHeader, TypeOK, DeadlinesAsked, ActiveWrites, OneFrame
      <3> QED
        BY <3>1, <3>2, <3>3, <3>4
    <2>5. CASE WriteData(w)
      <3>1. TypeOK'
        BY <2>5 DEF WriteData, TypeOK
      <3>2. OneFrame'
        BY <2>5 DEF WriteData, TypeOK, OneFrame
      <3>3. ActiveWrites'
        BY <2>5 DEF WriteData, TypeOK, ActiveWrites, OneFrame
      <3>4. DeadlinesAsked'
        BY <2>5 DEF WriteData, TypeOK, DeadlinesAsked, ActiveWrites, OneFrame
      <3> QED
        BY <3>1, <3>2, <3>3, <3>4
    <2>6. CASE WriteFails(w)
      <3>1. TypeOK'
        BY <2>6 DEF WriteFails, TypeOK, After
      <3>2. OneFrame'
        BY <2>6 DEF WriteFails, TypeOK, OneFrame, After
      <3>3. ActiveWrites'
        BY <2>6 DEF WriteFails, TypeOK, ActiveWrites, OneFrame, After
      <3>4. DeadlinesAsked'
        BY <2>6 DEF WriteFails, TypeOK, DeadlinesAsked, ActiveWrites, OneFrame, After
      <3> QED
        BY <3>1, <3>2, <3>3, <3>4
    <2>7. CASE EndStreamWrite(w)
      <3>1. TypeOK'
        BY <2>7 DEF EndStreamWrite, TypeOK, Time
      <3>2. OneFrame'
        BY <2>7 DEF EndStreamWrite, TypeOK, OneFrame
      <3>3. ActiveWrites'
        BY <2>7 DEF EndStreamWrite, TypeOK, ActiveWrites, OneFrame
      <3>4. DeadlinesAsked'
        BY <2>7 DEF EndStreamWrite, TypeOK, DeadlinesAsked, ActiveWrites, OneFrame
      <3> QED
        BY <3>1, <3>2, <3>3, <3>4
    <2>8. CASE UnlockWriteMu(w)
      <3>1. TypeOK'
        BY <2>8 DEF UnlockWriteMu, TypeOK
      <3>2. OneFrame'
        BY <2>8 DEF UnlockWriteMu, TypeOK, OneFrame
      <3>3. ActiveWrites'
        BY <2>8 DEF UnlockWriteMu, TypeOK, ActiveWrites, OneFrame
      <3>4. DeadlinesAsked'
        BY <2>8 DEF UnlockWriteMu, TypeOK, DeadlinesAsked, ActiveWrites, OneFrame
      <3> QED
        BY <3>1, <3>2, <3>3, <3>4
    <2> QED
      BY <1>5, <2>1, <2>2, <2>3, <2>4, <2>5, <2>6, <2>7, <2>8 DEF WriterStep
  <1>6. ASSUME NEW g \in Setter, NEW s \in Stream, NEW t \in Time, SetWriteDeadline(g, s, t)
        PROVE IInv'
    <2>1. TypeOK' /\ OneFrame' /\ ActiveWrites'
      BY <1>6 DEF SetWriteDeadline, TypeOK, OneFrame, ActiveWrites
    <2>2. \A r \in Stream : asked[r] \subseteq asked'[r]
      BY <1>6 DEF SetWriteDeadline, TypeOK
    <2>3. t \in asked'[s]
      BY <1>6 DEF SetWriteDeadline, TypeOK
    <2>4. DeadlinesAsked'
      BY <1>6, <2>2, <2>3 DEF SetWriteDeadline, TypeOK, DeadlinesAsked
    <2> QED
      BY <2>1, <2>4
  <1>7. ASSUME NEW g \in Setter, UpdateActiveWriteDeadline(g) PROVE IInv'
    <2>1. TypeOK' /\ OneFrame' /\ ActiveWrites'
      BY <1>7 DEF UpdateActiveWriteDeadline, TypeOK, OneFrame, ActiveWrites
    <2>2. DeadlinesAsked'
      BY <1>7 DEF UpdateActiveWriteDeadline, TypeOK, DeadlinesAsked
    <2> QED
      BY <2>1, <2>2
  <1> QED
    BY <1>1, <1>2, <1>3, <1>4, <1>5, <1>6, <1>7 DEF Next

LEMMA Invariant == Spec => []IInv
  BY InitIInv, NextIInv, PTL DEF Spec

(* A write breaks the connection for its own stream; the deadline that      *)
(* passed does not go away.                                                 *)
LEMMA NextBreaks == IInv /\ OwnDeadlineBreaks /\ [Next]_vars => OwnDeadlineBreaks'
  <1> SUFFICES ASSUME IInv, OwnDeadlineBreaks, [Next]_vars PROVE OwnDeadlineBreaks'
    OBVIOUS
  <1>a. TypeOK'
    BY NextIInv DEF IInv
  <1>b. broken' \subseteq Stream \cup {NoStream}
    BY <1>a DEF TypeOK
  <1> SUFFICES ASSUME NEW s \in Stream \cup {NoStream}, s \in broken'
               PROVE  s # NoStream /\ \E t \in asked'[s] : t # 0 /\ t <= now'
    BY <1>b DEF OwnDeadlineBreaks
  <1> USE WriteAssumption DEF IInv, connVars, writerVars, setterVars
  <1> DEFINE Passed(r) == r # NoStream /\ \E t \in asked[r] : t # 0 /\ t <= now
  <1>1. s \in broken => Passed(s)
    BY DEF OwnDeadlineBreaks
  <1>2. ASSUME UNCHANGED <<now, asked, broken>> PROVE Passed(s)'
    BY <1>1, <1>2
  <1>3. CASE UNCHANGED vars \/ CloseConn
    BY <1>2, <1>3 DEF vars, CloseConn
  <1>4. CASE Tick
    BY <1>1, <1>4 DEF Tick, TypeOK, Time
  <1>5. ASSUME NEW w \in Writer, NEW r \in Stream \cup {NoStream}, StartWrite(w, r)
        PROVE  Passed(s)'
    BY <1>2, <1>5 DEF StartWrite
  <1>6. ASSUME NEW w \in Writer, WriterStep(w) PROVE Passed(s)'
    <2>1. CASE UNCHANGED <<now, asked, broken>>
      BY <1>2, <2>1
    <2>2. CASE WriteFails(w) /\ broken' # broken
      <3>1. /\ Writing(w) /\ deadlineExceeded(connDeadline)
            /\ s = stream[w] /\ now' = now /\ asked' = asked
        BY <2>2 DEF WriteFails, Writing
      <3>2. connDeadline # 0 /\ connDeadline <= now
        BY <3>1 DEF deadlineExceeded
      <3>3. stream[w] # NoStream /\ connDeadline \in asked[stream[w]]
        BY <3>1, <3>2, OwnDeadline DEF DeadlineStaysWithStream
      <3> QED
        BY <3>1, <3>2, <3>3
    <2> QED
      BY <1>6, <2>1, <2>2 DEF WriterStep, LockWriteMu, GetWriteDeadline, BeginStreamWrite,
         WriteHeader, WriteData, WriteFails, EndStreamWrite, UnlockWriteMu
  <1>7. ASSUME NEW g \in Setter, NEW r \in Stream, NEW t \in Time, SetWriteDeadline(g, r, t)
        PROVE  Passed(s)'
    <2>1. now' = now /\ broken' = broken /\ (s # NoStream => asked[s] \subseteq asked'[s])
      BY <1>7 DEF SetWriteDeadline, TypeOK
    <2> QED
      BY <1>1, <2>1
  <1>8. ASSUME NEW g \in Setter, UpdateActiveWriteDeadline(g) PROVE Passed(s)'
    BY <1>2, <1>8 DEF UpdateActiveWriteDeadline
  <1> QED
    BY <1>3, <1>4, <1>5, <1>6, <1>7, <1>8 DEF Next

(* One frame at a time has writeMu, so the header that is owed its data is  *)
(* that of the writer in "data"; after a failure nothing is written.        *)
LEMMA NextWhole == IInv /\ WholeFrames /\ [Next]_vars => WholeFrames'
  <1> SUFFICES ASSUME IInv, WholeFrames, [Next]_vars PROVE WholeFrames'
    OBVIOUS
  <1> USE WriteAssumption DEF IInv, connVars, writerVars, setterVars
  <1> DEFINE Same == UNCHANGED <<owed, broken, connClosed>>
  <1>1. CASE Same /\ \A w \in Writer :
                (pc[w] = "data" <=> pc'[w] = "data") /\ (pc[w] = "data" => stream'[w] = stream[w])
    BY <1>1 DEF WholeFrames
  <1>2. CASE UNCHANGED vars \/ Tick
    BY <1>1, <1>2 DEF vars, Tick
  <1>3. CASE CloseConn
    BY <1>3 DEF CloseConn, WholeFrames
  <1>4. ASSUME NEW w \in Writer, NEW r \in Stream \cup {NoStream}, StartWrite(w, r)
        PROVE  WholeFrames'
    BY <1>1, <1>4 DEF StartWrite, TypeOK
  <1>5. ASSUME NEW w \in Writer, WriterStep(w) PROVE WholeFrames'
    <2>1. CASE \/ LockWriteMu(w) \/ GetWriteDeadline(w) \/ BeginStreamWrite(w)
               \/ EndStreamWrite(w) \/ UnlockWriteMu(w)
      <3>1. \A v \in Writer : pc[v] = "data" <=> pc'[v] = "data"
        BY <2>1 DEF LockWriteMu, GetWriteDeadline, BeginStreamWrite, EndStreamWrite,
           UnlockWriteMu, TypeOK
      <3>2. Same /\ stream' = stream
        BY <2>1 DEF LockWriteMu, GetWriteDeadline, BeginStreamWrite, EndStreamWrite,
           UnlockWriteMu
      <3> QED
        BY <1>1, <3>1, <3>2
    <2>2. CASE WriteHeader(w)
      <3>1. \A v \in Writer : pc'[v] = "data" => v = w
        BY <2>2 DEF WriteHeader, TypeOK, OneFrame
      <3>2. owed' = stream'[w] /\ (owed' # NoStream => pc'[w] = "data")
        BY <2>2 DEF WriteHeader, TypeOK
      <3> QED
        BY <3>1, <3>2 DEF WholeFrames
    <2>3. CASE WriteData(w)
      <3>1. \A v \in Writer : pc'[v] # "data"
        BY <2>3 DEF WriteData, TypeOK, OneFrame
      <3> QED
        BY <2>3, <3>1 DEF WriteData, WholeFrames
    <2>4. CASE WriteFails(w)
      <3>1. /\ owed' = owed /\ stream' = stream /\ (connClosed' \/ broken' # {})
            /\ \A v \in Writer : pc'[v] = "data" => pc[v] = "data"
        BY <2>4 DEF WriteFails, After, TypeOK
      <3> QED
        BY <3>1 DEF WholeFrames
    <2> QED
      BY <1>5, <2>1, <2>2, <2>3, <2>4 DEF WriterStep
  <1>6. ASSUME NEW g \in Setter, NEW r \in Stream, NEW t \in Time, SetWriteDeadline(g, r, t)
        PROVE  WholeFrames'
    BY <1>1, <1>6 DEF SetWriteDeadline
  <1>7. ASSUME NEW g \in Setter, UpdateActiveWriteDeadline(g) PROVE WholeFrames'
    BY <1>1, <1>7 DEF UpdateActiveWriteDeadline
  <1> QED
    BY <1>2, <1>3, <1>4, <1>5, <1>6, <1>7 DEF Next

(* Every variable keeps its type, and only frames of streams reach the code *)
(* that handles write deadlines.                                            *)
THEOREM TypeCorrect == Spec => []TypeOK
<1>1. IInv => TypeOK
  BY DEF IInv
<1> QED
  BY <1>1, Invariant, PTL

(* Whenever a write runs under a deadline, it is one that was given to the  *)
(* stream that writes: the deadlines of two streams never get mixed up.     *)
THEOREM DeadlinesStayWithStreams == Spec => []DeadlineStaysWithStream
  BY OwnDeadline, Invariant, PTL

(* The TLS connection is only ever broken by a deadline that was given to   *)
(* the stream that was writing and has passed, never by one left behind by  *)
(* another stream nor in a control frame.                                   *)
THEOREM BreaksAreOwn == Spec => []OwnDeadlineBreaks
<1>1. Init => OwnDeadlineBreaks
  BY DEF Init, OwnDeadlineBreaks
<1>2. IInv /\ OwnDeadlineBreaks /\ [Next]_vars => OwnDeadlineBreaks'
  BY NextBreaks
<1> QED
  BY <1>1, <1>2, Invariant, PTL DEF Spec

(* Frames never interleave on the wire, and nothing is ever written behind  *)
(* a header whose data did not get out.                                     *)
THEOREM FramesAreWhole == Spec => []WholeFrames
<1>1. Init => WholeFrames
  BY DEF Init, WholeFrames
<1>2. IInv /\ WholeFrames /\ [Next]_vars => WholeFrames'
  BY NextWhole
<1> QED
  BY <1>1, <1>2, Invariant, PTL DEF Spec
==============================================================================
