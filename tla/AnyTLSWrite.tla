----------------------------- MODULE AnyTLSWrite -----------------------------
(***************************************************************************)
(* How the streams of an anytls session share the write side of its         *)
(* connection.                                                              *)
(*                                                                          *)
(* writeMu serialises frames.  A frame of a stream is written under the     *)
(* write deadline of that stream: writeFrameForStream reads the deadline,   *)
(* records the stream as activeWrite and sets the deadline of the           *)
(* connection; SetWriteDeadline stores the deadline in the stream and, if   *)
(* the stream is the active one, moves the deadline of the connection.      *)
(* Control frames (SYN, FIN, SYNACK, ...) are written without a deadline.   *)
(* A frame with a payload goes out in two writes, header and data.          *)
(*                                                                          *)
(* The connection is a TLS one at both ends (server.go, dialer.go): the     *)
(* first write that times out leaves its write side broken for good, for    *)
(* every stream, while the session stays open.                              *)
(*                                                                          *)
(* A deadline is a moment of a bounded clock, 0 stands for none; a write    *)
(* blocks as long as the peer does not read.                                *)
(***************************************************************************)
EXTENDS Naturals

CONSTANTS
    Writer,     \* goroutines that write frames
    Setter,     \* goroutines that call SetWriteDeadline
    Stream,
    NoStream,   \* activeWrite is nil; a control frame
    Nobody,     \* holder of a free writeMu
    MaxTime     \* last moment of the clock

ASSUME WriteAssumption ==
    /\ NoStream \notin Stream
    /\ Nobody \notin Writer
    /\ MaxTime \in Nat

Time == 0..MaxTime

VARIABLES
    now,
    writeDeadline,  \* of each stream
    asked,          \* deadlines each stream has been given so far
    connDeadline,   \* write deadline of the connection
    activeWrite,
    writeMu,
    owed,           \* stream whose header is on the wire without its data
    broken,         \* whose write timed out and broke the write side: {} or one of
                    \* Stream \cup {NoStream}
    connClosed,
    pc,             \* what each writer does next
    stream,         \* the stream it writes a frame of, or NoStream
    deadline,       \* the deadline it has read
    setPc,          \* what each setter does next
    setStream,      \* the stream it sets a deadline of
    setTo           \* that deadline

writerVars == <<pc, stream, deadline>>
setterVars == <<setPc, setStream, setTo>>
connVars == <<connDeadline, activeWrite, writeMu, owed, broken, connClosed>>
vars == <<now, writeDeadline, asked, connVars, writerVars, setterVars>>

deadlineExceeded(t) == t # 0 /\ t <= now

------------------------------------------------------------------------------
Init ==
    /\ now = 0
    /\ writeDeadline = [s \in Stream |-> 0]
    /\ asked = [s \in Stream |-> {}]
    /\ connDeadline = 0
    /\ activeWrite = NoStream
    /\ writeMu = Nobody
    /\ owed = NoStream
    /\ broken = {}
    /\ connClosed = FALSE
    /\ pc = [w \in Writer |-> "idle"]
    /\ stream = [w \in Writer |-> NoStream]
    /\ deadline = [w \in Writer |-> 0]
    /\ setPc = [g \in Setter |-> "idle"]
    /\ setStream \in [Setter -> Stream]
    /\ setTo = [g \in Setter |-> 0]

Tick ==
    /\ now < MaxTime
    /\ now' = now + 1
    /\ UNCHANGED <<writeDeadline, asked, connVars, writerVars, setterVars>>

(* Session.Close, or the peer.                                              *)
CloseConn ==
    /\ ~connClosed
    /\ connClosed' = TRUE
    /\ UNCHANGED <<now, writeDeadline, asked, connDeadline, activeWrite, writeMu, owed,
                   broken, writerVars, setterVars>>

(* Stream.Write of stream s; writeFrame if s is NoStream.                   *)
StartWrite(w, s) ==
    /\ pc[w] = "idle"
    /\ s # NoStream => ~deadlineExceeded(writeDeadline[s])
    /\ pc' = [pc EXCEPT ![w] = "lock"]
    /\ stream' = [stream EXCEPT ![w] = s]
    /\ UNCHANGED <<now, writeDeadline, asked, connVars, deadline, setterVars>>

(* Faulty: control frames do not wait for the frame that is being written.  *)
LockWriteMu_Streams(w) ==
    /\ pc[w] = "lock"
    /\ stream[w] # NoStream => writeMu = Nobody
    /\ writeMu' = w
    /\ pc' = [pc EXCEPT ![w] = IF stream[w] = NoStream THEN "header" ELSE "check"]
    /\ UNCHANGED <<now, writeDeadline, asked, connDeadline, activeWrite, owed, broken, connClosed,
                   stream, deadline, setterVars>>

LockWriteMu(w) ==
    /\ pc[w] = "lock"
    /\ writeMu = Nobody
    /\ writeMu' = w
    /\ pc' = [pc EXCEPT ![w] = IF stream[w] = NoStream THEN "header" ELSE "check"]
    /\ UNCHANGED <<now, writeDeadline, asked, connDeadline, activeWrite, owed, broken, connClosed,
                   stream, deadline, setterVars>>

(* stream.getWriteDeadline().                                               *)
GetWriteDeadline(w) ==
    /\ pc[w] = "check"
    /\ deadline' = [deadline EXCEPT ![w] = writeDeadline[stream[w]]]
    /\ pc' = [pc EXCEPT ![w] =
                IF deadlineExceeded(writeDeadline[stream[w]]) THEN "unlock" ELSE "begin"]
    /\ UNCHANGED <<now, writeDeadline, asked, connVars, stream, setterVars>>

(* Setting the deadline of a closed connection is an error.                 *)
BeginStreamWrite(w) ==
    /\ pc[w] = "begin"
    /\ activeWrite' = stream[w]
    /\ connDeadline' = IF connClosed THEN connDeadline ELSE deadline[w]
    /\ pc' = [pc EXCEPT ![w] = IF connClosed THEN "end" ELSE "header"]
    /\ UNCHANGED <<now, writeDeadline, asked, writeMu, owed, broken, connClosed, stream,
                   deadline, setterVars>>

(* What follows a frame: the deferred endStreamWrite of a stream's frame.   *)
After(w) == IF stream[w] = NoStream THEN "unlock" ELSE "end"

(* A control frame has no deadline, so its payload, which only SETTINGS and *)
(* ALERT frames have, is not told apart from its header.                    *)
WriteHeader(w) ==
    /\ pc[w] = "header"
    /\ ~connClosed /\ broken = {}
    /\ owed' = stream[w]
    /\ pc' = [pc EXCEPT ![w] = IF stream[w] = NoStream THEN "unlock" ELSE "data"]
    /\ UNCHANGED <<now, writeDeadline, asked, connDeadline, activeWrite, writeMu, broken,
                   connClosed, stream, deadline, setterVars>>

WriteData(w) ==
    /\ pc[w] = "data"
    /\ ~connClosed /\ broken = {}
    /\ owed' = NoStream
    /\ pc' = [pc EXCEPT ![w] = "end"]
    /\ UNCHANGED <<now, writeDeadline, asked, connDeadline, activeWrite, writeMu, broken,
                   connClosed, stream, deadline, setterVars>>

(* A write fails when the connection is closed or broken, or when its       *)
(* deadline is exceeded; the latter breaks the connection.                  *)
WriteFails(w) ==
    /\ pc[w] \in {"header", "data"}
    /\ \/ (connClosed \/ broken # {}) /\ UNCHANGED broken
       \/ ~connClosed /\ broken = {} /\ deadlineExceeded(connDeadline) /\ broken' = {stream[w]}
    /\ pc' = [pc EXCEPT ![w] = After(w)]
    /\ UNCHANGED <<now, writeDeadline, asked, connDeadline, activeWrite, writeMu, owed,
                   connClosed, stream, deadline, setterVars>>

(* Faulty: leaves the deadline on the connection.                           *)
EndStreamWrite_Keep(w) ==
    /\ pc[w] = "end"
    /\ activeWrite' = NoStream
    /\ pc' = [pc EXCEPT ![w] = "unlock"]
    /\ UNCHANGED <<now, writeDeadline, asked, connDeadline, writeMu, owed, broken, connClosed,
                   stream, deadline, setterVars>>

EndStreamWrite(w) ==
    /\ pc[w] = "end"
    /\ IF activeWrite = stream[w]
          THEN activeWrite' = NoStream /\ connDeadline' = 0
          ELSE UNCHANGED <<activeWrite, connDeadline>>
    /\ pc' = [pc EXCEPT ![w] = "unlock"]
    /\ UNCHANGED <<now, writeDeadline, asked, writeMu, owed, broken, connClosed, stream,
                   deadline, setterVars>>

(* The frame is done; Stream.Write may go on with the next one.             *)
UnlockWriteMu(w) ==
    /\ pc[w] = "unlock"
    /\ writeMu' = Nobody
    /\ \E next \in {"idle"} \cup (IF stream[w] # NoStream THEN {"lock"} ELSE {}) :
          pc' = [pc EXCEPT ![w] = next]
    /\ UNCHANGED <<now, writeDeadline, asked, connDeadline, activeWrite, owed, broken, connClosed,
                   stream, deadline, setterVars>>

------------------------------------------------------------------------------
(* SetWriteDeadline, first half: under the stream's mutex.                  *)
SetWriteDeadline(g, s, t) ==
    /\ setPc[g] = "idle"
    /\ writeDeadline' = [writeDeadline EXCEPT ![s] = t]
    /\ asked' = [asked EXCEPT ![s] = @ \cup {t}]
    /\ setPc' = [setPc EXCEPT ![g] = "update"]
    /\ setStream' = [setStream EXCEPT ![g] = s]
    /\ setTo' = [setTo EXCEPT ![g] = t]
    /\ UNCHANGED <<now, connVars, writerVars>>

(* Second half: updateActiveWriteDeadline, under writeStateMu.              *)
UpdateActiveWriteDeadline(g) ==
    /\ setPc[g] = "update"
    /\ connDeadline' =
          IF activeWrite = setStream[g] /\ ~connClosed THEN setTo[g] ELSE connDeadline
    /\ setPc' = [setPc EXCEPT ![g] = "idle"]
    /\ UNCHANGED <<now, writeDeadline, asked, activeWrite, writeMu, owed, broken,
                   connClosed, writerVars, setStream, setTo>>

WriterStep(w) ==
    \/ LockWriteMu(w)
    \/ GetWriteDeadline(w)
    \/ BeginStreamWrite(w)
    \/ WriteHeader(w)
    \/ WriteData(w)
    \/ WriteFails(w)
    \/ EndStreamWrite(w)
    \/ UnlockWriteMu(w)

Next ==
    \/ Tick
    \/ CloseConn
    \/ \E w \in Writer :
          (\E s \in Stream \cup {NoStream} : StartWrite(w, s)) \/ WriterStep(w)
    \/ \E g \in Setter :
          \/ \E s \in Stream, t \in Time : SetWriteDeadline(g, s, t)
          \/ UpdateActiveWriteDeadline(g)

Spec == Init /\ [][Next]_vars

------------------------------------------------------------------------------
Writing(w) == pc[w] \in {"header", "data"}

(* The types, and: only the frames of streams go through the deadline code. *)
TypeOK ==
    /\ now \in Time
    /\ writeDeadline \in [Stream -> Time]
    /\ asked \in [Stream -> SUBSET Time]
    /\ connDeadline \in Time
    /\ activeWrite \in Stream \cup {NoStream}
    /\ writeMu \in Writer \cup {Nobody}
    /\ owed \in Stream \cup {NoStream}
    /\ broken \in {{}} \cup {{s} : s \in Stream \cup {NoStream}}
    /\ connClosed \in BOOLEAN
    /\ pc \in [Writer -> {"idle", "lock", "check", "begin", "header", "data", "end", "unlock"}]
    /\ stream \in [Writer -> Stream \cup {NoStream}]
    /\ \A w \in Writer : pc[w] \in {"check", "begin", "data", "end"} => stream[w] # NoStream
    /\ deadline \in [Writer -> Time]
    /\ setPc \in [Setter -> {"idle", "update"}]
    /\ setStream \in [Setter -> Stream]
    /\ setTo \in [Setter -> Time]

(* What breaks the connection is a deadline of the stream that was writing, *)
(* given to it and passed: a deadline left behind by an earlier frame, or   *)
(* moved to the connection by a setter that came late, never breaks it in   *)
(* the hands of another stream, or of a control frame, which has none.      *)
OwnDeadlineBreaks ==
    \A s \in broken : s # NoStream /\ \E t \in asked[s] : t # 0 /\ t <= now

(* The peer can tell the frames apart: between the header of a frame and    *)
(* its data nothing else is written, and a header stays without its data    *)
(* only where nothing can be written behind it any more.                    *)
WholeFrames ==
    /\ \A w \in Writer : pc[w] = "data" => owed = stream[w]
    /\ owed # NoStream =>
          \/ connClosed
          \/ broken # {}
          \/ \E w \in Writer : pc[w] = "data" /\ stream[w] = owed

(* What the test TestStreamWriteDeadlineDoesNotPoisonOtherStreams says (it  *)
(* runs on a net.Pipe): a deadline that passed for one stream does not make *)
(* the frames of the others fail.  On the TLS connection of the program it  *)
(* does.                                                                    *)
DeadlinePoisonsNobody ==
    \A w \in Writer :
        Writing(w) /\ stream[w] # NoStream /\ ~connClosed => broken \subseteq {stream[w]}
==============================================================================
