-------------------------------- MODULE Relay --------------------------------
(***************************************************************************)
(* One relayed stream: the handler dials the target and copies both ways    *)
(* until it may return.  Direction "up" is client to target, "down" target  *)
(* to client; each is copied by a goroutine of its own.  The kinds:         *)
(*   "tcp"   server.RelayTCP, of every server                               *)
(*   "uot"   relayUoT of juicity and vmess: UDP packets over the stream     *)
(*   "conn"  handleUOT of anytls                                            *)
(*                                                                          *)
(* When a direction of "tcp" or "uot" ends, its goroutine passes the end on *)
(* (CloseWrite, if the connection has it) and gives the other direction 10  *)
(* seconds, by a deadline for the reads of the other side.  The copies of   *)
(* "uot" and "conn" set a deadline of 3 minutes before each read and each   *)
(* write.  The handler waits for both goroutines, in "conn" for the first,  *)
(* and closes what it defers.                                               *)
(*                                                                          *)
(* An end may be a Stream of anytls: it has no CloseWrite, a Read of it     *)
(* gives EOF as soon as it is closed by whomever, though chunks wait or the *)
(* session broke, and a Write of it does not look whether it is closed, but *)
(* waits for its turn on the connection of the session.                     *)
(***************************************************************************)
EXTENDS Naturals

CONSTANTS
    Kinds,   \* the kinds of relay
    MaxBuf   \* bound: chunks or packets that wait to be read from one side

Dir == {"up", "down"}
Other(d) == IF d = "up" THEN "down" ELSE "up"
End == {"client", "target"}
Source(d) == IF d = "up" THEN "client" ELSE "target"
Dest(d) == Source(Other(d))
Sort == {"anytls", "halfClose", "plain"}   \* an anytls Stream; with, without CloseWrite
Outcome == {"ok", "failed", "unsent"}   \* of dialling the target

ASSUME RelayAssumption == Kinds \subseteq {"tcp", "uot", "conn"} /\ MaxBuf \in Nat

VARIABLES
    kind,
    ends,      \* ends[e]: what sort of connection the end e is
    handler,   \* "front" (module Serving), "dial", "relay", "returned"
    buf,       \* buf[d]: what the source of d has sent and nobody has read
    src,       \* src[d]: the source is "open", has ended ("fin") or "broken"
    copy,      \* copy[d]: what the goroutine of d does next
    err,       \* err[d]: how the copy ended: "none" (not yet), "eof", "timeout", "error"
    deadline,  \* deadline[d]: for reads of the source of d: "none", "armed", "past"
    fin,       \* fin[d]: what the destination of d was told: "no", "clean", "cut"
    isOpen,    \* the ends that are not closed
    result     \* of the relay, when it returned: "nil", "timeout", "error"

copyVars == <<copy, err, deadline, fin>>
rlvars == <<kind, ends, handler, buf, src, copyVars, isOpen, result>>

(* handleUOT is anytls' own, relayUoT never; sockets for packets have no    *)
(* CloseWrite.                                                              *)
EndsOf(k) ==
    /\ k = "conn" => ends["client"] = "anytls"
    /\ k = "uot" => ends["client"] # "anytls"
    /\ k # "tcp" => ends["target"] # "halfClose"

Init ==
    /\ kind \in Kinds /\ handler = "dial"
    /\ ends \in [End -> Sort] /\ EndsOf(kind)
    /\ buf = [d \in Dir |-> 0] /\ src = [d \in Dir |-> "open"]
    /\ copy = [d \in Dir |-> "off"] /\ err = [d \in Dir |-> "none"]
    /\ deadline = [d \in Dir |-> "none"] /\ fin = [d \in Dir |-> "no"]
    /\ isOpen = {"client"} /\ result = "none"

------------------------------------------------------------------------------
(* The dial has a time limit of 10 seconds.  Without a connection the       *)
(* handler returns, and its deferred Close closes the client's stream.      *)
(* Before "uot" relays, the handler itself passes the first packet on: if   *)
(* that fails ("unsent") it returns and leaves the socket open.             *)
Dialled(how) ==
    /\ handler = "dial"
    /\ how = "unsent" => kind = "uot"
    /\ handler' = IF how = "ok" THEN "relay" ELSE "returned"
    /\ isOpen' = CASE how = "ok" -> {"client", "target"}
                   [] how = "unsent" -> {"target"}
                   [] OTHER -> {}
    /\ copy' = IF how # "ok" THEN copy
               ELSE [d \in Dir |-> IF kind = "tcp" THEN "read" ELSE "arm"]
    /\ UNCHANGED <<kind, ends, buf, src, err, fin, result>>

Dial_Deadline(how) ==
    /\ Dialled(how)
    /\ deadline' = [deadline EXCEPT !["down"] = "armed"]

Dial(how) ==
    /\ Dialled(how)
    /\ UNCHANGED deadline

(* SetReadDeadline(now + 3 minutes) at the head of the packet loops.        *)
Arm(d) ==
    /\ copy[d] = "arm"
    /\ deadline' = [deadline EXCEPT ![d] = "armed"]
    /\ copy' = [copy EXCEPT ![d] = "read"]
    /\ UNCHANGED <<kind, ends, handler, buf, src, err, fin, isOpen, result>>

Ends(d, e) ==
    /\ err' = [err EXCEPT ![d] = e]
    /\ copy' = [copy EXCEPT ![d] = IF kind = "conn" THEN "send" ELSE "half"]

OfStream(e) == ends[e] = "anytls"

Read(d) ==
    /\ copy[d] = "read" /\ deadline[d] # "past" /\ buf[d] > 0
    /\ Source(d) \in isOpen \/ OfStream(Source(d))
    /\ buf' = [buf EXCEPT ![d] = @ - 1]
    /\ copy' = [copy EXCEPT ![d] = "write"]
    /\ UNCHANGED <<kind, ends, handler, src, err, deadline, fin, isOpen, result>>

(* The select of Stream.Read takes a closed stream as well as a chunk, and  *)
(* the end of the session closes its streams.                               *)
ReadEof(d) ==
    /\ copy[d] = "read" /\ deadline[d] # "past"
    /\ IF OfStream(Source(d))
          THEN src[d] # "open" \/ Source(d) \notin isOpen
          ELSE Source(d) \in isOpen /\ buf[d] = 0 /\ src[d] = "fin"
    /\ Ends(d, "eof")
    /\ UNCHANGED <<kind, ends, handler, buf, src, deadline, fin, isOpen, result>>

(* A deadline that has passed fails a read even if there is data.           *)
ReadFails(d) ==
    /\ copy[d] = "read"
    /\ \/ /\ ~OfStream(Source(d))
          /\ Source(d) \notin isOpen \/ src[d] = "broken"
          /\ Ends(d, "error")
       \/ deadline[d] = "past" /\ Ends(d, "timeout")
    /\ UNCHANGED <<kind, ends, handler, buf, src, deadline, fin, isOpen, result>>

Write(d) ==
    /\ copy[d] = "write"
    /\ Dest(d) \in isOpen \/ OfStream(Dest(d))
    /\ copy' = [copy EXCEPT ![d] = IF kind = "tcp" THEN "read" ELSE "arm"]
    /\ UNCHANGED <<kind, ends, handler, buf, src, err, deadline, fin, isOpen, result>>

(* The connection of the destination is gone, or the write deadline of the  *)
(* packet loops passes.                                                     *)
WriteFails(d) ==
    /\ copy[d] = "write"
    /\ \/ src[Other(d)] = "broken"
       \/ ~OfStream(Dest(d)) /\ (Dest(d) \notin isOpen \/ kind # "tcp")
    /\ Ends(d, "error")
    /\ UNCHANGED <<kind, ends, handler, buf, src, deadline, fin, isOpen, result>>

(* A frame that had its turn fails on its deadline, or because an earlier   *)
(* one broke the connection of the session (module AnyTLSWrite).            *)
FrameFails(d) ==
    /\ copy[d] = "write" /\ OfStream(Dest(d))
    /\ Ends(d, "error")
    /\ UNCHANGED <<kind, ends, handler, buf, src, deadline, fin, isOpen, result>>

(* CloseWrite, where the destination has one: whatever ended the copy, the  *)
(* destination sees an orderly end.  relayUoT does it for the client only.  *)
CloseWrite(d) ==
    /\ copy[d] = "half"
    /\ fin' = IF ends[Dest(d)] # "halfClose" THEN fin
              ELSE [fin EXCEPT ![d] = IF err[d] = "eof" THEN "clean" ELSE "cut"]
    /\ copy' = [copy EXCEPT ![d] = "limit"]
    /\ UNCHANGED <<kind, ends, handler, buf, src, err, deadline, isOpen, result>>

(* SetReadDeadline(now + 10 seconds) on the source of the other direction.  *)
LimitOther_Own(d) ==
    /\ copy[d] = "limit"
    /\ deadline' = [deadline EXCEPT ![d] = "armed"]
    /\ copy' = [copy EXCEPT ![d] = IF d = "up" THEN "send" ELSE "done"]
    /\ UNCHANGED <<kind, ends, handler, buf, src, err, fin, isOpen, result>>

LimitOther(d) ==
    /\ copy[d] = "limit"
    /\ deadline' = [deadline EXCEPT ![Other(d)] = "armed"]
    /\ copy' = [copy EXCEPT ![d] = IF d = "up" THEN "send" ELSE "done"]
    /\ UNCHANGED <<kind, ends, handler, buf, src, err, fin, isOpen, result>>

(* The result goes through a channel with room for it, so a goroutine can   *)
(* leave it there when the handler does not wait any more.  In "tcp" and    *)
(* "uot" the handler copies "down" itself.                                  *)
Capacity_None(k) == 0
Capacity(k) == IF k = "conn" THEN 2 ELSE 1

SendResult(d) ==
    /\ copy[d] = "send"
    /\ handler = "relay" \/ Capacity(kind) > 0
    /\ copy' = [copy EXCEPT ![d] = "done"]
    /\ UNCHANGED <<kind, ends, handler, buf, src, err, deadline, fin, isOpen, result>>

(* RelayTCP returns the error of "down", else that of "up".                 *)
ErrOf(d) == IF err[d] = "eof" THEN "nil" ELSE err[d]
ResultOf_Up == ErrOf("up")
ResultOf == IF ErrOf("down") # "nil" THEN ErrOf("down") ELSE ErrOf("up")

(* The handler goes on after the second result of the channel, in anytls'   *)
(* handleUOT after the first, and closes what it deferred: juicity and vmess *)
(* defer no Close of the socket they relay packets to.                      *)
Return ==
    /\ handler = "relay"
    /\ IF kind = "conn" THEN \E d \in Dir : copy[d] = "done"
                        ELSE \A d \in Dir : copy[d] = "done"
    /\ handler' = "returned"
    /\ isOpen' = IF kind = "uot" THEN {"target"} ELSE {}
    /\ result' = IF kind = "tcp" THEN ResultOf ELSE result
    /\ UNCHANGED <<kind, ends, buf, src, copyVars>>

------------------------------------------------------------------------------
(* The peers and the clock.  A UDP socket has no orderly end.               *)
Send(d) ==
    /\ handler = "relay" /\ src[d] = "open" /\ buf[d] < MaxBuf
    /\ buf' = [buf EXCEPT ![d] = @ + 1]
    /\ UNCHANGED <<kind, ends, handler, src, copyVars, isOpen, result>>

PeerEnds(d, how) ==
    /\ handler = "relay" /\ src[d] = "open"
    /\ kind = "tcp" \/ d = "up" \/ how = "broken" \/ OfStream(Source(d))
    /\ src' = [src EXCEPT ![d] = how]
    /\ UNCHANGED <<kind, ends, handler, buf, copyVars, isOpen, result>>

Expire(d) ==
    /\ deadline[d] = "armed"
    /\ deadline' = [deadline EXCEPT ![d] = "past"]
    /\ UNCHANGED <<kind, ends, handler, buf, src, copy, err, fin, isOpen, result>>

(* What a goroutine does without waiting for a peer to read.                *)
Proceed(d) ==
    \/ Arm(d)
    \/ Read(d)
    \/ ReadEof(d)
    \/ ReadFails(d)
    \/ WriteFails(d)
    \/ CloseWrite(d)
    \/ LimitOther(d)
    \/ SendResult(d)

Goroutine(d) ==
    \/ Proceed(d)
    \/ Write(d)
    \/ FrameFails(d)

RelayNext ==
    \/ \E how \in Outcome : Dial(how)
    \/ \E d \in Dir : Goroutine(d) \/ Expire(d) \/ Send(d)
    \/ \E d \in Dir : \E how \in {"fin", "broken"} : PeerEnds(d, how)
    \/ Return

(* Deadlines pass and goroutines that can run do.  A write need not return: *)
(* RelayTCP sets no deadline for it, and that of a stream's frame begins    *)
(* when the frame has its turn.  A write of packets to anything else than a *)
(* stream has a deadline, so it returns or fails.                           *)
RelayFairness == \A d \in Dir : WF_rlvars(Proceed(d)) /\ WF_rlvars(Expire(d))

RelaySpec == Init /\ [][RelayNext]_rlvars /\ RelayFairness

------------------------------------------------------------------------------
RelayTypeOK ==
    /\ kind \in Kinds /\ ends \in [End -> Sort]
    /\ handler \in {"front", "dial", "relay", "returned"}
    /\ buf \in [Dir -> 0 .. MaxBuf]
    /\ src \in [Dir -> {"open", "fin", "broken"}]
    /\ copy \in [Dir -> {"off", "arm", "read", "write", "half", "limit", "send", "done"}]
    /\ err \in [Dir -> {"none", "eof", "timeout", "error"}]
    /\ deadline \in [Dir -> {"none", "armed", "past"}]
    /\ fin \in [Dir -> {"no", "clean", "cut"}]
    /\ isOpen \subseteq End
    /\ result \in {"none", "nil", "timeout", "error"}

(* RelayTCP reports success only when both directions came to an EOF and    *)
(* each peer that can be told was told so.  Then everything was passed on,  *)
(* except what an anytls stream had not delivered when it was closed: its   *)
(* EOF may stand for an orderly end as well as for a broken session, and    *)
(* its own peer is told nothing before the handler closes it.               *)
NilMeansComplete ==
    result = "nil" =>
        \A d \in Dir :
            /\ copy[d] = "done" /\ err[d] = "eof" /\ src[d] # "open"
            /\ ~OfStream(Source(d)) => src[d] = "fin" /\ buf[d] = 0
            /\ fin[d] = IF ends[Dest(d)] = "halfClose" THEN "clean" ELSE "no"

(* RelayTCP never cuts a direction for being slow or idle while the other   *)
(* one runs: the only deadline is set when the other direction has ended.   *)
IdleIsNotCut ==
    \A d \in Dir :
        kind = "tcp" /\ err[d] = "timeout" => err[Other(d)] # "none"

(* No write waits for ever for a peer to read.  Nothing in RelayTCP ensures *)
(* it, so what follows is said under this condition.                        *)
WritesReturn == \A d \in Dir : []<>(copy[d] # "write")

(* After one direction of RelayTCP has ended the other ends, though its     *)
(* peer goes on sending, or stays silent and never ends.  In relayUoT each  *)
(* packet sets a new deadline over the one of 10 seconds, so that relay     *)
(* ends once the peers fall silent.  All this unless a write stays blocked: *)
(* the deadline is for reads.                                               *)
OneEnded == \E d \in Dir : err[d] # "none"
BothEnded == \A d \in Dir : copy[d] = "done"
RelayEnds ==
    WritesReturn =>
        /\ kind = "tcp" /\ OneEnded ~> BothEnded
        /\ []<>(\E d \in Dir : buf[d] > 0) \/ (OneEnded ~> BothEnded)

(* No goroutine outlives the handler for ever, also when handleUOT returns  *)
(* at the first of two results, unless its write stays blocked.             *)
GoroutinesEnd ==
    WritesReturn => (handler = "returned" ~> \A d \in Dir : copy[d] \in {"off", "done"})
==============================================================================
