---------------------------- MODULE ServingProofs ----------------------------
(***************************************************************************)
(* What a handler may carry out, and what the result of a relay means, for  *)
(* any amount of data in flight.  Two invariants, each inductive with its    *)
(* types: RelayInv about the two copying goroutines, FrontInv about what    *)
(* comes before them.  They meet only in handler and isOpen.                *)
(***************************************************************************)
EXTENDS Serving, TLAPS

------------------------------------------------------------------------------
(* The relay                                                                *)

(* A copy has an error once it left its loop, and that of an end of file    *)
(* means, except for a stream of anytls, that nothing is left and nothing   *)
(* more can come.                                                           *)
CopyErrors ==
    \A d \in Dir :
        /\ copy[d] \in {"half", "limit", "send", "done"} => err[d] # "none"
        /\ err[d] = "eof" /\ ~OfStream(Source(d)) => src[d] = "fin" /\ buf[d] = 0

(* RelayTCP sets deadlines only when a copy has ended, and tells an end of  *)
(* file to the other side if that can be told; while it copies nobody       *)
(* closes the two ends, so that every end of file comes from a peer.        *)
TcpCopies ==
    kind = "tcp" => \A d \in Dir :
        /\ copy[d] # "arm"
        /\ copy[d] \notin {"off", "done"} => handler = "relay" /\ isOpen = End
        /\ err[d] = "eof" => src[d] # "open"
        /\ deadline[d] # "none" => err[Other(d)] # "none"
        /\ ends[Dest(d)] # "halfClose" => fin[d] = "no"
        /\ copy[d] \in {"limit", "send", "done"} /\ err[d] = "eof"
              /\ ends[Dest(d)] = "halfClose" => fin[d] = "clean"

NilResult ==
    result = "nil" =>
        /\ kind = "tcp" /\ handler = "returned"
        /\ \A d \in Dir : copy[d] = "done" /\ err[d] = "eof"

RelayInv == RelayTypeOK /\ CopyErrors /\ TcpCopies /\ NilResult /\ IdleIsNotCut

LEMMA OtherDir == ASSUME NEW d \in Dir
                  PROVE  Other(d) \in Dir /\ Other(d) # d /\ Other(Other(d)) = d
  BY DEF Dir, Other

LEMMA EndsOfDir == ASSUME NEW d \in Dir PROVE Source(d) \in End /\ Dest(d) \in End
  BY DEF Dir, Other, Source, Dest, End

LEMMA GoroutineInv == ASSUME RelayInv, NEW d \in Dir, Goroutine(d) PROVE RelayInv'
<1> USE RelayAssumption, OtherDir, EndsOfDir
    DEF RelayInv, RelayTypeOK, CopyErrors, TcpCopies, NilResult, IdleIsNotCut, Ends, OfStream
<1>1. CASE Arm(d) BY <1>1 DEF Arm
<1>2. CASE Read(d) BY <1>2 DEF Read
<1>3. CASE ReadEof(d) BY <1>3 DEF ReadEof
<1>4. CASE ReadFails(d) BY <1>4 DEF ReadFails
<1>5. CASE Write(d) BY <1>5 DEF Write
<1>6. CASE WriteFails(d) BY <1>6 DEF WriteFails
<1>7. CASE CloseWrite(d) BY <1>7 DEF CloseWrite
<1>8. CASE LimitOther(d) BY <1>8 DEF LimitOther
<1>9. CASE SendResult(d) BY <1>9 DEF SendResult
<1>10. CASE FrameFails(d) BY <1>10 DEF FrameFails
<1> QED
  BY <1>1, <1>2, <1>3, <1>4, <1>5, <1>6, <1>7, <1>8, <1>9, <1>10 DEF Goroutine, Proceed

LEMMA RelayStepInv == ASSUME RelayInv, RelayNext PROVE RelayInv'
<1> USE RelayAssumption, OtherDir, EndsOfDir
    DEF RelayInv, RelayTypeOK, CopyErrors, TcpCopies, NilResult, IdleIsNotCut, OfStream, copyVars
<1>1. ASSUME NEW how \in Outcome, Dial(how) PROVE RelayInv'
  BY <1>1 DEF Dial, Dialled, Outcome, End
<1>2. ASSUME NEW d \in Dir, Expire(d) PROVE RelayInv'
  BY <1>2 DEF Expire
<1>3. ASSUME NEW d \in Dir, Send(d) PROVE RelayInv'
  BY <1>3 DEF Send
<1>4. ASSUME NEW d \in Dir, NEW how \in {"fin", "broken"}, PeerEnds(d, how) PROVE RelayInv'
  BY <1>4 DEF PeerEnds
<1>5. CASE Return
  BY <1>5 DEF Return, ResultOf, ErrOf, Dir, End
<1> QED BY <1>1, <1>2, <1>3, <1>4, <1>5, GoroutineInv DEF RelayNext

------------------------------------------------------------------------------
(* Before the relay                                                         *)
FrontTypeOK ==
    /\ proto \in {"anytls", "shadowsocks", "vmess", "juicity"}
    /\ request \in {"tcp", "udp", "msg"} /\ who \in Passage \cup {"unknown"}
    /\ users \subseteq Passage
    /\ stage \in {"auth", "header", "await", "context", "load", "dispatch",
                  "dispatched", "refused"}
    /\ passage \in Passage \cup {"none"} /\ id \in {"zero", "client"}
    /\ auth \in {"off", "waiting", "reading", "verified", "failed", "ended"}
    /\ conn \in {"accepting", "leaving", "left"}
    /\ authDone \in BOOLEAN /\ cancelled \in BOOLEAN

(* What juicity writes to id comes from a successful authentication and     *)
(* from no other place, and authDone() without one means that the           *)
(* connection goes away.                                                    *)
Verified == id = IdOf(who) /\ auth \in {"verified", "ended"}

Identified ==
    /\ stage = "auth" => proto # "juicity"
    /\ stage \in {"header", "await", "context", "load"} => proto = "juicity"
    /\ auth = "verified" \/ id # "zero" => Verified
    /\ authDone => conn # "accepting" \/ Verified
    /\ stage = "context" => authDone \/ cancelled
    /\ stage = "load" => authDone

(* What the handler found is what has authenticated, or what it may find in *)
(* the meantime.                                                            *)
Dispatched ==
    /\ stage \in {"dispatch", "dispatched"} => Authenticated \/ NotYet
    /\ stage = "dispatched" => ((request = "msg") = (passage = "manager"))

HandlerStages ==
    /\ handler = "front" <=> stage \notin {"dispatched", "refused"}
    /\ stage = "refused" => handler = "returned"
    /\ handler = "front" => isOpen = {"client"}
    /\ handler \in {"dial", "relay"} => "client" \in isOpen

FrontInv == FrontTypeOK /\ Identified /\ Dispatched /\ HandlerStages

LEMMA SInitInv == SInit => RelayInv /\ FrontInv
<1> SUFFICES ASSUME SInit PROVE RelayInv /\ FrontInv
  OBVIOUS
<1>1. RelayTypeOK
  <2>1. kind \in Kinds
    BY ServingAssumption, Zenon DEF SInit, KindOf
  <2>2. MaxBuf \in Nat
    BY RelayAssumption
  <2> QED BY <2>1, <2>2 DEF SInit, RelayTypeOK, Dir, End
<1>2. CopyErrors /\ TcpCopies /\ NilResult /\ IdleIsNotCut
  BY OtherDir DEF SInit, CopyErrors, TcpCopies, NilResult, IdleIsNotCut
<1>3. FrontTypeOK
  <2>1. users \subseteq Passage
    BY DEF SInit, Passage
  <2>2. authDone \in BOOLEAN /\ cancelled \in BOOLEAN
    BY Zenon DEF SInit
  <2> QED BY <2>1, <2>2 DEF SInit, FrontTypeOK
<1>4. Identified /\ Dispatched /\ HandlerStages
  BY DEF SInit, Identified, Dispatched, HandlerStages
<1> QED BY <1>1, <1>2, <1>3, <1>4 DEF RelayInv, FrontInv

(* Steps of the front and those beside it leave the relay alone, unless the *)
(* handler goes on to dial or returns.                                      *)
Aside ==
    /\ UNCHANGED <<kind, ends, buf, src, copyVars, result, proto, request, who>>
    /\ \/ UNCHANGED <<handler, isOpen>>
       \/ /\ handler = "front" /\ handler' \in {"dial", "returned"}
          /\ isOpen' = IF handler' = "dial" THEN isOpen ELSE {}

LEMMA FrontKeepsRelay ==
    ASSUME FrontInv, Front \/ Authenticator \/ Leave \/ Left \/ ChangeUsers PROVE Aside
<1> USE DEF rlvars, Aside, Find
<1>1. CASE Authenticate
  BY <1>1 DEF Authenticate, Refuse, FrontInv, HandlerStages
<1>2. ASSUME NEW ok \in BOOLEAN, ReadHeader(ok) PROVE Aside
  BY <1>2 DEF ReadHeader, Refuse, FrontInv, HandlerStages
<1>3. CASE AwaitAuth
  BY <1>3 DEF AwaitAuth
<1>4. CASE CheckContext
  BY <1>4 DEF CheckContext, Refuse, FrontInv, HandlerStages
<1>5. CASE LoadUser
  BY <1>5 DEF LoadUser, Refuse, FrontInv, HandlerStages
<1>6. CASE Dispatch
  BY <1>6 DEF Dispatch, Refuse, FrontInv, HandlerStages
<1>7. CASE Authenticator
  BY <1>7 DEF Authenticator, AuthAccept, AuthReadFails, AuthVerify, AuthEnds
<1>8. CASE Leave \/ Left \/ ChangeUsers
  BY <1>8 DEF Leave, Left, ChangeUsers
<1> QED BY <1>1, <1>2, <1>3, <1>4, <1>5, <1>6, <1>7, <1>8 DEF Front

LEMMA RelayApart == ASSUME RelayInv, Aside PROVE RelayInv'
<1>1. ASSUME NEW d \in Dir, kind = "tcp", copy[d] \notin {"off", "done"}
      PROVE  handler' = "relay" /\ isOpen' = End
  BY <1>1 DEF Aside, RelayInv, TcpCopies
<1>2. NilResult'
  BY DEF Aside, RelayInv, NilResult, copyVars
<1>3. RelayTypeOK'
  BY DEF Aside, RelayInv, RelayTypeOK, copyVars
<1> QED
  BY <1>1, <1>2, <1>3, OtherDir, EndsOfDir
  DEF Aside, RelayInv, CopyErrors, TcpCopies, IdleIsNotCut, OfStream, copyVars

LEMMA FrontStepInv == ASSUME FrontInv, Front PROVE FrontInv'
<1> USE DEF FrontInv, FrontTypeOK, Identified, Dispatched, HandlerStages, Verified,
            Authenticated, NotYet, connVars, rlvars
<1>1. CASE Authenticate
  <2>1. CASE who \in users
    BY <1>1, <2>1 DEF Authenticate, Find
  <2>2. CASE who \notin users
    BY <1>1, <2>2 DEF Authenticate, Refuse
  <2> QED BY <2>1, <2>2
<1>2. ASSUME NEW ok \in BOOLEAN, ReadHeader(ok) PROVE FrontInv'
  BY <1>2 DEF ReadHeader, Refuse
<1>3. CASE AwaitAuth
  BY <1>3 DEF AwaitAuth
<1>4. CASE CheckContext
  BY <1>4 DEF CheckContext, Refuse
<1>5. CASE LoadUser
  <2>1. ASSUME NEW p \in users, IdOf(p) = id, Find(p) PROVE FrontInv'
    <3>1. IdOf(p) = "zero" \/ Verified
      BY <2>1
    <3>2. Authenticated' \/ NotYet'
      BY <1>5, <2>1, <3>1 DEF LoadUser, Find
    <3> QED BY <1>5, <2>1, <3>2 DEF LoadUser, Find
  <2>2. CASE Refuse
    BY <1>5, <2>2 DEF LoadUser, Refuse
  <2> QED BY <1>5, <2>1, <2>2 DEF LoadUser
<1>6. CASE Dispatch
  <2>1. CASE Refuse
    BY <1>6, <2>1 DEF Dispatch, Refuse
  <2>2. CASE ~Refuse
    BY <1>6, <2>2 DEF Dispatch
  <2> QED BY <2>1, <2>2
<1> QED BY <1>1, <1>2, <1>3, <1>4, <1>5, <1>6 DEF Front

(* handleAuth and handleConn of juicity, and the syncs.                     *)
LEMMA BesideInv ==
    ASSUME FrontInv, Authenticator \/ Leave \/ Left \/ ChangeUsers PROVE FrontInv'
<1> USE DEF FrontInv, FrontTypeOK, Identified, Dispatched, HandlerStages, Verified,
            Authenticated, NotYet, rlvars
<1>1. CASE AuthAccept BY <1>1 DEF AuthAccept
<1>2. CASE AuthReadFails BY <1>2 DEF AuthReadFails
<1>3. CASE AuthVerify BY <1>3 DEF AuthVerify, IdOf, Passage
<1>4. CASE AuthEnds
  <2>1. authDone' \in BOOLEAN /\ cancelled' \in BOOLEAN
    BY <1>4, Zenon DEF AuthEnds
  <2> QED BY <1>4, <2>1 DEF AuthEnds
<1>5. CASE Leave BY <1>5 DEF Leave
<1>6. CASE Left BY <1>6 DEF Left
<1>7. CASE ChangeUsers
  <2>1. users' \subseteq Passage
    BY <1>7 DEF ChangeUsers, Passage
  <2>2. UNCHANGED <<handler, isOpen, proto, request, who, stage, passage, connVars>>
    BY <1>7 DEF ChangeUsers
  <2> QED BY <2>1, <2>2 DEF connVars
<1> QED BY <1>1, <1>2, <1>3, <1>4, <1>5, <1>6, <1>7 DEF Authenticator

(* A relay keeps what the handler needs: it starts only after a dial, and   *)
(* the client's stream is open until it returns.                            *)
LEMMA RelayKeepsFront ==
    ASSUME RelayInv, FrontInv, RelayNext, UNCHANGED frontVars PROVE FrontInv'
<1> USE DEF FrontInv, FrontTypeOK, Identified, Dispatched, HandlerStages, Verified,
            Authenticated, NotYet, frontVars, connVars
<1>1. ASSUME NEW how \in Outcome, Dial(how) PROVE FrontInv'
  BY <1>1 DEF Dial, Dialled
<1>2. ASSUME NEW d \in Dir, Goroutine(d) \/ Expire(d) \/ Send(d) PROVE FrontInv'
  <2>1. UNCHANGED <<handler, isOpen>>
    BY <1>2 DEF Goroutine, Proceed, Arm, Read, ReadEof, ReadFails, Write, WriteFails,
                FrameFails, CloseWrite, LimitOther, SendResult, Expire, Send
  <2> QED BY <2>1
<1>3. ASSUME NEW d \in Dir, NEW how \in {"fin", "broken"}, PeerEnds(d, how) PROVE FrontInv'
  BY <1>3 DEF PeerEnds
<1>4. CASE Return BY <1>4 DEF Return
<1> QED BY <1>1, <1>2, <1>3, <1>4 DEF RelayNext

LEMMA ServingInv == SSpec => [](RelayInv /\ FrontInv)
<1>1. RelayInv /\ FrontInv /\ [SNext]_svars => (RelayInv /\ FrontInv)'
  <2> SUFFICES ASSUME RelayInv, FrontInv, [SNext]_svars PROVE RelayInv' /\ FrontInv'
    OBVIOUS
  <2>1. CASE UNCHANGED svars
    <3>1. RelayInv'
      BY <2>1, RelayApart DEF svars, rlvars, frontVars, Aside
    <3>2. FrontInv'
      BY <2>1 DEF svars, rlvars, frontVars, connVars, FrontInv, FrontTypeOK, Identified,
                  Dispatched, HandlerStages, Verified, Authenticated, NotYet
    <3> QED BY <3>1, <3>2
  <2>2. CASE RelayNext /\ UNCHANGED frontVars
    BY <2>2, RelayStepInv, RelayKeepsFront
  <2>3. CASE Front \/ Authenticator \/ Leave \/ Left \/ ChangeUsers
    BY <2>3, FrontKeepsRelay, RelayApart, FrontStepInv, BesideInv
  <2> QED BY <2>1, <2>2, <2>3 DEF SNext
<1> QED BY <1>1, SInitInv, PTL DEF SSpec

------------------------------------------------------------------------------
(* The variables of a handler and its relay keep their types.               *)
THEOREM ServingTypeCorrect == SSpec => []STypeOK
<1>1. RelayInv /\ FrontInv => STypeOK
  BY DEF RelayInv, FrontInv, FrontTypeOK, STypeOK
<1> QED BY <1>1, ServingInv, PTL

(* No server carries out a request for another identifier than the one that *)
(* authenticated, whenever users change and connections of juicity end,     *)
(* except for who has the zero UUID, when the connection is going away.     *)
THEOREM OnlyAuthenticatedServed == SSpec => []ServedAsAuthenticated
<1>1. RelayInv /\ FrontInv => ServedAsAuthenticated
  BY DEF FrontInv, FrontTypeOK, Dispatched, HandlerStages, ServedAsAuthenticated
<1> QED BY <1>1, ServingInv, PTL

(* What a nil result of RelayTCP means, for any amount of data that may     *)
(* wait at either end: all of it was passed on, except for an anytls stream *)
(* behind it, and each peer that can be told of the end was told.           *)
THEOREM NilIsComplete == SSpec => []NilMeansComplete
<1>1. RelayInv /\ FrontInv => NilMeansComplete
  BY DEF RelayInv, CopyErrors, TcpCopies, NilResult, NilMeansComplete
<1> QED BY <1>1, ServingInv, PTL

(* RelayTCP ends a direction by a deadline only after the other one.        *)
THEOREM IdleRelayKept == SSpec => []IdleIsNotCut
<1>1. RelayInv /\ FrontInv => IdleIsNotCut
  BY DEF RelayInv
<1> QED BY <1>1, ServingInv, PTL
------------------------------------------------------------------------------
(* Before the relay nothing of it has begun: no goroutine copies, nothing   *)
(* was read or sent, no deadline is set and no end was passed on.           *)
NotBegun ==
    handler = "front" =>
        /\ kind = KindOf(proto, request) /\ ends \in [End -> Sort] /\ EndsOf(kind)
        /\ buf = [d \in Dir |-> 0] /\ src = [d \in Dir |-> "open"]
        /\ copy = [d \in Dir |-> "off"] /\ err = [d \in Dir |-> "none"]
        /\ deadline = [d \in Dir |-> "none"] /\ fin = [d \in Dir |-> "no"]
        /\ result = "none"

(* While the handler has not come to the relay, the relay takes no step.    *)
LEMMA RelayWaits ==
    ASSUME RelayInv, NotBegun, RelayNext PROVE handler # "front"
<1> SUFFICES ASSUME handler = "front" PROVE FALSE
  OBVIOUS
<1>1. \A d \in Dir : copy[d] = "off" /\ deadline[d] = "none"
  BY DEF NotBegun
<1>2. ASSUME NEW d \in Dir, Goroutine(d) PROVE FALSE
  BY <1>1, <1>2 DEF Goroutine, Proceed, Arm, Read, ReadEof, ReadFails, Write, WriteFails,
                    FrameFails, CloseWrite, LimitOther, SendResult
<1> QED
  BY <1>1, <1>2 DEF RelayNext, Dial, Dialled, Expire, Send, PeerEnds, Return

ServingStep == RelayInv /\ FrontInv /\ NotBegun

LEMMA NotBegunInv == SSpec => []ServingStep
<1>1. SInit => NotBegun
  BY DEF SInit, NotBegun
<1>2. RelayInv /\ FrontInv /\ NotBegun /\ [SNext]_svars => NotBegun'
  <2> SUFFICES ASSUME RelayInv, FrontInv, NotBegun, [SNext]_svars PROVE NotBegun'
    OBVIOUS
  <2>1. CASE UNCHANGED svars
    BY <2>1 DEF svars, rlvars, copyVars, frontVars, NotBegun, EndsOf
  <2>2. CASE RelayNext /\ UNCHANGED frontVars
    <3>1. handler # "front"
      BY <2>2, RelayWaits
    <3>2. FrontInv'
      BY <2>2, RelayKeepsFront
    <3>3. handler' # "front"
      BY <2>2, <3>1, <3>2 DEF FrontInv, HandlerStages, frontVars
    <3> QED BY <3>3 DEF NotBegun
  <2>3. CASE Front \/ Authenticator \/ Leave \/ Left \/ ChangeUsers
    BY <2>3, FrontKeepsRelay DEF Aside, NotBegun, copyVars, EndsOf
  <2> QED BY <2>1, <2>2, <2>3 DEF SNext
<1> QED BY <1>1, <1>2, ServingInv, PTL DEF SSpec, ServingStep

(* A handler that was dispatched runs the relay of module Relay: it comes   *)
(* to the dial in an initial state of Relay, of the kind the server has for *)
(* the request, and from then on every step is one of Relay or leaves the   *)
(* relay as it is, until the process stops.                                 *)
DialsAfresh ==
    [][handler = "front" /\ handler' = "dial" => Init' /\ kind' = KindOf(proto, request)]_svars
ThenRelays == [][handler # "front" => [RelayNext]_rlvars]_svars

THEOREM LeadsToRelay == SSpec => DialsAfresh /\ ThenRelays
<1>1. ServingStep /\ ServingStep' /\ [SNext]_svars =>
          [handler = "front" /\ handler' = "dial" =>
              Init' /\ kind' = KindOf(proto, request)]_svars
  <2> SUFFICES ASSUME ServingStep, ServingStep', SNext, handler = "front", handler' = "dial"
               PROVE  Init' /\ kind' = KindOf(proto, request)
    OBVIOUS
  <2>1. Front \/ Authenticator \/ Leave \/ Left \/ ChangeUsers
    BY RelayWaits DEF SNext, ServingStep
  <2>2. isOpen' = {"client"}
    BY <2>1, FrontKeepsRelay DEF Aside, ServingStep, FrontInv, HandlerStages
  <2>3. kind' \in Kinds
    BY DEF ServingStep, RelayInv, RelayTypeOK
  <2> QED BY <2>1, <2>2, <2>3, FrontKeepsRelay DEF Aside, Init, ServingStep, NotBegun, copyVars, EndsOf
<1>2. ServingStep /\ [SNext]_svars => [handler # "front" => [RelayNext]_rlvars]_svars
  <2> SUFFICES ASSUME ServingStep, SNext, handler # "front" PROVE [RelayNext]_rlvars
    OBVIOUS
  <2>1. CASE Front \/ Authenticator \/ Leave \/ Left \/ ChangeUsers
    BY <2>1, FrontKeepsRelay DEF Aside, ServingStep, rlvars
  <2> QED BY <2>1 DEF SNext
<1> QED BY <1>1, <1>2, NotBegunInv, PTL DEF SSpec, DialsAfresh, ThenRelays
------------------------------------------------------------------------------
(* No stream of juicity is left waiting for an authentication that is over: *)
(* however it ended, and whether or not the connection is going away, one   *)
(* of the two functions that end the wait was called.                       *)
AwaitIsReleased == stage = "await" /\ auth = "ended" => authDone \/ cancelled

THEOREM NoStreamForgotten == SSpec => []AwaitIsReleased
<1> DEFINE Released == auth = "ended" => authDone \/ cancelled
<1>1. SInit => Released
  BY DEF SInit
<1>2. ASSUME Released, [SNext]_svars PROVE Released'
  <2>1. CASE UNCHANGED connVars
    BY <1>2, <2>1 DEF connVars
  <2>2. CASE UNCHANGED svars
    BY <1>2, <2>2 DEF svars, frontVars, connVars
  <2>3. CASE Front
    BY <2>1, <2>3 DEF Front, Authenticate, ReadHeader, AwaitAuth, CheckContext, LoadUser,
                      Dispatch, Find
  <2>4. CASE Authenticator
    BY <1>2, <2>4 DEF Authenticator, AuthAccept, AuthReadFails, AuthVerify, AuthEnds
  <2>5. CASE Leave \/ Left
    BY <1>2, <2>5 DEF Leave, Left
  <2>6. CASE ChangeUsers
    BY <2>1, <2>6 DEF ChangeUsers
  <2>7. CASE RelayNext /\ UNCHANGED frontVars
    BY <2>1, <2>7 DEF frontVars
  <2> QED
    BY <1>2, <2>2, <2>3, <2>4, <2>5, <2>6, <2>7 DEF SNext
<1>3. Released => AwaitIsReleased
  BY DEF AwaitIsReleased
<1> QED
  BY <1>1, <1>2, <1>3, PTL DEF SSpec
================================================================================
