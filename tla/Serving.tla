------------------------------- MODULE Serving -------------------------------
(***************************************************************************)
(* What a server does with a connection before it relays: who it is for,    *)
(* and whether the request is a message of the control server or a stream   *)
(* to relay.  In anytls, shadowsocks and vmess the handler authenticates    *)
(* first and then reads the request.  In juicity the streams of a           *)
(* connection are accepted while another goroutine still authenticates it;  *)
(* each reads its header and then waits for authCtx, which three parties    *)
(* end: the authentication when it succeeds, cancel() when it fails, and    *)
(* the deferred calls of handleConn, authDone() before cancel().            *)
(*                                                                          *)
(* Juicity knows passages by the UUID of their client.  That of the manager *)
(* is the zero UUID, which is also what a name that does not parse becomes  *)
(* (module JuicityUsers), and the value of id before the authentication     *)
(* wrote it.                                                                *)
(***************************************************************************)
EXTENDS Relay

VARIABLES
    proto,    \* the protocol of the server
    request,  \* what the stream asks for: "tcp", "udp" or "msg"
    who,      \* the passage whose secret the peer holds, or "unknown"
    users,    \* the passages the server would find; syncs change it at any time
    stage,    \* the handler before the relay
    passage,  \* the passage it has found, or "none"
    id,       \* juicity: the identifier handleAuth has found
    auth,     \* juicity: the goroutine of handleAuth
    conn,     \* juicity: handleConn: "accepting", "leaving", "left"
    authDone, \* juicity: authDone() was called
    cancelled \* juicity: cancel() was called

connVars == <<id, auth, conn, authDone, cancelled>>
frontVars == <<proto, request, who, users, stage, passage, connVars>>
svars == <<rlvars, frontVars>>

Passage == {"manager", "client", "misnamed"}   \* misnamed: a client whose name does not parse
IdOf(p) == IF p \in {"manager", "misnamed"} THEN "zero" ELSE p

(* The servers have a relay of every kind.                                  *)
ASSUME ServingAssumption == Kinds = {"tcp", "uot", "conn"}

(* The relay each server has for a request.                                 *)
KindOf(p, r) ==
    IF r = "udp" THEN IF p = "anytls" THEN "conn" ELSE "uot" ELSE "tcp"

SInit ==
    /\ proto \in {"anytls", "shadowsocks", "vmess", "juicity"}
    /\ request \in {"tcp", "udp", "msg"}
    /\ proto = "shadowsocks" => request # "udp"
    /\ kind = KindOf(proto, request) /\ handler = "front"
    /\ ends \in [End -> Sort] /\ EndsOf(kind)
    /\ (ends["client"] = "anytls") = (proto = "anytls")
    /\ proto = "juicity" => ends["client"] = "halfClose"
    /\ buf = [d \in Dir |-> 0] /\ src = [d \in Dir |-> "open"]
    /\ copy = [d \in Dir |-> "off"] /\ err = [d \in Dir |-> "none"]
    /\ deadline = [d \in Dir |-> "none"] /\ fin = [d \in Dir |-> "no"]
    /\ isOpen = {"client"} /\ result = "none"
    /\ who \in Passage \cup {"unknown"}
    /\ proto # "juicity" => who # "misnamed"
    /\ users \in {{"manager"}, {"manager", "client"}}
    /\ stage = IF proto = "juicity" THEN "header" ELSE "auth"
    /\ passage = "none" /\ id = "zero"
    /\ auth = IF proto = "juicity" THEN "waiting" ELSE "off"
    /\ conn = "accepting" /\ authDone = FALSE /\ cancelled = FALSE

------------------------------------------------------------------------------
(* The handler returns before there is a relay; its deferred Close runs.    *)
Refuse ==
    /\ handler' = "returned" /\ stage' = "refused"
    /\ isOpen' = {}
    /\ UNCHANGED <<kind, ends, buf, src, copyVars, result, passage>>

Find(p) == passage' = p /\ stage' = "dispatch" /\ UNCHANGED rlvars

(* authTCP, authFromPool and auth: the passage found is the handler's own   *)
(* copy from then on.                                                       *)
Authenticate ==
    /\ stage = "auth"
    /\ IF who \in users THEN Find(who) ELSE Refuse
    /\ UNCHANGED <<proto, request, who, users, connVars>>

(* The stream of juicity reads its header ...                               *)
ReadHeader(ok) ==
    /\ stage = "header"
    /\ IF ok THEN stage' = "await" /\ UNCHANGED <<rlvars, passage>> ELSE Refuse
    /\ UNCHANGED <<proto, request, who, users, connVars>>

(* ... and waits: <-authCtx.Done().                                         *)
AwaitAuth ==
    /\ stage = "await" /\ (authDone \/ cancelled)
    /\ stage' = "context"
    /\ UNCHANGED <<rlvars, proto, request, who, users, passage, connVars>>

CheckContext ==
    /\ stage = "context"
    /\ IF cancelled THEN Refuse ELSE stage' = "load" /\ UNCHANGED <<rlvars, passage>>
    /\ UNCHANGED <<proto, request, who, users, connVars>>

(* s.users.Load: authentication was a load of its own, some time ago.  If   *)
(* it is only now writing id, what is read may be half of it: nobody's.     *)
LoadUser ==
    /\ stage = "load"
    /\ \/ \E p \in users : IdOf(p) = id /\ Find(p)
       \/ (\A p \in users : IdOf(p) # id) /\ Refuse
       \/ auth \in {"reading", "verified"} /\ Refuse
    /\ UNCHANGED <<proto, request, who, users, connVars>>

(* handleMsg is for the manager only, everything else for the others only.  *)
(* The contention check or the dialer of Out may fail for anybody.          *)
Dispatch ==
    /\ stage = "dispatch"
    /\ \/ /\ (request = "msg") = (passage = "manager")
          /\ stage' = "dispatched"
          /\ handler' = IF request = "msg" THEN "returned" ELSE "dial"
          /\ isOpen' = IF request = "msg" THEN {} ELSE isOpen
          /\ UNCHANGED <<kind, ends, buf, src, copyVars, result, passage>>
       \/ Refuse
    /\ UNCHANGED <<proto, request, who, users, connVars>>

Front ==
    \/ Authenticate
    \/ \E ok \in BOOLEAN : ReadHeader(ok)
    \/ AwaitAuth
    \/ CheckContext
    \/ LoadUser
    \/ Dispatch

------------------------------------------------------------------------------
(* handleAuth of juicity.  AuthenticateTimeout bounds its wait for a        *)
(* stream, but not the reads from that stream.                              *)
AuthAccept ==
    /\ auth = "waiting"
    /\ auth' \in {"reading", "failed"}
    /\ UNCHANGED <<rlvars, proto, request, who, users, stage, passage, id, conn, authDone,
                   cancelled>>

AuthReadFails ==
    /\ auth = "reading"
    /\ auth' = "failed"
    /\ UNCHANGED <<rlvars, proto, request, who, users, stage, passage, id, conn, authDone,
                   cancelled>>

AuthVerify_Early ==
    /\ auth = "reading"
    /\ id' = IdOf(who)
    /\ auth' = IF who \in users THEN "verified" ELSE "failed"
    /\ UNCHANGED <<rlvars, proto, request, who, users, stage, passage, conn, authDone, cancelled>>

AuthVerify ==
    /\ auth = "reading"
    /\ IF who \in users THEN auth' = "verified" /\ id' = IdOf(who)
                        ELSE auth' = "failed" /\ id' = id
    /\ UNCHANGED <<rlvars, proto, request, who, users, stage, passage, conn, authDone, cancelled>>

AuthEnds_NoCancel ==
    /\ auth \in {"verified", "failed"}
    /\ authDone' = (authDone \/ auth = "verified")
    /\ auth' = "ended"
    /\ UNCHANGED <<rlvars, proto, request, who, users, stage, passage, id, conn, cancelled>>

AuthEnds ==
    /\ auth \in {"verified", "failed"}
    /\ authDone' = (authDone \/ auth = "verified")
    /\ cancelled' = (cancelled \/ auth = "failed")
    /\ auth' = "ended"
    /\ UNCHANGED <<rlvars, proto, request, who, users, stage, passage, id, conn>>

(* AcceptStream fails and handleConn returns: authDone(), then cancel().    *)
Leave ==
    /\ proto = "juicity" /\ conn = "accepting"
    /\ conn' = "leaving" /\ authDone' = TRUE
    /\ UNCHANGED <<rlvars, proto, request, who, users, stage, passage, id, auth, cancelled>>

Left ==
    /\ conn = "leaving"
    /\ conn' = "left" /\ cancelled' = TRUE
    /\ UNCHANGED <<rlvars, proto, request, who, users, stage, passage, id, auth, authDone>>

Authenticator == AuthAccept \/ AuthReadFails \/ AuthVerify \/ AuthEnds

(* A sync adds or removes a client (modules PassageSync, JuicityUsers); in  *)
(* juicity one whose name does not parse takes the place of the manager,    *)
(* and leaves it empty.                                                     *)
ChangeUsers ==
    /\ handler = "front"
    /\ \/ users' = IF "client" \in users THEN users \ {"client"} ELSE users \cup {"client"}
       \/ /\ proto = "juicity"
          /\ \E S \in {{}, {"misnamed"}} : users' = (users \cap {"client"}) \cup S
    /\ UNCHANGED <<rlvars, proto, request, who, stage, passage, connVars>>

SNext ==
    \/ Front
    \/ Authenticator
    \/ Leave
    \/ Left
    \/ ChangeUsers
    \/ RelayNext /\ UNCHANGED frontVars

(* As in Relay; handleAuth waits for a stream within AuthenticateTimeout,   *)
(* and what has ended the wait of a stream wakes it.                        *)
SFairness ==
    /\ WF_svars(AwaitAuth) /\ WF_svars(AuthAccept) /\ WF_svars(AuthEnds) /\ WF_svars(Left)
    /\ \A d \in Dir :
          /\ WF_svars(Proceed(d) /\ UNCHANGED frontVars)
          /\ WF_svars(Expire(d) /\ UNCHANGED frontVars)

SSpec == SInit /\ [][SNext]_svars /\ SFairness

------------------------------------------------------------------------------
STypeOK ==
    /\ RelayTypeOK
    /\ proto \in {"anytls", "shadowsocks", "vmess", "juicity"}
    /\ request \in {"tcp", "udp", "msg"} /\ who \in Passage \cup {"unknown"}
    /\ users \subseteq Passage
    /\ stage \in {"auth", "header", "await", "context", "load", "dispatch",
                  "dispatched", "refused"}
    /\ passage \in Passage \cup {"none"} /\ id \in {"zero", "client"}
    /\ auth \in {"off", "waiting", "reading", "verified", "failed", "ended"}
    /\ conn \in {"accepting", "leaving", "left"}
    /\ authDone \in BOOLEAN /\ cancelled \in BOOLEAN

(* Nothing is carried out but for the identifier that authenticated, which  *)
(* is the passage itself outside juicity; the wait of a juicity stream does *)
(* not end before, unless its connection is going away: then id may not be  *)
(* set, and it finds who has the zero UUID, never another client.  And      *)
(* nothing is relayed for the control server's own passage, which only its  *)
(* messages may use.                                                        *)
Authenticated ==
    /\ passage = who \/ (proto = "juicity" /\ IdOf(passage) = IdOf(who))
    /\ proto = "juicity" => auth \in {"verified", "ended"}
NotYet == proto = "juicity" /\ conn # "accepting" /\ IdOf(passage) = "zero"

ServedAsAuthenticated ==
    /\ stage = "dispatched" =>
          /\ Authenticated \/ NotYet
          /\ (request = "msg") = (passage = "manager")
    /\ handler \in {"dial", "relay"} => stage = "dispatched" /\ "client" \in isOpen

(* No stream of juicity waits for ever for an authentication, unless that   *)
(* one waits for ever for a peer that opened its stream and stays silent.   *)
StreamLeavesAwait ==
    []<>(auth # "reading" \/ conn # "accepting") => (stage = "await" ~> stage # "await")
==============================================================================
