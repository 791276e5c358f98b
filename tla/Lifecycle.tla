------------------------------ MODULE Lifecycle ------------------------------
(***************************************************************************)
(* From Run to its return: the goroutine that runs Listen, the goroutine    *)
(* that validates the CDN of the control server, the shutdown both may ask  *)
(* for, and how Close of each protocol server meets a Listen that is still  *)
(* opening its sockets.                                                     *)
(*                                                                          *)
(* The four servers differ in when a socket is known to Close: anytls and   *)
(* shadowsocks and vmess check that the server is not closed in the         *)
(* critical section that stores the listener; juicity stores it unchecked   *)
(* and relies on the context of Accept; vmess over gRPC goes on to make an  *)
(* ACME server and a gRPC server after it left the critical section.        *)
(***************************************************************************)
EXTENDS Naturals

CONSTANTS
    Protocols,  \* the protocols the program may be configured with
    Conn        \* connections that arrive

Thread == {"main", "udp"}          \* the accept loops; "udp" in shadowsocks only
Socket == Thread \cup {"acme"}     \* what they listen on; "acme" is port 80

ASSUME LifecycleAssumption ==
    /\ Protocols \subseteq {"anytls", "shadowsocks", "vmess", "grpc", "juicity"}
    /\ Conn \cap (Socket \cup {"grpc"}) = {}

VARIABLES
    proto,     \* conf.John.Protocol
    run,       \* Run: "new", "dns", "wait" (shutdown.wait), "returned", "failed"
    listen,    \* the goroutine that calls s.Listen and then shutdown.signal
    tpc,       \* the accept loops of Listen
    acme,      \* the goroutine that serves port 80
    sock,      \* "none", "open" or "closed"
    fields,    \* what the fields of the server refer to
    isClosed,  \* s.closed, or the cancelled context of juicity
    close,     \* Close: "idle", "marked", "taken", "done"
    toClose,   \* what Close has taken and still has to close
    conn,      \* "new", "accepted", "served", "shut" (closed by Close), "ended"
    tracked,   \* s.activeConns
    others,    \* the handlers and syncs that take s.mutex: "out", "in" (one holds it),
               \* "crossed" (it waits for one that waits for the mutex)
    once,      \* runShutdown.once: "free", the goroutine inside, "done"
    cdn,       \* the goroutine that validates the CDN
    acceptErr, \* Accept returned an error that made Listen return
    dead       \* log.Fatal or a nil dereference ended the process

sockVars == <<sock, fields, tpc, acme>>
connVars == <<conn, tracked, others>>
ctlVars == <<proto, run, listen, once, cdn, acceptErr, dead>>
closeVars == <<isClosed, close, toClose>>
lvars == <<ctlVars, sockVars, closeVars, connVars>>

(* Which protocols do what.                                                 *)
LocksListener == proto \in {"shadowsocks", "vmess", "grpc"}  \* Close closes under s.mutex
TakesFields == proto \in {"anytls", "juicity"}               \* Close empties the fields first
RequiresDNSReady == proto \in {"anytls", "grpc"}
MutexFree == LocksListener => close # "taken" /\ others = "out"

Close_(s) == [sock EXCEPT ![s] = IF @ = "open" THEN "closed" ELSE @]

LInit ==
    /\ proto \in Protocols
    /\ run = "new" /\ listen = "off" /\ once = "free" /\ dead = FALSE /\ acceptErr = FALSE
    /\ cdn = "off"
    /\ tpc = [t \in Thread |-> "off"]
    /\ acme = "off"
    /\ sock = [s \in Socket |-> "none"]
    /\ fields = {} /\ tracked = {} /\ toClose = {} /\ others = "out"
    /\ isClosed = FALSE /\ close = "idle"
    /\ conn = [c \in Conn |-> "new"]

------------------------------------------------------------------------------
(* Run                                                                      *)

(* NewServer registers; without success Run returns its error.              *)
NewServer(ok) ==
    /\ run = "new"
    /\ run' = IF ~ok THEN "failed" ELSE IF RequiresDNSReady THEN "dns" ELSE "wait"
    /\ UNCHANGED <<proto, listen, once, cdn, acceptErr, dead, sockVars, closeVars, connVars>>

(* The record appears, or a minute passes.                                  *)
WaitDNS(found) ==
    /\ run = "dns"
    /\ run' = IF found THEN "wait" ELSE "failed"
    /\ UNCHANGED <<proto, listen, once, cdn, acceptErr, dead, sockVars, closeVars, connVars>>

(* The two goroutines Run starts before it waits.                           *)
GoListen ==
    /\ run = "wait" /\ listen = "off"
    /\ listen' = "serving"
    /\ tpc' = [t \in Thread |-> IF t = "main" \/ proto = "shadowsocks" THEN "bind" ELSE "off"]
    /\ UNCHANGED <<proto, run, once, cdn, acceptErr, dead, sock, fields, acme, closeVars, connVars>>

GoValidate ==
    /\ run = "wait" /\ listen # "off" /\ cdn = "off"
    /\ cdn' = "check"
    /\ UNCHANGED <<proto, run, listen, once, acceptErr, dead, sockVars, closeVars, connVars>>

(* api.TrustedHost: only ErrCanStealIP ends the program.                    *)
ValidateCDN(canSteal) ==
    /\ cdn = "check"
    /\ cdn' = IF once = "done" THEN "ended" ELSE IF canSteal THEN "signal" ELSE "sleep"
    /\ UNCHANGED <<proto, run, listen, once, acceptErr, dead, sockVars, closeVars, connVars>>

ValidateAgain ==
    /\ cdn = "sleep"
    /\ cdn' = IF once = "done" THEN "ended" ELSE "check"
    /\ UNCHANGED <<proto, run, listen, once, acceptErr, dead, sockVars, closeVars, connVars>>

(* shutdown.signal: the first caller closes the server and then the channel *)
(* Run waits for; any other waits in once.Do.                               *)
Signal(g) ==
    /\ IF g = "listen" THEN listen = "signal" ELSE cdn = "signal"
    /\ once = "free"
    /\ once' = g
    /\ UNCHANGED <<proto, run, listen, cdn, acceptErr, dead, sockVars, closeVars, connVars>>

SignalDone ==
    /\ once \in {"listen", "cdn"} /\ close = "done"
    /\ once' = "done"
    /\ UNCHANGED <<proto, run, listen, cdn, acceptErr, dead, sockVars, closeVars, connVars>>

SignalReturns ==
    /\ once = "done"
    /\ listen = "signal" \/ cdn = "signal"
    /\ listen' = IF listen = "signal" THEN "ended" ELSE listen
    /\ cdn' = IF cdn = "signal" THEN "ended" ELSE cdn
    /\ UNCHANGED <<proto, run, once, acceptErr, dead, sockVars, closeVars, connVars>>

Wait ==
    /\ run = "wait" /\ once = "done"
    /\ run' = "returned"
    /\ UNCHANGED <<proto, listen, once, cdn, acceptErr, dead, sockVars, closeVars, connVars>>

------------------------------------------------------------------------------
(* Listen                                                                   *)

(* net.Listen, net.ListenUDP or quic.ListenAddr.                            *)
Bind(t, ok) ==
    /\ tpc[t] = "bind"
    /\ sock' = IF ok THEN [sock EXCEPT ![t] = "open"] ELSE sock
    /\ tpc' = [tpc EXCEPT ![t] = IF ~ok THEN "left"
                                 ELSE IF proto = "anytls" THEN "startAcme" ELSE "setListener"]
    /\ UNCHANGED <<ctlVars, fields, acme, closeVars, connVars>>

(* startAutocertServer of anytls, in the critical section of lifecycleMu:   *)
(* what it does with a server that is not closed, and with either.          *)
ListenAcme(ok) ==
    /\ tpc["main"] = "startAcme"
    /\ IF ok
         THEN /\ sock' = [sock EXCEPT !["acme"] = "open"]
              /\ fields' = fields \cup {"acme"}
              /\ acme' = "serving"
              /\ tpc' = [tpc EXCEPT !["main"] = "setListener"]
         ELSE /\ sock' = Close_("main")
              /\ tpc' = [tpc EXCEPT !["main"] = "left"]
              /\ UNCHANGED <<fields, acme>>
    /\ UNCHANGED <<ctlVars, closeVars, connVars>>

StartAutocertServer(ok) ==
    \/ /\ tpc["main"] = "startAcme" /\ isClosed
       /\ tpc' = [tpc EXCEPT !["main"] = "setListener"]
       /\ UNCHANGED <<ctlVars, sock, fields, acme, closeVars, connVars>>
    \/ ~isClosed /\ ListenAcme(ok)

(* setListener of juicity, which does not look whether the server is closed;*)
(* setListener of anytls and the same section of ListenTCP and ListenUDP.   *)
StoreListener(t) ==
    /\ tpc[t] = "setListener" /\ MutexFree
    /\ fields' = fields \cup {t}
    /\ tpc' = [tpc EXCEPT ![t] = IF proto = "grpc" THEN "setAcme" ELSE "accept"]
    /\ UNCHANGED <<ctlVars, sock, acme, closeVars, connVars>>

SetListener(t) ==
    \/ proto = "juicity" /\ StoreListener(t)
    \/ proto # "juicity" /\ ~isClosed /\ StoreListener(t)
    \/ /\ proto # "juicity" /\ isClosed
       /\ tpc[t] = "setListener" /\ MutexFree
       /\ sock' = Close_(t)
       /\ tpc' = [tpc EXCEPT ![t] = "left"]
       /\ UNCHANGED <<ctlVars, fields, acme, closeVars, connVars>>

(* vmess over gRPC, outside the mutex: s.autocertServer, then s.grpc, then  *)
(* s.grpc.Serve, which dereferences what Close may have set to nil.         *)
SetAutocertServer ==
    /\ tpc["main"] = "setAcme"
    /\ fields' = fields \cup {"acme"}
    /\ acme' = "starting"
    /\ tpc' = [tpc EXCEPT !["main"] = "setGrpc"]
    /\ UNCHANGED <<ctlVars, sock, closeVars, connVars>>

SetGrpc ==
    /\ tpc["main"] = "setGrpc"
    /\ fields' = fields \cup {"grpc"}
    /\ tpc' = [tpc EXCEPT !["main"] = "serveGrpc"]
    /\ UNCHANGED <<ctlVars, sock, acme, closeVars, connVars>>

ServeGrpc ==
    /\ tpc["main"] = "serveGrpc"
    /\ dead' = ("grpc" \notin fields)
    /\ tpc' = [tpc EXCEPT !["main"] = "accept"]
    /\ UNCHANGED <<proto, run, listen, once, cdn, acceptErr, sock, fields, acme, closeVars, connVars>>

(* ListenAndServe of vmess: after http.Server.Close it does not listen; if  *)
(* port 80 is taken the program ends.                                       *)
ServeAcme(ok) ==
    /\ acme = "starting"
    /\ acme' = "serving"
    /\ sock' = IF ok THEN [sock EXCEPT !["acme"] = "open"] ELSE sock
    /\ dead' = ~ok
    /\ UNCHANGED <<proto, run, listen, once, cdn, acceptErr, fields, tpc, closeVars, connVars>>

(* The accept loop ends with its socket; juicity also with its context, and *)
(* then closes the listener itself.                                         *)
AcceptEnds(t) ==
    /\ tpc[t] = "accept"
    /\ sock[t] = "closed" \/ (proto = "juicity" /\ isClosed)
    /\ \A c \in Conn : conn[c] # "accepted"
    /\ tpc' = [tpc EXCEPT ![t] = "left"]
    /\ sock' = Close_(t)
    /\ fields' = IF TakesFields THEN fields \ {t} ELSE fields
    /\ UNCHANGED <<ctlVars, acme, closeVars, connVars>>

(* Another error of Accept: shadowsocks and vmess go on, anytls returns it  *)
(* and forgets the listener without closing it, juicity and gRPC close it.  *)
AcceptFails ==
    /\ tpc["main"] = "accept" /\ sock["main"] = "open"
    /\ proto \in {"anytls", "juicity", "grpc"}
    /\ \A c \in Conn : conn[c] # "accepted"
    /\ tpc' = [tpc EXCEPT !["main"] = "left"]
    /\ sock' = IF proto = "anytls" THEN sock ELSE Close_("main")
    /\ fields' = IF TakesFields THEN fields \ {"main"} ELSE fields
    /\ acceptErr' = TRUE
    /\ UNCHANGED <<proto, run, listen, once, cdn, dead, acme, closeVars, connVars>>

(* Listen of shadowsocks takes the first of the two results and calls Close;*)
(* the others return the result of their loop.                              *)
ListenReturns ==
    /\ listen = "serving"
    /\ \E t \in Thread : tpc[t] = "left"
    /\ listen' = IF proto = "shadowsocks" THEN "deferred" ELSE "signal"
    /\ UNCHANGED <<proto, run, once, cdn, acceptErr, dead, sockVars, closeVars, connVars>>

ListenDeferred ==
    /\ listen = "deferred" /\ close = "done"
    /\ listen' = "signal"
    /\ UNCHANGED <<proto, run, once, cdn, acceptErr, dead, sockVars, closeVars, connVars>>

------------------------------------------------------------------------------
(* Connections                                                              *)

(* Only anytls tracks them: its loop calls trackConn before the next Accept.*)
Accept(c) ==
    /\ tpc["main"] = "accept" /\ sock["main"] = "open" /\ conn[c] = "new"
    /\ \A d \in Conn : conn[d] # "accepted"
    /\ conn' = [conn EXCEPT ![c] = IF proto = "anytls" THEN "accepted" ELSE "served"]
    /\ UNCHANGED <<ctlVars, sockVars, closeVars, tracked, others>>

AddConn(c) ==
    /\ conn[c] = "accepted"
    /\ conn' = [conn EXCEPT ![c] = "served"]
    /\ tracked' = tracked \cup {c}
    /\ UNCHANGED <<ctlVars, sockVars, closeVars, others>>

TrackConn(c) ==
    \/ ~isClosed /\ AddConn(c)
    \/ /\ conn[c] = "accepted" /\ isClosed
       /\ conn' = [conn EXCEPT ![c] = "ended"]
       /\ UNCHANGED <<ctlVars, sockVars, closeVars, tracked, others>>

(* handleConn returns, by itself or because Close closed the connection,    *)
(* and untrackConn follows.                                                 *)
UntrackConn(c) ==
    /\ conn[c] \in {"served", "shut"}
    /\ conn' = [conn EXCEPT ![c] = "ended"]
    /\ tracked' = tracked \ {c}
    /\ UNCHANGED <<ctlVars, sockVars, closeVars, others>>

(* AddPassages, RemovePassages, Passages and GetUserContextOrInsert take    *)
(* s.mutex too, for as long as they run.  But a sync that holds it and      *)
(* needs the lock of the pool never gives it back once a look-up holds that *)
(* lock and needs s.mutex (module UserContexts).                            *)
OthersLock ==
    /\ LocksListener /\ run = "wait" /\ MutexFree
    /\ others' = "in"
    /\ UNCHANGED <<ctlVars, sockVars, closeVars, conn, tracked>>

OthersCross ==
    /\ others = "in"
    /\ others' = "crossed"
    /\ UNCHANGED <<ctlVars, sockVars, closeVars, conn, tracked>>

OthersUnlock ==
    /\ others = "in"
    /\ others' = "out"
    /\ UNCHANGED <<ctlVars, sockVars, closeVars, conn, tracked>>

------------------------------------------------------------------------------
(* Close, called by the goroutine inside runShutdown.once and by the defer  *)
(* of the Listen of shadowsocks; closeOnce makes one call of several.       *)
CloseCalled == once \in {"listen", "cdn"} \/ listen = "deferred"

(* Mark the server as closed; anytls and juicity take the fields in the     *)
(* same critical section.                                                   *)
CloseMark ==
    /\ CloseCalled /\ close = "idle"
    /\ isClosed' = TRUE
    /\ close' = IF TakesFields THEN "taken" ELSE "marked"
    /\ toClose' = IF TakesFields THEN fields \cup tracked ELSE {}
    /\ fields' = IF TakesFields THEN {} ELSE fields
    /\ tracked' = IF TakesFields THEN {} ELSE tracked
    /\ UNCHANGED <<ctlVars, sock, tpc, acme, conn, others>>

(* shadowsocks and vmess: under s.mutex, which stays locked until the end.  *)
CloseLock ==
    /\ close = "marked" /\ MutexFree
    /\ close' = "taken"
    /\ toClose' = fields \ {"grpc"}
    /\ fields' = fields \ {"grpc"}
    /\ UNCHANGED <<ctlVars, isClosed, sock, tpc, acme, connVars>>

(* The sockets first, then the connections.                                 *)
CloseSocket(s) ==
    /\ close = "taken" /\ s \in toClose
    /\ toClose' = toClose \ {s}
    /\ sock' = Close_(s)
    /\ acme' = IF s = "acme" THEN "ended" ELSE acme
    /\ UNCHANGED <<ctlVars, isClosed, close, fields, tpc, connVars>>

CloseConn(c) ==
    /\ close = "taken" /\ c \in toClose /\ toClose \subseteq Conn
    /\ toClose' = toClose \ {c}
    /\ conn' = [conn EXCEPT ![c] = IF @ = "served" THEN "shut" ELSE @]
    /\ UNCHANGED <<ctlVars, isClosed, close, sockVars, tracked, others>>

CloseDone ==
    /\ close = "taken" /\ toClose = {}
    /\ close' = "done"
    /\ UNCHANGED <<ctlVars, isClosed, toClose, sockVars, connVars>>

------------------------------------------------------------------------------
Validator ==
    \/ GoValidate
    \/ \E canSteal \in BOOLEAN : ValidateCDN(canSteal)
    \/ ValidateAgain

Shutdown ==
    \/ \E g \in {"listen", "cdn"} : Signal(g)
    \/ SignalDone
    \/ SignalReturns
    \/ Wait

Loop(t) ==
    \/ \E ok \in BOOLEAN : Bind(t, ok)
    \/ SetListener(t)
    \/ AcceptEnds(t)

MainLoop ==
    \/ \E ok \in BOOLEAN : StartAutocertServer(ok)
    \/ SetAutocertServer
    \/ SetGrpc
    \/ ServeGrpc

Listener ==
    \/ GoListen
    \/ ListenReturns
    \/ ListenDeferred

Closing ==
    \/ CloseMark
    \/ CloseLock
    \/ \E s \in Socket : CloseSocket(s)
    \/ \E c \in Conn : CloseConn(c)
    \/ CloseDone

(* What the world outside decides, and when.                                *)
LOutside ==
    \/ \E ok \in BOOLEAN : NewServer(ok) \/ WaitDNS(ok) \/ ServeAcme(ok)
    \/ AcceptFails
    \/ \E c \in Conn : Accept(c)
    \/ OthersLock
    \/ OthersCross

LNext ==
    /\ ~dead
    /\ \/ Validator \/ Shutdown \/ Listener \/ MainLoop \/ Closing \/ LOutside
       \/ OthersUnlock
       \/ \E t \in Thread : Loop(t)
       \/ \E c \in Conn : TrackConn(c) \/ UntrackConn(c)

(* Goroutines that can run do run, and the handler of a connection that was *)
(* closed returns.  Those that have not crossed give s.mutex back, and it   *)
(* starves nobody who waits for it, as sync.Mutex says.  Nothing is assumed *)
(* of what comes from outside.                                              *)
LFairness ==
    /\ WF_lvars(~dead /\ Validator)
    /\ WF_lvars(~dead /\ Shutdown)
    /\ WF_lvars(~dead /\ Listener)
    /\ WF_lvars(~dead /\ MainLoop)
    /\ WF_lvars(~dead /\ Closing)
    /\ WF_lvars(~dead /\ OthersUnlock) /\ SF_lvars(~dead /\ CloseLock)
    /\ \A t \in Thread : WF_lvars(~dead /\ Loop(t)) /\ SF_lvars(~dead /\ SetListener(t))
    /\ \A c \in Conn : WF_lvars(~dead /\ TrackConn(c))
                       /\ WF_lvars(~dead /\ conn[c] = "shut" /\ UntrackConn(c))

LSpec == LInit /\ [][LNext]_lvars /\ LFairness

------------------------------------------------------------------------------
LTypeOK ==
    /\ proto \in Protocols
    /\ run \in {"new", "dns", "wait", "returned", "failed"}
    /\ listen \in {"off", "serving", "deferred", "signal", "ended"}
    /\ tpc \in [Thread -> {"off", "bind", "startAcme", "setListener", "setAcme",
                           "setGrpc", "serveGrpc", "accept", "left"}]
    /\ acme \in {"off", "starting", "serving", "ended"}
    /\ sock \in [Socket -> {"none", "open", "closed"}]
    /\ fields \subseteq Socket \cup {"grpc"}
    /\ close \in {"idle", "marked", "taken", "done"}
    /\ isClosed \in BOOLEAN /\ dead \in BOOLEAN /\ acceptErr \in BOOLEAN
    /\ toClose \subseteq Socket \cup Conn
    /\ conn \in [Conn -> {"new", "accepted", "served", "shut", "ended"}]
    /\ tracked \subseteq Conn /\ others \in {"out", "in", "crossed"}
    /\ once \in {"free", "listen", "cdn", "done"}
    /\ cdn \in {"off", "check", "sleep", "signal", "ended"}

LoopsEnded == \A t \in Thread : tpc[t] \in {"off", "left"}

(* However Close and Listen interleave, no socket stays open once both are  *)
(* done: either Close knew it, or its goroutine saw the server closed.  Two *)
(* sockets escape: the listener anytls forgets when Accept fails, and port  *)
(* 80 of vmess over gRPC, opened without looking at s.closed.  And anytls   *)
(* then serves nobody: a connection accepted meanwhile is either among      *)
(* those Close took or is refused.                                          *)
NothingLeftOpen ==
    close = "done" /\ LoopsEnded =>
        /\ \A s \in Socket : sock[s] = "open" =>
              \/ s = "main" /\ proto = "anytls" /\ acceptErr
              \/ s = "acme" /\ proto = "grpc"
        /\ proto = "anytls" => \A c \in Conn : conn[c] # "served"

(* Whoever asks for the shutdown, every goroutine comes to its end: nobody  *)
(* waits for a socket Close did not know or in a once.Do that never ends.   *)
(* Unless a sync and a look-up of contexts have crossed in shadowsocks or   *)
(* vmess: then nobody gets s.mutex any more, and a Close that needs it, the *)
(* once.Do around it and Run wait for ever.                                 *)
ShutdownCompletes ==
    once # "free" \/ listen = "deferred" ~>
        \/ others = "crossed"
        \/ dead
        \/ /\ run = "returned" /\ listen = "ended" /\ cdn \in {"off", "ended"}
           /\ LoopsEnded
           /\ proto = "anytls" => \A c \in Conn : conn[c] \in {"new", "ended"}
==============================================================================
