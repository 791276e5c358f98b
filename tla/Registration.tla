----------------------------- MODULE Registration -----------------------------
(***************************************************************************)
(* How a protocol server stays registered at the control server (SweetLisa).*)
(* The loop registerBackground looks at lastAlive when its ticker fires and  *)
(* registers again once nothing was heard for LostThreshold, backing off     *)
(* while that fails.  lastAlive has three more writers: the success of       *)
(* register itself, the Ping handler of the manager's connections, and       *)
(* reRegister, by which a certificate callback asks for a registration.      *)
(* A registration answers with the list of passages, the same list that      *)
(* SyncPassages messages carry, so the two deliveries race.                  *)
(*                                                                           *)
(* SyncPassages is one step here; its critical sections are PassageSync.     *)
(* Time is abstract: lastAlive is "recent" until LostThreshold has passed.   *)
(***************************************************************************)
EXTENDS Naturals

CONSTANTS
    MinInterval,  \* the ticker at first and after a success (2 s)
    MaxInterval,  \* its bound (600 s)
    MaxVersion    \* bound: how often the control server changes its list

ASSUME RegistrationAssumption ==
    /\ MinInterval \in Nat \ {0}
    /\ MaxInterval \in Nat /\ MinInterval < MaxInterval
    /\ MaxVersion \in Nat

VARIABLES
    john,       \* NewJohn: "new", "running" (the loop was started), "failed"
    loop,       \* the loop: "select", "asked" (in api.Register), "got", "sync", "stopped"
    lastAlive,  \* "zero", "lost" (older than LostThreshold) or "recent"
    interval,   \* of the ticker
    answer,     \* the list the last successful api.Register returned
    held,       \* the list the server was synced to last
    closed,     \* the channel or context that Close closes
    wanted,     \* external: the control server's list (a version number)
    up,         \* external: whether the control server answers registrations
    inbox,      \* SyncPassages messages on their way or in handleMsg
    lastFailed, \* history: the last attempt of the loop failed
    disordered  \* history: since the newest list was last put to use, a list
                \* was lost on its way or overtaken by a newer one

outside == <<wanted, up>>
history == <<lastFailed, disordered>>
rvars == <<john, loop, lastAlive, interval, answer, held, closed, outside, inbox, history>>

(* What the history says once list v is put to use.                         *)
Disorder(v) == v < held \/ (disordered /\ v < wanted)

Min2(a, b) == IF a < b THEN a ELSE b

RInit ==
    /\ john = "new" /\ loop = "select"
    /\ lastAlive = "zero" /\ interval = MinInterval
    /\ answer = 0 /\ held = 0 /\ wanted = 0
    /\ closed = FALSE /\ up \in BOOLEAN
    /\ inbox = {}
    /\ lastFailed = FALSE /\ disordered = FALSE

------------------------------------------------------------------------------
(* NewJohn adds the manager, registers once, and starts the loop only then. *)
NewJohn ==
    /\ john = "new"
    /\ IF up THEN /\ john' = "running"
                  /\ lastAlive' = "recent"
                  /\ answer' = wanted /\ held' = wanted
             ELSE /\ john' = "failed"
                  /\ UNCHANGED <<lastAlive, answer, held>>
    /\ UNCHANGED <<loop, interval, closed, outside, inbox, history>>

(* A ticker event: nothing to do while the control server was heard lately. *)
Lost_NotZero == lastAlive = "lost"
Lost == lastAlive # "recent"

Tick ==
    /\ john = "running" /\ loop = "select" /\ Lost
    /\ loop' = "asked"
    /\ UNCHANGED <<john, lastAlive, interval, answer, held, closed, outside, inbox, history>>

(* The other case of the select.  With both ready Go picks either.          *)
Stop ==
    /\ john = "running" /\ loop = "select" /\ closed
    /\ loop' = "stopped"
    /\ UNCHANGED <<john, lastAlive, interval, answer, held, closed, outside, inbox, history>>

(* api.Register has an answer, at the latest when its context ends; so does *)
(* everything that can fail before it.                                      *)
RegisterFails ==
    /\ loop = "asked" /\ ~up
    /\ interval' = Min2(2 * interval, MaxInterval)
    /\ loop' = "select" /\ lastFailed' = TRUE
    /\ UNCHANGED <<john, lastAlive, answer, held, closed, outside, inbox, disordered>>

RegisterAnswered ==
    /\ loop = "asked" /\ up
    /\ answer' = wanted
    /\ loop' = "got"
    /\ UNCHANGED <<john, lastAlive, interval, held, closed, outside, inbox, history>>

(* setLastAlive(time.Now()) comes before the list is put to use.            *)
RegisterAlive ==
    /\ loop = "got"
    /\ lastAlive' = "recent"
    /\ loop' = "sync"
    /\ UNCHANGED <<john, interval, answer, held, closed, outside, inbox, history>>

RegisterSyncs_Skip ==
    /\ loop = "sync"
    /\ interval' = MinInterval
    /\ loop' = "select" /\ lastFailed' = FALSE
    /\ disordered' = Disorder(answer)
    /\ UNCHANGED <<john, lastAlive, answer, held, closed, outside, inbox>>

RegisterSyncs_KeepPace ==
    /\ loop = "sync"
    /\ held' = answer
    /\ loop' = "select" /\ lastFailed' = FALSE
    /\ disordered' = Disorder(answer)
    /\ UNCHANGED <<john, lastAlive, interval, answer, closed, outside, inbox>>

RegisterSyncs ==
    /\ loop = "sync"
    /\ held' = answer
    /\ interval' = MinInterval
    /\ loop' = "select" /\ lastFailed' = FALSE
    /\ disordered' = Disorder(answer)
    /\ UNCHANGED <<john, lastAlive, answer, closed, outside, inbox>>

------------------------------------------------------------------------------
(* handleMsg on a connection of the manager                                 *)

Ping ==
    /\ john = "running"
    /\ lastAlive' = "recent"
    /\ UNCHANGED <<john, loop, interval, answer, held, closed, outside, inbox, history>>

HandleSync(v) ==
    /\ john = "running" /\ v \in inbox
    /\ held' = v
    /\ inbox' = inbox \ {v}
    /\ disordered' = Disorder(v)
    /\ UNCHANGED <<john, loop, lastAlive, interval, answer, closed, outside, lastFailed>>

HandleMsg == Ping \/ \E v \in inbox : HandleSync(v)

(* The renewal callback of anytls and vmess over gRPC.                      *)
ReRegister ==
    /\ john = "running"
    /\ lastAlive' = "zero"
    /\ UNCHANGED <<john, loop, interval, answer, held, closed, outside, inbox, history>>

CloseServer ==
    /\ john = "running" /\ ~closed
    /\ closed' = TRUE
    /\ UNCHANGED <<john, loop, lastAlive, interval, answer, held, outside, inbox, history>>

------------------------------------------------------------------------------
(* The world outside: five minutes pass, the control server comes and goes, *)
(* changes its list and sends it, and a message may be lost.                *)
Silence ==
    /\ lastAlive = "recent"
    /\ lastAlive' = "lost"
    /\ UNCHANGED <<john, loop, interval, answer, held, closed, outside, inbox, history>>

Reachable ==
    /\ up' = ~up
    /\ UNCHANGED <<john, loop, lastAlive, interval, answer, held, closed, wanted, inbox, history>>

ChangeList ==
    /\ wanted < MaxVersion
    /\ wanted' = wanted + 1
    /\ inbox' = IF john = "running" THEN inbox \cup {wanted + 1} ELSE inbox
    /\ UNCHANGED <<john, loop, lastAlive, interval, answer, held, closed, up, history>>

LoseMessage(v) ==
    /\ v \in inbox
    /\ inbox' = inbox \ {v}
    /\ disordered' = TRUE
    /\ UNCHANGED <<john, loop, lastAlive, interval, answer, held, closed, outside, lastFailed>>

Register == RegisterFails \/ RegisterAnswered \/ RegisterAlive \/ RegisterSyncs

ROutside ==
    \/ Silence
    \/ Reachable
    \/ ChangeList
    \/ \E v \in inbox : LoseMessage(v)

RNext ==
    \/ NewJohn
    \/ Tick
    \/ Stop
    \/ Register
    \/ HandleMsg
    \/ ReRegister
    \/ CloseServer
    \/ ROutside

(* The ticker fires again and again, register ends by its time limit, and   *)
(* select is not for ever unfair to the closed channel.                     *)
RFairness ==
    /\ WF_rvars(NewJohn)
    /\ WF_rvars(Tick)
    /\ WF_rvars(Register)
    /\ SF_rvars(Stop)

RSpec == RInit /\ [][RNext]_rvars /\ RFairness

------------------------------------------------------------------------------
RTypeOK ==
    /\ john \in {"new", "running", "failed"}
    /\ loop \in {"select", "asked", "got", "sync", "stopped"}
    /\ lastAlive \in {"zero", "lost", "recent"}
    /\ interval \in MinInterval .. MaxInterval
    /\ wanted \in 0 .. MaxVersion
    /\ answer \in 0 .. wanted /\ held \in 0 .. wanted
    /\ inbox \subseteq 0 .. wanted
    /\ closed \in BOOLEAN /\ up \in BOOLEAN
    /\ lastFailed \in BOOLEAN /\ disordered \in BOOLEAN

(* The loop asks at its first pace exactly as long as its last attempt did  *)
(* not fail: neither a ping nor reRegister in between starts or ends the    *)
(* back-off that protects the control server, and the back-off is bounded   *)
(* however long the control server stays away.                              *)
PaceFollowsOutcome ==
    /\ interval = MinInterval <=> ~lastFailed
    /\ interval <= MaxInterval

(* When every delivery has arrived, however messages and registrations      *)
(* overlapped, the server holds the list of the control server, unless one  *)
(* was lost or overtaken since the newest list was put to use: a            *)
(* registration makes good for the messages that were lost before it.       *)
ListArrives ==
    john = "running" /\ inbox = {} /\ loop \notin {"got", "sync"} /\ ~disordered
        => held = wanted

(* A control server that stays reachable hears again from every server that *)
(* lost it or was asked to register again: neither the attempts that failed *)
(* before nor a request in the middle of an attempt ends the loop or leaves *)
(* it waiting for ever, until the server is closed.                         *)
Recovers ==
    <>[]up => [](john = "running" /\ ~closed ~> lastAlive = "recent" \/ closed)
===============================================================================
