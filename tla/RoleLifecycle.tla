--------------------------- MODULE RoleLifecycle ---------------------------
(***************************************************************************)
(* The life of a process that serves RPC: bootstrapRole and shutdownRole   *)
(* (roles/shared/bootstrap.ts), the readiness of the ops listener          *)
(* (ops-server.ts), RpcServer.start and stop (rpc-server.service.ts), and  *)
(* RpcListener (rpc-listener.ts) with its connections.                     *)
(*                                                                         *)
(* start() opens the listeners one after the other, and the surface's stop *)
(* is recorded when both listen.  A signal may come at any point from      *)
(* installShutdown on.  The stop it finds is called, and then app.close(): *)
(* onModuleDestroy, beforeApplicationShutdown with RpcServer.stop again,   *)
(* onApplicationShutdown; or the deadline ends the process.                *)
(*                                                                         *)
(* A connection waits for its first bytes, then speaks HTTP/1.1, with one  *)
(* request at a time, or HTTP/2, with several.  Abstracted: the HTTP       *)
(* surface, whose drain is Node's own; a client that leaves takes its      *)
(* calls with it, although their handlers may run on.                      *)
(***************************************************************************)
EXTENDS Integers, FiniteSets

CONSTANTS
    Tiers,          \* the listeners, numbered in the order they open
    Conns,          \* connections
    MaxStreams      \* bound on the calls of an HTTP/2 connection

RoleAssumption ==
    /\ IsFiniteSet(Tiers) /\ Tiers = 1..Cardinality(Tiers)
    /\ MaxStreams \in Nat \ {0}

VARIABLES
    opening,    \* is a listen() awaited?
    opened,     \* listeners that listen() answered for
    listeners,  \* RpcServer.listeners
    listening,  \* those whose port accepts
    closing,    \* those whose close() ran while they listened
    pushed,     \* is the surface's stop recorded?
    attached,   \* has boot finished?
    phase,      \* "up", "drain", "destroy", "before", "release", "exited"
    awaited,    \* the listeners the running stop() waits for
    timedOut,   \* did the drain time out?
    early,      \* did the signal come before the stop was recorded?
    conn,       \* per connection: "none", "unrouted", "open", "ended", "gone"
    at,         \* per connection: its listener
    h2,         \* the connections that speak HTTP/2
    calls,      \* per connection: requests in flight
    cut         \* connections the server ended under a call

boot == <<opening, opened, pushed, attached>>
server == <<boot, listeners, listening, closing>>
shutdown == <<phase, awaited, timedOut, early>>
conns == <<conn, at, h2, calls, cut>>
vars == <<server, shutdown, conns>>

Init ==
    /\ opening = FALSE /\ opened = 0
    /\ listeners = {} /\ listening = {} /\ closing = {}
    /\ pushed = FALSE /\ attached = FALSE
    /\ phase = "up" /\ awaited = {} /\ timedOut = FALSE /\ early = FALSE
    /\ conn = [c \in Conns |-> "none"] /\ at = [c \in Conns |-> 0]
    /\ h2 = {} /\ calls = [c \in Conns |-> 0] /\ cut = {}

-----------------------------------------------------------------------------
(* Boot.  It goes on after a signal: nothing tells it.                     *)

Booting == phase # "exited"

StartListener ==
    /\ Booting /\ ~opening /\ opened + 1 \in Tiers
    /\ opening' = TRUE
    /\ listeners' = listeners \cup {opened + 1}
    /\ UNCHANGED <<opened, listening, closing, pushed, attached, shutdown, conns>>

Listens ==
    /\ Booting /\ opening
    /\ opening' = FALSE /\ opened' = opened + 1
    /\ listening' = listening \cup {opened + 1}
    /\ pushed' = (opened + 2 \notin Tiers)
    /\ UNCHANGED <<listeners, closing, attached, shutdown, conns>>

\* ops.attach: boot has finished.
Attach ==
    /\ Booting /\ pushed /\ ~attached
    /\ attached' = TRUE
    /\ UNCHANGED <<opening, opened, listeners, listening, closing, pushed, shutdown, conns>>

-----------------------------------------------------------------------------
(* Connections.                                                            *)

Accept(c, t) ==
    /\ conn[c] = "none" /\ t \in listening
    /\ conn' = [conn EXCEPT ![c] = "unrouted"]
    /\ at' = [at EXCEPT ![c] = t]
    /\ UNCHANGED <<h2, calls, cut, server, shutdown>>

\* The first bytes tell the protocol.
Route(c) ==
    /\ conn[c] = "unrouted"
    /\ conn' = [conn EXCEPT ![c] = "open"]
    /\ h2' \in {h2, h2 \cup {c}}
    /\ UNCHANGED <<at, calls, cut, server, shutdown>>

\* A request: one on HTTP/1.1, also one that crosses the end of its idle
\* connection, and streams until GOAWAY on HTTP/2.
Request(c) ==
    /\ IF c \in h2
         THEN conn[c] = "open" /\ at[c] \notin closing /\ calls[c] < MaxStreams
         ELSE conn[c] \in {"open", "ended"} /\ calls[c] = 0
    /\ calls' = [calls EXCEPT ![c] = @ + 1]
    /\ UNCHANGED <<conn, at, h2, cut, server, shutdown>>

\* The response's close: on a closing listener the last one ends the
\* connection.
Answer(c) ==
    /\ calls[c] > 0
    /\ calls' = [calls EXCEPT ![c] = @ - 1]
    /\ conn' = IF at[c] \in closing /\ calls[c] = 1 /\ conn[c] = "open"
                 THEN [conn EXCEPT ![c] = IF c \in h2 THEN "gone" ELSE "ended"]
                 ELSE conn
    /\ UNCHANGED <<at, h2, cut, server, shutdown>>

\* The client closes its side, a server that ended it having gone first or
\* not; or nothing was heard of it for SNIFF_TIMEOUT_MS.
Leave(c) ==
    /\ conn[c] \in {"unrouted", "open", "ended"}
    /\ conn' = [conn EXCEPT ![c] = "gone"]
    /\ calls' = [calls EXCEPT ![c] = 0]
    /\ UNCHANGED <<at, h2, cut, server, shutdown>>

-----------------------------------------------------------------------------
(* Shutdown.                                                               *)

\* Bug: busy HTTP/1.1 connections are ended, too.
BugCloseListenersBusy(set) ==
    LET Now(c) == at[c] \in set
        End(c) == IF ~Now(c) THEN conn[c]
                  ELSE IF conn[c] = "unrouted" THEN "gone"
                  ELSE IF conn[c] = "open" /\ c \in h2 /\ calls[c] = 0 THEN "gone"
                  ELSE IF conn[c] = "open" /\ c \notin h2 THEN "ended"
                  ELSE conn[c]
    IN  /\ listening' = listening \ set
        /\ closing' = closing \cup set
        /\ awaited' = set
        /\ conn' = [c \in Conns |-> End(c)]
        /\ cut' = cut \cup {c \in Conns : conn'[c] # conn[c] /\ calls[c] > 0}
        /\ UNCHANGED <<at, h2, calls>>

\* close() of the listeners that listen: nothing more is accepted, what is
\* not routed is dropped, idle connections are ended, busy ones are left to
\* their last answer.
CloseListeners(set) ==
    LET Idle(c) == at[c] \in set /\ calls[c] = 0
        End(c) == IF ~Idle(c) THEN conn[c]
                  ELSE IF conn[c] = "unrouted" \/ (conn[c] = "open" /\ c \in h2) THEN "gone"
                  ELSE IF conn[c] = "open" THEN "ended"
                  ELSE conn[c]
    IN  /\ listening' = listening \ set
        /\ closing' = closing \cup set
        /\ awaited' = set
        /\ conn' = [c \in Conns |-> End(c)]
        /\ cut' = cut \cup {c \in Conns : conn'[c] # conn[c] /\ calls[c] > 0}
        /\ UNCHANGED <<at, h2, calls>>

\* SIGTERM: /readyz is down, and the stops recorded so far are called.
Signal ==
    /\ phase = "up"
    /\ phase' = "drain"
    /\ early' = ~pushed
    /\ CloseListeners(IF pushed THEN listeners \cap listening ELSE {})
    /\ UNCHANGED <<boot, listeners, timedOut>>

\* The stop in progress has seen every connection of its listeners go.
StopOver == \A c \in Conns : at[c] \in awaited => conn[c] = "gone"

\* What stop() does last: its listeners are forgotten.
Forget == listeners' = IF early /\ phase = "drain" THEN listeners ELSE {}

Drained ==
    /\ phase = "drain" /\ StopOver
    /\ phase' = "destroy"
    /\ Forget
    /\ UNCHANGED <<awaited, timedOut, early, boot, listening, closing, conns>>

\* DRAIN_TIMEOUT_MS: teardown proceeds anyway.
DrainTimesOut ==
    /\ phase = "drain" /\ ~StopOver
    /\ phase' = "destroy" /\ timedOut' = TRUE
    /\ UNCHANGED <<awaited, early, server, conns>>

\* Every onModuleDestroy is over; RpcServer stops what still listens.
Destroyed ==
    /\ phase = "destroy"
    /\ phase' = "before"
    /\ CloseListeners(listeners \cap listening)
    /\ UNCHANGED <<boot, listeners, timedOut, early>>

Released ==
    /\ phase = "before" /\ StopOver
    /\ phase' = "release"
    /\ Forget
    /\ UNCHANGED <<awaited, timedOut, early, boot, listening, closing, conns>>

\* The end of the process: after the last hook, or at the deadline.
Exit ==
    /\ phase \notin {"up", "exited"}
    /\ phase' = "exited"
    /\ listening' = {}
    /\ conn' = [c \in Conns |-> IF conn[c] = "none" THEN "none" ELSE "gone"]
    /\ calls' = [c \in Conns |-> 0]
    /\ UNCHANGED <<awaited, timedOut, early, boot, listeners, closing, at, h2, cut>>

-----------------------------------------------------------------------------

Teardown == Drained \/ Destroyed \/ Released \/ (phase = "release" /\ Exit)

Ended(c) == conn[c] = "ended" /\ Leave(c)

Next ==
    \/ StartListener \/ Listens \/ Attach
    \/ \E c \in Conns :
           \/ Route(c) \/ Request(c) \/ Answer(c) \/ Leave(c)
           \/ \E t \in Tiers : Accept(c, t)
    \/ Signal \/ Teardown \/ DrainTimesOut \/ Exit

\* Handlers answer, clients close a connection the server ended, and hooks
\* end.  Nothing has to time out.
Fairness ==
    /\ \A c \in Conns : WF_vars(Answer(c)) /\ WF_vars(Ended(c))
    /\ WF_vars(Teardown)

Spec == Init /\ [][Next]_vars /\ Fairness

-----------------------------------------------------------------------------
(* The properties.                                                         *)

Ready == attached /\ phase = "up"

\* Every variable holds a value the code can give it, and a process that
\* reports ready has every listener open.
TypeOK ==
    /\ opening \in BOOLEAN /\ opened \in 0..Cardinality(Tiers)
    /\ listeners \cup listening \cup closing \cup awaited \subseteq Tiers
    /\ pushed \in BOOLEAN /\ attached \in BOOLEAN
    /\ timedOut \in BOOLEAN /\ early \in BOOLEAN
    /\ phase \in {"up", "drain", "destroy", "before", "release", "exited"}
    /\ conn \in [Conns -> {"none", "unrouted", "open", "ended", "gone"}]
    /\ at \in [Conns -> {0} \cup Tiers]
    /\ h2 \subseteq Conns /\ calls \in [Conns -> 0..MaxStreams] /\ cut \subseteq Conns
    /\ Ready => listening = Tiers

\* "So no request is cut off while a connection it needs is still open": no
\* connection is ended under a call, and modules are torn down under one only
\* when the drain timed out, or when the signal came before boot had recorded
\* how to stop what already listened.
NothingCutOff ==
    /\ cut = {}
    /\ phase \in {"destroy", "before", "release"} =>
           timedOut \/ early \/ \A c \in Conns : calls[c] = 0

Settled == phase \in {"up", "exited"}

\* "Idle connections are ended now and busy ones after their current
\* response": a shutdown gets through without any time-out.
ShutdownEnds == []<>Settled

=============================================================================
