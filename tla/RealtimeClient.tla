--------------------------- MODULE RealtimeClient ---------------------------
(***************************************************************************)
(* The SDK's connection to the gateway (realtime/index.ts): one socket for *)
(* all who listen on the page, opened by the first and closed by the last. *)
(* Each caller connects with a listener of its own (helm's App.tsx and     *)
(* AnalyticsPage.tsx, through websocket.ts) and cleans up once.            *)
(*                                                                         *)
(* socket.io is external: a socket that loses its connection tries again,  *)
(* at most reconnectionAttempts times in a row, and one that the gateway   *)
(* disconnects or refuses does not try again.                              *)
(***************************************************************************)
EXTENDS FiniteSets, Integers

CONSTANTS
    Callers,
    Sockets,            \* the sockets the page opens at most
    MaxTries            \* reconnectionAttempts

None == "none"

RealtimeAssumption == MaxTries \in Nat /\ None \notin Sockets

VARIABLES
    listeners,
    socket,             \* the module's socket, or None
    conn,               \* per socket: its connection
    tries,              \* per socket: attempts in a row that failed
    attached,           \* the sockets whose handlers call the listeners
    signedIn            \* does currentToken answer a token?

vars == <<listeners, socket, conn, tries, attached, signedIn>>

Init ==
    /\ listeners = {} /\ socket = None
    /\ conn = [s \in Sockets |-> "unused"] /\ tries = [s \in Sockets |-> 0]
    /\ attached = {} /\ signedIn \in BOOLEAN

\* Connected, or between two attempts to be.
Live(s) == conn[s] \in {"connecting", "connected"}

\* connectRealtime: without a token nothing happens; a socket that is live is
\* shared; one that gave up is detached and replaced.
Connect(c) ==
    /\ c \notin listeners /\ signedIn
    /\ listeners' = listeners \cup {c}
    /\ IF socket # None /\ Live(socket) THEN UNCHANGED <<socket, conn, attached>> ELSE
       \E s \in Sockets :
        /\ conn[s] = "unused"
        /\ socket' = s
        /\ conn' = [t \in Sockets |-> IF t = s THEN "connecting"
                                      ELSE IF t = socket THEN "closed" ELSE conn[t]]
        /\ attached' = (attached \ {socket}) \cup {s}
    /\ UNCHANGED <<tries, signedIn>>

\* The cleanup function; the last one closes the socket.
Cleanup(c) ==
    /\ c \in listeners
    /\ listeners' = listeners \ {c}
    /\ IF listeners = {c} /\ socket # None
       THEN conn' = [conn EXCEPT ![socket] = "closed"] /\ socket' = None
       ELSE UNCHANGED <<conn, socket>>
    /\ UNCHANGED <<tries, attached, signedIn>>

Sign == signedIn' = ~signedIn /\ UNCHANGED <<listeners, socket, conn, tries, attached>>

Opens(s) ==
    /\ conn[s] = "connecting"
    /\ conn' = [conn EXCEPT ![s] = "connected"] /\ tries' = [tries EXCEPT ![s] = 0]
    /\ UNCHANGED <<listeners, socket, attached, signedIn>>

\* The network or the gateway's process goes away.
Drops(s) ==
    /\ conn[s] = "connected"
    /\ conn' = [conn EXCEPT ![s] = "connecting"]
    /\ UNCHANGED <<listeners, socket, tries, attached, signedIn>>

AttemptFails(s) ==
    /\ conn[s] = "connecting"
    /\ IF tries[s] < MaxTries
       THEN tries' = [tries EXCEPT ![s] = @ + 1] /\ UNCHANGED conn
       ELSE conn' = [conn EXCEPT ![s] = "inactive"] /\ UNCHANGED tries
    /\ UNCHANGED <<listeners, socket, attached, signedIn>>

\* The gateway refuses the token or, when it runs out, disconnects the socket.
GatewayEnds(s) ==
    /\ Live(s)
    /\ conn' = [conn EXCEPT ![s] = "inactive"]
    /\ UNCHANGED <<listeners, socket, tries, attached, signedIn>>

Next ==
    \/ Sign
    \/ \E c \in Callers : Connect(c) \/ Cleanup(c)
    \/ \E s \in Sockets : Opens(s) \/ Drops(s) \/ AttemptFails(s) \/ GatewayEnds(s)

Spec == Init /\ [][Next]_vars

-----------------------------------------------------------------------------
(* The properties.                                                         *)

\* Every variable holds a value the code can give it.
TypeOK ==
    /\ listeners \subseteq Callers /\ socket \in Sockets \cup {None}
    /\ conn \in [Sockets -> {"unused", "connecting", "connected", "inactive", "closed"}]
    /\ tries \in [Sockets -> 0..MaxTries]
    /\ attached \subseteq Sockets /\ signedIn \in BOOLEAN

\* No socket outlives its listeners or its replacement: what is connected, or
\* tries to be, is the module's socket, has its handlers, and somebody listens.
NoOrphan ==
    \A s \in Sockets : Live(s) => s = socket /\ s \in attached /\ listeners # {}

\* Whoever listens reaches a socket that is live or was ended from outside:
\* another's cleanup never takes it away.
ListenersKeepSocket == listeners # {} => socket # None /\ conn[socket] # "closed"

=============================================================================
