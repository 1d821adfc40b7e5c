------------------------------ MODULE Gateway ------------------------------
(***************************************************************************)
(* The sockets of the realtime gateway (notification.gateway.ts): the      *)
(* handshake, the timer at the token's expiry, the disconnect handler, and *)
(* the sweep that verifies open sockets again, a few at a time.            *)
(*                                                                         *)
(* Each step is the code between two awaits.  A token expires and its      *)
(* session ends (logout, a change of the account, an inactive tenant) at   *)
(* any time, the client leaves at any time, and the verifier's stores may  *)
(* be out.                                                                 *)
(*                                                                         *)
(* Abstracted: users (all sockets belong to one), the rooms but for being  *)
(* left with the socket, and syncRoleRooms: a change of roles ends the     *)
(* session of the token (module Sessions), so the sweep closes the socket. *)
(***************************************************************************)
EXTENDS Integers, FiniteSets

CONSTANTS
    Sockets,
    Concurrency,    \* WS_REVALIDATE_CONCURRENCY
    MaxOutages      \* bound on verifications that fail for want of a store

GatewayAssumption == Concurrency \in Nat /\ MaxOutages \in Nat

VARIABLES
    conn,       \* per socket: "out", "in", "gone"
    at,         \* per socket: where handleConnection is
    session,    \* sockets with client.data.session
    timers,     \* sockets with an expiryTimers entry
    online,     \* sockets in userSockets
    expired,    \* sockets whose token is past its exp
    ended,      \* sockets whose session ended
    sweep,      \* "idle", "fetch", "run": revalidating is TRUE but at "idle"
    todo,       \* sockets the sweep has fetched and not looked at
    checking,   \* sockets the sweep is verifying
    outages

socket == <<conn, at, session, timers, online>>
token == <<expired, ended>>
sweeper == <<sweep, todo, checking>>
vars == <<socket, token, sweeper, outages>>

Init ==
    /\ conn = [s \in Sockets |-> "out"]
    /\ at = [s \in Sockets |-> "none"]
    /\ session = {} /\ timers = {} /\ online = {}
    /\ expired = {} /\ ended = {}
    /\ sweep = "idle" /\ todo = {} /\ checking = {}
    /\ outages = 0

Open(s) == conn[s] = "in"
Go(s, where) == at' = [at EXCEPT ![s] = where]
Outage == outages < MaxOutages /\ outages' = outages + 1

\* Bug: the timer of a socket that is gone stays armed.
BugDisconnectKeepsTimer(s) ==
    /\ conn' = [conn EXCEPT ![s] = "gone"]
    /\ timers' = timers
    /\ online' = IF s \in session THEN online \ {s} ELSE online

\* The socket goes, and handleDisconnect runs before anything else does.
Disconnect(s) ==
    /\ conn' = [conn EXCEPT ![s] = "gone"]
    /\ timers' = timers \ {s}
    /\ online' = IF s \in session THEN online \ {s} ELSE online

-----------------------------------------------------------------------------
(* handleConnection.                                                       *)

\* A socket with a token connects; verify refuses an expired one at once.
Connect(s) ==
    /\ conn[s] = "out"
    /\ IF s \in expired
         THEN conn' = [conn EXCEPT ![s] = "gone"] /\ Go(s, "done")
         ELSE conn' = [conn EXCEPT ![s] = "in"] /\ Go(s, "verify")
    /\ UNCHANGED <<session, timers, online, token, sweeper, outages>>

\* verify reads the stores.
Verify(s) ==
    /\ at[s] = "verify"
    /\ \/ s \notin ended /\ Go(s, "accept") /\ UNCHANGED outages
       \/ s \in ended /\ Go(s, "refuse") /\ UNCHANGED outages
       \/ Go(s, "refuse") /\ Outage
    /\ UNCHANGED <<conn, session, timers, online, token, sweeper>>

Refuse(s) ==
    /\ at[s] = "refuse"
    /\ Go(s, "done")
    /\ Disconnect(s)
    /\ UNCHANGED <<session, token, sweeper, outages>>

\* The session is recorded and the rooms are joined, unless the client left.
Accept(s) ==
    /\ at[s] = "accept"
    /\ IF Open(s)
         THEN Go(s, "join") /\ session' = session \cup {s}
         ELSE Go(s, "done") /\ UNCHANGED session
    /\ UNCHANGED <<conn, timers, online, token, sweeper, outages>>

\* armExpiry, then the socket is counted.  A token that has expired by now
\* disconnects the socket, whose handler has run when it is counted.
Joined(s) ==
    /\ at[s] = "join"
    /\ Go(s, "done")
    /\ IF ~Open(s) THEN UNCHANGED <<conn, timers, online>>
       ELSE /\ conn' = IF s \in expired THEN [conn EXCEPT ![s] = "gone"] ELSE conn
            /\ timers' = IF s \in expired THEN timers ELSE timers \cup {s}
            /\ online' = online \cup {s}
    /\ UNCHANGED <<session, token, sweeper, outages>>

\* The timer at exp.
TimerFires(s) ==
    /\ s \in timers /\ s \in expired
    /\ Disconnect(s)
    /\ UNCHANGED <<at, session, token, sweeper, outages>>

ClientLeaves(s) ==
    /\ Open(s)
    /\ Disconnect(s)
    /\ UNCHANGED <<at, session, token, sweeper, outages>>

-----------------------------------------------------------------------------
(* revalidationTick and revalidateConnections.                             *)

\* A tick that finds a sweep running is skipped.
SweepTick ==
    /\ sweep = "idle"
    /\ sweep' = "fetch"
    /\ UNCHANGED <<socket, token, todo, checking, outages>>

FetchSockets ==
    /\ sweep = "fetch"
    /\ sweep' = "run"
    /\ todo' = {s \in Sockets : Open(s)}
    /\ UNCHANGED <<socket, token, checking, outages>>

\* A worker takes the next socket: one without a session (its handshake is
\* not over) is disconnected, and so is one whose token expired.
Look(s) ==
    /\ s \in todo /\ Cardinality(checking) < Concurrency
    /\ todo' = todo \ {s}
    /\ IF s \notin session \/ s \in expired
         THEN Disconnect(s) /\ UNCHANGED checking
         ELSE checking' = checking \cup {s} /\ UNCHANGED <<conn, timers, online>>
    /\ UNCHANGED <<at, session, token, sweep, outages>>

\* verify is over: endsSession closes the socket, an outage keeps it.
Checked(s) ==
    /\ s \in checking
    /\ checking' = checking \ {s}
    /\ \/ s \in ended /\ Disconnect(s) /\ UNCHANGED outages
       \/ s \notin ended /\ UNCHANGED <<conn, timers, online, outages>>
       \/ Outage /\ UNCHANGED <<conn, timers, online>>
    /\ UNCHANGED <<at, session, token, sweep, todo>>

\* Bug: the flag is not reset.
BugSweepEndsNever == FALSE /\ UNCHANGED vars

SweepEnds ==
    /\ sweep = "run" /\ todo = {} /\ checking = {}
    /\ sweep' = "idle"
    /\ UNCHANGED <<socket, token, todo, checking, outages>>

-----------------------------------------------------------------------------

Expire(s) ==
    /\ s \notin expired
    /\ expired' = expired \cup {s}
    /\ UNCHANGED <<socket, ended, sweeper, outages>>

End(s) ==
    /\ s \notin ended
    /\ ended' = ended \cup {s}
    /\ UNCHANGED <<socket, expired, sweeper, outages>>

Handshake(s) == Verify(s) \/ Refuse(s) \/ Accept(s) \/ Joined(s)

Sweep == SweepTick \/ FetchSockets \/ SweepEnds \/ \E s \in Sockets : Look(s) \/ Checked(s)

Next ==
    \/ Sweep
    \/ \E s \in Sockets :
           Connect(s) \/ Handshake(s) \/ TimerFires(s) \/ ClientLeaves(s) \/ Expire(s) \/ End(s)

\* Promises settle, timers fire and the interval ticks; nobody has to
\* connect, leave, expire or end.
Fairness ==
    /\ WF_vars(Sweep)
    /\ \A s \in Sockets : WF_vars(Handshake(s)) /\ WF_vars(TimerFires(s))

Spec == Init /\ [][Next]_vars /\ Fairness

-----------------------------------------------------------------------------
(* The properties.                                                         *)

\* Every variable holds a value the code can give it; a socket with a timer
\* or a count has had its handshake.
TypeOK ==
    /\ conn \in [Sockets -> {"out", "in", "gone"}]
    /\ at \in [Sockets -> {"none", "verify", "accept", "refuse", "join", "done"}]
    /\ session \subseteq Sockets
    /\ timers \cup online \subseteq {s \in session : at[s] = "done"}
    /\ expired \subseteq Sockets /\ ended \subseteq Sockets
    /\ sweep \in {"idle", "fetch", "run"}
    /\ todo \subseteq Sockets /\ checking \subseteq session
    /\ todo \cup checking # {} => sweep = "run"
    /\ Cardinality(checking) <= Concurrency
    /\ outages \in 0..MaxOutages

\* "Its disconnect handler already ran, so nothing recorded now would ever be
\* cleared": whichever await the client leaves in, a socket that is gone has
\* no timer, and is counted online only if its token ran out meanwhile.
NothingLeftBehind ==
    \A s \in Sockets :
        conn[s] = "gone" => s \notin timers /\ (s \in online => s \in expired)

Valid(s) == ~Open(s) \/ s \notin expired \cup ended

\* "A socket is disconnected when its token expires and when a periodic
\* re-verification ends its session", with its first handshake step or a
\* later one in between, and however many outages a sweep met.
EndedCloses == \A s \in Sockets : []<>Valid(s)

=============================================================================
