--------------------------- MODULE NativeCallback ---------------------------
(***************************************************************************)
(* How the desktop shell hands an OAuth callback to the web app: oauth.rs  *)
(* keeps the URL and announces it as an event; onOAuthCallback (native.ts) *)
(* listens, and only then takes what was kept before; the hook in helm     *)
(* subscribes once per life of the page and routes a code to the callback  *)
(* page, OAuthCallback.tsx, which exchanges one code as long as it is shown.*)
(*                                                                         *)
(* The browser, the deep-link plugin and the webview are external: a URL   *)
(* may come before the page listens, and the page may be reloaded.         *)
(***************************************************************************)
EXTENDS FiniteSets, Integers, SequencesExt

CONSTANTS
    Urls,           \* the callback URLs that come
    MaxReloads

None == "none"

NativeAssumption == MaxReloads \in Nat /\ None \notin Urls

VARIABLES
    delivered,      \* the URLs that came
    slot,           \* PendingCallback
    announced,      \* those announced to this life of the page
    events,         \* events on their way to it
    sub,            \* where its subscription is
    taken,          \* the answer of take_oauth_callback
    seen,           \* the last URL it handled
    page,           \* is the callback page shown?
    exchanged,      \* per URL: times its code was exchanged
    missed,         \* URLs replaced, reloaded away or not looked at
    reloads

shell == <<delivered, slot, announced>>
vars == <<shell, events, sub, taken, seen, page, exchanged, missed, reloads>>

Init ==
    /\ delivered = {} /\ slot = None /\ announced = {}
    /\ events = <<>> /\ sub = "listening" /\ taken = None
    /\ seen = None /\ page = FALSE
    /\ exchanged = [u \in Urls |-> 0] /\ missed = {} /\ reloads = 0

\* deliver: the slot keeps the last URL only, and an event reaches a page that
\* listens.
Deliver(u) ==
    /\ u \notin delivered
    /\ delivered' = delivered \cup {u}
    /\ slot' = u
    /\ missed' = missed \cup ({slot} \ (announced \cup {None}))
    /\ IF sub = "listening" THEN UNCHANGED <<events, announced>>
       ELSE events' = Append(events, u) /\ announced' = announced \cup {u}
    /\ UNCHANGED <<sub, taken, seen, page, exchanged, reloads>>

\* listen() resolves, and then take_oauth_callback is invoked.
Listens ==
    /\ sub = "listening" /\ sub' = "taking"
    /\ UNCHANGED <<shell, events, taken, seen, page, exchanged, missed, reloads>>

Take ==
    /\ sub = "taking" /\ sub' = "taken"
    /\ taken' = slot /\ slot' = None
    /\ UNCHANGED <<delivered, announced, events, seen, page, exchanged, missed, reloads>>

\* The callback page exchanges the code, unless it is shown already: then its
\* effect has run, and the new code is not looked at.
OnCode(u) ==
    /\ page' = TRUE
    /\ IF page THEN missed' = missed \cup {u} /\ UNCHANGED exchanged
       ELSE exchanged' = [exchanged EXCEPT ![u] = @ + 1] /\ UNCHANGED missed

\* The last URL seen is not handled again.
Handle(u) ==
    IF u \in {None, seen} THEN UNCHANGED <<seen, page, exchanged, missed>>
                          ELSE seen' = u /\ OnCode(u)

Answer ==
    /\ sub = "taken" /\ sub' = "ready"
    /\ Handle(taken) /\ taken' = None
    /\ UNCHANGED <<shell, events, reloads>>

Event ==
    /\ events # <<>>
    /\ Handle(Head(events)) /\ events' = Tail(events)
    /\ UNCHANGED <<shell, sub, taken, reloads>>

\* The sign-in succeeded, or the user went back.
Leave ==
    /\ page /\ page' = FALSE
    /\ UNCHANGED <<shell, events, sub, taken, seen, exchanged, missed, reloads>>

\* The page's memory is gone, its address stays.
Reload ==
    /\ reloads < MaxReloads /\ reloads' = reloads + 1
    /\ sub' = "listening" /\ events' = <<>> /\ taken' = None /\ seen' = None
    /\ missed' = missed \cup ((ToSet(events) \cup {taken}) \ {slot, None})
    /\ announced' = {}
    /\ UNCHANGED <<delivered, slot, page, exchanged>>

Next ==
    \/ \E u \in Urls : Deliver(u)
    \/ Listens \/ Take \/ Answer \/ Event \/ Leave \/ Reload

Spec == Init /\ [][Next]_vars

-----------------------------------------------------------------------------
(* The properties.                                                         *)

\* Every variable holds a value the code can give it.
TypeOK ==
    /\ delivered \subseteq Urls /\ slot \in Urls \cup {None}
    /\ announced \subseteq Urls /\ events \in Seq(Urls)
    /\ sub \in {"listening", "taking", "taken", "ready"}
    /\ taken \in Urls \cup {None} /\ seen \in Urls \cup {None} /\ page \in BOOLEAN
    /\ exchanged \in [Urls -> Nat] /\ missed \subseteq Urls /\ reloads \in 0..MaxReloads

\* Once the page is subscribed and nothing is under way, every callback that
\* came was exchanged, whether it came before the page listened, between
\* listening and taking, or after: unless it was replaced, reloaded away or
\* handed to a callback page that had its code.
CodeArrives ==
    sub = "ready" /\ events = <<>> => \A u \in delivered : exchanged[u] > 0 \/ u \in missed

\* A callback that comes both ways is exchanged once in a page's life.
OncePerPage == Cardinality(delivered) = 1 => \A u \in Urls : exchanged[u] <= 1 + reloads

=============================================================================
