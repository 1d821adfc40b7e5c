---------------------------- MODULE Projections ----------------------------
(* What follows a user's record, in one model: its copies, its cached      *)
(* profile and its mail, and its membership in the graph.  They share only *)
(* the events, so a behaviour is one part's and the other rests.           *)
EXTENDS Profile

CONSTANT Handlers                                   \* MembershipGraph

VARIABLES part, sent, applied, holder, delivered, step, node, member, invited, taken

Graph == INSTANCE MembershipGraph WITH
    acked <- applied, event <- delivered, pc <- step

ASSUME PartsAssumption == Graph!GraphAssumption

graphVars == <<sent, applied, holder, delivered, step, node, member, invited, taken>>
partVars == <<part, vars, graphVars>>

PartsInit == part \in {"copies", "members"} /\ Init /\ Graph!Init

OnCopies(A) == part = "copies" /\ A /\ UNCHANGED <<part, graphVars>>
OnMembers(A) == part = "members" /\ A /\ UNCHANGED <<part, vars>>

PartsNext == OnCopies(Next) \/ OnMembers(Graph!Next)

PartsSpec == PartsInit /\ [][PartsNext]_partVars

-----------------------------------------------------------------------------
(* The properties of the two parts together.                               *)

\* Their type invariants.
TypesOK == TypeOK /\ Graph!TypeOK
\* An acked event is in the copies, and in the graph.
AckedIsApplied == AckedShows /\ Graph!AckedIsApplied
\* Later events are not undone by earlier ones, in the copies or in the graph.
NothingComesBack == NeverBack /\ Graph!RemovalIsTerminal

=============================================================================
