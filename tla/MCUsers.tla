------------------------------ MODULE MCUsers ------------------------------
(* A tenant with two admins, room for one more user, an address that is    *)
(* typed in two ways, and two requests; two sign-ins of one provider       *)
(* identity and two exchanges; two creations on the page; two listeners    *)
(* and three sockets; two callbacks and a reload.  What a sign-in starts   *)
(* with is left to it alone to choose.                                     *)
EXTENDS Accounts, TLC

CONSTANTS ann, bob, cat, e1, E1, e2, key, r, s

MCEmailOf == (ann :> e1) @@ (bob :> e2) @@ (cat :> e2)
MCKeyEmail == (key :> E1)
MCLower == (e1 :> e1) @@ (E1 :> e1) @@ (e2 :> e2)
UsersSymmetry == Permutations({r, s})

MCInit ==
    /\ PartsInit
    /\ part # "signIn" => right = {} /\ \A x \in DOMAIN of : of[x] = "c"
    /\ part # "realtime" => signedIn = FALSE

MCSpec == MCInit /\ [][PartsNext]_partVars

=============================================================================
