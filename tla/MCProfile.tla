----------------------------- MODULE MCProfile -----------------------------
(* A record created, changed and deleted, each event redelivered once.     *)
(* The cache and the copies share only the record and the events, so a     *)
(* behaviour has either readers, or failing sinks, lost deliveries and an  *)
(* evicted job.  In the graph, two handlers overlap.                       *)
EXTENDS Projections

MCHandlers == {"g", "h"}

VARIABLE focus

MCInit ==
    /\ PartsInit
    /\ focus \in (IF part = "copies" THEN {"cache", "copies"} ELSE {"members"})

MCNext ==
    /\ PartsNext /\ UNCHANGED focus
    /\ focus = "cache" => ~failed' /\ lost' = 0 /\ evicted' = 0
    /\ focus = "copies" => UNCHANGED load

MCSpec == MCInit /\ [][MCNext]_<<partVars, focus>> /\ Fairness

=============================================================================
