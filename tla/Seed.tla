-------------------------------- MODULE Seed --------------------------------
(***************************************************************************)
(* The state the seed command saves (runSeed in cmd/onetrickle): the demo, *)
(* each slice consolidated and each leaf entity walked to Processed.  A    *)
(* server that loads the snapshot starts from it.                          *)
(***************************************************************************)
EXTENDS Query, Demo

CONSTANT MaxRequests    \* bound: requests after the start

VARIABLE requests       \* requests that have changed the state

Seeded(s) ==
  Process(MetaAt(s), [e \in Entities |->
    IF e \in Leaves THEN [NoUnit EXCEPT !["Input"] = DemoInput(e, s)] ELSE NoUnit])

\* The statuses after import, validate and process of each leaf.
Walked(u) ==
  LET step(st, a) == IF Allowed(st, a) THEN Target(a) ELSE st
  IN  FoldLeft(step, "NotStarted", <<"import", "validate", "process">>)

SeedInit == /\ ent = InitEnt /\ acc = InitAcc /\ expr = InitExpr /\ dynamic = {}
            /\ scen = Scenarios /\ rates = InitRates
            /\ units = [s \in Slices |-> Seeded(s)]
            /\ status = [u \in Slices \X Leaves |-> Walked(u)]
            /\ stale = {}
            /\ requests = 0

SeedNext == /\ requests < MaxRequests
            /\ requests' = requests + 1
            /\ Next

SeedSpec == SeedInit /\ [][SeedNext]_<<vars, requests>>
=============================================================================
