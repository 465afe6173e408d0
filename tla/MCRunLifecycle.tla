---------------------------- MODULE MCRunLifecycle ----------------------------
(***************************************************************************)
(* A small archive of two buckets for RunLifecycle.                        *)
(***************************************************************************)
EXTENDS RunLifecycle

MCFirstDay == [k \in Key |-> IF k = "nq" THEN 1 ELSE 0]

Env(cap, free) ==
    [api_key |-> TRUE, max_cost_cents |-> cap, max_cost_cents_per_bucket |-> None,
     allow_free_only |-> free]

Run(keys, start, end, flags, cap, env) ==
    [keys |-> keys, start |-> start, end |-> end, flags |-> flags, workers |-> 1,
     max_cost_cents |-> cap, max_cost_cents_per_bucket |-> None, env |-> env]

\* Estimates of 0.4 cents are rounded away, those of 1.5 are two cents, and three
\* cents for two buckets.  "nq" is of a schema of high volume.  "checked" reads a file
\* before it is placed, "after" only when all are.
MCInvocations ==
    [all     |-> Run(Key, 0, LastDay, {"yes", "deep_validate"}, 3, Env(0, TRUE)),
     checked |-> Run({"es"}, 0, LastDay, {"yes", "validate_cached", "strict_validate"}, None,
                     [Env(2, FALSE) EXCEPT !.max_cost_cents_per_bucket = 1]),
     after   |-> Run({"es"}, 0, 0, {"yes", "validate_cached"}, 2, Env(None, FALSE)),
     audit   |-> [Run({"es"}, 0, 1, {"validate_only"}, None, Env(None, FALSE))
                     EXCEPT !.env.api_key = FALSE],
     free    |-> [Run({"nq"}, 0, LastDay, {"allow_free_only", "allow_high_volume_workers"}, 0,
                      Env(2, FALSE)) EXCEPT !.workers = 9],
     preview |-> Run({"nq"}, 0, LastDay, {"dry_run"}, 0, Env(2, TRUE)),
     zero    |-> Run({"nq"}, 0, LastDay, {"yes"}, 0, Env(2, FALSE)),
     uncapped |-> Run({"nq"}, 0, LastDay, {"yes"}, None, Env(None, TRUE))]

\* The same run over and over.
MCDaily == [daily |-> Run({"es"}, 0, LastDay, {"yes"}, 2, Env(None, FALSE))]

Empty == [p \in Part |-> "absent"]
MCArchives == {Empty}
\* Somebody else has pushed here, one file of which is not what it seems.
MCBuckets == {[Empty EXCEPT ![<<"es", 0>>] = "bad", ![<<"es", LastDay>>] = "data"]}
=============================================================================
