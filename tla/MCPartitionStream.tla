-------------------------- MODULE MCPartitionStream --------------------------
(***************************************************************************)
(* Two partitions: one may be answered with many files of up to four       *)
(* records in chunks of two, the other with a small good one.              *)
(***************************************************************************)
EXTENDS PartitionStream, TLC

CONSTANTS p1, p2

\* Two instruments and the system's; the day is 1..2; 3 lies behind it.
MCRecord == [id : {1}, ts : 0..3] \cup [id : {2}, ts : {1}] \cup [id : {0}, ts : {3}]

File(records, mapped, field) ==
    [answers |-> TRUE, intact |-> TRUE, field |-> field, records |-> records, mapped |-> mapped]

MCGood == File(<<[id |-> 1, ts |-> 1]>>, {1}, "ts_recv")

MCRecords ==
    UNION {[1..n -> MCRecord] : n \in 0..2}
    \cup {<<[id |-> 1, ts |-> s], r, [id |-> 1, ts |-> t]>> : s, t \in 0..2, r \in MCRecord}

MCFiles ==
    {File(records, {1, 2}, "ts_recv") : records \in MCRecords}
    \cup {File(<<r>>, {1, 2}, "ts_event") : r \in MCRecord}
    \cup {File(<<[id |-> 1, ts |-> 1]>>, mapped, "none") : mapped \in {{}, {1}, {2}}}
    \cup {[MCGood EXCEPT !.records = [i \in 1..4 |-> [id |-> 1, ts |-> 1]]]}
    \cup {[MCGood EXCEPT !.answers = FALSE], [MCGood EXCEPT !.intact = FALSE]}

MCStreams == (p1 :> MCFiles) @@ (p2 :> {MCGood})

\* The first partition's estimate lets three records pass, the second one's one.
MCAllotted == (p1 :> 2) @@ (p2 :> 1)

Http(status, text) == [kind |-> "http", status |-> status, text |-> text]

MCError ==
    {Http(503, "other"), Http(429, "other"), Http(401, "other"), Http(422, "no_records"),
     Http(422, "smart_symbol"), Http(422, "invalid")}
    \cup [kind : {"bento", "os"}, transient : BOOLEAN]

Validation(validate, deep, strict) == [validate |-> validate, deep |-> deep, strict |-> strict]

\* The default, and --strict-validate.
MCOptions == {Validation(TRUE, FALSE, FALSE), Validation(TRUE, FALSE, TRUE)}
=============================================================================
