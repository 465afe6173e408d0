------------------------------- MODULE Invocation -------------------------------
(***************************************************************************)
(* From a command line and the environment to the configuration of a run   *)
(* (cli.py build_config, settings.py, config.py).  An invocation is a      *)
(* record: what was asked for, the flags that were passed, the caps on the *)
(* command line, and `env`, the DATABENTO_* variables.  Dates are days,    *)
(* symbols and schemas are buckets.                                        *)
(***************************************************************************)
EXTENDS Integers

Flag == {"validate_only", "validate_cached", "deep_validate", "strict_validate", "paranoid",
         "validate_on_write", "dry_run", "yes", "allow_free_only", "allow_burst_exposure",
         "allow_high_volume_workers"}

\* A cap that is not given.
None == -1
Cap == Nat \cup {None}

Environment == [api_key : BOOLEAN, max_cost_cents : Cap, max_cost_cents_per_bucket : Cap,
                allow_free_only : BOOLEAN]

Invocation(keys, days) ==
    [keys : SUBSET keys, start : days, end : days, flags : SUBSET Flag, workers : 1..100,
     max_cost_cents : Cap, max_cost_cents_per_bucket : Cap, env : Environment]

-----------------------------------------------------------------------------
(* build_config, and the validators of DownloadConfig *)

\* The command line goes before the environment, a cap of 0 too.
Chosen_Mutant(flag, variable) == IF flag \in {None, 0} THEN variable ELSE flag

Chosen(flag, variable) == IF flag = None THEN variable ELSE flag

\* The DownloadConfig; that --deep-validate and --strict-validate imply
\* --validate-on-write is config.py's.
BuildConfig(i) ==
    [keys |-> i.keys, start |-> i.start, end |-> i.end, max_workers |-> i.workers,
     dry_run |-> "dry_run" \in i.flags,
     yes |-> "yes" \in i.flags,
     validate_only |-> "validate_only" \in i.flags,
     validate_cached |-> "validate_cached" \in i.flags,
     deep_validate |-> i.flags \cap {"deep_validate", "strict_validate"} # {},
     validate_on_write |->
         i.flags \cap {"validate_on_write", "paranoid", "deep_validate", "strict_validate"} # {},
     max_cost_cents |-> Chosen(i.max_cost_cents, i.env.max_cost_cents),
     max_cost_cents_per_bucket |->
         Chosen(i.max_cost_cents_per_bucket, i.env.max_cost_cents_per_bucket),
     allow_free_only |-> "allow_free_only" \in i.flags \/ i.env.allow_free_only,
     allow_burst_exposure |-> "allow_burst_exposure" \in i.flags,
     allow_high_volume_workers |-> "allow_high_volume_workers" \in i.flags]

HighVolumeMaxWorkers == 8

Admissible(c, highVolume) ==
    /\ c.start <= c.end
    /\ c.keys # {}
    /\ c.max_cost_cents = 0 => c.allow_free_only
    /\ c.keys \cap highVolume # {} /\ c.max_workers > HighVolumeMaxWorkers =>
           c.allow_high_volume_workers

\* main: the configuration is valid and a key is there, unless none is needed.
RequiresApiKey(c) == ~c.validate_only

Starts(i, highVolume) ==
    LET c == BuildConfig(i)
    IN  Admissible(c, highVolume) /\ (RequiresApiKey(c) => i.env.api_key)
=============================================================================
