------------------------------ MODULE Settings ------------------------------
(***************************************************************************)
(* core/config.py and PUT /admin/config: the settings of the process, and  *)
(* what a running process does not take from them any more.                *)
(*                                                                         *)
(* get_settings() reads the environment once per process.  PUT writes the  *)
(* fields of that object and nothing else.  The default source bucket is   *)
(* read from it whenever a source is resolved.  The results bucket was     *)
(* handed to the JobStore when the process started, as the limit of the    *)
(* semaphore and the size of the activity log were to theirs (not modelled *)
(* here: BacktestJobs and EventBus have them as constants).                *)
(***************************************************************************)
CONSTANTS
    Locations,    \* the gs://bucket/prefix locations of source files
    Buckets,      \* the results buckets
    Deployed      \* the settings the deployment's environment gives

SettingsValue == [source : Locations, results : Buckets]

ASSUME DeployedAssumption == Deployed \in SettingsValue

VARIABLES
    settings,       \* get_settings(): default_source_bucket, results_bucket
    storeBucket     \* JobStore._bucket

settingsVars == <<settings, storeBucket>>

SettingsTypeOK ==
    /\ settings \in SettingsValue
    /\ storeBucket \in Buckets

SettingsInit ==
    /\ settings = Deployed
    /\ storeBucket = Deployed.results

\* A new process reads the environment again.
SettingsRestart ==
    /\ settings' = Deployed
    /\ storeBucket' = Deployed.results

\* Mutant: one field is assigned from its neighbour.
PutConfigCopied(new) ==
    /\ settings' = [new EXCEPT !.results = new.source]
    /\ UNCHANGED storeBucket

\* PUT /admin/config
PutConfig(new) ==
    /\ settings' = new
    /\ UNCHANGED storeBucket

\* Mutant: the store asks the settings for its bucket.
ResultsBucketLive == settings.results

\* The bucket that _persist_status, save_result and the reads use.
ResultsBucket == storeBucket

=============================================================================
