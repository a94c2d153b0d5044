----------------------------- MODULE Maintenance -----------------------------
(***************************************************************************)
(* Exports and retention (apps/maintenance-worker/src/index.ts), with the  *)
(* plugin archives retention looks after: the runtime stores an archive in *)
(* R2 (apps/plugin-runtime-worker/src/index.ts, inspect), the control      *)
(* worker records and installs it (apps/policy-control-worker/src/index.ts,*)
(* recordPluginInspection, installPlugin).  Objects are in R2, rows in D1, *)
(* and no step covers both; retention runs beside requests and may end     *)
(* between two of its statements.                                          *)
(*                                                                         *)
(* Data abstraction.  There is one archive, uploaded any number of times;  *)
(* the age of a row is a flag, set when its expires_at passes.             *)
(***************************************************************************)
EXTENDS Naturals

CONSTANTS
    Exports,    \* requests for an export
    KeyOf,      \* request |-> its idempotency key
    Uploads,    \* uploads of the archive, and the inspections they make
    Faults      \* bound of the calls that throw and the workers that end

MaintenanceConstants == Faults \in Nat

Files == {"conversations", "manifest"}

VARIABLES
    export,     \* request |-> where createExport is
    job,        \* request |-> its row of maintenance_jobs
    object,     \* request |-> its objects in R2
    row,        \* request |-> its rows of export_files
    old,        \* the exports whose expires_at has passed
    torn,       \* history: the exports that ended between an object and its row
    archive,    \* the archive is in R2
    artifact,   \* its row of plugin_artifacts
    upload,     \* upload |-> where it is, and the installation of its inspection
    inspection, \* upload |-> its row of plugin_inspections
    version,    \* there are plugin_versions of the archive
    overlapped, \* history: retention took the archive for unused during an upload
    retention,  \* where runRetention is, and the export files it has read
    faults      \* how many faults there have been

exporting == <<export, job, object, row, old, torn>>
plugins == <<archive, artifact, upload, inspection, version, overlapped>>
vars == <<exporting, plugins, retention, faults>>

-----------------------------------------------------------------------------
(***************************************************************************)
(* createExport.                                                           *)
(***************************************************************************)

Goto(e, step) == export' = [export EXCEPT ![e] = step]

Known(e) == \E d \in Exports : KeyOf[d] = KeyOf[e] /\ job[d] \notin {"none", "gone"}

\* Answers the job there is under the key, or goes on to insert one.
FindJob(e) ==
    /\ export[e] = "start" /\ Goto(e, IF Known(e) THEN "done" ELSE "insert")
    /\ UNCHANGED <<job, object, row, old, torn, plugins, retention, faults>>

\* Of two inserts under one key, one throws.
InsertJob(e) ==
    /\ export[e] = "insert"
    /\ \/ ~Known(e) /\ Goto(e, "put") /\ job' = [job EXCEPT ![e] = "running"]
       \/ Known(e) /\ Goto(e, "done") /\ UNCHANGED job
    /\ UNCHANGED <<object, row, old, torn, plugins, retention, faults>>

\* The conversations come first.
File(e) == IF row[e] = {} THEN "conversations" ELSE "manifest"

PutFile(e) ==
    /\ export[e] = "put" /\ Goto(e, "record")
    /\ object' = [object EXCEPT ![e] = @ \cup {File(e)}]
    /\ UNCHANGED <<job, row, old, torn, plugins, retention, faults>>

RecordFile(e) ==
    /\ export[e] = "record" /\ Goto(e, IF row[e] = {} THEN "put" ELSE "succeed")
    /\ row' = [row EXCEPT ![e] = @ \cup {File(e)}]
    /\ UNCHANGED <<job, object, old, torn, plugins, retention, faults>>

Succeed(e) ==
    /\ export[e] = "succeed" /\ Goto(e, "done")
    /\ job' = [job EXCEPT ![e] = "succeeded"]
    /\ UNCHANGED <<object, row, old, torn, plugins, retention, faults>>

\* A call throws and the job is marked failed, unless that fails too or the worker ends.
ExportFails(e) ==
    /\ faults < Faults /\ faults' = faults + 1
    /\ export[e] \in {"put", "record", "succeed"} /\ Goto(e, "done")
    /\ job' \in {job, [job EXCEPT ![e] = "failed"]}
    /\ torn' = IF export[e] = "record" THEN torn \cup {e} ELSE torn
    /\ UNCHANGED <<object, row, old, plugins, retention>>

Age(e) ==
    /\ export[e] = "done" /\ job[e] # "none" /\ e \notin old
    /\ old' = old \cup {e}
    /\ UNCHANGED <<export, job, object, row, torn, plugins, retention, faults>>

-----------------------------------------------------------------------------
(***************************************************************************)
(* Uploads and installations of the archive.                               *)
(***************************************************************************)

UploadTo(u, step) == upload' = [upload EXCEPT ![u] = step]

\* The archive is stored unless R2 has it.
Inspect(u) ==
    /\ upload[u] = "start" /\ UploadTo(u, "record")
    /\ archive' = TRUE
    /\ UNCHANGED <<artifact, inspection, version, overlapped, exporting, retention, faults>>

Deleting == retention.at \in {"delete archive", "delete artifact"}

\* One batch of two rows.
RecordInspection(u) ==
    /\ upload[u] = "record" /\ UploadTo(u, "recorded")
    /\ artifact' = TRUE
    /\ inspection' = [inspection EXCEPT ![u] = "accepted"]
    /\ overlapped' = (overlapped \/ Deleting)
    /\ UNCHANGED <<archive, version, exporting, retention, faults>>

\* installPlugin and addPluginVersion find the inspection, ...
FindInspection(u) ==
    /\ upload[u] = "recorded" /\ inspection[u] = "accepted" /\ UploadTo(u, "install")
    /\ UNCHANGED <<archive, artifact, inspection, version, overlapped, exporting, retention,
                   faults>>

\* ... and insert a version, which refers to the row of the artifact.
InsertVersion(u) ==
    /\ upload[u] = "install" /\ UploadTo(u, "recorded")
    /\ version' = (version \/ artifact)
    /\ overlapped' = (overlapped \/ Deleting)
    /\ UNCHANGED <<archive, artifact, inspection, exporting, retention, faults>>

\* A day has passed.
AgeInspection(u) ==
    /\ inspection[u] = "accepted" /\ inspection' = [inspection EXCEPT ![u] = "past"]
    /\ UNCHANGED <<archive, artifact, upload, version, overlapped, exporting, retention, faults>>

-----------------------------------------------------------------------------
(***************************************************************************)
(* runRetention.                                                           *)
(***************************************************************************)

Idle == [at |-> "idle", files |-> [e \in Exports |-> {}]]

Then(step) == retention' = [retention EXCEPT !.at = step]

\* The files to go, as one SELECT reads them.
ReadFiles ==
    /\ retention.at = "idle"
    /\ retention' = [at |-> "delete objects",
                     files |-> [e \in Exports |-> IF e \in old THEN row[e] ELSE {}]]
    /\ UNCHANGED <<exporting, plugins, faults>>

DeleteObjects ==
    /\ retention.at = "delete objects" /\ Then("delete rows")
    /\ object' = [e \in Exports |-> object[e] \ retention.files[e]]
    /\ UNCHANGED <<export, job, row, old, torn, plugins, faults>>

DeleteRows ==
    /\ retention.at = "delete rows" /\ Then("delete jobs")
    /\ row' = [e \in Exports |-> row[e] \ retention.files[e]]
    /\ UNCHANGED <<export, job, object, old, torn, plugins, faults>>

DeleteJobs ==
    /\ retention.at = "delete jobs" /\ Then("expire inspections")
    /\ job' = [e \in Exports |-> IF e \in old THEN "gone" ELSE job[e]]
    /\ UNCHANGED <<export, object, row, old, torn, plugins, faults>>

\* They are marked as expired, and deleted.
ExpireInspections ==
    /\ retention.at = "expire inspections" /\ Then("judge archive")
    /\ inspection' =
         [u \in Uploads |-> IF inspection[u] = "past" THEN "gone" ELSE inspection[u]]
    /\ UNCHANGED <<archive, artifact, upload, version, overlapped, exporting, faults>>

Inspected == \E u \in Uploads : inspection[u] \in {"accepted", "past"}

\* Mutant of Used: versions are not looked at.
UsedByInspections == Inspected

Used == Inspected \/ version

JudgeArchive ==
    /\ retention.at = "judge archive"
    /\ Then(IF artifact /\ ~Used THEN "delete archive" ELSE "roll up")
    /\ UNCHANGED <<exporting, plugins, faults>>

DeleteArchive ==
    /\ retention.at = "delete archive" /\ Then("delete artifact")
    /\ archive' = FALSE
    /\ overlapped' = (overlapped \/ \E u \in Uploads : upload[u] \in {"record", "install"})
    /\ UNCHANGED <<artifact, upload, inspection, version, exporting, faults>>

\* Rows that refer to the artifact's make the batch throw, and retention ends there.
DeleteArtifact ==
    /\ retention.at = "delete artifact"
    /\ \/ /\ Inspected \/ version
          /\ retention' = Idle /\ UNCHANGED artifact
       \/ /\ ~Inspected /\ ~version
          /\ artifact' = FALSE /\ Then("roll up")
    /\ UNCHANGED <<archive, upload, inspection, version, overlapped, exporting, faults>>

\* The last statements write storage_rollups.
RollUp ==
    /\ retention.at = "roll up" /\ retention' = Idle
    /\ UNCHANGED <<exporting, plugins, faults>>

\* A statement throws, or the worker ends; the next run begins anew.
RetentionFails ==
    /\ faults < Faults /\ faults' = faults + 1
    /\ retention.at # "idle" /\ retention' = Idle
    /\ UNCHANGED <<exporting, plugins>>

Init ==
    /\ export = [e \in Exports |-> "start"]
    /\ job = [e \in Exports |-> "none"]
    /\ object = [e \in Exports |-> {}]
    /\ row = [e \in Exports |-> {}]
    /\ old = {} /\ torn = {}
    /\ archive = FALSE /\ artifact = FALSE
    /\ upload = [u \in Uploads |-> "start"]
    /\ inspection = [u \in Uploads |-> "none"]
    /\ version = FALSE
    /\ overlapped = FALSE
    /\ retention = Idle
    /\ faults = 0

Retention ==
    \/ ReadFiles \/ DeleteObjects \/ DeleteRows \/ DeleteJobs
    \/ ExpireInspections \/ JudgeArchive \/ DeleteArchive \/ DeleteArtifact
    \/ RollUp \/ RetentionFails

Next ==
    \/ \E e \in Exports :
         \/ FindJob(e) \/ InsertJob(e) \/ PutFile(e) \/ RecordFile(e) \/ Succeed(e)
         \/ ExportFails(e) \/ Age(e)
    \/ \E u \in Uploads :
         \/ Inspect(u) \/ RecordInspection(u) \/ FindInspection(u) \/ InsertVersion(u)
         \/ AgeInspection(u)
    \/ Retention

Spec == Init /\ [][Next]_vars

-----------------------------------------------------------------------------
(***************************************************************************)
(* Properties.                                                             *)
(***************************************************************************)

\* Also: only a job has files.
TypeOK ==
    /\ export \in [Exports -> {"start", "insert", "put", "record", "succeed", "done"}]
    /\ job \in [Exports -> {"none", "running", "succeeded", "failed", "gone"}]
    /\ {object, row} \subseteq [Exports -> SUBSET Files]
    /\ \A e \in Exports : job[e] = "none" => object[e] = {}
    /\ old \cup torn \subseteq Exports
    /\ {archive, artifact, version, overlapped} \subseteq BOOLEAN
    /\ upload \in [Uploads -> {"start", "record", "recorded", "install"}]
    /\ inspection \in [Uploads -> {"none", "accepted", "past", "gone"}]
    /\ retention.files \in [Exports -> SUBSET Files]

\* An export that is requested again, also at once, is made once.
OneJobPerKey ==
    \A d, e \in Exports :
        d # e /\ KeyOf[d] = KeyOf[e] => {job[d], job[e]} \cap {"none", "gone"} # {}

\* Until it is a day old, an export that succeeded can be downloaded as a whole.
SucceededIsComplete ==
    \A e \in Exports : job[e] = "succeeded" /\ e \notin old =>
        row[e] = Files /\ object[e] = Files

\* Whatever fails in retention, the worker never forgets an object that is still there:
\* but for an export that ended between the two, an object has its row.
ForgottenIsErased ==
    \A e \in Exports : export[e] # "record" /\ e \notin torn => object[e] \subseteq row[e]

\* Retention keeps the archive of every version and of every inspection that can still be
\* installed, unless it was taken for unused while an upload or an installation was
\* under way.
InstallableHasArchive == (version \/ Inspected) => (archive \/ overlapped)

=============================================================================
