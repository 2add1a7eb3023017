------------------------------ MODULE ScanJobs ------------------------------
(***************************************************************************)
(* The Jobs of a Scan at work: the lurker beside the scanner, the parser,   *)
(* the hooks, and those who delete Jobs and edit the Scan.  The pods talk   *)
(* to the API server and to S3 directly; the operator only sees the status  *)
(* of their Jobs.                                                           *)
(***************************************************************************)
EXTENDS ScanCluster

Becomes(j, phase) == jobs' = [jobs EXCEPT ![j] = phase]

(* The hooks of the Scan whose Jobs get URLs to upload to. *)
ReadAndWriteHooks ==
    {h \in HookNames : \E g \in DOMAIN scan.groups : \E k \in DOMAIN scan.groups[g] :
        scan.groups[g][k].name = h /\ scan.groups[g][k].type = "ReadAndWrite"}

(* lurker: the main container has ended, its result file is uploaded. *)
LurkerUploads(j) ==
    /\ j[1] = "scanner" /\ jobs[j] = "Active"
    /\ s3' = [s3 EXCEPT !.raw = TRUE]
    /\ Becomes(j, "Uploaded")
    /\ UNCHANGED scan

(* parser: the raw result file is fetched and parsed; the summary of the    *)
(* findings goes into the status of the Scan ...                            *)
ParserPatchesStatus(j) ==
    /\ j[1] = "parser" /\ jobs[j] = "Active"
    /\ s3.raw
    /\ PatchFindings("parser")
    /\ Becomes(j, "Patched")
    /\ UNCHANGED s3

(* ... and then the findings into S3. *)
ParserUploads(j) ==
    /\ j[1] = "parser" /\ jobs[j] = "Patched"
    /\ s3' = [s3 EXCEPT !.findings = "parser"]
    /\ Becomes(j, "Uploaded")
    /\ UNCHANGED scan

(* A ReadAndWrite hook may change the raw results, any number of times ...  *)
HookUploadsRaw(j) ==
    /\ j[1] \in ReadAndWriteHooks /\ jobs[j] = "Active"
    /\ s3' = [s3 EXCEPT !.raw = TRUE]
    /\ UNCHANGED <<scan, jobs>>

(* ... and the findings, which it uploads first to patch the summary        *)
(* afterwards.  What it uploads it has fetched long before, if at all: a    *)
(* cleanup in between does not hold it up.                                  *)
HookUploads(j) ==
    /\ j[1] \in ReadAndWriteHooks /\ jobs[j] = "Active"
    /\ s3' = [s3 EXCEPT !.findings = j[1]]
    /\ Becomes(j, "Uploaded")
    /\ UNCHANGED scan

(* Mutation: the summary is patched before the findings are uploaded.       *)
HookPatchesFirst(j) ==
    /\ j[1] \in ReadAndWriteHooks /\ jobs[j] = "Active"
    /\ PatchFindings(j[1])
    /\ Becomes(j, "Patched")
    /\ UNCHANGED s3

HookPatchesStatus(j) ==
    /\ j[1] \in HookNames /\ jobs[j] = "Uploaded"
    /\ PatchFindings(j[1])
    /\ Becomes(j, "Patched")
    /\ UNCHANGED s3

(* A pod ends with exit code 0 only after its last upload or patch; a hook  *)
(* need not change anything, and what an earlier pod of its Job has changed *)
(* it may find changed already.                                             *)
JobSucceeds(j) ==
    /\ \/ j[1] \in {"scanner", "parser"} /\ jobs[j] = "Uploaded"
       \/ j[1] \in HookNames /\ jobs[j] \in {"Active", "Patched"}
    /\ Becomes(j, "Succeeded")
    /\ UNCHANGED <<scan, s3>>

(* The last retry of the pod has failed, at any point of its work. *)
JobFails(j) ==
    /\ jobs[j] \in Running
    /\ Becomes(j, "Failed")
    /\ UNCHANGED <<scan, s3>>

(* The activeDeadlineSeconds of a ScanType's job template. *)
JobExpires(j) ==
    /\ Deadline /\ j[1] = "scanner" /\ jobs[j] \in Running
    /\ Becomes(j, "Expired")
    /\ UNCHANGED <<scan, s3>>

(* The TTL controller deletes a finished Job, the garbage collector the     *)
(* Jobs of a Scan that is gone.                                             *)
JobDeleted(j) ==
    /\ \/ JobTTL /\ jobs[j] \in {"Succeeded", "Failed", "Expired"}
       \/ ~scan.exists /\ jobs[j] \notin {"None", "Gone"}
    /\ Becomes(j, "Gone")
    /\ UNCHANGED <<scan, s3>>

(* A pod fails with retries left (backoffLimit): the next one starts over,  *)
(* on what was uploaded and patched so far.                                 *)
PodRestarts(j) ==
    /\ jobs[j] \in {"Uploaded", "Patched"}
    /\ Becomes(j, "Active")
    /\ UNCHANGED <<scan, s3, cache, jobCache, queued, timer, expired, edits>>

(* What a pod does on its own while it works. *)
PodStep(j) ==
    /\ \/ LurkerUploads(j)
       \/ ParserPatchesStatus(j)
       \/ ParserUploads(j)
       \/ HookUploadsRaw(j)
       \/ HookUploads(j)
       \/ HookPatchesStatus(j)
       \/ JobSucceeds(j)
       \/ JobFails(j)
    /\ UNCHANGED <<cache, jobCache, queued, timer, expired, edits>>

(* What ends or removes a Job from outside. *)
JobControllerStep(j) ==
    /\ JobExpires(j) \/ JobDeleted(j)
    /\ UNCHANGED <<cache, jobCache, queued, timer, expired, edits>>

(***************************************************************************)
(* Users.                                                                   *)
(***************************************************************************)
Edit(new) ==
    /\ scan.exists /\ edits < MaxEdits
    /\ edits' = edits + 1
    /\ scan' = new
    /\ UNCHANGED <<jobs, s3, cache, jobCache, queued, timer, expired>>

UserLabels == Edit([scan EXCEPT !.rv = @ + 1])
UserSuspends == Edit([scan EXCEPT !.suspend = ~@, !.rv = @ + 1])
UserDeletes == ~scan.deleting /\ Edit(Deleted(scan))
=============================================================================
