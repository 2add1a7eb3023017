---------------------------- MODULE MCScheduled ----------------------------
(***************************************************************************)
(* Small instances of ScheduledScans.                                       *)
(***************************************************************************)
EXTENDS ScheduledProperties

Base == [kind |-> "interval", period |-> 2, policy |-> "Allow", limit |-> 1, retrigger |-> FALSE,
         installed |-> TRUE, resyncs |-> FALSE, fresh |-> {"list"}, prompt |-> TRUE,
         failures |-> FALSE, edits |-> 0, typeChanges |-> 0, crashes |-> 0, faults |-> 0]

(* Forbid, with Scans that fail, a copy as stale as can be and ticks at any *)
(* time; no history at all, with stale Lists; Replace under cron; a change  *)
(* of the ScanType; a ScanType that is installed late; no schedule; an      *)
(* edit, a crash and a failed call; slots that pass while Reconcile runs,   *)
(* and a crash, without and with resyncs.                                   *)
S1 == {[Base EXCEPT !.policy = "Forbid", !.prompt = FALSE, !.period = 3, !.failures = TRUE]}
S2 == {[Base EXCEPT !.limit = 0, !.fresh = {"copy"}, !.failures = TRUE]}
S3 == {[Base EXCEPT !.policy = "Replace", !.kind = "cron", !.period = 1, !.fresh = {"copy"}]}
S4 == {[Base EXCEPT !.retrigger = TRUE, !.period = 3, !.typeChanges = 1, !.fresh = {"copy"}]}
S5 == {[Base EXCEPT !.policy = "Forbid", !.retrigger = TRUE, !.installed = FALSE, !.resyncs = TRUE,
             !.fresh = {"copy", "list"}, !.typeChanges = 1]}
S6 == {[Base EXCEPT !.kind = "none"]}
S7 == {[Base EXCEPT !.edits = 1, !.crashes = 1, !.faults = 1]}
S8 == {[Base EXCEPT !.prompt = FALSE, !.fresh = {"copy", "list"}, !.crashes = 1]}
S9 == {[c EXCEPT !.resyncs = TRUE] : c \in S8}
Schedules == S1 \cup S2 \cup S3 \cup S4 \cup S5 \cup S6 \cup S7 \cup S8 \cup S9
=============================================================================
