---------------------------- MODULE MCDiscovery ----------------------------
(***************************************************************************)
(* Small instances of AutoDiscovery.                                        *)
(***************************************************************************)
EXTENDS AutoDiscovery, TLC

Base == [enabled |-> {"container"}, image |-> [c \in Containers |-> "nginx"],
         started |-> {}, managed |-> {}, secrets |-> {}, mapSecrets |-> FALSE,
         docker |-> TRUE, targets |-> <<>>, installed |-> ScanTypes, resyncs |-> FALSE,
         fresh |-> TRUE, steady |-> TRUE, graceful |-> FALSE, crashes |-> 0, faults |-> 0, edits |-> 0]
TwoImages == "c1" :> "nginx" @@ "c2" :> "httpd"

(* Containers: two pods of one image, with a crash; with stale caches and a *)
(* failed call; a pod of the secureCodeBox and one with pull secrets, and   *)
(* no ScanType at first; a call that fails while pods end gracefully.       *)
C1 == {[Base EXCEPT !.graceful = TRUE, !.crashes = 1]}
C2 == {[Base EXCEPT !.fresh = FALSE, !.resyncs = TRUE, !.faults = 1]}
C3 == {[Base EXCEPT !.image = TwoImages, !.managed = {"c1"}, !.secrets = {"c2"}, !.started = {"c1"},
             !.mapSecrets = m, !.installed = {"zap"}, !.graceful = TRUE] : m \in BOOLEAN}
C4 == {[Base EXCEPT !.graceful = TRUE, !.resyncs = TRUE, !.faults = 1]}
(* Services: a new version, with stale caches and other writers; with a     *)
(* failed call and a crash; with two targets, the ScanType of one installed *)
(* late; the two discoveries in one process.                                *)
V1 == {[Base EXCEPT !.enabled = {"service"}, !.image = TwoImages, !.started = {"c1"},
             !.targets = <<"zap">>, !.fresh = FALSE, !.steady = s, !.edits = 1] : s \in BOOLEAN}
V2 == {[Base EXCEPT !.enabled = {"service"}, !.image = TwoImages, !.started = {"c1"},
             !.targets = <<"zap">>, !.faults = 1, !.crashes = 1]}
V4 == {[Base EXCEPT !.enabled = {"service"}, !.image = TwoImages, !.started = {"c1"},
             !.targets = <<"trivy", "zap">>, !.installed = {"zap"}]}
V3 == {[Base EXCEPT !.enabled = {"service", "container"}, !.targets = <<"zap">>,
             !.started = Containers, !.docker = FALSE]}
(* AWS: two containers of one image and failed calls; two images and a      *)
(* restart.                                                                 *)
A1 == {[Base EXCEPT !.enabled = {"aws"}, !.graceful = TRUE, !.faults = 2]}
A2 == {[Base EXCEPT !.enabled = {"aws"}, !.image = TwoImages, !.crashes = 1]}
Discovered == C1 \cup C2 \cup C3 \cup C4 \cup V1 \cup V2 \cup V3 \cup V4 \cup A1 \cup A2
=============================================================================
