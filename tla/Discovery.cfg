\* The auto-discoveries beside their workload: fairness, all properties.
CONSTANTS
    Containers = {"c1", "c2"}
    Images = {"nginx", "httpd"}
    ScanTypes = {"trivy", "zap"}
    ImageScanType = "trivy"
    Configs <- Discovered
SPECIFICATION FairSpec
INVARIANTS ScansMatchAtRest
PROPERTIES EveryRunningImageIsScanned OrphanedScansAreRemoved NewVersionIsScanned VersionIsScannedOnce
\* The workload may be finished and all be discovered.
CHECK_DEADLOCK FALSE
