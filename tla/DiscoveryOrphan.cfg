\* A ScheduledScan whose deletion failed, and that nobody deletes any more.
CONSTANTS
    Containers = {"c1", "c2"}
    Images = {"nginx", "httpd"}
    ScanTypes = {"trivy", "zap"}
    ImageScanType = "trivy"
    Configs <- C4
SPECIFICATION FairSpec
PROPERTIES ScansAreDeletedWithTheirPods
CHECK_DEADLOCK FALSE
