\* A version that is scanned again: the List is stale, the Get is not.
CONSTANTS
    Containers = {"c1", "c2"}
    Images = {"nginx", "httpd"}
    ScanTypes = {"trivy", "zap"}
    ImageScanType = "trivy"
    Configs <- V1
SPECIFICATION Spec
PROPERTIES ScannedVersionIsSkipped
CHECK_DEADLOCK FALSE
