\* An incremental package whose vendor_boot has not changed.
CONSTANTS
    none = none
    torn = torn
    None = none
    Torn = torn
    Release <- MCRelease
    Content <- MCContent
    image <- MCImage
    user <- MCUser
    android_info <- MCAndroidInfo
    bootloaders <- MCBootloaders
    USERIMAGE_PARTITIONS = {"odm", "product"}
    Factory = 1
    MaxLosses = 2
SPECIFICATION Spec
INVARIANT SkipsUnchanged
