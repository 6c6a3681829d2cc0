\* Any chain of full and incremental updates, two power losses in each.
CONSTANTS
    none = none
    torn = torn
    None = none
    Torn = torn
    Release <- MCRelease
    Content <- MCContent
    image <- MCImage
    user <- MCUser
    android_info <- MCAndroidInfo
    bootloaders <- MCBootloaders
    USERIMAGE_PARTITIONS = {"odm", "product"}
    Factory = 1
    MaxLosses = 2
SPECIFICATION Spec
INVARIANTS RunsWhatItSays RefusedUntouched
