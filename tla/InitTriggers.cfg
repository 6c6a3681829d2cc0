\* Requests to flash_img and settings that change while init is busy.  Quiet
\* once the bounds are used up, so no deadlock check.
CONSTANTS
    Path <- MCPath
    Bounds <- MCBounds
SPECIFICATION Spec
INVARIANTS TypeOK AnsweredAsAsked ZramOncePerBoot
PROPERTIES Answered AdbSettles
CHECK_DEADLOCK FALSE
