----------------------------- MODULE OtaInstall -----------------------------
(***************************************************************************)
(* releasetools.py: what the device specific part of an update package     *)
(* installs, full or incremental, and a device that runs the package's     *)
(* script, with power losses after which the script starts again.          *)
(*                                                                         *)
(* The script's commands and the order of its parts are those of the       *)
(* platform's ota_from_target_files and of its updater, which are not in   *)
(* this repository; only how releasetools.py uses them is modelled.        *)
(***************************************************************************)
EXTENDS Sequences, SequencesExt, FiniteSets, Naturals

CONSTANTS
    Release,          \* builds with a target files archive
    Content,          \* what an image file may hold
    None,             \* no such file in the archive: zip.read() raises KeyError
    Torn,             \* a partition whose write a power loss cut short
    image,            \* image[r][i]: raw image i of release r, or None
    user,             \* user[r][p]: image of dynamic partition p, or None
    android_info,     \* android_info[r]: "missing", "free" (no requirement,
                      \* or one with "*") or "required"
    bootloaders,      \* bootloaders[r]: those that release r requires
    USERIMAGE_PARTITIONS,
    Factory,          \* the release a device leaves the factory with
    MaxLosses         \* bound: power losses during one installation

Images == {"trust", "uboot", "vbmeta", "dtbo", "charge", "resource",
           "RKLoader", "vendor_boot"}

\* RKLoader.bin goes into the package, but nothing writes it to the device.
Raw == Images \ {"RKLoader"}

ASSUME ArchiveAssumption ==
    /\ None \notin Content /\ Torn \notin Content /\ None # Torn
    /\ image \in [Release -> [Images -> Content \cup {None}]]
    /\ user \in [Release -> [USERIMAGE_PARTITIONS -> Content \cup {None}]]
    /\ android_info \in [Release -> {"missing", "free", "required"}]
    /\ bootloaders \in [Release -> SUBSET Content]
    /\ IsFiniteSet(USERIMAGE_PARTITIONS)
    /\ Factory \in Release
    /\ MaxLosses \in Nat

\* Images of different kinds never have the same bytes.
ASSUME KindAssumption ==
    \A r, s \in Release : \A i, j \in Images :
        i # j /\ image[r][i] # None => image[r][i] # image[s][j]

\* A release accepts the bootloader it ships.
ASSUME BootloaderAssumption ==
    \A r \in Release :
        image[r]["uboot"] # None /\ android_info[r] = "required"
            => image[r]["uboot"] \in bootloaders[r]

VARIABLES
    package,    \* the package being made or installed, NoPackage if none
    stage,      \* which part of the package is made next, "made" when ready
    script,     \* its commands
    flash,      \* the device: its raw partitions
    dynamic,    \* the device: its dynamic partitions, None if it has not one
    release,    \* the device: the release it runs
    pc,         \* the device: the command of script that comes next
    begun,      \* the installation has changed something on the device
    refused,    \* the last installation stopped at a check
    losses

making == <<package, stage, script>>
device == <<flash, dynamic, release, pc, begun, refused, losses>>
vars == <<making, device>>

NoPackage == [kind |-> "none", source |-> Factory, target |-> Factory]

AssertSomeBootloader(list) == [op |-> "assert", on |-> "uboot", to |-> list, from |-> None]
Block(p, tgt, src) == [op |-> "block", on |-> p, to |-> tgt, from |-> src]
WriteRawImage(i, c) == [op |-> "write", on |-> i, to |-> c, from |-> None]
\* The platform's part of a full package: the partition groups are made anew.
Regroup(ps) == [op |-> "regroup", on |-> None, to |-> ps, from |-> None]

Init ==
    /\ package = NoPackage /\ stage = "idle" /\ script = <<>>
    /\ flash = [i \in Raw |-> image[Factory][i]]
    /\ dynamic = user[Factory]
    /\ release = Factory
    /\ pc = 0 /\ begun = FALSE /\ refused = FALSE /\ losses = 0

-----------------------------------------------------------------------------
(* The package.                                                            *)

\* An incremental package is made for the release the device runs: the
\* platform's own check of the fingerprint turns any other one away.
Begin(kind, target) ==
    /\ stage = "idle"
    /\ kind = "incremental" => target # release
    /\ package' = [kind |-> kind, source |-> release, target |-> target]
    /\ stage' = "assertions"
    /\ script' = <<>>
    /\ refused' = FALSE
    /\ UNCHANGED <<flash, dynamic, release, pc, begun, losses>>

\* Seeded fault: the incremental package checks what its source required.
AssertionOfSource ==
    LET r == IF package.kind = "full" THEN package.target ELSE package.source IN
    /\ stage = "assertions"
    /\ IF android_info[r] = "missing"
       THEN package' = NoPackage /\ stage' = "idle" /\ UNCHANGED script
       ELSE /\ script' = IF android_info[r] = "required"
                         THEN <<AssertSomeBootloader(bootloaders[r])>> ELSE <<>>
            /\ stage' = "blocks"
            /\ UNCHANGED package
    /\ UNCHANGED device

\* Without OTA/android-info.txt read() raises, and nothing catches it.
AddBootloaderAssertion ==
    LET r == package.target IN
    /\ stage = "assertions"
    /\ IF android_info[r] = "missing"
       THEN package' = NoPackage /\ stage' = "idle" /\ UNCHANGED script
       ELSE /\ script' = IF android_info[r] = "required"
                         THEN <<AssertSomeBootloader(bootloaders[r])>> ELSE <<>>
            /\ stage' = "blocks"
            /\ UNCHANGED package
    /\ UNCHANGED device

GetUserImages(r) == {p \in USERIMAGE_PARTITIONS : user[r][p] # None}

NoSource == [p \in USERIMAGE_PARTITIONS |-> None]

\* The block differences of parts; a dictionary's items come in any order.
Blocks(parts, target, source) ==
    {[k \in DOMAIN order |-> Block(order[k], target[order[k]], source[order[k]])] :
        order \in SetToSeqs(parts)}

FullOTA_GetBlockDifferences ==
    /\ stage = "blocks" /\ package.kind = "full"
    /\ \E blocks \in Blocks(GetUserImages(package.target),
                            user[package.target], NoSource) :
          script' = script \o (<<Regroup(GetUserImages(package.target))>> \o blocks)
    /\ stage' = "end"
    /\ UNCHANGED <<package, device>>

\* EmptyImage (None) is the target of a partition to delete, and a partition
\* that is new has no source (None).
IncrementalOTA_GetBlockDifferences ==
    /\ stage = "blocks" /\ package.kind = "incremental"
    /\ \E blocks \in Blocks(GetUserImages(package.source)
                                \cup GetUserImages(package.target),
                            user[package.target], user[package.source]) :
          script' = script \o blocks
    /\ stage' = "end"
    /\ UNCHANGED <<package, device>>

FullOrder == <<"trust", "uboot", "vbmeta", "dtbo", "charge", "resource",
               "RKLoader", "vendor_boot">>
IncrementalOrder == <<"trust", "vbmeta", "dtbo", "uboot", "charge", "resource",
                      "RKLoader", "vendor_boot">>

\* The Install... functions, in this order: one write each, but none for the
\* loader.
Writes(order, r, images) ==
    LET Install(k) ==
            IF order[k] \in Raw \cap images
            THEN <<WriteRawImage(order[k], image[r][order[k]])>> ELSE <<>>
    IN  Install(1) \o Install(2) \o Install(3) \o Install(4)
            \o Install(5) \o Install(6) \o Install(7) \o Install(8)

FullOTA_InstallEnd ==
    /\ stage = "end" /\ package.kind = "full"
    /\ script' = script \o Writes(FullOrder, package.target,
                     {i \in Images : image[package.target][i] # None})
    /\ stage' = "made"
    /\ UNCHANGED <<package, device>>

\* Seeded fault: an image is installed only if both archives have it.
DiffersInBoth(i) ==
    /\ image[package.target][i] # None /\ image[package.source][i] # None
    /\ image[package.target][i] # image[package.source][i]

\* The image of the source that the target's one is compared with; for
\* vendor_boot the code names vbmeta_source.
Compared(i) == IF i = "vendor_boot" THEN "vbmeta" ELSE i

Differs(i) ==
    /\ image[package.target][i] # None
    /\ image[package.target][i] # image[package.source][Compared(i)]

IncrementalOTA_InstallEnd ==
    /\ stage = "end" /\ package.kind = "incremental"
    /\ script' = script \o Writes(IncrementalOrder, package.target,
                     {i \in Images : Differs(i)})
    /\ stage' = "made"
    /\ UNCHANGED <<package, device>>

-----------------------------------------------------------------------------
(* The device (external).                                                  *)

StartInstall ==
    /\ stage = "made" /\ pc = 0
    /\ pc' = 1 /\ begun' = FALSE /\ losses' = 0
    /\ UNCHANGED <<making, flash, dynamic, release, refused>>

Running == stage = "made" /\ pc \in DOMAIN script

\* A check that fails ends the installation.
Fails(c) ==
    \/ c.op = "assert" /\ flash["uboot"] \notin c.to
    \/ c.op = "block" /\ c.from # None /\ dynamic[c.on] \notin {c.from, c.to}

Effect(c) ==
    /\ flash' = IF c.op = "write" THEN [flash EXCEPT ![c.on] = c.to] ELSE flash
    /\ dynamic' = CASE c.op = "block" -> [dynamic EXCEPT ![c.on] = c.to]
                    [] c.op = "regroup" ->
                           [p \in USERIMAGE_PARTITIONS |->
                               IF p \in c.to THEN dynamic[p] ELSE None]
                    [] OTHER -> dynamic

Execute ==
    /\ Running /\ ~Fails(script[pc])
    /\ Effect(script[pc])
    /\ begun' = (begun \/ script[pc].op # "assert")
    /\ pc' = pc + 1
    /\ UNCHANGED <<making, release, refused, losses>>

Refuse ==
    /\ Running /\ Fails(script[pc])
    /\ refused' = TRUE
    /\ pc' = 0 /\ package' = NoPackage /\ stage' = "idle" /\ script' = <<>>
    /\ UNCHANGED <<flash, dynamic, release, begun, losses>>

\* The command under way is not done, done, or half done; the recovery
\* system then runs the package from its start.  Block updates resume, and of
\* the copies in a half written uboot the old one or the new one still boots.
PowerLoss ==
    /\ Running /\ ~Fails(script[pc])
    /\ losses < MaxLosses
    /\ losses' = losses + 1
    /\ pc' = 1
    /\ \/ UNCHANGED <<flash, dynamic, begun>>
       \/ Effect(script[pc]) /\ begun' = (begun \/ script[pc].op # "assert")
       \/ /\ script[pc].op = "write" /\ script[pc].on # "uboot"
          /\ flash' = [flash EXCEPT ![script[pc].on] = Torn]
          /\ begun' = TRUE
          /\ UNCHANGED dynamic
    /\ UNCHANGED <<making, release, refused>>

Finish ==
    /\ stage = "made" /\ pc = Len(script) + 1
    /\ release' = package.target
    /\ pc' = 0 /\ package' = NoPackage /\ stage' = "idle" /\ script' = <<>>
    /\ UNCHANGED <<flash, dynamic, begun, refused, losses>>

Next ==
    \/ \E kind \in {"full", "incremental"}, r \in Release : Begin(kind, r)
    \/ AddBootloaderAssertion
    \/ FullOTA_GetBlockDifferences \/ IncrementalOTA_GetBlockDifferences
    \/ FullOTA_InstallEnd \/ IncrementalOTA_InstallEnd
    \/ StartInstall \/ Execute \/ Refuse \/ PowerLoss \/ Finish

Spec == Init /\ [][Next]_vars

-----------------------------------------------------------------------------
(* Properties.                                                             *)

\* releasetools.py: a device that runs a release, however it came to it, has
\* every raw image of that release and exactly its dynamic partitions, though
\* incremental packages skip what has not changed and leave out what their
\* source had.
RunsWhatItSays ==
    stage = "idle" =>
        /\ \A i \in Raw : image[release][i] # None => flash[i] = image[release][i]
        /\ dynamic = user[release]

\* AddBootloaderAssertion, BlockDifference(partition, target, source): a
\* package that has begun to change the device is not turned away when it is
\* run again after a power loss, though by then the bootloader and some
\* partitions are those of the target.
RefusedUntouched == refused => ~begun

\* releasetools.py:312, "vendor_boot unchanged; skipping": an incremental
\* package writes no image that is the same in its two releases.
SkipsUnchanged ==
    stage = "made" /\ package.kind = "incremental" =>
        \A k \in DOMAIN script :
            script[k].op = "write" =>
                script[k].to # image[package.source][script[k].on]
=============================================================================
