----------------------------- MODULE ImageBuild -----------------------------
(***************************************************************************)
(* build.sh and the mkimage.sh or mkimage_ab.sh it runs: which sources the *)
(* images of IMAGE_PATH and of update.img come from, over a history of     *)
(* runs with any options, some of which fail or are interrupted.           *)
(*                                                                         *)
(* What a file holds is the sequence of the source versions it was made    *)
(* from, <<>> if there is no such file.  make, mkbootimg and mkupdate.sh   *)
(* are external: each makes its output from its inputs or fails.           *)
(***************************************************************************)
EXTENDS Naturals, Sequences, FiniteSets

CONSTANTS
    Options,        \* the option sets a developer uses, subsets of Option
    MaxVersion,     \* bound: versions of a source tree
    MaxFails        \* bound: failures that have no cause in the files

Option == {"U", "K", "A", "o", "u"}
Source == {"uboot", "kernel", "android"}
Part == {"uboot", "boot", "super"}
Absent == <<>>
Torn == <<0>>           \* a file of which a part was written

ASSUME BuildAssumption ==
    /\ Options \subseteq SUBSET Option
    /\ MaxVersion \in Nat \ {0}
    /\ MaxFails \in Nat

VARIABLES
    tree,       \* version of each source tree
    ubootImg,   \* u-boot/uboot.img, with the trust and loader files beside it
    kernelDir,  \* arch/.../Image and resource.img, made together
    out,        \* $OUT: kernel, ramdisk, boot and super images, OTA package
    imagePath,  \* IMAGE_PATH: images and OTA package
    updateImg,  \* IMAGE_PATH/update.img: what its parts hold, Absent if none
    packDir,    \* PACK_TOOL_DIR/rockdev/Image
    opts,       \* options of the run
    pc,         \* step of the run, "idle" between runs
    lost,       \* the run's working directory is u-boot, not the top
    unchecked,  \* a command whose result nobody looks at failed in this run
    status,     \* "ok" (exit 0), "failed" (exit 1), of the last run
    fails,
    miscopied   \* history: which of packDir and updateImg come from a cp that
                \* failed for some image

files == <<ubootImg, kernelDir, out, imagePath, updateImg, packDir>>
run == <<opts, lost, unchecked>>
vars == <<tree, files, run, pc, status, fails, miscopied>>

NoParts == [i \in Part |-> Absent]
EmptyOut == [kernel |-> Absent, ramdisk |-> Absent, boot |-> Absent,
             super |-> Absent, ota |-> Absent]
EmptyPath == [uboot |-> Absent, boot |-> Absent, super |-> Absent, ota |-> Absent]

Init ==
    /\ tree = [t \in Source |-> 1]
    /\ ubootImg = Absent /\ kernelDir = Absent /\ out = EmptyOut
    /\ imagePath = EmptyPath /\ updateImg = Absent /\ packDir = NoParts
    /\ opts = {} /\ lost = FALSE /\ unchecked = FALSE
    /\ pc = "idle" /\ status = "ok" /\ fails = 0 /\ miscopied = {}

-----------------------------------------------------------------------------
Goto(label) == pc' = label /\ UNCHANGED status
Exit(result) == pc' = "idle" /\ status' = result

\* A command fails, or the developer interrupts it.
Failure == fails < MaxFails /\ fails' = fails + 1

\* The developer edits some sources and starts build.sh.
Start ==
    /\ pc = "idle"
    /\ opts' \in Options
    /\ \E edited \in SUBSET {t \in Source : tree[t] < MaxVersion} :
          tree' = [t \in Source |-> tree[t] + IF t \in edited THEN 1 ELSE 0]
    /\ lost' = FALSE /\ unchecked' = FALSE
    /\ Goto("uboot")
    /\ UNCHANGED <<files, fails, miscopied>>

\* -U: the tree is cleaned first, so a failure may leave no image.
BuildUboot ==
    /\ pc = "uboot"
    /\ \/ "U" \notin opts /\ Goto("kernel") /\ UNCHANGED <<ubootImg, fails>>
       \/ /\ "U" \in opts /\ Goto("kernel")
          /\ ubootImg' = <<tree["uboot"]>>
          /\ UNCHANGED fails
       \/ /\ "U" \in opts /\ Failure /\ Exit("failed")
          /\ ubootImg' \in {Absent, ubootImg}
    /\ UNCHANGED <<tree, kernelDir, out, imagePath, updateImg, packDir, run, miscopied>>

\* Seeded fault: the new Image is not copied to $OUT/kernel.
BuildKernelUncopied ==
    /\ pc = "kernel"
    /\ \/ "K" \notin opts /\ Goto("resource") /\ UNCHANGED <<kernelDir, fails>>
       \/ /\ "K" \in opts /\ Goto("resource")
          /\ kernelDir' = <<tree["kernel"]>>
          /\ UNCHANGED fails
       \/ /\ "K" \in opts /\ Failure /\ Exit("failed")
          /\ kernelDir' \in {Absent, kernelDir}
    /\ UNCHANGED <<tree, ubootImg, out, imagePath, updateImg, packDir, run, miscopied>>

\* Seeded fault: a failed kernel build is reported but does not exit.
BuildKernelGoesOn ==
    /\ pc = "kernel"
    /\ Goto("resource")
    /\ \/ "K" \notin opts /\ UNCHANGED <<kernelDir, out, fails>>
       \/ /\ "K" \in opts
          /\ kernelDir' = <<tree["kernel"]>>
          /\ out' = [out EXCEPT !.kernel = kernelDir']
          /\ UNCHANGED fails
       \/ /\ "K" \in opts /\ Failure
          /\ kernelDir' \in {Absent, kernelDir}
          /\ UNCHANGED out
    /\ UNCHANGED <<tree, ubootImg, imagePath, updateImg, packDir, run, miscopied>>

\* -K: Image and resource.img, then cp to $OUT/kernel, which nobody checks.
BuildKernel ==
    /\ pc = "kernel"
    /\ \/ /\ "K" \notin opts /\ Goto("resource")
          /\ UNCHANGED <<kernelDir, out, unchecked, fails>>
       \/ /\ "K" \in opts /\ Goto("resource")
          /\ kernelDir' = <<tree["kernel"]>>
          /\ \/ /\ out' = [out EXCEPT !.kernel = kernelDir']
                /\ UNCHANGED <<unchecked, fails>>
             \/ /\ Failure /\ unchecked' = TRUE
                /\ out' \in {out, [out EXCEPT !.kernel = Torn]}
       \/ /\ "K" \in opts /\ Failure /\ Exit("failed")
          /\ kernelDir' \in {Absent, kernelDir}
          /\ UNCHANGED <<out, unchecked>>
    /\ UNCHANGED <<tree, ubootImg, imagePath, updateImg, packDir, opts, lost,
                   miscopied>>

\* "cd u-boot && pack_resource.sh ... && cd -": when a command of the chain
\* fails, the rest of the run happens in u-boot.
PackResource ==
    /\ pc = "resource"
    /\ \/ kernelDir # Absent /\ UNCHANGED <<lost, unchecked, fails>>
       \/ /\ kernelDir = Absent
          /\ lost' = TRUE /\ unchecked' = TRUE
          /\ UNCHANGED fails
       \/ Failure /\ lost' = TRUE /\ unchecked' = TRUE
    /\ Goto(IF "A" \in opts THEN "android" ELSE "repack")
    /\ UNCHANGED <<tree, files, opts, miscopied>>

\* -A in u-boot: there is no dist target, and plain make has nothing to do
\* with Android, whatever it returns.
BuildAndroidLost ==
    /\ pc = "android" /\ lost
    /\ \/ Exit("failed")
       \/ "o" \notin opts /\ Goto("mkimage")
    /\ UNCHANGED <<tree, files, run, fails, miscopied>>

\* make installclean; make; for an OTA package also make dist.  make takes the
\* kernel and the resource image that are prebuilt in the kernel tree.
Built == [kernel |-> kernelDir,
          ramdisk |-> <<tree["android"]>>,
          boot |-> kernelDir \o <<tree["android"]>>,
          super |-> <<tree["android"]>>,
          ota |-> IF "o" \in opts THEN <<tree["android"]>> ELSE Absent]

BuildAndroid ==
    /\ pc = "android" /\ ~lost
    /\ \/ /\ kernelDir # Absent
          /\ out' = Built
          /\ Goto("mkimage")
          /\ UNCHANGED fails
       \/ /\ Failure
          /\ \E done \in SUBSET DOMAIN out :
                out' = [f \in DOMAIN out |-> IF f \in done THEN Built[f] ELSE Absent]
          /\ Exit("failed")
    /\ UNCHANGED <<tree, ubootImg, kernelDir, imagePath, updateImg, packDir, run, miscopied>>

\* No -A: boot.img is put together again from $OUT and the kernel tree's
\* resource.img; when it cannot be, the old one or a part of a new one is there
\* and the run goes on.
Repack ==
    /\ pc = "repack"
    /\ \/ /\ ~lost /\ out.kernel # Absent /\ out.ramdisk # Absent
          /\ out' = [out EXCEPT !.boot = out.kernel \o out.ramdisk]
          /\ UNCHANGED <<unchecked, fails>>
       \/ /\ lost \/ out.kernel = Absent \/ out.ramdisk = Absent
          /\ unchecked' = TRUE
          /\ UNCHANGED <<out, fails>>
       \/ /\ Failure /\ unchecked' = TRUE
          /\ out' \in {out, [out EXCEPT !.boot = Torn]}
    /\ Goto(IF "o" \in opts THEN "update" ELSE "mkimage")
    /\ UNCHANGED <<tree, ubootImg, kernelDir, imagePath, updateImg, packDir, opts, lost,
                   miscopied>>

\* Images that mkimage.sh copies, one that is missing being skipped; build.sh
\* copies the OTA package after it.
Copied == [uboot |-> ubootImg, boot |-> out.boot, super |-> out.super,
           ota |-> IF "o" \in opts THEN out.ota ELSE Absent]

\* mkimage.sh, mkimage_ab.sh: IMAGE_PATH is removed and filled again.  Without
\* $OUT/kernel it offers to copy the prebuilt one; "n" is exit 0, with
\* IMAGE_PATH empty.  It stops at the first command that fails (set -e): dtbo
\* and vbmeta, which are made with super, are copied without a look.  Nobody
\* looks at build.sh's own copy of the OTA package either.
MkImage ==
    /\ pc = "mkimage"
    /\ \/ /\ lost
          /\ Exit("failed")
          /\ UNCHANGED <<imagePath, updateImg, out, unchecked, fails>>
       \/ /\ ~lost
          /\ updateImg' = Absent
          /\ \/ /\ out.kernel # Absent \/ kernelDir # Absent
                /\ out' = [out EXCEPT !.kernel =
                              IF out.kernel # Absent THEN @ ELSE kernelDir]
                /\ \/ /\ imagePath' = Copied /\ Goto("update")
                      /\ UNCHANGED <<unchecked, fails>>
                   \/ /\ "o" \in opts /\ Failure /\ unchecked' = TRUE
                      /\ imagePath' \in {[Copied EXCEPT !.ota = f] : f \in {Absent, Torn}}
                      /\ Goto("update")
                   \/ /\ Failure \/ (out.super = Absent /\ UNCHANGED fails)
                      /\ Exit("failed")
                      /\ \E done \in SUBSET DOMAIN Copied :
                            imagePath' = [i \in DOMAIN Copied |->
                                IF i \in done THEN Copied[i] ELSE Absent]
                      /\ UNCHANGED unchecked
             \/ /\ out.kernel = Absent
                /\ imagePath' = EmptyPath
                /\ Goto("update")
                /\ UNCHANGED <<out, unchecked, fails>>
             \/ /\ out.kernel = Absent /\ kernelDir = Absent
                /\ imagePath' = EmptyPath
                /\ Exit("failed")
                /\ UNCHANGED <<out, unchecked, fails>>
    /\ UNCHANGED <<tree, ubootImg, kernelDir, packDir, opts, lost, miscopied>>

\* Seeded fault: files that are already in the directory are kept.
GatheredOnce == [i \in Part |-> IF packDir[i] # Absent THEN packDir[i] ELSE imagePath[i]]

\* cp -f IMAGE_PATH/*, into a directory that a failed run may have left.
Gathered == [i \in Part |-> IF imagePath[i] # Absent THEN imagePath[i] ELSE packDir[i]]

\* The same when cp fails for some images or is cut short: the file that was
\* there stays, is gone, or is replaced by a part of the new one.
PartlyGathered ==
    {d \in [Part -> {Absent, Torn} \cup {packDir[i] : i \in Part}
                        \cup {imagePath[i] : i \in Part}] :
        \A i \in Part :
            d[i] \in {Gathered[i], packDir[i]}
                        \cup IF imagePath[i] = Absent THEN {} ELSE {Absent, Torn}}

\* -u: the images are gathered.  Nobody looks at the result of cp, which has
\* nothing to copy when IMAGE_PATH is empty; in u-boot nothing is found at all.
Gather ==
    /\ pc = "update" /\ "u" \in opts
    /\ \/ /\ lost
          /\ Exit("failed")
          /\ UNCHANGED <<packDir, miscopied, unchecked, fails>>
       \/ /\ ~lost
          /\ packDir' = Gathered
          /\ miscopied' = miscopied \ {"packDir"}
          /\ unchecked' = (unchecked \/ imagePath = EmptyPath)
          /\ Goto("pack")
          /\ UNCHANGED fails
       \/ /\ ~lost /\ Failure
          /\ packDir' \in PartlyGathered
          /\ miscopied' = miscopied \cup {"packDir"}
          /\ \/ unchecked' = TRUE /\ Goto("pack")
             \/ Exit("failed") /\ UNCHANGED unchecked
    /\ UNCHANGED <<tree, ubootImg, kernelDir, out, imagePath, updateImg, opts, lost>>

\* update.img is what was gathered, for better or worse.
Moved ==
    /\ updateImg' = packDir
    /\ miscopied' = IF "packDir" \in miscopied THEN miscopied \cup {"updateImg"}
                    ELSE miscopied \ {"updateImg"}
NotMoved == UNCHANGED <<updateImg, miscopied>>

\* mkupdate.sh, which needs all its parts and may or may not see that one is
\* torn; then mv to IMAGE_PATH and rm, whose results nobody looks at.
MakeUpdate ==
    /\ pc = "pack"
    /\ \/ /\ \A i \in Part : packDir[i] # Absent
          /\ Exit("ok")
          /\ \/ /\ Moved /\ packDir' = NoParts
                /\ UNCHANGED <<unchecked, fails>>
             \/ /\ Failure /\ unchecked' = TRUE
                /\ \/ NotMoved /\ packDir' = NoParts
                   \/ Moved /\ UNCHANGED packDir
       \/ /\ \E i \in Part : packDir[i] \in {Absent, Torn}
          /\ NotMoved /\ Exit("failed")
          /\ UNCHANGED <<packDir, unchecked, fails>>
       \/ /\ Failure /\ Exit("failed")
          /\ NotMoved \/ ((\A i \in Part : packDir[i] # Absent) /\ Moved)
          /\ UNCHANGED <<packDir, unchecked>>
    /\ UNCHANGED <<tree, ubootImg, kernelDir, out, imagePath, opts, lost>>

Finish ==
    /\ pc = "update" /\ "u" \notin opts
    /\ Exit("ok")
    /\ UNCHANGED <<tree, files, run, fails, miscopied>>

Next ==
    \/ Start \/ BuildUboot \/ BuildKernel \/ PackResource
    \/ BuildAndroidLost \/ BuildAndroid \/ Repack
    \/ MkImage \/ Gather \/ MakeUpdate \/ Finish

Spec == Init /\ [][Next]_vars

-----------------------------------------------------------------------------
(* Properties.                                                             *)

Succeeded == pc = "idle" /\ status = "ok"

\* build.sh -U -K -A: when it returns 0, IMAGE_PATH is complete and every image
\* comes from the sources as they are, whatever earlier runs failed at, were
\* interrupted in or left behind, and whatever went wrong unchecked in this one.
FullBuildComplete ==
    Succeeded /\ {"U", "K", "A"} \subseteq opts =>
        /\ imagePath.uboot = <<tree["uboot"]>>
        /\ imagePath.boot = <<tree["kernel"], tree["android"]>>
        /\ imagePath.super = <<tree["android"]>>

\* build.sh with some of -U, -K, -A: when it returns 0 and none of the commands
\* that nobody checks failed, what was asked for is in IMAGE_PATH and up to
\* date; in particular a new kernel is in boot.img without -A.
PartsFresh ==
    Succeeded /\ ~unchecked /\ ("o" \in opts => "A" \in opts) =>
        /\ "U" \in opts => imagePath.uboot = <<tree["uboot"]>>
        /\ "K" \in opts => /\ imagePath.boot # Absent
                           /\ imagePath.boot[1] = tree["kernel"]
        /\ "A" \in opts => /\ imagePath.super = <<tree["android"]>>
                           /\ imagePath.boot # Absent
                           /\ imagePath.boot[2] = tree["android"]

\* mkimage.sh:28, build.sh:274-298: unless a cp that it was gathered with has
\* failed, which nobody notices, the update.img in IMAGE_PATH is made of the
\* images beside it, though files of a failed run may lie where it is packed.
\* When build.sh -u returns 0 and none of the commands that nobody checks
\* failed in this run, there is such an update.img.
UpdateOfImagesBeside ==
    /\ updateImg # Absent /\ "updateImg" \notin miscopied =>
           \A i \in Part : imagePath[i] # Absent => updateImg[i] = imagePath[i]
    /\ Succeeded /\ "u" \in opts /\ ~unchecked =>
           updateImg # Absent /\ "updateImg" \notin miscopied
=============================================================================
