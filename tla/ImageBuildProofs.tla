-------------------------- MODULE ImageBuildProofs --------------------------
(***************************************************************************)
(* Proofs about ImageBuild: for every set of option sets, any number of    *)
(* source versions and any number of failures.                             *)
(***************************************************************************)
EXTENDS ImageBuild, SequenceTheorems, TLAPS

Whole == {"U", "K", "A"} \subseteq opts

\* What a run with -U -K -A has achieved when it comes to each of its steps.
\* In u-boot (lost) it may come as far as mkimage.sh, which is not there.
Achieved ==
    /\ pc \in {"kernel", "resource", "android", "mkimage", "update", "pack"}
           => ubootImg = <<tree["uboot"]>>
    /\ pc \in {"resource", "android", "mkimage", "update", "pack"}
           => kernelDir = <<tree["kernel"]>>
    /\ pc = "mkimage" /\ ~lost
           => /\ out.kernel # Absent
              /\ out.boot = <<tree["kernel"], tree["android"]>>
              /\ out.super = <<tree["android"]>>
    /\ pc \in {"update", "pack"} \/ Succeeded
           => /\ imagePath.uboot = <<tree["uboot"]>>
              /\ imagePath.boot = <<tree["kernel"], tree["android"]>>
              /\ imagePath.super = <<tree["android"]>>
    /\ pc # "repack"

\* The strengthening of FullBuildComplete that is inductive.
IInv == Whole => Achieved

LEMMA Pair == ASSUME NEW a, NEW b
              PROVE  <<a>> \o <<b>> = <<a, b>> /\ <<a>> # Absent
  <1>1. <<a>> \in Seq({a, b}) /\ <<b>> \in Seq({a, b}) /\ <<>> \in Seq({a, b})
    OBVIOUS
  <1>2. Len(<<a>>) = 1 /\ Len(<<b>>) = 1 /\ Len(<<>>) = 0
    OBVIOUS
  <1>3. <<a>> # Absent
    BY <1>2 DEF Absent
  <1>4. <<a>> \o <<b>> = <<a, b>>
    <2> DEFINE s == <<a>> \o <<b>>
    <2>1. /\ s \in Seq({a, b}) /\ Len(s) = 2
          /\ s[1] = <<a>>[1] /\ s[2] = <<b>>[1]
      BY <1>1, <1>2, ConcatProperties
    <2>2. <<a, b>> \in Seq({a, b}) /\ Len(<<a, b>>) = 2
      OBVIOUS
    <2>3. \A k \in 1 .. 2 : s[k] = <<a, b>>[k]
      <3>1. s[1] = a /\ s[2] = b
        BY <2>1
      <3>2. <<a, b>>[1] = a /\ <<a, b>>[2] = b
        OBVIOUS
      <3>3. QED
        BY <3>1, <3>2
    <2> HIDE DEF s
    <2>4. s = <<a, b>>
      BY <2>1, <2>2, <2>3, SeqEqual
    <2>5. QED
      BY <2>4 DEF s
  <1>5. QED
    BY <1>3, <1>4

\* The images that a full build is asked for have been copied, whatever became
\* of the OTA package.
AsCopied ==
    /\ imagePath'.uboot = ubootImg
    /\ imagePath'.boot = out.boot
    /\ imagePath'.super = out.super

LEMMA CopiedParts ==
    ASSUME imagePath' \in {Copied} \cup {[Copied EXCEPT !.ota = f] : f \in {Absent, Torn}}
    PROVE  AsCopied
  BY DEF AsCopied, Copied

LEMMA CompleteInit == Init => IInv
  BY DEF Init, IInv, Whole

LEMMA CompleteStep == IInv /\ [Next]_vars => IInv'
  <1> SUFFICES ASSUME IInv, [Next]_vars, Whole'
               PROVE  Achieved'
    BY DEF IInv
  <1> USE DEF Goto, Exit, Failure, files, run, Succeeded
  <1>1. CASE Start
    BY <1>1 DEF Start, Achieved
  <1>2. CASE BuildUboot
    BY <1>2 DEF BuildUboot, IInv, Whole, Achieved
  <1>3. CASE BuildKernel
    BY <1>3 DEF BuildKernel, IInv, Whole, Achieved
  <1>4. CASE PackResource
    BY <1>4 DEF PackResource, IInv, Whole, Achieved
  <1>5. CASE BuildAndroidLost
    BY <1>5 DEF BuildAndroidLost, IInv, Whole, Achieved
  <1>6. CASE BuildAndroid
    <2>1. CASE pc' = "idle"
      BY <1>6, <2>1 DEF BuildAndroid, IInv, Whole, Achieved
    <2>2. CASE pc' # "idle"
      <3>1. /\ pc = "android" /\ ~lost /\ out' = Built
            /\ pc' = "mkimage"
            /\ UNCHANGED <<tree, ubootImg, kernelDir, opts, lost>>
        BY <1>6, <2>2 DEF BuildAndroid
      <3>2. /\ ubootImg = <<tree["uboot"]>>
            /\ kernelDir = <<tree["kernel"]>>
        BY <3>1 DEF IInv, Whole, Achieved
      <3>3. /\ out'.kernel = <<tree["kernel"]>>
            /\ out'.boot = <<tree["kernel"]>> \o <<tree["android"]>>
            /\ out'.super = <<tree["android"]>>
        BY <3>1, <3>2 DEF Built
      <3>4. QED
        BY <3>1, <3>2, <3>3, Pair DEF Achieved
    <2>3. QED
      BY <2>1, <2>2
  <1>7. CASE Repack
    BY <1>7 DEF Repack, IInv, Whole, Achieved
  <1>8. CASE MkImage
    <2>1. CASE lost
      BY <1>8, <2>1 DEF MkImage, IInv, Whole, Achieved
    <2>2. CASE ~lost
      <3>1. /\ out.kernel # Absent /\ pc = "mkimage"
            /\ ubootImg = <<tree["uboot"]>>
            /\ kernelDir = <<tree["kernel"]>>
            /\ out.boot = <<tree["kernel"], tree["android"]>>
            /\ out.super = <<tree["android"]>>
        BY <1>8, <2>2 DEF MkImage, IInv, Whole, Achieved
      <3>2. /\ UNCHANGED <<tree, ubootImg, kernelDir, opts>>
            /\ \/ pc' = "update" /\ AsCopied
               \/ pc' = "idle" /\ status' = "failed"
        BY <1>8, <2>2, <3>1, CopiedParts DEF MkImage
      <3>3. AsCopied => /\ imagePath'.uboot = ubootImg
                        /\ imagePath'.boot = out.boot
                        /\ imagePath'.super = out.super
        BY DEF AsCopied
      <3>4. QED
        BY <3>1, <3>2, <3>3 DEF Achieved
    <2>3. QED
      BY <2>1, <2>2
  <1>9. CASE Gather \/ MakeUpdate
    BY <1>9 DEF Gather, MakeUpdate, Moved, NotMoved, IInv, Whole, Achieved
  <1>10. CASE Finish
    BY <1>10 DEF Finish, IInv, Whole, Achieved
  <1>11. CASE UNCHANGED vars
    BY <1>11 DEF vars, IInv, Whole, Achieved
  <1>12. QED
    BY <1>1, <1>2, <1>3, <1>4, <1>5, <1>6, <1>7, <1>8, <1>9, <1>10, <1>11
       DEF Next

\* build.sh -U -K -A that returns 0 has filled IMAGE_PATH with a complete set
\* of images of the sources as they are, after any history.
THEOREM FullBuild == Spec => []FullBuildComplete
  <1>1. IInv => FullBuildComplete
    BY DEF IInv, Whole, Achieved, FullBuildComplete
  <1>2. QED
    BY <1>1, CompleteInit, CompleteStep, PTL DEF Spec

-----------------------------------------------------------------------------
(* UpdateOfImagesBeside.                                                   *)

Agrees(parts) == \A i \in Part : imagePath[i] # Absent => parts[i] = imagePath[i]

\* The strengthening: what lies in packDir when mkupdate.sh is called is made of
\* the images in IMAGE_PATH, unless the cp before it is known to have failed.
Beside ==
    /\ UpdateOfImagesBeside
    /\ DOMAIN packDir = Part
    /\ pc = "pack" =>
           /\ "packDir" \notin miscopied => Agrees(packDir)
           /\ ~unchecked => "packDir" \notin miscopied

LEMMA BesideStep == Beside /\ [Next]_vars => Beside'
  <1> SUFFICES ASSUME Beside, [Next]_vars
               PROVE  Beside'
    OBVIOUS
  <1> USE DEF Goto, Exit, Succeeded
  <1>1. CASE Start
    BY <1>1 DEF Start, files, Beside, UpdateOfImagesBeside
  <1>2. CASE BuildUboot \/ BuildKernel \/ PackResource
    <2>1. /\ UNCHANGED <<imagePath, updateImg, packDir, miscopied>>
          /\ pc' # "pack" /\ (pc' = "idle" => status' = "failed")
      BY <1>2 DEF BuildUboot, BuildKernel, PackResource, files
    <2>2. QED
      BY <2>1 DEF Beside, UpdateOfImagesBeside
  <1>3. CASE BuildAndroidLost \/ BuildAndroid \/ Repack
    <2>1. /\ UNCHANGED <<imagePath, updateImg, packDir, miscopied>>
          /\ pc' # "pack" /\ (pc' = "idle" => status' = "failed")
      BY <1>3 DEF BuildAndroidLost, BuildAndroid, Repack, files
    <2>2. QED
      BY <2>1 DEF Beside, UpdateOfImagesBeside
  <1>4. CASE MkImage
    <2>1. /\ UNCHANGED <<packDir, miscopied>>
          /\ UNCHANGED <<imagePath, updateImg>> \/ updateImg' = Absent
          /\ pc' # "pack" /\ (pc' = "idle" => status' = "failed")
      BY <1>4 DEF MkImage
    <2>2. QED
      BY <2>1 DEF Beside, UpdateOfImagesBeside
  <1>5. CASE Gather
    <2>1. UNCHANGED <<imagePath, updateImg>> /\ (pc' = "idle" => status' = "failed")
      BY <1>5 DEF Gather
    <2>2. "updateImg" \notin miscopied' <=> "updateImg" \notin miscopied
      BY <1>5 DEF Gather
    <2>3. UpdateOfImagesBeside'
      BY <2>1, <2>2 DEF Beside, UpdateOfImagesBeside
    <2>4. DOMAIN packDir' = Part
      BY <1>5 DEF Gather, Gathered, PartlyGathered, Beside
    <2>5. CASE packDir' = Gathered /\ miscopied' = miscopied \ {"packDir"}
      BY <2>1, <2>3, <2>4, <2>5 DEF Beside, Agrees, Gathered
    <2>6. CASE pc' = "idle" \/ ("packDir" \in miscopied' /\ unchecked')
      BY <2>3, <2>4, <2>6 DEF Beside
    <2>7. QED
      BY <1>5, <2>5, <2>6 DEF Gather
  <1>6. CASE MakeUpdate
    <2>1. pc = "pack" /\ pc' = "idle" /\ UNCHANGED <<imagePath, opts>>
      BY <1>6 DEF MakeUpdate
    <2>2. DOMAIN packDir' = Part
      BY <1>6 DEF MakeUpdate, NoParts, Beside
    <2>3. CASE NotMoved /\ (Succeeded' => unchecked')
      BY <2>1, <2>2, <2>3 DEF NotMoved, Beside, UpdateOfImagesBeside
    <2>4. CASE Moved /\ (~unchecked' => ~unchecked)
      <3>1. updateImg' = packDir /\ packDir # Absent
        <4>1. DOMAIN packDir = Part /\ DOMAIN Absent = {}
          BY DEF Beside, Absent
        <4>2. QED
          BY <2>4, <4>1 DEF Moved, Part
      <3>2. "updateImg" \notin miscopied' <=> "packDir" \notin miscopied
        BY <2>4 DEF Moved
      <3>3. QED
        BY <2>1, <2>2, <2>4, <3>1, <3>2 DEF Beside, UpdateOfImagesBeside, Agrees
    <2>5. QED
      BY <1>6, <2>3, <2>4 DEF MakeUpdate
  <1>7. CASE Finish
    BY <1>7 DEF Finish, files, run, Beside, UpdateOfImagesBeside
  <1>8. CASE UNCHANGED vars
    BY <1>8 DEF vars, files, run, Beside, UpdateOfImagesBeside, Agrees
  <1>9. QED
    BY <1>1, <1>2, <1>3, <1>4, <1>5, <1>6, <1>7, <1>8 DEF Next

\* Unless the unchecked cp failed, the update.img in IMAGE_PATH is made of the
\* images beside it: mkimage.sh takes it away with them, and cp -f replaces what
\* a failed run left behind.  A run that returns 0 with all going well makes one.
THEOREM UpdateBeside == Spec => []UpdateOfImagesBeside
  <1>1. Init => Beside
    BY DEF Init, NoParts, Beside, UpdateOfImagesBeside
  <1>2. Beside => UpdateOfImagesBeside
    BY DEF Beside
  <1>3. QED
    BY <1>1, <1>2, BesideStep, PTL DEF Spec

-----------------------------------------------------------------------------
(* PartsFresh.  The contents of $OUT/kernel, of the ramdisk and of the     *)
(* kernel tree come from one source, so that the parts of boot.img lie     *)
(* where PartsFresh looks for them.                                        *)

OneSource == {Absent} \cup {<<v>> : v \in Nat}

Shape ==
    /\ tree \in [Source -> Nat]
    /\ kernelDir \in OneSource
    /\ out \in [kernel : OneSource, ramdisk : OneSource,
               boot : Seq(Nat), super : Seq(Nat), ota : Seq(Nat)]

LEMMA OneSourceSeq == OneSource \subseteq Seq(Nat)
  <1>1. <<>> \in Seq(Nat) /\ \A v \in Nat : <<v>> \in Seq(Nat)
    OBVIOUS
  <1>2. QED
    BY <1>1 DEF OneSource, Absent

LEMMA ShapeInit == Init => Shape
  <1> SUFFICES ASSUME Init PROVE Shape
    OBVIOUS
  <1>1. Absent \in OneSource /\ Absent \in Seq(Nat)
    BY DEF OneSource, Absent
  <1>2. QED
    BY <1>1 DEF Init, Shape, EmptyOut

LEMMA ShapeStep == Shape /\ [Next]_vars => Shape'
  <1> SUFFICES ASSUME Shape, [Next]_vars
               PROVE  Shape'
    OBVIOUS
  <1>0. Torn \in OneSource /\ Torn \in Seq(Nat)
    <2>1. <<0>> \in Seq(Nat)
      OBVIOUS
    <2>2. QED
      BY <2>1 DEF OneSource, Torn
  <1>1. Absent \in OneSource /\ Absent \in Seq(Nat)
    BY DEF OneSource, Absent
  <1>2. \A t \in Source : <<tree[t]>> \in OneSource /\ <<tree[t]>> \in Seq(Nat)
    BY DEF Shape, OneSource
  <1>3. CASE Start
    BY <1>3 DEF Start, Shape, files
  <1>4. CASE BuildKernel
    <2>1. kernelDir' \in OneSource
      BY <1>1, <1>2, <1>4 DEF BuildKernel, Shape, Source
    <2>2. /\ UNCHANGED tree
          /\ \E f \in {kernelDir', Torn} : UNCHANGED out \/ out' = [out EXCEPT !.kernel = f]
      BY <1>4 DEF BuildKernel
    <2>3. QED
      BY <1>0, <2>1, <2>2 DEF Shape
  <1>5. CASE BuildAndroid
    <2> DEFINE T == [kernel : OneSource, ramdisk : OneSource,
                     boot : Seq(Nat), super : Seq(Nat), ota : Seq(Nat)]
    <2>1. Built \in T
      <3>1. <<tree["android"]>> \in OneSource /\ <<tree["android"]>> \in Seq(Nat)
        BY <1>2 DEF Source
      <3>2. kernelDir \in OneSource /\ kernelDir \o <<tree["android"]>> \in Seq(Nat)
        BY <3>1, OneSourceSeq, ConcatProperties DEF Shape
      <3>3. QED
        BY <1>1, <3>1, <3>2 DEF Built
    <2>2. UNCHANGED <<tree, kernelDir>>
      BY <1>5 DEF BuildAndroid
    <2>3. CASE out' = Built
      BY <2>1, <2>2, <2>3 DEF Shape
    <2>4. ASSUME NEW done \in SUBSET DOMAIN out,
                 out' = [f \in DOMAIN out |-> IF f \in done THEN Built[f] ELSE Absent]
          PROVE  out' \in T
      <3>1. DOMAIN out = {"kernel", "ramdisk", "boot", "super", "ota"}
        BY DEF Shape
      <3>2. /\ out'["kernel"] \in OneSource /\ out'["ramdisk"] \in OneSource
            /\ out'["boot"] \in Seq(Nat) /\ out'["super"] \in Seq(Nat)
            /\ out'["ota"] \in Seq(Nat)
        BY <1>1, <2>1, <2>4, <3>1
      <3>3. out' = [kernel |-> out'["kernel"], ramdisk |-> out'["ramdisk"],
                    boot |-> out'["boot"], super |-> out'["super"], ota |-> out'["ota"]]
        BY <2>4, <3>1
      <3>4. QED
        BY <3>2, <3>3
    <2>5. QED
      BY <1>5, <2>2, <2>3, <2>4 DEF BuildAndroid, Shape
  <1>6. CASE Repack
    <2>1. out.kernel \o out.ramdisk \in Seq(Nat)
      BY OneSourceSeq, ConcatProperties DEF Shape
    <2>2. UNCHANGED <<tree, kernelDir>>
          /\ \E f \in {out.kernel \o out.ramdisk, Torn} :
                UNCHANGED out \/ out' = [out EXCEPT !.boot = f]
      BY <1>6 DEF Repack
    <2>3. QED
      BY <1>0, <2>1, <2>2 DEF Shape
  <1>7. CASE MkImage
    <2>1. UNCHANGED <<tree, kernelDir>>
          /\ \/ UNCHANGED out
             \/ out' = [out EXCEPT !.kernel = IF out.kernel # Absent THEN @ ELSE kernelDir]
      BY <1>7 DEF MkImage
    <2>2. QED
      BY <2>1 DEF Shape
  <1>8. CASE UNCHANGED <<tree, kernelDir, out>>
    BY <1>8 DEF Shape
  <1>9. QED
    BY <1>3, <1>4, <1>5, <1>6, <1>7, <1>8
    DEF Next, vars, files, BuildUboot, PackResource, BuildAndroidLost, Gather, MakeUpdate, Finish

\* What a run has made of the parts it was asked for when it comes to each of
\* its steps, if all that nobody checks went well.
Fresh ==
    /\ lost => unchecked
    /\ ~unchecked =>
        /\ "U" \in opts /\ pc \notin {"idle", "uboot"} => ubootImg = <<tree["uboot"]>>
        /\ "K" \in opts /\ pc \in {"resource", "android", "repack"} =>
               kernelDir = <<tree["kernel"]>> /\ out.kernel = kernelDir
        /\ pc = "android" => "A" \in opts
        /\ pc = "repack" => "A" \notin opts
        /\ pc = "mkimage" =>
               /\ out.kernel # Absent
               /\ "K" \in opts => \E r : out.boot = <<tree["kernel"], r>>
               /\ "A" \in opts => /\ out.super = <<tree["android"]>>
                                  /\ \E k : out.boot = <<k, tree["android"]>>
        /\ (pc \in {"update", "pack"} \/ Succeeded) /\ ("o" \in opts => "A" \in opts) =>
               /\ "U" \in opts => imagePath.uboot = <<tree["uboot"]>>
               /\ "K" \in opts => \E r : imagePath.boot = <<tree["kernel"], r>>
               /\ "A" \in opts => /\ imagePath.super = <<tree["android"]>>
                                  /\ \E k : imagePath.boot = <<k, tree["android"]>>

LEMMA FreshInit == Init => Fresh
  BY DEF Init, Fresh

LEMMA FreshStep == Shape /\ Fresh /\ [Next]_vars => Fresh'
  <1> SUFFICES ASSUME Shape, Fresh, [Next]_vars
               PROVE  Fresh'
    OBVIOUS
  <1> USE DEF Goto, Exit, Failure, files, run, Succeeded
  <1>1. CASE Start
    BY <1>1 DEF Start, Fresh
  <1>2. CASE BuildUboot
    BY <1>2 DEF BuildUboot, Fresh
  <1>3. CASE BuildKernel
    <2>1. CASE "K" \notin opts
      BY <1>3, <2>1 DEF BuildKernel, Fresh
    <2>2. CASE "K" \in opts /\ pc' = "resource"
      <3>1. out' = [out EXCEPT !.kernel = kernelDir'] => out'.kernel = kernelDir'
        BY DEF Shape
      <3>2. QED
        BY <1>3, <2>2, <3>1 DEF BuildKernel, Fresh
    <2>3. CASE "K" \in opts /\ pc' = "idle"
      BY <1>3, <2>3 DEF BuildKernel, Fresh
    <2>4. QED
      BY <1>3, <2>1, <2>2, <2>3 DEF BuildKernel
  <1>4. CASE PackResource
    BY <1>4 DEF PackResource, Fresh
  <1>5. CASE BuildAndroidLost
    BY <1>5 DEF BuildAndroidLost, Fresh
  <1>6. CASE BuildAndroid
    <2>1. CASE pc' = "idle"
      BY <1>6, <2>1 DEF BuildAndroid, Fresh
    <2>2. CASE pc' # "idle"
      <3>1. /\ pc = "android" /\ ~lost /\ out' = Built /\ kernelDir # Absent
            /\ pc' = "mkimage"
            /\ UNCHANGED <<tree, ubootImg, kernelDir, opts, lost, unchecked>>
        BY <1>6, <2>2 DEF BuildAndroid
      <3>2. PICK k : kernelDir = <<k>>
        BY <3>1 DEF Shape, OneSource
      <3>3. out'.boot = <<k, tree["android"]>> /\ out'.super = <<tree["android"]>>
            /\ out'.kernel = <<k>> /\ <<k>> # Absent
        BY <3>1, <3>2, Pair DEF Built
      <3>4. "K" \in opts /\ ~unchecked => out'.boot = <<tree["kernel"], tree["android"]>>
        BY <3>1, Pair DEF Built, Fresh
      <3>5. QED
        BY <3>1, <3>3, <3>4 DEF Fresh
    <2>3. QED
      BY <2>1, <2>2
  <1>7. CASE Repack
    <2>1. CASE unchecked'
      BY <1>7, <2>1 DEF Repack, Fresh
    <2>2. CASE ~unchecked'
      <3>1. /\ pc = "repack" /\ ~unchecked /\ out.kernel # Absent /\ out.ramdisk # Absent
            /\ out' = [out EXCEPT !.boot = out.kernel \o out.ramdisk]
            /\ UNCHANGED <<tree, ubootImg, kernelDir, opts, lost, status>>
            /\ pc' = IF "o" \in opts THEN "update" ELSE "mkimage"
        <4>1. ~unchecked
          BY <1>7, <2>2 DEF Repack
        <4>2. /\ pc = "repack"
              /\ UNCHANGED <<tree, ubootImg, kernelDir, opts, lost, status>>
              /\ pc' = IF "o" \in opts THEN "update" ELSE "mkimage"
          BY <1>7 DEF Repack
        <4>3. /\ out.kernel # Absent /\ out.ramdisk # Absent
              /\ out' = [out EXCEPT !.boot = out.kernel \o out.ramdisk]
          BY <1>7, <2>2 DEF Repack
        <4>4. QED
          BY <4>1, <4>2, <4>3
      <3>2. PICK k, r : out.kernel = <<k>> /\ out.ramdisk = <<r>>
        BY <3>1 DEF Shape, OneSource
      <3>3. out'.boot = <<k, r>> /\ out'.kernel = <<k>> /\ <<k>> # Absent
        BY <3>1, <3>2, Pair DEF Shape
      <3>4. "K" \in opts => <<k>> = <<tree["kernel"]>>
        BY <3>1, <3>2 DEF Fresh
      <3>5. "K" \in opts => k = tree["kernel"]
        BY <3>4
      <3>6. "A" \notin opts
        BY <3>1 DEF Fresh
      <3>7. QED
        BY <2>2, <3>1, <3>3, <3>5, <3>6 DEF Fresh
    <2>3. QED
      BY <2>1, <2>2
  <1>8. CASE MkImage
    <2>1. CASE unchecked
      BY <1>8, <2>1 DEF MkImage, Fresh
    <2>2. CASE ~unchecked
      <3>1. pc = "mkimage" /\ ~lost /\ out.kernel # Absent
        BY <1>8, <2>2 DEF MkImage, Fresh
      <3>2. /\ UNCHANGED <<tree, ubootImg, kernelDir, opts, lost>>
            /\ \/ pc' = "update" /\ AsCopied
               \/ pc' = "idle" /\ status' = "failed"
        BY <1>8, <3>1, CopiedParts DEF MkImage
      <3>3. AsCopied => /\ imagePath'.uboot = ubootImg
                        /\ imagePath'.boot = out.boot
                        /\ imagePath'.super = out.super
        BY DEF AsCopied
      <3>4. QED
        BY <2>2, <3>1, <3>2, <3>3 DEF Fresh
    <2>3. QED
      BY <2>1, <2>2
  <1>9. CASE Gather \/ MakeUpdate
    <2>1. /\ pc \in {"update", "pack"} /\ pc' \in {"pack", "idle"}
          /\ UNCHANGED <<tree, ubootImg, imagePath, opts, lost>>
      BY <1>9 DEF Gather, MakeUpdate
    <2>2. ~unchecked' => ~unchecked
      BY <1>9 DEF Gather, MakeUpdate
    <2>3. QED
      BY <2>1, <2>2 DEF Fresh
  <1>10. CASE Finish
    BY <1>10 DEF Finish, Fresh
  <1>11. CASE UNCHANGED vars
    BY <1>11 DEF vars, Fresh
  <1>12. QED
    BY <1>1, <1>2, <1>3, <1>4, <1>5, <1>6, <1>7, <1>8, <1>9, <1>10, <1>11
       DEF Next

\* A run of build.sh that returns 0, with any options, after any history, has
\* brought up to date all it was asked for, if what nobody checks went well.
THEOREM PartsAreFresh == Spec => []PartsFresh
  <1>1. Fresh => PartsFresh
    <2> SUFFICES ASSUME Fresh, Succeeded, ~unchecked, "o" \in opts => "A" \in opts
                 PROVE  /\ "U" \in opts => imagePath.uboot = <<tree["uboot"]>>
                        /\ "K" \in opts => /\ imagePath.boot # Absent
                                           /\ imagePath.boot[1] = tree["kernel"]
                        /\ "A" \in opts => /\ imagePath.super = <<tree["android"]>>
                                           /\ imagePath.boot # Absent
                                           /\ imagePath.boot[2] = tree["android"]
      BY DEF PartsFresh
    <2>1. \A a, b : <<a, b>> # Absent /\ <<a, b>>[1] = a /\ <<a, b>>[2] = b
      <3> TAKE a, b
      <3>1. Len(<<a, b>>) = 2 /\ Len(<<>>) = 0
        OBVIOUS
      <3>2. QED
        BY <3>1 DEF Absent
    <2>2. QED
      BY <2>1 DEF Fresh
  <1>2. Init => Shape /\ Fresh
    BY ShapeInit, FreshInit
  <1>3. Shape /\ Fresh /\ [Next]_vars => Shape' /\ Fresh'
    BY ShapeStep, FreshStep
  <1>4. QED
    BY <1>1, <1>2, <1>3, PTL DEF Spec
=============================================================================
