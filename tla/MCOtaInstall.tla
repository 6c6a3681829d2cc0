---------------------------- MODULE MCOtaInstall ----------------------------
(***************************************************************************)
(* Five releases for OtaInstall: images appear, vanish, return and change, *)
(* dynamic partitions are deleted and added again, a bootloader is         *)
(* replaced by one that only the later releases accept; the last archive   *)
(* has no android-info.txt.                                                *)
(***************************************************************************)
EXTENDS OtaInstall, TLC

CONSTANTS none, torn

MCRelease == 1 .. 5

\* The bytes of an image: its kind and version.
At(i, v) == <<i, v>>
MCContent == (Images \cup {"odm", "product"}) \X (1 .. 3)

\* All images at version v, but for those of changes.
Built(v, changes) ==
    [i \in Images |->
        IF i \in DOMAIN changes
        THEN IF changes[i] = 0 THEN none ELSE At(i, changes[i])
        ELSE At(i, v)]

MCImage ==
    1 :> Built(1, "charge" :> 0 @@ "vendor_boot" :> 1) @@
    2 :> Built(1, "uboot" :> 2 @@ "vbmeta" :> 2 @@ "trust" :> 0) @@
    3 :> Built(2, "vendor_boot" :> 0 @@ "resource" :> 1) @@
    4 :> Built(1, "uboot" :> 2 @@ "vendor_boot" :> 2 @@ "dtbo" :> 0) @@
    5 :> Built(2, "uboot" :> 0 @@ "charge" :> 1)

MCUser ==
    1 :> ("odm" :> At("odm", 1) @@ "product" :> At("product", 1)) @@
    2 :> ("odm" :> none @@ "product" :> At("product", 2)) @@
    3 :> ("odm" :> At("odm", 2) @@ "product" :> none) @@
    4 :> ("odm" :> At("odm", 2) @@ "product" :> At("product", 1)) @@
    5 :> ("odm" :> At("odm", 1) @@ "product" :> At("product", 2))

MCAndroidInfo == 1 :> "required" @@ 2 :> "required" @@ 3 :> "free" @@ 4 :> "required"
        @@ 5 :> "missing"

MCBootloaders ==
    1 :> {At("uboot", 1)} @@ 2 :> {At("uboot", 1), At("uboot", 2)} @@
    3 :> {} @@ 4 :> {At("uboot", 2)} @@ 5 :> {}
=============================================================================
