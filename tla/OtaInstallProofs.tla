-------------------------- MODULE OtaInstallProofs --------------------------
(***************************************************************************)
(* Proofs about OtaInstall, for any releases and archives, any chain of    *)
(* full and incremental updates, and any number of power losses.           *)
(***************************************************************************)
EXTENDS OtaInstall, FiniteSetTheorems, FunctionTheorems, TLAPS

Argument ==
    Content \cup {None} \cup (SUBSET Content) \cup (SUBSET USERIMAGE_PARTITIONS)

Command ==
    [op : {"assert", "block", "regroup", "write"},
     on : Raw \cup USERIMAGE_PARTITIONS \cup {None},
     to : Argument,
     from : Content \cup {None}]

\* What a device that runs a release has on its partitions.
Settled ==
    /\ \A i \in Raw : image[release][i] # None => flash[i] = image[release][i]
    /\ dynamic = user[release]

OtaTypeOK ==
    /\ package \in [kind : {"none", "full", "incremental"},
                    source : Release, target : Release]
    /\ stage \in {"idle", "assertions", "blocks", "end", "made"}
    /\ script \in Seq(Command)
    /\ flash \in [Raw -> Content \cup {None, Torn}]
    /\ dynamic \in [USERIMAGE_PARTITIONS -> Content \cup {None}]
    /\ release \in Release
    /\ pc \in Nat
    /\ begun \in BOOLEAN /\ refused \in BOOLEAN

\* A command that belongs into the package.
Sound(c) ==
    LET s == package.source
        t == package.target
    IN  /\ c.op = "assert" =>
              /\ android_info[t] = "required"
              /\ c.to = bootloaders[t]
        /\ c.op = "block" =>
              /\ c.on \in USERIMAGE_PARTITIONS /\ c.to = user[t][c.on]
              /\ package.kind = "full" => c.to # None /\ c.from = None
              /\ package.kind = "incremental" => c.from = user[s][c.on]
        /\ c.op = "regroup" => package.kind = "full" /\ c.to = GetUserImages(t)
        /\ c.op = "write" =>
              /\ c.on \in Raw /\ c.to = image[t][c.on] /\ c.to # None
              /\ package.kind = "incremental" => Differs(c.on)

\* The script so far: only sound commands, the check of the bootloader first.
ScriptSound ==
    \A k \in DOMAIN script :
        Sound(script[k]) /\ (script[k].op = "assert" => k = 1)

Has(op, x) == \E k \in DOMAIN script : script[k].op = op /\ script[k].on = x

\* Nothing that the package needs is missing from the script.
ScriptWhole ==
    LET s == package.source
        t == package.target
    IN  /\ stage \in {"end", "made"} =>
              /\ package.kind = "full" =>
                    /\ Has("regroup", None)
                    /\ \A p \in GetUserImages(t) : Has("block", p)
              /\ package.kind = "incremental" =>
                    \A p \in GetUserImages(s) \cup GetUserImages(t) : Has("block", p)
        /\ stage = "made" =>
              \A i \in Raw :
                  image[t][i] # None /\ (package.kind = "full" \/ Differs(i))
                      => Has("write", i)

\* What command c is there to achieve.
Done(c) ==
    /\ c.op = "assert" => flash["uboot"] \in c.to
    /\ c.op = "block" => dynamic[c.on] = c.to
    /\ c.op = "regroup" => \A p \in USERIMAGE_PARTITIONS \ c.to : dynamic[p] = None
    /\ c.op = "write" => flash[c.on] = c.to

\* A package under way, which may have been run before, up to any command:
\* the commands that precede the next one are done, the bootloader is one that
\* is accepted, and what the package does not write is still the source's.
UnderWay ==
    LET s == package.source
        t == package.target
    IN  /\ \A k \in DOMAIN script : k < pc => Done(script[k])
        /\ begun => \A k \in DOMAIN script :
                        script[k].op = "assert" => flash["uboot"] \in script[k].to
        /\ package.kind = "incremental" =>
              /\ \A p \in USERIMAGE_PARTITIONS : dynamic[p] \in {user[s][p], user[t][p]}
              /\ \A i \in Raw : image[s][i] # None /\ ~(image[t][i] # None /\ Differs(i))
                                    => flash[i] = image[s][i]

Stages ==
    /\ stage = "idle" => pc = 0 /\ script = <<>>
    /\ stage # "idle" => /\ package.kind # "none" /\ package.source = release
                         /\ ~refused
    /\ stage = "assertions" => script = <<>>
    /\ stage # "made" => pc = 0

\* The strengthening of RunsWhatItSays and RefusedUntouched that is inductive.
IInv ==
    /\ OtaTypeOK /\ Stages /\ ScriptSound /\ ScriptWhole
    /\ pc = 0 \/ ~begun => Settled
    /\ pc > 0 => UnderWay
    /\ refused => ~begun

-----------------------------------------------------------------------------
(* The sequences that scripts are made of.                                 *)

\* c is a followed by b.
Joined(c, a, b) ==
    /\ c \in Seq(Command)
    /\ \A k \in DOMAIN a : k \in DOMAIN c /\ c[k] = a[k]
    /\ \A j \in DOMAIN b : \E k \in DOMAIN c : c[k] = b[j]
    /\ \A k \in DOMAIN c :
          \/ k \in DOMAIN a /\ c[k] = a[k]
          \/ \E j \in DOMAIN b : c[k] = b[j]

LEMMA Appended ==
    ASSUME NEW a \in Seq(Command), NEW b \in Seq(Command)
    PROVE  Joined(a \o b, a, b)
  <1>1. /\ a \o b \in Seq(Command)
        /\ Len(a \o b) = Len(a) + Len(b)
        /\ Len(a) \in Nat /\ Len(b) \in Nat
        /\ DOMAIN a = 1 .. Len(a) /\ DOMAIN b = 1 .. Len(b)
        /\ DOMAIN (a \o b) = 1 .. Len(a) + Len(b)
    OBVIOUS
  <1>2. \A k \in DOMAIN a : k \in DOMAIN (a \o b) /\ (a \o b)[k] = a[k]
    BY <1>1
  <1>3. ASSUME NEW j \in DOMAIN b
        PROVE  \E k \in DOMAIN (a \o b) : (a \o b)[k] = b[j]
    <2>1. Len(a) + j \in DOMAIN (a \o b) /\ (a \o b)[Len(a) + j] = b[j]
      BY <1>1
    <2>2. QED
      BY <2>1
  <1>4. ASSUME NEW k \in DOMAIN (a \o b), k \notin DOMAIN a
        PROVE  \E j \in DOMAIN b : (a \o b)[k] = b[j]
    <2>1. k - Len(a) \in DOMAIN b /\ (a \o b)[k] = b[k - Len(a)]
      BY <1>1, <1>4
    <2>2. QED
      BY <2>1
  <1>5. QED
    BY <1>1, <1>2, <1>3, <1>4 DEF Joined

(* Commands that are not checks, appended to a sound script.               *)
LEMMA AppendedToScript ==
    ASSUME script \in Seq(Command), ScriptSound, UNCHANGED package,
           NEW b \in Seq(Command), script' = script \o b,
           \A j \in DOMAIN b : Sound(b[j]) /\ b[j].op # "assert"
    PROVE  /\ script' \in Seq(Command) /\ ScriptSound'
           /\ \A op, x : Has(op, x) => Has(op, x)'
           /\ \A j \in DOMAIN b : Has(b[j].op, b[j].on)'
  <1>1. /\ script' \in Seq(Command)
        /\ \A k \in DOMAIN script : k \in DOMAIN script' /\ script'[k] = script[k]
        /\ \A j \in DOMAIN b : \E k \in DOMAIN script' : script'[k] = b[j]
        /\ \A k \in DOMAIN script' :
              \/ k \in DOMAIN script /\ script'[k] = script[k]
              \/ \E j \in DOMAIN b : script'[k] = b[j]
    <2>1. Joined(script', script, b)
      BY Appended
    <2>2. QED
      BY <2>1 DEF Joined
  <1>2. ASSUME NEW c PROVE Sound(c)' <=> Sound(c)
    BY DEF Sound, Differs
  <1>3. ScriptSound'
    BY <1>1, <1>2 DEF ScriptSound
  <1>4. QED
    BY <1>1, <1>3 DEF Has

(* The blocks of a set of partitions: one for each of them, in some order. *)
LEMMA BlocksShape ==
    ASSUME NEW parts \in SUBSET USERIMAGE_PARTITIONS,
           NEW t \in [USERIMAGE_PARTITIONS -> Content \cup {None}],
           NEW s \in [USERIMAGE_PARTITIONS -> Content \cup {None}],
           NEW b \in Blocks(parts, t, s)
    PROVE  /\ b \in Seq(Command)
           /\ \A j \in DOMAIN b : \E p \in parts : b[j] = Block(p, t[p], s[p])
           /\ \A p \in parts : \E j \in DOMAIN b : b[j] = Block(p, t[p], s[p])
  <1> DEFINE n == Cardinality(parts)
  <1>1. IsFiniteSet(parts)
    BY FS_Subset, ArchiveAssumption
  <1>2. n \in Nat
    BY <1>1, FS_CardinalityType
  <1>3. PICK order \in [1 .. n -> parts] :
          /\ \A i, j \in 1 .. n : i # j => order[i] # order[j]
          /\ b = [k \in DOMAIN order |-> Block(order[k], t[order[k]], s[order[k]])]
    BY Zenon DEF Blocks, SetToSeqs
  <1>4. DOMAIN b = 1 .. n
    BY <1>3
  <1>5. \A k \in 1 .. n : b[k] = Block(order[k], t[order[k]], s[order[k]])
    BY <1>3
  <1>6. \A p \in parts : Block(p, t[p], s[p]) \in Command
    BY DEF Block, Command, Argument
  <1>7. b \in [1 .. n -> Command]
    BY <1>3, <1>5, <1>6
  <1>8. \A p \in parts : \E j \in 1 .. n : order[j] = p
    <2>1. order \in Injection(1 .. n, parts)
      BY <1>3, Fun_IsInj
    <2>2. IsFiniteSet(1 .. n) /\ Cardinality(1 .. n) = n
      BY <1>2, FS_Interval
    <2>3. order \in Surjection(1 .. n, parts)
      BY <1>1, <2>1, <2>2, FS_Injection
    <2>4. QED
      BY <2>3 DEF Surjection
  <1>9. b \in Seq(Command)
    BY <1>2, <1>7
  <1>10. QED
    BY <1>3, <1>4, <1>5, <1>8, <1>9

\* w writes the images of S among those of images.
WritesOf(w, r, images, S) ==
    /\ w \in Seq(Command)
    /\ \A j \in DOMAIN w : \E i \in Raw \cap images : w[j] = WriteRawImage(i, image[r][i])
    /\ \A i \in S \cap Raw \cap images : \E j \in DOMAIN w : w[j] = WriteRawImage(i, image[r][i])

LEMMA WritesJoined ==
    ASSUME NEW r, NEW images, NEW a, NEW b, NEW S, NEW T,
           WritesOf(a, r, images, S), WritesOf(b, r, images, T)
    PROVE  WritesOf(a \o b, r, images, S \cup T)
  <1>1. Joined(a \o b, a, b)
    BY Appended DEF WritesOf
  <1>2. QED
    BY <1>1 DEF Joined, WritesOf

LEMMA WritesShape ==
    ASSUME NEW order \in [1 .. 8 -> Images], NEW r \in Release,
           NEW images \in SUBSET Images
    PROVE  WritesOf(Writes(order, r, images), r, images, {order[k] : k \in 1 .. 8})
  <1> DEFINE Install(k) == IF order[k] \in Raw \cap images
                           THEN <<WriteRawImage(order[k], image[r][order[k]])>> ELSE <<>>
  <1>1. ASSUME NEW k \in 1 .. 8 PROVE WritesOf(Install(k), r, images, {order[k]})
    <2>1. CASE order[k] \in Raw \cap images
      <3>1. WriteRawImage(order[k], image[r][order[k]]) \in Command
        BY <2>1, ArchiveAssumption DEF WriteRawImage, Command, Argument, Raw
      <3>2. QED
        BY <2>1, <3>1 DEF WritesOf
    <2>2. CASE order[k] \notin Raw \cap images
      BY <2>2 DEF WritesOf
    <2>3. QED
      BY <2>1, <2>2
  <1> HIDE DEF Install
  <1> DEFINE Upto(n) == {order[k] : k \in 1 .. n}
             W2 == Install(1) \o Install(2)
             W3 == W2 \o Install(3)
             W4 == W3 \o Install(4)
             W5 == W4 \o Install(5)
             W6 == W5 \o Install(6)
             W7 == W6 \o Install(7)
             W8 == W7 \o Install(8)
  <1>2. \A n \in 1 .. 7 : Upto(n + 1) = Upto(n) \cup {order[n + 1]}
    OBVIOUS
  <1>3. Upto(1) = {order[1]}
    OBVIOUS
  <1> HIDE DEF Upto
  <1>4. WritesOf(W2, r, images, Upto(1) \cup {order[2]})
    BY <1>1, <1>3, WritesJoined
  <1>5. WritesOf(W3, r, images, Upto(2) \cup {order[3]})
    <2>1. Upto(1) \cup {order[2]} = Upto(2)
      BY <1>2
    <2>2. WritesOf(W2, r, images, Upto(2))
      BY <1>4, <2>1
    <2>3. WritesOf(Install(3), r, images, {order[3]})
      BY <1>1
    <2>4. QED
      BY <2>2, <2>3, WritesJoined
  <1>6. WritesOf(W4, r, images, Upto(3) \cup {order[4]})
    <2>1. Upto(2) \cup {order[3]} = Upto(3)
      BY <1>2
    <2>2. WritesOf(W3, r, images, Upto(3))
      BY <1>5, <2>1
    <2>3. WritesOf(Install(4), r, images, {order[4]})
      BY <1>1
    <2>4. QED
      BY <2>2, <2>3, WritesJoined
  <1>7. WritesOf(W5, r, images, Upto(4) \cup {order[5]})
    <2>1. Upto(3) \cup {order[4]} = Upto(4)
      BY <1>2
    <2>2. WritesOf(W4, r, images, Upto(4))
      BY <1>6, <2>1
    <2>3. WritesOf(Install(5), r, images, {order[5]})
      BY <1>1
    <2>4. QED
      BY <2>2, <2>3, WritesJoined
  <1>8. WritesOf(W6, r, images, Upto(5) \cup {order[6]})
    <2>1. Upto(4) \cup {order[5]} = Upto(5)
      BY <1>2
    <2>2. WritesOf(W5, r, images, Upto(5))
      BY <1>7, <2>1
    <2>3. WritesOf(Install(6), r, images, {order[6]})
      BY <1>1
    <2>4. QED
      BY <2>2, <2>3, WritesJoined
  <1>9. WritesOf(W7, r, images, Upto(6) \cup {order[7]})
    <2>1. Upto(5) \cup {order[6]} = Upto(6)
      BY <1>2
    <2>2. WritesOf(W6, r, images, Upto(6))
      BY <1>8, <2>1
    <2>3. WritesOf(Install(7), r, images, {order[7]})
      BY <1>1
    <2>4. QED
      BY <2>2, <2>3, WritesJoined
  <1>10. WritesOf(W8, r, images, Upto(7) \cup {order[8]})
    <2>1. Upto(6) \cup {order[7]} = Upto(7)
      BY <1>2
    <2>2. WritesOf(W7, r, images, Upto(7))
      BY <1>9, <2>1
    <2>3. WritesOf(Install(8), r, images, {order[8]})
      BY <1>1
    <2>4. QED
      BY <2>2, <2>3, WritesJoined
  <1>11. W8 = Writes(order, r, images)
    BY DEF Writes, Install
  <1>12. Upto(7) \cup {order[8]} = {order[k] : k \in 1 .. 8}
    BY DEF Upto
  <1>13. QED
    BY <1>10, <1>11, <1>12

-----------------------------------------------------------------------------
(* The package is made.                                                    *)

LEMMA InitIInv == Init => IInv
  <1> SUFFICES ASSUME Init PROVE IInv
    OBVIOUS
  <1> USE DEF Init
  <1>1. OtaTypeOK
    <2>1. \A i \in Raw : image[Factory][i] \in Content \cup {None}
      BY ArchiveAssumption DEF Raw
    <2>2. flash \in [Raw -> Content \cup {None, Torn}]
      BY <2>1
    <2>3. dynamic \in [USERIMAGE_PARTITIONS -> Content \cup {None}]
      BY ArchiveAssumption
    <2>4. package \in [kind : {"none", "full", "incremental"},
                      source : Release, target : Release]
      BY ArchiveAssumption DEF NoPackage
    <2>5. script \in Seq(Command) /\ pc \in Nat
      OBVIOUS
    <2>6. release \in Release /\ begun \in BOOLEAN /\ refused \in BOOLEAN
      BY ArchiveAssumption, Zenon
    <2>7. QED
      BY <2>2, <2>3, <2>4, <2>5, <2>6, Zenon DEF OtaTypeOK
  <1>2. Settled /\ Stages /\ ScriptSound /\ ScriptWhole
    BY DEF Settled, Stages, ScriptSound, ScriptWhole
  <1>3. QED
    BY <1>1, <1>2 DEF IInv

(* While the package is made the device is at rest.                        *)
LEMMA AtRest ==
    ASSUME IInv, stage # "made", UNCHANGED <<flash, dynamic, release, pc, begun>>,
           refused' = refused \/ refused' = FALSE
    PROVE  /\ flash' \in [Raw -> Content \cup {None, Torn}]
           /\ dynamic' \in [USERIMAGE_PARTITIONS -> Content \cup {None}]
           /\ release' \in Release /\ pc' = 0
           /\ begun' \in BOOLEAN /\ refused' \in BOOLEAN
           /\ Settled' /\ (refused' => ~begun')
  <1>1. /\ flash' \in [Raw -> Content \cup {None, Torn}]
        /\ dynamic' \in [USERIMAGE_PARTITIONS -> Content \cup {None}]
        /\ release' \in Release /\ pc' = 0
    BY DEF IInv, OtaTypeOK, Stages
  <1>2. begun' \in BOOLEAN /\ refused' \in BOOLEAN /\ (refused' => ~begun')
    <2>1. begun' = begun
      OBVIOUS
    <2>2. begun \in BOOLEAN /\ refused \in BOOLEAN /\ (refused => ~begun)
      BY Zenon DEF IInv, OtaTypeOK
    <2>3. CASE refused' = refused
      BY <2>1, <2>2, <2>3, SMT
    <2>4. CASE refused' = FALSE
      BY <2>1, <2>2, <2>4, Zenon
    <2>5. QED
      BY <2>3, <2>4, Zenon
  <1>3. Settled'
    BY DEF IInv, Stages, Settled
  <1>4. QED
    BY <1>1, <1>2, <1>3

LEMMA BeginIInv ==
    ASSUME IInv, NEW kind \in {"full", "incremental"}, NEW r \in Release, Begin(kind, r)
    PROVE  IInv'
  <1>1. /\ stage = "idle" /\ stage' = "assertions" /\ script' = <<>>
        /\ package' = [kind |-> kind, source |-> release, target |-> r]
        /\ refused' = FALSE
        /\ UNCHANGED <<flash, dynamic, release, pc, begun>>
    BY DEF Begin
  <1>2. OtaTypeOK'
    <2>1. /\ package' \in [kind : {"none", "full", "incremental"},
                           source : Release, target : Release]
          /\ stage' \in {"idle", "assertions", "blocks", "end", "made"}
          /\ script' \in Seq(Command)
      BY <1>1 DEF IInv, OtaTypeOK
    <2>2. /\ flash' \in [Raw -> Content \cup {None, Torn}]
          /\ dynamic' \in [USERIMAGE_PARTITIONS -> Content \cup {None}]
          /\ release' \in Release /\ pc' = 0
          /\ begun' \in BOOLEAN /\ refused' \in BOOLEAN
      BY <1>1, AtRest
    <2>3. pc' \in Nat
      BY <2>2
    <2>4. QED
      BY <2>1, <2>2, <2>3, Zenon DEF OtaTypeOK
  <1>3. Settled' /\ pc' = 0 /\ ~refused'
    BY <1>1, AtRest
  <1>4. Stages' /\ ScriptSound' /\ ScriptWhole'
    BY <1>1, <1>3 DEF Stages, ScriptSound, ScriptWhole
  <1>5. QED
    BY <1>2, <1>3, <1>4 DEF IInv

LEMMA AddBootloaderAssertionIInv ==
    ASSUME IInv, AddBootloaderAssertion
    PROVE  IInv'
  <1> DEFINE t == package.target
  <1>1. /\ stage = "assertions" /\ script = <<>>
        /\ UNCHANGED <<flash, dynamic, release, pc, begun, refused>>
    BY DEF AddBootloaderAssertion, device, IInv, Stages
  <1>2. /\ Settled' /\ pc' = 0 /\ (refused' => ~begun')
    BY <1>1, AtRest
  <1>3. CASE android_info[t] = "missing"
    <2>1. package' = NoPackage /\ stage' = "idle" /\ script' = <<>>
      BY <1>1, <1>3 DEF AddBootloaderAssertion
    <2>2. OtaTypeOK'
      BY <1>1, <2>1, AtRest, ArchiveAssumption DEF IInv, OtaTypeOK, NoPackage
    <2>3. Stages' /\ ScriptSound' /\ ScriptWhole'
      BY <1>2, <2>1 DEF Stages, ScriptSound, ScriptWhole
    <2>4. QED
      BY <1>2, <2>2, <2>3 DEF IInv
  <1>4. CASE android_info[t] # "missing"
    <2>1. /\ package' = package /\ stage' = "blocks"
          /\ script' = IF android_info[t] = "required"
                       THEN <<AssertSomeBootloader(bootloaders[t])>> ELSE <<>>
      BY <1>1, <1>4 DEF AddBootloaderAssertion
    <2>2. t \in Release
      BY DEF IInv, OtaTypeOK
    <2>3. AssertSomeBootloader(bootloaders[t]) \in Command
      BY <2>2, ArchiveAssumption DEF AssertSomeBootloader, Command, Argument, Raw, Images
    <2>4. script' \in Seq(Command)
      BY <2>1, <2>3
    <2>5. OtaTypeOK'
      BY <1>1, <2>1, <2>4, AtRest DEF IInv, OtaTypeOK
    <2>6. ScriptSound'
      BY <2>1 DEF ScriptSound, Sound, AssertSomeBootloader
    <2>7. Stages' /\ ScriptWhole'
      BY <1>1, <1>2, <2>1 DEF IInv, Stages, ScriptWhole
    <2>8. QED
      BY <1>2, <2>5, <2>6, <2>7 DEF IInv
  <1>5. QED
    BY <1>3, <1>4

(* A part of the package is appended to the script.                        *)
LEMMA PartAppended ==
    ASSUME IInv, stage \in {"blocks", "end"}, stage' \in {"end", "made"},
           UNCHANGED <<package, device>>,
           NEW b \in Seq(Command), script' = script \o b,
           \A j \in DOMAIN b : Sound(b[j]) /\ b[j].op # "assert",
           ScriptWhole'
    PROVE  IInv'
  <1>1. script' \in Seq(Command) /\ ScriptSound'
    BY AppendedToScript DEF IInv, OtaTypeOK
  <1>2. UNCHANGED <<package, flash, dynamic, release, pc, begun, refused>>
    BY DEF device
  <1>3. Settled' /\ pc' = 0 /\ (refused' => ~begun')
    BY <1>2, AtRest
  <1>4. OtaTypeOK'
    BY <1>1, <1>2 DEF IInv, OtaTypeOK
  <1>5. Stages'
    BY <1>2, <1>3 DEF IInv, Stages
  <1>6. QED
    BY <1>1, <1>3, <1>4, <1>5 DEF IInv

LEMMA FullBlocksIInv ==
    ASSUME IInv, FullOTA_GetBlockDifferences
    PROVE  IInv'
  <1> DEFINE t == package.target
             R == Regroup(GetUserImages(t))
  <1>1. PICK blocks \in Blocks(GetUserImages(t), user[t], NoSource) :
            script' = script \o (<<R>> \o blocks)
    BY DEF FullOTA_GetBlockDifferences
  <1>2. /\ stage = "blocks" /\ stage' = "end" /\ package.kind = "full"
        /\ UNCHANGED <<package, device>>
    BY DEF FullOTA_GetBlockDifferences
  <1>3. t \in Release /\ user[t] \in [USERIMAGE_PARTITIONS -> Content \cup {None}]
    BY ArchiveAssumption DEF IInv, OtaTypeOK
  <1>4. /\ blocks \in Seq(Command)
        /\ \A j \in DOMAIN blocks : \E p \in GetUserImages(t) :
              blocks[j] = Block(p, user[t][p], None)
        /\ \A p \in GetUserImages(t) : \E j \in DOMAIN blocks :
              blocks[j] = Block(p, user[t][p], None)
    <2>1. NoSource \in [USERIMAGE_PARTITIONS -> Content \cup {None}]
      BY DEF NoSource
    <2>2. GetUserImages(t) \in SUBSET USERIMAGE_PARTITIONS
      BY DEF GetUserImages
    <2>3. \A p \in GetUserImages(t) : NoSource[p] = None
      BY <2>2 DEF NoSource
    <2>4. QED
      BY <1>3, <2>1, <2>2, <2>3, BlocksShape
  <1>5. <<R>> \in Seq(Command)
    <2>1. GetUserImages(t) \in SUBSET USERIMAGE_PARTITIONS
      BY DEF GetUserImages
    <2>2. R \in Command
      BY <2>1 DEF Regroup, Command, Argument
    <2>3. QED
      BY <2>2
  <1>6. PICK b : b = <<R>> \o blocks
    OBVIOUS
  <1>7. Sound(R) /\ R.op # "assert"
    BY <1>2 DEF Sound, Regroup
  <1>8. \A p \in GetUserImages(t) :
            Sound(Block(p, user[t][p], None)) /\ Block(p, user[t][p], None).op # "assert"
    BY <1>2 DEF Sound, Block, GetUserImages
  <1>9. /\ b \in Seq(Command)
        /\ \A j \in DOMAIN b : Sound(b[j]) /\ b[j].op # "assert"
        /\ \E j \in DOMAIN b : b[j] = R
        /\ \A p \in GetUserImages(t) : \E j \in DOMAIN b : b[j] = Block(p, user[t][p], None)
    <2>1. Joined(b, <<R>>, blocks)
      BY <1>4, <1>5, <1>6, Appended
    <2>2. DOMAIN <<R>> = {1} /\ <<R>>[1] = R
      OBVIOUS
    <2>3. \E j \in DOMAIN b : b[j] = R
      BY <2>1, <2>2 DEF Joined
    <2>4. \A p \in GetUserImages(t) : \E j \in DOMAIN b : b[j] = Block(p, user[t][p], None)
      BY <1>4, <2>1 DEF Joined
    <2>5. ASSUME NEW j \in DOMAIN b
          PROVE  Sound(b[j]) /\ b[j].op # "assert"
      <3>1. b[j] = R \/ \E i \in DOMAIN blocks : b[j] = blocks[i]
        <4> HIDE DEF R
        <4>1. QED
          BY <2>1, <2>2 DEF Joined
      <3>2. b[j] = R \/ \E p \in GetUserImages(t) : b[j] = Block(p, user[t][p], None)
        BY <1>4, <3>1
      <3>3. QED
        BY <1>7, <1>8, <3>2
    <2>6. b \in Seq(Command)
      BY <2>1 DEF Joined
    <2>7. QED
      BY <2>3, <2>4, <2>5, <2>6
  <1>10. script' = script \o b
    BY <1>1, <1>6
  <1>11. \A j \in DOMAIN b : Has(b[j].op, b[j].on)'
    BY <1>2, <1>9, <1>10, AppendedToScript DEF IInv, OtaTypeOK
  <1>12. Has("regroup", None)' /\ \A p \in GetUserImages(t) : Has("block", p)'
    BY <1>9, <1>11 DEF Regroup, Block
  <1>13. ScriptWhole'
    BY <1>2, <1>12 DEF ScriptWhole, GetUserImages
  <1>14. QED
    BY <1>2, <1>9, <1>10, <1>13, PartAppended

LEMMA IncrementalBlocksIInv ==
    ASSUME IInv, IncrementalOTA_GetBlockDifferences
    PROVE  IInv'
  <1> DEFINE t == package.target
             s == package.source
             P == GetUserImages(s) \cup GetUserImages(t)
  <1>1. PICK b \in Blocks(P, user[t], user[s]) : script' = script \o b
    BY DEF IncrementalOTA_GetBlockDifferences
  <1>2. /\ stage = "blocks" /\ stage' = "end" /\ package.kind = "incremental"
        /\ UNCHANGED <<package, device>>
    BY DEF IncrementalOTA_GetBlockDifferences
  <1>3. /\ user[t] \in [USERIMAGE_PARTITIONS -> Content \cup {None}]
        /\ user[s] \in [USERIMAGE_PARTITIONS -> Content \cup {None}]
    BY ArchiveAssumption DEF IInv, OtaTypeOK
  <1>4. P \in SUBSET USERIMAGE_PARTITIONS
    BY DEF GetUserImages
  <1>5. /\ b \in Seq(Command)
        /\ \A j \in DOMAIN b : \E p \in P : b[j] = Block(p, user[t][p], user[s][p])
        /\ \A p \in P : \E j \in DOMAIN b : b[j] = Block(p, user[t][p], user[s][p])
    <2> HIDE DEF P
    <2>1. QED
      BY <1>3, <1>4, BlocksShape
  <1>6. \A p \in P : /\ Sound(Block(p, user[t][p], user[s][p]))
                     /\ Block(p, user[t][p], user[s][p]).op # "assert"
    BY <1>2, <1>4 DEF Sound, Block
  <1>7. \A j \in DOMAIN b : Sound(b[j]) /\ b[j].op # "assert"
    BY <1>5, <1>6
  <1>8. \A j \in DOMAIN b : Has(b[j].op, b[j].on)'
    BY <1>1, <1>2, <1>5, <1>7, AppendedToScript DEF IInv, OtaTypeOK
  <1>9. \A p \in P : Has("block", p)'
    BY <1>5, <1>8 DEF Block
  <1>10. ScriptWhole'
    BY <1>2, <1>9 DEF ScriptWhole, GetUserImages
  <1>11. QED
    BY <1>1, <1>2, <1>5, <1>7, <1>10, PartAppended

(* Both orders name every image.                                           *)
LEMMA OrdersWhole ==
    ASSUME NEW order \in {FullOrder, IncrementalOrder}
    PROVE  order \in [1 .. 8 -> Images] /\ {order[k] : k \in 1 .. 8} = Images
  <1>1. order \in [1 .. 8 -> Images]
    BY DEF FullOrder, IncrementalOrder, Images
  <1>2. ASSUME NEW i \in Images PROVE \E k \in 1 .. 8 : order[k] = i
    <2>1. CASE order = FullOrder
      <3>1. /\ order[1] = "trust" /\ order[2] = "uboot" /\ order[3] = "vbmeta"
            /\ order[4] = "dtbo" /\ order[5] = "charge" /\ order[6] = "resource"
            /\ order[7] = "RKLoader" /\ order[8] = "vendor_boot"
        BY <2>1 DEF FullOrder
      <3>2. QED
        BY <3>1 DEF Images
    <2>2. CASE order = IncrementalOrder
      <3>1. /\ order[1] = "trust" /\ order[2] = "vbmeta" /\ order[3] = "dtbo"
            /\ order[4] = "uboot" /\ order[5] = "charge" /\ order[6] = "resource"
            /\ order[7] = "RKLoader" /\ order[8] = "vendor_boot"
        BY <2>2 DEF IncrementalOrder
      <3>2. QED
        BY <3>1 DEF Images
    <2>3. QED
      BY <2>1, <2>2
  <1>3. QED
    BY <1>1, <1>2

(* The end of either package writes the images it has chosen.              *)
LEMMA InstallEndIInv ==
    ASSUME IInv, stage = "end", stage' = "made", UNCHANGED <<package, device>>,
           package.kind \in {"full", "incremental"},
           NEW order \in {FullOrder, IncrementalOrder}, NEW images \in SUBSET Images,
           images = {i \in Images : /\ image[package.target][i] # None
                                    /\ package.kind = "full" \/ Differs(i)},
           script' = script \o Writes(order, package.target, images)
    PROVE  IInv'
  <1> DEFINE t == package.target
  <1>1. PICK w : w = Writes(order, t, images)
    OBVIOUS
  <1>2. t \in Release
    BY DEF IInv, OtaTypeOK
  <1>3. WritesOf(w, t, images, Images)
    <2>1. WritesOf(w, t, images, {order[k] : k \in 1 .. 8})
      BY <1>1, <1>2, OrdersWhole, WritesShape
    <2>2. QED
      BY <2>1, OrdersWhole
  <1>4. \A i \in Raw \cap images : /\ Sound(WriteRawImage(i, image[t][i]))
                                   /\ WriteRawImage(i, image[t][i]).op # "assert"
    BY DEF Sound, WriteRawImage
  <1>5. w \in Seq(Command) /\ \A j \in DOMAIN w : Sound(w[j]) /\ w[j].op # "assert"
    BY <1>3, <1>4 DEF WritesOf
  <1>6. script' = script \o w
    BY <1>1
  <1>7. /\ \A op, x : Has(op, x) => Has(op, x)'
        /\ \A j \in DOMAIN w : Has(w[j].op, w[j].on)'
    BY <1>5, <1>6, AppendedToScript DEF IInv, OtaTypeOK
  <1>8. \A i \in Raw \cap images : Has("write", i)'
    BY <1>3, <1>7 DEF WritesOf, WriteRawImage, Raw
  <1>9. Raw \subseteq Images
    BY DEF Raw
  <1>10. ScriptWhole'
    BY <1>7, <1>8, <1>9 DEF IInv, ScriptWhole, Differs, GetUserImages
  <1>11. QED
    BY <1>5, <1>6, <1>10, PartAppended

LEMMA FullEndIInv == ASSUME IInv, FullOTA_InstallEnd PROVE IInv'
  <1> DEFINE images == {i \in Images : image[package.target][i] # None}
  <1>1. images = {i \in Images : /\ image[package.target][i] # None
                                 /\ package.kind = "full" \/ Differs(i)}
    BY DEF FullOTA_InstallEnd
  <1>2. QED
    BY <1>1, InstallEndIInv DEF FullOTA_InstallEnd

LEMMA IncrementalEndIInv == ASSUME IInv, IncrementalOTA_InstallEnd PROVE IInv'
  <1> DEFINE images == {i \in Images : Differs(i)}
  <1>1. images = {i \in Images : /\ image[package.target][i] # None
                                 /\ package.kind = "full" \/ Differs(i)}
    BY DEF IncrementalOTA_InstallEnd, Differs
  <1>2. QED
    BY <1>1, InstallEndIInv DEF IncrementalOTA_InstallEnd

-----------------------------------------------------------------------------
(* The device runs the script.                                             *)

LEMMA StartInstallIInv == ASSUME IInv, StartInstall PROVE IInv'
  <1>1. /\ stage = "made" /\ pc = 0 /\ pc' = 1 /\ begun' = FALSE
        /\ UNCHANGED <<package, stage, script, flash, dynamic, release, refused>>
    BY DEF StartInstall, making
  <1>2. ASSUME NEW c PROVE Sound(c)' <=> Sound(c)
    BY <1>1 DEF Sound, Differs, GetUserImages
  <1>3. OtaTypeOK' /\ Stages'
    BY <1>1 DEF IInv, OtaTypeOK, Stages
  <1>4. ScriptSound' /\ ScriptWhole'
    BY <1>1, <1>2 DEF IInv, ScriptSound, ScriptWhole, Has, Differs, GetUserImages
  <1>5. Settled' /\ Settled
    BY <1>1 DEF IInv, Settled
  <1>6. UnderWay'
    <2>1. package.source = release
      BY <1>1 DEF IInv, Stages
    <2>2. script \in Seq(Command)
      BY DEF IInv, OtaTypeOK
    <2>3. \A k \in DOMAIN script : ~(k < 1)
      BY <2>2
    <2>4. QED
      BY <1>1, <1>5, <2>1, <2>3 DEF UnderWay, Settled, Differs
  <1>7. QED
    BY <1>1, <1>3, <1>4, <1>5, <1>6, Zenon DEF IInv

(* A sound command undoes nothing that another one is there to achieve.    *)
LEMMA DoneStays ==
    ASSUME OtaTypeOK, NEW c, NEW d, Sound(c), Sound(d), Done(d), Effect(c),
           package.kind \in {"full", "incremental"}
    PROVE  Done(d)'
  <1> DEFINE t == package.target
  <1>1. t \in Release /\ user[t] \in [USERIMAGE_PARTITIONS -> Content \cup {None}]
        /\ image[t] \in [Images -> Content \cup {None}]
    BY ArchiveAssumption DEF OtaTypeOK
  <1>2. CASE c.op = "write"
    <2>1. dynamic' = dynamic /\ flash' = [flash EXCEPT ![c.on] = c.to]
      BY <1>2 DEF Effect
    <2>2. c.on \in Raw /\ c.to = image[t][c.on] /\ c.to # None
      BY <1>2 DEF Sound
    <2>3. d.op = "write" => flash'[d.on] = d.to
      BY <2>1, <2>2 DEF Done, Sound, OtaTypeOK
    <2>4. d.op = "assert" => flash'["uboot"] \in d.to
      BY <2>1, <2>2, BootloaderAssumption, <1>1 DEF Done, Sound, OtaTypeOK
    <2>5. QED
      BY <2>1, <2>3, <2>4 DEF Done
  <1>3. CASE c.op = "block"
    <2>1. flash' = flash /\ dynamic' = [dynamic EXCEPT ![c.on] = c.to]
      BY <1>3 DEF Effect
    <2>2. QED
      BY <1>3, <2>1 DEF Done, Sound, OtaTypeOK, GetUserImages
  <1>4. CASE c.op = "regroup"
    <2>1. /\ flash' = flash
          /\ dynamic' = [p \in USERIMAGE_PARTITIONS |-> IF p \in c.to THEN dynamic[p] ELSE None]
      BY <1>4 DEF Effect
    <2>2. package.kind = "full" /\ c.to = GetUserImages(t)
      BY <1>4 DEF Sound
    <2>3. QED
      BY <2>1, <2>2 DEF Done, Sound, GetUserImages
  <1>5. CASE c.op \notin {"write", "block", "regroup"}
    BY <1>5 DEF Effect, Done
  <1>6. QED
    BY <1>2, <1>3, <1>4, <1>5

(* A sound command leaves the device as UnderWay has it, and achieves what *)
(* it is there for.                                                        *)
LEMMA EffectSound ==
    ASSUME OtaTypeOK, NEW c, Sound(c), Effect(c),
           package.kind \in {"full", "incremental"}, UNCHANGED package
    PROVE  /\ flash' \in [Raw -> Content \cup {None, Torn}]
           /\ dynamic' \in [USERIMAGE_PARTITIONS -> Content \cup {None}]
           /\ c.op \in {"block", "regroup", "write"} => Done(c)'
           /\ LET s == package.source
                  t == package.target
              IN  /\ \A p \in USERIMAGE_PARTITIONS :
                        package.kind = "incremental" =>
                            dynamic'[p] \in {dynamic[p], user[t][p]}
                  /\ \A i \in Raw :
                        (package.kind = "incremental" /\ ~(image[t][i] # None /\ Differs(i)))
                            => flash'[i] = flash[i]
                  /\ c.op \notin {"block", "regroup", "write"} =>
                        UNCHANGED <<flash, dynamic>>
  <1> DEFINE t == package.target
  <1>1. t \in Release /\ user[t] \in [USERIMAGE_PARTITIONS -> Content \cup {None}]
        /\ \A i \in Raw : image[t][i] \in Content \cup {None}
    BY ArchiveAssumption DEF OtaTypeOK, Raw
  <1>2. CASE c.op = "write"
    BY <1>1, <1>2 DEF Effect, Sound, Done, OtaTypeOK
  <1>3. CASE c.op = "block"
    BY <1>1, <1>3 DEF Effect, Sound, Done, OtaTypeOK
  <1>4. CASE c.op = "regroup"
    BY <1>1, <1>4 DEF Effect, Sound, Done, OtaTypeOK
  <1>5. CASE c.op \notin {"write", "block", "regroup"}
    BY <1>5 DEF Effect, OtaTypeOK
  <1>6. QED
    BY <1>2, <1>3, <1>4, <1>5

\* What Execute and PowerLoss leave alone keeps the package as it is.
LEMMA PackageKept ==
    ASSUME IInv, Running, UNCHANGED <<making, release, refused>>, pc' \in Nat \ {0},
           flash' \in [Raw -> Content \cup {None, Torn}],
           dynamic' \in [USERIMAGE_PARTITIONS -> Content \cup {None}],
           begun' \in BOOLEAN, ~begun' => UNCHANGED <<flash, dynamic>> /\ ~begun,
           UnderWay'
    PROVE  IInv'
  <1>1. UNCHANGED <<package, stage, script, release, refused>> /\ stage = "made"
    BY DEF making, Running
  <1>2. ASSUME NEW c PROVE Sound(c)' <=> Sound(c)
    BY <1>1 DEF Sound, Differs, GetUserImages
  <1>3. OtaTypeOK'
    BY <1>1 DEF IInv, OtaTypeOK
  <1>4. Stages' /\ ~refused'
    BY <1>1 DEF IInv, Stages
  <1>5. ScriptSound' /\ ScriptWhole'
    BY <1>1, <1>2 DEF IInv, ScriptSound, ScriptWhole, Has, Differs, GetUserImages
  <1>6. ~begun' => Settled'
    BY <1>1 DEF IInv, Settled
  <1>7. QED
    BY <1>3, <1>4, <1>5, <1>6, Zenon DEF IInv

(* The bootloader check is the first command: once another one is under    *)
(* way, it has been passed, and it would be passed again.                  *)
LEMMA CheckPassed ==
    ASSUME IInv, Running, script[pc].op # "assert"
    PROVE  \A k \in DOMAIN script :
               script[k].op = "assert" => flash["uboot"] \in script[k].to
  <1>1. pc > 0 /\ pc \in Nat
    BY DEF Running, IInv, OtaTypeOK
  <1>2. SUFFICES ASSUME NEW k \in DOMAIN script, script[k].op = "assert"
                 PROVE  flash["uboot"] \in script[k].to
    OBVIOUS
  <1>3. k = 1
    BY <1>2 DEF IInv, ScriptSound
  <1>4. k < pc
    BY <1>1, <1>2, <1>3
  <1>5. QED
    BY <1>1, <1>2, <1>4 DEF IInv, UnderWay, Done

(* The command under way is carried out, and it is the one after it that   *)
(* comes next, or the first one again.                                     *)
LEMMA EffectIInv ==
    ASSUME IInv, Running, ~Fails(script[pc]), Effect(script[pc]),
           begun' = (begun \/ script[pc].op # "assert"),
           pc' \in {1, pc + 1}, UNCHANGED <<making, release, refused>>
    PROVE  IInv'
  <1> DEFINE s == package.source
             t == package.target
  <1>1. /\ UNCHANGED <<package, stage, script>> /\ stage = "made"
        /\ pc \in DOMAIN script /\ pc \in Nat /\ pc > 0
        /\ script \in Seq(Command)
    BY DEF making, Running, IInv, OtaTypeOK
  <1>2. /\ OtaTypeOK /\ UnderWay
        /\ package.kind \in {"full", "incremental"}
        /\ \A k \in DOMAIN script : Sound(script[k])
    <2>1. OtaTypeOK /\ UnderWay /\ package.kind # "none" /\ ScriptSound
      BY <1>1 DEF IInv, Stages
    <2>2. QED
      BY <2>1 DEF OtaTypeOK, ScriptSound
  <1>3. PICK c \in Command : c = script[pc]
    BY <1>1
  <1>4. /\ flash' \in [Raw -> Content \cup {None, Torn}]
        /\ dynamic' \in [USERIMAGE_PARTITIONS -> Content \cup {None}]
        /\ c.op # "assert" => Done(c)'
        /\ \A p \in USERIMAGE_PARTITIONS :
              package.kind = "incremental" => dynamic'[p] \in {dynamic[p], user[t][p]}
        /\ \A i \in Raw :
              (package.kind = "incremental" /\ ~(image[t][i] # None /\ Differs(i)))
                  => flash'[i] = flash[i]
        /\ c.op = "assert" => UNCHANGED <<flash, dynamic>>
    <2>1. c.op \in {"assert", "block", "regroup", "write"}
      BY <1>3 DEF Command
    <2>2. Sound(c) /\ Effect(c)
      BY <1>1, <1>2, <1>3
    <2>3. QED
      BY <1>1, <1>2, <2>1, <2>2, EffectSound
  <1>5. \A k \in DOMAIN script : Done(script[k]) => Done(script[k])'
    <2>1. ASSUME NEW d, Sound(d), Done(d) PROVE Done(d)'
      BY <1>1, <1>2, <2>1, DoneStays
    <2>2. ASSUME NEW k \in DOMAIN script, Done(script[k]) PROVE Done(script[k])'
      <3>1. PICK d : d = script[k]
        OBVIOUS
      <3>2. Done(d)'
        BY <1>2, <2>1, <2>2, <3>1
      <3>3. QED
        BY <1>1, <3>1, <3>2 DEF Done
    <2>3. QED
      BY <2>2
  <1>6. Done(c)'
    <2>1. CASE c.op = "assert"
      BY <1>1, <1>3, <1>4, <2>1 DEF Fails, Done
    <2>2. QED
      BY <1>4, <2>1
  <1>7. ASSUME NEW k \in DOMAIN script, k < pc'
        PROVE  Done(script[k])'
    <2>1. k \in Nat /\ (k < pc \/ k = pc)
      BY <1>1, <1>7
    <2>2. CASE k < pc
      BY <1>2, <1>5, <2>2 DEF UnderWay
    <2>3. CASE k = pc
      BY <1>1, <1>3, <1>6, <2>3 DEF Done
    <2>4. QED
      BY <2>1, <2>2, <2>3
  <1>8. begun' => \A k \in DOMAIN script' :
            script'[k].op = "assert" => flash'["uboot"] \in script'[k].to
    <2>1. \A k \in DOMAIN script :
              script[k].op = "assert" => (flash["uboot"] \in script[k].to <=> Done(script[k]))
      BY DEF Done
    <2>2. ASSUME begun' PROVE \A k \in DOMAIN script :
              script[k].op = "assert" => flash["uboot"] \in script[k].to
      BY <1>2, <2>2, CheckPassed DEF UnderWay
    <2>3. QED
      BY <1>1, <1>5, <2>1, <2>2 DEF Done
  <1>9. package.kind = "incremental" =>
            /\ \A p \in USERIMAGE_PARTITIONS : dynamic'[p] \in {user[s][p], user[t][p]}
            /\ \A i \in Raw : image[s][i] # None /\ ~(image[t][i] # None /\ Differs(i))
                                  => flash'[i] = image[s][i]
    BY <1>2, <1>4 DEF UnderWay
  <1>10. UnderWay'
    BY <1>1, <1>7, <1>8, <1>9 DEF UnderWay, Differs
  <1>11. begun' \in BOOLEAN /\ (~begun' => UNCHANGED <<flash, dynamic>> /\ ~begun)
    BY <1>3, <1>4
  <1>12. pc' \in Nat \ {0}
    BY <1>1
  <1>13. QED
    BY <1>4, <1>10, <1>11, <1>12, PackageKept

LEMMA ExecuteIInv == ASSUME IInv, Execute PROVE IInv'
  BY EffectIInv DEF Execute, IInv, OtaTypeOK

LEMMA PowerLossIInv == ASSUME IInv, PowerLoss PROVE IInv'
  <1>1. /\ Running /\ ~Fails(script[pc]) /\ pc' = 1
        /\ UNCHANGED <<making, release, refused>>
    BY DEF PowerLoss
  <1>2. /\ UNCHANGED <<package, stage, script>> /\ stage = "made"
        /\ pc \in DOMAIN script /\ pc \in Nat /\ pc > 0
        /\ script \in Seq(Command)
    BY <1>1 DEF making, Running, IInv, OtaTypeOK
  <1>3. OtaTypeOK /\ UnderWay /\ ScriptSound
    BY <1>2 DEF IInv
  <1>4. \A k \in DOMAIN script : ~(k < 1)
    BY <1>2
  <1>5. CASE UNCHANGED <<flash, dynamic, begun>>
    <2>1. UnderWay'
      BY <1>1, <1>2, <1>3, <1>4, <1>5 DEF UnderWay, Differs
    <2>2. begun' \in BOOLEAN
      BY <1>3, <1>5 DEF OtaTypeOK
    <2>3. /\ flash' \in [Raw -> Content \cup {None, Torn}]
          /\ dynamic' \in [USERIMAGE_PARTITIONS -> Content \cup {None}]
      BY <1>3, <1>5 DEF OtaTypeOK
    <2>4. QED
      BY <1>1, <1>5, <2>1, <2>2, <2>3, PackageKept
  <1>6. CASE Effect(script[pc]) /\ begun' = (begun \/ script[pc].op # "assert")
    BY <1>1, <1>6, EffectIInv
  <1>7. CASE /\ script[pc].op = "write" /\ script[pc].on # "uboot"
             /\ flash' = [flash EXCEPT ![script[pc].on] = Torn]
             /\ begun' = TRUE
             /\ UNCHANGED dynamic
    <2> DEFINE i == script[pc].on
    <2>1. /\ i \in Raw
          /\ package.kind = "incremental" => image[package.target][i] # None /\ Differs(i)
      BY <1>2, <1>3, <1>7 DEF ScriptSound, Sound
    <2>2. /\ flash' \in [Raw -> Content \cup {None, Torn}]
          /\ flash'["uboot"] = flash["uboot"]
          /\ \A j \in Raw : j # i => flash'[j] = flash[j]
      BY <1>3, <1>7, <2>1 DEF OtaTypeOK, Raw, Images
    <2>3. \A k \in DOMAIN script :
              script[k].op = "assert" => flash["uboot"] \in script[k].to
      BY <1>1, <1>7, CheckPassed
    <2>4. UnderWay'
      BY <1>1, <1>2, <1>3, <1>4, <1>7, <2>1, <2>2, <2>3 DEF UnderWay, Differs
    <2>5. QED
      BY <1>1, <1>3, <1>7, <2>2, <2>4, PackageKept DEF OtaTypeOK
  <1>8. QED
    BY <1>5, <1>6, <1>7 DEF PowerLoss

(* A package that has begun is not refused.                                *)
LEMMA RefuseIInv == ASSUME IInv, Refuse PROVE IInv'
  <1>1. /\ Running /\ Fails(script[pc]) /\ refused' = TRUE /\ pc' = 0
        /\ package' = NoPackage /\ stage' = "idle" /\ script' = <<>>
        /\ UNCHANGED <<flash, dynamic, release, begun>>
    BY DEF Refuse
  <1>2. /\ stage = "made" /\ pc \in DOMAIN script /\ pc \in Nat /\ pc > 0
        /\ script \in Seq(Command)
    BY <1>1 DEF Running, IInv, OtaTypeOK
  <1>3. /\ OtaTypeOK /\ UnderWay /\ Sound(script[pc])
        /\ package.kind \in {"full", "incremental"}
    BY <1>2 DEF IInv, Stages, OtaTypeOK, ScriptSound
  <1>4. ~begun
    <2>1. SUFFICES ASSUME begun PROVE FALSE
      OBVIOUS
    <2>2. CASE script[pc].op = "assert"
      BY <1>1, <1>2, <1>3, <2>1, <2>2 DEF Fails, UnderWay
    <2>3. CASE script[pc].op = "block"
      BY <1>1, <1>2, <1>3, <2>3 DEF Fails, UnderWay, Sound
    <2>4. QED
      BY <1>1, <2>2, <2>3 DEF Fails
  <1>5. Settled'
    BY <1>1, <1>4 DEF IInv, Settled
  <1>6. OtaTypeOK'
    BY <1>1, <1>3, ArchiveAssumption DEF OtaTypeOK, NoPackage
  <1>7. Stages' /\ ScriptSound' /\ ScriptWhole'
    BY <1>1 DEF Stages, ScriptSound, ScriptWhole
  <1>8. ~begun' /\ pc' = 0
    BY <1>1, <1>4
  <1>9. QED
    BY <1>5, <1>6, <1>7, <1>8 DEF IInv

(* At the end of the script everything it has to achieve is achieved, and  *)
(* what it does not touch was right before.                                *)
LEMMA FinishIInv == ASSUME IInv, Finish PROVE IInv'
  <1> DEFINE s == package.source
             t == package.target
  <1>1. /\ stage = "made" /\ pc = Len(script) + 1
        /\ release' = t /\ pc' = 0 /\ package' = NoPackage /\ stage' = "idle"
        /\ script' = <<>> /\ UNCHANGED <<flash, dynamic, begun, refused>>
    BY DEF Finish
  <1>2. /\ script \in Seq(Command)
        /\ \A k \in DOMAIN script : k < pc
        /\ pc > 0
    BY <1>1 DEF IInv, OtaTypeOK
  <1>3. /\ OtaTypeOK /\ UnderWay /\ ScriptSound /\ ScriptWhole
        /\ package.kind \in {"full", "incremental"} /\ ~refused
    BY <1>1, <1>2 DEF IInv, Stages, OtaTypeOK
  <1>4. \A k \in DOMAIN script : Sound(script[k]) /\ Done(script[k])
    BY <1>2, <1>3 DEF UnderWay, ScriptSound
  <1>5. /\ s \in Release /\ t \in Release
        /\ user[t] \in [USERIMAGE_PARTITIONS -> Content \cup {None}]
    BY <1>3, ArchiveAssumption DEF OtaTypeOK
  <1>6. \A i \in Raw : image[t][i] # None => flash[i] = image[t][i]
    <2>1. SUFFICES ASSUME NEW i \in Raw, image[t][i] # None
                   PROVE  flash[i] = image[t][i]
      OBVIOUS
    <2>2. CASE package.kind = "full" \/ Differs(i)
      <3>1. PICK k \in DOMAIN script : script[k].op = "write" /\ script[k].on = i
        BY <1>1, <1>3, <2>1, <2>2 DEF ScriptWhole, Has
      <3>2. QED
        BY <1>4, <3>1 DEF Sound, Done
    <2>3. CASE package.kind = "incremental" /\ ~Differs(i)
      <3>1. image[t][i] = image[s][Compared(i)]
        BY <2>1, <2>3 DEF Differs
      <3>2. Compared(i) \in Images /\ i \in Images
        BY DEF Compared, Raw, Images
      <3>3. Compared(i) = i
        BY <1>5, <2>1, <3>1, <3>2, KindAssumption
      <3>4. flash[i] = image[s][i]
        BY <1>3, <2>1, <2>3, <3>1, <3>3 DEF UnderWay
      <3>5. QED
        BY <3>1, <3>3, <3>4
    <2>4. QED
      BY <1>3, <2>2, <2>3
  <1>7. dynamic = user[t]
    <2>1. SUFFICES ASSUME NEW p \in USERIMAGE_PARTITIONS PROVE dynamic[p] = user[t][p]
      BY <1>3, <1>5 DEF OtaTypeOK
    <2>2. CASE Has("block", p)
      BY <1>4, <2>2 DEF Has, Sound, Done
    <2>3. CASE ~Has("block", p) /\ package.kind = "full"
      <3>1. user[t][p] = None
        BY <1>1, <1>3, <2>3 DEF ScriptWhole, GetUserImages
      <3>2. PICK k \in DOMAIN script : script[k].op = "regroup"
        BY <1>1, <1>3, <2>3 DEF ScriptWhole, Has
      <3>3. QED
        BY <1>4, <3>1, <3>2 DEF Sound, Done, GetUserImages
    <2>4. CASE ~Has("block", p) /\ package.kind = "incremental"
      <3>1. user[t][p] = None /\ user[s][p] = None
        BY <1>1, <1>3, <2>4 DEF ScriptWhole, GetUserImages
      <3>2. QED
        BY <1>3, <2>4, <3>1 DEF UnderWay
    <2>5. QED
      BY <1>3, <2>2, <2>3, <2>4
  <1>8. Settled'
    BY <1>1, <1>6, <1>7 DEF Settled
  <1>9. OtaTypeOK'
    BY <1>1, <1>3, <1>5, ArchiveAssumption DEF OtaTypeOK, NoPackage
  <1>10. Stages' /\ ScriptSound' /\ ScriptWhole'
    BY <1>1 DEF Stages, ScriptSound, ScriptWhole
  <1>11. ~refused' /\ pc' = 0
    BY <1>1, <1>3
  <1>12. QED
    BY <1>8, <1>9, <1>10, <1>11 DEF IInv

LEMMA StepIInv == IInv /\ [Next]_vars => IInv'
  <1> SUFFICES ASSUME IInv, [Next]_vars PROVE IInv'
    OBVIOUS
  <1>1. CASE \E kind \in {"full", "incremental"}, r \in Release : Begin(kind, r)
    BY <1>1, BeginIInv
  <1>2. CASE AddBootloaderAssertion
    BY <1>2, AddBootloaderAssertionIInv
  <1>3. CASE FullOTA_GetBlockDifferences
    BY <1>3, FullBlocksIInv
  <1>4. CASE IncrementalOTA_GetBlockDifferences
    BY <1>4, IncrementalBlocksIInv
  <1>5. CASE FullOTA_InstallEnd
    BY <1>5, FullEndIInv
  <1>6. CASE IncrementalOTA_InstallEnd
    BY <1>6, IncrementalEndIInv
  <1>7. CASE StartInstall
    BY <1>7, StartInstallIInv
  <1>8. CASE Execute
    BY <1>8, ExecuteIInv
  <1>9. CASE Refuse
    BY <1>9, RefuseIInv
  <1>10. CASE PowerLoss
    BY <1>10, PowerLossIInv
  <1>11. CASE Finish
    BY <1>11, FinishIInv
  <1>12. CASE UNCHANGED vars
    <2>1. UNCHANGED <<package, stage, script, flash, dynamic, release, pc, begun, refused>>
      BY <1>12 DEF vars, making, device
    <2>2. ASSUME NEW c PROVE (Sound(c)' <=> Sound(c)) /\ (Done(c)' <=> Done(c))
      BY <2>1 DEF Sound, Done, Differs, GetUserImages
    <2>3. OtaTypeOK' /\ Stages' /\ (Settled' <=> Settled)
      BY <2>1 DEF IInv, OtaTypeOK, Stages, Settled
    <2>4. ScriptSound' /\ ScriptWhole'
      BY <2>1, <2>2 DEF IInv, ScriptSound, ScriptWhole, Has, Differs, GetUserImages
    <2>5. UnderWay => UnderWay'
      BY <2>1, <2>2 DEF UnderWay, Differs
    <2>6. QED
      BY <2>1, <2>3, <2>4, <2>5 DEF IInv
  <1>13. QED
    BY <1>1, <1>2, <1>3, <1>4, <1>5, <1>6, <1>7, <1>8, <1>9, <1>10, <1>11, <1>12
       DEF Next

LEMMA AlwaysIInv == Spec => []IInv
  BY InitIInv, StepIInv, PTL DEF Spec

-----------------------------------------------------------------------------
\* releasetools.py: whatever chain of full and incremental updates has led to
\* the release a device runs, and wherever the power was lost on the way, the
\* device has every raw image and exactly the dynamic partitions of that
\* release; the wrong name in the comparison of vendor_boot does no harm.
THEOREM ReleaseIsWhole == Spec => []RunsWhatItSays
  <1>1. IInv => RunsWhatItSays
    BY DEF IInv, Stages, Settled, RunsWhatItSays
  <1>2. QED
    BY <1>1, AlwaysIInv, PTL

\* AddBootloaderAssertion() and the checks of the blocks: a package that has
\* begun to change a device is never refused by it, so that after a power loss
\* it can be run to its end.
THEOREM BegunIsNotRefused == Spec => []RefusedUntouched
  <1>1. IInv => RefusedUntouched
    BY Zenon DEF IInv, RefusedUntouched
  <1>2. QED
    BY <1>1, AlwaysIInv, PTL
=============================================================================
