----------------------- MODULE BaseParameterV1Proofs -----------------------
(***************************************************************************)
(* Proofs about BaseParameterV1, for every layout the assumptions allow,   *)
(* any number of overlapping runs, errors, kills and power losses.         *)
(***************************************************************************)
EXTENDS BaseParameterV1, TLAPS

Image == [0 .. ImageSize - 1 -> Cell]
Memory == [0 .. MemSize - 1 -> Cell]
Half == [0 .. HalfSize - 1 -> Cell]

(* The partition has room for what the code addresses in it.               *)
LEMMA Layout ==
    /\ DispSize \in Nat /\ HalfSize \in Nat /\ BaseOffset \in Nat
    /\ DispSize > 0
    /\ MemSize \in Nat /\ MemSize = DispSize + DispSize
    /\ ImageSize \in Nat /\ ImageSize = HalfSize + HalfSize
    /\ MemSize <= HalfSize
    /\ BaseOffset + DispSize <= HalfSize
  BY LayoutAssumption DEF MemSize, ImageSize

LEMMA BlankIsCell == Blank \in Cell
  BY ValueAssumption DEF Blank, Cell

LEMMA ZeroMemory == ZeroMem \in Memory /\ ZeroHalf \in Half
  BY BlankIsCell DEF ZeroMem, ZeroHalf, Memory, Half

(* What a write leaves in the partition is a partition.                    *)
LEMMA OverwriteType ==
    ASSUME image \in Image, NEW base \in Nat, NEW size \in Nat,
           NEW data \in [0 .. size - 1 -> Cell], NEW n \in 0 .. size,
           Overwrite(base, data, n)
    PROVE  image' \in Image
  <1>1. \A c \in 0 .. ImageSize - 1 :
          (IF c >= base /\ c < base + n THEN data[c - base] ELSE image[c]) \in Cell
    BY Layout DEF Image
  <1>2. QED
    BY <1>1 DEF Overwrite, Image

(* An error counter stays within its bound.                                *)
LEMMA TransfersType ==
    ASSUME errors \in 0 .. MaxErrors, NEW size \in Nat, NEW n, Transfers(n, size)
    PROVE  /\ n \in 0 .. size
           /\ errors' \in 0 .. MaxErrors
  BY BoundAssumption DEF Transfers

LEMMA ForgetType ==
    ASSUME TypeOK, NEW P, Forget(P)
    PROVE  /\ pc' \in [Procs -> PC]
           /\ cmd' \in [Procs -> Command]
           /\ todo' \in [Procs -> SUBSET Op]
           /\ mem' \in [Procs -> Memory]
           /\ buf' \in [Procs -> Half]
  <1>1. NoCommand \in Command
    BY DEF NoCommand, Command, Argument
  <1>2. QED
    BY <1>1, ZeroMemory DEF Forget, TypeOK, PC, Memory, Half

LEMMA SlotInMemory ==
    ASSUME TypeOK, NEW p \in Procs
    PROVE  Slot(p) \in 0 .. MemSize - 1
  BY Layout DEF Slot

(* saveConfig() with settings that are settings.                           *)
LEMMA SaveConfigType ==
    ASSUME TypeOK, NEW p \in Procs, NEW settings \in Cell,
           SaveConfig(p, settings)
    PROVE  /\ image' \in Image
           /\ pc' \in [Procs -> PC]
           /\ mem' \in [Procs -> Memory]
           /\ errors' \in 0 .. MaxErrors
  <1>1. mem' \in [Procs -> Memory]
    BY SlotInMemory DEF SaveConfig, TypeOK, Memory
  <1>2. PICK n \in 0 .. MemSize :
          /\ Transfers(n, MemSize)
          /\ Overwrite(0, mem'[p], n)
          /\ \/ pc' = [pc EXCEPT ![p] = "sync"]
             \/ n = 0 /\ UNCHANGED pc
    BY DEF SaveConfig
  <1>3. mem'[p] \in [0 .. MemSize - 1 -> Cell]
    BY <1>1 DEF Memory
  <1>4. image \in Image /\ errors \in 0 .. MaxErrors
    BY DEF TypeOK, Image
  <1>5. image' \in Image
    BY <1>2, <1>3, <1>4, Layout, OverwriteType
  <1>6. errors' \in 0 .. MaxErrors
    BY <1>2, <1>4, Layout, TransfersType
  <1>7. pc' \in [Procs -> PC]
    BY <1>2 DEF TypeOK, PC
  <1>8. QED
    BY <1>1, <1>5, <1>6, <1>7

(* Serving an option with saveConfig() preserves the types.                *)
LEMMA SetterType ==
    ASSUME TypeOK, NEW p \in Procs, NEW o \in Op, Serve(p, o),
           NEW settings \in Cell, SaveConfig(p, settings)
    PROVE  TypeOK'
  <1>1. /\ image' \in [0 .. ImageSize - 1 -> Cell]
        /\ pc' \in [Procs -> PC]
        /\ mem' \in [Procs -> [0 .. MemSize - 1 -> Cell]]
        /\ errors' \in 0 .. MaxErrors
    BY SaveConfigType DEF Image, Memory
  <1>2. todo'[p] \subseteq todo[p] /\ \A q \in Procs : todo'[q] \subseteq todo[q]
    BY DEF Serve, TypeOK
  <1>3. todo' \in [Procs -> SUBSET Op] /\ UNCHANGED cmd
    BY DEF Serve, TypeOK
  <1>4. \A q \in Procs : todo'[q] \subseteq Requested(cmd'[q])
    BY <1>2, <1>3 DEF TypeOK
  <1>5. QED
    BY <1>1, <1>3, <1>4 DEF Serve, TypeOK

(* The argument of an option that is being served is a value, or values.   *)
LEMMA ArgumentOf ==
    ASSUME TypeOK, NEW p \in Procs
    PROVE  /\ \A o \in {"bcsh", "scan", "fb"} :
                 Turn(p, o) => Scanned(cmd[p][o]) \subseteq Value
           /\ Turn(p, "res") => cmd[p].res = "auto" \/ Scanned(cmd[p].res) \subseteq Value
           /\ Turn(p, "color") => cmd[p].color \in Value \cup {"Auto"}
  <1>1. cmd[p] \in Command /\ todo[p] \subseteq Requested(cmd[p])
    BY DEF TypeOK
  <1>2. \A o \in {"bcsh", "scan", "fb", "color", "res"} :
           Turn(p, o) => cmd[p][o] # Absent
    BY <1>1 DEF Turn, Requested
  <1>3. QED
    BY <1>1, <1>2 DEF Command, Argument, Scanned

LEMMA SettersType ==
    ASSUME TypeOK, NEW p \in Procs,
           \/ SetBcsh(p) \/ SetOverscan(p) \/ SetFramebufferInfo(p)
           \/ SetColor(p) \/ SetResolution(p)
    PROVE  TypeOK'
  <1>1. mem[p][Slot(p)] \in Cell
    BY SlotInMemory DEF TypeOK
  <1>2. CASE SetBcsh(p)
    <2>1. PICK v \in Scanned(cmd[p].bcsh) :
            SaveConfig(p, [mem[p][Slot(p)] EXCEPT !.bcsh = v])
      BY <1>2 DEF SetBcsh
    <2>2. Serve(p, "bcsh") /\ Turn(p, "bcsh")
      BY <1>2 DEF SetBcsh, Serve
    <2>3. [mem[p][Slot(p)] EXCEPT !.bcsh = v] \in Cell
      BY <1>1, <2>1, <2>2, ArgumentOf DEF Cell
    <2>4. QED
      BY <2>1, <2>2, <2>3, SetterType DEF Op
  <1>3. CASE SetOverscan(p)
    <2>1. PICK v \in Scanned(cmd[p].scan) :
            SaveConfig(p, [mem[p][Slot(p)] EXCEPT !.scan = v])
      BY <1>3 DEF SetOverscan
    <2>2. Serve(p, "scan") /\ Turn(p, "scan")
      BY <1>3 DEF SetOverscan, Serve
    <2>3. [mem[p][Slot(p)] EXCEPT !.scan = v] \in Cell
      BY <1>1, <2>1, <2>2, ArgumentOf DEF Cell
    <2>4. QED
      BY <2>1, <2>2, <2>3, SetterType DEF Op
  <1>4. CASE SetFramebufferInfo(p)
    <2>1. PICK v \in Scanned(cmd[p].fb) :
            SaveConfig(p, [mem[p][Slot(p)] EXCEPT !.hwc = v])
      BY <1>4 DEF SetFramebufferInfo
    <2>2. Serve(p, "fb") /\ Turn(p, "fb")
      BY <1>4 DEF SetFramebufferInfo, Serve
    <2>3. [mem[p][Slot(p)] EXCEPT !.hwc = v] \in Cell
      BY <1>1, <2>1, <2>2, ArgumentOf DEF Cell
    <2>4. QED
      BY <2>1, <2>2, <2>3, SetterType DEF Op
  <1>5. CASE SetColor(p)
    <2> DEFINE auto == cmd[p].color = "Auto"
               format == IF auto THEN HighSubsampling ELSE cmd[p].color
    <2>1. PICK stack \in SUBSET Flag :
            SaveConfig(p, [mem[p][Slot(p)] EXCEPT
              !.format = format,
              !.feature = IF auto THEN stack \cup {"COLOR_AUTO"} ELSE stack])
      BY <1>5 DEF SetColor
    <2>2. Serve(p, "color") /\ Turn(p, "color")
      BY <1>5 DEF SetColor, Serve
    <2>3. format \in Value
      BY <2>2, ArgumentOf, ValueAssumption
    <2>4. (IF auto THEN stack \cup {"COLOR_AUTO"} ELSE stack) \in SUBSET Flag
      BY <2>1 DEF Flag
    <2>5. [mem[p][Slot(p)] EXCEPT
              !.format = format,
              !.feature = IF auto THEN stack \cup {"COLOR_AUTO"} ELSE stack] \in Cell
      <3> HIDE DEF format, auto
      <3> QED BY <1>1, <2>3, <2>4 DEF Cell
    <2>6. QED
      BY <2>1, <2>2, <2>5, SetterType DEF Op
  <1>6. CASE SetResolution(p)
    <2> DEFINE auto == cmd[p].res = "auto"
               flags == IF auto THEN {"RESOLUTION_AUTO"} ELSE {}
    <2>1. PICK v \in IF auto THEN {Zero} ELSE Scanned(cmd[p].res) :
            SaveConfig(p, [mem[p][Slot(p)] EXCEPT
              !.resolution = v, !.feature = flags])
      BY <1>6 DEF SetResolution
    <2>2. Serve(p, "res") /\ Turn(p, "res")
      BY <1>6 DEF SetResolution, Serve
    <2>3. v \in Value
      BY <2>1, <2>2, ArgumentOf, ValueAssumption
    <2>4. flags \in SUBSET Flag
      BY DEF Flag
    <2>5. [mem[p][Slot(p)] EXCEPT !.resolution = v, !.feature = flags] \in Cell
      <3> HIDE DEF flags
      <3> QED BY <1>1, <2>3, <2>4 DEF Cell
    <2>6. QED
      BY <2>1, <2>2, <2>5, SetterType DEF Op
  <1>7. QED
    BY <1>2, <1>3, <1>4, <1>5, <1>6

-----------------------------------------------------------------------------
LEMMA LoadType ==
    ASSUME TypeOK, NEW p \in Procs,
           Start(p) \/ LoadFails(p) \/ LoadMain(p) \/ LoadAux(p)
    PROVE  TypeOK'
  <1>1. CASE Start(p)
    <2>1. PICK c \in Commands :
            /\ cmd' = [cmd EXCEPT ![p] = c]
            /\ todo' = [todo EXCEPT ![p] = Requested(c)]
      BY <1>1 DEF Start
    <2>2. c \in Command /\ Requested(c) \subseteq Op
      BY InputAssumption DEF Requested, Op
    <2>3. cmd' \in [Procs -> Command] /\ todo' \in [Procs -> SUBSET Op]
      BY <2>1, <2>2 DEF TypeOK
    <2>4. \A q \in Procs : todo'[q] \subseteq Requested(cmd'[q])
      BY <2>1 DEF TypeOK
    <2>5. runs' \in 0 .. MaxRuns
      BY <1>1, BoundAssumption DEF Start, TypeOK
    <2>6. QED
      BY <1>1, <2>3, <2>4, <2>5 DEF Start, TypeOK, PC, partition
  <1>2. CASE LoadFails(p)
    BY <1>2, BoundAssumption DEF LoadFails, TypeOK, PC, partition
  <1>3. CASE LoadMain(p)
    <2>1. PICK n \in 0 .. DispSize :
            /\ Transfers(n, DispSize)
            /\ mem' = [mem EXCEPT ![p] =
                  [c \in 0 .. MemSize - 1 |-> IF c < n THEN image[c] ELSE @[c]]]
      BY <1>3 DEF LoadMain
    <2>2. \A c \in 0 .. MemSize - 1 :
            (IF c < n THEN image[c] ELSE mem[p][c]) \in Cell
      BY Layout DEF TypeOK
    <2>3. mem' \in [Procs -> [0 .. MemSize - 1 -> Cell]]
      BY <2>1, <2>2 DEF TypeOK
    <2>4. errors' \in 0 .. MaxErrors
      BY <2>1, Layout, TransfersType DEF TypeOK
    <2>5. QED
      BY <1>3, <2>3, <2>4 DEF LoadMain, TypeOK, PC, partition
  <1>4. CASE LoadAux(p)
    <2>1. PICK n \in 0 .. DispSize :
            /\ Transfers(n, DispSize)
            /\ mem' = [mem EXCEPT ![p] =
                  [c \in 0 .. MemSize - 1 |->
                     IF c >= DispSize /\ c < DispSize + n
                     THEN image[BaseOffset + (c - DispSize)] ELSE @[c]]]
      BY <1>4 DEF LoadAux
    <2>2. \A c \in 0 .. MemSize - 1 :
            (IF c >= DispSize /\ c < DispSize + n
             THEN image[BaseOffset + (c - DispSize)] ELSE mem[p][c]) \in Cell
      BY Layout DEF TypeOK
    <2>3. mem' \in [Procs -> [0 .. MemSize - 1 -> Cell]]
      BY <2>1, <2>2 DEF TypeOK
    <2>4. errors' \in 0 .. MaxErrors
      BY <2>1, Layout, TransfersType DEF TypeOK
    <2>5. QED
      BY <1>4, <2>3, <2>4 DEF LoadAux, TypeOK, PC, partition
  <1>5. QED
    BY <1>1, <1>2, <1>3, <1>4

(* reset() and backup().                                                   *)
LEMMA CopyType ==
    ASSUME TypeOK, NEW p \in Procs, NEW o \in {"reset", "backup"},
           ReadHalf(p, o) \/ CopyFails(p, o) \/ WriteHalf(p, o)
    PROVE  TypeOK'
  <1>0. Source(o) \in {0, HalfSize} /\ Target(o) \in {0, HalfSize}
    BY DEF Source, Target
  <1>1. CASE ReadHalf(p, o)
    <2>1. PICK n \in 0 .. HalfSize, rest \in {ZeroHalf, buf[p]} :
            /\ Transfers(n, HalfSize)
            /\ buf' = [buf EXCEPT ![p] =
                  [c \in 0 .. HalfSize - 1 |->
                     IF c < n THEN image[Source(o) + c] ELSE rest[c]]]
      BY <1>1 DEF ReadHalf
    <2>2. rest \in Half
      BY <2>1, ZeroMemory DEF TypeOK, Half
    <2>3. \A c \in 0 .. HalfSize - 1 :
            (IF c < n THEN image[Source(o) + c] ELSE rest[c]) \in Cell
      BY <1>0, <2>2, Layout DEF TypeOK, Half
    <2>4. buf' \in [Procs -> [0 .. HalfSize - 1 -> Cell]]
      BY <2>1, <2>3 DEF TypeOK
    <2>5. errors' \in 0 .. MaxErrors
      BY <2>1, Layout, TransfersType DEF TypeOK
    <2>6. QED
      BY <1>1, <2>4, <2>5 DEF ReadHalf, TypeOK, PC, partition
  <1>2. CASE CopyFails(p, o)
    BY <1>2, BoundAssumption DEF CopyFails, TypeOK, PC, partition
  <1>3. CASE WriteHalf(p, o)
    <2>1. PICK n \in 0 .. HalfSize :
            /\ Transfers(n, HalfSize)
            /\ Overwrite(Target(o), buf[p], n)
      BY <1>3 DEF WriteHalf
    <2>2. buf[p] \in [0 .. HalfSize - 1 -> Cell] /\ image \in Image
      BY DEF TypeOK, Image
    <2>3. image' \in [0 .. ImageSize - 1 -> Cell]
      BY <1>0, <2>1, <2>2, Layout, OverwriteType DEF Image
    <2>4. errors' \in 0 .. MaxErrors
      BY <2>1, Layout, TransfersType DEF TypeOK
    <2>5. QED
      BY <1>3, <2>3, <2>4 DEF WriteHalf, TypeOK, PC
  <1>4. QED
    BY <1>1, <1>2, <1>3

LEMMA CrashType ==
    ASSUME TypeOK, Crash
    PROVE  TypeOK'
  <1>1. disk' \in [0 .. ImageSize - 1 -> Cell]
    BY DEF Crash, TypeOK
  <1>2. crashes' \in 0 .. MaxCrashes
    BY BoundAssumption DEF Crash, TypeOK
  <1>3. \A q \in Procs : todo'[q] \subseteq Requested(cmd'[q])
    BY DEF Crash, Forget
  <1>4. Forget(Procs)
    BY DEF Crash
  <1>5. QED
    BY <1>1, <1>2, <1>3, <1>4, ForgetType DEF Crash, TypeOK, Memory, Half

LEMMA EndType ==
    ASSUME TypeOK, NEW p \in Procs, Fsync(p) \/ Exit(p) \/ Kill(p)
    PROVE  TypeOK'
  <1>1. CASE Fsync(p)
    BY <1>1, BoundAssumption DEF Fsync, TypeOK, PC
  <1>2. ASSUME Forget({p}) PROVE \A q \in Procs : todo'[q] \subseteq Requested(cmd'[q])
    BY <1>2 DEF Forget, TypeOK
  <1>3. CASE Exit(p)
    BY <1>2, <1>3, ForgetType DEF Exit, TypeOK, Memory, Half, partition, counters
  <1>4. CASE Kill(p)
    BY <1>2, <1>4, ForgetType, BoundAssumption DEF Kill, TypeOK, Memory, Half, partition
  <1>5. QED
    BY <1>1, <1>3, <1>4

(* Every variable keeps its type, for any constants the assumptions allow. *)
THEOREM TypeCorrect == Spec => []TypeOK
  <1>1. Init => TypeOK
    <2> SUFFICES ASSUME Init PROVE TypeOK
      OBVIOUS
    <2>1. FactoryImage \in [0 .. ImageSize - 1 -> Cell]
      BY InputAssumption, Layout DEF FactoryImage
    <2>2. NoCommand \in Command
      BY DEF NoCommand, Command, Argument
    <2>3. /\ image \in [0 .. ImageSize - 1 -> Cell]
          /\ disk \in [0 .. ImageSize - 1 -> Cell]
      BY <2>1 DEF Init
    <2>4. /\ pc \in [Procs -> PC] /\ cmd \in [Procs -> Command]
          /\ todo \in [Procs -> SUBSET Op]
          /\ \A p \in Procs : todo[p] \subseteq Requested(cmd[p])
      BY <2>2 DEF Init, PC
    <2>5. /\ mem \in [Procs -> [0 .. MemSize - 1 -> Cell]]
          /\ buf \in [Procs -> [0 .. HalfSize - 1 -> Cell]]
      BY ZeroMemory DEF Init, Memory, Half
    <2>6. /\ runs \in 0 .. MaxRuns /\ errors \in 0 .. MaxErrors
          /\ crashes \in 0 .. MaxCrashes /\ kills \in 0 .. MaxKills
      BY BoundAssumption DEF Init
    <2>7. backedUp \in BOOLEAN
      BY DEF Init
    <2>8. QED
      BY <2>3, <2>4, <2>5, <2>6, <2>7 DEF TypeOK
  <1>2. TypeOK /\ [Next]_vars => TypeOK'
    <2> SUFFICES ASSUME TypeOK, [Next]_vars PROVE TypeOK'
      OBVIOUS
    <2>1. CASE UNCHANGED vars
      BY <2>1 DEF vars, partition, process, counters, TypeOK
    <2>2. CASE Crash
      BY <2>2, CrashType
    <2>3. ASSUME NEW p \in Procs,
                 \/ Start(p) \/ LoadFails(p) \/ LoadMain(p) \/ LoadAux(p)
          PROVE  TypeOK'
      BY <2>3, LoadType
    <2>4. ASSUME NEW p \in Procs,
                 \/ SetBcsh(p) \/ SetOverscan(p) \/ SetFramebufferInfo(p)
                 \/ SetColor(p) \/ SetResolution(p)
          PROVE  TypeOK'
      BY <2>4, SettersType
    <2>5. ASSUME NEW p \in Procs, Reset(p) \/ Backup(p)
          PROVE  TypeOK'
      BY <2>5, CopyType DEF Reset, Backup
    <2>6. ASSUME NEW p \in Procs, Fsync(p) \/ Exit(p) \/ Kill(p)
          PROVE  TypeOK'
      BY <2>6, EndType
    <2>7. QED
      BY <2>1, <2>2, <2>3, <2>4, <2>5, <2>6 DEF Next
  <1>3. QED
    BY <1>1, <1>2, PTL DEF Spec

-----------------------------------------------------------------------------
(* The backup half.  BackupPristine is inductive on its own once types are *)
(* known: saveConfig() writes MemSize cells at 0, reset() HalfSize cells   *)
(* at 0, and neither reaches the second half.                              *)

LEMMA WriteBelowBackup ==
    ASSUME NEW base \in Nat, NEW data, NEW n \in Nat, base + n <= HalfSize,
           Overwrite(base, data, n), NEW c \in 0 .. HalfSize - 1
    PROVE  image'[HalfSize + c] = image[HalfSize + c]
  <1>1. HalfSize + c \in 0 .. ImageSize - 1 /\ ~(HalfSize + c < base + n)
    BY Layout
  <1>2. QED
    BY <1>1 DEF Overwrite

LEMMA SaveKeepsBackup ==
    ASSUME NEW p \in Procs, NEW settings, SaveConfig(p, settings),
           NEW c \in 0 .. HalfSize - 1
    PROVE  image'[HalfSize + c] = image[HalfSize + c]
  <1>1. PICK n \in 0 .. MemSize : Overwrite(0, mem'[p], n)
    BY DEF SaveConfig
  <1>2. n \in Nat /\ 0 + n <= HalfSize
    BY Layout
  <1>3. QED
    BY <1>1, <1>2, WriteBelowBackup

LEMMA SettersKeepBackup ==
    ASSUME NEW p \in Procs, NEW c \in 0 .. HalfSize - 1,
           \/ SetBcsh(p) \/ SetOverscan(p) \/ SetFramebufferInfo(p)
           \/ SetColor(p) \/ SetResolution(p)
    PROVE  /\ image'[HalfSize + c] = image[HalfSize + c]
           /\ UNCHANGED <<disk, backedUp>>
  <1>1. \E settings : SaveConfig(p, settings)
    BY DEF SetBcsh, SetOverscan, SetFramebufferInfo, SetColor, SetResolution
  <1>2. \E o \in Op : Serve(p, o)
    BY DEF SetBcsh, SetOverscan, SetFramebufferInfo, SetColor, SetResolution, Op
  <1>3. QED
    BY <1>1, <1>2, SaveKeepsBackup DEF Serve

(* No interleaving of runs, failed system calls, kills and power losses    *)
(* changes the factory backup, on the disk or in the cache, before the     *)
(* first backup(): the tool can always be reset to it.                     *)
THEOREM BackupSafe == Spec => []BackupPristine
  <1>1. Init => BackupPristine
    <2> SUFFICES ASSUME Init, NEW c \in 0 .. HalfSize - 1
                 PROVE  image[HalfSize + c] = Factory[c] /\ disk[HalfSize + c] = Factory[c]
      BY DEF BackupPristine
    <2>1. FactoryImage[HalfSize + c] = Factory[c]
      BY Layout DEF FactoryImage
    <2>2. QED
      BY <2>1 DEF Init
  <1>2. TypeOK /\ BackupPristine /\ [Next]_vars => BackupPristine'
    <2> SUFFICES ASSUME TypeOK, BackupPristine, [Next]_vars,
                        ~backedUp', NEW c \in 0 .. HalfSize - 1
                 PROVE  /\ image'[HalfSize + c] = Factory[c]
                        /\ disk'[HalfSize + c] = Factory[c]
      BY DEF BackupPristine
    <2> DEFINE b == HalfSize + c
               Kept == /\ image'[b] = image[b]
                       /\ disk'[b] \in {disk[b], image[b]}
                       /\ ~backedUp
    <2>0. b \in 0 .. ImageSize - 1
      BY Layout
    <2>1. CASE UNCHANGED vars
      BY <2>1 DEF vars, partition, BackupPristine
    <2>2. CASE Crash
      <3>1. ~backedUp
        BY <2>2 DEF Crash
      <3>2. image[b] = Factory[c] /\ disk[b] = Factory[c]
        BY <3>1 DEF BackupPristine
      <3>3. disk'[b] \in {image[b], disk[b]} /\ image'[b] = disk'[b]
        BY <2>0, <2>2 DEF Crash
      <3>4. QED
        BY <3>2, <3>3
    <2>3. ASSUME NEW p \in Procs,
                 \/ Start(p) \/ LoadFails(p) \/ LoadMain(p) \/ LoadAux(p)
                 \/ ReadHalf(p, "reset") \/ CopyFails(p, "reset")
                 \/ ReadHalf(p, "backup") \/ CopyFails(p, "backup")
                 \/ Exit(p) \/ Kill(p)
          PROVE  Kept
      BY <2>3 DEF Start, LoadFails, LoadMain, LoadAux, ReadHalf, CopyFails,
                  Exit, Kill, partition
    <2>4. ASSUME NEW p \in Procs,
                 \/ SetBcsh(p) \/ SetOverscan(p) \/ SetFramebufferInfo(p)
                 \/ SetColor(p) \/ SetResolution(p)
          PROVE  Kept
      BY <2>4, SettersKeepBackup
    <2>5. ASSUME NEW p \in Procs, WriteHalf(p, "reset")
          PROVE  Kept
      <3>1. PICK n \in 0 .. HalfSize : Overwrite(0, buf[p], n)
        BY <2>5 DEF WriteHalf, Target
      <3>2. n \in Nat /\ 0 + n <= HalfSize
        BY Layout
      <3>3. image'[b] = image[b]
        BY <3>1, <3>2, WriteBelowBackup
      <3>4. ~backedUp /\ disk' = disk
        BY <2>5 DEF WriteHalf
      <3>5. QED
        BY <3>3, <3>4
    <2>6. ASSUME NEW p \in Procs, Fsync(p)
          PROVE  Kept
      BY <2>6 DEF Fsync
    <2>7. ASSUME NEW p \in Procs, WriteHalf(p, "backup")
          PROVE  FALSE
      BY <2>7 DEF WriteHalf
    <2>8. CASE Kept
      BY <2>8 DEF BackupPristine
    <2>9. QED
      BY <2>1, <2>2, <2>3, <2>4, <2>5, <2>6, <2>7, <2>8 DEF Next, Reset, Backup
  <1>3. QED
    BY <1>1, <1>2, TypeCorrect, PTL DEF Spec
-----------------------------------------------------------------------------
(***************************************************************************)
(* Overlapping runs: a setting of display 0 is lost only with the whole of *)
(* another run's in its place, and none is stored that no run was given,   *)
(* unless a system call has failed.                                        *)
(***************************************************************************)

Setters == {"bcsh", "scan", "fb", "color", "res"}
Setting(p) ==
    SetBcsh(p) \/ SetOverscan(p) \/ SetFramebufferInfo(p) \/ SetColor(p) \/ SetResolution(p)

\* What option o of run p makes of the settings of its display.
Changed(p, o, s) ==
    LET old == mem[p][Slot(p)]
        c == cmd[p]
    IN  /\ IF o = "bcsh" THEN s.bcsh \in Scanned(c.bcsh) ELSE s.bcsh = old.bcsh
        /\ IF o = "scan" THEN s.scan \in Scanned(c.scan) ELSE s.scan = old.scan
        /\ IF o = "fb" THEN s.hwc \in Scanned(c.fb) ELSE s.hwc = old.hwc
        /\ IF o = "color"
           THEN s.format = IF c.color = "Auto" THEN HighSubsampling ELSE c.color
           ELSE s.format = old.format
        /\ IF o = "res"
           THEN IF c.res = "auto"
                THEN s.resolution = Zero /\ "RESOLUTION_AUTO" \in s.feature
                ELSE s.resolution \in Scanned(c.res)
           ELSE s.resolution = old.resolution
        /\ o \notin {"color", "res"} => s.feature = old.feature

(* Every option that sets something is served by one saveConfig().         *)
LEMMA SettingSaves ==
    ASSUME TypeOK, NEW p \in Procs, Setting(p)
    PROVE  \E o \in Setters : \E s : Serve(p, o) /\ SaveConfig(p, s) /\ Changed(p, o, s)
  <1>1. mem[p][Slot(p)] \in Cell
    BY SlotInMemory DEF TypeOK
  <1>2. CASE SetBcsh(p)
    <2>1. PICK v \in Scanned(cmd[p].bcsh) :
            SaveConfig(p, [mem[p][Slot(p)] EXCEPT !.bcsh = v])
      BY <1>2 DEF SetBcsh
    <2>2. Changed(p, "bcsh", [mem[p][Slot(p)] EXCEPT !.bcsh = v])
      BY <1>1 DEF Changed, Cell
    <2>3. QED
      BY <1>2, <2>1, <2>2 DEF SetBcsh, Setters
  <1>3. CASE SetOverscan(p)
    <2>1. PICK v \in Scanned(cmd[p].scan) :
            SaveConfig(p, [mem[p][Slot(p)] EXCEPT !.scan = v])
      BY <1>3 DEF SetOverscan
    <2>2. Changed(p, "scan", [mem[p][Slot(p)] EXCEPT !.scan = v])
      BY <1>1 DEF Changed, Cell
    <2>3. QED
      BY <1>3, <2>1, <2>2 DEF SetOverscan, Setters
  <1>4. CASE SetFramebufferInfo(p)
    <2>1. PICK v \in Scanned(cmd[p].fb) :
            SaveConfig(p, [mem[p][Slot(p)] EXCEPT !.hwc = v])
      BY <1>4 DEF SetFramebufferInfo
    <2>2. Changed(p, "fb", [mem[p][Slot(p)] EXCEPT !.hwc = v])
      BY <1>1 DEF Changed, Cell
    <2>3. QED
      BY <1>4, <2>1, <2>2 DEF SetFramebufferInfo, Setters
  <1>5. CASE SetColor(p)
    <2> DEFINE auto == cmd[p].color = "Auto"
               s(stack) == [mem[p][Slot(p)] EXCEPT
                              !.format = IF auto THEN HighSubsampling ELSE cmd[p].color,
                              !.feature = IF auto THEN stack \cup {"COLOR_AUTO"} ELSE stack]
    <2>1. PICK stack \in SUBSET Flag : SaveConfig(p, s(stack))
      BY <1>5 DEF SetColor
    <2>2. Changed(p, "color", s(stack))
      BY <1>1 DEF Changed, Cell
    <2>3. QED
      BY <1>5, <2>1, <2>2 DEF SetColor, Setters
  <1>6. CASE SetResolution(p)
    <2> DEFINE auto == cmd[p].res = "auto"
               s(v) == [mem[p][Slot(p)] EXCEPT
                          !.resolution = v,
                          !.feature = IF auto THEN {"RESOLUTION_AUTO"} ELSE {}]
    <2>1. PICK v \in IF auto THEN {Zero} ELSE Scanned(cmd[p].res) : SaveConfig(p, s(v))
      BY <1>6 DEF SetResolution
    <2>2. Changed(p, "res", s(v))
      BY <1>1, <2>1 DEF Changed, Cell
    <2>3. QED
      BY <1>6, <2>1, <2>2 DEF SetResolution, Setters
  <1>7. QED
    BY <1>2, <1>3, <1>4, <1>5, <1>6 DEF Setting

(* No error, no short transfer.                                            *)
LEMMA Whole ==
    ASSUME errors \in 0 .. MaxErrors, NEW n, NEW size, Transfers(n, size), errors' = 0
    PROVE  errors = 0 /\ n = size
  BY BoundAssumption DEF Transfers

(* saveConfig(), as far as cell 0 and the backup are concerned.            *)
LEMMA SaveCell0 ==
    ASSUME TypeOK, NEW p \in Procs, NEW s, SaveConfig(p, s), errors' = 0
    PROVE  /\ errors = 0
           /\ image'[0] = mem'[p][0]
           /\ image'[HalfSize] = image[HalfSize]
           /\ mem'[p][0] = IF cmd[p].dpy = 0 THEN s ELSE mem[p][0]
           /\ \A q \in Procs \ {p} : mem'[q] = mem[q]
           /\ pc' \in {pc, [pc EXCEPT ![p] = "sync"]}
  <1>1. PICK n \in 0 .. MemSize :
          Transfers(n, MemSize) /\ Overwrite(0, mem'[p], n)
    BY DEF SaveConfig
  <1>2. errors = 0 /\ n = MemSize
    BY <1>1, Whole DEF TypeOK
  <1>3. 0 \in 0 .. ImageSize - 1 /\ HalfSize \in 0 .. ImageSize - 1 /\ ~(HalfSize < 0 + MemSize)
        /\ 0 < 0 + MemSize /\ 0 - 0 = 0
    BY Layout
  <1>4. image'[0] = mem'[p][0] /\ image'[HalfSize] = image[HalfSize]
    BY <1>1, <1>2, <1>3 DEF Overwrite
  <1>5. mem'[p][0] = IF cmd[p].dpy = 0 THEN s ELSE mem[p][0]
    BY Layout DEF SaveConfig, Slot, TypeOK
  <1>6. \A q \in Procs \ {p} : mem'[q] = mem[q]
    BY DEF SaveConfig, TypeOK
  <1>7. QED
    BY <1>2, <1>4, <1>5, <1>6 DEF SaveConfig

-----------------------------------------------------------------------------
(* GivenOrPreset.                                                          *)

Named == {"bcsh", "scan", "hwc", "format", "resolution"}
Known(s) == \A f \in Named : s[f] \in {Factory[0][f]} \cup Given(f)

\* All that any run has read, holds or has written for display 0 is known.
KnownOnly ==
    errors = 0 =>
        /\ \A c \in {0, HalfSize} : Known(image[c]) /\ Known(disk[c])
        /\ \A p \in Procs :
              /\ pc[p] # "idle" => cmd[p] \in Commands
              /\ pc[p] \notin {"idle", "main"} => Known(mem[p][0])
              /\ pc[p] = "copy" => Known(buf[p][0])

(* What an option makes of settings that are known is known.               *)
LEMMA ChangeKnown ==
    ASSUME TypeOK, NEW p \in Procs, cmd[p] \in Commands, cmd[p].dpy = 0,
           NEW o \in Setters, cmd[p][o] # Absent, Known(mem[p][0]),
           NEW s, Changed(p, o, s)
    PROVE  Known(s)
  <1> DEFINE old == mem[p][0]
  <1>1. Slot(p) = 0
    BY DEF Slot
  <1>2. \A f \in Named : old[f] \in {Factory[0][f]} \cup Given(f)
    BY DEF Known
  <1>3. \A f \in Named : OptionOf(f) = o => Stored(cmd[p][o]) \subseteq Given(f)
    BY DEF Given
  <1>4. cmd[p] \in Command
    BY DEF TypeOK
  <1>5. \A v \in Value \cup {Short} : Stored(v) = Scanned(v)
    BY ValueAssumption DEF Stored, Short
  <1>6. SUFFICES ASSUME NEW f \in Named PROVE s[f] \in {Factory[0][f]} \cup Given(f)
    BY DEF Known
  <1>7. CASE f = "bcsh"
    <2>1. o = "bcsh" => cmd[p].bcsh \in Value \cup {Short}
      BY <1>4 DEF Command, Argument
    <2>2. QED
      BY <1>1, <1>2, <1>3, <1>5, <1>7, <2>1 DEF Changed, OptionOf, Named
  <1>8. CASE f = "scan"
    <2>1. o = "scan" => cmd[p].scan \in Value \cup {Short}
      BY <1>4 DEF Command, Argument
    <2>2. QED
      BY <1>1, <1>2, <1>3, <1>5, <1>8, <2>1 DEF Changed, OptionOf, Named
  <1>9. CASE f = "hwc"
    <2>1. o = "fb" => cmd[p].fb \in Value \cup {Short}
      BY <1>4 DEF Command, Argument
    <2>2. QED
      BY <1>1, <1>2, <1>3, <1>5, <1>9, <2>1 DEF Changed, OptionOf, Named
  <1>10. CASE f = "format"
    <2>1. o = "color" => cmd[p].color \in Value \cup {"Auto"}
      BY <1>4 DEF Command
    <2>2. o = "color" => s.format \in Stored(cmd[p].color)
      BY <1>5, <2>1, ValueAssumption DEF Changed, Stored, Scanned, Short
    <2>3. QED
      BY <1>1, <1>2, <1>3, <1>10, <2>2 DEF Changed, OptionOf, Named
  <1>11. CASE f = "resolution"
    <2>1. o = "res" => cmd[p].res \in Value \cup {Short, "auto"}
      BY <1>4 DEF Command, Argument
    <2>2. o = "res" => s.resolution \in Stored(cmd[p].res)
      BY <1>5, <2>1 DEF Changed, Stored
    <2>3. QED
      BY <1>1, <1>2, <1>3, <1>11, <2>2 DEF Changed, OptionOf, Named
  <1>12. QED
    BY <1>7, <1>8, <1>9, <1>10, <1>11 DEF Named

LEMMA KnownSetting ==
    ASSUME TypeOK, KnownOnly, NEW p \in Procs, Setting(p)
    PROVE  KnownOnly'
  <1> SUFFICES ASSUME errors' = 0
               PROVE  /\ \A c \in {0, HalfSize} : Known(image'[c]) /\ Known(disk'[c])
                      /\ \A q \in Procs :
                            /\ pc'[q] # "idle" => cmd'[q] \in Commands
                            /\ pc'[q] \notin {"idle", "main"} => Known(mem'[q][0])
                            /\ pc'[q] = "copy" => Known(buf'[q][0])
    BY DEF KnownOnly
  <1>1. PICK o \in Setters : \E s : Serve(p, o) /\ SaveConfig(p, s) /\ Changed(p, o, s)
    BY SettingSaves
  <1>2. PICK s : Serve(p, o) /\ SaveConfig(p, s) /\ Changed(p, o, s)
    BY <1>1
  <1>3. /\ errors = 0
        /\ image'[0] = mem'[p][0]
        /\ image'[HalfSize] = image[HalfSize]
        /\ mem'[p][0] = IF cmd[p].dpy = 0 THEN s ELSE mem[p][0]
        /\ \A q \in Procs \ {p} : mem'[q] = mem[q]
        /\ pc' \in {pc, [pc EXCEPT ![p] = "sync"]}
    BY <1>2, SaveCell0
  <1>4. /\ pc[p] = "run"
        /\ UNCHANGED <<disk, cmd, buf>>
    BY <1>2 DEF Serve, Turn
  <1>5. cmd[p] \in Commands /\ Known(mem[p][0])
    BY <1>3, <1>4 DEF KnownOnly
  <1>11. cmd[p][o] # Absent
    <2>1. o \in Requested(cmd[p]) /\ o \notin {"reset", "backup"}
      BY <1>2 DEF Serve, Turn, TypeOK, Setters
    <2>2. QED
      BY <2>1 DEF Requested
  <1>6. cmd[p].dpy = 0 => Known(s)
    BY <1>2, <1>5, <1>11, ChangeKnown
  <1>7. Known(mem'[p][0])
    BY <1>3, <1>5, <1>6
  <1>8. \A q \in Procs \ {p} : pc'[q] = pc[q]
    BY <1>3 DEF TypeOK
  <1>9. pc'[p] \in {"run", "sync"}
    BY <1>3, <1>4 DEF TypeOK
  <1>10. QED
    BY <1>3, <1>4, <1>5, <1>7, <1>8, <1>9 DEF KnownOnly

LEMMA KnownLoad ==
    ASSUME TypeOK, KnownOnly, NEW p \in Procs,
           Start(p) \/ LoadFails(p) \/ LoadMain(p) \/ LoadAux(p)
    PROVE  KnownOnly'
  <1>1. CASE Start(p)
    BY <1>1 DEF Start, KnownOnly, TypeOK, partition
  <1>2. CASE LoadFails(p)
    <2>1. errors' # 0
      BY <1>2, BoundAssumption DEF LoadFails, TypeOK
    <2>2. QED
      BY <2>1 DEF KnownOnly
  <1>3. CASE LoadMain(p) /\ errors' = 0
    <2>1. PICK n \in 0 .. DispSize :
            /\ Transfers(n, DispSize)
            /\ mem' = [mem EXCEPT ![p] =
                  [c \in 0 .. MemSize - 1 |-> IF c < n THEN image[c] ELSE @[c]]]
      BY <1>3 DEF LoadMain
    <2>2. errors = 0 /\ n = DispSize
      BY <1>3, <2>1, Whole DEF TypeOK
    <2>3. mem'[p][0] = image[0] /\ \A q \in Procs \ {p} : mem'[q] = mem[q]
      BY <2>1, <2>2, Layout DEF TypeOK
    <2>4. QED
      BY <1>3, <2>2, <2>3 DEF LoadMain, KnownOnly, TypeOK, partition
  <1>4. CASE LoadAux(p) /\ errors' = 0
    <2>1. PICK n \in 0 .. DispSize :
            /\ Transfers(n, DispSize)
            /\ mem' = [mem EXCEPT ![p] =
                  [c \in 0 .. MemSize - 1 |->
                     IF c >= DispSize /\ c < DispSize + n
                     THEN image[BaseOffset + (c - DispSize)] ELSE @[c]]]
      BY <1>4 DEF LoadAux
    <2>2. errors = 0
      BY <1>4, <2>1, Whole DEF TypeOK
    <2>3. mem'[p][0] = mem[p][0] /\ \A q \in Procs \ {p} : mem'[q] = mem[q]
      BY <2>1, Layout DEF TypeOK
    <2>4. QED
      BY <1>4, <2>2, <2>3 DEF LoadAux, KnownOnly, TypeOK, partition
  <1>5. QED
    BY <1>1, <1>2, <1>3, <1>4 DEF KnownOnly

LEMMA KnownCopy ==
    ASSUME TypeOK, KnownOnly, NEW p \in Procs, NEW o \in {"reset", "backup"},
           ReadHalf(p, o) \/ CopyFails(p, o) \/ WriteHalf(p, o)
    PROVE  KnownOnly'
  <1>0. Source(o) \in {0, HalfSize} /\ Target(o) \in {0, HalfSize}
    BY DEF Source, Target
  <1>1. CASE ReadHalf(p, o) /\ errors' = 0
    <2>1. PICK n \in 0 .. HalfSize, rest \in {ZeroHalf, buf[p]} :
            /\ Transfers(n, HalfSize)
            /\ buf' = [buf EXCEPT ![p] =
                  [c \in 0 .. HalfSize - 1 |->
                     IF c < n THEN image[Source(o) + c] ELSE rest[c]]]
      BY <1>1 DEF ReadHalf
    <2>2. errors = 0 /\ n = HalfSize
      BY <1>1, <2>1, Whole DEF TypeOK
    <2>3. buf'[p][0] = image[Source(o)] /\ \A q \in Procs \ {p} : buf'[q] = buf[q]
      BY <1>0, <2>1, <2>2, Layout DEF TypeOK
    <2>4. QED
      BY <1>0, <1>1, <2>2, <2>3 DEF ReadHalf, Turn, KnownOnly, TypeOK, partition
  <1>2. CASE CopyFails(p, o)
    <2>1. errors' # 0
      BY <1>2, BoundAssumption DEF CopyFails, TypeOK
    <2>2. QED
      BY <2>1 DEF KnownOnly
  <1>3. CASE WriteHalf(p, o) /\ errors' = 0
    <2>1. PICK n \in 0 .. HalfSize :
            /\ Transfers(n, HalfSize)
            /\ Overwrite(Target(o), buf[p], n)
      BY <1>3 DEF WriteHalf
    <2>2. errors = 0 /\ n = HalfSize
      BY <1>3, <2>1, Whole DEF TypeOK
    <2>3. \A c \in {0, HalfSize} :
             image'[c] = IF c = Target(o) THEN buf[p][0] ELSE image[c]
      BY <1>0, <2>1, <2>2, Layout DEF Overwrite
    <2>4. QED
      BY <1>3, <2>2, <2>3 DEF WriteHalf, KnownOnly, TypeOK
  <1>4. QED
    BY <1>1, <1>2, <1>3 DEF KnownOnly

LEMMA KnownEnd ==
    ASSUME TypeOK, KnownOnly, NEW p \in Procs, Fsync(p) \/ Exit(p) \/ Kill(p)
    PROVE  KnownOnly'
  <1>1. CASE Fsync(p)
    <2>1. errors' = 0 => errors = 0
      BY <1>1, BoundAssumption DEF Fsync, TypeOK
    <2>2. disk' \in {disk, image} /\ UNCHANGED <<image, cmd, mem, buf>>
      BY <1>1 DEF Fsync
    <2>3. pc[p] = "sync" /\ pc'[p] = "run" /\ \A q \in Procs \ {p} : pc'[q] = pc[q]
      BY <1>1 DEF Fsync, TypeOK
    <2>4. QED
      BY <2>1, <2>2, <2>3 DEF KnownOnly
  <1>2. CASE Exit(p)
    BY <1>2 DEF Exit, Forget, KnownOnly, partition, counters
  <1>3. CASE Kill(p)
    BY <1>3 DEF Kill, Forget, KnownOnly, partition
  <1>4. QED
    BY <1>1, <1>2, <1>3

LEMMA KnownCrash ==
    ASSUME TypeOK, KnownOnly, Crash
    PROVE  KnownOnly'
  <1>1. \A c \in {0, HalfSize} : disk'[c] \in {image[c], disk[c]} /\ image'[c] = disk'[c]
    BY Layout DEF Crash
  <1>2. \A q \in Procs : pc'[q] = "idle"
    BY DEF Crash, Forget
  <1>3. UNCHANGED errors
    BY DEF Crash
  <1>4. QED
    BY <1>1, <1>2, <1>3 DEF KnownOnly

(* However runs overlap, are killed or cut short by a power loss, what     *)
(* display 0 has was preset or given, as long as no call has failed.       *)
THEOREM SettingsAreGiven == Spec => []GivenOrPreset
  <1>1. Init => KnownOnly
    <2> SUFFICES ASSUME Init PROVE KnownOnly
      OBVIOUS
    <2>1. FactoryImage[0] = Factory[0] /\ FactoryImage[HalfSize] = Factory[0]
      BY Layout DEF FactoryImage
    <2>2. QED
      BY <2>1 DEF Init, KnownOnly, Known
  <1>2. TypeOK /\ KnownOnly /\ [Next]_vars => KnownOnly'
    <2> SUFFICES ASSUME TypeOK, KnownOnly, [Next]_vars PROVE KnownOnly'
      OBVIOUS
    <2>1. CASE UNCHANGED vars
      BY <2>1 DEF vars, partition, process, counters, KnownOnly
    <2>2. CASE Crash
      BY <2>2, KnownCrash
    <2>3. ASSUME NEW p \in Procs, Start(p) \/ LoadFails(p) \/ LoadMain(p) \/ LoadAux(p)
          PROVE  KnownOnly'
      BY <2>3, KnownLoad
    <2>4. ASSUME NEW p \in Procs, Setting(p) PROVE KnownOnly'
      BY <2>4, KnownSetting
    <2>5. ASSUME NEW p \in Procs, Reset(p) \/ Backup(p) PROVE KnownOnly'
      BY <2>5, KnownCopy DEF Reset, Backup
    <2>6. ASSUME NEW p \in Procs, Fsync(p) \/ Exit(p) \/ Kill(p) PROVE KnownOnly'
      BY <2>6, KnownEnd
    <2>7. QED
      BY <2>1, <2>2, <2>3, <2>4, <2>5, <2>6 DEF Next, Setting
  <1>3. KnownOnly => GivenOrPreset
    BY DEF KnownOnly, GivenOrPreset, Known, Named
  <1>4. QED
    BY <1>1, <1>2, <1>3, TypeCorrect, PTL DEF Spec

-----------------------------------------------------------------------------
(* LastWriterWins.                                                         *)

\* The settings s have what the options in done of command line c asked for.
ObeysPart(s, c, done) ==
    /\ "bcsh" \in done => (c.bcsh \in Value => s.bcsh = c.bcsh)
    /\ "scan" \in done => (c.scan \in Value => s.scan = c.scan)
    /\ "fb" \in done => (c.fb \in Value => s.hwc = c.fb)
    /\ "color" \in done => /\ c.color \in Value => s.format = c.color
                           /\ c.color = "Auto" => s.format = HighSubsampling
    /\ "res" \in done => /\ c.res \in Value => s.resolution = c.res
                         /\ c.res = "auto" => /\ s.resolution = Zero
                                              /\ "RESOLUTION_AUTO" \in s.feature

Done(p) == Requested(cmd[p]) \ todo[p]

\* The memory of a run accumulates what it has been asked for: -u, which may
\* be undone by -c, is served after it.
Accumulates(p) ==
    /\ pc[p] \in {"main", "aux"} => todo[p] = Requested(cmd[p])
    /\ "res" \in Done(p) => todo[p] = {}
    /\ pc[p] \in {"run", "copy", "sync"} /\ cmd[p].dpy = 0
           => ObeysPart(mem[p][0], cmd[p], Done(p))

\* Run p, which asks for no reset, has saved something.
HasSaved(p) ==
    /\ pc[p] \in {"run", "copy", "sync"}
    /\ Done(p) \cap Setters # {}
    /\ "reset" \notin Requested(cmd[p])

\* Once they all have, the partition holds what one of them has in memory.
OneOfThem ==
    errors = 0 /\ Procs # {} /\ (\A p \in Procs : HasSaved(p))
        => \E p \in Procs : image[0] = mem[p][0]

OverlapInv == (\A p \in Procs : Accumulates(p)) /\ OneOfThem

\* A step that leaves run q and what it has alone.
LeavesRun(q) ==
    /\ pc'[q] = pc[q] /\ cmd'[q] = cmd[q] /\ todo'[q] = todo[q]
    /\ mem'[q] = mem[q]

LEMMA AccumulatesOther ==
    ASSUME NEW q \in Procs, Accumulates(q), LeavesRun(q)
    PROVE  Accumulates(q)'
  BY DEF Accumulates, LeavesRun, Done

(* Option o of run p has been served: p keeps to what it was asked for.    *)
LEMMA AccumulatesSetting ==
    ASSUME TypeOK, NEW p \in Procs, Accumulates(p), NEW o \in Setters, NEW s,
           Serve(p, o), Changed(p, o, s),
           pc'[p] \in {"run", "sync"},
           cmd[p].dpy = 0 => mem'[p][0] = s
    PROVE  Accumulates(p)' /\ (cmd[p].dpy = 0 => ObeysPart(s, cmd[p], Done(p)'))
  <1>1. /\ Turn(p, o) /\ cmd' = cmd /\ pc[p] = "run"
        /\ todo'[p] = todo[p] \ {o}
    BY DEF Serve, Turn, TypeOK
  <1>2. Done(p)' = Done(p) \cup {o}
    BY <1>1 DEF Done, Turn, TypeOK
  <1>3. o = "res" => todo'[p] = {}
    <2>1. \A x \in Op : Rank["res"] <= Rank[x] => x = "res"
      BY DEF Op, Rank
    <2>2. QED
      BY <1>1, <2>1 DEF Turn, TypeOK
  <1>4. "res" \notin Done(p)
    BY <1>1 DEF Accumulates, Turn
  <1>5. cmd[p].dpy = 0 => ObeysPart(mem[p][0], cmd[p], Done(p)) /\ Slot(p) = 0
    BY <1>1 DEF Accumulates, Slot
  <1>6. cmd[p].dpy = 0 => ObeysPart(s, cmd[p], Done(p) \cup {o})
    <2> SUFFICES ASSUME cmd[p].dpy = 0 PROVE ObeysPart(s, cmd[p], Done(p) \cup {o})
      OBVIOUS
    <2> DEFINE c == cmd[p]
               d == Done(p) \cup {o}
               old == mem[p][0]
    <2>1. ObeysPart(old, c, Done(p)) /\ Slot(p) = 0
      BY <1>5
    <2>2. \A v \in Value : v # Short
      BY ValueAssumption
    <2>3. "bcsh" \in d => (c.bcsh \in Value => s.bcsh = c.bcsh)
      BY <2>1, <2>2 DEF ObeysPart, Changed, Scanned
    <2>4. "scan" \in d => (c.scan \in Value => s.scan = c.scan)
      BY <2>1, <2>2 DEF ObeysPart, Changed, Scanned
    <2>5. "fb" \in d => (c.fb \in Value => s.hwc = c.fb)
      BY <2>1, <2>2 DEF ObeysPart, Changed, Scanned
    <2>6. "color" \in d => /\ c.color \in Value => s.format = c.color
                           /\ c.color = "Auto" => s.format = HighSubsampling
      BY <2>1, ValueAssumption DEF ObeysPart, Changed
    <2>7. "res" \in d => /\ c.res \in Value => s.resolution = c.res
                         /\ c.res = "auto" => /\ s.resolution = Zero
                                              /\ "RESOLUTION_AUTO" \in s.feature
      BY <1>4, <2>1, <2>2, ValueAssumption DEF Changed, Scanned
    <2>8. QED
      BY <2>3, <2>4, <2>5, <2>6, <2>7 DEF ObeysPart
  <1>7. Accumulates(p)'
    BY <1>1, <1>2, <1>3, <1>4, <1>6 DEF Accumulates
  <1>8. QED
    BY <1>2, <1>6, <1>7

LEMMA OverlapSetting ==
    ASSUME TypeOK, OverlapInv, NEW p \in Procs, Setting(p)
    PROVE  OverlapInv'
  <1>1. PICK o \in Setters : \E s : Serve(p, o) /\ SaveConfig(p, s) /\ Changed(p, o, s)
    BY SettingSaves
  <1>2. PICK s : Serve(p, o) /\ SaveConfig(p, s) /\ Changed(p, o, s)
    BY <1>1
  <1>3. /\ cmd[p].dpy = 0 => mem'[p][0] = s
        /\ \A q \in Procs \ {p} : mem'[q] = mem[q]
        /\ pc' \in {pc, [pc EXCEPT ![p] = "sync"]}
    <2>1. cmd[p].dpy = 0 => mem'[p][0] = s
      BY <1>2, Layout DEF SaveConfig, Slot, TypeOK
    <2>2. \A q \in Procs \ {p} : mem'[q] = mem[q]
      BY <1>2 DEF SaveConfig, TypeOK
    <2>3. QED
      BY <1>2, <2>1, <2>2 DEF SaveConfig
  <1>4. pc[p] = "run" /\ pc'[p] \in {"run", "sync"}
    BY <1>2, <1>3 DEF Serve, Turn, TypeOK
  <1>5. Accumulates(p)'
    BY <1>2, <1>3, <1>4, AccumulatesSetting DEF OverlapInv
  <1>6. \A q \in Procs \ {p} : LeavesRun(q)
    BY <1>2, <1>3 DEF Serve, LeavesRun, TypeOK
  <1>7. errors' = 0 => image'[0] = mem'[p][0]
    BY <1>2, SaveCell0
  <1>8. QED
    BY <1>5, <1>6, <1>7, AccumulatesOther DEF OverlapInv, OneOfThem

(* A run that has begun again has saved nothing.                           *)
LEMMA FreshRun ==
    ASSUME NEW p \in Procs, NEW c,
           cmd'[p] = c, todo'[p] = Requested(c)
    PROVE  Accumulates(p)' /\ ~HasSaved(p)'
  BY DEF Accumulates, HasSaved, Done, ObeysPart

LEMMA OverlapLoad ==
    ASSUME TypeOK, OverlapInv, NEW p \in Procs,
           Start(p) \/ LoadFails(p) \/ LoadMain(p) \/ LoadAux(p)
    PROVE  OverlapInv'
  <1>1. cmd'[p] = cmd'[p] /\ todo'[p] = Requested(cmd'[p])
    <2>1. CASE Start(p)
      BY <2>1 DEF Start, TypeOK
    <2>2. CASE LoadFails(p) \/ LoadMain(p) \/ LoadAux(p)
      BY <2>2 DEF LoadFails, LoadMain, LoadAux, OverlapInv, Accumulates
    <2>3. QED
      BY <2>1, <2>2
  <1>2. Accumulates(p)' /\ ~HasSaved(p)'
    BY <1>1, FreshRun
  <1>3. \A q \in Procs \ {p} : LeavesRun(q)
    <2>1. CASE Start(p) \/ LoadFails(p)
      BY <2>1 DEF Start, LoadFails, LeavesRun, TypeOK
    <2>2. CASE LoadMain(p)
      BY <2>2 DEF LoadMain, LeavesRun, TypeOK
    <2>3. CASE LoadAux(p)
      BY <2>3 DEF LoadAux, LeavesRun, TypeOK
    <2>4. QED
      BY <2>1, <2>2, <2>3
  <1>4. QED
    BY <1>2, <1>3, AccumulatesOther DEF OverlapInv, OneOfThem

(* reset() and backup() do not touch what runs have in memory.             *)
LEMMA OverlapCopy ==
    ASSUME TypeOK, OverlapInv, NEW p \in Procs, NEW o \in {"reset", "backup"},
           ReadHalf(p, o) \/ CopyFails(p, o) \/ WriteHalf(p, o)
    PROVE  OverlapInv'
  <1>1. /\ o \in todo[p] /\ (todo'[p] = todo[p] \/ todo'[p] = todo[p] \ {o})
        /\ UNCHANGED <<cmd, mem>>
        /\ pc[p] \in {"run", "copy"} /\ pc'[p] \in {"run", "copy", "sync"}
        /\ \A q \in Procs \ {p} : LeavesRun(q)
    <2>1. CASE ReadHalf(p, o)
      BY <2>1 DEF ReadHalf, Turn, LeavesRun, TypeOK
    <2>2. CASE CopyFails(p, o)
      BY <2>2 DEF CopyFails, Turn, LeavesRun, TypeOK
    <2>3. CASE WriteHalf(p, o)
      BY <2>3 DEF WriteHalf, LeavesRun, TypeOK
    <2>4. QED
      BY <2>1, <2>2, <2>3
  <1>2. o \in Requested(cmd[p])
    BY <1>1 DEF TypeOK
  <1>3. /\ Done(p)' \in {Done(p), Done(p) \cup {o}}
        /\ Done(p)' \cap Setters = Done(p) \cap Setters
    BY <1>1, <1>2 DEF Done, Setters
  <1>4. Accumulates(p)'
    <2>1. "res" \notin Done(p) /\ "res" \notin Done(p)'
      BY <1>1, <1>3 DEF OverlapInv, Accumulates
    <2>2. cmd[p].dpy = 0 => ObeysPart(mem[p][0], cmd[p], Done(p)')
      BY <1>1, <1>3 DEF OverlapInv, Accumulates, ObeysPart
    <2>3. QED
      BY <1>1, <2>1, <2>2 DEF Accumulates
  <1>5. HasSaved(p)' => HasSaved(p) /\ o # "reset"
    BY <1>1, <1>2, <1>3 DEF HasSaved
  <1>6. \A q \in Procs \ {p} : HasSaved(q)' => HasSaved(q)
    BY <1>1 DEF LeavesRun, HasSaved, Done
  <1>7. errors' = 0 => errors = 0
    <2>1. ASSUME NEW n, NEW size, Transfers(n, size), errors' = 0
          PROVE  errors = 0
      BY <2>1, Whole DEF TypeOK
    <2>2. CASE ReadHalf(p, o) \/ WriteHalf(p, o)
      BY <2>1, <2>2 DEF ReadHalf, WriteHalf
    <2>3. CASE CopyFails(p, o)
      BY <2>3, BoundAssumption DEF CopyFails, TypeOK
    <2>4. QED
      BY <2>2, <2>3
  <1>8. o = "backup" => image'[0] = image[0]
    <2>1. CASE ReadHalf(p, o) \/ CopyFails(p, o)
      BY <2>1 DEF ReadHalf, CopyFails, partition
    <2>2. CASE WriteHalf(p, o) /\ o = "backup"
      <3>1. PICK n \in 0 .. HalfSize : Overwrite(HalfSize, buf[p], n)
        BY <2>2 DEF WriteHalf, Target
      <3>2. 0 \in 0 .. ImageSize - 1 /\ ~(0 >= HalfSize)
        BY Layout
      <3>3. QED
        BY <3>1, <3>2 DEF Overwrite
    <2>3. QED
      BY <2>1, <2>2
  <1>9. QED
    BY <1>1, <1>4, <1>5, <1>6, <1>7, <1>8, AccumulatesOther DEF OverlapInv, OneOfThem

LEMMA OverlapEnd ==
    ASSUME TypeOK, OverlapInv, NEW p \in Procs, Fsync(p) \/ Exit(p) \/ Kill(p)
    PROVE  OverlapInv'
  <1>1. CASE Fsync(p)
    <2>1. errors' = 0 => errors = 0
      BY <1>1, BoundAssumption DEF Fsync, TypeOK
    <2>2. /\ UNCHANGED <<image, cmd, todo, mem>>
          /\ pc[p] = "sync" /\ pc'[p] = "run" /\ \A q \in Procs \ {p} : pc'[q] = pc[q]
      BY <1>1 DEF Fsync, TypeOK
    <2>3. \A q \in Procs : Accumulates(q)' /\ (HasSaved(q)' => HasSaved(q))
      BY <2>2 DEF OverlapInv, Accumulates, HasSaved, Done
    <2>4. QED
      BY <2>1, <2>2, <2>3 DEF OverlapInv, OneOfThem
  <1>2. CASE Exit(p) \/ Kill(p)
    <2>1. Forget({p})
      BY <1>2 DEF Exit, Kill
    <2>2. Accumulates(p)' /\ ~HasSaved(p)'
      BY <2>1 DEF Forget, Accumulates, HasSaved, Done, Requested, NoCommand
    <2>3. \A q \in Procs \ {p} : LeavesRun(q)
      BY <2>1 DEF Forget, LeavesRun
    <2>4. QED
      BY <2>2, <2>3, AccumulatesOther DEF OverlapInv, OneOfThem
  <1>3. QED
    BY <1>1, <1>2

LEMMA OverlapCrash ==
    ASSUME TypeOK, OverlapInv, Crash
    PROVE  OverlapInv'
  <1>1. Forget(Procs)
    BY DEF Crash
  <1>2. \A q \in Procs : Accumulates(q)' /\ ~HasSaved(q)'
    BY <1>1 DEF Forget, Accumulates, HasSaved, Done, Requested, NoCommand
  <1>3. QED
    BY <1>2 DEF OverlapInv, OneOfThem

LEMMA OverlapInvariance == Spec => []OverlapInv
  <1>1. Init => OverlapInv
    BY DEF Init, OverlapInv, OneOfThem, Accumulates, HasSaved, Done, Requested, NoCommand
  <1>2. TypeOK /\ OverlapInv /\ [Next]_vars => OverlapInv'
    <2> SUFFICES ASSUME TypeOK, OverlapInv, [Next]_vars PROVE OverlapInv'
      OBVIOUS
    <2>1. CASE UNCHANGED vars
      BY <2>1 DEF vars, partition, process, counters, OverlapInv, OneOfThem,
                  Accumulates, HasSaved, Done
    <2>2. CASE Crash
      BY <2>2, OverlapCrash
    <2>3. ASSUME NEW p \in Procs, Start(p) \/ LoadFails(p) \/ LoadMain(p) \/ LoadAux(p)
          PROVE  OverlapInv'
      BY <2>3, OverlapLoad
    <2>4. ASSUME NEW p \in Procs, Setting(p) PROVE OverlapInv'
      BY <2>4, OverlapSetting
    <2>5. ASSUME NEW p \in Procs, Reset(p) \/ Backup(p) PROVE OverlapInv'
      BY <2>5, OverlapCopy DEF Reset, Backup
    <2>6. ASSUME NEW p \in Procs, Fsync(p) \/ Exit(p) \/ Kill(p) PROVE OverlapInv'
      BY <2>6, OverlapEnd
    <2>7. QED
      BY <2>1, <2>2, <2>3, <2>4, <2>5, <2>6 DEF Next, Setting
  <1>3. QED
    BY <1>1, <1>2, TypeCorrect, PTL DEF Spec

(* When runs that overlapped are all done, one of them has got all of its  *)
(* settings of display 0, whatever the others asked for and in whatever    *)
(* order they loaded and saved.                                            *)
THEOREM SomeRunWins ==
    ASSUME Procs # {}
    PROVE  Spec => []LastWriterWins
  <1>1. TypeOK /\ OverlapInv => LastWriterWins
    <2> SUFFICES ASSUME TypeOK, OverlapInv, errors = 0,
                        \A p \in Procs : /\ Finished(p) /\ cmd[p].dpy = 0
                                         /\ "reset" \notin Requested(cmd[p])
                 PROVE  \E p \in Procs : Obeys(Loaded(0), cmd[p])
      BY DEF LastWriterWins
    <2>1. \A p \in Procs : /\ pc[p] = "run" /\ Done(p) = Requested(cmd[p])
                           /\ ObeysPart(mem[p][0], cmd[p], Done(p))
      BY DEF Finished, Done, OverlapInv, Accumulates
    <2>2. ASSUME NEW p \in Procs, NEW s, ObeysPart(s, cmd[p], Requested(cmd[p]))
          PROVE  Obeys(s, cmd[p])
      <3> DEFINE c == cmd[p]
      <3>1. /\ c.bcsh \in Value => "bcsh" \in Requested(c)
            /\ c.scan \in Value => "scan" \in Requested(c)
            /\ c.fb \in Value => "fb" \in Requested(c)
            /\ c.color \in Value \cup {"Auto"} => "color" \in Requested(c)
            /\ c.res \in Value \cup {"auto"} => "res" \in Requested(c)
        BY ValueAssumption DEF Requested, Absent
      <3>2. QED
        BY <2>2, <3>1 DEF ObeysPart, Obeys
    <2>3. CASE \A p \in Procs : HasSaved(p)
      <3>1. PICK p \in Procs : image[0] = mem[p][0]
        BY <2>3 DEF OverlapInv, OneOfThem
      <3>2. QED
        BY <2>1, <2>2, <3>1 DEF Loaded
    <2>4. CASE \E p \in Procs : ~HasSaved(p)
      <3>1. PICK p \in Procs : ~HasSaved(p)
        BY <2>4
      <3>2. Requested(cmd[p]) \cap Setters = {}
        BY <2>1, <3>1 DEF HasSaved
      <3>3. ObeysPart(Loaded(0), cmd[p], Requested(cmd[p]))
        BY <3>2 DEF ObeysPart, Setters
      <3>4. QED
        BY <2>2, <3>3
    <2>5. QED
      BY <2>3, <2>4
  <1>2. QED
    BY <1>1, OverlapInvariance, TypeCorrect, PTL
-----------------------------------------------------------------------------
(***************************************************************************)
(* One run at a time: what the tool has done has reached the disk, and a   *)
(* reset restores the user half, after any history of kills and power      *)
(* losses.                                                                 *)
(***************************************************************************)

\* One run at a time; it may be killed or cut short, and another begins.
Alone(p) == Procs = {p}

\* Option o is the next that main() serves.
InTurn(p, o) == o \in todo[p] /\ \A q \in todo[p] : Rank[o] <= Rank[q]

\* Between two options, the disk has what the options served so far wrote.
Synced(p) == pc[p] \in {"run", "copy"} /\ Done(p) # {} => disk = image

\* The buffer of a copy that has been read and not yet written.
BufferRead(p) ==
    pc[p] = "copy" =>
        \A o \in {"reset", "backup"} :
            InTurn(p, o) => \A c \in 0 .. HalfSize - 1 : buf[p][c] = image[Source(o) + c]

\* The halves are the same from a reset to the -u that may follow it.
Restored(p) ==
    /\ pc[p] # "idle" /\ "reset" \in Done(p) /\ "res" \notin Done(p)
    => /\ pc[p] \in {"run", "copy", "sync"}
       /\ todo[p] \subseteq {"backup", "res"}
       /\ \A c \in 0 .. HalfSize - 1 : image[c] = image[HalfSize + c]

SingleInv(p) == errors = 0 => Synced(p) /\ BufferRead(p) /\ Restored(p)

LEMMA SingleSetting ==
    ASSUME TypeOK, NEW p \in Procs, Alone(p), Accumulates(p), SingleInv(p), Setting(p)
    PROVE  SingleInv(p)'
  <1> SUFFICES ASSUME errors' = 0
               PROVE  Synced(p)' /\ BufferRead(p)' /\ Restored(p)'
    BY DEF SingleInv
  <1>1. PICK o \in Setters : \E s : Serve(p, o) /\ SaveConfig(p, s) /\ Changed(p, o, s)
    BY SettingSaves
  <1>2. PICK s : Serve(p, o) /\ SaveConfig(p, s) /\ Changed(p, o, s)
    BY <1>1
  <1>3. PICK n \in 0 .. MemSize :
          /\ Transfers(n, MemSize)
          /\ pc' = [pc EXCEPT ![p] = "sync"] \/ n = 0
    BY <1>2 DEF SaveConfig
  <1>4. errors = 0 /\ n = MemSize /\ n # 0
    BY <1>3, Whole, Layout DEF TypeOK
  <1>5. pc'[p] = "sync" /\ pc[p] = "run"
    BY <1>2, <1>3, <1>4 DEF TypeOK, Serve, Turn
  <1>6. /\ cmd' = cmd /\ todo'[p] = todo[p] \ {o} /\ o \in todo[p]
        /\ \A q \in todo[p] : Rank[o] <= Rank[q]
    BY <1>2 DEF Serve, Turn, TypeOK
  <1>7. "reset" \notin Done(p) \/ o = "res"
    <2>1. CASE "reset" \in Done(p) /\ "res" \notin Done(p)
      BY <1>4, <1>5, <1>6, <2>1 DEF SingleInv, Restored, Setters
    <2>2. CASE "res" \in Done(p) /\ "res" \in todo[p]
      BY <2>2 DEF Done
    <2>3. CASE "reset" \in Done(p) /\ "res" \in Done(p)
      BY <1>6, <2>3 DEF Accumulates
    <2>4. QED
      BY <2>1, <2>2, <2>3
  <1>8. Synced(p)' /\ BufferRead(p)'
    BY <1>5 DEF Synced, BufferRead
  <1>9. Restored(p)'
    <2>1. CASE o = "res"
      <3>1. "res" \in Done(p)'
        BY <1>6, <2>1 DEF Done, TypeOK
      <3>2. QED
        BY <3>1 DEF Restored
    <2>2. CASE o # "res"
      <3>1. "reset" \notin Done(p) /\ o # "reset"
        BY <1>7, <2>2 DEF Setters
      <3>2. "reset" \notin Done(p)'
        BY <1>6, <3>1 DEF Done
      <3>3. QED
        BY <3>2 DEF Restored
    <2>3. QED
      BY <2>1, <2>2
  <1>10. QED
    BY <1>8, <1>9

LEMMA SingleLoad ==
    ASSUME TypeOK, NEW p \in Procs, Accumulates(p), SingleInv(p),
           Start(p) \/ LoadFails(p) \/ LoadMain(p) \/ LoadAux(p)
    PROVE  SingleInv(p)'
  <1>1. todo'[p] = Requested(cmd'[p])
    <2>1. CASE Start(p)
      BY <2>1 DEF Start, TypeOK
    <2>2. CASE LoadFails(p) \/ LoadMain(p) \/ LoadAux(p)
      BY <2>2 DEF LoadFails, LoadMain, LoadAux, Accumulates
    <2>3. QED
      BY <2>1, <2>2
  <1>2. pc'[p] # "copy"
    BY DEF Start, LoadFails, LoadMain, LoadAux, TypeOK
  <1>3. QED
    BY <1>1, <1>2 DEF SingleInv, Synced, BufferRead, Restored, Done

(* reset() and backup().                                                   *)
LEMMA SingleCopy ==
    ASSUME TypeOK, NEW p \in Procs, Alone(p), Accumulates(p), SingleInv(p),
           NEW o \in {"reset", "backup"},
           ReadHalf(p, o) \/ CopyFails(p, o) \/ WriteHalf(p, o)
    PROVE  SingleInv(p)'
  <1> SUFFICES ASSUME errors' = 0
               PROVE  Synced(p)' /\ BufferRead(p)' /\ Restored(p)'
    BY DEF SingleInv
  <1>0. \A x, y \in {"reset", "backup"} : InTurn(p, x) /\ InTurn(p, y) => x = y
    BY DEF InTurn, Rank
  <1>1. CASE ReadHalf(p, o)
    <2>1. PICK n \in 0 .. HalfSize, rest \in {ZeroHalf, buf[p]} :
            /\ Transfers(n, HalfSize)
            /\ buf' = [buf EXCEPT ![p] =
                  [c \in 0 .. HalfSize - 1 |->
                     IF c < n THEN image[Source(o) + c] ELSE rest[c]]]
      BY <1>1 DEF ReadHalf
    <2>2. errors = 0 /\ n = HalfSize
      BY <2>1, Whole DEF TypeOK
    <2>3. \A c \in 0 .. HalfSize - 1 : buf'[p][c] = image[Source(o) + c]
      BY <2>1, <2>2, Layout DEF TypeOK
    <2>4. /\ pc[p] = "run" /\ pc'[p] = "copy" /\ InTurn(p, o)
          /\ UNCHANGED <<image, disk, cmd, todo>>
      BY <1>1 DEF ReadHalf, Turn, InTurn, TypeOK, partition
    <2>5. BufferRead(p)'
      <3>1. \A x \in {"reset", "backup"} : InTurn(p, x)' => x = o
        BY <1>0, <2>4 DEF InTurn
      <3>2. QED
        BY <2>3, <2>4, <3>1 DEF BufferRead
    <2>6. QED
      BY <2>2, <2>4, <2>5 DEF SingleInv, Synced, Restored, Done
  <1>2. CASE CopyFails(p, o)
    BY <1>2, BoundAssumption DEF CopyFails, TypeOK
  <1>3. CASE WriteHalf(p, o)
    <2>1. PICK n \in 0 .. HalfSize :
            /\ Transfers(n, HalfSize)
            /\ Overwrite(Target(o), buf[p], n)
      BY <1>3 DEF WriteHalf
    <2>2. errors = 0 /\ n = HalfSize
      BY <2>1, Whole DEF TypeOK
    <2>3. /\ pc[p] = "copy" /\ pc'[p] = "sync" /\ InTurn(p, o)
          /\ cmd' = cmd /\ todo'[p] = todo[p] \ {o}
      BY <1>3 DEF WriteHalf, InTurn, TypeOK
    <2>4. \A c \in 0 .. HalfSize - 1 : buf[p][c] = image[Source(o) + c]
      BY <2>2, <2>3 DEF SingleInv, BufferRead
    <2>5. \A c \in 0 .. HalfSize - 1 : image'[c] = image'[HalfSize + c]
      <3> SUFFICES ASSUME NEW c \in 0 .. HalfSize - 1
                   PROVE  image'[c] = image'[HalfSize + c]
        OBVIOUS
      <3>1. /\ c \in 0 .. ImageSize - 1 /\ HalfSize + c \in 0 .. ImageSize - 1
            /\ c < HalfSize /\ ~(c >= HalfSize) /\ c - 0 = c
            /\ HalfSize + c >= HalfSize /\ HalfSize + c < HalfSize + HalfSize
            /\ ~(HalfSize + c < 0 + HalfSize) /\ (HalfSize + c) - HalfSize = c
            /\ c >= 0 /\ c < 0 + HalfSize /\ 0 + c = c
        BY Layout
      <3>2. CASE o = "reset"
        BY <2>1, <2>2, <2>4, <3>1, <3>2 DEF Overwrite, Target, Source
      <3>3. CASE o = "backup"
        BY <2>1, <2>2, <2>4, <3>1, <3>3 DEF Overwrite, Target, Source
      <3>4. QED
        BY <3>2, <3>3
    <2>6. "reset" \in Done(p)' => todo'[p] \subseteq {"backup", "res"}
      <3>1. CASE o = "reset"
        <4>1. \A x \in Op : Rank["reset"] <= Rank[x] => x \in {"reset", "backup", "res"}
          BY DEF Op, Rank
        <4>2. QED
          BY <2>3, <3>1, <4>1 DEF InTurn, TypeOK
      <3>2. CASE o = "backup"
        <4>1. \A x \in Op : Rank["backup"] <= Rank[x] => x \in {"backup", "res"}
          BY DEF Op, Rank
        <4>2. QED
          BY <2>3, <3>2, <4>1 DEF InTurn, TypeOK
      <3>3. QED
        BY <3>1, <3>2
    <2>7. QED
      BY <2>3, <2>5, <2>6 DEF Synced, BufferRead, Restored
  <1>4. QED
    BY <1>1, <1>2, <1>3

LEMMA SingleEnd ==
    ASSUME TypeOK, NEW p \in Procs, SingleInv(p), Fsync(p) \/ Exit(p) \/ Kill(p)
    PROVE  SingleInv(p)'
  <1>1. CASE Fsync(p)
    <2> SUFFICES ASSUME errors' = 0
                 PROVE  Synced(p)' /\ BufferRead(p)' /\ Restored(p)'
      BY DEF SingleInv
    <2>1. errors = 0 /\ disk' = image
      BY <1>1, BoundAssumption DEF Fsync, TypeOK
    <2>2. /\ UNCHANGED <<image, cmd, todo>>
          /\ pc[p] = "sync" /\ pc'[p] = "run"
      BY <1>1 DEF Fsync, TypeOK
    <2>3. QED
      BY <2>1, <2>2 DEF SingleInv, Synced, BufferRead, Restored, Done
  <1>2. CASE Exit(p) \/ Kill(p)
    <2>1. pc'[p] = "idle"
      BY <1>2 DEF Exit, Kill, Forget
    <2>2. QED
      BY <2>1 DEF SingleInv, Synced, BufferRead, Restored
  <1>3. QED
    BY <1>1, <1>2

LEMMA SingleInvariance ==
    ASSUME NEW p \in Procs, Alone(p)
    PROVE  Spec => []SingleInv(p)
  <1>1. Init => SingleInv(p)
    BY DEF Init, SingleInv, Synced, BufferRead, Restored
  <1>2. TypeOK /\ OverlapInv /\ SingleInv(p) /\ [Next]_vars => SingleInv(p)'
    <2> SUFFICES ASSUME TypeOK, OverlapInv, SingleInv(p), [Next]_vars
                 PROVE  SingleInv(p)'
      OBVIOUS
    <2>0. Accumulates(p) /\ \A q \in Procs : q = p
      BY DEF OverlapInv, Alone
    <2>1. CASE UNCHANGED vars
      BY <2>1 DEF vars, partition, process, counters, SingleInv, Synced, BufferRead,
                  Restored, Done, InTurn
    <2>2. CASE Crash
      <3>1. pc'[p] = "idle"
        BY <2>2 DEF Crash, Forget
      <3>2. QED
        BY <3>1 DEF SingleInv, Synced, BufferRead, Restored
    <2>3. CASE Start(p) \/ LoadFails(p) \/ LoadMain(p) \/ LoadAux(p)
      BY <2>0, <2>3, SingleLoad
    <2>4. CASE Setting(p)
      BY <2>0, <2>4, SingleSetting
    <2>5. CASE Reset(p) \/ Backup(p)
      BY <2>0, <2>5, SingleCopy DEF Reset, Backup
    <2>6. CASE Fsync(p) \/ Exit(p) \/ Kill(p)
      BY <2>6, SingleEnd
    <2>7. QED
      BY <2>0, <2>1, <2>2, <2>3, <2>4, <2>5, <2>6 DEF Next, Setting
  <1>3. QED
    BY <1>1, <1>2, TypeCorrect, OverlapInvariance, PTL DEF Spec

(* When one run at a time is made, main() returns with every option on the *)
(* disk, unless a system call has failed.                                  *)
THEOREM SingleRunsAreDurable ==
    ASSUME NEW p \in Procs, Alone(p)
    PROVE  Spec => []DurableWhenDone
  <1>1. SingleInv(p) => DurableWhenDone
    BY DEF Alone, SingleInv, Synced, Done, Finished, DurableWhenDone
  <1>2. QED
    BY <1>1, SingleInvariance, PTL

(* A reset leaves the two halves alike on the disk, whatever kills, power  *)
(* losses and earlier runs had made of them.                               *)
THEOREM SingleResetRecovers ==
    ASSUME NEW p \in Procs, Alone(p)
    PROVE  Spec => []ResetRecovers
  <1>1. TypeOK /\ OverlapInv /\ SingleInv(p) => ResetRecovers
    <2> SUFFICES ASSUME TypeOK, OverlapInv, SingleInv(p), errors = 0,
                        "reset" \in Requested(cmd[p]) \ todo[p],
                        "res" \in todo[p] \/ "res" \notin Requested(cmd[p]),
                        pc[p] = "run"
                 PROVE  \A c \in 0 .. HalfSize - 1 : disk[c] = disk[HalfSize + c]
      BY DEF Alone, ResetRecovers
    <2>1. "reset" \in Done(p) /\ "res" \notin Done(p)
      BY DEF Done
    <2>2. disk = image
      BY <2>1 DEF SingleInv, Synced
    <2>3. QED
      BY <2>1, <2>2 DEF SingleInv, Restored
  <1>2. QED
    BY <1>1, SingleInvariance, OverlapInvariance, TypeCorrect, PTL

-----------------------------------------------------------------------------
(***************************************************************************)
(* ParameterStore: with one run at a time that nothing but a power loss    *)
(* ends, the settings of display 0 on the disk change by whole options.    *)
(***************************************************************************)

\* No call fails, no run is killed, and -R is not given with -u: otherwise more
\* than one group of settings can reach the disk at once.
Calm ==
    /\ MaxErrors = 0 /\ MaxKills = 0
    /\ \A c \in Commands : c.reset => c.res = Absent

Field == {"resolution", "format", "feature", "scan", "hwc", "bcsh"}
Groups == {{"bcsh"}, {"scan"}, {"hwc"}, {"format", "feature"}, {"resolution", "feature"}}

\* The step of ParameterStore that the next fsync() makes, if it makes one.
PendingAssign ==
    \E group \in Groups :
        /\ \A f \in Field \ group : image[0][f] = disk[0][f]
        /\ image[HalfSize] = disk[HalfSize]
PendingRestore == image[0] = disk[HalfSize] /\ image[HalfSize] = disk[HalfSize]
PendingSave == image[HalfSize] = disk[0] /\ image[0] = disk[0]

\* At most one option is on its way to the disk, and until a reset the run
\* has in its memory what the partition has.
StoreInv(p) ==
    /\ cmd[p] \in Commands \cup {NoCommand}
    /\ pc[p] # "sync" => disk = image
    /\ pc[p] = "sync" => PendingAssign \/ PendingRestore \/ PendingSave
    /\ pc[p] \notin {"idle", "main"} /\ "reset" \notin Done(p) => mem[p][0] = image[0]

StoreStep == MainStore!StoreNext \/ UNCHANGED MainStore!storeVars

LEMMA SameStore == ASSUME UNCHANGED disk PROVE StoreStep
  BY DEF StoreStep, MainStore!storeVars

(* Each cell of the disk gets what the partition has, or keeps what it had:*)
(* that is the step that was pending, or none, because it is about one of  *)
(* the two cells only.                                                     *)
LEMMA PendingArrives ==
    ASSUME TypeOK, TypeOK',
           disk = image \/ PendingAssign \/ PendingRestore \/ PendingSave,
           \A c \in {0, HalfSize} : disk'[c] \in {disk[c], image[c]}
    PROVE  StoreStep
  <1>1. disk'[0] \in {disk[0], image[0]} /\ disk'[HalfSize] \in {disk[HalfSize], image[HalfSize]}
    OBVIOUS
  <1>2. CASE disk'[0] = disk[0] /\ disk'[HalfSize] = disk[HalfSize]
    BY <1>2 DEF StoreStep, MainStore!storeVars
  <1>3. CASE PendingAssign /\ disk'[0] = image[0]
    <2>1. PICK group \in Groups :
            /\ \A f \in Field \ group : image[0][f] = disk[0][f]
            /\ image[HalfSize] = disk[HalfSize]
      BY <1>3 DEF PendingAssign
    <2>2. disk'[0] \in Cell
      BY Layout DEF TypeOK
    <2>3. MainStore!Assign(group)
      BY <1>1, <1>3, <2>1, <2>2 DEF MainStore!Assign, Field
    <2>4. QED
      BY <2>3 DEF StoreStep, MainStore!StoreNext, Groups
  <1>4. CASE PendingRestore /\ disk'[0] = image[0]
    <2>1. MainStore!Restore
      BY <1>1, <1>4 DEF MainStore!Restore, PendingRestore
    <2>2. QED
      BY <2>1 DEF StoreStep, MainStore!StoreNext
  <1>5. CASE PendingSave /\ disk'[HalfSize] = image[HalfSize]
    <2>1. MainStore!Save
      BY <1>1, <1>5 DEF MainStore!Save, PendingSave
    <2>2. QED
      BY <2>1 DEF StoreStep, MainStore!StoreNext
  <1>6. QED
    BY <1>1, <1>2, <1>3, <1>4, <1>5 DEF PendingAssign, PendingRestore, PendingSave

(* An option that sets something is one group.                             *)
LEMMA StoreSetting ==
    ASSUME TypeOK, NEW p \in Procs, Calm, Accumulates(p), SingleInv(p), StoreInv(p),
           Setting(p), errors = 0, errors' = 0
    PROVE  StoreInv(p)' /\ UNCHANGED disk
  <1>1. PICK o \in Setters : \E s : Serve(p, o) /\ SaveConfig(p, s) /\ Changed(p, o, s)
    BY SettingSaves
  <1>2. PICK s : Serve(p, o) /\ SaveConfig(p, s) /\ Changed(p, o, s)
    BY <1>1
  <1>3. /\ pc[p] = "run" /\ disk' = disk /\ cmd' = cmd
        /\ o \in todo[p] /\ todo'[p] = todo[p] \ {o}
    BY <1>2 DEF Serve, Turn, TypeOK
  <1>4. "reset" \notin Done(p)
    <2> SUFFICES ASSUME "reset" \in Done(p) PROVE FALSE
      OBVIOUS
    <2>1. "res" \notin Done(p)
      BY <1>3 DEF Accumulates
    <2>2. o = "res"
      BY <1>3, <2>1 DEF SingleInv, Restored, Setters
    <2>3. "res" \in Requested(cmd[p]) /\ "reset" \in Requested(cmd[p])
      BY <1>3, <2>2 DEF TypeOK, Done
    <2>4. cmd[p].res # Absent /\ cmd[p].reset
      BY <2>3 DEF Requested
    <2>5. QED
      BY <2>4 DEF StoreInv, Calm, NoCommand
  <1>5. "reset" \notin Done(p)'
    BY <1>3, <1>4 DEF Done, Setters
  <1>6. /\ image'[0] = mem'[p][0]
        /\ image'[HalfSize] = image[HalfSize]
        /\ mem'[p][0] = IF cmd[p].dpy = 0 THEN s ELSE mem[p][0]
    BY <1>2, SaveCell0
  <1>7. mem[p][0] = image[0] /\ disk = image
    BY <1>3, <1>4 DEF StoreInv
  <1>8. pc'[p] = "sync"
    <2>1. PICK n \in 0 .. MemSize :
            /\ Transfers(n, MemSize)
            /\ pc' = [pc EXCEPT ![p] = "sync"] \/ n = 0
      BY <1>2 DEF SaveConfig
    <2>2. n # 0
      BY <2>1, Whole, Layout DEF TypeOK
    <2>3. QED
      BY <2>1, <2>2 DEF TypeOK
  <1>9. \E group \in Groups : \A f \in Field \ group : image'[0][f] = disk[0][f]
    <2>1. CASE cmd[p].dpy # 0
      BY <1>6, <1>7, <2>1 DEF Groups
    <2>2. CASE cmd[p].dpy = 0
      <3>1. image'[0] = s /\ mem[p][Slot(p)] = disk[0]
        BY <1>6, <1>7, <2>2 DEF Slot
      <3>2. CASE o = "bcsh"
        BY <1>2, <3>1, <3>2 DEF Changed, Groups, Field
      <3>3. CASE o = "scan"
        BY <1>2, <3>1, <3>3 DEF Changed, Groups, Field
      <3>4. CASE o = "fb"
        BY <1>2, <3>1, <3>4 DEF Changed, Groups, Field
      <3>5. CASE o = "color"
        BY <1>2, <3>1, <3>5 DEF Changed, Groups, Field
      <3>6. CASE o = "res"
        BY <1>2, <3>1, <3>6 DEF Changed, Groups, Field
      <3>7. QED
        BY <3>2, <3>3, <3>4, <3>5, <3>6 DEF Setters
    <2>3. QED
      BY <2>1, <2>2
  <1>10. PendingAssign'
    BY <1>3, <1>6, <1>7, <1>9 DEF PendingAssign
  <1>11. QED
    BY <1>3, <1>5, <1>6, <1>8, <1>10 DEF StoreInv

(* The constructor reads what the partition has.                           *)
LEMMA StoreLoad ==
    ASSUME TypeOK, NEW p \in Procs, Calm, Accumulates(p), StoreInv(p),
           Start(p) \/ LoadFails(p) \/ LoadMain(p) \/ LoadAux(p), errors = 0, errors' = 0
    PROVE  StoreInv(p)' /\ UNCHANGED disk
  <1>1. CASE Start(p)
    BY <1>1 DEF Start, StoreInv, TypeOK, partition
  <1>2. CASE LoadFails(p)
    BY <1>2 DEF LoadFails, Calm
  <1>3. CASE LoadMain(p)
    <2>1. PICK n \in 0 .. DispSize :
            /\ Transfers(n, DispSize)
            /\ mem' = [mem EXCEPT ![p] =
                 [c \in 0 .. MemSize - 1 |-> IF c < n THEN image[c] ELSE @[c]]]
      BY <1>3 DEF LoadMain
    <2>2. n = DispSize
      BY <2>1, Whole DEF TypeOK
    <2>3. mem'[p][0] = image[0]
      BY <2>1, <2>2, Layout DEF TypeOK
    <2>4. QED
      BY <1>3, <2>3 DEF LoadMain, StoreInv, TypeOK, partition
  <1>4. CASE LoadAux(p)
    <2>1. PICK n \in 0 .. DispSize :
            mem' = [mem EXCEPT ![p] =
                [c \in 0 .. MemSize - 1 |->
                    IF c >= DispSize /\ c < DispSize + n
                    THEN image[BaseOffset + (c - DispSize)] ELSE @[c]]]
      BY <1>4 DEF LoadAux
    <2>2. mem'[p][0] = mem[p][0]
      BY <2>1, Layout DEF TypeOK
    <2>3. pc[p] = "aux" /\ pc'[p] = "run" /\ UNCHANGED <<image, disk, cmd, todo>>
      BY <1>4 DEF LoadAux, TypeOK, partition
    <2>4. QED
      BY <2>2, <2>3 DEF StoreInv, Done
  <1>5. QED
    BY <1>1, <1>2, <1>3, <1>4

(* reset() and backup() write one half with what the other has.            *)
LEMMA StoreCopy ==
    ASSUME TypeOK, NEW p \in Procs, Calm, SingleInv(p), StoreInv(p),
           NEW o \in {"reset", "backup"},
           ReadHalf(p, o) \/ CopyFails(p, o) \/ WriteHalf(p, o), errors = 0, errors' = 0
    PROVE  StoreInv(p)' /\ UNCHANGED disk
  <1>1. CASE ReadHalf(p, o)
    <2>1. /\ pc[p] = "run" /\ pc'[p] = "copy"
          /\ UNCHANGED <<image, disk, cmd, todo, mem>>
      BY <1>1 DEF ReadHalf, Turn, TypeOK, partition
    <2>2. QED
      BY <2>1 DEF StoreInv, Done
  <1>2. CASE CopyFails(p, o)
    BY <1>2 DEF CopyFails, Calm
  <1>3. CASE WriteHalf(p, o)
    <2>1. PICK n \in 0 .. HalfSize :
            /\ Transfers(n, HalfSize)
            /\ Overwrite(Target(o), buf[p], n)
      BY <1>3 DEF WriteHalf
    <2>2. n = HalfSize
      BY <2>1, Whole DEF TypeOK
    <2>3. /\ pc[p] = "copy" /\ pc'[p] = "sync" /\ InTurn(p, o)
          /\ UNCHANGED <<disk, cmd, mem>> /\ todo'[p] = todo[p] \ {o}
          /\ o \in todo[p]
      BY <1>3 DEF WriteHalf, InTurn, TypeOK
    <2>4. buf[p][0] = image[Source(o)]
      <3>1. 0 \in 0 .. HalfSize - 1 /\ Source(o) + 0 = Source(o)
        BY Layout DEF Source
      <3>2. QED
        BY <2>3, <3>1 DEF SingleInv, BufferRead
    <2>5. disk = image
      BY <2>3 DEF StoreInv
    <2>6. /\ 0 \in 0 .. ImageSize - 1 /\ HalfSize \in 0 .. ImageSize - 1
          /\ ~(HalfSize < 0 + HalfSize) /\ ~(0 >= HalfSize)
          /\ 0 < 0 + HalfSize /\ HalfSize < HalfSize + HalfSize
          /\ 0 - 0 = 0 /\ HalfSize - HalfSize = 0
      BY Layout
    <2>7. CASE o = "reset"
      <3>1. image'[0] = buf[p][0] /\ image'[HalfSize] = image[HalfSize]
        BY <2>1, <2>2, <2>6, <2>7 DEF Overwrite, Target
      <3>2. PendingRestore'
        BY <2>3, <2>4, <2>5, <2>7, <3>1 DEF PendingRestore, Source
      <3>3. "reset" \in Done(p)'
        BY <2>3, <2>7 DEF Done, TypeOK
      <3>4. QED
        BY <2>3, <3>2, <3>3 DEF StoreInv
    <2>8. CASE o = "backup"
      <3>1. image'[HalfSize] = buf[p][0] /\ image'[0] = image[0]
        BY <2>1, <2>2, <2>6, <2>8 DEF Overwrite, Target
      <3>2. PendingSave'
        BY <2>3, <2>4, <2>5, <2>8, <3>1 DEF PendingSave, Source
      <3>3. "reset" \notin Done(p)' => "reset" \notin Done(p)
        BY <2>3 DEF Done
      <3>4. QED
        BY <2>3, <3>1, <3>2, <3>3 DEF StoreInv
    <2>9. QED
      BY <2>7, <2>8
  <1>4. QED
    BY <1>1, <1>2, <1>3

(* fsync(), and the end of a run: the disk is the partition.               *)
LEMMA StoreEnd ==
    ASSUME TypeOK, TypeOK', NEW p \in Procs, Calm, StoreInv(p),
           Fsync(p) \/ Exit(p) \/ Kill(p), errors = 0, errors' = 0
    PROVE  StoreInv(p)' /\ StoreStep
  <1>1. CASE Fsync(p)
    <2>1. /\ pc[p] = "sync" /\ pc'[p] = "run" /\ disk' = image
          /\ UNCHANGED <<image, cmd, todo, mem>>
      BY <1>1 DEF Fsync, TypeOK, Calm
    <2>2. StoreInv(p)'
      BY <2>1 DEF StoreInv, Done
    <2>3. StoreStep
      BY <2>1, PendingArrives DEF StoreInv
    <2>4. QED
      BY <2>2, <2>3
  <1>2. CASE Exit(p)
    <2>1. /\ pc[p] = "run" /\ pc'[p] = "idle" /\ cmd'[p] = NoCommand
          /\ UNCHANGED <<image, disk>>
      BY <1>2 DEF Exit, Forget, partition
    <2>2. QED
      BY <2>1, SameStore DEF StoreInv
  <1>3. CASE Kill(p)
    BY <1>3 DEF Kill, Calm, TypeOK
  <1>4. QED
    BY <1>1, <1>2, <1>3

(* A power loss does what was pending, or nothing.                         *)
LEMMA StoreCrash ==
    ASSUME TypeOK, TypeOK', NEW p \in Procs, StoreInv(p), Crash
    PROVE  StoreInv(p)' /\ StoreStep
  <1>1. pc'[p] = "idle" /\ cmd'[p] = NoCommand /\ disk' = image'
    BY DEF Crash, Forget
  <1>2. StoreInv(p)'
    BY <1>1 DEF StoreInv
  <1>3. \A c \in {0, HalfSize} : disk'[c] \in {disk[c], image[c]}
    <2>1. PICK reached \in SUBSET {c \in DOMAIN image : image[c] # disk[c]} :
            disk' = [c \in 0 .. ImageSize - 1 |->
                       IF c \in reached THEN image[c] ELSE disk[c]]
      BY DEF Crash
    <2>2. 0 \in 0 .. ImageSize - 1 /\ HalfSize \in 0 .. ImageSize - 1
      BY Layout
    <2>3. QED
      BY <2>1, <2>2
  <1>4. StoreStep
    BY <1>3, PendingArrives DEF StoreInv
  <1>5. QED
    BY <1>2, <1>4

(* saveConfig(), reset(), backup() and the fsync() after them: when one run*)
(* is made at a time, no call fails and only a power loss ends a run early,*)
(* each option reaches the disk entirely or not at all.                    *)
THEOREM SingleRunsImplementStore ==
    ASSUME NEW p \in Procs, Alone(p), Calm
    PROVE  Spec => ImplementsStore
  <1>1. Init => StoreInv(p) /\ MainStore!StoreInit
    <2> SUFFICES ASSUME Init PROVE StoreInv(p) /\ MainStore!StoreInit
      OBVIOUS
    <2>1. disk \in Image
      <3>1. \A c \in 0 .. ImageSize - 1 :
              Factory[IF c < HalfSize THEN c ELSE c - HalfSize] \in Cell
        BY Layout, InputAssumption
      <3>2. QED
        BY <3>1 DEF Init, FactoryImage, Image
    <2>2. disk[0] \in Cell /\ disk[HalfSize] \in Cell
      BY <2>1, Layout DEF Image
    <2>3. QED
      BY <2>2 DEF Init, StoreInv, MainStore!StoreInit
  <1>2. TypeOK /\ TypeOK' /\ OverlapInv /\ SingleInv(p) /\ StoreInv(p) /\ [Next]_vars
        => StoreInv(p)' /\ StoreStep
    <2> SUFFICES ASSUME TypeOK, TypeOK', OverlapInv, SingleInv(p), StoreInv(p), [Next]_vars
                 PROVE  StoreInv(p)' /\ StoreStep
      OBVIOUS
    <2>0. Accumulates(p) /\ (\A q \in Procs : q = p) /\ errors = 0 /\ errors' = 0
      BY DEF OverlapInv, Alone, Calm, TypeOK
    <2>1. CASE UNCHANGED vars
      <3>1. UNCHANGED <<image, disk, pc, cmd, todo, mem>>
        BY <2>1 DEF vars, partition, process
      <3>2. QED
        BY <3>1, SameStore DEF StoreInv, Done, PendingAssign, PendingRestore, PendingSave
    <2>2. CASE Crash
      BY <2>2, StoreCrash
    <2>3. CASE Start(p) \/ LoadFails(p) \/ LoadMain(p) \/ LoadAux(p)
      BY <2>0, <2>3, StoreLoad, SameStore
    <2>4. CASE Setting(p)
      BY <2>0, <2>4, StoreSetting, SameStore
    <2>5. CASE Reset(p) \/ Backup(p)
      BY <2>0, <2>5, StoreCopy, SameStore DEF Reset, Backup
    <2>6. CASE Fsync(p) \/ Exit(p) \/ Kill(p)
      BY <2>0, <2>6, StoreEnd
    <2>7. QED
      BY <2>0, <2>1, <2>2, <2>3, <2>4, <2>5, <2>6 DEF Next, Setting
  <1>3. QED
    <2>1. TypeOK /\ TypeOK' /\ OverlapInv /\ SingleInv(p) /\ StoreInv(p) /\ [Next]_vars
          => [MainStore!StoreNext]_(MainStore!storeVars)
      BY <1>2 DEF StoreStep
    <2>2. QED
      BY <1>1, <1>2, <2>1, TypeCorrect, OverlapInvariance, SingleInvariance, PTL
         DEF Spec, ImplementsStore, MainStore!StoreSpec
=============================================================================
