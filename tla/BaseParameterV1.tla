-------------------------- MODULE BaseParameterV1 --------------------------
(***************************************************************************)
(* The saveBaseParameter tool over the V1 baseparameter layout:            *)
(* baseparameter/saveBaseParameter/main.cpp and baseparameter_utilv1.cpp.  *)
(*                                                                         *)
(* The partition is two halves, user and backup.  In each half the loader  *)
(* finds the settings of display 0 at offset 0 and of display 1 at         *)
(* BASE_OFFSET.  It is modelled as a sequence of cells.  A cell stands for *)
(* BASE_OFFSET - sizeof(disp_info) = 8192 - 7160 = 1032 bytes, the distance*)
(* between where saveConfig() puts display 1 and where the loader looks    *)
(* for it; the two offsets are rounded up to whole cells, 7 and 8, which   *)
(* keeps that distance.  A struct disp_info is DispSize cells, the first   *)
(* of which holds every field the tool sets (its bytes 0..499, within one  *)
(* sector, so that a power loss does not tear them) and the others the     *)
(* lookup table.  Any process may run the tool, nothing locks the          *)
(* partition, every read and write may fail or be short, and the machine   *)
(* may lose power between two steps.                                       *)
(***************************************************************************)
EXTENDS Naturals

CONSTANTS
    Procs,          \* concurrent runs of the tool
    Value,          \* values of a field
    Zero,           \* what a zeroed field reads as
    HighSubsampling,\* format and depth stored for -c Auto
    Commands,       \* command lines the runs may be given
    Factory,        \* cells of one half as flashed with baseparameter.img
    DispSize,       \* sizeof(struct disp_info), in cells
    BaseOffset,     \* BASE_OFFSET, in cells
    HalfSize,       \* BACKUP_OFFSET, in cells
    MaxRuns,        \* bound: runs of the tool
    MaxErrors,      \* bound: failed or short system calls
    MaxCrashes,     \* bound: power losses
    MaxKills        \* bound: runs killed from outside

Flag == {"RESOLUTION_AUTO", "COLOR_AUTO"}

\* The settings of one display, as the tool writes them: struct disp_info.
Cell ==
    [resolution : Value, format : Value, feature : SUBSET Flag,
     scan : Value, hwc : Value, bcsh : Value]

Blank ==
    [resolution |-> Zero, format |-> Zero, feature |-> {},
     scan |-> Zero, hwc |-> Zero, bcsh |-> Zero]

MemSize == 2 * DispSize         \* struct file_base_paramer: main, then aux
ImageSize == 2 * HalfSize

\* An option that is not given, and one whose argument has too few numbers.
Absent == "absent"
Short == "short"
Argument == Value \cup {Absent, Short}

Op == {"bcsh", "scan", "fb", "color", "reset", "backup", "res"}

\* What main() remembers of a command line once getopt has accepted it.
Command ==
    [dpy : {0, 1}, bcsh : Argument, scan : Argument, fb : Argument,
     color : Value \cup {Absent, "Auto"}, res : Argument \cup {"auto"},
     reset : BOOLEAN, backup : BOOLEAN]

ASSUME ValueAssumption ==
    /\ Zero \in Value
    /\ HighSubsampling \in Value
    /\ Value \cap {Absent, Short, "Auto", "auto"} = {}

ASSUME LayoutAssumption ==
    /\ DispSize \in Nat \ {0}
    /\ BaseOffset \in Nat
    /\ HalfSize \in Nat
    /\ DispSize <= BaseOffset
    /\ BaseOffset + DispSize <= HalfSize

ASSUME InputAssumption ==
    /\ Commands \subseteq Command
    /\ Factory \in [0 .. HalfSize - 1 -> Cell]

ASSUME BoundAssumption ==
    /\ MaxRuns \in Nat
    /\ MaxErrors \in Nat
    /\ MaxCrashes \in Nat
    /\ MaxKills \in Nat

VARIABLES
    image,      \* the partition as read() sees it (page cache)
    disk,       \* the partition as a power loss leaves it
    pc,         \* where each run is
    cmd,        \* its command line
    todo,       \* the options main() has still to serve
    mem,        \* its mBase_paramer
    buf,        \* the malloc'ed half of reset() and backup()
    runs, errors, crashes, kills,
    backedUp    \* history: some backup() has started to write

partition == <<image, disk>>
process == <<pc, cmd, todo, mem, buf>>
counters == <<runs, errors, crashes, kills>>
vars == <<partition, process, counters, backedUp>>

PC == {"idle", "main", "aux", "run", "copy", "sync"}

-----------------------------------------------------------------------------
\* The order in which main() serves the options, one rank each.
Rank ==
    [bcsh |-> 1, scan |-> 2, fb |-> 3, color |-> 4,
     reset |-> 5, backup |-> 6, res |-> 7]

\* The options a command line asks for.
Requested(c) ==
    {o \in {"bcsh", "scan", "fb", "color", "res"} : c[o] # Absent}
        \cup {o \in {"reset", "backup"} : c[o]}

\* The type of every variable; a run only has options left to serve that its
\* command line asks for, so that the argument it hands on is one.
TypeOK ==
    /\ image \in [0 .. ImageSize - 1 -> Cell]
    /\ disk \in [0 .. ImageSize - 1 -> Cell]
    /\ pc \in [Procs -> PC]
    /\ cmd \in [Procs -> Command]
    /\ todo \in [Procs -> SUBSET Op]
    /\ \A p \in Procs : todo[p] \subseteq Requested(cmd[p])
    /\ mem \in [Procs -> [0 .. MemSize - 1 -> Cell]]
    /\ buf \in [Procs -> [0 .. HalfSize - 1 -> Cell]]
    /\ runs \in 0 .. MaxRuns
    /\ errors \in 0 .. MaxErrors
    /\ crashes \in 0 .. MaxCrashes
    /\ kills \in 0 .. MaxKills
    /\ backedUp \in BOOLEAN

\* Run p has come to option o in main().
Turn(p, o) ==
    /\ pc[p] = "run"
    /\ o \in todo[p]
    /\ \A q \in todo[p] : Rank[o] <= Rank[q]

\* sscanf leaves the fields it has no number for uninitialised.
Scanned(arg) == IF arg = Short THEN Value ELSE {arg}

NoCommand ==
    [dpy |-> 0, bcsh |-> Absent, scan |-> Absent, fb |-> Absent,
     color |-> Absent, res |-> Absent, reset |-> FALSE, backup |-> FALSE]

ZeroMem == [c \in 0 .. MemSize - 1 |-> Blank]
ZeroHalf == [c \in 0 .. HalfSize - 1 |-> Blank]
FactoryImage ==
    [c \in 0 .. ImageSize - 1 |-> Factory[IF c < HalfSize THEN c ELSE c - HalfSize]]

Init ==
    /\ image = FactoryImage
    /\ disk = FactoryImage
    /\ pc = [p \in Procs |-> "idle"]
    /\ cmd = [p \in Procs |-> NoCommand]
    /\ todo = [p \in Procs |-> {}]
    /\ mem = [p \in Procs |-> ZeroMem]
    /\ buf = [p \in Procs |-> ZeroHalf]
    /\ runs = 0 /\ errors = 0 /\ crashes = 0 /\ kills = 0
    /\ backedUp = FALSE

-----------------------------------------------------------------------------
\* A transfer of n of size cells; fewer than size is an error the code may
\* or may not notice, and uses up one of MaxErrors.
Transfers(n, size) ==
    /\ n \in 0 .. size
    /\ IF n = size THEN UNCHANGED errors
       ELSE errors < MaxErrors /\ errors' = errors + 1

\* write(): the first n cells of data land at cell base.
Overwrite(base, data, n) ==
    image' = [c \in 0 .. ImageSize - 1 |->
                 IF c >= base /\ c < base + n THEN data[c - base] ELSE image[c]]

\* Seeded fault: main() serves the options before the constructor has read.
StartUnloaded(p) ==
    /\ pc[p] = "idle"
    /\ runs < MaxRuns
    /\ runs' = runs + 1
    /\ \E c \in Commands :
          /\ cmd' = [cmd EXCEPT ![p] = c]
          /\ todo' = [todo EXCEPT ![p] = Requested(c)]
    /\ pc' = [pc EXCEPT ![p] = "run"]
    /\ UNCHANGED <<partition, mem, buf, errors, crashes, kills, backedUp>>

\* main(): the command line is accepted and the constructor begins.
Start(p) ==
    /\ pc[p] = "idle"
    /\ runs < MaxRuns
    /\ runs' = runs + 1
    /\ \E c \in Commands :
          /\ cmd' = [cmd EXCEPT ![p] = c]
          /\ todo' = [todo EXCEPT ![p] = Requested(c)]
    /\ pc' = [pc EXCEPT ![p] = "main"]
    /\ UNCHANGED <<partition, mem, buf, errors, crashes, kills, backedUp>>

\* BaseParameterUtilV1(): a device that is too short; or no device or no
\* open, upon which the constructor calls sync().
LoadFails(p) ==
    /\ pc[p] = "main"
    /\ errors < MaxErrors
    /\ errors' = errors + 1
    /\ \/ pc' = [pc EXCEPT ![p] = "run"]
       \/ pc' = [pc EXCEPT ![p] = "sync"]
    /\ UNCHANGED <<partition, cmd, todo, mem, buf, runs, crashes, kills, backedUp>>

\* BaseParameterUtilV1(): read of mBase_paramer.main at offset 0.
LoadMain(p) ==
    /\ pc[p] = "main"
    /\ \E n \in 0 .. DispSize :
          /\ Transfers(n, DispSize)
          /\ mem' = [mem EXCEPT ![p] =
                [c \in 0 .. MemSize - 1 |-> IF c < n THEN image[c] ELSE @[c]]]
    /\ pc' = [pc EXCEPT ![p] = "aux"]
    /\ UNCHANGED <<partition, cmd, todo, buf, runs, crashes, kills, backedUp>>

\* BaseParameterUtilV1(): read of mBase_paramer.aux at BASE_OFFSET.
LoadAux(p) ==
    /\ pc[p] = "aux"
    /\ \E n \in 0 .. DispSize :
          /\ Transfers(n, DispSize)
          /\ mem' = [mem EXCEPT ![p] =
                [c \in 0 .. MemSize - 1 |->
                    IF c >= DispSize /\ c < DispSize + n
                    THEN image[BaseOffset + (c - DispSize)] ELSE @[c]]]
    /\ pc' = [pc EXCEPT ![p] = "run"]
    /\ UNCHANGED <<partition, cmd, todo, buf, runs, crashes, kills, backedUp>>

-----------------------------------------------------------------------------
\* The cell of mBase_paramer that holds the settings of the chosen display.
Slot(p) == IF cmd[p].dpy = 0 THEN 0 ELSE DispSize

\* Seeded fault: the setter saves a copy and mBase_paramer keeps its old value.
SaveConfigForgets(p, settings) ==
    /\ UNCHANGED mem
    /\ \E n \in 0 .. MemSize :
          /\ Transfers(n, MemSize)
          /\ Overwrite(0, [mem[p] EXCEPT ![Slot(p)] = settings], n)
          /\ \/ pc' = [pc EXCEPT ![p] = "sync"]
             \/ n = 0 /\ UNCHANGED pc

\* Seeded fault: saveConfig() without its fsync().
SaveConfigUnsynced(p, settings) ==
    /\ mem' = [mem EXCEPT ![p][Slot(p)] = settings]
    /\ \E n \in 0 .. MemSize :
          /\ Transfers(n, MemSize)
          /\ Overwrite(0, mem'[p], n)
    /\ UNCHANGED pc

\* saveConfig(): the whole of mBase_paramer in one write at offset 0.  A
\* write that fails leaves without fsync; a failed open calls sync() first.
SaveConfig(p, settings) ==
    /\ mem' = [mem EXCEPT ![p][Slot(p)] = settings]
    /\ \E n \in 0 .. MemSize :
          /\ Transfers(n, MemSize)
          /\ Overwrite(0, mem'[p], n)
          /\ \/ pc' = [pc EXCEPT ![p] = "sync"]
             \/ n = 0 /\ UNCHANGED pc

Serve(p, o) ==
    /\ Turn(p, o)
    /\ todo' = [todo EXCEPT ![p] = @ \ {o}]
    /\ UNCHANGED <<disk, cmd, buf, runs, crashes, kills, backedUp>>

SetBcsh(p) ==
    /\ Serve(p, "bcsh")
    /\ \E v \in Scanned(cmd[p].bcsh) :
          SaveConfig(p, [mem[p][Slot(p)] EXCEPT !.bcsh = v])

SetOverscan(p) ==
    /\ Serve(p, "scan")
    /\ \E v \in Scanned(cmd[p].scan) :
          SaveConfig(p, [mem[p][Slot(p)] EXCEPT !.scan = v])

SetFramebufferInfo(p) ==
    /\ Serve(p, "fb")
    /\ \E v \in Scanned(cmd[p].fb) :
          SaveConfig(p, [mem[p][Slot(p)] EXCEPT !.hwc = v])

\* Seeded fault: the argument "Auto" is stored as it stands.
SetColorVerbatim(p) ==
    /\ Serve(p, "color")
    /\ \E stack \in SUBSET Flag :
          SaveConfig(p, [mem[p][Slot(p)] EXCEPT
              !.format = cmd[p].color, !.feature = stack])

\* "feature" is an uninitialised local of main(), into which -c Auto sets a bit.
SetColor(p) ==
    LET auto == cmd[p].color = "Auto" IN
    /\ Serve(p, "color")
    /\ \E stack \in SUBSET Flag :
          SaveConfig(p, [mem[p][Slot(p)] EXCEPT
              !.format = IF auto THEN HighSubsampling ELSE cmd[p].color,
              !.feature = IF auto THEN stack \cup {"COLOR_AUTO"} ELSE stack])

\* Seeded fault: the whole of screen_list[0] is cleared first.
SetResolutionClearing(p) ==
    LET auto == cmd[p].res = "auto" IN
    /\ Serve(p, "res")
    /\ \E v \in IF auto THEN {Zero} ELSE Scanned(cmd[p].res) :
          SaveConfig(p, [mem[p][Slot(p)] EXCEPT
              !.format = Zero,
              !.resolution = v,
              !.feature = IF auto THEN {"RESOLUTION_AUTO"} ELSE {}])

SetResolution(p) ==
    LET auto == cmd[p].res = "auto" IN
    /\ Serve(p, "res")
    /\ \E v \in IF auto THEN {Zero} ELSE Scanned(cmd[p].res) :
          SaveConfig(p, [mem[p][Slot(p)] EXCEPT
              !.resolution = v,
              !.feature = IF auto THEN {"RESOLUTION_AUTO"} ELSE {}])

-----------------------------------------------------------------------------
\* Seeded fault: the two functions read each other's half.
SourceSwapped(o) == IF o = "reset" THEN 0 ELSE HalfSize

\* reset() reads the backup half, backup() the user half.
Source(o) == IF o = "reset" THEN HalfSize ELSE 0
Target(o) == IF o = "reset" THEN 0 ELSE HalfSize

\* The read.  What a short read does not fill is fresh memory, or what an
\* earlier reset() of the same run left in it.
ReadHalf(p, o) ==
    /\ Turn(p, o)
    /\ \E n \in 0 .. HalfSize, rest \in {ZeroHalf, buf[p]} :
          /\ Transfers(n, HalfSize)
          /\ buf' = [buf EXCEPT ![p] =
                [c \in 0 .. HalfSize - 1 |->
                    IF c < n THEN image[Source(o) + c] ELSE rest[c]]]
    /\ pc' = [pc EXCEPT ![p] = "copy"]
    /\ UNCHANGED <<partition, cmd, todo, mem, runs, crashes, kills, backedUp>>

\* open() or read() fails: the option is over, a failed open having synced.
CopyFails(p, o) ==
    /\ Turn(p, o)
    /\ errors < MaxErrors
    /\ errors' = errors + 1
    /\ todo' = [todo EXCEPT ![p] = @ \ {o}]
    /\ \/ UNCHANGED pc
       \/ pc' = [pc EXCEPT ![p] = "sync"]
    /\ UNCHANGED <<partition, cmd, mem, buf, runs, crashes, kills, backedUp>>

\* Seeded fault: backup()'s lseek copied into reset().
WriteHalfAtBackup(p, o) ==
    /\ pc[p] = "copy"
    /\ o \in todo[p] /\ \A q \in todo[p] : Rank[o] <= Rank[q]
    /\ \E n \in 0 .. HalfSize :
          /\ Transfers(n, HalfSize)
          /\ Overwrite(HalfSize, buf[p], n)
    /\ pc' = [pc EXCEPT ![p] = "sync"]
    /\ todo' = [todo EXCEPT ![p] = @ \ {o}]
    /\ backedUp' = (backedUp \/ o = "backup")
    /\ UNCHANGED <<disk, cmd, mem, buf, runs, crashes, kills>>

\* The write, whose result nobody looks at.
WriteHalf(p, o) ==
    /\ pc[p] = "copy"
    /\ o \in todo[p] /\ \A q \in todo[p] : Rank[o] <= Rank[q]
    /\ \E n \in 0 .. HalfSize :
          /\ Transfers(n, HalfSize)
          /\ Overwrite(Target(o), buf[p], n)
    /\ pc' = [pc EXCEPT ![p] = "sync"]
    /\ todo' = [todo EXCEPT ![p] = @ \ {o}]
    /\ backedUp' = (backedUp \/ o = "backup")
    /\ UNCHANGED <<disk, cmd, mem, buf, runs, crashes, kills>>

Reset(p) == ReadHalf(p, "reset") \/ CopyFails(p, "reset") \/ WriteHalf(p, "reset")
Backup(p) == ReadHalf(p, "backup") \/ CopyFails(p, "backup") \/ WriteHalf(p, "backup")

-----------------------------------------------------------------------------
\* fsync() of the whole device; its result is ignored too.
Fsync(p) ==
    /\ pc[p] = "sync"
    /\ \/ disk' = image /\ UNCHANGED errors
       \/ errors < MaxErrors /\ errors' = errors + 1 /\ UNCHANGED disk
    /\ pc' = [pc EXCEPT ![p] = "run"]
    /\ UNCHANGED <<image, cmd, todo, mem, buf, runs, crashes, kills, backedUp>>

\* The memory of a run goes with it.
Forget(P) ==
    /\ pc' = [p \in Procs |-> IF p \in P THEN "idle" ELSE pc[p]]
    /\ cmd' = [p \in Procs |-> IF p \in P THEN NoCommand ELSE cmd[p]]
    /\ todo' = [p \in Procs |-> IF p \in P THEN {} ELSE todo[p]]
    /\ mem' = [p \in Procs |-> IF p \in P THEN ZeroMem ELSE mem[p]]
    /\ buf' = [p \in Procs |-> IF p \in P THEN ZeroHalf ELSE buf[p]]

\* main() returns 0, whatever failed.
Exit(p) ==
    /\ pc[p] = "run"
    /\ todo[p] = {}
    /\ Forget({p})
    /\ UNCHANGED <<partition, counters, backedUp>>

Kill(p) ==
    /\ pc[p] # "idle"
    /\ kills < MaxKills
    /\ kills' = kills + 1
    /\ Forget({p})
    /\ UNCHANGED <<partition, runs, errors, crashes, backedUp>>

\* Power loss: of the cells not yet synced, any may have reached the disk.
Crash ==
    /\ crashes < MaxCrashes
    /\ crashes' = crashes + 1
    /\ \E reached \in SUBSET {c \in DOMAIN image : image[c] # disk[c]} :
          disk' = [c \in 0 .. ImageSize - 1 |->
                      IF c \in reached THEN image[c] ELSE disk[c]]
    /\ image' = disk'
    /\ Forget(Procs)
    /\ UNCHANGED <<runs, errors, kills, backedUp>>

Next ==
    \/ \E p \in Procs :
          \/ Start(p) \/ LoadFails(p) \/ LoadMain(p) \/ LoadAux(p)
          \/ SetBcsh(p) \/ SetOverscan(p) \/ SetFramebufferInfo(p)
          \/ SetColor(p) \/ SetResolution(p)
          \/ Reset(p) \/ Backup(p)
          \/ Fsync(p) \/ Exit(p) \/ Kill(p)
    \/ Crash

Spec == Init /\ [][Next]_vars
-----------------------------------------------------------------------------
(* Properties.                                                             *)

\* Run p has served every option and is about to return from main().
Finished(p) == pc[p] = "run" /\ todo[p] = {}

\* What the next constructor will read as the settings of display d.
Loaded(d) == image[IF d = 0 THEN 0 ELSE BaseOffset]

\* The settings s are those that command line c asked for.
Obeys(s, c) ==
    /\ c.bcsh \in Value => s.bcsh = c.bcsh
    /\ c.scan \in Value => s.scan = c.scan
    /\ c.fb \in Value => s.hwc = c.fb
    /\ c.color \in Value => s.format = c.color
    /\ c.color = "Auto" => s.format = HighSubsampling
    /\ c.res \in Value => s.resolution = c.res
    /\ c.res = "auto" => /\ s.resolution = Zero
                         /\ "RESOLUTION_AUTO" \in s.feature

\* main.cpp: backup() alone writes the second half of the partition.  Until
\* one has, the factory backup is there, in the cache and on the disk,
\* whatever runs overlap, fail, are killed or are cut short by a power loss.
BackupPristine ==
    ~backedUp =>
        \A c \in 0 .. HalfSize - 1 :
            /\ image[HalfSize + c] = Factory[c]
            /\ disk[HalfSize + c] = Factory[c]

\* Nothing locks the partition, and runs that overlap do lose one another's
\* settings.  But mBase_paramer accumulates the options of a run, so when
\* overlapping runs are all done, all that one of them asked for is there.
LastWriterWins ==
    (/\ errors = 0
     /\ \A p \in Procs : /\ Finished(p)
                         /\ cmd[p].dpy = 0
                         /\ "reset" \notin Requested(cmd[p]))
    => \E p \in Procs : Obeys(Loaded(0), cmd[p])

\* The option that sets a field, and what it stores there for its argument.
OptionOf(f) ==
    CASE f = "hwc" -> "fb" [] f = "format" -> "color" [] f = "resolution" -> "res"
      [] OTHER -> f
Stored(arg) ==
    CASE arg = "Auto" -> {HighSubsampling} [] arg = "auto" -> {Zero}
      [] OTHER -> Scanned(arg)

\* What display 0 may be given for field f.
Given(f) ==
    UNION {Stored(c[OptionOf(f)]) :
              c \in {d \in Commands : d.dpy = 0 /\ d[OptionOf(f)] # Absent}}

\* A run that could not load mBase_paramer saves zeros over everything.  As
\* long as no call has failed, each setting of display 0, in either half, is
\* its preset or one that a run was given for display 0: however runs overlap,
\* are killed or cut short by a power loss, none of them is zeroed or taken
\* from display 1 or from a table.  Of display 1 this is not so: see ReadBack.
GivenOrPreset ==
    errors = 0 =>
        \A c \in {0, HalfSize}, f \in {"bcsh", "scan", "hwc", "format", "resolution"} :
            image[c][f] \in {Factory[0][f]} \cup Given(f)

\* saveConfig(), reset(), backup(): every option has reached the disk when
\* main() returns, so a power loss after that undoes nothing.
DurableWhenDone ==
    \A p \in Procs :
        Finished(p) /\ Requested(cmd[p]) # {} /\ errors = 0 => disk = image

\* reset(): when it is done the user half on disk is the backup half, cell for
\* cell, whatever earlier power losses and writes had made of it.
ResetRecovers ==
    \A p \in Procs :
        (/\ "reset" \in Requested(cmd[p]) \ todo[p]
         /\ "res" \in todo[p] \/ "res" \notin Requested(cmd[p])
         /\ pc[p] = "run"
         /\ errors = 0)
        => \A c \in 0 .. HalfSize - 1 : disk[c] = disk[HalfSize + c]

\* The settings of display 0 that the disk holds behave as ParameterStore
\* promises: options are all-or-nothing, across power losses too.
MainStore ==
    INSTANCE ParameterStore WITH
        Settings <- Cell,
        Field <- {"resolution", "format", "feature", "scan", "hwc", "bcsh"},
        Groups <- {{"bcsh"}, {"scan"}, {"hwc"}, {"format", "feature"},
                   {"resolution", "feature"}},
        user <- disk[0],
        backup <- disk[HalfSize]

ImplementsStore == MainStore!StoreSpec

\* main.cpp:50, "-d Choose Display to Setting (e: 0 or 1)": the settings given
\* for a display are read back as the settings of that display.
ReadBack ==
    \A p \in Procs :
        (/\ Finished(p) /\ errors = 0
         /\ "reset" \notin Requested(cmd[p]))
        => Obeys(Loaded(cmd[p].dpy), cmd[p])

\* main.cpp:44, "-R Reset Baseparameter": after a run with -R the settings it
\* did not set again are those of the backup.
ResetKept ==
    \A p \in Procs :
        (/\ Finished(p) /\ errors = 0
         /\ "reset" \in Requested(cmd[p]))
        => \A f \in {"format", "scan", "hwc", "bcsh"} :
               image[0][f] = image[HalfSize][f]
=============================================================================
