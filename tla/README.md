# Verification of the Rockchip device tree's own programs

This directory models, checks and proves properties of the programs of the Rockchip
Android SDK device tree (`device/rockchip/common`): the tool that keeps the display
settings of a board, the script that repacks sparse images, the scripts that lay the
flash out, those that build images and update packages, the audio policy of the TV
builds, and the init triggers that work together. Most of the 385 files of the repository are configuration for other
programs (product makefiles, overlays, sepolicy, init scripts, prebuilt binaries);
the parts with state and control flow of their own are listed below.

## 1. Inventory

### 1.1 saveBaseParameter (`baseparameter/saveBaseParameter`)

A command line tool that changes the *baseparameter* partition, 1 MiB in two halves: a
user half at 0 and a backup half at `BACKUP_OFFSET`. Each half holds the settings of two
displays (resolution, colour, overscan, framebuffer, BCSH).

| part | state | operations |
|---|---|---|
| `main.cpp` `main()` | the options given | parse, then serve `-b -o -f -c -R -B -u` in this fixed order |
| `main.cpp` `reset()`, `backup()` | a `malloc`ed half | read one half, write it over the other, `fsync` |
| `baseparameter_utilv1.cpp` | `mBase_paramer`, `mDpy` | the constructor loads, each setter changes fields of the chosen display and calls `saveConfig()`, which writes the whole struct at 0 and syncs |
| `baseparameter_utilv2.cpp` | connector type and id | each setter is one or more calls of the `baseparameter_api` library (not in the repository), which keeps a record per connector |

Hard: several runs may overlap and nothing locks the partition; each system call can fail
or be short, and most results are ignored; power may be lost between a write and its
`fsync`; the loader and `saveConfig()` disagree about where display 1 is; `reset()`
changes the file behind the copy in memory. Correct means: the backup changes only by
`-B`; a reset brings the backup back; an option that was served survives a power loss;
nothing is wiped; settings are read back as they were given. The V2 layout reads and
writes one record per call instead of one copy of everything: there it is the calls of
overlapping runs that interleave, and a call that fails in the middle of an option.

### 1.2 Sparse image optimizer (`sparse_tool.py`)

Rewrites an Android sparse image, merging chunks smaller than `align_unit` into one raw
chunk. State: the two files' positions, `buffer`, `offset`, `remain_count`, the header
being built (`chunk_struct`), the counts. Hard: three branches by size times three chunk
types times empty or not, state left over between merges, a seek back that re-reads a
chunk, truncated input. Correct means: the output decodes to what the input decodes to,
headers are found where they are expected, and the loop ends.

### 1.3 Partition table (`parameter_generator.py`, `RebuildParameter.mk`, `get_partition_size.py`)

`RebuildParameter.mk` composes a `--partition-list` from board flags, the generator lays
the partitions out in blocks, adding a `_b` twin to `_a` names and `userdata` at the end,
and later builds read sizes back. Correct means: no overlap, no gap, both slots, sizes
read back as asked for.

### 1.4 OTA tools (`releasetools.py`)

Hooks of the platform's package builder: what the device specific part of a full or an
incremental package checks and installs. State: the archives of one or two releases, the
script built so far; outside it, the device the script changes. Hard: images that appear,
vanish and return over a chain of incremental packages, and a script that starts again after
a power loss on a half changed device. Correct means: a device that says it runs a release
has that release's images, and a package that has begun can always be run again.

### 1.5 Image build (`build/rockchip/build.sh`, `mkimage.sh`, `mkimage_ab.sh`)

A script of optional steps over files that outlive it: u-boot and kernel images, `$OUT`,
`IMAGE_PATH`, the directory where `update.img` is packed. Hard: every combination of options,
after runs that failed or were interrupted anywhere, with commands whose failure is not
looked at. Correct means: a build that returns 0 leaves complete and current images.

### 1.6 ATV audio policy (`audio_policy/ATVAudioPolicyManager.*`)

Extends the platform's `AudioPolicyManager` by a device that bitstreams go to. State:
`mBitstreamDevice`; the list of available devices is the base class's. Connection requests
come from the audio service and, with a reserved device name, from the audio settings; an
output may be opened between any two. Hard: a request is tried twice when the base class
fails, `mBitstreamDevice` is replaced before it is known to be there, and nothing resets it.
Correct means: the answer is what the device list shows, a granted bitstream device stays
the one bitstreams go to, and where they go follows from the requests and the answers.

### 1.7 init triggers and `flash_img` (`rootdir/init.rk30board.rc`, `flash_img/flash_img.sh`)

`flash_img` copies an image to a block device for a client that may not: two paths and a
request in properties, a trigger that starts the service, a script that reads the paths and
reports in a property, a trigger that passes the report on. Beside it, the trigger that sets
up zram once per boot and the five that start or stop adbd: two for internet adb, two for
`persist.sys.adb_enable`, one for the serial number. Hard: every one of these is a step of
another process with init's event queue between them. Correct means: an answer belongs to the
request, every request is answered, swap is set up once, adbd ends up stopped or on the last
port, as it was last told.

### 1.8 Others

| component | state and operations | hard part |
|---|---|---|
| preinstall generator (`auto_generator.py`) | files per package; two variables, reset after each | none carried over |
| fstab and dtbo generators | none beyond one run | text substitution |
| recovery UI (`recovery/recovery_ui.cpp`) | a key counter | two tables that must agree |
| SDK checker (`check_sdk.sh`) | shell variables | variables carried from one line to the next |

## 2. The modules

| module | models | kind |
|---|---|---|
| `ParameterStore` | what 1.1 promises for one display | abstract specification |
| `BaseParameterV1` | `main.cpp` with `baseparameter_utilv1.cpp` | detailed specification |
| `BaseParameterV1Proofs` | types, the backup; overlapping runs; one run at a time | proofs |
| `SharedStore` | what 1.1 promises for one display when runs overlap | abstract specification |
| `BaseParameterV2` | `main.cpp` with `baseparameter_utilv2.cpp` | detailed specification |
| `BaseParameterV2Proofs` | | proofs |
| `SparseTool` | `sparse_tool.py` | specification |
| `SparseToolProofs` | | proofs |
| `PartitionTable` | the three files of 1.3 | specification |
| `PartitionTableProofs` | | proofs |
| `OtaInstall` | `releasetools.py` with a device that runs its packages | specification |
| `OtaInstallProofs` | | proofs |
| `ImageBuild` | the scripts of 1.5 | specification |
| `ImageBuildProofs` | | proofs |
| `AudioPolicy` | 1.6 | specification |
| `AudioPolicyProofs` | | proofs |
| `InitTriggers` | 1.7, with init, adbd and a client around it | specification |
| `InitTriggersProofs` | | proofs |
| `MCBaseParameterV1`, `MCBaseParameterV2`, `MCAudioPolicy`, `MCInitTriggers`, `MCSparseTool`, `MCPartitionTable`, `MCOtaInstall`, `MCImageBuild` | values of the constants | TLC instances |

The definitions called "Seeded fault" are variants of a definition with a plausible bug.
They are used by no specification; replacing the definition by the variant must break the
property that guards against it, which shows that the property can fail.

### 2.1 BaseParameterV1

* `image` is the partition as `read()` sees it, `disk` what a power loss leaves. A write
  changes `image`, `Fsync` copies it to `disk`, and `Crash` keeps of the cells not yet
  synced any subset; write-back before a power loss is no action of its own, because only
  a power loss shows `disk`. One `read()` or `write()` is one step. A cell is written atomically; all fields the tool sets lie in the
  first 500 bytes of a display, within one sector, and the order of sectors is free.
* Each process in `Procs` is a run: `pc` is where it is, `todo` the options `main()` has
  still to serve, `mem` its `mBase_paramer`, `buf` the `malloc`ed half. `Turn` gives the
  order in which `main()` looks at its options (`Rank`).
* One action per system call that matters: `LoadMain` and `LoadAux` are the constructor's
  two reads, `LoadFails` all its ways not to read; a setter with its `saveConfig()` write
  is one action (`SetBcsh` ... `SetResolution`), as the changes before the write touch
  only the run's own memory; `ReadHalf` and `WriteHalf` are the two calls of `reset()` and
  `backup()`; `Fsync` is the sync that follows; `Exit` the return of `main()`.
* Every transfer may be short or fail (`Transfers`), at the cost of one of `MaxErrors`. A
  setter whose write fails leaves without syncing; one whose `open` fails calls `sync()`.
* Uninitialised data is a choice over what it may hold: the numbers a short `sscanf`
  leaves (`Scanned`), the `feature` of `-c`, the part of `buf` that a short read did not
  fill (zero, or what an earlier `malloc` of the run held).
* A cell is 1032 bytes, the distance between where display 1 is saved (7160) and where it
  is loaded (8192). The real sizes are then `DispSize` 7, `BaseOffset` 8, `HalfSize` 508;
  TLC uses 2, 3 and 5, which keep the distance of one cell and a cell of lookup table per
  display. The proofs hold for every size that satisfies `LayoutAssumption`.
* A colour name `main()` does not know counts as `Auto` (`main.cpp:293`); its depth is
  part of the value `format`.
* Left out: `-p`, `-t` (they change nothing here), `-h` and refused options (nothing
  happens), the device search, the second copy the constructor loads for `-p`.
* The mapping to `ParameterStore` is `user <- disk[0]`, `backup <- disk[HalfSize]`.

### 2.2 SparseTool

Sizes are counted in blocks. A block is named by the chunk it comes from and its place in
it, so a block that is lost, repeated, moved or left over shows. `consumed` and `decoded`
are history variables: the blocks that the chunks taken from the input stand for, and
those a reader of the output gets. Each branch of the loop is an action: `CopyChunk`
(a large chunk while nothing is buffered), `FlushBefore` (does not fit; the header is read
again), `Merge`, `MergeAndFlush`, `FillRaises`, `UnknownChunk`, `HeaderMissing`, and
`Finish` after the loop. The code's `fill_value` is the tuple that `struct.unpack`
returns, so that `fill_value % 256` raises for every fill chunk that would be merged: the
model does the same (`FillRaises`). Left out: the magic check, messages, `total_sz`.

### 2.3 PartitionTable

`AddPartition`, `AddSlots` and `AddUserdata` are an iteration of the loop and what follows
it; `EntryRaises` is an entry on which `calculate_blocks` raises, or a second `userdata`;
`NoList` is the usage exit. A size is a number and a unit, a name is what the generator
tells apart: text, suffix, and whether `_a` occurs earlier. An entry without a colon raises
like one without a size. `partition_list(board)` is
`RebuildParameter.mk`, `get_partition_size` the reader applied to the table. The tool is a
Python 2 program (`Android.bp`), so `/` is integer division. `userdata`'s size `-` is `Grow`.

### 2.4 OtaInstall

One action per hook (`AddBootloaderAssertion`, the two `GetBlockDifferences`, the two
`InstallEnd`s), each of which appends its commands to `script`. The device is external: it
executes the script command by command, `Fails` are the checks that abort it, `Regroup`
stands for the partition metadata of a full package, which removes what the target does not
have. `PowerLoss` leaves the command under way not done, done, or half done (`Torn`), and
the script starts again; block updates resume, and of the copies inside a half written
`uboot` an intact one boots. `None` is a file the archive lacks, `EmptyImage()` and "no
source". Assumed: images of different kinds differ (`KindAssumption`), and a release accepts
the bootloader it ships (`BootloaderAssumption`). `Compared` is line 308's `vbmeta_source`.
`InstallRKLoader` adds a file to the package that nothing writes: no command.

### 2.5 ImageBuild

A file is the sequence of the source versions it was made from. Each step of `build.sh` is an
action; `Failure` is a command that fails or a developer's Ctrl-C, and leaves any part of the
step's files missing. After the commands nobody checks the run goes on: the `cp` of the kernel
(`:165`), the repacking of `boot.img` (`:258`), the `cp` of the OTA package (`:239`), the `cp`
that gathers the images for `update.img` (`:275`, `Gather`: for each image the old file may
stay, be gone, or be replaced by a part of the new one, `Torn`), and the `mv` and `rm` after
`mkupdate.sh` (`:297`). `unchecked` records such a failure, `miscopied` which of the gathered
images and `update.img` come from a `cp` that failed, `lost` that `cd u-boot
&& ... && cd -` failed on its way, so that the rest runs in `u-boot`. `make`, `mkbootimg` and
`mkupdate.sh` are external: they make their output from their inputs or fail. `super` stands
for all Android images, `uboot` for the trust and loader files too, `resource.img` is part of
the kernel tree's output and of `boot`. Sources are edited between runs, with `Start`.
`-B`, which chooses `mkimage_ab.sh`, changes none of this; `-p` is left out.

### 2.6 BaseParameterV2

* `base` and `bkp` map each connector to its record in the two halves. A run has `conn`, the
  connector of `-C` (0,0 without it, whatever a short argument leaves), `todo`, its
  `struct screen_info` and the half that `reset()` or `backup()` has read.
* One action per call of the library: the four of `setBcsh()` are ranks 1 to 4, and the
  failure of one ends the option; `setColor()` and `setResolution()` are `GetScreenInfo`, of
  which a failure leaves whatever the stack held, and `SetScreenInfo`. The library and the
  layout of its records are external: a call stores or reads a record at once, or fails and
  changes nothing. A read of `reset()` or `backup()` may be short without anybody noticing
  (`main.cpp:98`, `:129`): the records it did not reach are `Unfilled`, and the write puts whatever
  `malloc` gave (`Memory`, `Held`) over those of the other half. A failing write copies only some of the
  records. Durability, where the code is that of 2.1, is treated there.
* `before` and `disturbed` are history variables, used by the properties only: what the
  partition held when a run began, and whether another run has written to its connector since.
* Every record implements `SharedStore`: `user <- base[k]`, `backup <- bkp[k]`, and
  `restoring`, `saving` are what the copies under way have read of it (`InFlight`), `Unread` for one
  whose read has come short of it: such a copy may install anything, and that is all the abstract
  specification allows beyond what it would promise of correct copies.

### 2.7 AudioPolicy

The service calls one method at a time, but the two calls of the base class that a request may
make are steps of their own: `SetDeviceConnectionState` takes the request, `SetBitStreamDevice`
or `NoBitStreamDevice` is the first attempt, `ConnectDevice` the second. The base class is
external: `BaseSucceeds` changes the list of devices; it may fail at any time and does fail for
an output that is connected already. A device is a type and an address with its format;
`Target` is the one `getOutputForAttr()` looks for and `SelectedDevice` what it selects; as it changes
nothing of the manager, it is an operator and no action. `Preferred` stands for the client's own
choice. Three history variables say what the caller knows: `granted` is the bitstream device the
settings were last told they have, `asked` the one they asked for last, granted or refused, and
`told` the devices that are connected by the answers given so far.

### 2.8 InitTriggers

The nine definitions called `...Rule` are the part of the rc file this models, one record per `on`
section. Init is external:
`events` is its queue, to which every `setprop` adds a change (of the same value too), and
`commands` what is left of the actions the last event triggered; conditions of a trigger other
than the event are looked at when the event is taken. `start` does nothing to a service that
runs, `restart` starts one that is stopped, and of a `restart` and a `stop` the later counts.
Only the properties that the nine sections and the script use are there. The
script's lines are one action each; `dd` may fail and changes nothing of the control. The
client is what the triggers expect: it sets both paths, asks with 2, waits for 1, and makes no
other request meanwhile. The framework completes the boot once; users and services change the
settings `persist.sys.zram_enabled`, `persist.internet_adb_enable`, `persist.sys.adb_enable`
and `vendor.serialno` at any time, to the value they have already too. `halted` is a history variable: the last
change that is about adbd was the one that disables it. Nobody else starts or stops adbd in the model; on
a device the platform does, with the USB configuration.

## 3. What is checked

| run | instance | shows |
|---|---|---|
| `base_sequential` | 1 process, 3 runs, a power loss, no errors | `DurableWhenDone`, `ResetRecovers`, and refinement of `ParameterStore` |
| `base_concurrent` | 2 processes, 2 runs, one failed or short call, one kill, one power loss | `TypeOK`, `BackupPristine`, `LastWriterWins`, `GivenOrPreset` |
| `base_second_display` | one run with `-d 1` | **violated** `ReadBack`, see 5 |
| `base_reset_undone` | a setting, then `-R -u` | **violated** `ResetKept`, see 5 |
| `sparse` | all images of up to 3 chunks, 4 of raw and don't-care; unit of 3 blocks | faithful output, accounting of the buffer, headers where they belong, no more chunks than before, completeness, termination |
| `partition_table` | all lists of up to 3 entries over 5 names and 6 sizes; 64 boards | layout, sizes read back, both slots on every A/B board |
| `ota` | five releases, any chain of updates, two power losses in each | `RunsWhatItSays`, `RefusedUntouched` |
| `ota_unchanged` | the same | **violated** `SkipsUnchanged`, see 5 |
| `build` | eight option sets, two versions of each tree, one failure or interruption, histories of any length | `FullBuildComplete`, `PartsFresh`, `UpdateOfImagesBeside` |
| `base_v2` | 2 processes, 2 runs, 2 connectors, one failing call | `BcshPrefix`, `OthersKept`, `NothingInvented`, `ResetStays`, `NoneUndone`, and refinement of `SharedStore` |
| `audio` | two bitstream devices, an input, two addresses; histories of any length | `AnswerTrue`, `GrantedRoutable`, `RoutedAsTold` |
| `init_triggers` | 2 requests and a change of a setting, or 4 changes of any of the four settings; zram enabled or not | `AnsweredAsAsked`, `ZramOncePerBoot`; live: `Answered`, `AdbSettles` |

Bounds. The counters `MaxRuns`, `MaxErrors`, `MaxCrashes` and `MaxKills` are bounds of the
model only. Two processes are enough for any interleaving of two loads and two saves, the
pattern of every lost update here; a third adds another writer of the same kind. The
command lines include every option, both displays, a malformed argument and the pairs
whose order in `main()` matters. In `sparse`, three chunks reach every pair of branches
with a buffered chunk before them, and sizes go from empty to beyond the unit. In
`partition_table`, a slot, its twin given by hand, `userdata` in the list, sizes that raise
and sizes that do not fill a block all occur in all orders.

In `ota` the five archives make every kind of image appear, vanish, return and change, delete
and add a dynamic partition again, replace the bootloader by one that not all accept, and lack
`android-info.txt`; two power losses reach a torn write during a retry. In `build` one failure
is enough for what a failure leaves to the runs after it, which go on for ever.

In `base_v2` the commands make both runs set the same groups of one connector, meet on one whose
id was not given, reset and back up; the properties distinguish connectors, so two are enough.
In `audio` no bound is needed: the state space is finite. In `init_triggers` two requests let
one meet what the other left behind, while a setting changes; four changes let internet adb be switched
on and off around a stop and another start of adbd, each in any phase of the triggers of those
before. `Bounds` holds these two pairs, because requests and settings meet in init's queue only; two
requests with two changes pass too, in three minutes. The queue has no bound of its own.

Scope of the properties. `UpdateOfImagesBeside` speaks of every `update.img` but one whose
images were gathered by a `cp` that failed, and promises one only to a run without an unchecked
failure: the script does no better (see 6). `PartsFresh` speaks of runs without an unchecked failure, and not of
`-o` without `-A`. `LastWriterWins` speaks of runs that overlap without errors and
without `-R`: runs do lose one another's settings, but never so that what *no* run asked
for remains. `GivenOrPreset` assumes no failed call, because a run that could not load
does save zeros (a hazard in `PROJECT.json`), and is about display 0, because the settings of display 1 are
overwritten without any failure (finding 1). The refinement run has no kill and no `-R`
together with `-u`, which `base_reset_undone` treats. `BcshPrefix`, `OthersKept` and `ResetStays`
speak of a run that no other has disturbed; what overlapping runs may do to one another is
`ImplementsStore` and `NoneUndone`. `NoneUndone` is about runs that are the only ones there have
been: without that it is false as soon as there are more runs than processes, because a run that
is over can leave its color to one that has read it and writes it back after the others have
set theirs. `Answered` allows for the one way a request is lost (see 6).

Fairness. `Terminates` of `SparseTool` is checked under weak fairness of its next-state relation:
it is one sequential process that nothing blocks, so it takes steps until it returns. In
`InitTriggers` weak fairness is given to init (one thread that works its queue off), to `adbd`
when it starts, to the script (a process that only `dd` could hold up, and `dd` of a file ends)
and to a client in the middle of a request; nobody has to ask, to complete the boot or to
change a setting. Each of these actions stays enabled until it is taken, so strong fairness is
not needed.

`CHECK_DEADLOCK FALSE` is given where the program ends: `SparseTool`, `PartitionTable`, the tool
when its `MaxRuns` runs are over, and `InitTriggers`, which is quiet once requests and settings are used up.

## 4. What is proved

With TLAPS, for all values of the constants that satisfy the named assumptions:

* `TypeCorrect`: `BaseParameterV1!Spec => []TypeOK`, for any number of processes, layout,
  commands and bounds. The type invariant is inductive once it says that a run has only
  options to serve that its command line asks for (otherwise the argument of a setter might
  be `Absent`). One lemma per operation (`OverwriteType`, `SaveConfigType`, `SettersType`,
  `LoadType`, `CopyType`, `CrashType`, `EndType`).
* `BackupSafe`: `Spec => []BackupPristine`. With `TypeOK` it is inductive: a setter writes
  `MemSize` cells at 0, which `LayoutAssumption` keeps below `HalfSize` (`WriteBelowBackup`),
  `reset()` writes the first half only, `Fsync` and `Crash` mix two images that agree on the
  second half, and the first write of `backup()` ends the claim.
* `SettingsAreGiven`: `Spec => []GivenOrPreset`, about the settings of display 0 only (those of
  display 1 are what finding 1 is about). The strengthening (`KnownOnly`) says of every place such
  a setting may be, in both halves of the partition as read and on the disk and in the memory and
  the buffer of each run, that while no call has failed it is the factory's or one a command line
  gives.
* `SomeRunWins`: `Spec => []LastWriterWins`. `Accumulates` says that a run's memory has what it
  has been asked for so far, `OneOfThem` that once runs have saved, what is stored is the memory
  of one that has; both have to be kept through the loads of others, kills and power losses.
* `SingleRunsAreDurable`, `SingleResetRecovers`: when one run is under way at a time
  (`Procs = {p}`), after any history of kills and power losses. `SingleInv` says that between two
  options the disk is the partition as read, that a buffer is what its half holds, and that
  from a reset to the `-u` that may follow it the halves are the same.
* `SingleRunsImplementStore`: the refinement of `ParameterStore`, for one run at a time, any number of
  runs and power losses. `StoreInv` says that between two options the disk is the partition as
  read, that during one the two differ by one step of `ParameterStore` at most (`PendingAssign`,
  `PendingRestore`, `PendingSave`), and that until a reset a run has in memory what the partition
  has. Each pending step is about one of the two cells, so that `Fsync` and `Crash`
  both make it or leave it (`PendingArrives`). `Calm` names what is assumed, as in the run: no call fails,
  no run is killed, `-R` is not given with `-u`. Without the first two, two
  options can reach the disk at once; the third brings back more than `-u` sets (finding 2).
* `TypeCorrect`, `NothingIsInvented` and `RecordsImplementStore` of `BaseParameterV2`, for any
  number of runs, connectors, commands and failures. That `NothingInvented` holds needs the
  values in flight (`ScreensPure`, `CopiesPure`) in the invariant. The refinement is one lemma per
  operation: it maps to a step of `SharedStore` of each connector or leaves it alone. A copy whose
  read came short is a step that may install anything: the code does not notice it and
  writes what its buffer held before, and `SharedStore` promises no more (`Unread`, `Installs`).
* `BcshIsPrefix`, `OthersAreKept`, `ResetsStay`: `BcshPrefix`, `OthersKept` and `ResetStays`, for any
  number of runs. `OtherRun` shows that a run that is not `disturbed` does not see a step of
  another one (`Same`); with that the invariant `AloneInv` is about one run: how far `setBcsh()`
  has come, that a struct it has read is still what the record holds, and that after the
  reset only `backup()` and `setResolution()` are left.
* `TypeCorrect`, `AnswersAreTrue`, `GrantedStaysRoutable`, `RoutedAsAnswered` of `AudioPolicy`, for any
  device types and addresses: together inductive once `GrantInv`, `DeviceSet`, `AskedInv` and
  `ToldInv` say what holds in the middle of a request, between the two calls of the base class:
  which device the field names by then, and that what callers have been told is what is there.
* `TableTypeCorrect`, `TableNoOverlap`, `TableNoGap`: for every list, every board and
  every start offset. The two properties do not mention `cur_part_start`; the invariant
  `IInv` adds that until `userdata` is there the table *tiles* the blocks from the start
  offset to `cur_part_start` (`Tiles`), `Extend` shows that one more entry keeps that, and
  `ListType` that a board's list is a list.
* `TableReadsBack`: `RoundTrip`, for every list and board. `AllServed` says that both rows of every
  entry taken so far are in the table with the blocks asked for; a name that is there once is then
  found with them, which `ReadsTheRow` and `BlocksRoundDown` turn into bytes.
* `BoardTableSound`: `BoardTable`, for every board whose special partitions, which the makefile copies as
  they are given, have bases of their own and sizes that are numbers (`SoundBoard`). `BoardList` follows
  the concatenations of `RebuildParameter.mk` and keeps the set of bases used so far (`Over`);
  `NamesInv` says that each row of the table comes from an entry already taken, so that the next
  base is new, and no entry raises.
* `FullBuild`: `build.sh -U -K -A` that returns 0 has filled `IMAGE_PATH` with current images,
  for any option sets, versions and number of failures. The invariant `IInv` says what such a
  run has achieved at each step, and that in `u-boot` (`lost`) it gets no further than
  `mkimage.sh`; nothing is assumed of the files when it starts.
* `UpdateBeside`: `update.img` agrees with the images beside it unless a `cp` that gathered them
  failed unnoticed (`miscopied`), and a `-u` run that returns 0 with no such failure has made one.
  Inductive once it also says what `rockdev/Image` holds between packing and `mv`: `mkimage.sh` removes
  `update.img` with the images, and a `cp -f` that succeeds prefers `IMAGE_PATH` to left-over files.
* `PartsAreFresh`: `PartsFresh` for any option sets; its invariant (`Fresh`)
  follows each part through the steps of a run of which no failure went unchecked.
* `ReleaseIsWhole`, `BegunIsNotRefused`: `RunsWhatItSays` and `RefusedUntouched` for any releases,
  archives, chains of updates and power losses. The invariant has three parts. The script holds
  only commands that belong into the package (`ScriptSound`), the bootloader check first, and
  lacks none (`ScriptWhole`). No command undoes what another achieves (`DoneStays`), so that
  those before the next one are done however often the script has started again. And what the
  package does not touch is still the source's (`UnderWay`). `KindAssumption` is needed for
  `vendor_boot` only, which is compared with the wrong image; `BootloaderAssumption` for a
  package that has replaced `uboot` and is run again.

* `NoneIsUndone`: `NoneUndone` of `BaseParameterV2`, for any number of runs. It says nothing before
  the last run has ended; `OnceInv` says what holds until then, while no process has run twice:
  that a run has its color asked for by some run in the record it has stored it in, or is about to
  write from, and that a resolution none has asked for is only there while a run of the
  connector has still to set its own. That it counts processes by `Cardinality` needs `ProcsAssumption`.
* `TypeCorrect`, `AccountingHolds`, `ChunksDoNotGrow`, `HeadersAreFound`, `OutputIsFaithful` and
  `NothingIsLeftBehind` of `SparseTool`, for every unit and every image. `IInv` adds to the accounting of
  a merge what the buffer holds (`HistoryOK`), that it is whole as long as the file is
  (`WholeBuffer`), and what has stopped the loop (`Stopped`). For `Faithful` the step of each branch is
  a fact about concatenations: a merge replaces the blocks of the buffer behind `offset` and no
  other (`AssignedProperties`). The histories are built by the steps, so that no induction over the
  image is needed.
* `TypeCorrect`, `AnsweredWithItsOwnPaths`, `ZramIsSwappedOnce` of `InitTriggers`, for any paths and
  any number of requests and settings. Both properties are about something that happens once: a request
  and the boot are each a token that passes through the changes and the commands init has queued,
  the script and back. `OneRequest` and `OneBoot` say that it is in at most one place, `PathsPassed` how far
  the paths have come with it; no trigger of another property can add a second one.

Every invariant and both refinements of the passing runs are proved. Only model-checked: liveness
(`Terminates`, `Answered`, `AdbSettles`), which with ENABLED is outside the prover; and that the
three properties of section 5 are violated, for which a counterexample is the proof.

## 5. Findings

1. **Display 1 is not read back.** `saveConfig()` (`baseparameter_utilv1.cpp:355`) writes
   both displays in one piece, so that those of display 1 land at 7160; the constructor
   (`:491`) reads them at 8192. `main.cpp:50` offers `-d ... (e: 0 or 1)`.
2. **A reset can be undone by the same run.** `setResolution` is served after `reset()`
   and saves the copy from before it (`main.cpp:312`, `:321`).
3. **An unchanged `vendor_boot` is always installed**, being compared with `vbmeta_source`
   (`releasetools.py:308`, against the message at `:312`).

## 6. Observations

Met while modelling; they are what the code does, and no run is about them.

* `scripts/parameter_tools/README:3` wants a second slot for a name that ends in `_a`; the code
  looks for the first `_a` (`parameter_generator.py:100`, `:106`), so that a name with an earlier
  one gets none. No list in the repository has such a name.
* `build.sh -o` without `-A` builds no OTA package and returns 0 (`build.sh:178`, `:261`, against
  `:10`).
* `-c Auto` sets `COLOR_AUTO` in `feature`, and a `-u` in the same or a later run overwrites
  `feature`, in both layouts (`main.cpp:277-325`). `feature` itself starts uninitialised (`:280`).
* A bitstream request that the base class refuses has replaced `mBitstreamDevice` all the same
  (`ATVAudioPolicyManager.cpp:107`): until another is granted, bitstreams are not sent to the device
  that was granted before, though it is still there.
* `flash_img.sh` reports success before it has ended: a request made at once can find the
  service still running, and is then never answered. A client that gave up waiting and asked again could
  get the answer to its first request.
* `restart adbd` of internet adb (`init.rk30board.rc:244`, `:249`) and of a new serial number (`:259`)
  starts adbd also after `persist.sys.adb_enable=0` has stopped it (`:325`).
* `build.sh -u` checks neither the `cp -f` that gathers the parts (`build.sh:275`) nor the `mv` of the
  result (`:297`): the run goes on, and may return 0, with an `update.img` of left-over or truncated
  parts, or with none in `IMAGE_PATH`.
* Reset and backup of the V2 layout take a short `read` for a whole one (`main.cpp:98`, `:129`) and
  write the rest of a `malloc`ed buffer that was never filled over the other half.
* `dump_baseparameter()` of the V1 layout ignores the result of its second write and reports
  success; as it writes the last byte first, an incomplete dump has the full size.
* `printParameter()` prints `vsync_end` of the main display for the second one.

## 7. Not modelled

* `-t` and `-p` of the V1 layout: they read the partition and write a file or the terminal, which
  nothing reads again. `-t`, `-p` and `validate()` of V2 are calls of the library that only read.
* The other sections of the init files: they run commands (GPS, camera, media, PCIe) on services and
  properties that no modelled section touches. The USB gadget's triggers wait on
  properties of the platform's own init files; one watches adbd (`init.rk30board.usb.rc:102`), but
  only to clear `sys.usb.ffs.ready`. That the platform's own init files start and stop adbd as well is
  outside this repository.
* `-p` of `build.sh`, the vehicle logo and the lists of further images that the two `mkimage`
  scripts copy.
* The preinstall generator: its two variables are reset after each package
  (`auto_generator.py:162-163`), so that one package does not touch the next.
* The recovery UI: two tables and a key counter; the menu lists two entries whose action is
  commented out (`recovery_ui.cpp`, positions 3 and 7).
* fstab and dtbo text generation, the SDK checker (git and repo do its work), the Soong plugin's path
  tables, configuration data, overlays, sepolicy, prebuilt binaries: no behaviour of their own.
