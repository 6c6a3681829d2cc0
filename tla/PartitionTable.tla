--------------------------- MODULE PartitionTable ---------------------------
(***************************************************************************)
(* parameter_generator.py lays the partitions of a list out on the flash,  *)
(* one after the other; RebuildParameter.mk makes that list from the board *)
(* configuration; get_partition_size.py reads sizes back from the result.  *)
(* A name is what the generator tells apart: the text before the suffix,   *)
(* the suffix, and whether "_a" also occurs earlier ("inner").             *)
(***************************************************************************)
EXTENDS Integers, Sequences

CONSTANTS
    Bases,          \* what partition names are, but for the suffix
    StartOffset,    \* --start-offset, in blocks of 512 bytes
    Lists,          \* values of --partition-list given by hand
    Boards          \* board configurations RebuildParameter.mk is run for

Name == [base : Bases, suffix : {"", "_a", "_b"}, inner : BOOLEAN]

\* What stands after the colon: a number and a unit, none, or no number at all.
Size == [number : Nat, unit : {"K", "M", "G", "none", "missing"}]

Partition == [name : Name, size : Size]

\* The make variables the list depends on.
Board ==
    [ab : BOOLEAN,          \* BOARD_USES_AB_IMAGE
     v3 : BOOLEAN,          \* BOARD_BOOT_HEADER_VERSION >= 3
     frp : BOOLEAN,         \* BUILD_WITH_GOOGLE_FRP
     dynamic : BOOLEAN,     \* BOARD_SUPER_PARTITION_GROUPS
     data : BOOLEAN,        \* BOARD_USERDATAIMAGE_PARTITION_SIZE is defined
     special : Seq(Partition),      \* BOARD_WITH_SPECIAL_PARTITIONS
     image : Size]          \* the BOARD_..._PARTITION_SIZE of the images

ASSUME BaseAssumption ==
    {"security", "uboot", "trust", "misc", "resource", "vendor_boot", "dtbo", "vbmeta",
     "boot", "recovery", "backup", "cache", "metadata", "frp", "super", "system",
     "vendor", "odm", "data", "userdata"} \subseteq Bases
ASSUME StartAssumption == StartOffset \in Nat
ASSUME ListAssumption == Lists \subseteq Seq(Partition)
ASSUME BoardAssumption == Boards \subseteq Board

VARIABLES
    list,               \* list_partitions; never changes
    idx,                \* the entry the loop takes next
    cur_part_start,
    final_parts,        \* the table: name, start and size in blocks
    result              \* "loop", "done", "usage" or "exception"

vars == <<list, idx, cur_part_start, final_parts, result>>

-----------------------------------------------------------------------------
(* RebuildParameter.mk.                                                    *)

Plain(base) == [base |-> base, suffix |-> "", inner |-> FALSE]
Slot(base, suffix) == [base |-> base, suffix |-> suffix, inner |-> FALSE]
Part(name, number, unit) ==
    [name |-> name, size |-> [number |-> number, unit |-> unit]]

\* An entry of the partitions that A/B boards have twice.
Slotted(board, base, size) ==
    <<[name |-> IF board.ab THEN Slot(base, "_a") ELSE Plain(base), size |-> size]>>

Fixed(base, size) == <<[name |-> Plain(base), size |-> size]>>

Mega(number) == [number |-> number, unit |-> "M"]

When(condition, parts) == IF condition THEN parts ELSE <<>>

Loaders(board) ==
    Fixed("security", Mega(4)) \o Slotted(board, "uboot", Mega(4))
        \o Slotted(board, "trust", Mega(4)) \o Fixed("misc", Mega(4))

\* Seeded fault: an A/B board names the second boot slot as well.
ImagesBothSlots(board) ==
    When(board.v3, Slotted(board, "resource", Mega(16))
                       \o Slotted(board, "vendor_boot", board.image))
        \o Slotted(board, "dtbo", board.image) \o Slotted(board, "vbmeta", Mega(1))
        \o Slotted(board, "boot", board.image)
        \o When(board.ab, <<[name |-> Slot("boot", "_b"), size |-> board.image]>>)

Images(board) ==
    When(board.v3, Slotted(board, "resource", Mega(16))
                       \o Slotted(board, "vendor_boot", board.image))
        \o Slotted(board, "dtbo", board.image) \o Slotted(board, "vbmeta", Mega(1))
        \o Slotted(board, "boot", board.image)

Others(board) ==
    When(~board.ab, Fixed("recovery", board.image))
        \o Fixed("backup", Mega(372)) \o Fixed("cache", board.image)
        \o Fixed("metadata", Mega(16))
        \o When(board.frp, <<Part(Plain("frp"), 512, "K")>>)
        \o board.special
        \o (IF board.dynamic THEN Fixed("super", board.image)
            ELSE Fixed("system", board.image) \o Fixed("vendor", board.image)
                     \o Fixed("odm", board.image))
        \o When(board.data, Fixed("data", board.image))

partition_list(board) == Loaders(board) \o Images(board) \o Others(board)

-----------------------------------------------------------------------------
(* parameter_generator.py.                                                 *)

Grow == -1      \* the size "-" of userdata, which takes what is left

\* calculate_blocks(size) raises: there is no last character, or the digits
\* before it, converted first even when it is no unit, are none.
SizeRaises(size) ==
    \/ size.unit = "missing"
    \/ size.unit = "none" /\ size.number < 10

Scale(unit) ==
    CASE unit = "K" -> 1024
      [] unit = "M" -> 1024 * 1024
      [] unit = "G" -> 1024 * 1024 * 1024
      [] OTHER -> 1

Bytes(size) == size.number * Scale(size.unit)

\* Seeded fault: without a unit the last digit is still taken for one.
BlocksOfLessDigit(size) ==
    IF size.unit = "none" THEN (size.number \div 10) \div 512
    ELSE Bytes(size) \div 512

calculate_blocks(size) == Bytes(size) \div 512

Userdata == Plain("userdata")

\* generate_pt: an entry, and where the next one starts.
Entry(name, size, start) ==
    [name |-> name, start |-> start, blocks |-> calculate_blocks(size)]
NextStart(size, start) == calculate_blocks(size) + start

\* The first "_a" of the entry is the end of its name.
SlotSelected(name) == name.suffix = "_a" /\ ~name.inner

Init ==
    /\ list \in Lists \cup {partition_list(b) : b \in Boards}
    /\ idx = 1
    /\ cur_part_start = StartOffset
    /\ final_parts = <<>>
    /\ result = "loop"

\* partition_list == ''
NoList ==
    /\ result = "loop"
    /\ list = <<>>
    /\ result' = "usage"
    /\ UNCHANGED <<list, idx, cur_part_start, final_parts>>

Current == list[idx]
Looping == result = "loop" /\ idx \in 1 .. Len(list)

\* generate_pt raises, or its one result for userdata cannot be unpacked.
EntryRaises ==
    /\ Looping
    /\ Current.name = Userdata \/ SizeRaises(Current.size)
    /\ result' = "exception"
    /\ UNCHANGED <<list, idx, cur_part_start, final_parts>>

Usable == Looping /\ Current.name # Userdata /\ ~SizeRaises(Current.size)

AddPartition ==
    /\ Usable
    /\ ~SlotSelected(Current.name)
    /\ final_parts' = Append(final_parts, Entry(Current.name, Current.size, cur_part_start))
    /\ cur_part_start' = NextStart(Current.size, cur_part_start)
    /\ idx' = idx + 1
    /\ UNCHANGED <<list, result>>

\* Seeded fault: the second slot does not move cur_part_start on.
AddSlotsNotMoving ==
    /\ Usable
    /\ SlotSelected(Current.name)
    /\ LET middle == NextStart(Current.size, cur_part_start) IN
        /\ final_parts' = final_parts \o
               <<Entry(Current.name, Current.size, cur_part_start),
                 Entry(Slot(Current.name.base, "_b"), Current.size, middle)>>
        /\ cur_part_start' = middle
    /\ idx' = idx + 1
    /\ UNCHANGED <<list, result>>

\* Seeded fault: both slots start where the first does.
AddSlotsShared ==
    /\ Usable
    /\ SlotSelected(Current.name)
    /\ LET middle == NextStart(Current.size, cur_part_start) IN
        /\ final_parts' = final_parts \o
               <<Entry(Current.name, Current.size, cur_part_start),
                 Entry(Slot(Current.name.base, "_b"), Current.size, cur_part_start)>>
        /\ cur_part_start' = NextStart(Current.size, middle)
    /\ idx' = idx + 1
    /\ UNCHANGED <<list, result>>

\* Seeded fault: the entry after a first slot is taken for its second one.
AddSlotsSkipping ==
    /\ Usable
    /\ SlotSelected(Current.name)
    /\ LET middle == NextStart(Current.size, cur_part_start) IN
        /\ final_parts' = final_parts \o
               <<Entry(Current.name, Current.size, cur_part_start),
                 Entry(Slot(Current.name.base, "_b"), Current.size, middle)>>
        /\ cur_part_start' = NextStart(Current.size, middle)
    /\ idx' = idx + 2
    /\ UNCHANGED <<list, result>>

\* The entry of the first slot brings that of the second.
AddSlots ==
    /\ Usable
    /\ SlotSelected(Current.name)
    /\ LET middle == NextStart(Current.size, cur_part_start) IN
        /\ final_parts' = final_parts \o
               <<Entry(Current.name, Current.size, cur_part_start),
                 Entry(Slot(Current.name.base, "_b"), Current.size, middle)>>
        /\ cur_part_start' = NextStart(Current.size, middle)
    /\ idx' = idx + 1
    /\ UNCHANGED <<list, result>>

\* After the loop: userdata, and the file is written.
AddUserdata ==
    /\ result = "loop"
    /\ list # <<>> /\ idx > Len(list)
    /\ final_parts' = Append(final_parts,
           [name |-> Userdata, start |-> cur_part_start, blocks |-> Grow])
    /\ result' = "done"
    /\ UNCHANGED <<list, idx, cur_part_start>>

Next == NoList \/ EntryRaises \/ AddPartition \/ AddSlots \/ AddUserdata

Spec == Init /\ [][Next]_vars

-----------------------------------------------------------------------------
(* get_partition_size.py, on the line the generator wrote: the size of the *)
(* first entry of that name that has one, in bytes, or 0.                  *)

get_partition_size(name) ==
    LET found == {k \in DOMAIN final_parts :
                     final_parts[k].name = name /\ final_parts[k].blocks # Grow}
    IN  IF found = {} THEN 0
        ELSE final_parts[CHOOSE k \in found : \A m \in found : k <= m].blocks * 512

-----------------------------------------------------------------------------
(* Properties.                                                             *)

TypeOK ==
    /\ list \in Seq(Partition)
    /\ idx \in 1 .. Len(list) + 1
    /\ cur_part_start \in Nat
    /\ final_parts \in Seq([name : Name, start : Nat, blocks : Nat \cup {Grow}])
    /\ result \in {"loop", "done", "usage", "exception"}

\* Where entry k of the table ends, if it says.
End(k) == final_parts[k].start + final_parts[k].blocks

\* parameter_generator.py:95-112: whatever the list, no two partitions share a
\* block of the flash, none lies below the start offset, and only the last
\* one, userdata, grows.
NoOverlap ==
    \A k \in 1 .. Len(final_parts) :
        /\ final_parts[k].start >= StartOffset
        /\ final_parts[k].blocks = Grow => k = Len(final_parts) /\ result = "done"
        /\ \A j \in 1 .. k - 1 : End(j) <= final_parts[k].start

\* The same lines: no block is lost between two partitions, or before userdata.
NoGap ==
    /\ final_parts # <<>> => final_parts[1].start = StartOffset
    /\ \A k \in 1 .. Len(final_parts) - 1 : final_parts[k + 1].start = End(k)

\* parameter_generator.py and get_partition_size.py: the build reads back, of
\* every entry whose name occurs once, what the list asked for, rounded down
\* to blocks; the second slot has the size of the first.
RoundTrip ==
    result = "done" =>
        \A k \in 1 .. Len(list) :
            LET wanted == Bytes(list[k].size) - (Bytes(list[k].size) % 512)
                Once(name) == \A j, m \in 1 .. Len(final_parts) :
                    final_parts[j].name = name /\ final_parts[m].name = name => j = m
            IN  \A name \in {list[k].name} \cup
                    (IF SlotSelected(list[k].name) THEN {Slot(list[k].name.base, "_b")} ELSE {}) :
                    Once(name) => get_partition_size(name) = wanted

\* RebuildParameter.mk: for every board the generator writes a table, without
\* two partitions of one name, and the boot chain has both slots exactly when
\* the board uses A/B images, a recovery partition otherwise.
BoardTable ==
    result \in {"done", "exception"} =>
        \A b \in Boards : list = partition_list(b) =>
            LET names == {final_parts[k].name : k \in DOMAIN final_parts} IN
            /\ result = "done"
            /\ \A j, k \in DOMAIN final_parts :
                   final_parts[j].name = final_parts[k].name => j = k
            /\ \A base \in {"uboot", "trust", "dtbo", "vbmeta", "boot"} :
                   IF b.ab THEN {Slot(base, "_a"), Slot(base, "_b")} \subseteq names
                   ELSE Plain(base) \in names
            /\ Plain("recovery") \in names <=> ~b.ab
=============================================================================
