------------------------ MODULE PartitionTableProofs ------------------------
(***************************************************************************)
(* Proofs about PartitionTable: for every list, every board configuration  *)
(* and every start offset, the table is well typed, its partitions lie one *)
(* behind the other, without overlap and without gap, and the sizes can be *)
(* read back from it; and the boards have the partitions they boot from.   *)
(***************************************************************************)
EXTENDS PartitionTable, TLAPS

Row == [name : Name, start : Nat, blocks : Nat \cup {Grow}]

\* A table t of sized rows that tiles the blocks from StartOffset up to cursor.
Tiles(t, cursor) ==
    /\ t \in Seq(Row)
    /\ cursor \in Nat
    /\ StartOffset <= cursor
    /\ \A k \in 1 .. Len(t) :
        /\ t[k].blocks \in Nat
        /\ t[k].start >= StartOffset
        /\ t[k].start + t[k].blocks <= cursor
        /\ \A j \in 1 .. k - 1 : t[j].start + t[j].blocks <= t[k].start
    /\ \A k \in 1 .. Len(t) - 1 : t[k + 1].start = t[k].start + t[k].blocks
    /\ t # <<>> => /\ t[1].start = StartOffset
                   /\ t[Len(t)].start + t[Len(t)].blocks = cursor
    /\ t = <<>> => cursor = StartOffset

-----------------------------------------------------------------------------
\* A size that is a number of any unit is a number of bytes, and of blocks.
LEMMA BytesType ==
    ASSUME NEW size \in Size
    PROVE  Bytes(size) \in Nat
<1>1. size.number \in Nat
  BY DEF Size
<1>2. Scale(size.unit) \in {1, 1024, 1024 * 1024, 1024 * 1024 * 1024}
  BY DEF Size, Scale
<1>3. \A n, c \in Nat : n * c \in Nat
  OBVIOUS
<1>4. Scale(size.unit) \in Nat
  BY <1>2
<1> QED
  BY <1>1, <1>3, <1>4 DEF Bytes

LEMMA BlocksType ==
    ASSUME NEW size \in Size
    PROVE  calculate_blocks(size) \in Nat
BY BytesType DEF calculate_blocks

\* One more entry at the cursor, and the cursor moved behind it, still tile.
LEMMA Extend ==
    ASSUME NEW t, NEW cursor, Tiles(t, cursor),
           NEW name \in Name, NEW size \in Size
    PROVE  Tiles(Append(t, Entry(name, size, cursor)), NextStart(size, cursor))
<1> DEFINE row == Entry(name, size, cursor)
           u == Append(t, row)
           next == NextStart(size, cursor)
<1>1. calculate_blocks(size) \in Nat
  BY BlocksType
<1>2. t \in Seq(Row) /\ cursor \in Nat /\ StartOffset \in Nat
  BY StartAssumption DEF Tiles
<1>3. /\ row \in Row
      /\ row.start = cursor /\ row.blocks = calculate_blocks(size)
  BY <1>1, <1>2 DEF Entry, Row
<1>4. next \in Nat /\ next = cursor + calculate_blocks(size)
  BY <1>1, <1>2 DEF NextStart
<1>5. /\ u \in Seq(Row) /\ Len(u) = Len(t) + 1 /\ u # <<>>
      /\ u[Len(t) + 1] = row
      /\ \A k \in 1 .. Len(t) : u[k] = t[k]
  BY <1>2, <1>3
<1>6. \A k \in 1 .. Len(t) : t[k].start \in Nat /\ t[k].blocks \in Nat
  <2>1. \A k \in 1 .. Len(t) : t[k] \in Row
    BY <1>2
  <2> QED
    BY <2>1 DEF Tiles, Row
<1> HIDE DEF row, u, next
<1>7. ASSUME NEW k \in 1 .. Len(u)
      PROVE  /\ u[k].blocks \in Nat
             /\ u[k].start >= StartOffset
             /\ u[k].start + u[k].blocks <= next
             /\ \A j \in 1 .. k - 1 : u[j].start + u[j].blocks <= u[k].start
  <2>1. \A m \in 1 .. Len(t) :
            /\ t[m].start >= StartOffset
            /\ t[m].start + t[m].blocks <= cursor
            /\ \A j \in 1 .. m - 1 : t[j].start + t[j].blocks <= t[m].start
    BY DEF Tiles
  <2>2. Len(t) \in Nat /\ k \in Nat /\ StartOffset <= cursor
    BY <1>2, <1>5 DEF Tiles
  <2>3. CASE k <= Len(t)
    <3>1. k \in 1 .. Len(t) /\ u[k] = t[k]
      BY <2>2, <2>3, <1>5
    <3>2. \A j \in 1 .. k - 1 : j \in 1 .. Len(t) /\ u[j] = t[j]
      BY <2>2, <2>3, <1>5
    <3>3. u[k].blocks \in Nat /\ u[k].start >= StartOffset
      BY <3>1, <2>1, <1>6
    <3>4. u[k].start + u[k].blocks <= next
      <4>1. t[k].start + t[k].blocks <= cursor /\ t[k].start \in Nat /\ t[k].blocks \in Nat
        BY <3>1, <2>1, <1>6
      <4> QED
        BY <4>1, <3>1, <1>1, <1>2, <1>4
    <3>5. \A j \in 1 .. k - 1 : u[j].start + u[j].blocks <= u[k].start
      BY <3>1, <3>2, <2>1
    <3> QED
      BY <3>3, <3>4, <3>5
  <2>4. CASE k = Len(t) + 1
    <3>1. \A j \in 1 .. k - 1 : j \in 1 .. Len(t) /\ u[j] = t[j]
      BY <2>2, <2>4, <1>5
    <3>2. u[k] = row
      BY <2>4, <1>5
    <3> QED
      BY <3>1, <3>2, <2>1, <2>2, <1>1, <1>2, <1>3, <1>4
  <2> QED
    BY <2>3, <2>4, <2>2, <1>5
<1>8. ASSUME NEW k \in 1 .. Len(u) - 1
      PROVE  u[k + 1].start = u[k].start + u[k].blocks
  <2>1. CASE k < Len(t)
    BY <2>1, <1>2, <1>5 DEF Tiles
  <2>2. CASE k = Len(t)
    BY <2>2, <1>2, <1>3, <1>5 DEF Tiles
  <2> QED
    BY <2>1, <2>2, <1>5, <1>2
<1>9. u[1].start = StartOffset
  BY <1>2, <1>3, <1>5 DEF Tiles
<1>10. u[Len(u)].start + u[Len(u)].blocks = next
  BY <1>1, <1>2, <1>3, <1>4, <1>5
<1>11. StartOffset <= next
  BY <1>1, <1>2, <1>4 DEF Tiles
<1>12. Tiles(u, next)
  BY <1>4, <1>5, <1>7, <1>8, <1>9, <1>10, <1>11 DEF Tiles
<1> QED
  BY <1>12 DEF row, u, next

-----------------------------------------------------------------------------
\* The list made for a board is one the generator may be given.
LEMMA ListType ==
    ASSUME NEW b \in Board
    PROVE  partition_list(b) \in Seq(Partition)
<1>1. /\ b.special \in Seq(Partition) /\ b.image \in Size
      /\ b.ab \in BOOLEAN /\ b.v3 \in BOOLEAN /\ b.frp \in BOOLEAN
  BY DEF Board
<1> USE BaseAssumption
<1>2. \A n \in Nat : Mega(n) \in Size
  BY DEF Mega, Size
<1>3. \A base \in Bases : /\ Plain(base) \in Name
                           /\ Slot(base, "_a") \in Name
  BY DEF Plain, Slot, Name
<1>4. \A base \in Bases, size \in Size : Fixed(base, size) \in Seq(Partition)
  BY <1>3 DEF Fixed, Partition
<1>5. \A base \in Bases, size \in Size : Slotted(b, base, size) \in Seq(Partition)
  BY <1>3 DEF Slotted, Partition
<1> DEFINE frp == <<Part(Plain("frp"), 512, "K")>>
<1>6. frp \in Seq(Partition)
  BY <1>3 DEF Part, Partition, Size
<1>7. \A c : \A s \in Seq(Partition) : When(c, s) \in Seq(Partition)
  BY DEF When
<1> HIDE DEF frp
<1>8. \A s, t \in Seq(Partition) : s \o t \in Seq(Partition)
  OBVIOUS
<1>9. Loaders(b) \in Seq(Partition)
  <2>1. /\ Fixed("security", Mega(4)) \in Seq(Partition)
        /\ Slotted(b, "uboot", Mega(4)) \in Seq(Partition)
        /\ Slotted(b, "trust", Mega(4)) \in Seq(Partition)
        /\ Fixed("misc", Mega(4)) \in Seq(Partition)
    BY <1>2, <1>4, <1>5
  <2> QED
    BY <2>1, <1>8 DEF Loaders
<1>10. Images(b) \in Seq(Partition)
  <2>1. /\ Slotted(b, "resource", Mega(16)) \in Seq(Partition)
        /\ Slotted(b, "vendor_boot", b.image) \in Seq(Partition)
        /\ Slotted(b, "dtbo", b.image) \in Seq(Partition)
        /\ Slotted(b, "vbmeta", Mega(1)) \in Seq(Partition)
        /\ Slotted(b, "boot", b.image) \in Seq(Partition)
    BY <1>1, <1>2, <1>5
  <2>2. When(b.v3, Slotted(b, "resource", Mega(16)) \o Slotted(b, "vendor_boot", b.image))
            \in Seq(Partition)
    BY <2>1, <1>1, <1>7, <1>8
  <2> QED
    BY <2>1, <2>2, <1>8 DEF Images
<1>11. Others(b) \in Seq(Partition)
  <2>1. /\ Fixed("backup", Mega(372)) \in Seq(Partition)
        /\ Fixed("metadata", Mega(16)) \in Seq(Partition)
        /\ \A base \in Bases : Fixed(base, b.image) \in Seq(Partition)
    <3>1. \A base \in Bases : Fixed(base, b.image) \in Seq(Partition)
      BY <1>1, <1>4
    <3>2. Mega(372) \in Size /\ Mega(16) \in Size
      BY <1>2
    <3>3. Fixed("backup", Mega(372)) \in Seq(Partition)
      BY <3>2, <1>4
    <3>4. Fixed("metadata", Mega(16)) \in Seq(Partition)
      BY <3>2, <1>4
    <3> QED
      BY <3>1, <3>3, <3>4
  <2>2. When(~b.ab, Fixed("recovery", b.image)) \in Seq(Partition)
    BY <2>1, <1>1, <1>7
  <2>3. When(b.frp, frp) \in Seq(Partition)
    BY <1>6, <1>7
  <2>4. When(b.data, Fixed("data", b.image)) \in Seq(Partition)
    BY <2>1 DEF When
  <2>5. (IF b.dynamic THEN Fixed("super", b.image)
         ELSE Fixed("system", b.image) \o Fixed("vendor", b.image) \o Fixed("odm", b.image))
            \in Seq(Partition)
    BY <2>1, <1>8
  <2>6. Fixed("cache", b.image) \in Seq(Partition)
    BY <2>1
  <2> QED
    BY <2>1, <2>2, <2>3, <2>4, <2>5, <2>6, <1>1, <1>8 DEF Others, frp
<1> QED
  BY <1>8, <1>9, <1>10, <1>11 DEF partition_list

-----------------------------------------------------------------------------
(* The inductive invariant.  NoOverlap and NoGap say nothing about         *)
(* cur_part_start: until userdata is added, the table tiles the flash up   *)
(* to it.                                                                  *)

IInv ==
    /\ TypeOK
    /\ result # "done" => Tiles(final_parts, cur_part_start)
    /\ NoOverlap
    /\ NoGap

\* Tiling is what the two properties of the table ask for.
LEMMA TilesIsEnough ==
    ASSUME NEW t, NEW cursor, Tiles(t, cursor),
           final_parts' = t
    PROVE  NoOverlap' /\ NoGap'
<1>1. \A k \in 1 .. Len(t) : t[k].blocks # Grow
  BY DEF Tiles, Grow
<1> QED
  BY <1>1 DEF Tiles, NoOverlap, NoGap, End

LEMMA InitInv == Init => IInv
<1> SUFFICES ASSUME Init PROVE IInv
  OBVIOUS
<1>1. list \in Seq(Partition)
  BY ListAssumption, BoardAssumption, ListType DEF Init
<1>2. Tiles(<<>>, StartOffset)
  BY StartAssumption DEF Tiles
<1> QED
  BY <1>1, <1>2, StartAssumption DEF Init, IInv, TypeOK, Row, NoOverlap, NoGap, Tiles

\* A step that leaves the table alone, or extends it to a tiling.
LEMMA StepInv == IInv /\ [Next]_vars => IInv'
<1> SUFFICES ASSUME IInv, [Next]_vars PROVE IInv'
  OBVIOUS
<1> USE DEF IInv
<1>1. CASE NoList \/ EntryRaises
  BY <1>1 DEF NoList, EntryRaises, Looping, TypeOK, NoOverlap, NoGap, End, Tiles
<1>2. ASSUME Usable
      PROVE  /\ Current.name \in Name /\ Current.size \in Size
             /\ Tiles(final_parts, cur_part_start)
             /\ idx + 1 \in 1 .. Len(list) + 1
  <2>1. Current \in Partition
    BY <1>2 DEF Usable, Looping, Current, TypeOK
  <2>2. result # "done"
    BY <1>2 DEF Usable, Looping
  <2>3. idx + 1 \in 1 .. Len(list) + 1
    <3>1. Len(list) \in Nat /\ idx \in 1 .. Len(list)
      BY <1>2 DEF Usable, Looping, TypeOK
    <3> QED
      BY <3>1
  <2> QED
    BY <2>1, <2>2, <2>3 DEF Partition
<1>3. CASE AddPartition
  <2>1. Tiles(final_parts', cur_part_start')
    BY <1>2, <1>3, Extend DEF AddPartition
  <2>2. TypeOK'
    <3>1. idx' \in 1 .. Len(list') + 1
      BY <1>2, <1>3 DEF AddPartition
    <3> QED
      BY <1>3, <2>1, <3>1 DEF AddPartition, TypeOK, Tiles, Row
  <2>3. NoOverlap' /\ NoGap'
    BY <2>1, TilesIsEnough
  <2> QED
    BY <2>1, <2>2, <2>3
<1>4. CASE AddSlots
  <2> DEFINE size == Current.size
             middle == NextStart(size, cur_part_start)
             first == Entry(Current.name, size, cur_part_start)
             second == Entry(Slot(Current.name.base, "_b"), size, middle)
  <2>1. Usable /\ cur_part_start' = NextStart(size, middle)
        /\ final_parts' = final_parts \o <<first, second>>
    BY <1>4 DEF AddSlots
  <2>2. Slot(Current.name.base, "_b") \in Name
    BY <1>2, <2>1 DEF Slot, Name
  <2>3. Tiles(Append(final_parts, first), middle)
    BY <1>2, <2>1, Extend
  <2>4. Tiles(Append(Append(final_parts, first), second), NextStart(size, middle))
    BY <1>2, <2>1, <2>2, <2>3, Extend
  <2>5. first \in Row /\ second \in Row
    <3>1. calculate_blocks(size) \in Nat
      BY <1>2, <2>1, BlocksType
    <3>2. cur_part_start \in Nat /\ middle \in Nat
      BY <3>1 DEF TypeOK, NextStart
    <3> QED
      BY <1>2, <2>1, <2>2, <3>1, <3>2 DEF Entry, Row
  <2>6. final_parts \in Seq(Row)
    BY DEF TypeOK, Row
  <2>7. final_parts \o <<first, second>> = Append(Append(final_parts, first), second)
    <3> HIDE DEF first, second
    <3> QED
      BY <2>5, <2>6
  <2>8. Tiles(final_parts', cur_part_start')
    BY <2>1, <2>4, <2>7
  <2>9. TypeOK'
    <3>1. idx' \in 1 .. Len(list') + 1
      BY <1>2, <1>4 DEF AddSlots
    <3> QED
      BY <1>4, <2>8, <3>1 DEF AddSlots, TypeOK, Tiles, Row
  <2>10. NoOverlap' /\ NoGap'
    BY <2>8, TilesIsEnough
  <2> QED
    BY <2>8, <2>9, <2>10
<1>5. CASE AddUserdata
  <2> DEFINE row == [name |-> Userdata, start |-> cur_part_start, blocks |-> Grow]
  <2>1. /\ Tiles(final_parts, cur_part_start)
        /\ final_parts' = Append(final_parts, row) /\ result' = "done"
    BY <1>5 DEF AddUserdata
  <2>2. row \in Row /\ row.start = cur_part_start /\ row.blocks = Grow
    BY BaseAssumption DEF TypeOK, Row, Userdata, Plain, Name
  <2>3. final_parts \in Seq(Row) /\ StartOffset \in Nat /\ cur_part_start \in Nat
    BY <2>1, StartAssumption DEF Tiles
  <2> HIDE DEF row
  <2>4. /\ final_parts' \in Seq(Row) /\ Len(final_parts') = Len(final_parts) + 1
        /\ final_parts'[Len(final_parts) + 1] = row
        /\ \A k \in 1 .. Len(final_parts) : final_parts'[k] = final_parts[k]
    BY <2>1, <2>2, <2>3
  <2>5. TypeOK'
    BY <1>5, <2>4 DEF AddUserdata, TypeOK, Row
  <2>6. ASSUME NEW k \in 1 .. Len(final_parts')
        PROVE  /\ final_parts'[k].start >= StartOffset
               /\ final_parts'[k].blocks = Grow => k = Len(final_parts')
               /\ \A j \in 1 .. k - 1 :
                    final_parts'[j].start + final_parts'[j].blocks <= final_parts'[k].start
    <3>1. CASE k <= Len(final_parts)
      BY <3>1, <2>1, <2>3, <2>4 DEF Tiles, Grow
    <3>2. CASE k = Len(final_parts) + 1
      BY <3>2, <2>1, <2>2, <2>3, <2>4 DEF Tiles
    <3> QED
      BY <3>1, <3>2, <2>4, <2>3
  <2>7. NoOverlap'
    BY <2>1, <2>6 DEF NoOverlap, End
  <2>8. NoGap'
    <3>1. final_parts'[1].start = StartOffset
      BY <2>1, <2>2, <2>3, <2>4 DEF Tiles
    <3>2. ASSUME NEW k \in 1 .. Len(final_parts') - 1
          PROVE  final_parts'[k + 1].start = final_parts'[k].start + final_parts'[k].blocks
      BY <2>1, <2>2, <2>3, <2>4 DEF Tiles
    <3> QED
      BY <3>1, <3>2 DEF NoGap, End
  <2> QED
    BY <2>1, <2>5, <2>7, <2>8
<1>6. CASE UNCHANGED vars
  BY <1>6 DEF vars, TypeOK, NoOverlap, NoGap, End, Tiles
<1> QED
  BY <1>1, <1>3, <1>4, <1>5, <1>6 DEF Next

LEMMA Invariance == Spec => []IInv
BY InitInv, StepInv, PTL DEF Spec

\* Every reachable state of the generator is well typed.
THEOREM TableTypeCorrect == Spec => []TypeOK
<1>1. IInv => TypeOK
  BY DEF IInv
<1> QED
  BY <1>1, Invariance, PTL

\* Whatever the list and the start offset, no two partitions of the generated
\* table share a block and only the last one grows.
THEOREM TableNoOverlap == Spec => []NoOverlap
<1>1. IInv => NoOverlap
  BY DEF IInv
<1> QED
  BY <1>1, Invariance, PTL

\* Whatever the list and the start offset, no block of the flash is lost
\* between two partitions of the generated table.
THEOREM TableNoGap == Spec => []NoGap
<1>1. IInv => NoGap
  BY DEF IInv
<1> QED
  BY <1>1, Invariance, PTL

-----------------------------------------------------------------------------
(* RoundTrip speaks of the table when it is done; what makes it so is that *)
(* the rows of every entry the loop has taken are there, and stay there.   *)

\* The table has a row of that name with the blocks of that size.
Has(name, size) ==
    \E m \in 1 .. Len(final_parts) :
        final_parts[m].name = name /\ final_parts[m].blocks = calculate_blocks(size)

\* Both rows, of an entry that brings two.
Served(k) ==
    /\ Has(list[k].name, list[k].size)
    /\ SlotSelected(list[k].name) => Has(Slot(list[k].name.base, "_b"), list[k].size)

AllServed ==
    /\ \A k \in 1 .. idx - 1 : Served(k)
    /\ result = "done" => idx > Len(list)

\* A longer table has what it had.
LEMMA HasKept ==
    ASSUME TypeOK, NEW rest \in Seq(Row), final_parts' = final_parts \o rest
    PROVE  \A name, size : Has(name, size) => Has(name, size)'
<1>1. final_parts \in Seq(Row)
  BY DEF TypeOK, Row
<1>2. /\ Len(final_parts') = Len(final_parts) + Len(rest)
      /\ \A m \in 1 .. Len(final_parts) : final_parts'[m] = final_parts[m]
  BY <1>1
<1>3. Len(final_parts) \in Nat /\ Len(rest) \in Nat
  BY <1>1
<1>4. 1 .. Len(final_parts) \subseteq 1 .. Len(final_parts')
  BY <1>2, <1>3
<1> QED
  BY <1>2, <1>4 DEF Has

LEMMA ServedKept ==
    ASSUME TypeOK, NEW rest \in Seq(Row), final_parts' = final_parts \o rest,
           list' = list
    PROVE  \A k : Served(k) => Served(k)'
  BY HasKept DEF Served

LEMMA InitServed == Init => AllServed
  BY DEF Init, AllServed

LEMMA NextServed == IInv /\ AllServed /\ [Next]_vars => AllServed'
<1> SUFFICES ASSUME IInv, AllServed, [Next]_vars PROVE AllServed'
  OBVIOUS
<1>1. /\ TypeOK /\ final_parts \in Seq(Row) /\ list \in Seq(Partition)
      /\ idx \in Nat /\ Len(list) \in Nat /\ cur_part_start \in Nat
  BY DEF IInv, TypeOK, Row
<1>2. CASE NoList \/ EntryRaises
  BY <1>2 DEF NoList, EntryRaises, Looping, AllServed, Served, Has
<1>3. CASE UNCHANGED vars
  BY <1>3 DEF vars, AllServed, Served, Has
<1>4. CASE AddUserdata
  <2> DEFINE row == [name |-> Userdata, start |-> cur_part_start, blocks |-> Grow]
  <2>1. row \in Row
    BY <1>1, BaseAssumption DEF Row, Userdata, Plain, Name
  <2>2. /\ final_parts' = Append(final_parts, row)
        /\ list' = list /\ idx' = idx /\ idx > Len(list)
    BY <1>4 DEF AddUserdata
  <2> HIDE DEF row
  <2>3. <<row>> \in Seq(Row) /\ final_parts' = final_parts \o <<row>>
    BY <1>1, <2>1, <2>2
  <2>4. \A k \in 1 .. idx - 1 : Served(k)'
    BY <1>1, <2>2, <2>3, ServedKept DEF AllServed
  <2> QED
    BY <2>2, <2>4 DEF AllServed
<1>5. ASSUME Usable
      PROVE  /\ Current.name \in Name /\ Current.size \in Size
             /\ \A name \in Name, start \in Nat : Entry(name, Current.size, start) \in Row
             /\ NextStart(Current.size, cur_part_start) \in Nat
             /\ result = "loop"
  <2>1. Current \in Partition
    BY <1>1, <1>5 DEF Usable, Looping, Current
  <2>2. Current.name \in Name /\ Current.size \in Size
    BY <2>1 DEF Partition
  <2>3. calculate_blocks(Current.size) \in Nat
    BY <2>2, BlocksType
  <2> QED
    BY <1>1, <1>5, <2>2, <2>3 DEF Entry, Row, NextStart, Usable, Looping
<1>6. CASE AddPartition
  <2> DEFINE row == Entry(Current.name, Current.size, cur_part_start)
  <2>1. /\ row \in Row /\ row.name = Current.name
        /\ row.blocks = calculate_blocks(Current.size)
    BY <1>1, <1>5, <1>6 DEF AddPartition, Entry
  <2>2. /\ final_parts' = Append(final_parts, row) /\ list' = list /\ idx' = idx + 1
        /\ result' = result /\ result = "loop" /\ ~SlotSelected(Current.name)
    BY <1>5, <1>6 DEF AddPartition
  <2> HIDE DEF row
  <2>3. <<row>> \in Seq(Row) /\ final_parts' = final_parts \o <<row>>
    BY <1>1, <2>1, <2>2
  <2>4. \A k \in 1 .. idx - 1 : Served(k)'
    BY <1>1, <2>2, <2>3, ServedKept DEF AllServed
  <2>5. ASSUME NEW k, k = idx
        PROVE  Served(k)'
    <3>1. /\ Len(final_parts') = Len(final_parts) + 1 /\ Len(final_parts) \in Nat
          /\ final_parts'[Len(final_parts) + 1] = row
      BY <1>1, <2>1, <2>2
    <3>2. Len(final_parts) + 1 \in 1 .. Len(final_parts')
      BY <3>1
    <3>3. row.name = list'[k].name /\ row.blocks = calculate_blocks(list'[k].size)
      BY <2>1, <2>2, <2>5 DEF Current
    <3>4. Has(list[k].name, list[k].size)'
      BY <3>1, <3>2, <3>3 DEF Has
    <3>5. ~SlotSelected(list'[k].name)
      BY <2>2, <2>5 DEF Current
    <3> QED
      BY <3>4, <3>5 DEF Served
  <2>6. \A k \in 1 .. idx' - 1 : k \in 1 .. idx - 1 \/ k = idx
    BY <1>1, <2>2
  <2>7. \A k \in 1 .. idx' - 1 : Served(k)'
    BY <2>4, <2>5, <2>6
  <2> QED
    BY <2>2, <2>7 DEF AllServed
<1>7. CASE AddSlots
  <2> DEFINE size == Current.size
             middle == NextStart(size, cur_part_start)
             first == Entry(Current.name, size, cur_part_start)
             second == Entry(Slot(Current.name.base, "_b"), size, middle)
  <2>1. Usable /\ final_parts' = final_parts \o <<first, second>>
        /\ list' = list /\ idx' = idx + 1 /\ result' = result
    BY <1>7 DEF AddSlots
  <2>2. Slot(Current.name.base, "_b") \in Name
    BY <1>5, <2>1 DEF Slot, Name
  <2>3. first \in Row /\ second \in Row
    BY <1>1, <1>5, <2>1, <2>2
  <2>4. /\ first.name = Current.name /\ first.blocks = calculate_blocks(Current.size)
        /\ second.name = Slot(Current.name.base, "_b")
        /\ second.blocks = calculate_blocks(Current.size)
    BY DEF Entry
  <2> HIDE DEF first, second
  <2>5. <<first, second>> \in Seq(Row)
    BY <2>3
  <2>6. \A k \in 1 .. idx - 1 : Served(k)'
    BY <1>1, <2>1, <2>5, ServedKept DEF AllServed
  <2>7. ASSUME NEW k, k = idx
        PROVE  Served(k)'
    <3>1. /\ Len(final_parts') = Len(final_parts) + 2 /\ Len(final_parts) \in Nat
          /\ final_parts'[Len(final_parts) + 1] = first
          /\ final_parts'[Len(final_parts) + 2] = second
      BY <1>1, <2>1, <2>3
    <3>2. /\ Len(final_parts) + 1 \in 1 .. Len(final_parts')
          /\ Len(final_parts) + 2 \in 1 .. Len(final_parts')
      BY <3>1
    <3>3. Current.name = list'[k].name /\ Current.size = list'[k].size
      BY <2>1, <2>7 DEF Current
    <3>4. Has(list[k].name, list[k].size)'
      BY <2>4, <3>1, <3>2, <3>3 DEF Has
    <3>5. Has(Slot(list[k].name.base, "_b"), list[k].size)'
      BY <2>4, <3>1, <3>2, <3>3 DEF Has, Slot
    <3> QED
      BY <3>4, <3>5 DEF Served
  <2>8. \A k \in 1 .. idx' - 1 : k \in 1 .. idx - 1 \/ k = idx
    BY <1>1, <2>1
  <2>9. \A k \in 1 .. idx' - 1 : Served(k)'
    BY <2>6, <2>7, <2>8
  <2> QED
    BY <1>5, <2>1, <2>9 DEF AllServed
<1> QED
  BY <1>2, <1>3, <1>4, <1>6, <1>7 DEF Next

LEMMA AlwaysServed == Spec => []AllServed
BY InitServed, NextServed, Invariance, PTL DEF Spec

\* What get_partition_size.py reads of a row whose name no other row has.
LEMMA ReadsTheRow ==
    ASSUME TypeOK, NEW m \in 1 .. Len(final_parts), final_parts[m].blocks # Grow,
           \A j \in 1 .. Len(final_parts) : final_parts[j].name = final_parts[m].name => j = m
    PROVE  get_partition_size(final_parts[m].name) = final_parts[m].blocks * 512
<1> DEFINE found == {k \in DOMAIN final_parts :
                       final_parts[k].name = final_parts[m].name
                           /\ final_parts[k].blocks # Grow}
<1>1. DOMAIN final_parts = 1 .. Len(final_parts)
  BY DEF TypeOK
<1>2. found = {m}
  BY <1>1
<1>3. (CHOOSE k \in {m} : \A n \in {m} : k <= n) = m
  OBVIOUS
<1> HIDE DEF found
<1>4. get_partition_size(final_parts[m].name) =
        IF found = {} THEN 0
        ELSE final_parts[CHOOSE k \in found : \A n \in found : k <= n].blocks * 512
  BY DEF get_partition_size, found
<1> QED
  BY <1>2, <1>3, <1>4

\* Whole blocks are what is left of a size that is rounded down.
LEMMA BlocksRoundDown ==
    ASSUME NEW size \in Size
    PROVE  calculate_blocks(size) * 512 = Bytes(size) - (Bytes(size) % 512)
<1>1. PICK n \in Nat : n = Bytes(size)
  BY BytesType
<1>2. (n \div 512) * 512 = n - (n % 512)
  OBVIOUS
<1> QED
  BY <1>1, <1>2 DEF calculate_blocks

\* What get_partition_size.py reads from the generated table, of a name that
\* occurs once, is the size the list gave, rounded down to whole blocks, for
\* every list and for the second slot too.
THEOREM TableReadsBack == Spec => []RoundTrip
<1>1. TypeOK /\ AllServed => RoundTrip
  <2>1. SUFFICES ASSUME TypeOK, AllServed, result = "done", NEW k \in 1 .. Len(list),
                        NEW name,
                        \/ name = list[k].name
                        \/ SlotSelected(list[k].name) /\ name = Slot(list[k].name.base, "_b"),
                        \A j, m \in 1 .. Len(final_parts) :
                            final_parts[j].name = name /\ final_parts[m].name = name => j = m
                 PROVE  get_partition_size(name) =
                            Bytes(list[k].size) - (Bytes(list[k].size) % 512)
    BY DEF RoundTrip
  <2>2. k \in 1 .. idx - 1 /\ list[k].size \in Size
    <3>1. idx \in Nat /\ Len(list) \in Nat /\ idx > Len(list)
      BY <2>1 DEF TypeOK, AllServed
    <3>2. list[k] \in Partition
      BY <2>1 DEF TypeOK
    <3> QED
      BY <2>1, <3>1, <3>2 DEF Partition
  <2>3. Has(name, list[k].size)
    BY <2>1, <2>2 DEF AllServed, Served
  <2>4. PICK m \in 1 .. Len(final_parts) :
            final_parts[m].name = name /\ final_parts[m].blocks = calculate_blocks(list[k].size)
    BY <2>3 DEF Has
  <2>5. final_parts[m].blocks # Grow
    BY <2>2, <2>4, BlocksType DEF Grow
  <2>6. get_partition_size(final_parts[m].name) = final_parts[m].blocks * 512
    BY <2>1, <2>4, <2>5, ReadsTheRow
  <2> QED
    BY <2>2, <2>4, <2>6, BlocksRoundDown
<1> QED
  BY <1>1, TableTypeCorrect, AlwaysServed, PTL

-----------------------------------------------------------------------------
(* BoardTable.  RebuildParameter.mk copies the special partitions of a     *)
(* board as they are given, so that it holds for boards that give them     *)
(* names of their own and sizes that are numbers.                          *)

\* What RebuildParameter.mk and the generator name themselves.
OwnBases ==
    {"security", "uboot", "trust", "misc", "resource", "vendor_boot", "dtbo", "vbmeta",
     "boot", "recovery", "backup", "cache", "metadata", "frp", "super", "system",
     "vendor", "odm", "data", "userdata"}

SpecialBases(b) == {b.special[k].name.base : k \in 1 .. Len(b.special)}

SoundBoard(b) ==
    /\ ~SizeRaises(b.image)
    /\ \A k \in 1 .. Len(b.special) : ~SizeRaises(b.special[k].size)
    /\ SpecialBases(b) \cap OwnBases = {}
    /\ \A j, k \in 1 .. Len(b.special) :
           b.special[j].name.base = b.special[k].name.base => j = k

\* A list of usable entries with different bases, all of them from X.
Over(s, X) ==
    /\ s \in Seq(Partition)
    /\ \A k \in 1 .. Len(s) : s[k].name.base \in X /\ ~SizeRaises(s[k].size)
    /\ \A j, k \in 1 .. Len(s) : s[j].name.base = s[k].name.base => j = k

In(s, name) == \E k \in 1 .. Len(s) : s[k].name = name

LEMMA OverConcat ==
    ASSUME NEW s, NEW t, NEW X, NEW Y, Over(s, X), Over(t, Y), X \cap Y = {}
    PROVE  Over(s \o t, X \cup Y)
<1> DEFINE u == s \o t
<1>1. s \in Seq(Partition) /\ t \in Seq(Partition)
  BY DEF Over
<1>2. /\ u \in Seq(Partition) /\ Len(u) = Len(s) + Len(t)
      /\ Len(s) \in Nat /\ Len(t) \in Nat
      /\ \A k \in 1 .. Len(u) : u[k] = IF k <= Len(s) THEN s[k] ELSE t[k - Len(s)]
  BY <1>1
<1> HIDE DEF u
<1>3. \A k \in 1 .. Len(u) : k \in 1 .. Len(s) \/ k - Len(s) \in 1 .. Len(t)
  BY <1>2
<1>4. ASSUME NEW k \in 1 .. Len(u)
      PROVE  /\ k <= Len(s) => u[k].name.base \in X
             /\ ~(k <= Len(s)) => u[k].name.base \in Y
             /\ ~SizeRaises(u[k].size)
  <2>1. CASE k <= Len(s)
    <3>1. k \in 1 .. Len(s) /\ u[k] = s[k]
      BY <2>1, <1>2
    <3> QED
      BY <2>1, <3>1 DEF Over
  <2>2. CASE ~(k <= Len(s))
    <3>1. k - Len(s) \in 1 .. Len(t) /\ u[k] = t[k - Len(s)]
      BY <2>2, <1>2
    <3> QED
      BY <2>2, <3>1 DEF Over
  <2> QED
    BY <2>1, <2>2
<1>5. ASSUME NEW j \in 1 .. Len(u), NEW k \in 1 .. Len(u), u[j].name.base = u[k].name.base
      PROVE  j = k
  <2>1. (j <= Len(s)) <=> (k <= Len(s))
    BY <1>4, <1>5
  <2>2. CASE j <= Len(s)
    <3>1. j \in 1 .. Len(s) /\ k \in 1 .. Len(s) /\ u[j] = s[j] /\ u[k] = s[k]
      BY <2>1, <2>2, <1>2
    <3> QED
      BY <3>1, <1>5 DEF Over
  <2>3. CASE ~(j <= Len(s))
    <3>1. /\ j - Len(s) \in 1 .. Len(t) /\ k - Len(s) \in 1 .. Len(t)
          /\ u[j] = t[j - Len(s)] /\ u[k] = t[k - Len(s)]
      BY <2>1, <2>3, <1>2
    <3>2. j - Len(s) = k - Len(s)
      BY <3>1, <1>5 DEF Over
    <3> QED
      BY <3>2, <1>2
  <2> QED
    BY <2>2, <2>3
<1>6. Over(u, X \cup Y)
  BY <1>2, <1>4, <1>5 DEF Over
<1> QED
  BY <1>6 DEF u

LEMMA InConcat ==
    ASSUME NEW s \in Seq(Partition), NEW t \in Seq(Partition), NEW name
    PROVE  In(s, name) \/ In(t, name) => In(s \o t, name)
<1>1. Len(s) \in Nat /\ Len(t) \in Nat /\ Len(s \o t) = Len(s) + Len(t)
  OBVIOUS
<1>2. ASSUME NEW k \in 1 .. Len(s) PROVE (s \o t)[k] = s[k] /\ k \in 1 .. Len(s \o t)
  BY <1>1
<1>3. ASSUME NEW k \in 1 .. Len(t)
      PROVE  (s \o t)[k + Len(s)] = t[k] /\ k + Len(s) \in 1 .. Len(s \o t)
  BY <1>1
<1> QED
  BY <1>2, <1>3 DEF In

LEMMA OverFixed ==
    ASSUME NEW base \in Bases, NEW size \in Size, ~SizeRaises(size)
    PROVE  Over(Fixed(base, size), {base}) /\ In(Fixed(base, size), Plain(base))
<1> DEFINE e == [name |-> Plain(base), size |-> size]
<1>1. e \in Partition /\ e.name = Plain(base) /\ e.size = size /\ e.name.base = base
  BY DEF Partition, Plain, Name
<1>2. Fixed(base, size) = <<e>>
  BY DEF Fixed
<1> HIDE DEF e
<1>3. <<e>> \in Seq(Partition) /\ Len(<<e>>) = 1 /\ <<e>>[1] = e
  BY <1>1
<1> QED
  BY <1>1, <1>2, <1>3 DEF Over, In

LEMMA OverSlotted ==
    ASSUME NEW b, NEW base \in Bases, NEW size \in Size, ~SizeRaises(size)
    PROVE  /\ Over(Slotted(b, base, size), {base})
           /\ In(Slotted(b, base, size), IF b.ab THEN Slot(base, "_a") ELSE Plain(base))
<1> DEFINE name == IF b.ab THEN Slot(base, "_a") ELSE Plain(base)
           e == [name |-> name, size |-> size]
<1>1. e \in Partition /\ e.name = name /\ e.size = size /\ e.name.base = base
  BY DEF Partition, Plain, Slot, Name
<1>2. Slotted(b, base, size) = <<e>>
  BY DEF Slotted
<1> HIDE DEF e
<1>3. <<e>> \in Seq(Partition) /\ Len(<<e>>) = 1 /\ <<e>>[1] = e
  BY <1>1
<1> QED
  BY <1>1, <1>2, <1>3 DEF Over, In

LEMMA OverWhen ==
    ASSUME NEW c, NEW s, NEW X, Over(s, X)
    PROVE  Over(When(c, s), IF c THEN X ELSE {}) /\ Over(When(c, s), X)
<1>1. Over(<<>>, {}) /\ Over(<<>>, X)
  BY DEF Over
<1> QED
  BY <1>1 DEF When

\* The board of RebuildParameter.mk: different bases, sizes that are numbers,
\* the boot chain, and a recovery partition unless it uses A/B images.
BootChain == {"uboot", "trust", "dtbo", "vbmeta", "boot"}

LEMMA BoardList ==
    ASSUME NEW b \in Board, SoundBoard(b)
    PROVE  LET s == partition_list(b) IN
           /\ Over(s, (OwnBases \ (IF b.ab THEN {"recovery", "userdata"} ELSE {"userdata"}))
                          \cup SpecialBases(b))
           /\ \A base \in BootChain :
                  In(s, IF b.ab THEN Slot(base, "_a") ELSE Plain(base))
           /\ ~b.ab => In(s, Plain("recovery"))
<1>1. b.image \in Size /\ ~SizeRaises(b.image) /\ b.special \in Seq(Partition)
  BY DEF Board, SoundBoard
<1>2. \A n \in Nat : Mega(n) \in Size /\ ~SizeRaises(Mega(n))
  BY DEF Mega, Size, SizeRaises
<1>3. OwnBases \subseteq Bases
  BY BaseAssumption DEF OwnBases
<1>4. \A base \in OwnBases, size \in Size : ~SizeRaises(size) =>
          /\ Over(Fixed(base, size), {base})
          /\ In(Fixed(base, size), Plain(base))
          /\ Over(Slotted(b, base, size), {base})
          /\ In(Slotted(b, base, size), IF b.ab THEN Slot(base, "_a") ELSE Plain(base))
  BY <1>3, OverFixed, OverSlotted
<1>5. \A s, X : Over(s, X) => s \in Seq(Partition)
  BY DEF Over
<1> DEFINE Chosen(base) == IF b.ab THEN Slot(base, "_a") ELSE Plain(base)
           L == {"security", "uboot", "trust", "misc"}
           I == {"resource", "vendor_boot", "dtbo", "vbmeta", "boot"}
           O == {"backup", "cache", "metadata", "frp", "super", "system", "vendor", "odm", "data"}
           Recovery == IF ~b.ab THEN {"recovery"} ELSE {}
<1> HIDE DEF Chosen
<1>6. /\ Over(Loaders(b), L)
      /\ In(Loaders(b), Chosen("uboot")) /\ In(Loaders(b), Chosen("trust"))
  <2> DEFINE s1 == Fixed("security", Mega(4))
             s2 == Slotted(b, "uboot", Mega(4))
             s3 == Slotted(b, "trust", Mega(4))
             s4 == Fixed("misc", Mega(4))
  <2>1. /\ Over(s1, {"security"}) /\ Over(s2, {"uboot"}) /\ Over(s3, {"trust"})
        /\ Over(s4, {"misc"})
        /\ In(s2, Chosen("uboot")) /\ In(s3, Chosen("trust"))
    BY <1>2, <1>4 DEF OwnBases, Chosen
  <2>2. Loaders(b) = s1 \o s2 \o s3 \o s4
    BY DEF Loaders
  <2> HIDE DEF s1, s2, s3, s4
  <2>3. Over(s1 \o s2, {"security"} \cup {"uboot"})
    BY <2>1, OverConcat
  <2>4. Over((s1 \o s2) \o s3, ({"security"} \cup {"uboot"}) \cup {"trust"})
    BY <2>1, <2>3, OverConcat
  <2>5. Over(((s1 \o s2) \o s3) \o s4, (({"security"} \cup {"uboot"}) \cup {"trust"}) \cup {"misc"})
    BY <2>1, <2>4, OverConcat
  <2>6. L = (({"security"} \cup {"uboot"}) \cup {"trust"}) \cup {"misc"}
    OBVIOUS
  <2>7. In(s1 \o s2, Chosen("uboot"))
    BY <2>1, <1>5, InConcat
  <2>8. In((s1 \o s2) \o s3, Chosen("uboot")) /\ In((s1 \o s2) \o s3, Chosen("trust"))
    BY <2>1, <2>3, <2>7, <1>5, InConcat
  <2>9. In(((s1 \o s2) \o s3) \o s4, Chosen("uboot")) /\ In(((s1 \o s2) \o s3) \o s4, Chosen("trust"))
    BY <2>1, <2>4, <2>8, <1>5, InConcat
  <2> QED
    BY <2>2, <2>5, <2>6, <2>9
<1>7. /\ Over(Images(b), I)
      /\ In(Images(b), Chosen("dtbo")) /\ In(Images(b), Chosen("vbmeta"))
      /\ In(Images(b), Chosen("boot"))
  <2> DEFINE s1 == Slotted(b, "resource", Mega(16))
             s2 == Slotted(b, "vendor_boot", b.image)
             w == When(b.v3, s1 \o s2)
             s3 == Slotted(b, "dtbo", b.image)
             s4 == Slotted(b, "vbmeta", Mega(1))
             s5 == Slotted(b, "boot", b.image)
  <2>1. /\ Over(s1, {"resource"}) /\ Over(s2, {"vendor_boot"}) /\ Over(s3, {"dtbo"})
        /\ Over(s4, {"vbmeta"}) /\ Over(s5, {"boot"})
        /\ In(s3, Chosen("dtbo")) /\ In(s4, Chosen("vbmeta")) /\ In(s5, Chosen("boot"))
    BY <1>1, <1>2, <1>4 DEF OwnBases, Chosen
  <2>2. Images(b) = w \o s3 \o s4 \o s5
    BY DEF Images
  <2> HIDE DEF s1, s2, s3, s4, s5
  <2>3. Over(s1 \o s2, {"resource"} \cup {"vendor_boot"})
    BY <2>1, OverConcat
  <2>4. Over(w, {"resource"} \cup {"vendor_boot"})
    BY <2>3, OverWhen
  <2> HIDE DEF w
  <2>5. Over(w \o s3, ({"resource"} \cup {"vendor_boot"}) \cup {"dtbo"})
    BY <2>1, <2>4, OverConcat
  <2>6. Over((w \o s3) \o s4, (({"resource"} \cup {"vendor_boot"}) \cup {"dtbo"}) \cup {"vbmeta"})
    BY <2>1, <2>5, OverConcat
  <2>7. Over(((w \o s3) \o s4) \o s5,
             ((({"resource"} \cup {"vendor_boot"}) \cup {"dtbo"}) \cup {"vbmeta"}) \cup {"boot"})
    BY <2>1, <2>6, OverConcat
  <2>8. I = ((({"resource"} \cup {"vendor_boot"}) \cup {"dtbo"}) \cup {"vbmeta"}) \cup {"boot"}
    OBVIOUS
  <2>9. In(w \o s3, Chosen("dtbo"))
    BY <2>1, <2>4, <1>5, InConcat
  <2>10. In((w \o s3) \o s4, Chosen("dtbo")) /\ In((w \o s3) \o s4, Chosen("vbmeta"))
    BY <2>1, <2>5, <2>9, <1>5, InConcat
  <2>11. /\ In(((w \o s3) \o s4) \o s5, Chosen("dtbo"))
         /\ In(((w \o s3) \o s4) \o s5, Chosen("vbmeta"))
         /\ In(((w \o s3) \o s4) \o s5, Chosen("boot"))
    BY <2>1, <2>6, <2>10, <1>5, InConcat
  <2> QED
    BY <2>2, <2>7, <2>8, <2>11
<1>8. /\ Over(Others(b), (Recovery \cup O) \cup SpecialBases(b))
      /\ ~b.ab => In(Others(b), Plain("recovery"))
  <2> DEFINE r == Fixed("recovery", b.image)
             s1 == When(~b.ab, r)
             s2 == Fixed("backup", Mega(372))
             s3 == Fixed("cache", b.image)
             s4 == Fixed("metadata", Mega(16))
             f == <<Part(Plain("frp"), 512, "K")>>
             s5 == When(b.frp, f)
             s6 == b.special
             y == Fixed("system", b.image) \o Fixed("vendor", b.image) \o Fixed("odm", b.image)
             s7 == IF b.dynamic THEN Fixed("super", b.image) ELSE y
             d == Fixed("data", b.image)
             s8 == When(b.data, d)
             X7 == {"super", "system", "vendor", "odm"}
  <2>1. /\ Over(r, {"recovery"}) /\ Over(s2, {"backup"}) /\ Over(s3, {"cache"})
        /\ Over(s4, {"metadata"}) /\ Over(d, {"data"})
        /\ Over(Fixed("super", b.image), {"super"})
        /\ Over(Fixed("system", b.image), {"system"})
        /\ Over(Fixed("vendor", b.image), {"vendor"}) /\ Over(Fixed("odm", b.image), {"odm"})
        /\ In(r, Plain("recovery"))
    BY <1>1, <1>2, <1>4 DEF OwnBases
  <2>2. Over(f, {"frp"})
    <3>1. /\ [number |-> 512, unit |-> "K"] \in Size
          /\ ~SizeRaises([number |-> 512, unit |-> "K"])
      BY DEF Size, SizeRaises
    <3>2. Over(Fixed("frp", [number |-> 512, unit |-> "K"]), {"frp"})
      BY <3>1, <1>4 DEF OwnBases
    <3> QED
      BY <3>2 DEF Fixed, Part
  <2>3. Over(s6, SpecialBases(b))
    BY <1>1 DEF Over, SpecialBases, SoundBoard
  <2>4. Over(s7, X7)
    <3>1. Over(Fixed("system", b.image) \o Fixed("vendor", b.image), {"system"} \cup {"vendor"})
      BY <2>1, OverConcat
    <3>2. Over(y, ({"system"} \cup {"vendor"}) \cup {"odm"})
      BY <2>1, <3>1, OverConcat
    <3>3. \A s, X : X \subseteq X7 /\ Over(s, X) => Over(s, X7)
      BY DEF Over
    <3>4. Over(y, X7) /\ Over(Fixed("super", b.image), X7)
      BY <2>1, <3>2, <3>3
    <3> QED
      BY <3>4
  <2>5. Over(s1, Recovery) /\ (~b.ab => In(s1, Plain("recovery")))
    BY <2>1, OverWhen DEF When
  <2>6. Over(s5, {"frp"}) /\ Over(s8, {"data"})
    BY <2>1, <2>2, OverWhen
  <2>7. Others(b) = s1 \o s2 \o s3 \o s4 \o s5 \o s6 \o s7 \o s8
    BY DEF Others
  <2>8. SpecialBases(b) \cap OwnBases = {}
    BY DEF SoundBoard
  <2> HIDE DEF r, s1, s2, s3, s4, f, s5, s6, y, s7, d, s8
  <2> DEFINE t2 == s1 \o s2
             t3 == t2 \o s3
             t4 == t3 \o s4
             t5 == t4 \o s5
             t6 == t5 \o s6
             t7 == t6 \o s7
  <2>9. Over(t2, Recovery \cup {"backup"}) /\ (~b.ab => In(t2, Plain("recovery")))
    BY <2>1, <2>5, <1>5, OverConcat, InConcat
  <2> HIDE DEF t2
  <2>10. Over(t3, Recovery \cup {"backup"} \cup {"cache"}) /\ (~b.ab => In(t3, Plain("recovery")))
    BY <2>1, <2>9, <1>5, OverConcat, InConcat
  <2> HIDE DEF t3
  <2>11. /\ Over(t4, Recovery \cup {"backup"} \cup {"cache"} \cup {"metadata"})
         /\ ~b.ab => In(t4, Plain("recovery"))
    BY <2>1, <2>10, <1>5, OverConcat, InConcat
  <2> HIDE DEF t4
  <2>12. /\ Over(t5, Recovery \cup {"backup"} \cup {"cache"} \cup {"metadata"} \cup {"frp"})
         /\ ~b.ab => In(t5, Plain("recovery"))
    BY <2>6, <2>11, <1>5, OverConcat, InConcat
  <2> HIDE DEF t5
  <2> DEFINE X5 == Recovery \cup {"backup"} \cup {"cache"} \cup {"metadata"} \cup {"frp"}
  <2>13. Over(t6, X5 \cup SpecialBases(b)) /\ (~b.ab => In(t6, Plain("recovery")))
    <3>1. X5 \cap SpecialBases(b) = {}
      BY <2>8 DEF OwnBases
    <3> QED
      BY <2>3, <2>12, <3>1, <1>5, OverConcat, InConcat
  <2> HIDE DEF t6
  <2>14. /\ Over(t7, X5 \cup SpecialBases(b) \cup X7)
         /\ ~b.ab => In(t7, Plain("recovery"))
    <3>1. (X5 \cup SpecialBases(b)) \cap X7 = {}
      BY <2>8 DEF OwnBases
    <3> QED
      BY <2>4, <2>13, <3>1, <1>5, OverConcat, InConcat
  <2> HIDE DEF t7
  <2>15. /\ Over(t7 \o s8, X5 \cup SpecialBases(b) \cup X7 \cup {"data"})
         /\ ~b.ab => In(t7 \o s8, Plain("recovery"))
    <3>1. (X5 \cup SpecialBases(b) \cup X7) \cap {"data"} = {}
      BY <2>8 DEF OwnBases
    <3> QED
      BY <2>6, <2>14, <3>1, <1>5, OverConcat, InConcat
  <2>16. X5 \cup SpecialBases(b) \cup X7 \cup {"data"} = (Recovery \cup O) \cup SpecialBases(b)
    OBVIOUS
  <2> QED
    BY <2>7, <2>15, <2>16 DEF t2, t3, t4, t5, t6, t7
<1> DEFINE Z == (Recovery \cup O) \cup SpecialBases(b)
<1> HIDE DEF Recovery
<1>9. Recovery \subseteq {"recovery"}
  BY DEF Recovery
<1>10. SpecialBases(b) \cap OwnBases = {}
  BY DEF SoundBoard
<1>11. L \cap I = {} /\ (L \cup I) \cap Z = {}
  BY <1>9, <1>10 DEF OwnBases
<1>12. Over(Loaders(b) \o Images(b), L \cup I)
  BY <1>6, <1>7, <1>11, OverConcat
<1>13. Over(partition_list(b), (L \cup I) \cup Z)
  BY <1>8, <1>11, <1>12, OverConcat DEF partition_list
<1>14. (L \cup I) \cup Z = (OwnBases \ (IF b.ab THEN {"recovery", "userdata"} ELSE {"userdata"}))
                               \cup SpecialBases(b)
  BY DEF Recovery, OwnBases
<1>15. \A base \in BootChain : In(Loaders(b) \o Images(b), Chosen(base))
  BY <1>5, <1>6, <1>7, InConcat DEF BootChain
<1>16. \A base \in BootChain : In(partition_list(b), Chosen(base))
  BY <1>5, <1>8, <1>12, <1>15, InConcat DEF partition_list
<1>17. ~b.ab => In(partition_list(b), Plain("recovery"))
  BY <1>5, <1>8, <1>12, InConcat DEF partition_list
<1> QED
  BY <1>13, <1>14, <1>16, <1>17 DEF Chosen

-----------------------------------------------------------------------------
(* BoardTable is not inductive: that the names of the table differ needs   *)
(* that each comes from an entry taken, or is userdata.                    *)

Names ==
    /\ result # "exception"
    /\ \A j, k \in 1 .. Len(final_parts) : final_parts[j].name = final_parts[k].name => j = k
    /\ \A m \in 1 .. Len(final_parts) :
           \/ \E k \in 1 .. idx - 1 : list[k].name.base = final_parts[m].name.base
           \/ result = "done" /\ final_parts[m].name = Userdata

NamesInv == Over(list, Bases \ {"userdata"}) => Names

LEMMA InitNames == Init => NamesInv
  BY DEF Init, NamesInv, Names

\* A table whose names differ, with one more name.
LEMMA NewName ==
    ASSUME NEW t \in Seq(Row), NEW row \in Row,
           \A j, k \in 1 .. Len(t) : t[j].name = t[k].name => j = k,
           \A k \in 1 .. Len(t) : t[k].name # row.name
    PROVE  LET u == Append(t, row) IN
           /\ u \in Seq(Row)
           /\ \A j, k \in 1 .. Len(u) : u[j].name = u[k].name => j = k
           /\ \A k \in 1 .. Len(u) : u[k] = row \/ (k \in 1 .. Len(t) /\ u[k] = t[k])
<1> DEFINE u == Append(t, row)
<1>1. /\ u \in Seq(Row) /\ Len(u) = Len(t) + 1 /\ Len(t) \in Nat
      /\ u[Len(t) + 1] = row
      /\ \A k \in 1 .. Len(t) : u[k] = t[k]
  OBVIOUS
<1> HIDE DEF u
<1>2. \A k \in 1 .. Len(u) : k \in 1 .. Len(t) \/ k = Len(t) + 1
  BY <1>1
<1>3. \A j, k \in 1 .. Len(u) : u[j].name = u[k].name => j = k
  BY <1>1, <1>2
<1>4. \A k \in 1 .. Len(u) : u[k] = row \/ (k \in 1 .. Len(t) /\ u[k] = t[k])
  BY <1>1, <1>2
<1> QED
  BY <1>1, <1>3, <1>4 DEF u

LEMMA NextNames == IInv /\ NamesInv /\ [Next]_vars => NamesInv'
<1> SUFFICES ASSUME IInv, NamesInv, [Next]_vars, Over(list, Bases \ {"userdata"})' PROVE Names'
  BY DEF NamesInv
<1>1. /\ TypeOK /\ final_parts \in Seq(Row) /\ list \in Seq(Partition)
      /\ idx \in Nat /\ Len(list) \in Nat /\ cur_part_start \in Nat
  BY DEF IInv, TypeOK, Row
<1>2. list' = list
  BY DEF Next, NoList, EntryRaises, AddPartition, AddSlots, AddUserdata, vars
<1>3. Names /\ Over(list, Bases \ {"userdata"})
  BY <1>2 DEF NamesInv, Over
<1>4. ASSUME Looping
      PROVE  /\ Current \in Partition /\ Current = list[idx]
             /\ idx \in 1 .. Len(list) /\ result = "loop"
             /\ Current.name.base # "userdata" /\ ~SizeRaises(Current.size)
             /\ \A k \in 1 .. idx - 1 : list[k].name.base # Current.name.base
             /\ \A m \in 1 .. Len(final_parts) :
                    \E k \in 1 .. idx - 1 : list[k].name.base = final_parts[m].name.base
  <2>1. idx \in 1 .. Len(list) /\ result = "loop" /\ Current = list[idx]
    BY <1>4 DEF Looping, Current
  <2>2. Current.name.base # "userdata" /\ ~SizeRaises(Current.size)
    BY <2>1, <1>3 DEF Over
  <2>3. ASSUME NEW k \in 1 .. idx - 1
        PROVE  list[k].name.base # Current.name.base
    <3>1. k \in 1 .. Len(list) /\ k # idx
      BY <2>1, <1>1
    <3> QED
      BY <2>1, <3>1, <1>3 DEF Over
  <2> QED
    BY <2>1, <2>2, <2>3, <1>1, <1>3 DEF Names
<1>5. \A m \in 1 .. Len(final_parts) : Looping => final_parts[m].name.base # Current.name.base
  BY <1>4
<1>6. CASE NoList
  BY <1>3, <1>6 DEF NoList, Names
<1>7. CASE EntryRaises
  <2>1. Looping /\ (Current.name = Userdata \/ SizeRaises(Current.size))
    BY <1>7 DEF EntryRaises
  <2>2. Userdata.base = "userdata"
    BY DEF Userdata, Plain
  <2> QED
    BY <1>4, <2>1, <2>2
<1>8. CASE UNCHANGED vars
  BY <1>3, <1>8 DEF vars, Names
<1>9. ASSUME Usable
      PROVE  /\ \A name \in Name, start \in Nat : Entry(name, Current.size, start) \in Row
             /\ NextStart(Current.size, cur_part_start) \in Nat
             /\ Current.name \in Name
  <2>1. Current.name \in Name /\ Current.size \in Size
    BY <1>4, <1>9 DEF Usable, Partition
  <2>2. calculate_blocks(Current.size) \in Nat
    BY <2>1, BlocksType
  <2> QED
    BY <1>1, <2>1, <2>2 DEF Entry, Row, NextStart
<1>10. CASE AddPartition
  <2> DEFINE row == Entry(Current.name, Current.size, cur_part_start)
  <2>1. /\ Usable /\ Looping /\ final_parts' = Append(final_parts, row)
        /\ idx' = idx + 1 /\ result' = result
    BY <1>10 DEF AddPartition, Usable
  <2>2. row \in Row /\ row.name = Current.name
    BY <1>1, <1>9, <2>1 DEF Entry
  <2> HIDE DEF row
  <2>3. \A k \in 1 .. Len(final_parts) : final_parts[k].name # row.name
    BY <1>5, <2>1, <2>2
  <2>4. /\ \A j, k \in 1 .. Len(final_parts') :
               final_parts'[j].name = final_parts'[k].name => j = k
        /\ \A k \in 1 .. Len(final_parts') :
               \/ final_parts'[k] = row
               \/ k \in 1 .. Len(final_parts) /\ final_parts'[k] = final_parts[k]
    BY <1>1, <1>3, <2>1, <2>2, <2>3, NewName DEF Names
  <2>5. ASSUME NEW m \in 1 .. Len(final_parts')
        PROVE  \E k \in 1 .. idx' - 1 : list'[k].name.base = final_parts'[m].name.base
    <3>1. CASE final_parts'[m] = row
      <4>1. idx \in 1 .. idx' - 1 /\ list'[idx].name.base = final_parts'[m].name.base
        BY <1>1, <1>2, <1>4, <2>1, <2>2, <3>1
      <4> QED
        BY <4>1
    <3>2. CASE m \in 1 .. Len(final_parts) /\ final_parts'[m] = final_parts[m]
      <4>1. PICK k \in 1 .. idx - 1 : list[k].name.base = final_parts[m].name.base
        BY <1>4, <2>1, <3>2
      <4>2. k \in 1 .. idx' - 1
        BY <1>1, <2>1
      <4> QED
        BY <1>2, <3>2, <4>1, <4>2
    <3> QED
      BY <2>4, <3>1, <3>2
  <2>6. result' # "exception"
    BY <1>4, <2>1
  <2> QED
    BY <2>4, <2>5, <2>6 DEF Names
<1>11. CASE AddSlots
  <2> DEFINE size == Current.size
             middle == NextStart(size, cur_part_start)
             first == Entry(Current.name, size, cur_part_start)
             second == Entry(Slot(Current.name.base, "_b"), size, middle)
             half == Append(final_parts, first)
  <2>1. /\ Usable /\ Looping /\ final_parts' = final_parts \o <<first, second>>
        /\ idx' = idx + 1 /\ result' = result /\ SlotSelected(Current.name)
    BY <1>11 DEF AddSlots, Usable
  <2>2. Slot(Current.name.base, "_b") \in Name
    BY <1>9, <2>1 DEF Slot, Name
  <2>3. first \in Row /\ second \in Row
    BY <1>1, <1>9, <2>1, <2>2
  <2>4. /\ first.name = Current.name
        /\ second.name = Slot(Current.name.base, "_b")
        /\ second.name.base = Current.name.base
        /\ first.name # second.name
    BY <2>1 DEF Entry, Slot, SlotSelected
  <2> HIDE DEF first, second
  <2>5. \A k \in 1 .. Len(final_parts) : final_parts[k].name # first.name
    BY <1>5, <2>1, <2>4
  <2>6. /\ half \in Seq(Row)
        /\ \A j, k \in 1 .. Len(half) : half[j].name = half[k].name => j = k
        /\ \A k \in 1 .. Len(half) :
               half[k] = first \/ (k \in 1 .. Len(final_parts) /\ half[k] = final_parts[k])
    BY <1>1, <1>3, <2>3, <2>5, NewName DEF Names
  <2>7. final_parts' = Append(half, second)
    BY <1>1, <2>1, <2>3
  <2> HIDE DEF half
  <2>8. \A k \in 1 .. Len(half) : half[k].name # second.name
    BY <1>5, <2>1, <2>4, <2>6
  <2>9. /\ \A j, k \in 1 .. Len(final_parts') :
               final_parts'[j].name = final_parts'[k].name => j = k
        /\ \A k \in 1 .. Len(final_parts') :
               \/ final_parts'[k] = second
               \/ k \in 1 .. Len(half) /\ final_parts'[k] = half[k]
    BY <2>3, <2>6, <2>7, <2>8, NewName
  <2>10. ASSUME NEW m \in 1 .. Len(final_parts')
         PROVE  \E k \in 1 .. idx' - 1 : list'[k].name.base = final_parts'[m].name.base
    <3>1. CASE final_parts'[m] = first \/ final_parts'[m] = second
      <4>1. idx \in 1 .. idx' - 1 /\ list'[idx].name.base = final_parts'[m].name.base
        BY <1>1, <1>2, <1>4, <2>1, <2>4, <3>1
      <4> QED
        BY <4>1
    <3>2. CASE m \in 1 .. Len(final_parts) /\ final_parts'[m] = final_parts[m]
      <4>1. PICK k \in 1 .. idx - 1 : list[k].name.base = final_parts[m].name.base
        BY <1>4, <2>1, <3>2
      <4>2. k \in 1 .. idx' - 1
        BY <1>1, <2>1
      <4> QED
        BY <1>2, <3>2, <4>1, <4>2
    <3> QED
      BY <2>6, <2>9, <3>1, <3>2
  <2>11. result' # "exception"
    BY <1>4, <2>1
  <2> QED
    BY <2>9, <2>10, <2>11 DEF Names
<1>12. CASE AddUserdata
  <2> DEFINE row == [name |-> Userdata, start |-> cur_part_start, blocks |-> Grow]
  <2>1. /\ result = "loop" /\ result' = "done" /\ idx' = idx /\ idx > Len(list)
        /\ final_parts' = Append(final_parts, row)
    BY <1>12 DEF AddUserdata
  <2>2. row \in Row /\ row.name = Userdata
    BY <1>1, BaseAssumption DEF Row, Userdata, Plain, Name
  <2> HIDE DEF row
  <2>3. idx = Len(list) + 1
    BY <1>1, <2>1 DEF TypeOK
  <2>4. ASSUME NEW m \in 1 .. Len(final_parts)
        PROVE  \E k \in 1 .. Len(list) : list[k].name.base = final_parts[m].name.base
    BY <1>1, <1>3, <2>1, <2>3 DEF Names
  <2>5. \A m \in 1 .. Len(final_parts) : final_parts[m].name # row.name
    <3>1. Userdata.base = "userdata"
      BY DEF Userdata, Plain
    <3>2. \A k \in 1 .. Len(list) : list[k].name.base # "userdata"
      BY <1>3 DEF Over
    <3> QED
      BY <2>2, <2>4, <3>1, <3>2
  <2>6. /\ \A j, k \in 1 .. Len(final_parts') :
               final_parts'[j].name = final_parts'[k].name => j = k
        /\ \A k \in 1 .. Len(final_parts') :
               \/ final_parts'[k] = row
               \/ k \in 1 .. Len(final_parts) /\ final_parts'[k] = final_parts[k]
    BY <1>1, <1>3, <2>1, <2>2, <2>5, NewName DEF Names
  <2>7. ASSUME NEW m \in 1 .. Len(final_parts')
        PROVE  \/ \E k \in 1 .. idx' - 1 : list'[k].name.base = final_parts'[m].name.base
               \/ result' = "done" /\ final_parts'[m].name = Userdata
    <3>1. idx' - 1 = Len(list)
      BY <1>1, <2>1, <2>3
    <3> QED
      BY <1>2, <2>1, <2>2, <2>4, <2>6, <3>1
  <2> QED
    BY <2>1, <2>6, <2>7 DEF Names
<1> QED
  BY <1>6, <1>7, <1>8, <1>10, <1>11, <1>12 DEF Next

LEMMA AlwaysNames == Spec => []NamesInv
BY InitNames, NextNames, Invariance, PTL DEF Spec

\* RebuildParameter.mk and parameter_generator.py: for every board whose
\* special partitions have names of their own and sizes that are numbers, a
\* table is written, without two partitions of one name, with both slots of
\* the boot chain or a recovery partition.
THEOREM BoardTableSound ==
    ASSUME \A b \in Boards : SoundBoard(b)
    PROVE  Spec => []BoardTable
<1>1. TypeOK /\ AllServed /\ NamesInv => BoardTable
  <2> SUFFICES ASSUME TypeOK, AllServed, NamesInv, result \in {"done", "exception"},
                      NEW b \in Boards, list = partition_list(b)
               PROVE  LET names == {final_parts[k].name : k \in DOMAIN final_parts} IN
                      /\ result = "done"
                      /\ \A j, k \in DOMAIN final_parts :
                             final_parts[j].name = final_parts[k].name => j = k
                      /\ \A base \in BootChain :
                             IF b.ab THEN {Slot(base, "_a"), Slot(base, "_b")} \subseteq names
                             ELSE Plain(base) \in names
                      /\ Plain("recovery") \in names <=> ~b.ab
    BY DEF BoardTable, BootChain
  <2> DEFINE names == {final_parts[k].name : k \in DOMAIN final_parts}
             X == (OwnBases \ (IF b.ab THEN {"recovery", "userdata"} ELSE {"userdata"}))
                      \cup SpecialBases(b)
  <2>1. b \in Board /\ SoundBoard(b)
    BY BoardAssumption
  <2>2. /\ Over(list, X)
        /\ \A base \in BootChain : In(list, IF b.ab THEN Slot(base, "_a") ELSE Plain(base))
        /\ ~b.ab => In(list, Plain("recovery"))
    BY <2>1, BoardList
  <2>3. SpecialBases(b) \subseteq Bases /\ SpecialBases(b) \cap OwnBases = {}
    <3>1. b.special \in Seq(Partition)
      BY <2>1 DEF Board
    <3>2. \A k \in 1 .. Len(b.special) : b.special[k].name.base \in Bases
      <4>1. \A k \in 1 .. Len(b.special) : b.special[k] \in Partition
        BY <3>1
      <4> QED
        BY <4>1 DEF Partition, Name
    <3> QED
      BY <2>1, <3>2 DEF SpecialBases, SoundBoard
  <2>4. "userdata" \notin X /\ X \subseteq Bases /\ (b.ab => "recovery" \notin X)
    BY <2>3, BaseAssumption DEF OwnBases
  <2> HIDE DEF X
  <2>5. Over(list, Bases \ {"userdata"})
    BY <2>2, <2>4 DEF Over
  <2>6. Names /\ result = "done"
    BY <2>5 DEF NamesInv, Names
  <2>7. /\ final_parts \in Seq(Row) /\ DOMAIN final_parts = 1 .. Len(final_parts)
        /\ idx = Len(list) + 1 /\ Len(list) \in Nat
    BY <2>6 DEF TypeOK, Row, AllServed
  <2>8. \A k \in 1 .. Len(list) : Served(k)
    BY <2>7 DEF AllServed
  <2>9. \A name, size : Has(name, size) => name \in names
    BY <2>7 DEF Has
  <2>10. \A name : In(list, name) =>
            /\ name \in names
            /\ SlotSelected(name) => Slot(name.base, "_b") \in names
    BY <2>8, <2>9 DEF In, Served
  <2>11. \A base \in BootChain :
            IF b.ab THEN {Slot(base, "_a"), Slot(base, "_b")} \subseteq names
            ELSE Plain(base) \in names
    <3>1. \A base : SlotSelected(Slot(base, "_a")) /\ Slot(base, "_a").base = base
      BY DEF SlotSelected, Slot
    <3> QED
      BY <2>2, <2>10, <3>1
  <2>12. Plain("recovery") \in names <=> ~b.ab
    <3>1. ~b.ab => Plain("recovery") \in names
      BY <2>2, <2>10
    <3>2. ASSUME b.ab, Plain("recovery") \in names PROVE FALSE
      <4>1. PICK m \in 1 .. Len(final_parts) : final_parts[m].name = Plain("recovery")
        BY <2>7, <3>2
      <4>2. Plain("recovery") # Userdata /\ Plain("recovery").base = "recovery"
        BY DEF Plain, Userdata
      <4>3. PICK k \in 1 .. idx - 1 : list[k].name.base = "recovery"
        BY <2>6, <4>1, <4>2 DEF Names
      <4>4. k \in 1 .. Len(list)
        BY <2>7
      <4> QED
        BY <2>2, <2>4, <3>2, <4>3, <4>4 DEF Over
    <3> QED
      BY <3>1, <3>2
  <2> QED
    BY <2>6, <2>7, <2>11, <2>12 DEF Names
<1> QED
  BY <1>1, TableTypeCorrect, AlwaysServed, AlwaysNames, PTL
=============================================================================
