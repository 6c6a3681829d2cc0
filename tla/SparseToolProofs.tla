-------------------------- MODULE SparseToolProofs --------------------------
(***************************************************************************)
(* Proofs about SparseTool, for every alignment unit and every input file. *)
(***************************************************************************)
EXTENDS SparseTool, SequenceTheorems, TLAPS

Block == Nat \X Nat
Kind == {Raw, Fill, Skip, "none"}
Written == [type : Kind, sz : Nat, body : Seq(Block)]

\* The part of b that a merge of d replaces runs from a to z.
Assigned(b, a, z, d) == SubSeq(b, 1, a) \o d \o SubSeq(b, z + 1, Len(b))

\* A reader who wants the blocks w may be given the blocks g.
Says(w, g) ==
    Len(g) = Len(w) /\ \A j \in 1 .. Len(w) : Match(w[j], g[j])

-----------------------------------------------------------------------------
(* The inductive invariant.                                                *)

HistoryOK ==
    /\ buffer \in Seq(Block)
    /\ out \in Seq(Written)
    /\ consumed \in Seq(Block)
    /\ decoded \in Seq(Block)

\* Only the last chunk of a truncated file leaves the buffer short.
WholeBuffer ==
    input.missing = 0 \/ i <= Len(input.chunks) => Len(buffer) = Align

\* What stopped the loop, and nothing is buffered when the tool is done.
Stopped ==
    /\ result = "flush" => i <= Len(input.chunks) /\ Chunk.type = Other
    /\ result = "done" =>
           /\ i > input.total \/ (i <= Len(input.chunks) /\ Chunk.type = Other)
           /\ offset = 0

IInv == TypeOK /\ HistoryOK /\ Accounting /\ WholeBuffer /\ Stopped

\* A block of the input is never the block of zeros.
NoZeros == \A j \in 1 .. Len(consumed) : consumed[j] # Zero

\* Until the tool is done, what follows each header is what it says.
AlignedSoFar ==
    input.missing = 0 /\ result # "done" =>
        \A k \in 1 .. Len(out) :
            Len(out[k].body) = CASE out[k].type = Raw -> out[k].sz
                                 [] out[k].type = Fill -> 1
                                 [] OTHER -> 0
-----------------------------------------------------------------------------
(* The operators.                                                          *)

(* What a merge leaves in the buffer: the blocks before its place, the data*)
(* merged, and as many blocks after it as there were.                      *)
LEMMA AssignedProperties ==
  ASSUME NEW b \in Seq(Block), NEW d \in Seq(Block),
         NEW a \in Nat, NEW z \in Nat, a <= z, z <= Len(b)
  PROVE  /\ Assigned(b, a, z, d) \in Seq(Block)
         /\ Len(Assigned(b, a, z, d)) = a + Len(d) + (Len(b) - z)
         /\ \A j \in 1 .. a : Assigned(b, a, z, d)[j] = b[j]
         /\ \A j \in 1 .. Len(d) : Assigned(b, a, z, d)[a + j] = d[j]
         /\ SubSeq(Assigned(b, a, z, d), 1, a + Len(d)) = SubSeq(b, 1, a) \o d
<1> DEFINE front == SubSeq(b, 1, a)
           rest == SubSeq(b, z + 1, Len(b))
<1>1. Len(b) \in Nat /\ Len(d) \in Nat /\ \A j \in 1 .. Len(b) : b[j] \in Block
  BY LenProperties, ElementOfSeq
<1>2. /\ front \in Seq(Block) /\ Len(front) = a
      /\ \A j \in 1 .. a : front[j] = b[j]
  <2>1. \A j \in 1 .. a : b[j] \in Block
    BY <1>1
  <2>2. /\ front \in Seq(Block)
        /\ Len(front) = IF 1 <= a THEN a - 1 + 1 ELSE 0
        /\ \A j \in 1 .. a - 1 + 1 : front[j] = b[1 + j - 1]
    BY <2>1, SubSeqProperties
  <2>3. QED
    BY <2>2
<1>3. rest \in Seq(Block) /\ Len(rest) = Len(b) - z
  <2>1. \A j \in z + 1 .. Len(b) : b[j] \in Block
    BY <1>1
  <2>2. /\ rest \in Seq(Block)
        /\ Len(rest) = IF z + 1 <= Len(b) THEN Len(b) - (z + 1) + 1 ELSE 0
    BY <2>1, <1>1, SubSeqProperties, z + 1 \in Int, Len(b) \in Int
  <2>3. QED
    BY <2>2, <1>1
<1> DEFINE ahead == front \o d
<1> HIDE DEF front, rest
<1>4. /\ ahead \in Seq(Block) /\ Len(ahead) = a + Len(d)
      /\ \A j \in 1 .. a + Len(d) :
             ahead[j] = IF j <= a THEN front[j] ELSE d[j - a]
  BY <1>2, ConcatProperties
<1> HIDE DEF ahead
<1>5. /\ ahead \o rest \in Seq(Block)
      /\ Len(ahead \o rest) = a + Len(d) + (Len(b) - z)
      /\ \A j \in 1 .. a + Len(d) : (ahead \o rest)[j] = ahead[j]
  <2>1. /\ ahead \o rest \in Seq(Block)
        /\ Len(ahead \o rest) = Len(ahead) + Len(rest)
        /\ \A j \in 1 .. Len(ahead) + Len(rest) :
              (ahead \o rest)[j] =
                  IF j <= Len(ahead) THEN ahead[j] ELSE rest[j - Len(ahead)]
    <3>1. ahead \in Seq(Block) /\ rest \in Seq(Block)
      BY <1>3, <1>4
    <3>2. QED
      BY <3>1, ConcatProperties
  <2>2. QED
    BY <2>1, <1>1, <1>3, <1>4
<1>6. Assigned(b, a, z, d) = ahead \o rest
  BY DEF Assigned, ahead, front, rest
<1>7. SubSeq(ahead \o rest, 1, a + Len(d)) = ahead
  <2> DEFINE whole == ahead \o rest
             part == SubSeq(whole, 1, a + Len(d))
  <2>1. \A j \in 1 .. a + Len(d) : whole[j] \in Block
    BY <1>4, <1>5, ElementOfSeq
  <2>2. a + Len(d) \in Nat
    BY <1>1
  <2> HIDE DEF whole
  <2>3. /\ part \in Seq(Block)
        /\ Len(part) = IF 1 <= a + Len(d) THEN a + Len(d) - 1 + 1 ELSE 0
        /\ \A j \in 1 .. a + Len(d) - 1 + 1 : part[j] = whole[1 + j - 1]
    BY <2>1, <2>2, SubSeqProperties
  <2>4. Len(part) = a + Len(d) /\ \A j \in 1 .. a + Len(d) : part[j] = whole[j]
    BY <2>2, <2>3
  <2>5. \A j \in 1 .. Len(part) : part[j] = ahead[j]
    BY <2>4, <1>5 DEF whole
  <2> HIDE DEF part
  <2>6. part = ahead
    BY <2>3, <2>4, <2>5, <1>4, SeqEqual
  <2>7. QED
    BY <2>6 DEF part, whole
<1>8. ASSUME NEW j \in 1 .. Len(d)
      PROVE  (ahead \o rest)[a + j] = d[j]
  <2>1. a + j \in 1 .. a + Len(d) /\ ~(a + j <= a) /\ (a + j) - a = j
    BY <1>1
  <2>2. (ahead \o rest)[a + j] = ahead[a + j]
    BY <2>1, <1>5
  <2>3. ahead[a + j] = d[j]
    BY <2>1, <1>4
  <2>4. QED
    BY <2>2, <2>3
<1>9. \A j \in 1 .. a : (ahead \o rest)[j] = b[j]
  BY <1>1, <1>2, <1>4, <1>5
<1>10. QED
  BY <1>5, <1>6, <1>7, <1>8, <1>9 DEF ahead, front

(* The first n blocks of a sequence that has as many.                      *)
LEMMA FrontProperties ==
  ASSUME NEW b \in Seq(Block), NEW n \in 0 .. Len(b)
  PROVE  /\ SubSeq(b, 1, n) \in Seq(Block)
         /\ Len(SubSeq(b, 1, n)) = n
         /\ \A j \in 1 .. n : SubSeq(b, 1, n)[j] = b[j]
<1>1. \A j \in 1 .. n : b[j] \in Block
  BY ElementOfSeq
<1>2. /\ SubSeq(b, 1, n) \in Seq(Block)
      /\ Len(SubSeq(b, 1, n)) = IF 1 <= n THEN n - 1 + 1 ELSE 0
      /\ \A j \in 1 .. n - 1 + 1 : SubSeq(b, 1, n)[j] = b[1 + j - 1]
  BY <1>1, SubSeqProperties
<1>3. QED
  BY <1>2

(* A run of one block, and a sequence of one block.                        *)
LEMMA RunOfBlocks ==
  ASSUME NEW n \in Nat, NEW e \in Block
  PROVE  /\ [j \in 1 .. n |-> e] \in Seq(Block)
         /\ Len([j \in 1 .. n |-> e]) = n
         /\ <<e>> \in Seq(Block) /\ Len(<<e>>) = 1 /\ <<e>>[1] = e
<1>1. [j \in 1 .. n |-> e] \in [1 .. n -> Block]
  OBVIOUS
<1>2. QED
  BY <1>1, SeqDef

(* What is said and what is to be said can each be continued.              *)
LEMMA SaysMore ==
  ASSUME NEW w \in Seq(Block), NEW g \in Seq(Block),
         NEW v \in Seq(Block), NEW h \in Seq(Block),
         Says(w, g), Says(v, h)
  PROVE  Says(w \o v, g \o h)
<1>1. /\ Len(w \o v) = Len(w) + Len(v) /\ Len(g \o h) = Len(g) + Len(h)
      /\ \A j \in 1 .. Len(w) + Len(v) :
             (w \o v)[j] = IF j <= Len(w) THEN w[j] ELSE v[j - Len(w)]
      /\ \A j \in 1 .. Len(g) + Len(h) :
             (g \o h)[j] = IF j <= Len(g) THEN g[j] ELSE h[j - Len(g)]
  BY ConcatProperties
<1>2. Len(w) \in Nat /\ Len(v) \in Nat
  BY LenProperties
<1>3. Len(g) = Len(w) /\ Len(h) = Len(v)
  BY DEF Says
<1>4. ASSUME NEW j \in 1 .. Len(w \o v)
      PROVE  Match((w \o v)[j], (g \o h)[j])
  <2>1. CASE j <= Len(w)
    <3>1. j \in 1 .. Len(w) /\ j \in 1 .. Len(w) + Len(v)
      BY <2>1, <1>1, <1>2
    <3>2. (w \o v)[j] = w[j] /\ (g \o h)[j] = g[j]
      BY <2>1, <3>1, <1>1, <1>3
    <3>3. QED
      BY <3>1, <3>2 DEF Says
  <2>2. CASE j > Len(w)
    <3>1. j - Len(w) \in 1 .. Len(v)
      BY <2>2, <1>1, <1>2
    <3>2. Match(v[j - Len(w)], h[j - Len(w)])
      BY <3>1 DEF Says
    <3>3. (w \o v)[j] = v[j - Len(w)] /\ (g \o h)[j] = h[j - Len(w)]
      BY <2>2, <1>1, <1>2, <1>3
    <3>4. QED
      BY <3>2, <3>3
  <2>3. QED
    <3>1. j <= Len(w) \/ j > Len(w)
      BY <1>1, <1>2
    <3>2. QED
      BY <2>1, <2>2, <3>1, Zenon
<1>5. QED
  BY <1>1, <1>3, <1>4 DEF Says

(* Blocks that a reader may leave as they are can be said to be left, where *)
(* zeros were to be written for them.                                       *)
LEMMA ZerosAreDontCare ==
  ASSUME NEW w \in Seq(Block), NEW g \in Seq(Block), NEW z \in Seq(Block),
         NEW h \in Seq(Block),
         Says(w, g \o z), Len(h) = Len(z),
         \A j \in 1 .. Len(w) : w[j] # Zero,
         \A j \in 1 .. Len(z) : z[j] = Zero,
         \A j \in 1 .. Len(h) : h[j] = DontCare
  PROVE  Says(w, g \o h)
<1>1. /\ Len(g \o z) = Len(g) + Len(z) /\ Len(g \o h) = Len(g) + Len(h)
      /\ \A j \in 1 .. Len(g) + Len(z) :
             (g \o z)[j] = IF j <= Len(g) THEN g[j] ELSE z[j - Len(g)]
      /\ \A j \in 1 .. Len(g) + Len(h) :
             (g \o h)[j] = IF j <= Len(g) THEN g[j] ELSE h[j - Len(g)]
  BY ConcatProperties
<1>2. Len(g) \in Nat /\ Len(z) \in Nat
  BY LenProperties
<1>3. Len(w) = Len(g) + Len(z) /\ Len(g \o h) = Len(w)
  BY <1>1 DEF Says
<1>4. ASSUME NEW j \in 1 .. Len(w)
      PROVE  Match(w[j], (g \o h)[j])
  <2>1. Match(w[j], (g \o z)[j])
    BY DEF Says
  <2>2. CASE j <= Len(g)
    BY <2>1, <2>2, <1>1, <1>2, <1>3
  <2>3. CASE j > Len(g)
    <3>1. j - Len(g) \in 1 .. Len(z)
      BY <2>3, <1>2, <1>3
    <3>2. (g \o z)[j] = Zero /\ (g \o h)[j] = DontCare
      BY <3>1, <2>3, <1>1, <1>2, <1>3
    <3>3. w[j] = DontCare
      BY <2>1, <3>2 DEF Match
    <3>4. QED
      BY <3>2, <3>3 DEF Match
  <2>4. QED
    BY <2>2, <2>3, <1>2, <1>3
<1>5. QED
  BY <1>3, <1>4 DEF Says

(* A chunk that the loop has found, and the blocks it stands for.           *)
LEMMA ChunkProperties ==
  ASSUME TypeOK, NEW k \in 1 .. Len(input.chunks)
  PROVE  /\ input.chunks[k] \in [type : {Raw, Fill, Skip, Other}, sz : Nat]
         /\ Blocks(k) \in Seq(Block)
         /\ Len(Blocks(k)) = input.chunks[k].sz
         /\ \A j \in 1 .. input.chunks[k].sz :
                Blocks(k)[j] = CASE input.chunks[k].type = Raw -> <<k, j>>
                                 [] input.chunks[k].type = Fill -> <<k, 0>>
                                 [] OTHER -> DontCare
         /\ \A j \in 1 .. input.chunks[k].sz : Blocks(k)[j] # Zero
         /\ Read(k) \in Seq(Block)
         /\ input.missing = 0 \/ k < Len(input.chunks) => Read(k) = Blocks(k)
<1> DEFINE c == input.chunks[k]
           B(j) == CASE c.type = Raw -> <<k, j>>
                     [] c.type = Fill -> <<k, 0>>
                     [] OTHER -> DontCare
           blocks == [j \in 1 .. c.sz |-> B(j)]
<1>1. /\ input.chunks \in Seq([type : {Raw, Fill, Skip, Other}, sz : Nat])
      /\ input.missing \in Nat
  BY DEF TypeOK, Input
<1>2. c \in [type : {Raw, Fill, Skip, Other}, sz : Nat]
  BY <1>1, ElementOfSeq
<1>3. k \in Nat \ {0} /\ Len(input.chunks) \in Nat
  BY <1>1, LenProperties
<1>4. c.sz \in Nat
  BY <1>2
<1> HIDE DEF c
<1>5. \A j \in 1 .. c.sz : B(j) \in Block /\ B(j) # Zero
  BY <1>3, <1>4 DEF Block, DontCare, Zero
<1> HIDE DEF B
<1>6. blocks \in Seq(Block)
  BY <1>4, <1>5, IsASeq
<1>7. blocks \in [1 .. c.sz -> Block] /\ Len(blocks) = c.sz
  BY <1>4, <1>5
<1>8. Blocks(k) = blocks
  BY DEF Blocks, blocks, B, c
<1>9. Read(k) = IF k = Len(input.chunks) THEN SubSeq(blocks, 1, c.sz - input.missing)
                ELSE blocks
  BY <1>7, <1>8 DEF Read
<1>10. SubSeq(blocks, 1, c.sz - input.missing) \in Seq(Block)
  <2>1. \A j \in 1 .. c.sz - input.missing : blocks[j] \in Block
    BY <1>1, <1>4, <1>5
  <2>2. c.sz - input.missing \in Int
    BY <1>1, <1>4
  <2> HIDE DEF blocks
  <2>3. QED
    BY <2>1, <2>2, SubSeqProperties
<1>11. input.missing = 0 => SubSeq(blocks, 1, c.sz - input.missing) = blocks
  <2>1. c.sz - 0 = Len(blocks)
    BY <1>4, <1>7
  <2> HIDE DEF blocks
  <2>2. SubSeq(blocks, 1, Len(blocks)) = blocks
    BY <1>6, SubSeqFull
  <2>3. QED
    BY <2>1, <2>2
<1>12. \A j \in 1 .. c.sz : blocks[j] = B(j)
  OBVIOUS
<1> HIDE DEF blocks
<1>13. /\ Read(k) \in Seq(Block)
       /\ input.missing = 0 \/ k < Len(input.chunks) => Read(k) = blocks
  BY <1>3, <1>6, <1>9, <1>10, <1>11
<1>14. QED
  BY <1>2, <1>5, <1>6, <1>7, <1>8, <1>12, <1>13 DEF B, c

(* What a merge adds: the chunk's data, or zeros that stand for it.         *)
LEMMA MergeDataProperties ==
  ASSUME TypeOK, Mergeable
  PROVE  /\ MergeData \in Seq(Block)
         /\ Chunk.type = Skip \/ input.missing = 0 \/ i < Len(input.chunks)
                => Len(MergeData) = Chunk.sz
         /\ Chunk.type = Skip => \A j \in 1 .. Chunk.sz : MergeData[j] = Zero
         /\ input.missing = 0 => Says(Blocks(i), MergeData)
<1>1. i \in 1 .. Len(input.chunks)
  BY DEF TypeOK, Mergeable, Looping
<1> DEFINE c == input.chunks[i]
<1>2. Chunk = c
  BY DEF Chunk
<1>3. /\ c \in [type : {Raw, Fill, Skip, Other}, sz : Nat]
      /\ Blocks(i) \in Seq(Block) /\ Len(Blocks(i)) = c.sz
      /\ \A j \in 1 .. c.sz :
             Blocks(i)[j] = CASE c.type = Raw -> <<i, j>>
                              [] c.type = Fill -> <<i, 0>>
                              [] OTHER -> DontCare
      /\ Read(i) \in Seq(Block)
      /\ input.missing = 0 \/ i < Len(input.chunks) => Read(i) = Blocks(i)
  BY <1>1, ChunkProperties
<1>4. c.sz \in Nat
  BY <1>3
<1> HIDE DEF c
<1>5. CASE c.type = Skip
  <2>1. MergeData = [j \in 1 .. c.sz |-> Zero]
    BY <1>2, <1>5 DEF MergeData, Zeros
  <2>2. Zero \in Block
    BY DEF Zero, Block
  <2>3. [j \in 1 .. c.sz |-> Zero] \in Seq(Block)
    BY <1>4, <2>2, IsASeq
  <2>4. Len([j \in 1 .. c.sz |-> Zero]) = c.sz
    BY <1>4
  <2>5. \A j \in 1 .. c.sz : Blocks(i)[j] = DontCare
    BY <1>3, <1>5 DEF Raw, Fill, Skip
  <2>6. Says(Blocks(i), [j \in 1 .. c.sz |-> Zero])
    BY <1>3, <2>4, <2>5 DEF Says, Match
  <2>7. QED
    BY <1>2, <2>1, <2>3, <2>4, <2>6
<1>6. CASE c.type # Skip
  <2>1. MergeData = Read(i)
    BY <1>2, <1>6 DEF MergeData
  <2>2. input.missing = 0 => Says(Blocks(i), MergeData)
    BY <2>1, <1>3 DEF Says, Match
  <2>3. QED
    BY <1>2, <1>3, <1>6, <2>1, <2>2
<1>7. QED
  BY <1>5, <1>6

(* The chunk that a merge makes of the buffered one.                        *)
LEMMA MergedProperties ==
  ASSUME TypeOK, Accounting, Mergeable
  PROVE  /\ Merged \in [type : {Raw, Skip}, sz : Nat]
         /\ Merged.sz = offset + Chunk.sz
         /\ Merged.type = Skip => Chunk.type = Skip /\ (offset > 0 => acc.type = Skip)
         /\ Room \in 1 .. Align /\ offset + Room = Align
<1>1. /\ i \in 1 .. Len(input.chunks) /\ offset \in 0 .. Align - 1
      /\ remain_count \in 0 .. Align /\ result = "loop"
  BY DEF TypeOK, Mergeable, Looping
<1>2. Chunk \in [type : {Raw, Fill, Skip, Other}, sz : Nat]
  BY <1>1, ChunkProperties DEF Chunk
<1>3. offset > 0 => /\ offset + remain_count = Align /\ acc.sz = offset
                    /\ acc.type \in {Raw, Skip}
  BY <1>1 DEF Accounting
<1>4. Room \in 1 .. Align /\ offset + Room = Align
  BY <1>1, <1>3, AlignAssumption DEF Room
<1>5. Begun.sz = offset /\ (offset > 0 => Begun = acc) /\ (offset = 0 => Begun.type = Chunk.type)
  BY <1>1, <1>3 DEF Begun
<1>6. Chunk.type \in {Raw, Fill, Skip}
  BY DEF Mergeable
<1>7. Chunk.sz \in Nat /\ offset \in Nat
  BY <1>1, <1>2
<1>8. Merged = [type |-> IF Chunk.type = Skip THEN Begun.type ELSE Raw,
                sz |-> offset + Chunk.sz]
  BY <1>5 DEF Merged
<1>9. CASE offset > 0
  BY <1>3, <1>4, <1>5, <1>7, <1>8, <1>9 DEF Raw, Skip
<1>10. CASE offset = 0
  BY <1>4, <1>5, <1>7, <1>8, <1>10 DEF Raw, Skip
<1>11. QED
  BY <1>1, <1>9, <1>10

-----------------------------------------------------------------------------
(* The inductive invariant holds.                                          *)

(* What is buffered goes out as one chunk: a reader of it gets the buffered *)
(* blocks, or don't-care blocks where these are all zeros.                  *)
LEMMA BufferedChunk ==
  ASSUME NEW c, c.type \in {Raw, Skip}, NEW b \in Seq(Block), c.sz \in 0 .. Len(b),
         \/ c.body = (IF c.type # Skip THEN SubSeq(b, 1, c.sz) ELSE <<>>)
         \/ c.body = (IF c.type # Skip THEN b ELSE <<>>)
  PROVE  /\ c.body \in Seq(Block)
         /\ Decode(c) \in Seq(Block)
         /\ Len(Decode(c)) = c.sz
         /\ c.type = Raw => Decode(c) = SubSeq(b, 1, c.sz)
         /\ c.type = Skip => \A j \in 1 .. c.sz : Decode(c)[j] = DontCare
<1>1. /\ SubSeq(b, 1, c.sz) \in Seq(Block) /\ Len(SubSeq(b, 1, c.sz)) = c.sz
      /\ Len(b) \in Nat /\ c.sz \in Nat
  BY FrontProperties, LenProperties
<1>2. CASE c.type = Skip
  <2>1. Decode(c) = [j \in 1 .. c.sz |-> DontCare] /\ c.body = <<>>
    BY <1>2 DEF Decode, Raw, Fill, Skip
  <2>2. DontCare \in Block
    BY DEF DontCare, Block
  <2>3. [j \in 1 .. c.sz |-> DontCare] \in Seq(Block)
    BY <1>1, <2>2, RunOfBlocks
  <2>4. Len([j \in 1 .. c.sz |-> DontCare]) = c.sz
    BY <1>1, <2>2, RunOfBlocks
  <2>5. <<>> \in Seq(Block)
    BY EmptySeq
  <2>6. QED
    BY <1>2, <2>1, <2>3, <2>4, <2>5 DEF Raw, Skip
<1>3. CASE c.type = Raw
  <2>1. c.body \in {SubSeq(b, 1, c.sz), b}
    BY <1>3 DEF Raw, Skip
  <2>2. c.sz <= Len(c.body)
    BY <1>1, <2>1
  <2>3. Decode(c) = SubSeq(c.body, 1, c.sz)
    BY <1>3, <2>2 DEF Decode, Raw, Fill, Skip
  <2>4. CASE c.body = b
    BY <1>1, <1>3, <2>3, <2>4 DEF Raw, Skip
  <2>5. CASE c.body = SubSeq(b, 1, c.sz)
    <3>1. SubSeq(c.body, 1, c.sz) = c.body
      BY <1>1, <2>5, SubSeqFull
    <3>2. QED
      BY <1>1, <1>3, <2>3, <2>5, <3>1 DEF Raw, Skip
  <2>6. QED
    BY <2>1, <2>4, <2>5
<1>4. QED
  BY <1>2, <1>3

(* The chunk that is copied says what the chunk it was read from says.     *)
LEMMA CopiedChunk ==
  ASSUME TypeOK, i \in 1 .. Len(input.chunks), Chunk.type # Other,
         NEW c, c.type = Chunk.type, c.sz = Chunk.sz,
         c.body = CASE Chunk.type = Raw -> Read(i)
                    [] Chunk.type = Fill -> <<<<i, 0>>>>
                    [] OTHER -> <<>>
  PROVE  /\ c.body \in Seq(Block)
         /\ Decode(c) \in Seq(Block)
         /\ input.missing = 0 => Decode(c) = Blocks(i)
         /\ input.missing = 0 => Len(c.body) = CASE c.type = Raw -> c.sz
                                                 [] c.type = Fill -> 1
                                                 [] OTHER -> 0
<1> DEFINE r == Read(i)
           bl == Blocks(i)
<1>1. /\ Chunk \in [type : {Raw, Fill, Skip, Other}, sz : Nat]
      /\ bl \in Seq(Block) /\ Len(bl) = Chunk.sz
      /\ \A j \in 1 .. Chunk.sz :
             bl[j] = CASE Chunk.type = Raw -> <<i, j>>
                       [] Chunk.type = Fill -> <<i, 0>>
                       [] OTHER -> DontCare
      /\ r \in Seq(Block)
      /\ input.missing = 0 => r = bl
  BY ChunkProperties DEF Chunk
<1>2. c.sz \in Nat /\ c.type \in {Raw, Fill, Skip} /\ i \in Nat
  BY <1>1
<1> HIDE DEF r, bl
<1>3. CASE c.type = Raw
  <2>1. c.body = r
    BY <1>3 DEF r, Raw, Fill, Skip
  <2>2. Len(r) \in Nat /\ (input.missing = 0 => Len(r) = c.sz)
    BY <1>1, LenProperties
  <2>3. Decode(c) = IF c.sz <= Len(r) THEN SubSeq(r, 1, c.sz) ELSE r
    BY <1>3, <2>1 DEF Decode, Raw, Fill, Skip
  <2>4. c.sz <= Len(r) => SubSeq(r, 1, c.sz) \in Seq(Block)
    BY <1>1, <1>2, <2>2, FrontProperties
  <2>5. input.missing = 0 => SubSeq(r, 1, c.sz) = bl
    BY <1>1, <2>2, SubSeqFull
  <2>6. QED
    BY <1>1, <1>2, <1>3, <2>1, <2>2, <2>3, <2>4, <2>5 DEF bl, Raw, Fill, Skip
<1>4. CASE c.type = Fill
  <2>1. c.body = <<<<i, 0>>>> /\ <<i, 0>> \in Block
    BY <1>2, <1>4 DEF Block, Raw, Fill
  <2>2. c.body \in Seq(Block) /\ Len(c.body) = 1 /\ c.body[1] = <<i, 0>>
    BY <2>1, RunOfBlocks
  <2>3. Decode(c) = [j \in 1 .. c.sz |-> <<i, 0>>]
    BY <1>4, <2>2 DEF Decode, Raw, Fill
  <2>4. [j \in 1 .. c.sz |-> <<i, 0>>] \in Seq(Block)
    BY <1>2, <2>1, IsASeq
  <2>5. \A j \in 1 .. c.sz : bl[j] = <<i, 0>>
    BY <1>1, <1>4 DEF Raw, Fill
  <2>6. Len([j \in 1 .. c.sz |-> <<i, 0>>]) = c.sz
    BY <1>2
  <2>7. Decode(c) = bl
    BY <1>1, <2>3, <2>4, <2>5, <2>6, SeqEqual
  <2>8. QED
    BY <1>4, <2>2, <2>3, <2>4, <2>7 DEF bl, Raw, Fill
<1>5. CASE c.type = Skip
  <2>1. c.body = <<>>
    BY <1>5 DEF Raw, Fill, Skip
  <2>2. Decode(c) = [j \in 1 .. c.sz |-> DontCare]
    BY <1>5 DEF Decode, Raw, Fill, Skip
  <2>3. DontCare \in Block
    BY DEF DontCare, Block
  <2>4. [j \in 1 .. c.sz |-> DontCare] \in Seq(Block)
    BY <1>2, <2>3, IsASeq
  <2>5. \A j \in 1 .. c.sz : bl[j] = DontCare
    BY <1>1, <1>5 DEF Raw, Fill, Skip
  <2>6. Len([j \in 1 .. c.sz |-> DontCare]) = c.sz
    BY <1>2
  <2>7. Decode(c) = bl
    BY <1>1, <2>2, <2>4, <2>5, <2>6, SeqEqual
  <2>8. c.body \in Seq(Block) /\ Len(c.body) = 0
    BY <2>1, EmptySeq
  <2>9. QED
    BY <1>5, <2>2, <2>4, <2>7, <2>8 DEF bl, Raw, Fill, Skip
<1>6. QED
  BY <1>2, <1>3, <1>4, <1>5

LEMMA EmitProperties ==
  ASSUME out \in Seq(Written), decoded \in Seq(Block), out_total_chunks = Len(out),
         NEW c \in Written, Decode(c) \in Seq(Block), Emit(c)
  PROVE  /\ out' \in Seq(Written) /\ Len(out') = Len(out) + 1
         /\ out_total_chunks' = Len(out')
         /\ \A k \in 1 .. Len(out) : out'[k] = out[k]
         /\ out'[Len(out) + 1] = c
         /\ decoded' \in Seq(Block) /\ decoded' = decoded \o Decode(c)
<1>1. out' = Append(out, c) /\ out_total_chunks' = out_total_chunks + 1
  BY DEF Emit
<1>2. decoded' = decoded \o Decode(c)
  BY DEF Emit
<1>3. decoded' \in Seq(Block)
  BY <1>2, ConcatProperties
<1>4. QED
  BY <1>1, <1>2, <1>3, AppendProperties

(* Init establishes the invariant.                                         *)
LEMMA InitIInv == Init => IInv
<1> SUFFICES ASSUME Init PROVE IInv
  OBVIOUS
<1> USE AlignAssumption
<1>1. input \in Input
  BY InputAssumption DEF Init
<1>2. Len(input.chunks) \in Nat
  BY <1>1, LenProperties DEF Input
<1>3. buffer = [j \in 1 .. Align |-> Zero] /\ Zero \in Block
  BY DEF Init, Zeros, Zero, Block
<1>4. buffer \in Seq(Block) /\ Len(buffer) = Align
  BY <1>3, RunOfBlocks
<1>5. TypeOK
  BY <1>1, <1>2 DEF Init, TypeOK, Raw, Fill, Skip
<1>6. HistoryOK
  BY <1>4 DEF Init, HistoryOK
<1>7. Accounting /\ WholeBuffer /\ Stopped
  BY <1>4 DEF Init, Accounting, WholeBuffer, Stopped
<1>8. QED
  BY <1>5, <1>6, <1>7 DEF IInv

LEMMA CopyChunkIInv == IInv /\ CopyChunk => IInv'
<1> SUFFICES ASSUME IInv, CopyChunk PROVE IInv'
  OBVIOUS
<1> USE AlignAssumption
<1>1. TypeOK /\ HistoryOK /\ WholeBuffer
  BY DEF IInv
<1>2. /\ i \in 1 .. Len(input.chunks) /\ Chunk.type # Other /\ offset = 0
      /\ result = "loop"
      /\ i' = i + 1 /\ acc' = [type |-> Chunk.type, sz |-> 0]
      /\ remain_count' = Align /\ consumed' = consumed \o Blocks(i)
      /\ UNCHANGED <<input, offset, buffer, result>>
  BY <1>1 DEF CopyChunk, Looping, Begun, TypeOK
<1>3. PICK c : /\ c = [type |-> Chunk.type, sz |-> Chunk.sz,
                       body |-> CASE Chunk.type = Raw -> Read(i)
                                  [] Chunk.type = Fill -> <<<<i, 0>>>>
                                  [] OTHER -> <<>>]
               /\ Emit(c)
  BY DEF CopyChunk
<1>4. Chunk \in [type : {Raw, Fill, Skip, Other}, sz : Nat]
  BY <1>1, <1>2, ChunkProperties DEF Chunk
<1>5. Blocks(i) \in Seq(Block)
  BY <1>1, <1>2, ChunkProperties
<1>6. c.body \in Seq(Block) /\ Decode(c) \in Seq(Block)
  <2>1. /\ c.type = Chunk.type /\ c.sz = Chunk.sz
        /\ c.body = CASE Chunk.type = Raw -> Read(i)
                      [] Chunk.type = Fill -> <<<<i, 0>>>>
                      [] OTHER -> <<>>
    BY <1>3
  <2>2. QED
    BY <1>1, <1>2, <2>1, CopiedChunk
<1>7. c \in Written
  <2>1. c = [type |-> c.type, sz |-> c.sz, body |-> c.body]
    BY <1>3
  <2>2. c.type \in Kind /\ c.sz \in Nat
    BY <1>2, <1>3, <1>4 DEF Kind
  <2>3. QED
    BY <2>1, <2>2, <1>6 DEF Written
<1>8. /\ out' \in Seq(Written) /\ out_total_chunks' = Len(out')
      /\ decoded' \in Seq(Block)
  BY <1>1, <1>3, <1>6, <1>7, EmitProperties DEF HistoryOK, TypeOK
<1>9. Len(input.chunks) \in Nat
  BY <1>1, LenProperties DEF TypeOK, Input
<1>10. TypeOK'
  BY <1>1, <1>2, <1>4, <1>8, <1>9 DEF TypeOK
<1>11. HistoryOK'
  BY <1>1, <1>2, <1>5, <1>8, ConcatProperties DEF HistoryOK
<1>12. Accounting' /\ WholeBuffer' /\ Stopped'
  BY <1>1, <1>2, <1>9 DEF Accounting, WholeBuffer, Stopped
<1>13. QED
  BY <1>10, <1>11, <1>12 DEF IInv

(* What FlushBefore and Finish write for the buffered blocks.              *)
LEMMA FlushedProperties ==
  ASSUME IInv, result # "exception", offset > 0, input.missing = 0 \/ Len(buffer) = Align,
         NEW c, c.type = acc.type, c.sz = acc.sz,
         \/ c.body = (IF acc.type # Skip THEN SubSeq(buffer, 1, offset) ELSE <<>>)
         \/ c.body = (IF acc.type # Skip THEN buffer ELSE <<>>)
  PROVE  /\ c.body \in Seq(Block)
         /\ Decode(c) \in Seq(Block)
         /\ c.sz = offset /\ c.type \in {Raw, Skip}
         /\ Len(Decode(c)) = offset
         /\ c.type = Raw => Decode(c) = SubSeq(buffer, 1, offset)
         /\ c.type = Skip => /\ \A j \in 1 .. offset : Decode(c)[j] = DontCare
                             /\ \A j \in 1 .. offset : buffer[j] = Zero
<1>1. /\ c.sz = offset /\ c.type \in {Raw, Skip}
      /\ acc.type = Skip => \A j \in 1 .. offset : buffer[j] = Zero
  BY DEF IInv, Accounting
<1>2. buffer \in Seq(Block) /\ Len(buffer) = Align
  BY DEF IInv, HistoryOK, Accounting
<1>3. c.sz \in 0 .. Len(buffer)
  BY <1>1, <1>2 DEF IInv, TypeOK
<1>4. \/ c.body = (IF c.type # Skip THEN SubSeq(buffer, 1, c.sz) ELSE <<>>)
      \/ c.body = (IF c.type # Skip THEN buffer ELSE <<>>)
  BY <1>1
<1>5. QED
  BY <1>1, <1>2, <1>3, <1>4, BufferedChunk

(* A chunk of raw or of don't-care blocks can be read, cut short or not.   *)
LEMMA DecodeType ==
  ASSUME NEW c, c.type \in {Raw, Skip}, c.sz \in Nat, c.body \in Seq(Block)
  PROVE  Decode(c) \in Seq(Block)
<1>1. CASE c.type = Skip
  <2>1. Decode(c) = [j \in 1 .. c.sz |-> DontCare] /\ DontCare \in Block
    BY <1>1 DEF Decode, Raw, Fill, Skip, DontCare, Block
  <2>2. QED
    BY <2>1, RunOfBlocks
<1>2. CASE c.type = Raw
  <2>1. Decode(c) = IF c.sz <= Len(c.body) THEN SubSeq(c.body, 1, c.sz) ELSE c.body
    BY <1>2 DEF Decode, Raw, Fill, Skip
  <2>2. Len(c.body) \in Nat
    BY LenProperties
  <2>3. QED
    BY <2>1, <2>2, FrontProperties
<1>3. QED
  BY <1>1, <1>2

LEMMA FlushBeforeIInv == IInv /\ FlushBefore => IInv'
<1> SUFFICES ASSUME IInv, FlushBefore PROVE IInv'
  OBVIOUS
<1> USE AlignAssumption
<1>1. TypeOK /\ HistoryOK /\ WholeBuffer
  BY DEF IInv
<1>2. /\ i \in 1 .. Len(input.chunks) /\ offset > 0 /\ result = "loop"
      /\ offset' = 0
      /\ UNCHANGED <<input, i, remain_count, acc, buffer, result, consumed>>
  BY <1>1 DEF FlushBefore, Looping, TypeOK
<1>3. PICK c : /\ c = [type |-> acc.type, sz |-> acc.sz,
                       body |-> IF acc.type # Skip THEN SubSeq(buffer, 1, offset) ELSE <<>>]
               /\ Emit(c)
  BY DEF FlushBefore
<1>4. Len(buffer) = Align
  BY <1>1, <1>2 DEF WholeBuffer
<1>5. c.body \in Seq(Block) /\ Decode(c) \in Seq(Block) /\ c.sz = offset
  <2>1. /\ c.type = acc.type /\ c.sz = acc.sz
        /\ c.body = IF acc.type # Skip THEN SubSeq(buffer, 1, offset) ELSE <<>>
    BY <1>3
  <2>2. QED
    BY <1>2, <1>4, <2>1, FlushedProperties
<1>6. c \in Written
  <2>1. c = [type |-> c.type, sz |-> c.sz, body |-> c.body]
    BY <1>3
  <2>2. c.type \in Kind /\ c.sz \in Nat
    BY <1>1, <1>3 DEF Kind, TypeOK
  <2>3. QED
    BY <2>1, <2>2, <1>5 DEF Written
<1>7. /\ out' \in Seq(Written) /\ out_total_chunks' = Len(out')
      /\ decoded' \in Seq(Block)
  BY <1>1, <1>3, <1>5, <1>6, EmitProperties DEF HistoryOK, TypeOK
<1>8. TypeOK'
  BY <1>1, <1>2, <1>7 DEF TypeOK
<1>9. HistoryOK'
  BY <1>1, <1>2, <1>7 DEF HistoryOK
<1>10. Accounting' /\ WholeBuffer' /\ Stopped'
  BY <1>1, <1>2 DEF Accounting, WholeBuffer, Stopped
<1>11. QED
  BY <1>8, <1>9, <1>10 DEF IInv

LEMMA FillRaisesIInv == IInv /\ FillRaises => IInv'
<1> SUFFICES ASSUME IInv, FillRaises PROVE IInv'
  OBVIOUS
<1> USE AlignAssumption
<1>1. TypeOK /\ HistoryOK /\ WholeBuffer /\ Accounting
  BY DEF IInv
<1>2. /\ i \in 1 .. Len(input.chunks) /\ result = "loop" /\ result' = "exception"
      /\ Chunk.type = Fill
      /\ acc' = Merged /\ remain_count' = Room
      /\ UNCHANGED <<input, i, offset, buffer, out, out_total_chunks, consumed, decoded>>
  BY <1>1 DEF FillRaises, Looping, TypeOK
<1>3. Chunk \in [type : {Raw, Fill, Skip, Other}, sz : Nat]
  BY <1>1, <1>2, ChunkProperties DEF Chunk
<1>4. Merged \in [type : {Raw, Fill, Skip, "none"}, sz : Nat]
  <2>1. Begun.sz \in Nat
    BY <1>1 DEF Begun, TypeOK
  <2>2. Merged = [type |-> Raw, sz |-> Begun.sz + Chunk.sz]
    BY <1>2 DEF Merged, Fill, Skip
  <2>3. QED
    BY <1>3, <2>1, <2>2
<1>5. Room \in 0 .. Align
  BY <1>1 DEF Room, TypeOK
<1>6. TypeOK'
  BY <1>1, <1>2, <1>4, <1>5 DEF TypeOK
<1>7. HistoryOK' /\ Accounting' /\ WholeBuffer' /\ Stopped'
  BY <1>1, <1>2 DEF HistoryOK, Accounting, WholeBuffer, Stopped
<1>8. QED
  BY <1>6, <1>7 DEF IInv

(* A merge, whether or not it fills the buffer, leaves in the buffer what  *)
(* was buffered, followed by the data merged.                               *)
LEMMA MergeBuffer ==
  ASSUME IInv, Mergeable, Chunk.sz <= Room,
         NEW b, \/ b = Assigned(buffer, offset, offset + Chunk.sz, MergeData)
                \/ Chunk.sz = Room /\ b = Assigned(buffer, offset, Len(buffer), MergeData)
  PROVE  /\ b \in Seq(Block)
         /\ input.missing = 0 \/ i < Len(input.chunks) => Len(b) = Align
         /\ \A j \in 1 .. offset : b[j] = buffer[j]
         /\ Merged.type = Skip => \A j \in 1 .. offset + Chunk.sz : b[j] = Zero
         /\ input.missing = 0 =>
                SubSeq(b, 1, offset + Chunk.sz) = SubSeq(buffer, 1, offset) \o MergeData
<1> USE AlignAssumption
<1>1. TypeOK /\ HistoryOK /\ WholeBuffer /\ Accounting
  BY DEF IInv
<1>2. i \in 1 .. Len(input.chunks) /\ result = "loop" /\ offset \in Nat
  BY <1>1 DEF Mergeable, Looping, TypeOK
<1>3. Chunk.sz \in Nat
  <2>1. Chunk \in [type : {Raw, Fill, Skip, Other}, sz : Nat]
    BY <1>1, <1>2, ChunkProperties DEF Chunk
  <2>2. QED
    BY <2>1
<1>4. Len(buffer) = Align /\ buffer \in Seq(Block)
  BY <1>1, <1>2 DEF WholeBuffer, HistoryOK
<1>5. Room \in 1 .. Align /\ offset + Room = Align
  BY <1>1, MergedProperties
<1>6. PICK z \in Nat : /\ b = Assigned(buffer, offset, z, MergeData)
                       /\ z = offset + Chunk.sz
  BY <1>2, <1>3, <1>4, <1>5
<1> DEFINE d == MergeData
<1>7. /\ d \in Seq(Block)
      /\ Chunk.type = Skip \/ input.missing = 0 \/ i < Len(input.chunks)
             => Len(d) = Chunk.sz
      /\ Chunk.type = Skip => \A j \in 1 .. Chunk.sz : d[j] = Zero
  BY <1>1, MergeDataProperties
<1> HIDE DEF d
<1>8. offset <= z /\ z <= Len(buffer)
  BY <1>2, <1>3, <1>4, <1>5, <1>6
<1>9. /\ b \in Seq(Block)
      /\ Len(b) = offset + Len(d) + (Len(buffer) - z)
      /\ \A j \in 1 .. offset : b[j] = buffer[j]
      /\ \A j \in 1 .. Len(d) : b[offset + j] = d[j]
      /\ SubSeq(b, 1, offset + Len(d)) = SubSeq(buffer, 1, offset) \o d
  <2>1. b = Assigned(buffer, offset, z, d)
    BY <1>6 DEF d
  <2>2. d \in Seq(Block) /\ offset \in Nat /\ z \in Nat
    BY <1>2, <1>6, <1>7
  <2> DEFINE a == Assigned(buffer, offset, z, d)
  <2>3. /\ a \in Seq(Block)
        /\ Len(a) = offset + Len(d) + (Len(buffer) - z)
        /\ \A j \in 1 .. offset : a[j] = buffer[j]
        /\ \A j \in 1 .. Len(d) : a[offset + j] = d[j]
        /\ SubSeq(a, 1, offset + Len(d)) = SubSeq(buffer, 1, offset) \o d
    BY <2>2, <1>4, <1>8, AssignedProperties
  <2> HIDE DEF a
  <2>4. b = a
    BY <2>1 DEF a
  <2>5. QED
    BY <2>3, <2>4
<1>10. input.missing = 0 \/ i < Len(input.chunks) => Len(b) = Align
  BY <1>2, <1>3, <1>4, <1>6, <1>7, <1>9
<1>11. ASSUME Merged.type = Skip, NEW j \in 1 .. offset + Chunk.sz
       PROVE  b[j] = Zero
  <2>1. Chunk.type = Skip /\ (offset > 0 => acc.type = Skip)
    BY <1>1, <1>11, MergedProperties
  <2>2. \A n \in 1 .. offset : buffer[n] = Zero
    BY <1>1, <1>2, <2>1 DEF Accounting
  <2>3. CASE j <= offset
    BY <2>2, <2>3, <1>2, <1>9
  <2>4. CASE j > offset
    <3>1. j - offset \in 1 .. Chunk.sz /\ offset + (j - offset) = j
      BY <2>4, <1>2, <1>3
    <3>2. b[offset + (j - offset)] = d[j - offset] /\ d[j - offset] = Zero
      BY <3>1, <2>1, <1>7, <1>9
    <3>3. QED
      BY <3>1, <3>2
  <2>5. QED
    BY <2>3, <2>4, <1>2
<1>12. QED
  BY <1>7, <1>9, <1>10, <1>11 DEF d

LEMMA MergeIInv == IInv /\ Merge => IInv'
<1> SUFFICES ASSUME IInv, Merge PROVE IInv'
  OBVIOUS
<1> USE AlignAssumption
<1>1. TypeOK /\ HistoryOK /\ WholeBuffer /\ Accounting
  BY DEF IInv
<1>2. /\ Mergeable /\ Chunk.sz < Room
      /\ acc' = Merged /\ offset' = offset + Chunk.sz /\ remain_count' = Room - Chunk.sz
      /\ i' = i + 1 /\ consumed' = consumed \o Blocks(i)
      /\ UNCHANGED <<input, out, out_total_chunks, result, decoded>>
  BY DEF Merge
<1>3. i \in 1 .. Len(input.chunks) /\ result = "loop"
  BY <1>1, <1>2 DEF Mergeable, Looping, TypeOK
<1>4. Chunk.sz \in Nat /\ Blocks(i) \in Seq(Block)
  <2>1. Chunk \in [type : {Raw, Fill, Skip, Other}, sz : Nat]
    BY <1>1, <1>3, ChunkProperties DEF Chunk
  <2>2. QED
    BY <1>1, <1>3, <2>1, ChunkProperties
<1>5. /\ Merged \in [type : {Raw, Skip}, sz : Nat]
      /\ Merged.sz = offset + Chunk.sz
      /\ Room \in 1 .. Align /\ offset + Room = Align
  BY <1>1, <1>2, MergedProperties
<1>6. buffer' = Assigned(buffer, offset, offset + Chunk.sz, MergeData)
  BY DEF Merge, Assign, Assigned
<1>7. /\ buffer' \in Seq(Block)
      /\ input.missing = 0 \/ i < Len(input.chunks) => Len(buffer') = Align
      /\ Merged.type = Skip => \A j \in 1 .. offset + Chunk.sz : buffer'[j] = Zero
  <2>1. Chunk.sz <= Room
    BY <1>2, <1>4, <1>5
  <2>2. QED
    BY <1>2, <1>6, <2>1, MergeBuffer
<1>8. offset \in Nat /\ Len(input.chunks) \in Nat
  BY <1>1, LenProperties DEF TypeOK, Input
<1>9. offset' \in 0 .. Align - 1 /\ remain_count' \in 0 .. Align /\ offset' + remain_count' = Align
  <2>1. /\ offset + Chunk.sz \in 0 .. Align - 1 /\ Room - Chunk.sz \in 0 .. Align
        /\ (offset + Chunk.sz) + (Room - Chunk.sz) = Align
    <3>1. Room \in Int /\ Chunk.sz < Room
      BY <1>2, <1>5
    <3>2. QED
      BY <1>4, <1>5, <1>8, <3>1
  <2>2. QED
    BY <1>2, <2>1
<1>10. TypeOK'
  <2>1. acc' \in [type : {Raw, Fill, Skip, "none"}, sz : Nat]
    BY <1>2, <1>5
  <2>2. QED
    BY <1>1, <1>2, <1>3, <1>8, <1>9, <2>1 DEF TypeOK
<1>11. HistoryOK'
  BY <1>1, <1>2, <1>4, <1>7, ConcatProperties DEF HistoryOK
<1>12. Accounting'
  <2>1. acc'.sz = offset' /\ acc'.type \in {Raw, Skip}
    BY <1>2, <1>5
  <2>2. acc'.type = Skip => \A j \in 1 .. offset' : buffer'[j] = Zero
    BY <1>2, <1>7
  <2>3. input'.missing = 0 => Len(buffer') = Align
    BY <1>2, <1>7
  <2>4. QED
    BY <1>9, <2>1, <2>2, <2>3 DEF Accounting
<1>13. WholeBuffer' /\ Stopped'
  BY <1>2, <1>3, <1>7, <1>8 DEF WholeBuffer, Stopped
<1>14. QED
  BY <1>10, <1>11, <1>12, <1>13 DEF IInv

(* The chunk that a merge which fills the buffer writes.                   *)
LEMMA FullBuffer ==
  ASSUME IInv, MergeAndFlush
  PROVE  /\ Mergeable /\ offset > 0 /\ Chunk.sz = Room
         /\ i \in 1 .. Len(input.chunks) /\ result = "loop"
         /\ offset + Chunk.sz = Align /\ Blocks(i) \in Seq(Block)
         /\ buffer' \in Seq(Block)
         /\ input.missing = 0 \/ i < Len(input.chunks) => Len(buffer') = Align
         /\ Merged.type = Skip => \A j \in 1 .. Align : buffer'[j] = Zero
         /\ input.missing = 0 =>
                SubSeq(buffer', 1, Align) = SubSeq(buffer, 1, offset) \o MergeData
         /\ \E c \in Written :
                /\ Emit(c)
                /\ c = [type |-> Merged.type, sz |-> Align,
                        body |-> IF Merged.type # Skip THEN buffer' ELSE <<>>]
                /\ Decode(c) \in Seq(Block) /\ c.type \in {Raw, Skip}
<1>1. TypeOK /\ HistoryOK /\ WholeBuffer /\ Accounting
  BY DEF IInv
<1>2. Mergeable /\ offset > 0 /\ Chunk.sz = remain_count /\ Room = remain_count
  BY <1>1 DEF MergeAndFlush, Room, TypeOK
<1>3. i \in 1 .. Len(input.chunks) /\ result = "loop"
  BY <1>1, <1>2 DEF Mergeable, Looping, TypeOK
<1>4. Chunk.sz \in Nat /\ Blocks(i) \in Seq(Block)
  <2>1. Chunk \in [type : {Raw, Fill, Skip, Other}, sz : Nat]
    BY <1>1, <1>3, ChunkProperties DEF Chunk
  <2>2. QED
    BY <1>1, <1>3, <2>1, ChunkProperties
<1>5. /\ Merged \in [type : {Raw, Skip}, sz : Nat]
      /\ Merged.sz = offset + Chunk.sz
      /\ Room \in 1 .. Align /\ offset + Room = Align
  BY <1>1, <1>2, MergedProperties
<1>6. offset + Chunk.sz = Align
  BY <1>2, <1>5
<1>7. buffer' = Assigned(buffer, offset, Len(buffer), MergeData)
  BY DEF MergeAndFlush, Assign, Assigned
<1>8. /\ buffer' \in Seq(Block)
      /\ input.missing = 0 \/ i < Len(input.chunks) => Len(buffer') = Align
      /\ Merged.type = Skip => \A j \in 1 .. offset + Chunk.sz : buffer'[j] = Zero
      /\ input.missing = 0 =>
             SubSeq(buffer', 1, offset + Chunk.sz) = SubSeq(buffer, 1, offset) \o MergeData
  <2>1. Chunk.sz <= Room /\ Chunk.sz = Room
    BY <1>2, <1>4
  <2>2. QED
    BY <1>2, <1>7, <2>1, MergeBuffer
<1>9. PICK c : /\ c = [type |-> Merged.type, sz |-> Merged.sz,
                       body |-> IF Merged.type # Skip THEN buffer' ELSE <<>>]
               /\ Emit(c)
  BY DEF MergeAndFlush
<1>10. /\ c = [type |-> c.type, sz |-> c.sz, body |-> c.body]
       /\ c.type \in {Raw, Skip} /\ c.sz = Align /\ c.sz \in Nat
       /\ c.body \in {buffer', <<>>}
  BY <1>5, <1>6, <1>9, AlignAssumption
<1>11. c.body \in Seq(Block)
  BY <1>8, <1>10, EmptySeq
<1>12. c \in Written /\ Decode(c) \in Seq(Block)
  <2>1. Decode(c) \in Seq(Block)
    BY <1>10, <1>11, DecodeType
  <2>2. c \in Written
    BY <1>10, <1>11 DEF Written, Kind
  <2>3. QED
    BY <2>1, <2>2
<1>13. QED
  BY <1>2, <1>3, <1>4, <1>5, <1>6, <1>8, <1>9, <1>10, <1>12

LEMMA MergeAndFlushIInv == IInv /\ MergeAndFlush => IInv'
<1> SUFFICES ASSUME IInv, MergeAndFlush PROVE IInv'
  OBVIOUS
<1> USE AlignAssumption
<1>1. TypeOK /\ HistoryOK /\ WholeBuffer /\ Accounting
  BY DEF IInv
<1>2. /\ acc' = Merged /\ offset' = 0 /\ remain_count' = 0
      /\ i' = i + 1 /\ consumed' = consumed \o Blocks(i)
      /\ UNCHANGED <<input, result>>
  BY DEF MergeAndFlush
<1>3. /\ Mergeable /\ i \in 1 .. Len(input.chunks) /\ result = "loop"
      /\ Blocks(i) \in Seq(Block) /\ buffer' \in Seq(Block)
      /\ input.missing = 0 \/ i < Len(input.chunks) => Len(buffer') = Align
  BY FullBuffer
<1>4. PICK c \in Written : Emit(c) /\ Decode(c) \in Seq(Block)
  BY FullBuffer
<1>5. /\ out' \in Seq(Written) /\ out_total_chunks' = Len(out')
      /\ decoded' \in Seq(Block)
  BY <1>1, <1>4, EmitProperties DEF HistoryOK, TypeOK
<1>6. Merged \in [type : {Raw, Skip}, sz : Nat]
  BY <1>1, <1>3, MergedProperties
<1>7. Len(input.chunks) \in Nat
  BY <1>1, LenProperties DEF TypeOK, Input
<1>8. TypeOK'
  <2>1. acc' \in [type : {Raw, Fill, Skip, "none"}, sz : Nat]
    BY <1>2, <1>6
  <2>2. QED
    BY <1>1, <1>2, <1>3, <1>5, <1>7, <2>1 DEF TypeOK
<1>9. HistoryOK'
  BY <1>1, <1>2, <1>3, <1>5, ConcatProperties DEF HistoryOK
<1>10. Accounting' /\ WholeBuffer' /\ Stopped'
  BY <1>2, <1>3, <1>7 DEF Accounting, WholeBuffer, Stopped
<1>11. QED
  BY <1>8, <1>9, <1>10 DEF IInv

LEMMA FinishIInv == IInv /\ Finish => IInv'
<1> SUFFICES ASSUME IInv, Finish PROVE IInv'
  OBVIOUS
<1> USE AlignAssumption
<1>1. TypeOK /\ HistoryOK /\ WholeBuffer /\ Accounting /\ Stopped
  BY DEF IInv
<1>2. /\ result = "flush" \/ (result = "loop" /\ i > input.total)
      /\ offset' = 0 /\ result' = "done"
      /\ UNCHANGED <<input, i, remain_count, acc, buffer, consumed>>
  BY DEF Finish
<1>3. /\ out' \in Seq(Written) /\ out_total_chunks' = Len(out')
      /\ decoded' \in Seq(Block)
  <2>1. CASE offset > 0
    <3>1. PICK c : /\ c = [type |-> acc.type, sz |-> acc.sz,
                           body |-> IF acc.type # Skip THEN buffer ELSE <<>>]
                   /\ Emit(c)
      BY <2>1 DEF Finish
    <3>2. /\ c = [type |-> c.type, sz |-> c.sz, body |-> c.body]
          /\ c.type \in {Raw, Skip} /\ c.sz \in Nat /\ c.body \in {buffer, <<>>}
      BY <1>1, <1>2, <2>1, <3>1 DEF Accounting, TypeOK
    <3>3. c.body \in Seq(Block)
      BY <1>1, <3>2, EmptySeq DEF HistoryOK
    <3>4. Decode(c) \in Seq(Block)
      BY <3>2, <3>3, DecodeType
    <3>5. c \in Written
      BY <3>2, <3>3 DEF Written, Kind
    <3>6. QED
      BY <1>1, <3>1, <3>4, <3>5, EmitProperties DEF HistoryOK, TypeOK
  <2>2. CASE ~(offset > 0)
    BY <1>1, <2>2 DEF Finish, HistoryOK, TypeOK
  <2>3. QED
    BY <2>1, <2>2
<1>4. TypeOK'
  BY <1>1, <1>2, <1>3 DEF TypeOK
<1>5. HistoryOK'
  BY <1>1, <1>2, <1>3 DEF HistoryOK
<1>6. Accounting' /\ WholeBuffer'
  BY <1>1, <1>2 DEF Accounting, WholeBuffer
<1>7. Stopped'
  BY <1>1, <1>2 DEF Stopped, Chunk
<1>8. QED
  BY <1>4, <1>5, <1>6, <1>7 DEF IInv

(* Every step of the tool preserves the invariant.                         *)
LEMMA NextIInv == IInv /\ [Next]_vars => IInv'
<1> SUFFICES ASSUME IInv, [Next]_vars PROVE IInv'
  OBVIOUS
<1>1. CASE HeaderMissing
  BY <1>1 DEF HeaderMissing, IInv, TypeOK, HistoryOK, Accounting, WholeBuffer, Stopped
<1>2. CASE UnknownChunk
  <2>1. i <= Len(input.chunks) /\ Chunk.type = Other /\ result = "loop" /\ result' = "flush"
    BY <1>2 DEF UnknownChunk, Looping
  <2>2. UNCHANGED <<input, i, offset, remain_count, acc, buffer, out,
                    out_total_chunks, consumed, decoded>>
    BY <1>2 DEF UnknownChunk
  <2>3. QED
    BY <2>1, <2>2 DEF IInv, TypeOK, HistoryOK, Accounting, WholeBuffer, Stopped, Chunk
<1>3. CASE UNCHANGED vars
  BY <1>3 DEF vars, IInv, TypeOK, HistoryOK, Accounting, WholeBuffer, Stopped, Chunk
<1>4. QED
  BY <1>1, <1>2, <1>3, CopyChunkIInv, FlushBeforeIInv, FillRaisesIInv, MergeIInv,
     MergeAndFlushIInv, FinishIInv DEF Next

LEMMA Invariant == Spec => []IInv
<1>1. QED
  BY InitIInv, NextIInv, PTL DEF Spec

(* The tool's variables have their types, whatever the file: `offset' stays *)
(* inside the unit and total_chunks counts the chunks written.              *)
THEOREM TypeCorrect == Spec => []TypeOK
<1>1. IInv => TypeOK
  BY DEF IInv
<1>2. QED
  BY <1>1, Invariant, PTL

(* sparse_tool.py:56-155: after every chunk and every seek back, offset and *)
(* remain_count make up the unit, chunk_sz counts what is buffered, and what *)
(* is buffered of don't-care chunks alone is zeros.                          *)
THEOREM AccountingHolds == Spec => []Accounting
<1>1. IInv => Accounting
  BY DEF IInv
<1>2. QED
  BY <1>1, Invariant, PTL

(* A chunk is written for at least one that was read: merging never adds to *)
(* the chunks of a file, however often the loop seeks back.                 *)
THEOREM ChunksDoNotGrow == Spec => []NeverMoreChunks
<1>1. Init => NeverMoreChunks
  BY DEF Init, NeverMoreChunks
<1>2. IInv /\ NeverMoreChunks /\ [Next]_vars => NeverMoreChunks'
  <2> SUFFICES ASSUME IInv, NeverMoreChunks, [Next]_vars PROVE NeverMoreChunks'
    OBVIOUS
  <2>1. /\ Len(out) \in Nat /\ i \in Nat /\ offset \in Nat
        /\ out \in Seq(Written)
    BY LenProperties DEF IInv, TypeOK, HistoryOK, Input
  <2>2. \A c : Emit(c) => Len(out') = Len(out) + 1
    BY <2>1 DEF Emit
  <2>3. ASSUME CopyChunk PROVE NeverMoreChunks'
    <3>1. Len(out') = Len(out) + 1 /\ i' = i + 1 /\ offset' = offset /\ offset = 0
      BY <2>2, <2>3 DEF CopyChunk
    <3>2. QED
      BY <2>1, <3>1 DEF NeverMoreChunks
  <2>4. ASSUME FlushBefore PROVE NeverMoreChunks'
    <3>1. Len(out') = Len(out) + 1 /\ i' = i /\ offset' = 0 /\ offset > 0
      BY <2>2, <2>4 DEF FlushBefore
    <3>2. QED
      BY <2>1, <3>1 DEF NeverMoreChunks
  <2>5. ASSUME Merge PROVE NeverMoreChunks'
    <3>1. out' = out /\ i' = i + 1
      BY <2>5 DEF Merge
    <3>2. QED
      BY <2>1, <3>1 DEF NeverMoreChunks
  <2>6. ASSUME MergeAndFlush PROVE NeverMoreChunks'
    <3>1. Len(out') = Len(out) + 1 /\ i' = i + 1 /\ offset' = 0 /\ offset > 0
      BY <2>2, <2>6 DEF MergeAndFlush
    <3>2. QED
      BY <2>1, <3>1 DEF NeverMoreChunks
  <2>7. ASSUME Finish PROVE NeverMoreChunks'
    <3>1. /\ i' = i /\ offset' = 0
          /\ IF offset > 0 THEN Len(out') = Len(out) + 1 ELSE out' = out
      BY <2>2, <2>7 DEF Finish
    <3>2. QED
      BY <2>1, <3>1 DEF NeverMoreChunks
  <2>8. ASSUME HeaderMissing \/ UnknownChunk \/ FillRaises \/ UNCHANGED vars
        PROVE  NeverMoreChunks'
    BY <2>8 DEF HeaderMissing, UnknownChunk, FillRaises, vars, NeverMoreChunks
  <2>9. QED
    BY <2>3, <2>4, <2>5, <2>6, <2>7, <2>8 DEF Next
<1>3. QED
  BY <1>1, <1>2, Invariant, PTL DEF Spec

-----------------------------------------------------------------------------
(* What a reader of the output finds.                                      *)

\* The blocks after chunk c of the output are those its header speaks of.
Fits(c) ==
    Len(c.body) = CASE c.type = Raw -> c.sz [] c.type = Fill -> 1 [] OTHER -> 0

(* One more chunk that fits, and nothing else changed of the output.       *)
LEMMA EmitAligned ==
  ASSUME IInv, AlignedSoFar, result # "done", input.missing = 0,
         NEW c \in Written, Decode(c) \in Seq(Block), Emit(c), Fits(c)
  PROVE  \A k \in 1 .. Len(out') : Fits(out'[k])
<1>1. /\ Len(out') = Len(out) + 1
      /\ \A k \in 1 .. Len(out) : out'[k] = out[k]
      /\ out'[Len(out) + 1] = c
  BY EmitProperties DEF IInv, HistoryOK, TypeOK
<1>2. Len(out) \in Nat
  BY LenProperties DEF IInv, HistoryOK
<1>3. \A k \in 1 .. Len(out) : Fits(out[k])
  BY DEF AlignedSoFar, Fits
<1>4. QED
  BY <1>1, <1>2, <1>3

LEMMA AlignedStep ==
  ASSUME IInv, AlignedSoFar, Aligned, [Next]_vars
  PROVE  AlignedSoFar' /\ Aligned'
<1> SUFFICES ASSUME input'.missing = 0
             PROVE  AlignedSoFar' /\ Aligned'
  BY DEF AlignedSoFar, Aligned
<1>1. TypeOK /\ HistoryOK /\ WholeBuffer /\ Accounting
  BY DEF IInv
<1>2. input' = input
  BY DEF Next, vars, HeaderMissing, UnknownChunk, CopyChunk, FlushBefore, FillRaises,
     Merge, MergeAndFlush, Finish
<1>3. ASSUME result' # "done", \A k \in 1 .. Len(out') : Fits(out'[k])
      PROVE  AlignedSoFar' /\ Aligned'
  BY <1>3 DEF AlignedSoFar, Aligned, Fits
<1>4. CASE CopyChunk
  <2>1. /\ i \in 1 .. Len(input.chunks) /\ Chunk.type # Other
        /\ result = "loop" /\ result' = "loop"
    BY <1>1, <1>4 DEF CopyChunk, Looping, TypeOK
  <2>2. PICK c : /\ c = [type |-> Chunk.type, sz |-> Chunk.sz,
                         body |-> CASE Chunk.type = Raw -> Read(i)
                                    [] Chunk.type = Fill -> <<<<i, 0>>>>
                                    [] OTHER -> <<>>]
                 /\ Emit(c)
    BY <1>4 DEF CopyChunk
  <2>3. /\ c.type = Chunk.type /\ c.sz = Chunk.sz
        /\ c.body = CASE Chunk.type = Raw -> Read(i)
                      [] Chunk.type = Fill -> <<<<i, 0>>>>
                      [] OTHER -> <<>>
        /\ c = [type |-> c.type, sz |-> c.sz, body |-> c.body]
    BY <2>2
  <2>4. c.body \in Seq(Block) /\ Decode(c) \in Seq(Block) /\ Fits(c)
    BY <1>1, <1>2, <2>1, <2>3, CopiedChunk DEF Fits
  <2>5. c \in Written
    <3>1. Chunk \in [type : {Raw, Fill, Skip, Other}, sz : Nat]
      BY <1>1, <2>1, ChunkProperties DEF Chunk
    <3>2. c.type \in Kind /\ c.sz \in Nat
      BY <2>1, <2>3, <3>1 DEF Kind
    <3>3. QED
      BY <2>3, <2>4, <3>2 DEF Written
  <2>6. QED
    BY <1>2, <1>3, <2>1, <2>2, <2>4, <2>5, EmitAligned
<1>5. CASE FlushBefore
  <2>1. /\ i \in 1 .. Len(input.chunks) /\ offset > 0
        /\ result = "loop" /\ result' = "loop"
    BY <1>1, <1>5 DEF FlushBefore, Looping, TypeOK
  <2>2. PICK c : /\ c = [type |-> acc.type, sz |-> acc.sz,
                         body |-> IF acc.type # Skip THEN SubSeq(buffer, 1, offset) ELSE <<>>]
                 /\ Emit(c)
    BY <1>5 DEF FlushBefore
  <2>3. /\ c = [type |-> c.type, sz |-> c.sz, body |-> c.body]
        /\ c.type = acc.type /\ c.sz = acc.sz
        /\ c.body = IF acc.type # Skip THEN SubSeq(buffer, 1, offset) ELSE <<>>
    BY <2>2
  <2>4. c.body \in Seq(Block) /\ Decode(c) \in Seq(Block)
        /\ c.sz = offset /\ c.type \in {Raw, Skip}
    BY <1>2, <2>1, <2>3, FlushedProperties
  <2>5. Fits(c)
    <3>1. offset \in 0 .. Len(buffer) /\ buffer \in Seq(Block)
      BY <1>1, <2>1 DEF WholeBuffer, TypeOK, HistoryOK
    <3>2. Len(SubSeq(buffer, 1, offset)) = offset
      BY <3>1, FrontProperties
    <3>3. QED
      BY <2>3, <2>4, <3>2 DEF Fits, Raw, Fill, Skip
  <2>6. c \in Written
    BY <1>1, <2>3, <2>4 DEF Written, Kind, TypeOK
  <2>7. QED
    BY <1>2, <1>3, <2>1, <2>2, <2>4, <2>5, <2>6, EmitAligned
<1>6. CASE MergeAndFlush
  <2>1. /\ result = "loop" /\ result' = "loop" /\ Len(buffer') = Align
        /\ result' # "done" /\ result # "done"
    BY <1>2, <1>6, FullBuffer DEF MergeAndFlush
  <2>2. PICK c \in Written :
                /\ Emit(c)
                /\ c = [type |-> Merged.type, sz |-> Align,
                        body |-> IF Merged.type # Skip THEN buffer' ELSE <<>>]
                /\ Decode(c) \in Seq(Block) /\ c.type \in {Raw, Skip}
    BY <1>6, FullBuffer
  <2>3. Fits(c)
    BY <2>1, <2>2 DEF Fits, Raw, Fill, Skip
  <2>4. QED
    BY <1>2, <1>3, <2>1, <2>2, <2>3, EmitAligned
<1>7. CASE Finish
  <2>1. result' = "done" /\ result \in {"loop", "flush"}
    BY <1>7 DEF Finish
  <2>2. \A k \in 1 .. Len(out) : Fits(out[k])
    BY <1>2, <2>1 DEF AlignedSoFar, Fits
  <2>3. CASE offset > 0
    <3>1. PICK c : /\ c = [type |-> acc.type, sz |-> acc.sz,
                           body |-> IF acc.type # Skip THEN buffer ELSE <<>>]
                   /\ Emit(c)
      BY <1>7, <2>3 DEF Finish
    <3>2. /\ c = [type |-> c.type, sz |-> c.sz, body |-> c.body]
          /\ c.type = acc.type /\ c.sz = acc.sz
          /\ c.body = IF acc.type # Skip THEN buffer ELSE <<>>
      BY <3>1
    <3>3. /\ c.body \in Seq(Block) /\ Decode(c) \in Seq(Block)
          /\ c.sz = offset /\ c.type \in {Raw, Skip}
      BY <1>2, <2>1, <2>3, <3>2, FlushedProperties
    <3>4. c \in Written
      BY <1>1, <3>2, <3>3 DEF Written, Kind, TypeOK
    <3>5. Fits(c) \/ Len(c.body) = Align
      BY <1>1, <1>2, <2>1, <2>3, <3>2, <3>3 DEF Accounting, Fits, Raw, Fill, Skip
    <3>6. /\ Len(out') = Len(out) + 1 /\ Len(out) \in Nat
          /\ \A k \in 1 .. Len(out) : out'[k] = out[k]
          /\ out'[Len(out) + 1] = c
      BY <1>1, <3>1, <3>3, <3>4, EmitProperties, LenProperties DEF HistoryOK, TypeOK
    <3>7. \A k \in 1 .. Len(out') :
              Fits(out'[k]) \/ (k = Len(out') /\ Len(out'[k].body) = Align)
      BY <2>2, <3>5, <3>6
    <3>8. QED
      BY <2>1, <3>7 DEF AlignedSoFar, Aligned, Fits
  <2>4. CASE ~(offset > 0)
    <3>1. out' = out
      BY <1>7, <2>4 DEF Finish
    <3>2. QED
      BY <2>1, <2>2, <3>1 DEF AlignedSoFar, Aligned, Fits
  <2>5. QED
    BY <2>3, <2>4
<1>8. CASE HeaderMissing \/ UnknownChunk \/ FillRaises \/ Merge \/ UNCHANGED vars
  <2>1. out' = out /\ (result' = result \/ (result = "loop" /\ result' # "done"))
    BY <1>8 DEF HeaderMissing, UnknownChunk, FillRaises, Merge, vars, Looping
  <2>2. QED
    BY <1>2, <2>1 DEF AlignedSoFar, Aligned
<1>9. QED
  BY <1>4, <1>5, <1>6, <1>7, <1>8 DEF Next

(* sparse_tool.py:83-169: a reader of the output finds each header where the *)
(* one before it says, and only the last chunk has blocks too many.          *)
THEOREM HeadersAreFound == Spec => []Aligned
<1>1. Init => AlignedSoFar /\ Aligned
  BY DEF Init, AlignedSoFar, Aligned
<1>2. QED
  BY <1>1, AlignedStep, Invariant, PTL DEF Spec

-----------------------------------------------------------------------------
(* What the output says.                                                   *)

(* No block that has been taken from the input is the block of zeros.      *)
LEMMA NoZerosStep == IInv /\ NoZeros /\ [Next]_vars => NoZeros'
<1> SUFFICES ASSUME IInv, NoZeros, [Next]_vars PROVE NoZeros'
  OBVIOUS
<1>1. TypeOK /\ consumed \in Seq(Block)
  BY DEF IInv, HistoryOK
<1>2. ASSUME consumed' = consumed \o Blocks(i), i \in 1 .. Len(input.chunks)
      PROVE  NoZeros'
  <2> DEFINE b == Blocks(i)
  <2>1. /\ b \in Seq(Block) /\ Len(b) = input.chunks[i].sz
        /\ \A j \in 1 .. input.chunks[i].sz : b[j] # Zero
    BY <1>1, <1>2, ChunkProperties
  <2>2. consumed' = consumed \o b
    BY <1>2
  <2> HIDE DEF b
  <2>3. /\ Len(consumed') = Len(consumed) + Len(b)
        /\ \A j \in 1 .. Len(consumed) + Len(b) :
               consumed'[j] = IF j <= Len(consumed) THEN consumed[j]
                                                    ELSE b[j - Len(consumed)]
    BY <1>1, <2>1, <2>2, ConcatProperties
  <2>4. Len(consumed) \in Nat /\ Len(b) \in Nat
    BY <1>1, <2>1, LenProperties
  <2>5. ASSUME NEW j \in 1 .. Len(consumed) + Len(b)
        PROVE  consumed'[j] # Zero
    <3>1. CASE j <= Len(consumed)
      BY <3>1, <2>3, <2>4 DEF NoZeros
    <3>2. CASE j > Len(consumed)
      <4>1. j - Len(consumed) \in 1 .. Len(b)
        BY <3>2, <2>4
      <4>2. QED
        BY <3>2, <4>1, <2>1, <2>3, <2>4
    <3>3. QED
      BY <3>1, <3>2, <2>4
  <2>6. QED
    BY <2>3, <2>5 DEF NoZeros
<1>3. ASSUME consumed' = consumed PROVE NoZeros'
  BY <1>3 DEF NoZeros
<1>4. CASE CopyChunk
  BY <1>1, <1>2, <1>4 DEF CopyChunk, Looping, TypeOK
<1>5. CASE Merge
  BY <1>1, <1>2, <1>5 DEF Merge, Mergeable, Looping, TypeOK
<1>6. CASE MergeAndFlush
  BY <1>1, <1>2, <1>6 DEF MergeAndFlush, Mergeable, Looping, TypeOK
<1>7. CASE HeaderMissing \/ UnknownChunk \/ FlushBefore \/ FillRaises \/ Finish \/ UNCHANGED vars
  BY <1>3, <1>7 DEF HeaderMissing, UnknownChunk, FlushBefore, FillRaises, Finish, vars
<1>8. QED
  BY <1>4, <1>5, <1>6, <1>7 DEF Next

(* ConcatAssociative, for sequences of blocks.                             *)
LEMMA Regroup ==
  ASSUME NEW s \in Seq(Block), NEW t \in Seq(Block), NEW u \in Seq(Block)
  PROVE  (s \o t) \o u = s \o (t \o u)
BY ConcatAssociative, SMTT(30)

(* Blocks that have been taken may be put in the buffer or in the output.  *)
LEMMA SaidMore ==
  ASSUME IInv, input.missing = 0, Says(consumed, Said), Len(buffer) = Align,
         i \in 1 .. Len(input.chunks),
         NEW d \in Seq(Block), Says(Blocks(i), d)
  PROVE  Says(consumed \o Blocks(i), decoded \o (SubSeq(buffer, 1, offset) \o d))
<1> DEFINE front == SubSeq(buffer, 1, offset)
           b == Blocks(i)
<1>1. front \in Seq(Block)
  BY FrontProperties DEF IInv, TypeOK, HistoryOK
<1>2. consumed \in Seq(Block) /\ decoded \in Seq(Block)
  BY DEF IInv, HistoryOK
<1>3. b \in Seq(Block)
  BY ChunkProperties DEF IInv
<1>4. Says(consumed, decoded \o front) /\ Says(b, d)
  BY DEF Said
<1> HIDE DEF front, b
<1>5. decoded \o front \in Seq(Block)
  BY <1>1, <1>2, ConcatProperties
<1>6. Says(consumed \o b, (decoded \o front) \o d)
  BY <1>2, <1>3, <1>4, <1>5, SaysMore
<1>7. (decoded \o front) \o d = decoded \o (front \o d)
  BY <1>1, <1>2, Regroup
<1>8. QED
  BY <1>6, <1>7 DEF front, b

(* The buffered blocks may be written as a chunk.                          *)
LEMMA BufferedSaid ==
  ASSUME IInv, NoZeros, result # "exception", offset > 0, input.missing = 0,
         Says(consumed, Said),
         NEW c, c.type = acc.type, c.sz = acc.sz,
         \/ c.body = (IF acc.type # Skip THEN SubSeq(buffer, 1, offset) ELSE <<>>)
         \/ c.body = (IF acc.type # Skip THEN buffer ELSE <<>>)
  PROVE  Says(consumed, decoded \o Decode(c))
<1> DEFINE front == SubSeq(buffer, 1, offset)
           dec == Decode(c)
<1>1. /\ dec \in Seq(Block) /\ Len(dec) = offset /\ c.type \in {Raw, Skip}
      /\ c.type = Raw => dec = front
      /\ c.type = Skip => /\ \A j \in 1 .. offset : dec[j] = DontCare
                          /\ \A j \in 1 .. offset : buffer[j] = Zero
  BY FlushedProperties
<1>2. offset \in 0 .. Len(buffer) /\ buffer \in Seq(Block)
  BY DEF IInv, TypeOK, HistoryOK, Accounting
<1>3. /\ front \in Seq(Block) /\ Len(front) = offset
      /\ \A j \in 1 .. offset : front[j] = buffer[j]
  BY <1>2, FrontProperties
<1>4. Says(consumed, decoded \o front)
  BY DEF Said
<1>5. consumed \in Seq(Block) /\ decoded \in Seq(Block)
  BY DEF IInv, HistoryOK
<1> HIDE DEF front, dec
<1>6. CASE c.type = Raw
  BY <1>1, <1>4, <1>6 DEF dec
<1>7. CASE c.type = Skip
  <2>1. \A j \in 1 .. Len(front) : front[j] = Zero
    BY <1>1, <1>3, <1>7
  <2>2. Len(dec) = Len(front) /\ \A j \in 1 .. Len(dec) : dec[j] = DontCare
    BY <1>1, <1>3, <1>7
  <2>3. \A j \in 1 .. Len(consumed) : consumed[j] # Zero
    BY DEF NoZeros
  <2>4. Says(consumed, decoded \o dec)
    BY <1>1, <1>3, <1>4, <1>5, <2>1, <2>2, <2>3, ZerosAreDontCare
  <2>5. QED
    BY <2>4 DEF dec
<1>8. QED
  BY <1>1, <1>6, <1>7

\* Nothing is buffered: the output alone is what is said.
LEMMA NothingBuffered ==
  ASSUME NEW d \in Seq(Block), NEW b
  PROVE  d \o SubSeq(b, 1, 0) = d
<1>1. SubSeq(b, 1, 0) = <<>>
  BY SubSeqEmpty
<1>2. QED
  BY <1>1, ConcatEmptySeq

LEMMA FaithfulStep == IInv /\ NoZeros /\ NoZeros' /\ IInv' /\ Faithful /\ [Next]_vars => Faithful'
<1> SUFFICES ASSUME IInv, NoZeros, NoZeros', IInv', Faithful, [Next]_vars PROVE Faithful'
  OBVIOUS
<1>1. input' = input
  BY DEF Next, vars, HeaderMissing, UnknownChunk, CopyChunk, FlushBefore, FillRaises,
     Merge, MergeAndFlush, Finish
<1> SUFFICES ASSUME input.missing = 0 PROVE Faithful'
  BY <1>1 DEF Faithful
<1>2. Says(consumed, Said)
  BY DEF Faithful, Says
<1>3. Says(consumed', Said') => Faithful'
  BY DEF Faithful, Says, Match
<1>4. TypeOK /\ HistoryOK /\ WholeBuffer /\ Accounting /\ Len(buffer) = Align
  BY DEF IInv, WholeBuffer
<1>5. /\ consumed \in Seq(Block) /\ decoded \in Seq(Block) /\ buffer \in Seq(Block)
      /\ decoded' \in Seq(Block) /\ offset \in Nat
  BY <1>4 DEF HistoryOK, TypeOK, IInv
<1>6. offset = 0 => Said = decoded
  BY <1>5, NothingBuffered DEF Said
<1>7. offset' = 0 => Said' = decoded'
  BY <1>5, NothingBuffered DEF Said
<1>8. CASE CopyChunk
  <2>1. /\ i \in 1 .. Len(input.chunks) /\ Chunk.type # Other
        /\ offset = 0 /\ offset' = 0 /\ consumed' = consumed \o Blocks(i)
    BY <1>4, <1>8 DEF CopyChunk, Looping, TypeOK
  <2>2. PICK c : /\ c = [type |-> Chunk.type, sz |-> Chunk.sz,
                         body |-> CASE Chunk.type = Raw -> Read(i)
                                    [] Chunk.type = Fill -> <<<<i, 0>>>>
                                    [] OTHER -> <<>>]
                 /\ decoded' = decoded \o Decode(c)
    BY <1>8 DEF CopyChunk, Emit
  <2>3. /\ c.type = Chunk.type /\ c.sz = Chunk.sz
        /\ c.body = CASE Chunk.type = Raw -> Read(i)
                      [] Chunk.type = Fill -> <<<<i, 0>>>>
                      [] OTHER -> <<>>
    BY <2>2
  <2>4. Decode(c) = Blocks(i)
    BY <1>4, <2>1, <2>3, CopiedChunk
  <2>5. Blocks(i) \in Seq(Block)
    BY <1>4, <2>1, ChunkProperties
  <2>6. Says(Blocks(i), Blocks(i))
    BY DEF Says, Match
  <2>7. Says(consumed \o Blocks(i), decoded \o Blocks(i))
    BY <1>2, <1>5, <1>6, <2>1, <2>5, <2>6, SaysMore
  <2>8. QED
    BY <1>3, <1>7, <2>1, <2>2, <2>4, <2>7
<1>9. CASE FlushBefore
  <2>1. /\ offset > 0 /\ result # "exception" /\ offset' = 0 /\ consumed' = consumed
    BY <1>9 DEF FlushBefore, Looping
  <2>2. PICK c : /\ c = [type |-> acc.type, sz |-> acc.sz,
                         body |-> IF acc.type # Skip THEN SubSeq(buffer, 1, offset) ELSE <<>>]
                 /\ decoded' = decoded \o Decode(c)
    BY <1>9 DEF FlushBefore, Emit
  <2>3. /\ c.type = acc.type /\ c.sz = acc.sz
        /\ c.body = IF acc.type # Skip THEN SubSeq(buffer, 1, offset) ELSE <<>>
    BY <2>2
  <2>4. Says(consumed, decoded \o Decode(c))
    BY <1>2, <2>1, <2>3, BufferedSaid
  <2>5. QED
    BY <1>3, <1>7, <2>1, <2>2, <2>4
<1>10. CASE Merge
  <2>1. /\ Mergeable /\ Chunk.sz < Room /\ offset' = offset + Chunk.sz
        /\ consumed' = consumed \o Blocks(i) /\ decoded' = decoded
        /\ buffer' = Assigned(buffer, offset, offset + Chunk.sz, MergeData)
    BY <1>10 DEF Merge, Assign, Assigned
  <2>2. i \in 1 .. Len(input.chunks)
    BY <1>4, <2>1 DEF Mergeable, Looping, TypeOK
  <2>3. Chunk.sz <= Room
    <3>1. Chunk.sz \in Nat /\ Room \in Nat
      <4>1. Chunk \in [type : {Raw, Fill, Skip, Other}, sz : Nat]
        BY <1>4, <2>2, ChunkProperties DEF Chunk
      <4>2. QED
        BY <4>1, <1>4, <2>1, MergedProperties
    <3>2. QED
      BY <2>1, <3>1
  <2>4. SubSeq(buffer', 1, offset + Chunk.sz) = SubSeq(buffer, 1, offset) \o MergeData
    BY <2>1, <2>3, MergeBuffer
  <2>5. MergeData \in Seq(Block) /\ Says(Blocks(i), MergeData)
    BY <1>4, <2>1, MergeDataProperties
  <2>6. Says(consumed \o Blocks(i), decoded \o (SubSeq(buffer, 1, offset) \o MergeData))
    BY <1>2, <1>4, <2>2, <2>5, SaidMore
  <2>7. Said' = decoded \o (SubSeq(buffer, 1, offset) \o MergeData)
    BY <2>1, <2>4 DEF Said
  <2>8. QED
    BY <1>3, <2>1, <2>6, <2>7
<1>11. CASE MergeAndFlush
  <2>1. /\ Mergeable /\ i \in 1 .. Len(input.chunks)
        /\ buffer' \in Seq(Block) /\ Len(buffer') = Align
        /\ Merged.type = Skip => \A j \in 1 .. Align : buffer'[j] = Zero
        /\ SubSeq(buffer', 1, Align) = SubSeq(buffer, 1, offset) \o MergeData
    BY <1>11, FullBuffer
  <2>2. offset' = 0 /\ consumed' = consumed \o Blocks(i)
    BY <1>11 DEF MergeAndFlush
  <2>3. PICK c \in Written :
                /\ Emit(c)
                /\ c = [type |-> Merged.type, sz |-> Align,
                        body |-> IF Merged.type # Skip THEN buffer' ELSE <<>>]
                /\ Decode(c) \in Seq(Block) /\ c.type \in {Raw, Skip}
    BY <1>11, FullBuffer
  <2>4. MergeData \in Seq(Block) /\ Says(Blocks(i), MergeData)
    BY <1>4, <2>1, MergeDataProperties
  <2>5. SubSeq(buffer', 1, Align) = buffer'
    BY <2>1, SubSeqFull
  <2>6. Says(consumed', decoded \o buffer')
    BY <1>2, <1>4, <2>1, <2>2, <2>4, <2>5, SaidMore
  <2>7. decoded' = decoded \o Decode(c)
    BY <2>3 DEF Emit
  <2>8. /\ c.sz = Align /\ c.sz \in 0 .. Len(buffer')
        /\ c.body = IF c.type # Skip THEN buffer' ELSE <<>>
        /\ c.type = Merged.type
    BY <2>1, <2>3, AlignAssumption
  <2>9. /\ c.type = Raw => Decode(c) = SubSeq(buffer', 1, Align)
        /\ Len(Decode(c)) = Align
        /\ c.type = Skip => \A j \in 1 .. Align : Decode(c)[j] = DontCare
    <3>1. PICK b : b = buffer'
      OBVIOUS
    <3>2. /\ b \in Seq(Block) /\ c.sz \in 0 .. Len(b) /\ c.type \in {Raw, Skip}
          /\ c.body = IF c.type # Skip THEN b ELSE <<>>
      BY <2>1, <2>3, <2>8, <3>1
    <3>3. /\ c.type = Raw => Decode(c) = SubSeq(b, 1, c.sz)
          /\ Len(Decode(c)) = c.sz
          /\ c.type = Skip => \A j \in 1 .. c.sz : Decode(c)[j] = DontCare
      BY <3>2, BufferedChunk
    <3>4. QED
      BY <2>8, <3>1, <3>3
  <2>10. CASE c.type = Raw
    BY <1>3, <1>7, <2>2, <2>5, <2>6, <2>7, <2>9, <2>10
  <2>11. CASE c.type = Skip
    <3> DEFINE dec == Decode(c)
    <3>1. /\ \A j \in 1 .. Len(consumed') : consumed'[j] # Zero
          /\ consumed' \in Seq(Block)
      BY DEF NoZeros, IInv, HistoryOK
    <3>2. \A j \in 1 .. Len(buffer') : buffer'[j] = Zero
      BY <2>1, <2>8, <2>11
    <3>3. dec \in Seq(Block) /\ Len(dec) = Len(buffer') /\ \A j \in 1 .. Len(dec) : dec[j] = DontCare
      BY <2>1, <2>3, <2>9, <2>11
    <3> HIDE DEF dec
    <3>4. Says(consumed', decoded \o dec)
      BY <1>5, <2>1, <2>6, <3>1, <3>2, <3>3, ZerosAreDontCare
    <3>5. QED
      BY <1>3, <1>7, <2>2, <2>7, <3>4 DEF dec
  <2>12. QED
    BY <2>3, <2>10, <2>11
<1>12. CASE Finish
  <2>1. result # "exception" /\ offset' = 0 /\ consumed' = consumed
    BY <1>12 DEF Finish
  <2>2. CASE offset > 0
    <3>1. PICK c : /\ c = [type |-> acc.type, sz |-> acc.sz,
                           body |-> IF acc.type # Skip THEN buffer ELSE <<>>]
                   /\ decoded' = decoded \o Decode(c)
      BY <1>12, <2>2 DEF Finish, Emit
    <3>2. /\ c.type = acc.type /\ c.sz = acc.sz
          /\ c.body = IF acc.type # Skip THEN buffer ELSE <<>>
      BY <3>1
    <3>3. Says(consumed, decoded \o Decode(c))
      BY <1>2, <2>1, <2>2, <3>2, BufferedSaid
    <3>4. QED
      BY <1>3, <1>7, <2>1, <3>1, <3>3
  <2>3. CASE ~(offset > 0)
    <3>1. offset = 0 /\ decoded' = decoded
      BY <1>5, <1>12, <2>3 DEF Finish
    <3>2. QED
      BY <1>2, <1>3, <1>6, <1>7, <2>1, <3>1
  <2>4. QED
    BY <2>2, <2>3
<1>13. CASE HeaderMissing \/ UnknownChunk \/ FillRaises \/ UNCHANGED vars
  <2>1. consumed' = consumed /\ decoded' = decoded /\ buffer' = buffer /\ offset' = offset
    BY <1>13 DEF HeaderMissing, UnknownChunk, FillRaises, vars
  <2>2. QED
    BY <1>2, <1>3, <2>1 DEF Said
<1>14. QED
  BY <1>8, <1>9, <1>10, <1>11, <1>12, <1>13 DEF Next

(* sparse_tool.py main(): for every unit and every file with all its data, *)
(* the output so far and the buffer say what the chunks taken from the      *)
(* input say, block for block, through copies, merges, flushes and seeks.   *)
THEOREM OutputIsFaithful == Spec => []Faithful
<1>1. Init => NoZeros /\ Faithful
  <2> SUFFICES ASSUME Init PROVE NoZeros /\ Faithful
    OBVIOUS
  <2>1. consumed = <<>> /\ decoded = <<>> /\ offset = 0
    BY DEF Init
  <2>2. Said = <<>>
    BY <2>1, EmptySeq, NothingBuffered DEF Said
  <2>3. QED
    BY <2>1, <2>2 DEF NoZeros, Faithful
<1>2. QED
  BY <1>1, NoZerosStep, FaithfulStep, Invariant, PTL DEF Spec

(* sparse_tool.py:56-75,157-169: the tool ends well only when every chunk   *)
(* claimed has been taken or an unknown one stopped it, and then every block *)
(* that was taken is in the output.                                         *)
THEOREM NothingIsLeftBehind == Spec => []Complete
<1>1. IInv /\ Faithful => Complete
  <2> SUFFICES ASSUME IInv, Faithful, result = "done" PROVE Complete
    BY DEF Complete
  <2>1. offset = 0 /\ (i > input.total \/ (i <= Len(input.chunks) /\ Chunk.type = Other))
    BY DEF IInv, Stopped
  <2>2. Said = decoded
    BY <2>1, NothingBuffered DEF Said, IInv, HistoryOK
  <2>3. QED
    BY <2>1, <2>2 DEF Complete, Faithful
<1>2. QED
  BY <1>1, OutputIsFaithful, Invariant, PTL
=============================================================================
