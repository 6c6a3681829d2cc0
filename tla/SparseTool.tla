----------------------------- MODULE SparseTool -----------------------------
(***************************************************************************)
(* sparse_tool.py: rewrites an Android sparse image so that runs of small  *)
(* chunks become one raw chunk of at most align_unit.  Sizes are counted   *)
(* in blocks (blk_sz divides the alignment unit).  A block is named by the *)
(* chunk it comes from and its place in it, <<k, j>>, so that a block lost,*)
(* repeated, moved or left over from an earlier chunk shows.               *)
(***************************************************************************)
EXTENDS Integers, Sequences

CONSTANTS
    Align,      \* align_unit * 1024, in blocks
    Inputs      \* the input files: chunks, claimed chunk count, missing blocks

ASSUME AlignAssumption == Align \in Nat \ {0}

Raw == "CAC1"
Fill == "CAC2"
Skip == "CAC3"      \* "don't care"
Other == "CAC4"     \* any type the tool does not know

\* chunks: what the file holds.  total: total_chunks of its header.
\* missing: how many of the last chunk's blocks the file is too short for.
Input ==
    [chunks : Seq([type : {Raw, Fill, Skip, Other}, sz : Nat]),
     total : Nat, missing : Nat]

ASSUME InputAssumption ==
    \A f \in Inputs : f \in Input

VARIABLES
    input,      \* the file read; never changes
    i,          \* the chunk the next header read finds, from 1
    offset, remain_count,
    acc,        \* chunk_struct: type and chunk_sz
    buffer,     \* the bytearray, as a sequence of blocks
    out,        \* chunks written: header type and size, and what follows it
    out_total_chunks,
    result,     \* "loop", "flush", "done" or "exception"
    consumed,   \* history: the blocks the chunks taken from the input stand for
    decoded     \* history: the blocks a reader of the output gets

vars == <<input, i, offset, remain_count, acc, buffer, out, out_total_chunks,
          result, consumed, decoded>>

Zero == <<0, 0>>        \* a block of zeros
DontCare == <<0, 1>>    \* a block a reader may leave as it is

\* The blocks that chunk k of the input stands for.
Blocks(k) ==
    LET c == input.chunks[k] IN
    [j \in 1 .. c.sz |-> CASE c.type = Raw -> <<k, j>>
                           [] c.type = Fill -> <<k, 0>>
                           [] OTHER -> DontCare]

\* fin.read(data_sz): short at the end of a truncated file.
Read(k) ==
    LET whole == Blocks(k) IN
    IF k = Len(input.chunks) THEN SubSeq(whole, 1, Len(whole) - input.missing)
    ELSE whole

Zeros(n) == [j \in 1 .. n |-> Zero]

\* The blocks a reader takes from a chunk of the output, if it has them.
Decode(c) ==
    CASE c.type = Raw -> IF c.sz <= Len(c.body) THEN SubSeq(c.body, 1, c.sz) ELSE c.body
      [] c.type = Fill -> [j \in 1 .. c.sz |-> c.body[1]]
      [] OTHER -> [j \in 1 .. c.sz |-> DontCare]

\* buffer[a:b] = data
Assign(a, b, data) ==
    buffer' = SubSeq(buffer, 1, a) \o data \o SubSeq(buffer, b + 1, Len(buffer))

Emit(c) ==
    /\ out' = Append(out, c)
    /\ out_total_chunks' = out_total_chunks + 1
    /\ decoded' = decoded \o Decode(c)

Init ==
    /\ input \in Inputs
    /\ i = 1
    /\ offset = 0
    /\ remain_count = Align
    /\ acc = [type |-> "none", sz |-> 0]
    /\ buffer = Zeros(Align)
    /\ out = <<>>
    /\ out_total_chunks = 0
    /\ result = "loop"
    /\ consumed = <<>>
    /\ decoded = <<>>

-----------------------------------------------------------------------------
\* while i < total_chunks, with a header to read.
Chunk == input.chunks[i]
Looping == result = "loop" /\ i <= input.total /\ i <= Len(input.chunks)

\* What the iteration starts from: an empty buffer is set up anew.
Room == IF offset = 0 THEN Align ELSE remain_count
Begun == IF offset = 0 THEN [type |-> Chunk.type, sz |-> 0] ELSE acc

\* The header is not there: struct.unpack raises.
HeaderMissing ==
    /\ result = "loop"
    /\ i <= input.total /\ i > Len(input.chunks)
    /\ result' = "exception"
    /\ UNCHANGED <<input, i, offset, remain_count, acc, buffer, out,
                   out_total_chunks, consumed, decoded>>

UnknownChunk ==
    /\ Looping
    /\ Chunk.type = Other
    /\ result' = "flush"
    /\ UNCHANGED <<input, i, offset, remain_count, acc, buffer, out,
                   out_total_chunks, consumed, decoded>>

\* Seeded fault: a chunk of exactly one unit is left to the merge.
CopyLargerChunk ==
    /\ Looping
    /\ Chunk.type # Other
    /\ offset = 0
    /\ Chunk.sz > Align
    /\ Emit([type |-> Chunk.type, sz |-> Chunk.sz,
             body |-> CASE Chunk.type = Raw -> Read(i)
                        [] Chunk.type = Fill -> <<<<i, 0>>>>
                        [] OTHER -> <<>>])
    /\ i' = i + 1
    /\ acc' = Begun
    /\ remain_count' = Align
    /\ consumed' = consumed \o Blocks(i)
    /\ UNCHANGED <<input, offset, buffer, result>>

\* Nothing is buffered and the chunk is a unit or more: copied as it is.
CopyChunk ==
    /\ Looping
    /\ Chunk.type # Other
    /\ offset = 0
    /\ Chunk.sz >= Align
    /\ Emit([type |-> Chunk.type, sz |-> Chunk.sz,
             body |-> CASE Chunk.type = Raw -> Read(i)
                        [] Chunk.type = Fill -> <<<<i, 0>>>>
                        [] OTHER -> <<>>])
    /\ i' = i + 1
    /\ acc' = Begun
    /\ remain_count' = Align
    /\ consumed' = consumed \o Blocks(i)
    /\ UNCHANGED <<input, offset, buffer, result>>

\* Seeded fault: the buffered chunk is flushed with the whole buffer behind it.
FlushWholeBuffer ==
    /\ Looping
    /\ Chunk.type # Other
    /\ offset > 0
    /\ Chunk.sz > remain_count
    /\ Emit([type |-> acc.type, sz |-> acc.sz,
             body |-> IF acc.type # Skip THEN buffer ELSE <<>>])
    /\ offset' = 0
    /\ UNCHANGED <<input, i, remain_count, acc, buffer, result, consumed>>

\* The chunk does not fit: what is buffered goes out, and the seek back makes
\* the next iteration read the same chunk again.
FlushBefore ==
    /\ Looping
    /\ Chunk.type # Other
    /\ offset > 0
    /\ Chunk.sz > remain_count
    /\ Emit([type |-> acc.type, sz |-> acc.sz,
             body |-> IF acc.type # Skip THEN SubSeq(buffer, 1, offset) ELSE <<>>])
    /\ offset' = 0
    /\ UNCHANGED <<input, i, remain_count, acc, buffer, result, consumed>>

\* Seeded fault: chunk_struct[0] keeps the type of the first chunk.
MergedKeepsType == [type |-> Begun.type, sz |-> Begun.sz + Chunk.sz]

\* The part of a merge the two branches share: the chunk is added to the
\* buffered one, which becomes raw unless there are only don't-care chunks.
Merged ==
    [type |-> IF Chunk.type = Skip THEN Begun.type ELSE Raw,
     sz |-> Begun.sz + Chunk.sz]

\* A fill chunk of any size: fill_value is the tuple struct.unpack returns,
\* and "fill_value % 256" raises.
FillRaises ==
    /\ Looping
    /\ Chunk.type = Fill /\ Chunk.sz > 0
    /\ Chunk.sz < Room \/ (Chunk.sz = Room /\ offset > 0)
    /\ acc' = Merged
    /\ remain_count' = Room
    /\ result' = "exception"
    /\ UNCHANGED <<input, i, offset, buffer, out, out_total_chunks, consumed, decoded>>

Mergeable ==
    /\ Looping
    /\ Chunk.type \in {Raw, Skip} \/ (Chunk.type = Fill /\ Chunk.sz = 0)

\* Seeded fault: the zeros of a don't-care chunk are not written to the buffer.
MergeDataStale ==
    IF Chunk.type = Skip THEN SubSeq(buffer, offset + 1, offset + Chunk.sz) ELSE Read(i)

MergeData == IF Chunk.type = Skip THEN Zeros(Chunk.sz) ELSE Read(i)

\* Seeded fault: a chunk that fills the buffer is merged and not flushed.
MergeFits ==
    /\ Mergeable
    /\ Chunk.sz <= Room
    /\ acc' = Merged
    /\ Assign(offset, offset + Chunk.sz, MergeData)
    /\ offset' = offset + Chunk.sz
    /\ remain_count' = Room - Chunk.sz
    /\ i' = i + 1
    /\ consumed' = consumed \o Blocks(i)
    /\ UNCHANGED <<input, out, out_total_chunks, result, decoded>>

\* The chunk leaves room in the buffer.
Merge ==
    /\ Mergeable
    /\ Chunk.sz < Room
    /\ acc' = Merged
    /\ Assign(offset, offset + Chunk.sz, MergeData)
    /\ offset' = offset + Chunk.sz
    /\ remain_count' = Room - Chunk.sz
    /\ i' = i + 1
    /\ consumed' = consumed \o Blocks(i)
    /\ UNCHANGED <<input, out, out_total_chunks, result, decoded>>

\* The chunk fills the buffer exactly.
MergeAndFlush ==
    /\ Mergeable
    /\ offset > 0
    /\ Chunk.sz = remain_count
    /\ acc' = Merged
    /\ Assign(offset, Len(buffer), MergeData)
    /\ Emit([type |-> acc'.type, sz |-> acc'.sz,
             body |-> IF acc'.type # Skip THEN buffer' ELSE <<>>])
    /\ offset' = 0
    /\ remain_count' = 0
    /\ i' = i + 1
    /\ consumed' = consumed \o Blocks(i)
    /\ UNCHANGED <<input, result>>

\* Seeded fault: the rest goes out even when nothing is buffered.
FinishAlways ==
    /\ result = "flush" \/ (result = "loop" /\ i > input.total)
    /\ Emit([type |-> acc.type, sz |-> acc.sz,
             body |-> IF acc.type # Skip THEN buffer ELSE <<>>])
    /\ offset' = 0
    /\ result' = "done"
    /\ UNCHANGED <<input, i, remain_count, acc, buffer, consumed>>

\* Seeded fault: the loop stops one chunk early.
FinishEarly ==
    /\ result = "flush" \/ (result = "loop" /\ i >= input.total)
    /\ IF offset > 0
       THEN Emit([type |-> acc.type, sz |-> acc.sz,
                  body |-> IF acc.type # Skip THEN buffer ELSE <<>>])
       ELSE UNCHANGED <<out, out_total_chunks, decoded>>
    /\ offset' = 0
    /\ result' = "done"
    /\ UNCHANGED <<input, i, remain_count, acc, buffer, consumed>>

\* After the loop: the rest goes out, with the whole of buffer after its
\* header, and the header of the file is written over the placeholder.
Finish ==
    /\ result = "flush" \/ (result = "loop" /\ i > input.total)
    /\ IF offset > 0
       THEN Emit([type |-> acc.type, sz |-> acc.sz,
                  body |-> IF acc.type # Skip THEN buffer ELSE <<>>])
       ELSE UNCHANGED <<out, out_total_chunks, decoded>>
    /\ offset' = 0
    /\ result' = "done"
    /\ UNCHANGED <<input, i, remain_count, acc, buffer, consumed>>

Next ==
    \/ HeaderMissing \/ UnknownChunk \/ CopyChunk \/ FlushBefore
    \/ FillRaises \/ Merge \/ MergeAndFlush \/ Finish

Spec == Init /\ [][Next]_vars
FairSpec == Spec /\ WF_vars(Next)
-----------------------------------------------------------------------------
(* Properties.                                                             *)

\* What the output, and the buffer that follows it, say so far.
Said == decoded \o SubSeq(buffer, 1, offset)

\* A don't-care block may be written out as zeros: "buffer[...] = [0 ...]".
Match(want, got) == got = want \/ (want = DontCare /\ got = Zero)

TypeOK ==
    /\ input \in Input
    /\ i \in 1 .. Len(input.chunks) + 1
    /\ offset \in 0 .. Align - 1
    /\ remain_count \in 0 .. Align
    /\ acc \in [type : {Raw, Fill, Skip, "none"}, sz : Nat]
    /\ result \in {"loop", "flush", "done", "exception"}
    /\ out_total_chunks = Len(out)

\* sparse_tool.py main(): whatever the chunks and wherever they are split,
\* merged and read again after a seek, the output so far followed by the
\* buffer says what the chunks taken from the input say, block for block.
Faithful ==
    input.missing = 0 =>
        /\ Len(Said) = Len(consumed)
        /\ \A j \in 1 .. Len(consumed) : Match(consumed[j], Said[j])

\* remain_count is only right when offset is not 0, and a don't-care chunk that
\* starts a merge leaves zeros, never blocks of an earlier merge, behind.
Accounting ==
    offset > 0 /\ result # "exception" =>
        /\ offset + remain_count = Align
        /\ acc.sz = offset
        /\ acc.type \in {Raw, Skip}
        /\ acc.type = Skip => \A j \in 1 .. offset : buffer[j] = Zero
        /\ input.missing = 0 => Len(buffer) = Align

\* A reader finds the next header where the last one says: the blocks that the
\* final write adds after a partly filled buffer are at the end of the file.
Aligned ==
    input.missing = 0 =>
        \A k \in 1 .. Len(out) :
            LET c == out[k]
                size == CASE c.type = Raw -> c.sz [] c.type = Fill -> 1 [] OTHER -> 0
            IN  Len(c.body) = size \/ (k = Len(out) /\ result = "done" /\ Len(c.body) = Align)

\* The rewrite never makes more chunks than it read.
NeverMoreChunks ==
    Len(out) + (IF offset > 0 THEN 1 ELSE 0) <= i - 1

\* sparse_tool.py:56-75,157-169: the header is rewritten only when every chunk
\* the input claims has been taken, or one of unknown type stopped the loop, and
\* then nothing that was taken is still missing from the output.
Complete ==
    result = "done" =>
        /\ i > input.total \/ (i <= Len(input.chunks) /\ Chunk.type = Other)
        /\ input.missing = 0 => Len(decoded) = Len(consumed)

\* The seek back to a chunk that did not fit cannot go on for ever.
Terminates == <>(result \in {"done", "exception"})
=============================================================================
