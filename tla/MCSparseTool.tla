---------------------------- MODULE MCSparseTool ----------------------------
(***************************************************************************)
(* Instance of SparseTool for TLC.                                         *)
(***************************************************************************)
EXTENDS SparseTool

ChunksOf(types, sizes) == [type : types, sz : sizes]

SeqOf(S, n) == UNION {[1 .. m -> S] : m \in 0 .. n}

\* Every file of up to three chunks of any type, from empty to larger than the
\* unit, and of four raw and don't-care chunks.
MCChunks ==
    SeqOf(ChunksOf({Raw, Fill, Skip, Other}, 0 .. Align + 1), 3)
        \cup [1 .. 4 -> ChunksOf({Raw, Skip}, 1 .. Align)]

\* The file may end before its last chunk's data does (a raw chunk then), and
\* its header may claim a chunk more than there are.
MCInputs ==
    {[chunks |-> c, total |-> Len(c), missing |-> 0] : c \in MCChunks}
        \cup {[chunks |-> c, total |-> Len(c) + 1, missing |-> 0] : c \in SeqOf(ChunksOf({Raw}, {1, 2}), 2)}
        \cup {[chunks |-> c, total |-> Len(c), missing |-> 1] :
                 c \in {d \in SeqOf(ChunksOf({Raw, Skip}, 1 .. Align), 3) :
                           Len(d) > 0 /\ d[Len(d)].type = Raw}}
=============================================================================
