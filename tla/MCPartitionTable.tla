-------------------------- MODULE MCPartitionTable --------------------------
(***************************************************************************)
(* Instance of PartitionTable for TLC.                                     *)
(***************************************************************************)
EXTENDS PartitionTable

MCBases ==
    {"security", "uboot", "trust", "misc", "resource", "vendor_boot", "dtbo", "vbmeta",
     "boot", "recovery", "backup", "cache", "metadata", "frp", "super", "system",
     "vendor", "odm", "data", "userdata", "baseparameter", "my_app"}

MCNames ==
    {Plain("misc"), Userdata, Slot("boot", "_a"), Slot("boot", "_b"),
     [base |-> "my_app", suffix |-> "_a", inner |-> TRUE]}

MCSizes ==
    {[number |-> 4, unit |-> "K"], [number |-> 1, unit |-> "M"],
     [number |-> 1, unit |-> "G"], [number |-> 5130, unit |-> "none"],
     [number |-> 7, unit |-> "none"], [number |-> 0, unit |-> "missing"]}

\* Every list of up to three entries, none of them left out.
MCLists == UNION {[1 .. n -> [name : MCNames, size : MCSizes]] : n \in 0 .. 3}

\* BoardConfig.mk adds one special partition, or none; the images have a size
\* in bytes, as the build gives it.
MCBoards ==
    [ab : BOOLEAN, v3 : BOOLEAN, frp : BOOLEAN, dynamic : BOOLEAN, data : BOOLEAN,
     special : {<<>>, <<Part(Plain("baseparameter"), 1, "M")>>},
     image : {[number |-> 4194304, unit |-> "none"]}]
=============================================================================
