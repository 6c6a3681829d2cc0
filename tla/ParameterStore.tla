--------------------------- MODULE ParameterStore ---------------------------
(***************************************************************************)
(* What the baseparameter partition promises for ONE display, whatever the *)
(* tool does inside: a user copy of the display's settings and a backup    *)
(* copy of it.  One option of the tool changes one group of settings, a    *)
(* reset replaces the user copy by the backup, a backup does the converse, *)
(* and each of these happens entirely or not at all, a power cut included. *)
(* There is no crash action here: a crash must look like the step it       *)
(* interrupted, done or not done.                                          *)
(***************************************************************************)
CONSTANTS
    Settings,   \* the values of one display's settings: a set of records
    Field,      \* the names of their fields
    Groups      \* the sets of fields that one option writes together

VARIABLES
    user,       \* settings in the user half of the partition
    backup      \* settings in the backup half

storeVars == <<user, backup>>

StoreInit ==
    /\ user \in Settings
    /\ backup \in Settings

\* One option: the fields outside its group keep their values.
Assign(group) ==
    /\ user' \in Settings
    /\ \A f \in Field \ group : user'[f] = user[f]
    /\ UNCHANGED backup

Restore ==
    /\ user' = backup
    /\ UNCHANGED backup

Save ==
    /\ backup' = user
    /\ UNCHANGED user

StoreNext ==
    \/ \E group \in Groups : Assign(group)
    \/ Restore
    \/ Save

StoreSpec == StoreInit /\ [][StoreNext]_storeVars
=============================================================================
