---------------------------- MODULE SharedStore ----------------------------
(***************************************************************************)
(* What the baseparameter partition promises for ONE display when several  *)
(* runs of the tool overlap and nothing is locked.  As ParameterStore, but *)
(* a copy of one half over the other takes two steps: what it installs is  *)
(* what the other half held when the copy began; or, when its read has     *)
(* come short of this display, anything.                                   *)
(***************************************************************************)
CONSTANTS
    Settings,   \* the values of one display's settings: a set of records
    Field,      \* the names of their fields
    Groups,     \* the sets of fields that one call writes together
    Unread      \* what a copy has read whose read has come short

VARIABLES
    user,       \* settings in the user half of the partition
    backup,     \* settings in the backup half
    restoring,  \* what the resets under way have read
    saving      \* what the backups under way have read

storeVars == <<user, backup, restoring, saving>>

StoreInit ==
    /\ user \in Settings
    /\ backup \in Settings
    /\ restoring = {}
    /\ saving = {}

Assign(group) ==
    /\ user' \in Settings
    /\ \A f \in Field \ group : user'[f] = user[f]
    /\ UNCHANGED <<backup, restoring, saving>>

\* A copy begins, having read the settings or not, or one is given up.
Read ==
    /\ restoring' \subseteq restoring \cup {backup, Unread}
    /\ saving' \subseteq saving \cup {user, Unread}
    /\ UNCHANGED <<user, backup>>

\* What a copy may install that has read one of these.
Installs(copies) == (copies \ {Unread}) \cup (IF Unread \in copies THEN Settings ELSE {})

Restore ==
    /\ user' \in Installs(restoring)
    /\ restoring' \subseteq restoring
    /\ UNCHANGED <<backup, saving>>

Save ==
    /\ backup' \in Installs(saving)
    /\ saving' \subseteq saving
    /\ UNCHANGED <<user, restoring>>

StoreNext ==
    \/ \E group \in Groups : Assign(group)
    \/ Read
    \/ Restore
    \/ Save

StoreSpec == StoreInit /\ [][StoreNext]_storeVars
=============================================================================
