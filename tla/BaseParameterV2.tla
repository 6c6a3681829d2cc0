-------------------------- MODULE BaseParameterV2 --------------------------
(***************************************************************************)
(* The saveBaseParameter tool over the V2 baseparameter layout:            *)
(* baseparameter/saveBaseParameter/main.cpp with isHwc2 and                *)
(* baseparameter_utilv2.cpp.  The settings belong to connectors and the    *)
(* partition is reached through the baseparameter_api library, which is    *)
(* external: a call of it reads or writes the record of one connector, or  *)
(* fails and changes nothing.  reset() and backup() copy the halves of the *)
(* partition past the library.  Runs may overlap; nothing locks the        *)
(* partition between two calls.                                            *)
(***************************************************************************)
EXTENDS Naturals, FiniteSets

CONSTANTS
    Procs,          \* concurrent runs of the tool
    Connector,      \* <<type, id>> pairs that have a record
    NoConnector,    \* type 0, id 0: what a run without -C works on
    Value,          \* values of a setting
    HighSubsampling,\* format and depth stored for -c Auto
    Zero,           \* the resolution stored for -u auto
    Commands,       \* command lines the runs may be given
    Factory,        \* the records, as flashed
    Memory,         \* what malloc'ed memory may hold where a record should be
    Unfilled,       \* a record of the malloc'ed half that the read did not fill
    MaxRuns,        \* bound: runs of the tool
    MaxErrors       \* bound: failing calls

Flag == {"RESOLUTION_AUTO", "COLOR_AUTO"}
Bcsh == {"brightness", "contrast", "saturation", "hue"}
Field == Bcsh \cup {"scan", "fb", "format", "resolution", "feature"}

\* The part of a record that set_screen_info writes, and the whole record.
Screen == [format : Value, resolution : Value, feature : SUBSET Flag]
Settings ==
    [brightness : Value, contrast : Value, saturation : Value, hue : Value,
     scan : Value, fb : Value,
     format : Value, resolution : Value, feature : SUBSET Flag]

\* An option that is not given, and one whose argument has too few numbers.
Absent == "absent"
Short == "short"
Argument == Value \cup {Absent, Short}

Command ==
    [connector : Connector \cup {Absent, Short}, bcsh : Argument,
     scan : Argument, fb : Argument, color : Value \cup {Absent, "Auto"},
     res : Argument \cup {"auto"}, reset : BOOLEAN, backup : BOOLEAN]

\* One call of the library, or one copy, each.
Op == Bcsh \cup {"scan", "fb", "color", "reset", "backup", "res"}

ASSUME ValueAssumption ==
    /\ Zero \in Value /\ HighSubsampling \in Value
    /\ Value \cap {Absent, Short, "Auto", "auto"} = {}
    /\ NoConnector \in Connector
    /\ Connector \cap {Absent, Short} = {}

ASSUME ProcsAssumption == IsFiniteSet(Procs)

ASSUME InputAssumption ==
    /\ Commands \subseteq Command
    /\ Factory \in [Connector -> Settings]
    /\ Memory \subseteq Settings /\ Memory # {}
    /\ Unfilled \notin Settings
    /\ MaxRuns \in Nat /\ MaxErrors \in Nat

VARIABLES
    base,       \* the records in the user half of the partition
    bkp,        \* the records in the backup half
    pc,         \* where each run is
    cmd,        \* its command line
    conn,       \* its mConnectorType and mConnectorId
    todo,       \* the calls main() has still to make
    screen,     \* its struct screen_info
    buf,        \* the malloc'ed half of reset() and backup()
    runs, errors,
    before,     \* history: the user half when the run began
    disturbed   \* history: another run wrote to its connector since

partition == <<base, bkp>>
history == <<before, disturbed>>
vars == <<partition, pc, cmd, conn, todo, screen, buf, runs, errors, history>>

PC == {"idle", "run", "screen", "copy"}

-----------------------------------------------------------------------------
\* The order in which main() serves the options and setBcsh() its numbers.
Rank ==
    [brightness |-> 1, contrast |-> 2, saturation |-> 3, hue |-> 4, scan |-> 5,
     fb |-> 6, color |-> 7, reset |-> 8, backup |-> 9, res |-> 10]

Requested(c) ==
    (IF c.bcsh = Absent THEN {} ELSE Bcsh)
        \cup {o \in {"scan", "fb", "color", "res"} : c[o] # Absent}
        \cup {o \in {"reset", "backup"} : c[o]}

First(p, o) == o \in todo[p] /\ \A q \in todo[p] : Rank[o] <= Rank[q]

\* sscanf leaves the numbers it does not find uninitialised.
Scanned(arg) == IF arg = Short THEN Value ELSE {arg}
Chosen(arg) ==
    CASE arg = Absent -> {NoConnector} [] arg = Short -> Connector [] OTHER -> {arg}

NoCommand ==
    [connector |-> Absent, bcsh |-> Absent, scan |-> Absent, fb |-> Absent,
     color |-> Absent, res |-> Absent, reset |-> FALSE, backup |-> FALSE]
NoScreen == [format |-> Zero, resolution |-> Zero, feature |-> {}]

Init ==
    /\ base = Factory /\ bkp = Factory
    /\ pc = [p \in Procs |-> "idle"]
    /\ cmd = [p \in Procs |-> NoCommand]
    /\ conn = [p \in Procs |-> NoConnector]
    /\ todo = [p \in Procs |-> {}]
    /\ screen = [p \in Procs |-> NoScreen]
    /\ buf = [p \in Procs |-> Factory]
    /\ runs = 0 /\ errors = 0
    /\ before = [p \in Procs |-> Factory]
    /\ disturbed = [p \in Procs |-> FALSE]

\* A call of the library or of the system fails.
Fails == errors < MaxErrors /\ errors' = errors + 1

\* Run p has written to the connectors K: the other runs that work on one of
\* them can no longer count on what they read or wrote there.
Disturb(p, K) ==
    disturbed' = [q \in Procs |->
        disturbed[q] \/ (q # p /\ pc[q] # "idle" /\ conn[q] \in K)]

\* The record of the run's connector becomes s.
Put(p, s) ==
    /\ base' = [base EXCEPT ![conn[p]] = s]
    /\ Disturb(p, {conn[p]})

\* main(): the command line is parsed and the connector set.
Start(p) ==
    /\ pc[p] = "idle"
    /\ runs < MaxRuns
    /\ runs' = runs + 1
    /\ \E c \in Commands :
          /\ cmd' = [cmd EXCEPT ![p] = c]
          /\ todo' = [todo EXCEPT ![p] = Requested(c)]
          /\ \E k \in Chosen(c.connector) : conn' = [conn EXCEPT ![p] = k]
    /\ pc' = [pc EXCEPT ![p] = "run"]
    /\ before' = [before EXCEPT ![p] = base]
    /\ disturbed' = [disturbed EXCEPT ![p] = FALSE]
    /\ UNCHANGED <<partition, screen, buf, errors>>

-----------------------------------------------------------------------------
\* Seeded fault: setBcsh() goes on after a call that failed.
CallGoesOn(p, o, arg, group) ==
    /\ pc[p] = "run" /\ First(p, o)
    /\ \/ /\ \E v \in Scanned(arg) : Put(p, [base[conn[p]] EXCEPT ![o] = v])
          /\ UNCHANGED errors
       \/ Fails /\ UNCHANGED <<base, disturbed>>
    /\ todo' = [todo EXCEPT ![p] = @ \ {o}]
    /\ UNCHANGED <<bkp, pc, cmd, conn, screen, buf, runs, before>>

\* A call that stores one setting.  When it fails, the calls of its group
\* that were to follow are not made; main() does not look at the result.
Call(p, o, arg, group) ==
    /\ pc[p] = "run" /\ First(p, o)
    /\ \/ /\ \E v \in Scanned(arg) : Put(p, [base[conn[p]] EXCEPT ![o] = v])
          /\ todo' = [todo EXCEPT ![p] = @ \ {o}]
          /\ UNCHANGED errors
       \/ /\ Fails
          /\ todo' = [todo EXCEPT ![p] = @ \ group]
          /\ UNCHANGED <<base, disturbed>>
    /\ UNCHANGED <<bkp, pc, cmd, conn, screen, buf, runs, before>>

SetBcsh(p) == \E o \in Bcsh : Call(p, o, cmd[p].bcsh, Bcsh)
SetOverscan(p) == Call(p, "scan", cmd[p].scan, {"scan"})
SetFramebufferInfo(p) == Call(p, "fb", cmd[p].fb, {"fb"})

\* Seeded fault: the struct is set up without get_screen_info.
NoGetScreenInfo(p, o) ==
    /\ pc[p] = "run" /\ First(p, o)
    /\ \E stack \in Screen : screen' = [screen EXCEPT ![p] = stack]
    /\ pc' = [pc EXCEPT ![p] = "screen"]
    /\ UNCHANGED <<partition, cmd, conn, todo, buf, runs, errors, history>>

\* Seeded fault: the struct is read once, when the run begins, as with V1.
GetScreenInfoCached(p, o) ==
    /\ pc[p] = "run" /\ First(p, o)
    /\ LET s == before[p][conn[p]] IN
       screen' = [screen EXCEPT ![p] =
           [format |-> s.format, resolution |-> s.resolution, feature |-> s.feature]]
    /\ pc' = [pc EXCEPT ![p] = "screen"]
    /\ UNCHANGED <<partition, cmd, conn, todo, buf, runs, errors, history>>

\* get_screen_info(): when it fails, the struct is what the stack held.
GetScreenInfo(p, o) ==
    /\ pc[p] = "run" /\ First(p, o)
    /\ LET s == base[conn[p]] IN
       \/ /\ screen' = [screen EXCEPT ![p] =
                [format |-> s.format, resolution |-> s.resolution, feature |-> s.feature]]
          /\ UNCHANGED errors
       \/ Fails /\ \E stack \in Screen : screen' = [screen EXCEPT ![p] = stack]
    /\ pc' = [pc EXCEPT ![p] = "screen"]
    /\ UNCHANGED <<partition, cmd, conn, todo, buf, runs, history>>

\* Seeded fault: the whole record is written, as the run first read it.
SetScreenInfoWhole(p, o, info) ==
    /\ Put(p, [before[p][conn[p]] EXCEPT !.format = info.format,
                   !.resolution = info.resolution, !.feature = info.feature])
    /\ pc' = [pc EXCEPT ![p] = "run"]
    /\ screen' = [screen EXCEPT ![p] = NoScreen]
    /\ todo' = [todo EXCEPT ![p] = @ \ {o}]
    /\ UNCHANGED <<bkp, cmd, conn, buf, runs, errors, before>>

\* set_screen_info() of the struct with some fields changed.
SetScreenInfo(p, o, info) ==
    /\ \/ /\ Put(p, [base[conn[p]] EXCEPT !.format = info.format,
                         !.resolution = info.resolution, !.feature = info.feature])
          /\ UNCHANGED errors
       \/ Fails /\ UNCHANGED <<base, disturbed>>
    /\ pc' = [pc EXCEPT ![p] = "run"]
    /\ screen' = [screen EXCEPT ![p] = NoScreen]
    /\ todo' = [todo EXCEPT ![p] = @ \ {o}]
    /\ UNCHANGED <<bkp, cmd, conn, buf, runs, before>>

\* Seeded fault: the color is stored as it was given, with a zero resolution.
SetColorClearing(p) ==
    \/ GetScreenInfo(p, "color")
    \/ /\ pc[p] = "screen" /\ First(p, "color")
       /\ \E stack \in SUBSET Flag :
             SetScreenInfo(p, "color", [format |-> cmd[p].color,
                 resolution |-> Zero, feature |-> stack])

\* "feature" is an uninitialised local of main(), into which -c Auto sets a bit.
SetColor(p) ==
    LET auto == cmd[p].color = "Auto" IN
    \/ GetScreenInfo(p, "color")
    \/ /\ pc[p] = "screen" /\ First(p, "color")
       /\ \E stack \in SUBSET Flag :
             SetScreenInfo(p, "color", [screen[p] EXCEPT
                 !.format = IF auto THEN HighSubsampling ELSE cmd[p].color,
                 !.feature = IF auto THEN stack \cup {"COLOR_AUTO"} ELSE stack])

SetResolution(p) ==
    LET auto == cmd[p].res = "auto" IN
    \/ GetScreenInfo(p, "res")
    \/ /\ pc[p] = "screen" /\ First(p, "res")
       /\ \E v \in IF auto THEN {Zero} ELSE Scanned(cmd[p].res) :
             SetScreenInfo(p, "res", [screen[p] EXCEPT
                 !.resolution = v,
                 !.feature = IF auto THEN {"RESOLUTION_AUTO"} ELSE {}])

-----------------------------------------------------------------------------
\* reset() and backup(): the read of a half.  One that fails is noticed and
\* ends the option.  One that is short is not: the records K have been read, and
\* the rest of the buffer is as malloc() gave it, a record cut in two included.
ReadHalf(p, o) ==
    /\ pc[p] = "run" /\ First(p, o)
    /\ LET half == IF o = "reset" THEN bkp ELSE base IN
       \/ /\ buf' = [buf EXCEPT ![p] = half]
          /\ pc' = [pc EXCEPT ![p] = "copy"]
          /\ UNCHANGED <<todo, errors>>
       \/ /\ Fails
          /\ \E K \in SUBSET Connector :
                buf' = [buf EXCEPT ![p] =
                    [k \in Connector |-> IF k \in K THEN half[k] ELSE Unfilled]]
          /\ pc' = [pc EXCEPT ![p] = "copy"]
          /\ UNCHANGED todo
       \/ /\ Fails
          /\ todo' = [todo EXCEPT ![p] = @ \ {o}]
          /\ UNCHANGED <<buf, pc>>
    /\ UNCHANGED <<partition, cmd, conn, screen, runs, history>>

\* The buffer as write() takes it, memory being what malloc() gave.
Held(p, memory) ==
    [k \in Connector |-> IF buf[p][k] = Unfilled THEN memory[k] ELSE buf[p][k]]

\* The write, of all of the buffer; one that fails may have written some of the
\* records.  Nobody looks at its result.
WriteHalf(p, o) ==
    /\ pc[p] = "copy" /\ First(p, o)
    /\ \E K \in SUBSET Connector, memory \in [Connector -> Memory] :
          LET copied(half) ==
                  [k \in Connector |-> IF k \in K THEN Held(p, memory)[k] ELSE half[k]]
          IN  /\ \/ K = Connector /\ UNCHANGED errors
                 \/ K # Connector /\ Fails
              /\ \/ o = "reset" /\ base' = copied(base) /\ UNCHANGED bkp
                 \/ o = "backup" /\ bkp' = copied(bkp) /\ UNCHANGED base
              /\ Disturb(p, K)
    /\ buf' = [buf EXCEPT ![p] = Factory]
    /\ pc' = [pc EXCEPT ![p] = "run"]
    /\ todo' = [todo EXCEPT ![p] = @ \ {o}]
    /\ UNCHANGED <<cmd, conn, screen, runs, before>>

Reset(p) == ReadHalf(p, "reset") \/ WriteHalf(p, "reset")
Backup(p) == ReadHalf(p, "backup") \/ WriteHalf(p, "backup")

\* main() returns, or the run is killed: its memory goes with it.
Exit(p) ==
    /\ pc[p] # "idle"
    /\ pc' = [pc EXCEPT ![p] = "idle"]
    /\ cmd' = [cmd EXCEPT ![p] = NoCommand]
    /\ conn' = [conn EXCEPT ![p] = NoConnector]
    /\ todo' = [todo EXCEPT ![p] = {}]
    /\ screen' = [screen EXCEPT ![p] = NoScreen]
    /\ buf' = [buf EXCEPT ![p] = Factory]
    /\ before' = [before EXCEPT ![p] = Factory]
    /\ disturbed' = [disturbed EXCEPT ![p] = FALSE]
    /\ UNCHANGED <<partition, runs, errors>>

Next ==
    \E p \in Procs :
        \/ Start(p)
        \/ SetBcsh(p) \/ SetOverscan(p) \/ SetFramebufferInfo(p)
        \/ SetColor(p) \/ SetResolution(p)
        \/ Reset(p) \/ Backup(p)
        \/ Exit(p)

Spec == Init /\ [][Next]_vars
-----------------------------------------------------------------------------
(* Properties.                                                             *)

\* The type of every variable; a call is only left to make if the command
\* line asks for it.
TypeOK ==
    /\ base \in [Connector -> Settings]
    /\ bkp \in [Connector -> Settings]
    /\ pc \in [Procs -> PC]
    /\ cmd \in [Procs -> Command]
    /\ conn \in [Procs -> Connector]
    /\ todo \in [Procs -> SUBSET Op]
    /\ \A p \in Procs : todo[p] \subseteq Requested(cmd[p])
    /\ screen \in [Procs -> Screen]
    /\ buf \in [Procs -> [Connector -> Settings \cup {Unfilled}]]
    /\ runs \in 0 .. MaxRuns
    /\ errors \in 0 .. MaxErrors
    /\ before \in [Procs -> [Connector -> Settings]]
    /\ disturbed \in [Procs -> BOOLEAN]

Finished(p) == pc[p] = "run" /\ todo[p] = {}

\* What the record of run p's connector held when the run began.
Old(p) == before[p][conn[p]]
New(p) == base[conn[p]]

\* baseparameter_utilv2.cpp setBcsh() returns at the first call that fails.
\* When no other run comes between and nothing is reset, the settings that
\* were asked for are there from brightness on up to the call that failed, the
\* rest are those from before: never a later one without the earlier ones.
BcshPrefix ==
    \A p \in Procs :
        (/\ Finished(p) /\ ~disturbed[p]
         /\ cmd[p].bcsh \in Value /\ ~cmd[p].reset)
        => \E n \in 0 .. 4 : \A o \in Bcsh :
               New(p)[o] = IF Rank[o] <= n THEN cmd[p].bcsh ELSE Old(p)[o]

\* setColor() and setResolution() read a record and write it back.  Without a
\* reset, a failing call or another run that writes to its connector, a run
\* stores what it was asked for and leaves the other settings as they were.
OthersKept ==
    \A p \in Procs :
        (/\ Finished(p) /\ ~disturbed[p] /\ errors = 0
         /\ ~cmd[p].reset)
        => \A f \in {"scan", "fb", "format", "resolution"} :
               LET o == CASE f = "format" -> "color" [] f = "resolution" -> "res"
                          [] OTHER -> f
                   asked == cmd[p][o]
               IN  CASE asked = Absent -> New(p)[f] = Old(p)[f]
                     [] asked \in Value -> New(p)[f] = asked
                     [] OTHER -> TRUE

\* Nothing comes out of uninitialised memory into a record unless a call has
\* failed or an argument was too short, however runs overlap: f.i. garbage is
\* not what a run reads back, saves again, or backs up.
NoGarbage(junk) ==
    (/\ errors = 0
     /\ \A k \in Connector, f \in Field : Factory[k][f] # junk
     /\ \A c \in Commands : \A o \in {"bcsh", "scan", "fb", "color", "res"} :
           c[o] \notin {Short, junk}
     /\ junk \notin {Zero, HighSubsampling})
    => \A k \in Connector, f \in Field \ {"feature"} :
           base[k][f] # junk /\ bkp[k][f] # junk
NothingInvented == \A junk \in Value : NoGarbage(junk)

\* main.cpp: each option reads the record anew, so that -u after -R does not
\* bring back what the reset replaced, as it does with the V1 layout.
ResetStays ==
    \A p \in Procs :
        Finished(p) /\ ~disturbed[p] /\ errors = 0 /\ cmd[p].reset
        => \A f \in Field \ {"resolution", "feature"} : New(p)[f] = bkp[conn[p]][f]

\* Overlapping read-modify-writes of one record can undo one another's
\* settings.  But a run sets the color before it reads the record for the
\* resolution, so that when all of them set both, and all are done, neither is
\* what it was before they began: no two of them together bring the old back.
\* The runs must be the only ones there have been: one that is over can leave
\* what it has set to another that has read it and now writes it back.
NoneUndone ==
    (/\ errors = 0 /\ runs = Cardinality(Procs)
     /\ \A p \in Procs :
           /\ Finished(p)
           /\ cmd[p].color \in Value /\ cmd[p].res \in Value
           /\ ~cmd[p].reset)
    => \A p \in Procs :
          /\ \E q \in Procs : New(p).format = cmd[q].color
          /\ \E q \in Procs : New(p).resolution = cmd[q].res

\* What the copies in option o under way have read for connector k, Unfilled
\* if one of them has come short of it.
InFlight(k, o) == {buf[p][k] : p \in {q \in Procs : pc[q] = "copy" /\ First(q, o)}}

\* The record of every connector behaves as SharedStore promises: one call
\* changes one group of its settings, a run on another connector none of them,
\* and a copy replaces them all by what the other half held when it began,
\* whatever runs overlap, are killed or meet with errors.  The one exception is
\* the code's: a copy whose read has come short of the record (main.cpp:98-106,
\* :129-137) may put anything in its place.
Store(k) ==
    INSTANCE SharedStore WITH
        Groups <- {{"brightness"}, {"contrast"}, {"saturation"}, {"hue"}, {"scan"},
                   {"fb"}, {"format", "resolution", "feature"}},
        user <- base[k],
        backup <- bkp[k],
        restoring <- InFlight(k, "reset"),
        saving <- InFlight(k, "backup"),
        Unread <- Unfilled

ImplementsStore ==
    /\ \A k \in Connector : Store(k)!StoreInit
    /\ [][\A k \in Connector :
             Store(k)!StoreNext \/ UNCHANGED Store(k)!storeVars]_vars
=============================================================================
