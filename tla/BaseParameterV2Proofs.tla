----------------------- MODULE BaseParameterV2Proofs -----------------------
(***************************************************************************)
(* Proofs about BaseParameterV2, for any number of overlapping runs, of    *)
(* connectors, of failing calls, and any command lines.                    *)
(***************************************************************************)
EXTENDS BaseParameterV2, FiniteSetTheorems, TLAPS

Half == [Connector -> Settings]

\* What a copy holds, and which half it is of.
Buffer == [Connector -> Settings \cup {Unfilled}]
Source(o) == IF o = "reset" THEN bkp ELSE base

(* A failing call stays within the bound, and is counted.                  *)
LEMMA FailsType ==
    ASSUME errors \in 0 .. MaxErrors, Fails \/ UNCHANGED errors
    PROVE  errors' \in 0 .. MaxErrors /\ (errors' = 0 => errors = 0 /\ ~Fails)
  BY InputAssumption DEF Fails

LEMMA DisturbType ==
    ASSUME disturbed \in [Procs -> BOOLEAN], NEW p, NEW K, Disturb(p, K)
    PROVE  disturbed' \in [Procs -> BOOLEAN]
  BY DEF Disturb

LEMMA NoCommandIsCommand == NoCommand \in Command /\ Requested(NoCommand) = {}
  <1>1. NoCommand \in Command
    BY DEF NoCommand, Command, Argument
  <1>2. QED
    BY <1>1 DEF NoCommand, Requested

LEMMA NoScreenIsScreen == NoScreen \in Screen
  BY ValueAssumption DEF NoScreen, Screen

(* A call that main() has still to make is one the command line asks for.  *)
LEMMA ArgumentOf ==
    ASSUME TypeOK, NEW p \in Procs
    PROVE  /\ \A o \in Bcsh : First(p, o) => Scanned(cmd[p].bcsh) \subseteq Value
           /\ First(p, "scan") => Scanned(cmd[p].scan) \subseteq Value
           /\ First(p, "fb") => Scanned(cmd[p].fb) \subseteq Value
           /\ First(p, "res") => cmd[p].res = "auto" \/ Scanned(cmd[p].res) \subseteq Value
           /\ First(p, "color") => cmd[p].color \in Value \cup {"Auto"}
  <1>1. cmd[p] \in Command /\ todo[p] \subseteq Requested(cmd[p])
    BY DEF TypeOK
  <1>2. \A o \in {"scan", "fb", "color", "res"} : First(p, o) => cmd[p][o] # Absent
    BY <1>1 DEF First, Requested, Bcsh
  <1>3. \A o \in Bcsh : First(p, o) => cmd[p].bcsh # Absent
    BY <1>1 DEF First, Requested, Bcsh
  <1>4. QED
    BY <1>1, <1>2, <1>3 DEF Command, Argument, Scanned

(* The calls left to make shrink with the command line unchanged.          *)
LEMMA TodoType ==
    ASSUME TypeOK, NEW p \in Procs, NEW S, UNCHANGED cmd,
           todo' = [todo EXCEPT ![p] = @ \ S]
    PROVE  /\ todo' \in [Procs -> SUBSET Op]
           /\ \A q \in Procs : todo'[q] \subseteq Requested(cmd'[q])
  BY DEF TypeOK

(* Storing settings in the record of the run's connector.                  *)
LEMMA PutType ==
    ASSUME TypeOK, NEW p \in Procs, NEW s \in Settings, Put(p, s)
    PROVE  base' \in Half /\ disturbed' \in [Procs -> BOOLEAN]
  BY DisturbType DEF TypeOK, Put, Half

-----------------------------------------------------------------------------
LEMMA StartType ==
    ASSUME TypeOK, NEW p \in Procs, Start(p)
    PROVE  TypeOK'
  <1>1. PICK c \in Commands :
          /\ cmd' = [cmd EXCEPT ![p] = c]
          /\ todo' = [todo EXCEPT ![p] = Requested(c)]
          /\ \E k \in Chosen(c.connector) : conn' = [conn EXCEPT ![p] = k]
    BY DEF Start
  <1>2. c \in Command /\ Requested(c) \subseteq Op
    BY InputAssumption DEF Requested, Op, Bcsh
  <1>3. c.connector \in Connector \cup {Absent, Short}
    BY <1>2 DEF Command
  <1>4. Chosen(c.connector) \subseteq Connector
    <2>1. CASE c.connector = Absent
      BY <2>1, ValueAssumption, Zenon DEF Chosen
    <2>2. CASE c.connector = Short /\ Short # Absent
      BY <2>2, Zenon DEF Chosen
    <2>3. CASE c.connector \notin {Absent, Short}
      BY <2>3, <1>3, Zenon DEF Chosen
    <2>4. QED
      BY <2>1, <2>2, <2>3 DEF Absent, Short
  <1>5. conn' \in [Procs -> Connector]
    BY <1>1, <1>4 DEF TypeOK
  <1>6. cmd' \in [Procs -> Command] /\ todo' \in [Procs -> SUBSET Op]
    BY <1>1, <1>2 DEF TypeOK
  <1>7. \A q \in Procs : todo'[q] \subseteq Requested(cmd'[q])
    BY <1>1 DEF TypeOK
  <1>8. runs' \in 0 .. MaxRuns
    BY InputAssumption DEF Start, TypeOK
  <1>9. QED
    BY <1>5, <1>6, <1>7, <1>8 DEF Start, TypeOK, PC, partition

LEMMA CallType ==
    ASSUME TypeOK, NEW p \in Procs, NEW o \in Bcsh \cup {"scan", "fb"},
           NEW arg, NEW group, Scanned(arg) \subseteq Value, Call(p, o, arg, group)
    PROVE  TypeOK'
  <1>1. base[conn[p]] \in Settings
    BY DEF TypeOK
  <1>2. \A v \in Scanned(arg) : [base[conn[p]] EXCEPT ![o] = v] \in Settings
    BY <1>1 DEF Settings, Bcsh
  <1>3. base' \in Half /\ disturbed' \in [Procs -> BOOLEAN]
    BY <1>2, PutType DEF Call, TypeOK, Half
  <1>4. errors' \in 0 .. MaxErrors
    BY FailsType DEF Call, TypeOK
  <1>5. /\ todo' \in [Procs -> SUBSET Op]
        /\ \A q \in Procs : todo'[q] \subseteq Requested(cmd'[q])
    BY TodoType DEF Call
  <1>6. QED
    BY <1>3, <1>4, <1>5 DEF Call, TypeOK, Half

LEMMA GetScreenInfoType ==
    ASSUME TypeOK, NEW p \in Procs, NEW o, GetScreenInfo(p, o)
    PROVE  TypeOK'
  <1>1. base[conn[p]] \in Settings
    BY DEF TypeOK
  <1> DEFINE s == base[conn[p]]
             read == [format |-> s.format, resolution |-> s.resolution,
                      feature |-> s.feature]
  <1>5. read \in Screen
    BY <1>1 DEF Settings, Screen
  <1>6. \E info \in Screen : screen' = [screen EXCEPT ![p] = info]
    BY <1>5 DEF GetScreenInfo
  <1>2. screen' \in [Procs -> Screen]
    BY <1>6 DEF TypeOK
  <1>3. errors' \in 0 .. MaxErrors
    BY FailsType DEF GetScreenInfo, TypeOK
  <1>4. QED
    BY <1>2, <1>3 DEF GetScreenInfo, TypeOK, PC, partition, history

LEMMA SetScreenInfoType ==
    ASSUME TypeOK, NEW p \in Procs, NEW o, NEW info \in Screen,
           SetScreenInfo(p, o, info)
    PROVE  TypeOK'
  <1>1. base[conn[p]] \in Settings
    BY DEF TypeOK
  <1>2. [base[conn[p]] EXCEPT !.format = info.format,
             !.resolution = info.resolution, !.feature = info.feature] \in Settings
    BY <1>1 DEF Settings, Screen
  <1>3. base' \in Half /\ disturbed' \in [Procs -> BOOLEAN]
    BY <1>2, PutType DEF SetScreenInfo, TypeOK, Half
  <1>4. errors' \in 0 .. MaxErrors
    BY FailsType DEF SetScreenInfo, TypeOK
  <1>5. /\ todo' \in [Procs -> SUBSET Op]
        /\ \A q \in Procs : todo'[q] \subseteq Requested(cmd'[q])
    BY TodoType DEF SetScreenInfo
  <1>6. QED
    BY <1>3, <1>4, <1>5, NoScreenIsScreen DEF SetScreenInfo, TypeOK, PC, Half

(* What setColor() and setResolution() do beside reading the record: they  *)
(* write a struct screen_info.                                             *)
LEMMA ColorWrites ==
    ASSUME TypeOK, NEW p \in Procs, SetColor(p)
    PROVE  \/ GetScreenInfo(p, "color")
           \/ \E info \in Screen :
                 /\ pc[p] = "screen" /\ First(p, "color")
                 /\ SetScreenInfo(p, "color", info)
                 /\ info.resolution = screen[p].resolution
                 /\ info.format \in {HighSubsampling, cmd[p].color}
                 /\ cmd[p].color # "Auto" => info.format = cmd[p].color
  <1> DEFINE auto == cmd[p].color = "Auto"
             format == IF auto THEN HighSubsampling ELSE cmd[p].color
             flags(stack) == IF auto THEN stack \cup {"COLOR_AUTO"} ELSE stack
             info(stack) == [screen[p] EXCEPT !.format = format, !.feature = flags(stack)]
  <1>1. SUFFICES ASSUME ~GetScreenInfo(p, "color")
                 PROVE  \E i \in Screen :
                           /\ pc[p] = "screen" /\ First(p, "color")
                           /\ SetScreenInfo(p, "color", i)
                           /\ i.resolution = screen[p].resolution
                           /\ i.format \in {HighSubsampling, cmd[p].color}
                           /\ cmd[p].color # "Auto" => i.format = cmd[p].color
    OBVIOUS
  <1>2. PICK stack \in SUBSET Flag : SetScreenInfo(p, "color", info(stack))
    BY <1>1 DEF SetColor
  <1>3. pc[p] = "screen" /\ First(p, "color")
    BY <1>1 DEF SetColor
  <1>4. format \in Value
    BY <1>3, ArgumentOf, ValueAssumption
  <1>5. flags(stack) \in SUBSET Flag
    BY DEF Flag
  <1>6. screen[p] \in Screen
    BY DEF TypeOK
  <1>7. /\ format \in {HighSubsampling, cmd[p].color}
        /\ cmd[p].color # "Auto" => format = cmd[p].color
    OBVIOUS
  <1>8. /\ info(stack) \in Screen
        /\ info(stack).resolution = screen[p].resolution
        /\ info(stack).format = format
    <2> HIDE DEF format, flags
    <2> QED BY <1>4, <1>5, <1>6 DEF Screen
  <1>9. QED
    <2> HIDE DEF info, format
    <2> QED BY <1>2, <1>3, <1>7, <1>8

LEMMA ResolutionWrites ==
    ASSUME TypeOK, NEW p \in Procs, SetResolution(p)
    PROVE  \/ GetScreenInfo(p, "res")
           \/ \E info \in Screen :
                 /\ pc[p] = "screen" /\ First(p, "res")
                 /\ SetScreenInfo(p, "res", info)
                 /\ info.format = screen[p].format
                 /\ info.resolution \in {Zero} \cup Scanned(cmd[p].res)
                 /\ cmd[p].res # "auto" => info.resolution \in Scanned(cmd[p].res)
  <1> DEFINE auto == cmd[p].res = "auto"
             flags == IF auto THEN {"RESOLUTION_AUTO"} ELSE {}
             values == IF auto THEN {Zero} ELSE Scanned(cmd[p].res)
             info(v) == [screen[p] EXCEPT !.resolution = v, !.feature = flags]
  <1>1. SUFFICES ASSUME ~GetScreenInfo(p, "res")
                 PROVE  \E i \in Screen :
                           /\ pc[p] = "screen" /\ First(p, "res")
                           /\ SetScreenInfo(p, "res", i)
                           /\ i.format = screen[p].format
                           /\ i.resolution \in {Zero} \cup Scanned(cmd[p].res)
                           /\ cmd[p].res # "auto" => i.resolution \in Scanned(cmd[p].res)
    OBVIOUS
  <1>2. PICK v \in values : SetScreenInfo(p, "res", info(v))
    BY <1>1 DEF SetResolution
  <1>3. pc[p] = "screen" /\ First(p, "res")
    BY <1>1 DEF SetResolution
  <1>4. /\ v \in Value /\ v \in {Zero} \cup Scanned(cmd[p].res)
        /\ cmd[p].res # "auto" => v \in Scanned(cmd[p].res)
    BY <1>2, <1>3, ArgumentOf, ValueAssumption
  <1>5. flags \in SUBSET Flag
    BY DEF Flag
  <1>6. screen[p] \in Screen
    BY DEF TypeOK
  <1>7. /\ info(v) \in Screen
        /\ info(v).format = screen[p].format
        /\ info(v).resolution = v
    <2> HIDE DEF flags
    <2> QED BY <1>4, <1>5, <1>6 DEF Screen
  <1>8. QED
    <2> HIDE DEF info, values
    <2> QED BY <1>2, <1>3, <1>4, <1>7

(* A read gives each record as it is or not at all, the latter only when   *)
(* it has come short; or it fails and is noticed.                          *)
LEMMA ReadHalfReads ==
    ASSUME TypeOK, NEW p \in Procs, NEW o, ReadHalf(p, o)
    PROVE  \/ /\ pc' = [pc EXCEPT ![p] = "copy"] /\ UNCHANGED todo
              /\ \E h \in Buffer :
                    /\ buf' = [buf EXCEPT ![p] = h]
                    /\ \A k \in Connector : h[k] \in {Source(o)[k], Unfilled}
                    /\ h = Source(o) \/ Fails
           \/ Fails /\ todo' = [todo EXCEPT ![p] = @ \ {o}] /\ UNCHANGED <<buf, pc>>
  <1>1. Source(o) \in Half
    BY DEF Source, TypeOK, Half
  <1>2. Source(o) \in Buffer
    BY <1>1 DEF Half, Buffer
  <1> DEFINE short(K) ==
               [k \in Connector |-> IF k \in K THEN Source(o)[k] ELSE Unfilled]
  <1>3. \A K \in SUBSET Connector :
           /\ short(K) \in Buffer
           /\ \A k \in Connector : short(K)[k] \in {Source(o)[k], Unfilled}
    BY <1>1 DEF Half, Buffer
  <1>4. \/ /\ buf' = [buf EXCEPT ![p] = Source(o)]
           /\ pc' = [pc EXCEPT ![p] = "copy"] /\ UNCHANGED todo
        \/ /\ \E K \in SUBSET Connector : buf' = [buf EXCEPT ![p] = short(K)]
           /\ Fails /\ pc' = [pc EXCEPT ![p] = "copy"] /\ UNCHANGED todo
        \/ Fails /\ todo' = [todo EXCEPT ![p] = @ \ {o}] /\ UNCHANGED <<buf, pc>>
    BY DEF ReadHalf, Source
  <1>5. QED
    <2> HIDE DEF short
    <2> QED BY <1>2, <1>3, <1>4

(* A write stores what was read, and some record where nothing was.        *)
LEMMA WriteHalfWrites ==
    ASSUME TypeOK, NEW p \in Procs, NEW o, WriteHalf(p, o)
    PROVE  \E K \in SUBSET Connector, h \in Half :
              LET copied(half) == [k \in Connector |-> IF k \in K THEN h[k] ELSE half[k]] IN
              /\ \A k \in Connector : buf[p][k] # Unfilled => h[k] = buf[p][k]
              /\ K = Connector \/ Fails
              /\ \/ o = "reset" /\ base' = copied(base) /\ UNCHANGED bkp
                 \/ o = "backup" /\ bkp' = copied(bkp) /\ UNCHANGED base
              /\ Disturb(p, K)
  <1>1. buf[p] \in Buffer
    BY DEF TypeOK, Buffer
  <1>2. ASSUME NEW m \in [Connector -> Memory]
        PROVE  /\ Held(p, m) \in Half
               /\ \A k \in Connector : buf[p][k] # Unfilled => Held(p, m)[k] = buf[p][k]
    BY <1>1, InputAssumption DEF Held, Half, Buffer
  <1>3. PICK K \in SUBSET Connector, m \in [Connector -> Memory] :
          LET copied(half) ==
                  [k \in Connector |-> IF k \in K THEN Held(p, m)[k] ELSE half[k]]
          IN  /\ K = Connector \/ Fails
              /\ \/ o = "reset" /\ base' = copied(base) /\ UNCHANGED bkp
                 \/ o = "backup" /\ bkp' = copied(bkp) /\ UNCHANGED base
              /\ Disturb(p, K)
    BY DEF WriteHalf
  <1>4. QED
    BY <1>2, <1>3

LEMMA CopyType ==
    ASSUME TypeOK, NEW p \in Procs, NEW o, ReadHalf(p, o) \/ WriteHalf(p, o)
    PROVE  TypeOK'
  <1>1. errors' \in 0 .. MaxErrors
    BY FailsType DEF ReadHalf, WriteHalf, TypeOK
  <1>2. CASE ReadHalf(p, o)
    <2>1. buf' \in [Procs -> Buffer]
      BY <1>2, ReadHalfReads DEF TypeOK, Buffer
    <2>2. /\ todo' \in [Procs -> SUBSET Op]
          /\ \A q \in Procs : todo'[q] \subseteq Requested(cmd'[q])
      BY <1>2, TodoType DEF ReadHalf, TypeOK
    <2>3. QED
      BY <1>1, <1>2, <2>1, <2>2 DEF ReadHalf, TypeOK, PC, Buffer, partition, history
  <1>3. CASE WriteHalf(p, o)
    <2> DEFINE copied(K, h, half) ==
                 [k \in Connector |-> IF k \in K THEN h[k] ELSE half[k]]
    <2>6. PICK K \in SUBSET Connector, h \in Half :
            \/ base' = copied(K, h, base) /\ UNCHANGED bkp
            \/ bkp' = copied(K, h, bkp) /\ UNCHANGED base
      BY <1>3, WriteHalfWrites
    <2>7. base \in Half /\ bkp \in Half
      BY DEF TypeOK, Half
    <2>8. \A half \in Half : copied(K, h, half) \in Half
      BY DEF Half
    <2>1. base' \in Half /\ bkp' \in Half
      <3> HIDE DEF copied
      <3> QED BY <2>6, <2>7, <2>8
    <2>2. buf' \in [Procs -> Buffer]
      BY <1>3, InputAssumption DEF WriteHalf, TypeOK, Buffer
    <2>3. /\ todo' \in [Procs -> SUBSET Op]
          /\ \A q \in Procs : todo'[q] \subseteq Requested(cmd'[q])
      BY <1>3, TodoType DEF WriteHalf
    <2>4. disturbed' \in [Procs -> BOOLEAN]
      BY <1>3, DisturbType DEF WriteHalf, TypeOK
    <2>5. QED
      BY <1>1, <1>3, <2>1, <2>2, <2>3, <2>4 DEF WriteHalf, TypeOK, PC, Half, Buffer
  <1>4. QED
    BY <1>2, <1>3

LEMMA ExitType ==
    ASSUME TypeOK, NEW p \in Procs, Exit(p)
    PROVE  TypeOK'
  BY NoCommandIsCommand, NoScreenIsScreen, ValueAssumption, InputAssumption
  DEF Exit, TypeOK, PC, partition

LEMMA InitType == Init => TypeOK
  BY NoCommandIsCommand, NoScreenIsScreen, ValueAssumption, InputAssumption
  DEF Init, TypeOK, PC

LEMMA SettersCall ==
    ASSUME TypeOK, NEW p \in Procs,
           SetBcsh(p) \/ SetOverscan(p) \/ SetFramebufferInfo(p)
    PROVE  \E o \in Bcsh \cup {"scan", "fb"}, group \in SUBSET Op :
              LET arg == cmd[p][IF o \in Bcsh THEN "bcsh" ELSE o] IN
              /\ First(p, o) /\ Scanned(arg) \subseteq Value /\ Call(p, o, arg, group)
              /\ group = IF o \in Bcsh THEN Bcsh ELSE {o}
  <1>0. Bcsh \subseteq Op /\ {"scan"} \subseteq Op /\ {"fb"} \subseteq Op
    BY DEF Op
  <1>1. CASE SetBcsh(p)
    <2>1. PICK o \in Bcsh : Call(p, o, cmd[p].bcsh, Bcsh)
      BY <1>1 DEF SetBcsh
    <2>2. First(p, o) /\ Scanned(cmd[p].bcsh) \subseteq Value
      BY <2>1, ArgumentOf DEF Call
    <2>3. QED
      BY <1>0, <2>1, <2>2
  <1>2. CASE SetOverscan(p)
    <2>1. First(p, "scan") /\ Scanned(cmd[p].scan) \subseteq Value
      BY <1>2, ArgumentOf DEF SetOverscan, Call
    <2>2. "scan" \notin Bcsh
      BY DEF Bcsh
    <2>3. QED
      BY <1>0, <1>2, <2>1, <2>2 DEF SetOverscan
  <1>3. CASE SetFramebufferInfo(p)
    <2>1. First(p, "fb") /\ Scanned(cmd[p].fb) \subseteq Value
      BY <1>3, ArgumentOf DEF SetFramebufferInfo, Call
    <2>2. "fb" \notin Bcsh
      BY DEF Bcsh
    <2>3. QED
      BY <1>0, <1>3, <2>1, <2>2 DEF SetFramebufferInfo
  <1>4. QED
    BY <1>1, <1>2, <1>3

LEMMA NextType == TypeOK /\ [Next]_vars => TypeOK'
  <1> SUFFICES ASSUME TypeOK, [Next]_vars PROVE TypeOK'
    OBVIOUS
  <1>1. CASE UNCHANGED vars
    BY <1>1 DEF vars, TypeOK, partition, history
  <1>2. ASSUME NEW p \in Procs,
               SetBcsh(p) \/ SetOverscan(p) \/ SetFramebufferInfo(p)
        PROVE  TypeOK'
    BY <1>2, SettersCall, CallType
  <1>3. ASSUME NEW p \in Procs, SetColor(p) \/ SetResolution(p)
        PROVE  TypeOK'
    BY <1>3, ColorWrites, ResolutionWrites, GetScreenInfoType, SetScreenInfoType
  <1>4. ASSUME NEW p \in Procs, Reset(p) \/ Backup(p)
        PROVE  TypeOK'
    BY <1>4, CopyType DEF Reset, Backup
  <1>5. QED
    BY <1>1, <1>2, <1>3, <1>4, StartType, ExitType DEF Next

\* Every variable of BaseParameterV2 has its type, and main() only hands on
\* arguments that its command line gives.
THEOREM TypeCorrect == Spec => []TypeOK
  BY InitType, NextType, PTL DEF Spec

-----------------------------------------------------------------------------
(* The refinement.  A step of the tool is a step of the store of every     *)
(* connector, or leaves it as it is.                                       *)
StoreStep(k) == Store(k)!StoreNext \/ UNCHANGED Store(k)!storeVars

(* A run does one call at a time.                                          *)
LEMMA ResetOrBackup == \A p : ~(First(p, "reset") /\ First(p, "backup"))
  BY DEF First, Rank

(* A step that begins no copy.                                             *)
LEMMA NoNewCopy ==
    ASSUME NEW k, NEW o,
           \A q \in Procs : pc'[q] = "copy" =>
               pc[q] = "copy" /\ buf'[q] = buf[q] /\ todo'[q] = todo[q]
    PROVE  InFlight(k, o)' \subseteq InFlight(k, o)
  BY DEF InFlight, First

(* A step that begins none and ends none.                                  *)
LEMMA SameCopies ==
    ASSUME NEW k, NEW o,
           \A q \in Procs : /\ (pc'[q] = "copy" <=> pc[q] = "copy")
                            /\ pc[q] = "copy" => buf'[q] = buf[q] /\ todo'[q] = todo[q]
    PROVE  InFlight(k, o)' = InFlight(k, o)
  <1>1. \A q \in Procs : (pc[q] = "copy" /\ First(q, o))' <=> (pc[q] = "copy" /\ First(q, o))
    BY DEF First
  <1>2. \A q \in Procs : pc[q] = "copy" => buf'[q][k] = buf[q][k]
    OBVIOUS
  <1>3. InFlight(k, o)' \subseteq InFlight(k, o)
    BY <1>1, <1>2 DEF InFlight
  <1>4. InFlight(k, o) \subseteq InFlight(k, o)'
    BY <1>1, <1>2 DEF InFlight
  <1>5. QED
    BY <1>3, <1>4

(* Storing one group of settings of one connector.                         *)
LEMMA PutStep ==
    ASSUME TypeOK, NEW p \in Procs, NEW s \in Settings, Put(p, s), UNCHANGED bkp,
           NEW group \in {{"brightness"}, {"contrast"}, {"saturation"}, {"hue"}, {"scan"},
                         {"fb"}, {"format", "resolution", "feature"}},
           \A f \in Field \ group : s[f] = base[conn[p]][f],
           NEW k \in Connector,
           \A o \in {"reset", "backup"} : InFlight(k, o)' = InFlight(k, o)
    PROVE  StoreStep(k)
  <1>1. CASE k = conn[p]
    <2>1. base'[k] = s /\ bkp'[k] = bkp[k]
      BY <1>1 DEF Put, TypeOK
    <2>2. Store(k)!Assign(group)
      BY <1>1, <2>1 DEF Store!Assign
    <2>3. QED
      BY <2>2 DEF StoreStep, Store!StoreNext
  <1>2. CASE k # conn[p]
    BY <1>2 DEF Put, TypeOK, StoreStep, Store!storeVars
  <1>3. QED
    BY <1>1, <1>2

LEMMA SameStore ==
    ASSUME UNCHANGED partition, NEW k \in Connector,
           \A o \in {"reset", "backup"} : InFlight(k, o)' = InFlight(k, o)
    PROVE  StoreStep(k)
  BY DEF StoreStep, Store!storeVars, partition

LEMMA CallStep ==
    ASSUME TypeOK, NEW p \in Procs, NEW o \in Bcsh \cup {"scan", "fb"},
           NEW arg, NEW group, Scanned(arg) \subseteq Value, Call(p, o, arg, group),
           NEW k \in Connector
    PROVE  StoreStep(k)
  <1>1. \A q \in Procs : /\ (pc'[q] = "copy" <=> pc[q] = "copy")
                         /\ pc[q] = "copy" => buf'[q] = buf[q] /\ todo'[q] = todo[q]
    BY DEF Call, TypeOK
  <1>2. \A i \in {"reset", "backup"} : InFlight(k, i)' = InFlight(k, i)
    BY <1>1, SameCopies
  <1>3. CASE UNCHANGED base
    BY <1>2, <1>3, SameStore DEF Call, partition
  <1>4. CASE \E v \in Scanned(arg) : Put(p, [base[conn[p]] EXCEPT ![o] = v])
    <2> DEFINE s(v) == [base[conn[p]] EXCEPT ![o] = v]
    <2>1. PICK v \in Scanned(arg) : Put(p, s(v))
      BY <1>4
    <2>2. base[conn[p]] \in Settings
      BY DEF TypeOK
    <2>3. s(v) \in Settings
      BY <2>2 DEF Settings, Bcsh
    <2>4. \A f \in Field \ {o} : s(v)[f] = base[conn[p]][f]
      BY <2>2 DEF Settings, Field, Bcsh
    <2>5. UNCHANGED bkp /\ {o} \in {{"brightness"}, {"contrast"}, {"saturation"}, {"hue"},
                                   {"scan"}, {"fb"}, {"format", "resolution", "feature"}}
      BY DEF Call, Bcsh
    <2>6. QED
      <3> HIDE DEF s
      <3> QED BY <1>2, <2>1, <2>3, <2>4, <2>5, PutStep
  <1>5. QED
    BY <1>3, <1>4 DEF Call

LEMMA GetScreenInfoStep ==
    ASSUME TypeOK, NEW p \in Procs, NEW o, GetScreenInfo(p, o), NEW k \in Connector
    PROVE  StoreStep(k)
  <1>1. \A q \in Procs : /\ (pc'[q] = "copy" <=> pc[q] = "copy")
                         /\ pc[q] = "copy" => buf'[q] = buf[q] /\ todo'[q] = todo[q]
    BY DEF GetScreenInfo, TypeOK
  <1>2. \A i \in {"reset", "backup"} : InFlight(k, i)' = InFlight(k, i)
    BY <1>1, SameCopies
  <1>3. QED
    BY <1>2, SameStore DEF GetScreenInfo

LEMMA SetScreenInfoStep ==
    ASSUME TypeOK, NEW p \in Procs, NEW o, NEW info \in Screen, pc[p] = "screen",
           SetScreenInfo(p, o, info), NEW k \in Connector
    PROVE  StoreStep(k)
  <1> DEFINE s == [base[conn[p]] EXCEPT !.format = info.format,
                       !.resolution = info.resolution, !.feature = info.feature]
             group == {"format", "resolution", "feature"}
  <1>1. \A q \in Procs : /\ (pc'[q] = "copy" <=> pc[q] = "copy")
                         /\ pc[q] = "copy" => buf'[q] = buf[q] /\ todo'[q] = todo[q]
    BY DEF SetScreenInfo, TypeOK
  <1>2. \A i \in {"reset", "backup"} : InFlight(k, i)' = InFlight(k, i)
    BY <1>1, SameCopies
  <1>3. CASE UNCHANGED base
    BY <1>2, <1>3, SameStore DEF SetScreenInfo, partition
  <1>4. CASE Put(p, s)
    <2>1. base[conn[p]] \in Settings
      BY DEF TypeOK
    <2>2. s \in Settings
      BY <2>1 DEF Settings, Screen
    <2>3. \A f \in Field \ group : s[f] = base[conn[p]][f]
      BY <2>1 DEF Settings, Field, Bcsh
    <2>4. UNCHANGED bkp
      BY DEF SetScreenInfo
    <2>5. QED
      <3> HIDE DEF s
      <3> QED BY <1>2, <1>4, <2>2, <2>3, <2>4, PutStep
  <1>5. QED
    BY <1>3, <1>4 DEF SetScreenInfo

(* A copy begins with what the other half holds, where its read gets to.   *)
LEMMA ReadHalfStep ==
    ASSUME TypeOK, NEW p \in Procs, NEW o \in {"reset", "backup"}, ReadHalf(p, o),
           NEW k \in Connector
    PROVE  StoreStep(k)
  <1>1. CASE /\ pc' = [pc EXCEPT ![p] = "copy"] /\ UNCHANGED todo
             /\ \E h \in Buffer : /\ buf' = [buf EXCEPT ![p] = h]
                                  /\ h[k] \in {Source(o)[k], Unfilled}
    <2>1. \A q \in Procs : pc'[q] = "copy" =>
              \/ q = p /\ buf'[q][k] \in {Source(o)[k], Unfilled}
              \/ pc[q] = "copy" /\ buf'[q] = buf[q]
      BY <1>1 DEF TypeOK
    <2>2. First(p, o) /\ \A q, i : First(q, i)' = First(q, i)
      BY <1>1 DEF ReadHalf, First
    <2>3. InFlight(k, "reset")' \subseteq InFlight(k, "reset") \cup {bkp[k], Unfilled}
      BY <2>1, <2>2, ResetOrBackup DEF InFlight, Source
    <2>4. InFlight(k, "backup")' \subseteq InFlight(k, "backup") \cup {base[k], Unfilled}
      BY <2>1, <2>2, ResetOrBackup DEF InFlight, Source
    <2>5. Store(k)!Read
      BY <2>3, <2>4 DEF Store!Read, ReadHalf, partition
    <2>6. QED
      BY <2>5 DEF StoreStep, Store!StoreNext
  <1>2. CASE todo' = [todo EXCEPT ![p] = @ \ {o}] /\ UNCHANGED <<buf, pc>>
    <2>1. \A q \in Procs : /\ (pc'[q] = "copy" <=> pc[q] = "copy")
                           /\ pc[q] = "copy" => buf'[q] = buf[q] /\ todo'[q] = todo[q]
      BY <1>2 DEF ReadHalf, TypeOK
    <2>2. \A i \in {"reset", "backup"} : InFlight(k, i)' = InFlight(k, i)
      BY <2>1, SameCopies
    <2>3. QED
      BY <2>2, SameStore DEF ReadHalf
  <1>3. QED
    BY <1>1, <1>2, ReadHalfReads

(* It ends with that, or with anything where nothing was read, in the      *)
(* records the write reached.                                              *)
LEMMA WriteHalfStep ==
    ASSUME TypeOK, NEW p \in Procs, NEW o \in {"reset", "backup"}, WriteHalf(p, o),
           NEW k \in Connector
    PROVE  StoreStep(k)
  <1>1. \A q \in Procs : pc'[q] = "copy" =>
            pc[q] = "copy" /\ buf'[q] = buf[q] /\ todo'[q] = todo[q]
    BY DEF WriteHalf, TypeOK
  <1>2. \A i : InFlight(k, i)' \subseteq InFlight(k, i)
    BY <1>1, NoNewCopy
  <1>3. pc[p] = "copy" /\ First(p, o) /\ buf[p][k] \in InFlight(k, o)
    BY DEF WriteHalf, InFlight
  <1>4. \A q \in Procs \ {p} : pc'[q] = pc[q] /\ buf'[q] = buf[q] /\ todo'[q] = todo[q]
    BY DEF WriteHalf, TypeOK
  <1>5. ASSUME NEW i \in {"reset", "backup"}, i # o
        PROVE  InFlight(k, i)' = InFlight(k, i)
    <2>1. ~First(p, i)
      BY <1>3, <1>5, ResetOrBackup
    <2>2. \A q \in Procs : pc[q] = "copy" /\ First(q, i) =>
              q # p /\ First(q, i)' /\ pc'[q] = "copy" /\ buf'[q] = buf[q]
      BY <1>4, <2>1 DEF First
    <2>3. InFlight(k, i) \subseteq InFlight(k, i)'
      BY <2>2 DEF InFlight
    <2>4. QED
      BY <1>2, <2>3
  <1>6. CASE UNCHANGED <<base[k], bkp[k]>>
    <2>1. Store(k)!Read
      BY <1>2, <1>6 DEF Store!Read
    <2>2. QED
      BY <2>1 DEF StoreStep, Store!StoreNext
  <1> DEFINE installed(s) == s \in Settings /\ (buf[p][k] # Unfilled => s = buf[p][k])
  <1>10. \A s : installed(s) => s \in Store(k)!Installs(InFlight(k, o))
    BY <1>3 DEF Store!Installs
  <1>7. CASE o = "reset" /\ installed(base'[k]) /\ UNCHANGED bkp
    <2>1. Store(k)!Restore
      BY <1>2, <1>5, <1>7, <1>10 DEF Store!Restore
    <2>2. QED
      BY <2>1 DEF StoreStep, Store!StoreNext
  <1>8. CASE o = "backup" /\ installed(bkp'[k]) /\ UNCHANGED base
    <2>1. Store(k)!Save
      BY <1>2, <1>5, <1>8, <1>10 DEF Store!Save
    <2>2. QED
      BY <2>1 DEF StoreStep, Store!StoreNext
  <1>9. QED
    <2> DEFINE copied(K, h, half) ==
                 [j \in Connector |-> IF j \in K THEN h[j] ELSE half[j]]
    <2>1. PICK K \in SUBSET Connector, h \in Half :
            /\ \A j \in Connector : buf[p][j] # Unfilled => h[j] = buf[p][j]
            /\ \/ o = "reset" /\ base' = copied(K, h, base) /\ UNCHANGED bkp
               \/ o = "backup" /\ bkp' = copied(K, h, bkp) /\ UNCHANGED base
      BY WriteHalfWrites
    <2>3. installed(h[k])
      BY <2>1 DEF Half
    <2>4. CASE k \in K
      <3>1. copied(K, h, base)[k] = h[k] /\ copied(K, h, bkp)[k] = h[k]
        BY <2>4
      <3>2. QED
        <4> HIDE DEF copied, installed
        <4> QED BY <1>7, <1>8, <2>1, <2>3, <3>1
    <2>5. CASE k \notin K
      <3>1. copied(K, h, base)[k] = base[k] /\ copied(K, h, bkp)[k] = bkp[k]
        BY <2>5
      <3>2. QED
        <4> HIDE DEF copied, installed
        <4> QED BY <1>6, <2>1, <3>1
    <2>2. QED
      BY <2>4, <2>5

LEMMA StartStep ==
    ASSUME TypeOK, NEW p \in Procs, Start(p), NEW k \in Connector
    PROVE  StoreStep(k)
  <1>1. \A q \in Procs : /\ (pc'[q] = "copy" <=> pc[q] = "copy")
                         /\ pc[q] = "copy" => buf'[q] = buf[q] /\ todo'[q] = todo[q]
    BY DEF Start, TypeOK
  <1>2. \A i \in {"reset", "backup"} : InFlight(k, i)' = InFlight(k, i)
    BY <1>1, SameCopies
  <1>3. QED
    BY <1>2, SameStore DEF Start

(* A run that ends in the middle of a copy gives it up.                    *)
LEMMA ExitStep ==
    ASSUME TypeOK, NEW p \in Procs, Exit(p), NEW k \in Connector
    PROVE  StoreStep(k)
  <1>1. \A q \in Procs : pc'[q] = "copy" =>
            pc[q] = "copy" /\ buf'[q] = buf[q] /\ todo'[q] = todo[q]
    BY DEF Exit, TypeOK
  <1>2. \A i : InFlight(k, i)' \subseteq InFlight(k, i)
    BY <1>1, NoNewCopy
  <1>3. Store(k)!Read
    BY <1>2 DEF Store!Read, Exit, partition
  <1>4. QED
    BY <1>3 DEF StoreStep, Store!StoreNext

LEMMA InitStore == Init => \A k \in Connector : Store(k)!StoreInit
  BY InputAssumption DEF Init, Store!StoreInit, InFlight

LEMMA NextStore ==
    ASSUME TypeOK, Next, NEW k \in Connector
    PROVE  StoreStep(k)
  <1>1. ASSUME NEW p \in Procs,
               SetBcsh(p) \/ SetOverscan(p) \/ SetFramebufferInfo(p)
        PROVE  StoreStep(k)
    BY <1>1, SettersCall, CallStep
  <1>2. ASSUME NEW p \in Procs, SetColor(p) \/ SetResolution(p)
        PROVE  StoreStep(k)
    BY <1>2, ColorWrites, ResolutionWrites, GetScreenInfoStep, SetScreenInfoStep
  <1>3. ASSUME NEW p \in Procs, Reset(p) \/ Backup(p)
        PROVE  StoreStep(k)
    BY <1>3, ReadHalfStep, WriteHalfStep DEF Reset, Backup
  <1>4. QED
    BY <1>1, <1>2, <1>3, StartStep, ExitStep DEF Next

\* The record of every connector is a SharedStore, however many runs overlap.
THEOREM RecordsImplementStore == Spec => ImplementsStore
  <1>1. TypeOK /\ [Next]_vars =>
          [\A k \in Connector : Store(k)!StoreNext \/ UNCHANGED Store(k)!storeVars]_vars
    BY NextStore DEF StoreStep
  <1>2. QED
    BY <1>1, InitStore, TypeCorrect, PTL DEF Spec, ImplementsStore
-----------------------------------------------------------------------------
(* NothingInvented is not inductive: what is not junk in the records must  *)
(* not be junk in what the runs have read of them, and what a run stores   *)
(* must come from a command line it was given.                             *)
Sources(junk) ==
    /\ \A k \in Connector, f \in Field : Factory[k][f] # junk
    /\ \A c \in Commands : \A o \in {"bcsh", "scan", "fb", "color", "res"} :
          c[o] \notin {Short, junk}
    /\ junk \notin {Zero, HighSubsampling}

Pure(s, junk) == \A f \in Field \ {"feature"} : s[f] # junk

RecordsPure(junk) == \A k \in Connector : Pure(base[k], junk) /\ Pure(bkp[k], junk)
ScreensPure(junk) ==
    \A p \in Procs : screen[p].format # junk /\ screen[p].resolution # junk
CopiesPure(junk) ==
    \A p \in Procs, k \in Connector : buf[p][k] # Unfilled /\ Pure(buf[p][k], junk)
AllPure(junk) == RecordsPure(junk) /\ ScreensPure(junk) /\ CopiesPure(junk)

Given == \A p \in Procs : cmd[p] \in Commands \cup {NoCommand}

PureInv(junk) == Sources(junk) /\ errors = 0 => AllPure(junk)
IInv == TypeOK /\ Given /\ \A junk \in Value : PureInv(junk)

LEMMA FactoryPure ==
    ASSUME NEW junk, Sources(junk)
    PROVE  \A k \in Connector : Factory[k] # Unfilled /\ Pure(Factory[k], junk)
  BY InputAssumption DEF Sources, Pure

LEMMA NoErrorBefore ==
    ASSUME TypeOK, Next, errors' = 0
    PROVE  errors = 0 /\ ~Fails
  <1>1. PICK p \in Procs :
          \/ Start(p)
          \/ SetBcsh(p) \/ SetOverscan(p) \/ SetFramebufferInfo(p)
          \/ SetColor(p) \/ SetResolution(p)
          \/ Reset(p) \/ Backup(p)
          \/ Exit(p)
    BY DEF Next
  <1>2. CASE Start(p) \/ Exit(p)
    BY <1>2, FailsType DEF Start, Exit, TypeOK
  <1>3. CASE SetBcsh(p) \/ SetOverscan(p) \/ SetFramebufferInfo(p)
    <2>1. \E o, arg, group : Call(p, o, arg, group)
      BY <1>3 DEF SetBcsh, SetOverscan, SetFramebufferInfo
    <2>2. Fails \/ UNCHANGED errors
      BY <2>1 DEF Call
    <2>3. QED
      BY <2>2, FailsType DEF TypeOK
  <1>4. CASE SetColor(p) \/ SetResolution(p)
    <2>1. (\E o : GetScreenInfo(p, o)) \/ (\E o, info : SetScreenInfo(p, o, info))
      BY <1>4, ColorWrites, ResolutionWrites
    <2>2. Fails \/ UNCHANGED errors
      BY <2>1 DEF GetScreenInfo, SetScreenInfo
    <2>3. QED
      BY <2>2, FailsType DEF TypeOK
  <1>5. CASE Reset(p) \/ Backup(p)
    <2>1. Fails \/ UNCHANGED errors
      BY <1>5 DEF Reset, Backup, ReadHalf, WriteHalf
    <2>2. QED
      BY <2>1, FailsType DEF TypeOK
  <1>6. QED
    BY <1>1, <1>2, <1>3, <1>4, <1>5

LEMMA GivenStep ==
    ASSUME Given, TypeOK, Next
    PROVE  Given'
  <1>1. PICK p \in Procs :
            \/ UNCHANGED cmd
            \/ \E c \in Commands \cup {NoCommand} : cmd' = [cmd EXCEPT ![p] = c]
    <2>1. PICK p \in Procs :
            \/ Start(p)
            \/ SetBcsh(p) \/ SetOverscan(p) \/ SetFramebufferInfo(p)
            \/ SetColor(p) \/ SetResolution(p)
            \/ Reset(p) \/ Backup(p)
            \/ Exit(p)
      BY DEF Next
    <2>2. CASE Start(p) \/ Exit(p)
      BY <2>2 DEF Start, Exit
    <2>3. CASE SetBcsh(p) \/ SetOverscan(p) \/ SetFramebufferInfo(p)
      BY <2>3 DEF SetBcsh, SetOverscan, SetFramebufferInfo, Call
    <2>4. CASE SetColor(p) \/ SetResolution(p)
      BY <2>4, ColorWrites, ResolutionWrites DEF GetScreenInfo, SetScreenInfo
    <2>5. CASE Reset(p) \/ Backup(p)
      BY <2>5 DEF Reset, Backup, ReadHalf, WriteHalf
    <2>6. QED
      BY <2>1, <2>2, <2>3, <2>4, <2>5
  <1>2. QED
    BY <1>1 DEF Given, TypeOK

(* The numbers a run hands on are those of its command line, none of them  *)
(* junk.                                                                   *)
LEMMA ArgumentPure ==
    ASSUME TypeOK, Given, NEW junk, Sources(junk), NEW p \in Procs
    PROVE  /\ \A o \in Bcsh : First(p, o) => junk \notin Scanned(cmd[p].bcsh)
           /\ First(p, "scan") => junk \notin Scanned(cmd[p].scan)
           /\ First(p, "fb") => junk \notin Scanned(cmd[p].fb)
           /\ First(p, "res") => junk \notin Scanned(cmd[p].res)
           /\ First(p, "color") => junk # cmd[p].color
  <1>1. CASE cmd[p] = NoCommand
    <2>1. todo[p] = {}
      BY <1>1, NoCommandIsCommand DEF TypeOK
    <2>2. QED
      BY <2>1 DEF First
  <1>2. CASE cmd[p] \in Commands
    <2>1. \A o \in {"bcsh", "scan", "fb", "color", "res"} : cmd[p][o] \notin {Short, junk}
      BY <1>2 DEF Sources
    <2>2. QED
      BY <2>1 DEF Scanned
  <1>3. QED
    BY <1>1, <1>2 DEF Given

(* Storing pure settings keeps the records pure.                           *)
LEMMA PutPure ==
    ASSUME TypeOK, NEW p \in Procs, NEW s, NEW junk, Put(p, s), UNCHANGED bkp,
           Pure(s, junk), RecordsPure(junk)
    PROVE  RecordsPure(junk)'
  BY DEF Put, TypeOK, RecordsPure, Pure

LEMMA CallPure ==
    ASSUME TypeOK, NEW p \in Procs, NEW o \in Bcsh \cup {"scan", "fb"},
           NEW arg, NEW group, Call(p, o, arg, group), ~Fails,
           NEW junk, junk \notin Scanned(arg), AllPure(junk)
    PROVE  AllPure(junk)'
  <1> DEFINE s(v) == [base[conn[p]] EXCEPT ![o] = v]
  <1>1. PICK v \in Scanned(arg) : Put(p, s(v))
    BY DEF Call
  <1>2. base[conn[p]] \in Settings /\ Pure(base[conn[p]], junk)
    BY DEF TypeOK, AllPure, RecordsPure
  <1>3. Pure(s(v), junk)
    BY <1>1, <1>2 DEF Settings, Pure, Field, Bcsh
  <1>4. RecordsPure(junk)'
    <2> HIDE DEF s
    <2> QED BY <1>1, <1>3, PutPure DEF Call, AllPure
  <1>5. QED
    BY <1>4 DEF Call, AllPure, ScreensPure, CopiesPure

LEMMA GetScreenInfoPure ==
    ASSUME TypeOK, NEW p \in Procs, NEW o, GetScreenInfo(p, o), ~Fails,
           NEW junk, AllPure(junk)
    PROVE  AllPure(junk)'
  <1> DEFINE s == base[conn[p]]
  <1>1. screen' = [screen EXCEPT ![p] =
            [format |-> s.format, resolution |-> s.resolution, feature |-> s.feature]]
    BY DEF GetScreenInfo
  <1>2. s.format # junk /\ s.resolution # junk
    BY DEF TypeOK, AllPure, RecordsPure, Pure, Field
  <1>3. ScreensPure(junk)'
    BY <1>1, <1>2 DEF AllPure, ScreensPure, TypeOK
  <1>4. QED
    BY <1>3 DEF GetScreenInfo, AllPure, RecordsPure, CopiesPure, partition

LEMMA SetScreenInfoPure ==
    ASSUME TypeOK, NEW p \in Procs, NEW o, NEW info \in Screen,
           SetScreenInfo(p, o, info), ~Fails, NEW junk, Sources(junk),
           info.format # junk, info.resolution # junk, AllPure(junk)
    PROVE  AllPure(junk)'
  <1> DEFINE s == [base[conn[p]] EXCEPT !.format = info.format,
                       !.resolution = info.resolution, !.feature = info.feature]
  <1>1. Put(p, s)
    BY DEF SetScreenInfo
  <1>2. base[conn[p]] \in Settings /\ Pure(base[conn[p]], junk)
    BY DEF TypeOK, AllPure, RecordsPure
  <1>3. Pure(s, junk)
    BY <1>2 DEF Settings, Pure, Field, Bcsh
  <1>4. RecordsPure(junk)'
    <2> HIDE DEF s
    <2> QED BY <1>1, <1>3, PutPure DEF SetScreenInfo, AllPure
  <1>5. ScreensPure(junk)'
    BY DEF SetScreenInfo, NoScreen, Sources, AllPure, ScreensPure, TypeOK
  <1>6. QED
    BY <1>4, <1>5 DEF SetScreenInfo, AllPure, CopiesPure

LEMMA CopyPure ==
    ASSUME TypeOK, NEW p \in Procs, NEW o, ReadHalf(p, o) \/ WriteHalf(p, o), ~Fails,
           NEW junk, Sources(junk), AllPure(junk)
    PROVE  AllPure(junk)'
  <1>1. CASE ReadHalf(p, o)
    <2>1. buf' = [buf EXCEPT ![p] = IF o = "reset" THEN bkp ELSE base]
      BY <1>1 DEF ReadHalf
    <2>2. CopiesPure(junk)'
      BY <2>1, InputAssumption DEF AllPure, RecordsPure, CopiesPure, TypeOK
    <2>3. QED
      BY <1>1, <2>2 DEF ReadHalf, AllPure, RecordsPure, ScreensPure, partition
  <1>2. CASE WriteHalf(p, o)
    <2> DEFINE copied(K, h, half) ==
                 [j \in Connector |-> IF j \in K THEN h[j] ELSE half[j]]
    <2>1. PICK K \in SUBSET Connector, h \in Half :
            /\ \A k \in Connector : buf[p][k] # Unfilled => h[k] = buf[p][k]
            /\ \/ base' = copied(K, h, base) /\ UNCHANGED bkp
               \/ bkp' = copied(K, h, bkp) /\ UNCHANGED base
      BY <1>2, WriteHalfWrites
    <2>2. RecordsPure(junk)'
      BY <2>1 DEF AllPure, RecordsPure, CopiesPure
    <2>3. CopiesPure(junk)'
      BY <1>2, FactoryPure DEF WriteHalf, AllPure, CopiesPure, TypeOK
    <2>4. QED
      BY <1>2, <2>2, <2>3 DEF WriteHalf, AllPure, ScreensPure
  <1>3. QED
    BY <1>1, <1>2

LEMMA StartPure ==
    ASSUME TypeOK, NEW p \in Procs, Start(p), NEW junk, AllPure(junk)
    PROVE  AllPure(junk)'
  BY DEF Start, AllPure, RecordsPure, ScreensPure, CopiesPure, partition

LEMMA ExitPure ==
    ASSUME TypeOK, NEW p \in Procs, Exit(p), NEW junk, Sources(junk), AllPure(junk)
    PROVE  AllPure(junk)'
  <1>1. RecordsPure(junk)'
    BY DEF Exit, AllPure, RecordsPure, partition
  <1>2. ScreensPure(junk)'
    BY DEF Exit, AllPure, ScreensPure, TypeOK, NoScreen, Sources
  <1>3. CopiesPure(junk)'
    BY FactoryPure DEF Exit, AllPure, CopiesPure, TypeOK
  <1>4. QED
    BY <1>1, <1>2, <1>3 DEF AllPure

LEMMA SettersPure ==
    ASSUME TypeOK, Given, NEW p \in Procs, ~Fails,
           \/ SetBcsh(p) \/ SetOverscan(p) \/ SetFramebufferInfo(p)
           \/ SetColor(p) \/ SetResolution(p),
           NEW junk, Sources(junk), AllPure(junk)
    PROVE  AllPure(junk)'
  <1>1. CASE SetBcsh(p)
    <2>1. PICK o \in Bcsh : Call(p, o, cmd[p].bcsh, Bcsh)
      BY <1>1 DEF SetBcsh
    <2>2. junk \notin Scanned(cmd[p].bcsh)
      BY <2>1, ArgumentPure DEF Call
    <2>3. QED
      BY <2>1, <2>2, CallPure
  <1>2. CASE SetOverscan(p)
    BY <1>2, ArgumentPure, CallPure DEF SetOverscan, Call
  <1>3. CASE SetFramebufferInfo(p)
    BY <1>3, ArgumentPure, CallPure DEF SetFramebufferInfo, Call
  <1>4. CASE SetColor(p)
    BY <1>4, ColorWrites, ArgumentPure, GetScreenInfoPure, SetScreenInfoPure
    DEF Sources, AllPure, ScreensPure
  <1>5. CASE SetResolution(p)
    BY <1>5, ResolutionWrites, ArgumentPure, GetScreenInfoPure, SetScreenInfoPure
    DEF Sources, AllPure, ScreensPure
  <1>6. QED
    BY <1>1, <1>2, <1>3, <1>4, <1>5

LEMMA InitInv == Init => IInv
  <1> SUFFICES ASSUME Init PROVE IInv
    OBVIOUS
  <1>1. Given
    BY DEF Init, Given
  <1>2. ASSUME NEW junk \in Value, Sources(junk)
        PROVE  AllPure(junk)
    BY <1>2, FactoryPure DEF Init, AllPure, RecordsPure, ScreensPure, CopiesPure,
                             NoScreen, Sources
  <1>3. QED
    BY <1>1, <1>2, InitType DEF IInv, PureInv

LEMMA NextInv == IInv /\ [Next]_vars => IInv'
  <1> SUFFICES ASSUME IInv, [Next]_vars PROVE IInv'
    OBVIOUS
  <1>1. TypeOK'
    BY NextType DEF IInv
  <1>2. CASE UNCHANGED vars
    <2>1. Given'
      BY <1>2 DEF IInv, Given, vars
    <2>2. ASSUME NEW junk \in Value PROVE PureInv(junk)'
      BY <1>2 DEF IInv, PureInv, AllPure, RecordsPure, ScreensPure, CopiesPure,
                  vars, partition
    <2>3. QED
      BY <1>1, <2>1, <2>2 DEF IInv
  <1>3. CASE Next
    <2>1. Given'
      BY <1>3, GivenStep DEF IInv
    <2>2. ASSUME NEW junk \in Value, Sources(junk), errors' = 0
          PROVE  AllPure(junk)'
      <3>1. errors = 0 /\ ~Fails
        BY <1>3, <2>2, NoErrorBefore DEF IInv
      <3>2. TypeOK /\ Given /\ AllPure(junk)
        BY <2>2, <3>1 DEF IInv, PureInv
      <3>3. PICK p \in Procs :
              \/ Start(p)
              \/ SetBcsh(p) \/ SetOverscan(p) \/ SetFramebufferInfo(p)
              \/ SetColor(p) \/ SetResolution(p)
              \/ Reset(p) \/ Backup(p)
              \/ Exit(p)
        BY <1>3 DEF Next
      <3>4. CASE Reset(p) \/ Backup(p)
        BY <2>2, <3>1, <3>2, <3>4, CopyPure DEF Reset, Backup
      <3>5. QED
        BY <2>2, <3>1, <3>2, <3>3, <3>4, StartPure, ExitPure, SettersPure
    <2>3. QED
      BY <1>1, <2>1, <2>2 DEF IInv, PureInv, Sources
  <1>4. QED
    BY <1>2, <1>3

\* Nothing uninitialised gets into a record unless a call failed or an
\* argument was too short, for any overlap of any number of runs.
THEOREM NothingIsInvented == Spec => []NothingInvented
  <1>1. IInv => NothingInvented
    BY DEF IInv, PureInv, AllPure, RecordsPure, Pure, Sources, NothingInvented, NoGarbage
  <1>2. QED
    BY <1>1, InitInv, NextInv, PTL DEF Spec

-----------------------------------------------------------------------------
(* Runs that no other one disturbs.                                        *)

Active(p) == pc[p] # "idle" /\ ~disturbed[p]

\* The settings of setBcsh() are there up to some call; if calls are left to
\* make, they are those that follow it.
PrefixInv(p) ==
    Active(p) /\ cmd[p].bcsh \in Value /\ ~cmd[p].reset =>
        \E n \in 0 .. 4 :
            /\ \A o \in Bcsh :
                  New(p)[o] = IF Rank[o] <= n THEN cmd[p].bcsh ELSE Old(p)[o]
            /\ \/ todo[p] \cap Bcsh = {}
               \/ \A o \in Bcsh : o \in todo[p] <=> Rank[o] > n

\* The option that stores field f of a record.
OptionOf(f) ==
    CASE f = "format" -> "color" [] f = "resolution" -> "res" [] OTHER -> f

\* What has been served is there, what is asked for is as it was until then,
\* and a struct that was read is still what the record holds.
KeptInv(p) ==
    Active(p) /\ errors = 0 /\ ~cmd[p].reset =>
        /\ \A f \in {"scan", "fb", "format", "resolution"} :
              LET asked == cmd[p][OptionOf(f)] IN
              IF asked = Absent \/ OptionOf(f) \in todo[p]
              THEN New(p)[f] = Old(p)[f]
              ELSE asked \in Value => New(p)[f] = asked
        /\ pc[p] = "screen" => /\ screen[p].format = New(p).format
                               /\ screen[p].resolution = New(p).resolution

\* Once the reset is done only backup() and setResolution() may follow, and
\* the two halves agree but for what the latter stores.
ResetInv(p) ==
    Active(p) /\ errors = 0 /\ cmd[p].reset =>
        /\ pc[p] = "copy" =>
              \/ First(p, "reset") /\ buf[p][conn[p]] = bkp[conn[p]]
              \/ First(p, "backup") /\ buf[p][conn[p]] = base[conn[p]]
        /\ "reset" \notin todo[p] =>
              /\ todo[p] \subseteq {"backup", "res"}
              /\ \A f \in Field \ {"resolution", "feature"} :
                    New(p)[f] = bkp[conn[p]][f]
              /\ pc[p] = "screen" => screen[p].format = New(p).format

AloneInv == \A p \in Procs : PrefixInv(p) /\ KeptInv(p) /\ ResetInv(p)

Same(p) ==
    /\ Active(p)
    /\ pc'[p] = pc[p] /\ cmd'[p] = cmd[p] /\ conn'[p] = conn[p] /\ todo'[p] = todo[p]
    /\ screen'[p] = screen[p] /\ buf'[p] = buf[p] /\ before'[p] = before[p]
    /\ base'[conn[p]] = base[conn[p]] /\ bkp'[conn[p]] = bkp[conn[p]]

(* A run that is not disturbed does not see what another one does.         *)
LEMMA OtherRun ==
    ASSUME TypeOK, NEW p \in Procs, NEW q \in Procs, q # p, Active(p)',
           \/ Start(q)
           \/ SetBcsh(q) \/ SetOverscan(q) \/ SetFramebufferInfo(q)
           \/ SetColor(q) \/ SetResolution(q)
           \/ Reset(q) \/ Backup(q)
           \/ Exit(q)
    PROVE  Same(p)
  <1>1. CASE Start(q)
    BY <1>1 DEF Start, Same, Active, TypeOK, partition
  <1>2. CASE Exit(q)
    BY <1>2 DEF Exit, Same, Active, TypeOK, partition
  <1>3. ASSUME NEW s, Put(q, s), pc'[p] = pc[p]
        PROVE  Active(p) /\ base'[conn[p]] = base[conn[p]]
    BY <1>3 DEF Put, Disturb, Active, TypeOK
  <1>4. CASE SetBcsh(q) \/ SetOverscan(q) \/ SetFramebufferInfo(q)
    <2>1. PICK o, arg, group : Call(q, o, arg, group)
      BY <1>4 DEF SetBcsh, SetOverscan, SetFramebufferInfo
    <2>2. (\E s : Put(q, s)) \/ UNCHANGED <<base, disturbed>>
      BY <2>1 DEF Call
    <2>3. /\ UNCHANGED <<bkp, pc, cmd, conn, screen, buf, before>>
          /\ todo'[p] = todo[p]
      BY <2>1 DEF Call, TypeOK
    <2>4. QED
      BY <1>3, <2>2, <2>3 DEF Same, Active
  <1>5. CASE SetColor(q) \/ SetResolution(q)
    <2>1. (\E o : GetScreenInfo(q, o)) \/ (\E o, info : SetScreenInfo(q, o, info))
      BY <1>5, ColorWrites, ResolutionWrites
    <2>2. CASE \E o : GetScreenInfo(q, o)
      BY <2>2 DEF GetScreenInfo, Same, Active, TypeOK, partition, history
    <2>3. CASE \E o, info : SetScreenInfo(q, o, info)
      <3>1. PICK o, info : SetScreenInfo(q, o, info)
        BY <2>3
      <3>2. (\E s : Put(q, s)) \/ UNCHANGED <<base, disturbed>>
        BY <3>1 DEF SetScreenInfo
      <3>3. /\ UNCHANGED <<bkp, cmd, conn, buf, before>>
            /\ pc'[p] = pc[p] /\ todo'[p] = todo[p] /\ screen'[p] = screen[p]
        BY <3>1 DEF SetScreenInfo, TypeOK
      <3>4. QED
        BY <1>3, <3>2, <3>3 DEF Same, Active
    <2>4. QED
      BY <2>1, <2>2, <2>3
  <1>6. CASE Reset(q) \/ Backup(q)
    <2>1. PICK o : ReadHalf(q, o) \/ WriteHalf(q, o)
      BY <1>6 DEF Reset, Backup
    <2>2. CASE ReadHalf(q, o)
      BY <2>2 DEF ReadHalf, Same, Active, TypeOK, partition, history
    <2>3. CASE WriteHalf(q, o)
      <3>1. /\ UNCHANGED <<cmd, conn, screen, before>>
            /\ pc'[p] = pc[p] /\ todo'[p] = todo[p] /\ buf'[p] = buf[p]
        BY <2>3 DEF WriteHalf, TypeOK
      <3>2. PICK K \in SUBSET Connector, h \in Half :
              LET copied(half) ==
                      [k \in Connector |-> IF k \in K THEN h[k] ELSE half[k]]
              IN  /\ \/ base' = copied(base) /\ UNCHANGED bkp
                     \/ bkp' = copied(bkp) /\ UNCHANGED base
                  /\ Disturb(q, K)
        BY <2>3, WriteHalfWrites
      <3>3. Active(p) /\ conn[p] \notin K
        BY <3>1, <3>2 DEF Disturb, Active, TypeOK
      <3>4. base'[conn[p]] = base[conn[p]] /\ bkp'[conn[p]] = bkp[conn[p]]
        BY <3>2, <3>3 DEF TypeOK
      <3>5. QED
        BY <3>1, <3>3, <3>4 DEF Same
    <2>4. QED
      BY <2>1, <2>2, <2>3
  <1>7. QED
    BY <1>1, <1>2, <1>4, <1>5, <1>6

LEMMA SameKeeps ==
    ASSUME NEW p \in Procs, Same(p), errors' = 0 => errors = 0
    PROVE  /\ PrefixInv(p) => PrefixInv(p)'
           /\ KeptInv(p) => KeptInv(p)'
           /\ ResetInv(p) => ResetInv(p)'
  <1>1. /\ New(p)' = New(p) /\ Old(p)' = Old(p) /\ Active(p)
        /\ bkp'[conn'[p]] = bkp[conn[p]]
    BY DEF Same, New, Old
  <1>2. \A o : First(p, o)' <=> First(p, o)
    BY DEF Same, First
  <1>3. PrefixInv(p) => PrefixInv(p)'
    BY <1>1 DEF Same, PrefixInv
  <1>4. KeptInv(p) => KeptInv(p)'
    BY <1>1 DEF Same, KeptInv
  <1>5. ResetInv(p) => ResetInv(p)'
    BY <1>1, <1>2 DEF Same, ResetInv, New
  <1>6. QED
    BY <1>3, <1>4, <1>5

-----------------------------------------------------------------------------
(* What a run does itself, when no other one disturbs it.                  *)

LEMMA RequestedShape ==
    ASSUME TypeOK, NEW p \in Procs
    PROVE  /\ "reset" \in todo[p] => cmd[p].reset
           /\ \A o \in {"scan", "fb", "color", "res"} : o \in todo[p] => cmd[p][o] # Absent
           /\ todo[p] \subseteq Op
  BY DEF TypeOK, Requested, Bcsh

LEMMA ScannedValue == \A v \in Value : Scanned(v) = {v} /\ v # Absent
  BY ValueAssumption DEF Scanned

LEMMA OwnStart ==
    ASSUME TypeOK, NEW p \in Procs, Start(p)
    PROVE  PrefixInv(p)' /\ KeptInv(p)' /\ ResetInv(p)'
  <1>1. PICK c \in Commands :
          cmd' = [cmd EXCEPT ![p] = c] /\ todo' = [todo EXCEPT ![p] = Requested(c)]
    BY DEF Start
  <1>2. /\ New(p)' = Old(p)' /\ pc'[p] = "run" /\ cmd'[p] = c
        /\ todo'[p] = Requested(c)
    BY <1>1 DEF Start, New, Old, TypeOK, partition
  <1>3. PrefixInv(p)'
    <2>1. ASSUME c.bcsh \in Value
          PROVE  \A o \in Bcsh : (o \in Requested(c) <=> Rank[o] > 0) /\ ~(Rank[o] <= 0)
      BY <2>1, ScannedValue DEF Requested, Bcsh, Rank
    <2>2. QED
      BY <1>2, <2>1 DEF PrefixInv
  <1>4. KeptInv(p)'
    <2>1. \A o \in {"scan", "fb", "color", "res"} : c[o] # Absent => o \in Requested(c)
      BY DEF Requested
    <2>2. QED
      BY <1>2, <2>1 DEF KeptInv, OptionOf
  <1>5. ResetInv(p)'
    BY <1>2 DEF ResetInv, Requested
  <1>6. QED
    BY <1>3, <1>4, <1>5

LEMMA OwnPut ==
    ASSUME TypeOK, NEW p \in Procs, NEW s, Put(p, s), UNCHANGED conn
    PROVE  New(p)' = s /\ disturbed'[p] = disturbed[p]
  BY DEF TypeOK, Put, Disturb, New

LEMMA CallPrefix ==
    ASSUME TypeOK, NEW p \in Procs, NEW o \in Bcsh \cup {"scan", "fb"}, NEW group,
           group = IF o \in Bcsh THEN Bcsh ELSE {o},
           Call(p, o, cmd[p][IF o \in Bcsh THEN "bcsh" ELSE o], group), PrefixInv(p)
    PROVE  PrefixInv(p)'
  <1> DEFINE arg == cmd[p][IF o \in Bcsh THEN "bcsh" ELSE o]
  <1>1. /\ First(p, o) /\ pc[p] = "run" /\ UNCHANGED <<pc, cmd, conn, before>>
        /\ todo[p] \subseteq Op /\ New(p) \in Settings
    BY DEF Call, TypeOK, New
  <1>2. SUFFICES ASSUME Active(p)', cmd[p].bcsh \in Value, ~cmd[p].reset
                 PROVE  PrefixInv(p)'
    BY <1>1 DEF PrefixInv
  <1>3. Old(p)' = Old(p) /\ cmd'[p] = cmd[p]
    BY <1>1 DEF Old
  <1>4. CASE Fails /\ todo' = [todo EXCEPT ![p] = @ \ group] /\ UNCHANGED <<base, disturbed>>
    <2>1. New(p)' = New(p) /\ Active(p) /\ todo'[p] = todo[p] \ group
      BY <1>1, <1>2, <1>4 DEF New, Active, TypeOK
    <2>2. PICK n \in 0 .. 4 :
            /\ \A b \in Bcsh : New(p)[b] = IF Rank[b] <= n THEN cmd[p].bcsh ELSE Old(p)[b]
            /\ \/ todo[p] \cap Bcsh = {}
               \/ \A b \in Bcsh : b \in todo[p] <=> Rank[b] > n
      BY <1>2, <2>1 DEF PrefixInv
    <2>3. \/ todo'[p] \cap Bcsh = {}
          \/ \A b \in Bcsh : b \in todo'[p] <=> Rank[b] > n
      BY <2>1, <2>2
    <2>4. QED
      BY <1>3, <2>1, <2>2, <2>3 DEF PrefixInv
  <1>5. CASE \E v \in Scanned(arg) : /\ Put(p, [base[conn[p]] EXCEPT ![o] = v])
                                     /\ todo' = [todo EXCEPT ![p] = @ \ {o}]
    <2>1. PICK v \in Scanned(arg) : /\ Put(p, [base[conn[p]] EXCEPT ![o] = v])
                                    /\ todo' = [todo EXCEPT ![p] = @ \ {o}]
      BY <1>5
    <2>2. New(p)' = [New(p) EXCEPT ![o] = v] /\ disturbed'[p] = disturbed[p]
      BY <1>1, <2>1, OwnPut DEF New
    <2>3. Active(p) /\ todo'[p] = todo[p] \ {o}
      BY <1>1, <1>2, <2>1, <2>2 DEF Active, TypeOK
    <2>4. PICK n \in 0 .. 4 :
            /\ \A b \in Bcsh : New(p)[b] = IF Rank[b] <= n THEN cmd[p].bcsh ELSE Old(p)[b]
            /\ \/ todo[p] \cap Bcsh = {}
               \/ \A b \in Bcsh : b \in todo[p] <=> Rank[b] > n
      BY <1>2, <2>3 DEF PrefixInv
    <2>5. CASE o \notin Bcsh
      <3>1. /\ \A b \in Bcsh : New(p)'[b] = New(p)[b]
            /\ todo'[p] \cap Bcsh = todo[p] \cap Bcsh
        BY <1>1, <2>2, <2>3, <2>5 DEF Settings, Bcsh
      <3>2. \A b \in Bcsh : b \in todo'[p] <=> b \in todo[p]
        BY <3>1
      <3>3. QED
        BY <1>3, <2>4, <3>1, <3>2 DEF PrefixInv
    <2>6. CASE o \in Bcsh
      <3>1. v = cmd[p].bcsh
        BY <1>2, <2>1, <2>6, ScannedValue
      <3>2. \A b \in Bcsh : b \in todo[p] <=> Rank[b] > n
        BY <1>1, <2>4, <2>6 DEF First
      <3>3. Rank[o] = n + 1
        BY <1>1, <2>6, <3>2 DEF First, Bcsh, Rank
      <3>4. \A b \in Bcsh : /\ New(p)'[b] = IF Rank[b] <= n + 1 THEN cmd[p].bcsh ELSE Old(p)[b]
                            /\ b \in todo'[p] <=> Rank[b] > n + 1
        BY <1>1, <2>2, <2>3, <2>4, <2>6, <3>1, <3>2, <3>3 DEF Settings, Bcsh, Rank
      <3>5. n + 1 \in 0 .. 4
        BY <2>6, <3>3 DEF Bcsh, Rank
      <3>6. QED
        BY <1>3, <3>4, <3>5 DEF PrefixInv
    <2>7. QED
      BY <2>5, <2>6
  <1>6. QED
    BY <1>4, <1>5 DEF Call

(* A call without an error, of a run that is not disturbed.                *)
LEMMA CallKept ==
    ASSUME TypeOK, NEW p \in Procs, NEW o \in Bcsh \cup {"scan", "fb"}, NEW group,
           Call(p, o, cmd[p][IF o \in Bcsh THEN "bcsh" ELSE o], group),
           KeptInv(p), ResetInv(p)
    PROVE  KeptInv(p)' /\ ResetInv(p)'
  <1> DEFINE arg == cmd[p][IF o \in Bcsh THEN "bcsh" ELSE o]
  <1>1. /\ First(p, o) /\ pc[p] = "run" /\ UNCHANGED <<pc, cmd, conn, bkp, before>>
        /\ New(p) \in Settings /\ todo[p] \subseteq Op
    BY DEF Call, TypeOK, New
  <1>2. SUFFICES ASSUME Active(p)', errors' = 0
                 PROVE  KeptInv(p)' /\ ResetInv(p)'
    BY DEF KeptInv, ResetInv
  <1>3. errors = 0 /\ ~Fails
    <2>1. Fails \/ UNCHANGED errors
      BY DEF Call
    <2>2. QED
      BY <1>2, <2>1, FailsType DEF TypeOK
  <1>4. PICK v \in Scanned(arg) : /\ Put(p, [base[conn[p]] EXCEPT ![o] = v])
                                  /\ todo' = [todo EXCEPT ![p] = @ \ {o}]
    BY <1>3 DEF Call
  <1>5. New(p)' = [New(p) EXCEPT ![o] = v] /\ disturbed'[p] = disturbed[p]
    BY <1>1, <1>4, OwnPut DEF New
  <1>6. Active(p) /\ todo'[p] = todo[p] \ {o} /\ Old(p)' = Old(p)
    BY <1>1, <1>2, <1>4, <1>5 DEF Active, Old, TypeOK
  <1>7. KeptInv(p)'
    <2>1. SUFFICES ASSUME ~cmd[p].reset, NEW f \in {"scan", "fb", "format", "resolution"}
                   PROVE  LET asked == cmd[p][OptionOf(f)] IN
                          IF asked = Absent \/ OptionOf(f) \in todo'[p]
                          THEN New(p)'[f] = Old(p)[f]
                          ELSE asked \in Value => New(p)'[f] = asked
      BY <1>1, <1>6 DEF KeptInv
    <2>2. LET asked == cmd[p][OptionOf(f)] IN
          IF asked = Absent \/ OptionOf(f) \in todo[p]
          THEN New(p)[f] = Old(p)[f]
          ELSE asked \in Value => New(p)[f] = asked
      BY <1>3, <1>6, <2>1 DEF KeptInv
    <2>3. CASE f # o
      <3>1. New(p)'[f] = New(p)[f]
        BY <1>1, <1>5, <2>3 DEF Settings
      <3>2. OptionOf(f) \in todo'[p] <=> OptionOf(f) \in todo[p]
        BY <1>6, <2>1, <2>3 DEF OptionOf, Bcsh
      <3>3. QED
        BY <2>2, <3>1, <3>2
    <2>4. CASE f = o
      <3>1. OptionOf(f) = o /\ o \notin Bcsh /\ o \in {"scan", "fb"}
        BY <2>1, <2>4 DEF OptionOf, Bcsh
      <3>2. o \in todo[p] /\ o \notin todo'[p] /\ cmd[p][o] # Absent
        BY <1>1, <1>6, <3>1, RequestedShape DEF First
      <3>3. cmd[p][o] \in Value => v = cmd[p][o]
        BY <1>4, <3>1, ScannedValue
      <3>4. New(p)'[o] = v
        BY <1>1, <1>5, <3>1 DEF Settings
      <3>5. QED
        BY <2>4, <3>1, <3>2, <3>3, <3>4
    <2>5. QED
      BY <2>3, <2>4
  <1>8. ResetInv(p)'
    <2>1. SUFFICES ASSUME cmd[p].reset PROVE "reset" \in todo'[p]
      BY <1>1 DEF ResetInv
    <2>2. "reset" \in todo[p]
      BY <1>1, <1>3, <1>6, <2>1 DEF ResetInv, First, Bcsh
    <2>3. QED
      BY <1>6, <2>2 DEF Bcsh
  <1>9. QED
    BY <1>7, <1>8

LEMMA OwnGetScreenInfo ==
    ASSUME TypeOK, NEW p \in Procs, NEW o \in {"color", "res"}, GetScreenInfo(p, o),
           PrefixInv(p), KeptInv(p), ResetInv(p)
    PROVE  PrefixInv(p)' /\ KeptInv(p)' /\ ResetInv(p)'
  <1>1. /\ UNCHANGED <<base, bkp, cmd, conn, todo, before, disturbed>>
        /\ pc[p] = "run" /\ pc'[p] = "screen"
    BY DEF GetScreenInfo, partition, history, TypeOK
  <1>2. /\ New(p)' = New(p) /\ Old(p)' = Old(p) /\ (Active(p)' <=> Active(p))
        /\ bkp'[conn'[p]] = bkp[conn[p]]
    BY <1>1 DEF New, Old, Active
  <1>3. errors' = 0 => /\ errors = 0
                       /\ screen'[p].format = New(p).format
                       /\ screen'[p].resolution = New(p).resolution
    <2>1. SUFFICES ASSUME errors' = 0
                   PROVE  /\ errors = 0
                          /\ screen'[p].format = New(p).format
                          /\ screen'[p].resolution = New(p).resolution
      OBVIOUS
    <2>2. Fails \/ UNCHANGED errors
      BY DEF GetScreenInfo
    <2>3. errors = 0 /\ ~Fails
      BY <2>1, <2>2, FailsType DEF TypeOK
    <2>4. screen' = [screen EXCEPT ![p] =
              [format |-> base[conn[p]].format, resolution |-> base[conn[p]].resolution,
               feature |-> base[conn[p]].feature]]
      BY <2>3 DEF GetScreenInfo
    <2>5. QED
      BY <2>3, <2>4 DEF TypeOK, New
  <1>4. PrefixInv(p)'
    BY <1>1, <1>2 DEF PrefixInv
  <1>5. KeptInv(p)'
    BY <1>1, <1>2, <1>3 DEF KeptInv
  <1>6. ResetInv(p)'
    BY <1>1, <1>2, <1>3 DEF ResetInv
  <1>7. QED
    BY <1>4, <1>5, <1>6

(* set_screen_info() of a struct of which one field has been changed.      *)
LEMMA OwnSetScreenInfo ==
    ASSUME TypeOK, NEW p \in Procs, NEW o \in {"color", "res"}, NEW info \in Screen,
           pc[p] = "screen", First(p, o), SetScreenInfo(p, o, info),
           o = "color" => /\ info.resolution = screen[p].resolution
                          /\ cmd[p].color # "Auto" => info.format = cmd[p].color,
           o = "res" => /\ info.format = screen[p].format
                        /\ cmd[p].res # "auto" => info.resolution \in Scanned(cmd[p].res),
           PrefixInv(p), KeptInv(p), ResetInv(p)
    PROVE  PrefixInv(p)' /\ KeptInv(p)' /\ ResetInv(p)'
  <1> DEFINE stored == [New(p) EXCEPT !.format = info.format,
                            !.resolution = info.resolution, !.feature = info.feature]
  <1>1. /\ UNCHANGED <<bkp, cmd, conn, before>> /\ pc'[p] = "run"
        /\ todo'[p] = todo[p] \ {o} /\ New(p) \in Settings /\ todo[p] \subseteq Op
    BY DEF SetScreenInfo, TypeOK, New
  <1>2. /\ Old(p)' = Old(p) /\ bkp'[conn'[p]] = bkp[conn[p]]
    BY <1>1 DEF Old
  <1>3. /\ New(p)' = New(p) \/ New(p)' = stored
        /\ disturbed'[p] = disturbed[p]
        /\ ~Fails => New(p)' = stored
    <2>1. \/ Put(p, [base[conn[p]] EXCEPT !.format = info.format,
                         !.resolution = info.resolution, !.feature = info.feature])
          \/ Fails /\ UNCHANGED <<base, disturbed>>
      BY DEF SetScreenInfo
    <2>2. QED
      BY <1>1, <2>1, OwnPut DEF New
  <1>4. Active(p)' => Active(p)
    BY <1>1, <1>3 DEF Active
  <1>5. /\ stored.format = info.format /\ stored.resolution = info.resolution
        /\ \A f \in Field \ {"format", "resolution", "feature"} : stored[f] = New(p)[f]
    BY <1>1 DEF Settings, Field, Bcsh
  <1> HIDE DEF stored
  <1>6. errors' = 0 => errors = 0 /\ New(p)' = stored
    <2>1. Fails \/ UNCHANGED errors
      BY DEF SetScreenInfo
    <2>2. QED
      BY <1>3, <2>1, FailsType DEF TypeOK
  <1>7. PrefixInv(p)'
    <2>1. \A b \in Bcsh : New(p)'[b] = New(p)[b] /\ (b \in todo'[p] <=> b \in todo[p])
      BY <1>1, <1>3, <1>5 DEF Bcsh, Field
    <2>2. QED
      BY <1>1, <1>2, <1>4, <2>1 DEF PrefixInv
  <1>8. KeptInv(p)'
    <2>1. SUFFICES ASSUME Active(p), errors' = 0, ~cmd[p].reset,
                          NEW f \in {"scan", "fb", "format", "resolution"}
                   PROVE  LET asked == cmd[p][OptionOf(f)] IN
                          IF asked = Absent \/ OptionOf(f) \in todo'[p]
                          THEN New(p)'[f] = Old(p)[f]
                          ELSE asked \in Value => New(p)'[f] = asked
      BY <1>1, <1>2, <1>4 DEF KeptInv
    <2>2. /\ LET asked == cmd[p][OptionOf(f)] IN
             IF asked = Absent \/ OptionOf(f) \in todo[p]
             THEN New(p)[f] = Old(p)[f]
             ELSE asked \in Value => New(p)[f] = asked
          /\ screen[p].format = New(p).format /\ screen[p].resolution = New(p).resolution
      BY <1>6, <2>1 DEF KeptInv
    <2>3. CASE OptionOf(f) # o
      <3>1. New(p)'[f] = New(p)[f]
        BY <1>5, <1>6, <2>1, <2>2, <2>3 DEF OptionOf, Field
      <3>2. QED
        BY <1>1, <2>2, <2>3, <3>1
    <2>4. CASE OptionOf(f) = o
      <3>1. o \notin todo'[p] /\ cmd[p][o] # Absent
        BY <1>1, RequestedShape DEF First
      <3>2. cmd[p][o] \in Value => New(p)'[f] = cmd[p][o]
        BY <1>5, <1>6, <2>1, <2>4, ScannedValue, ValueAssumption DEF OptionOf
      <3>3. QED
        BY <2>4, <3>1, <3>2
    <2>5. QED
      BY <2>3, <2>4
  <1>9. ResetInv(p)'
    <2>1. SUFFICES ASSUME Active(p), errors' = 0, cmd[p].reset, "reset" \notin todo'[p]
                   PROVE  /\ todo'[p] \subseteq {"backup", "res"}
                          /\ \A f \in Field \ {"resolution", "feature"} :
                                New(p)'[f] = bkp[conn[p]][f]
      BY <1>1, <1>2, <1>4 DEF ResetInv
    <2>2. /\ todo[p] \subseteq {"backup", "res"}
          /\ \A f \in Field \ {"resolution", "feature"} : New(p)[f] = bkp[conn[p]][f]
          /\ screen[p].format = New(p).format
      BY <1>1, <1>6, <2>1 DEF ResetInv
    <2>3. o = "res"
      BY <2>2 DEF First
    <2>4. New(p)'.format = New(p).format
      BY <1>5, <1>6, <2>1, <2>2, <2>3
    <2>5. ASSUME NEW f \in Field \ {"resolution", "feature"}
          PROVE  New(p)'[f] = New(p)[f]
      <3>1. CASE f = "format"
        BY <2>4, <3>1
      <3>2. CASE f # "format"
        BY <1>5, <1>6, <2>1, <3>2
      <3>3. QED
        BY <3>1, <3>2
    <2>6. QED
      BY <1>1, <2>2, <2>5
  <1>10. QED
    BY <1>7, <1>8, <1>9

LEMMA OwnCopy ==
    ASSUME TypeOK, NEW p \in Procs, NEW o \in {"reset", "backup"},
           ReadHalf(p, o) \/ WriteHalf(p, o),
           PrefixInv(p), KeptInv(p), ResetInv(p)
    PROVE  PrefixInv(p)' /\ KeptInv(p)' /\ ResetInv(p)'
  <1>1. /\ First(p, o) /\ UNCHANGED <<cmd, conn, before>>
        /\ todo'[p] \subseteq todo[p] /\ todo[p] \ {o} \subseteq todo'[p]
        /\ todo[p] \subseteq Op
        /\ pc'[p] \in {"run", "copy"} /\ disturbed'[p] = disturbed[p]
        /\ Old(p)' = Old(p)
    BY DEF ReadHalf, WriteHalf, TypeOK, Disturb, history, Old
  <1>2. Active(p)' => Active(p)
    BY <1>1 DEF Active, ReadHalf, WriteHalf
  <1>3. errors' = 0 => errors = 0 /\ ~Fails
    <2>1. Fails \/ UNCHANGED errors
      BY DEF ReadHalf, WriteHalf
    <2>2. QED
      BY <2>1, FailsType DEF TypeOK
  <1>4. ~cmd[p].reset => New(p)' = New(p)
    <2>1. SUFFICES ASSUME ~cmd[p].reset PROVE base' = base
      BY <1>1 DEF New
    <2>2. o = "backup"
      BY <1>1, <2>1, RequestedShape DEF First
    <2>3. QED
      BY <2>2 DEF ReadHalf, WriteHalf, partition
  <1>5. \A q \in Op \ {"reset", "backup"} : q \in todo'[p] <=> q \in todo[p]
    BY <1>1
  <1>6. PrefixInv(p)'
    BY <1>1, <1>2, <1>4, <1>5 DEF PrefixInv, Op, Bcsh
  <1>7. KeptInv(p)'
    <2>1. \A f \in {"scan", "fb", "format", "resolution"} :
              OptionOf(f) \in todo'[p] <=> OptionOf(f) \in todo[p]
      BY <1>5 DEF Op, OptionOf
    <2>2. QED
      BY <1>1, <1>2, <1>3, <1>4, <2>1 DEF KeptInv
  <1>8. ResetInv(p)'
    <2>1. SUFFICES ASSUME Active(p), errors = 0, ~Fails, cmd[p].reset
                   PROVE  ResetInv(p)'
      BY <1>1, <1>2, <1>3 DEF ResetInv
    <2>2. CASE ReadHalf(p, o)
      <3>1. /\ UNCHANGED <<base, bkp, todo>> /\ pc'[p] = "copy"
            /\ buf'[p] = IF o = "reset" THEN bkp ELSE base
        BY <2>1, <2>2 DEF ReadHalf, TypeOK, partition
      <3>2. First(p, o)' /\ New(p)' = New(p)
        BY <1>1, <3>1 DEF First, New
      <3>3. QED
        BY <1>1, <2>1, <3>1, <3>2 DEF ResetInv
    <2>3. CASE WriteHalf(p, o)
      <3>1. pc[p] = "copy" /\ pc'[p] = "run" /\ todo'[p] = todo[p] \ {o}
        BY <2>1, <2>3 DEF WriteHalf, TypeOK
      <3>6. PICK h \in Half :
              /\ \A k \in Connector : buf[p][k] # Unfilled => h[k] = buf[p][k]
              /\ \/ o = "reset" /\ base' = [k \in Connector |-> h[k]] /\ UNCHANGED bkp
                 \/ o = "backup" /\ bkp' = [k \in Connector |-> h[k]] /\ UNCHANGED base
        BY <2>1, <2>3, WriteHalfWrites
      <3>2. /\ conn[p] \in Connector
            /\ base[conn[p]] # Unfilled /\ bkp[conn[p]] # Unfilled
        BY InputAssumption DEF TypeOK
      <3>3. CASE o = "reset"
        <4>1. buf[p][conn[p]] = bkp[conn[p]]
          BY <1>1, <2>1, <3>1, <3>3, ResetOrBackup DEF ResetInv
        <4>2. New(p)' = bkp'[conn'[p]]
          BY <1>1, <3>6, <3>2, <3>3, <4>1 DEF New
        <4>3. todo'[p] \subseteq {"backup", "res"}
          BY <1>1, <3>1, <3>3 DEF First, Op, Bcsh, Rank
        <4>4. QED
          BY <3>1, <4>2, <4>3 DEF ResetInv
      <3>4. CASE o = "backup"
        <4>1. buf[p][conn[p]] = base[conn[p]]
          BY <1>1, <2>1, <3>1, <3>4, ResetOrBackup DEF ResetInv
        <4>2. New(p)' = bkp'[conn'[p]]
          BY <1>1, <3>6, <3>2, <3>4, <4>1 DEF New
        <4>3. "reset" \notin todo[p]
          BY <1>1, <3>4 DEF First, Rank
        <4>4. todo'[p] \subseteq {"backup", "res"}
          BY <1>1, <2>1, <4>3 DEF ResetInv
        <4>5. QED
          BY <3>1, <4>2, <4>4 DEF ResetInv
      <3>5. QED
        BY <3>3, <3>4
    <2>4. QED
      BY <2>2, <2>3
  <1>9. QED
    BY <1>6, <1>7, <1>8

LEMMA OwnStep ==
    ASSUME TypeOK, NEW p \in Procs, PrefixInv(p), KeptInv(p), ResetInv(p),
           \/ Start(p)
           \/ SetBcsh(p) \/ SetOverscan(p) \/ SetFramebufferInfo(p)
           \/ SetColor(p) \/ SetResolution(p)
           \/ Reset(p) \/ Backup(p)
           \/ Exit(p)
    PROVE  PrefixInv(p)' /\ KeptInv(p)' /\ ResetInv(p)'
  <1>1. CASE Start(p)
    BY <1>1, OwnStart
  <1>2. CASE SetBcsh(p) \/ SetOverscan(p) \/ SetFramebufferInfo(p)
    BY <1>2, SettersCall, CallPrefix, CallKept
  <1>3. CASE SetColor(p)
    <2>1. CASE GetScreenInfo(p, "color")
      BY <2>1, OwnGetScreenInfo
    <2>2. CASE ~GetScreenInfo(p, "color")
      <3>1. PICK info \in Screen :
              /\ pc[p] = "screen" /\ First(p, "color")
              /\ SetScreenInfo(p, "color", info)
              /\ info.resolution = screen[p].resolution
              /\ cmd[p].color # "Auto" => info.format = cmd[p].color
        BY <1>3, <2>2, ColorWrites
      <3>2. QED
        BY <3>1, OwnSetScreenInfo
    <2>3. QED
      BY <2>1, <2>2
  <1>4. CASE SetResolution(p)
    <2>1. CASE GetScreenInfo(p, "res")
      BY <2>1, OwnGetScreenInfo
    <2>2. CASE ~GetScreenInfo(p, "res")
      <3>1. PICK info \in Screen :
              /\ pc[p] = "screen" /\ First(p, "res")
              /\ SetScreenInfo(p, "res", info)
              /\ info.format = screen[p].format
              /\ cmd[p].res # "auto" => info.resolution \in Scanned(cmd[p].res)
        BY <1>4, <2>2, ResolutionWrites
      <3>2. QED
        BY <3>1, OwnSetScreenInfo
    <2>3. QED
      BY <2>1, <2>2
  <1>5. CASE Reset(p) \/ Backup(p)
    BY <1>5, OwnCopy DEF Reset, Backup
  <1>6. CASE Exit(p)
    <2>1. pc'[p] = "idle"
      BY <1>6 DEF Exit, TypeOK
    <2>2. QED
      BY <2>1 DEF PrefixInv, KeptInv, ResetInv, Active
  <1>7. QED
    BY <1>1, <1>2, <1>3, <1>4, <1>5, <1>6

LEMMA InitAlone == Init => AloneInv
  BY DEF Init, AloneInv, PrefixInv, KeptInv, ResetInv, Active

LEMMA NextAlone == TypeOK /\ AloneInv /\ [Next]_vars => AloneInv'
  <1> SUFFICES ASSUME TypeOK, AloneInv, [Next]_vars, NEW p \in Procs
               PROVE  PrefixInv(p)' /\ KeptInv(p)' /\ ResetInv(p)'
    BY DEF AloneInv
  <1>1. PrefixInv(p) /\ KeptInv(p) /\ ResetInv(p)
    BY DEF AloneInv
  <1>2. CASE UNCHANGED vars
    BY <1>1, <1>2 DEF vars, partition, history, PrefixInv, KeptInv, ResetInv,
                      Active, New, Old, First
  <1>3. CASE Next
    <2>1. PICK q \in Procs :
            \/ Start(q)
            \/ SetBcsh(q) \/ SetOverscan(q) \/ SetFramebufferInfo(q)
            \/ SetColor(q) \/ SetResolution(q)
            \/ Reset(q) \/ Backup(q)
            \/ Exit(q)
      BY <1>3 DEF Next
    <2>2. CASE q = p
      BY <1>1, <2>1, <2>2, OwnStep
    <2>3. CASE q # p /\ Active(p)'
      <3>1. Same(p)
        BY <2>1, <2>3, OtherRun
      <3>2. errors' = 0 => errors = 0
        BY <1>3, NoErrorBefore
      <3>3. QED
        BY <1>1, <3>1, <3>2, SameKeeps
    <2>4. CASE ~Active(p)'
      BY <2>4 DEF PrefixInv, KeptInv, ResetInv
    <2>5. QED
      BY <2>2, <2>3, <2>4
  <1>4. QED
    BY <1>2, <1>3

LEMMA AlwaysAlone == Spec => []AloneInv
  BY InitAlone, NextAlone, TypeCorrect, PTL DEF Spec

\* setBcsh(): whichever of its four calls fails, those before it are stored
\* and those after it are not, however many runs there are on other connectors.
THEOREM BcshIsPrefix == Spec => []BcshPrefix
  <1>1. AloneInv => BcshPrefix
    BY DEF AloneInv, PrefixInv, BcshPrefix, Finished, Active
  <1>2. QED
    BY <1>1, AlwaysAlone, PTL

\* setColor(), setResolution(), setOverscan(): a run that meets with no error
\* stores what it was asked for, and nothing else of its record changes.
THEOREM OthersAreKept == Spec => []OthersKept
  <1>1. AloneInv => OthersKept
    <2>1. SUFFICES ASSUME AloneInv, NEW p \in Procs, Finished(p), ~disturbed[p],
                          errors = 0, ~cmd[p].reset,
                          NEW f \in {"scan", "fb", "format", "resolution"}
                   PROVE  LET asked == cmd[p][OptionOf(f)] IN
                          CASE asked = Absent -> New(p)[f] = Old(p)[f]
                            [] asked \in Value -> New(p)[f] = asked
                            [] OTHER -> TRUE
      BY DEF OthersKept, OptionOf
    <2>2. LET asked == cmd[p][OptionOf(f)] IN
          IF asked = Absent THEN New(p)[f] = Old(p)[f]
                            ELSE asked \in Value => New(p)[f] = asked
      BY <2>1 DEF AloneInv, KeptInv, Finished, Active
    <2>3. QED
      BY <2>2, ScannedValue
  <1>2. QED
    BY <1>1, AlwaysAlone, PTL

\* main(): what a reset has restored stays, though a resolution is stored
\* after it in the same run.
THEOREM ResetsStay == Spec => []ResetStays
  <1>1. AloneInv => ResetStays
    BY DEF AloneInv, ResetInv, ResetStays, Finished, Active
  <1>2. QED
    BY <1>1, AlwaysAlone, PTL

-----------------------------------------------------------------------------
(* NoneUndone is not inductive.  As long as no run has ended, every run    *)
(* that has stored its color, and every one that reads the record for the  *)
(* resolution, meets one of the colors asked for; and a resolution that is *)
(* none of those asked for can only be there until the last run is done.   *)
Started == {p \in Procs : pc[p] # "idle"}
Colors == {cmd[p].color : p \in Started}
Resolutions == {cmd[p].res : p \in Started}

SetsBoth(p) == cmd[p].color \in Value /\ cmd[p].res \in Value /\ ~cmd[p].reset

Bounded(p) ==
    /\ "color" \in todo[p] => "res" \in todo[p]
    /\ "color" \notin todo[p] => base[conn[p]].format \in Colors
    /\ pc[p] = "screen" /\ First(p, "res") => screen[p].format \in Colors
    /\ \/ base[conn[p]].resolution \in Resolutions
       \/ \E q \in Started : conn[q] = conn[p] /\ "res" \in todo[q]

AllBounded ==
    (\A p \in Started : SetsBoth(p)) => \A p \in Started : Bounded(p)

OnceInv ==
    /\ Cardinality(Started) <= runs
    /\ Cardinality(Started) = runs /\ errors = 0 => AllBounded

(* What is asked for depends on the runs that have started, and on nothing *)
(* else.                                                                   *)
LEMMA ColorsKept ==
    ASSUME UNCHANGED cmd, Started' = Started
    PROVE  Colors' = Colors /\ Resolutions' = Resolutions
  BY DEF Colors, Resolutions

(* A step that stores neither a color nor a resolution, and reads none.    *)
LEMMA BoundedKept ==
    ASSUME \A q \in Started : Bounded(q),
           UNCHANGED <<cmd, conn>>, Started' = Started,
           \A q \in Started :
              /\ base'[conn[q]].format = base[conn[q]].format
              /\ base'[conn[q]].resolution = base[conn[q]].resolution
              /\ \A o \in {"color", "res"} : o \in todo'[q] <=> o \in todo[q]
              /\ (pc[q] = "screen" /\ First(q, "res"))' =>
                     pc[q] = "screen" /\ First(q, "res") /\ screen'[q] = screen[q]
    PROVE  \A q \in Started : Bounded(q)'
  <1> SUFFICES ASSUME NEW q \in Started PROVE Bounded(q)'
    OBVIOUS
  <1>1. Bounded(q) /\ Colors' = Colors /\ Resolutions' = Resolutions
    BY ColorsKept
  <1>2. \/ base'[conn'[q]].resolution \in Resolutions'
        \/ \E r \in Started' : conn'[r] = conn'[q] /\ "res" \in todo'[r]
    BY <1>1 DEF Bounded
  <1>3. QED
    BY <1>1, <1>2 DEF Bounded

(* What a call leaves to make is unchanged for the other runs.             *)
LEMMA OthersTodo ==
    ASSUME TypeOK, NEW p \in Procs, NEW S, todo' = [todo EXCEPT ![p] = @ \ S]
    PROVE  /\ todo'[p] = todo[p] \ S
           /\ \A q \in Procs \ {p} : todo'[q] = todo[q] /\ (First(q, "res")' <=> First(q, "res"))
  BY DEF TypeOK, First

(* A run that has started stays so until it exits.                         *)
LEMMA StartedKept ==
    ASSUME TypeOK, NEW p \in Procs, pc[p] # "idle",
           UNCHANGED pc \/ \E at \in PC \ {"idle"} : pc' = [pc EXCEPT ![p] = at]
    PROVE  Started' = Started
  BY DEF TypeOK, Started

LEMMA CallBounded ==
    ASSUME TypeOK, \A q \in Started : Bounded(q),
           NEW p \in Procs, NEW o \in Bcsh \cup {"scan", "fb"}, NEW arg,
           NEW group, group = (IF o \in Bcsh THEN Bcsh ELSE {o}), Call(p, o, arg, group)
    PROVE  \A q \in Started : Bounded(q)'
  <1>1. /\ pc[p] = "run" /\ UNCHANGED <<pc, cmd, conn, screen, runs>>
    BY DEF Call
  <1>2. Started' = Started
    BY <1>1, StartedKept
  <1>3. PICK S : S \in {group, {o}} /\ todo' = [todo EXCEPT ![p] = @ \ S]
    BY DEF Call
  <1>4. "color" \notin S /\ "res" \notin S
    BY <1>3 DEF Bcsh
  <1>5. ASSUME NEW k \in Connector
        PROVE  base'[k].format = base[k].format /\ base'[k].resolution = base[k].resolution
    <2>1. base \in Half /\ conn[p] \in Connector
      BY DEF TypeOK, Half
    <2>2. UNCHANGED base \/ \E v : base' = [base EXCEPT ![conn[p]] = [base[conn[p]] EXCEPT ![o] = v]]
      BY DEF Call, Put
    <2>3. o \notin {"format", "resolution"} /\ base[conn[p]] \in Settings
      BY <2>1 DEF Bcsh, Half
    <2>4. \A v : LET s == [base[conn[p]] EXCEPT ![o] = v] IN
             s.format = base[conn[p]].format /\ s.resolution = base[conn[p]].resolution
      BY <2>3 DEF Settings
    <2>5. CASE k = conn[p]
      <3>1. UNCHANGED base \/ \E v : base'[k] = [base[conn[p]] EXCEPT ![o] = v]
        BY <2>1, <2>2, <2>5 DEF Half
      <3>2. QED
        BY <2>4, <2>5, <3>1
    <2>6. CASE k # conn[p]
      <3>1. base'[k] = base[k]
        BY <2>1, <2>2, <2>6 DEF Half
      <3>2. QED
        BY <3>1
    <2>7. QED
      BY <2>5, <2>6
  <1>6. ASSUME NEW q \in Started
        PROVE  /\ base'[conn[q]].format = base[conn[q]].format
               /\ base'[conn[q]].resolution = base[conn[q]].resolution
               /\ \A x \in {"color", "res"} : x \in todo'[q] <=> x \in todo[q]
               /\ (pc[q] = "screen" /\ First(q, "res"))' =>
                      pc[q] = "screen" /\ First(q, "res") /\ screen'[q] = screen[q]
    <2>1. q \in Procs /\ conn[q] \in Connector
      BY DEF Started, TypeOK
    <2>2. q = p \/ (todo'[q] = todo[q] /\ (First(q, "res")' <=> First(q, "res")))
      BY <1>3, <2>1, OthersTodo
    <2>3. todo'[p] = todo[p] \ S
      BY <1>3, OthersTodo
    <2>4. \A x \in {"color", "res"} : x \in todo'[q] <=> x \in todo[q]
      BY <1>4, <2>2, <2>3
    <2>5. (pc[q] = "screen" /\ First(q, "res"))' =>
              pc[q] = "screen" /\ First(q, "res") /\ screen'[q] = screen[q]
      BY <1>1, <2>2
    <2>6. QED
      BY <1>5, <2>1, <2>4, <2>5
  <1>7. QED
    BY <1>1, <1>2, <1>6, BoundedKept

(* Only the run with a reset to make copies to the user half.              *)
LEMMA CopyBounded ==
    ASSUME TypeOK, \A q \in Started : Bounded(q), \A q \in Started : SetsBoth(q),
           NEW p \in Procs, Reset(p) \/ Backup(p)
    PROVE  \A q \in Started : Bounded(q)'
  <1>1. PICK o \in {"reset", "backup"} : ReadHalf(p, o) \/ WriteHalf(p, o)
    BY DEF Reset, Backup
  <1>2. /\ pc[p] \in {"run", "copy"} /\ UNCHANGED <<cmd, conn, screen, runs>> /\ First(p, o)
        /\ UNCHANGED pc \/ \E at \in {"run", "copy"} : pc' = [pc EXCEPT ![p] = at]
    BY <1>1 DEF ReadHalf, WriteHalf
  <1>3. Started' = Started /\ p \in Started
    BY <1>2, StartedKept DEF PC, Started
  <1>4. o = "backup"
    <2>1. o \in Requested(cmd[p]) /\ ~cmd[p]["reset"]
      BY <1>2, <1>3 DEF First, TypeOK, SetsBoth
    <2>2. "reset" \notin Bcsh /\ "reset" \notin {x \in {"scan", "fb", "color", "res"} : cmd[p][x] # Absent}
      BY DEF Bcsh
    <2>3. "reset" \notin {x \in {"reset", "backup"} : cmd[p][x]}
      BY <2>1
    <2>4. QED
      BY <2>1, <2>2, <2>3 DEF Requested
  <1>5. UNCHANGED base
    BY <1>1, <1>4 DEF ReadHalf, WriteHalf, partition
  <1>6. PICK S \in SUBSET {o} : todo' = [todo EXCEPT ![p] = @ \ S]
    <2>1. CASE UNCHANGED todo
      <3>1. todo' = [todo EXCEPT ![p] = @ \ {}]
        BY <2>1 DEF TypeOK
      <3>2. QED
        BY <3>1
    <2>2. CASE todo' = [todo EXCEPT ![p] = @ \ {o}]
      BY <2>2
    <2>3. QED
      BY <1>1, <2>1, <2>2 DEF ReadHalf, WriteHalf
  <1>7. ASSUME NEW q \in Started
        PROVE  /\ base'[conn[q]].format = base[conn[q]].format
               /\ base'[conn[q]].resolution = base[conn[q]].resolution
               /\ \A x \in {"color", "res"} : x \in todo'[q] <=> x \in todo[q]
               /\ (pc[q] = "screen" /\ First(q, "res"))' =>
                      pc[q] = "screen" /\ First(q, "res") /\ screen'[q] = screen[q]
    <2>1. q \in Procs
      BY DEF Started
    <2>2. q = p \/ (todo'[q] = todo[q] /\ (First(q, "res")' <=> First(q, "res")))
      BY <1>6, <2>1, OthersTodo
    <2>3. todo'[p] = todo[p] \ S
      BY <1>6, OthersTodo
    <2>4. \A x \in {"color", "res"} : x \in todo'[q] <=> x \in todo[q]
      BY <1>4, <2>2, <2>3
    <2>5. pc'[p] # "screen" /\ (q # p => pc'[q] = pc[q])
      BY <1>2, <2>1 DEF TypeOK
    <2>6. (pc[q] = "screen" /\ First(q, "res"))' =>
              pc[q] = "screen" /\ First(q, "res") /\ screen'[q] = screen[q]
      BY <1>2, <2>2, <2>5
    <2>7. QED
      BY <1>5, <2>4, <2>6
  <1>8. QED
    BY <1>2, <1>3, <1>7, BoundedKept

LEMMA ResolutionLast ==
    ASSUME NEW p, First(p, "res")
    PROVE  "color" \notin todo[p]
  BY DEF First, Rank

LEMMA GetBounded ==
    ASSUME TypeOK, \A q \in Started : Bounded(q), errors' = 0,
           NEW p \in Procs, NEW o \in {"color", "res"}, GetScreenInfo(p, o)
    PROVE  \A q \in Started : Bounded(q)'
  <1>1. /\ pc[p] = "run" /\ pc' = [pc EXCEPT ![p] = "screen"]
        /\ UNCHANGED <<base, cmd, conn, todo, runs>>
    BY DEF GetScreenInfo, partition
  <1>2. Started' = Started /\ p \in Started
    BY <1>1, StartedKept DEF PC, Started
  <1>3. screen' = [screen EXCEPT ![p] =
            [format |-> base[conn[p]].format, resolution |-> base[conn[p]].resolution,
             feature |-> base[conn[p]].feature]]
    <2>1. Fails \/ UNCHANGED errors
      BY DEF GetScreenInfo
    <2>2. ~Fails
      BY <2>1, FailsType DEF TypeOK
    <2>3. QED
      BY <2>2 DEF GetScreenInfo
  <1>4. ASSUME NEW q \in Started PROVE Bounded(q)'
    <2>1. Bounded(q) /\ Colors' = Colors /\ Resolutions' = Resolutions /\ q \in Procs
      BY <1>1, <1>2, ColorsKept DEF Started
    <2>2. \/ base'[conn'[q]].resolution \in Resolutions'
          \/ \E r \in Started' : conn'[r] = conn'[q] /\ "res" \in todo'[r]
      BY <1>1, <1>2, <2>1 DEF Bounded
    <2>3. First(q, "res")' <=> First(q, "res")
      BY <1>1 DEF First
    <2>4. pc'[q] = "screen" /\ First(q, "res") => screen'[q].format \in Colors
      <3>1. CASE q = p
        <4>1. screen'[p].format = base[conn[p]].format
          BY <1>3 DEF TypeOK
        <4>2. QED
          BY <2>1, <3>1, <4>1, ResolutionLast DEF Bounded
      <3>2. CASE q # p
        BY <1>1, <1>3, <2>1, <3>2 DEF Bounded, TypeOK
      <3>3. QED
        BY <3>1, <3>2
    <2>5. QED
      BY <1>1, <2>1, <2>2, <2>3, <2>4 DEF Bounded
  <1>5. QED
    BY <1>1, <1>2, <1>4

(* The record gets a color that was asked for, and either a resolution that *)
(* was, or one that the same run is still going to replace.                *)
LEMMA SetBounded ==
    ASSUME TypeOK, \A q \in Started : Bounded(q), errors' = 0,
           NEW p \in Procs, NEW o \in {"color", "res"}, NEW info \in Screen,
           pc[p] = "screen", First(p, o), SetScreenInfo(p, o, info),
           info.format \in Colors,
           o = "res" => info.resolution \in Resolutions
    PROVE  \A q \in Started : Bounded(q)'
  <1>1. /\ pc' = [pc EXCEPT ![p] = "run"] /\ screen' = [screen EXCEPT ![p] = NoScreen]
        /\ todo' = [todo EXCEPT ![p] = @ \ {o}]
        /\ UNCHANGED <<cmd, conn, runs>>
    BY DEF SetScreenInfo
  <1>2. Started' = Started /\ p \in Started
    BY <1>1, StartedKept DEF PC, Started
  <1>3. Put(p, [base[conn[p]] EXCEPT !.format = info.format,
                    !.resolution = info.resolution, !.feature = info.feature])
    <2>1. Fails \/ UNCHANGED errors
      BY DEF SetScreenInfo
    <2>2. ~Fails
      BY <2>1, FailsType DEF TypeOK
    <2>3. QED
      BY <2>2 DEF SetScreenInfo
  <1>4. /\ base'[conn[p]].format = info.format /\ base'[conn[p]].resolution = info.resolution
        /\ \A k \in Connector \ {conn[p]} : base'[k] = base[k]
    <2>1. base \in Half /\ conn[p] \in Connector /\ base[conn[p]] \in Settings
      BY DEF TypeOK, Half
    <2>2. base'[conn[p]] = [base[conn[p]] EXCEPT !.format = info.format,
                    !.resolution = info.resolution, !.feature = info.feature]
      BY <1>3, <2>1 DEF Put, Half
    <2>3. \A k \in Connector \ {conn[p]} : base'[k] = base[k]
      BY <1>3, <2>1 DEF Put, Half
    <2>4. QED
      BY <2>1, <2>2, <2>3 DEF Settings
  <1>5. /\ todo'[p] = todo[p] \ {o}
        /\ \A q \in Procs \ {p} : todo'[q] = todo[q] /\ (First(q, "res")' <=> First(q, "res"))
    BY <1>1, OthersTodo
  <1>6. o = "color" => "res" \in todo'[p]
    <2>1. o \in todo[p] /\ Bounded(p)
      BY <1>2 DEF First
    <2>2. QED
      BY <1>5, <2>1 DEF Bounded
  <1>7. ASSUME NEW q \in Started PROVE Bounded(q)'
    <2>1. /\ Bounded(q) /\ Colors' = Colors /\ Resolutions' = Resolutions
          /\ q \in Procs /\ conn[q] \in Connector
      BY <1>1, <1>2, ColorsKept DEF Started, TypeOK
    <2>2. "color" \in todo'[q] => "res" \in todo'[q]
      <3>1. CASE q = p /\ o = "res"
        BY <1>5, <3>1, ResolutionLast
      <3>2. CASE q = p /\ o = "color"
        BY <1>6, <3>2
      <3>3. CASE q # p
        BY <1>5, <2>1, <3>3 DEF Bounded
      <3>4. QED
        BY <3>1, <3>2, <3>3
    <2>3. "color" \notin todo'[q] => base'[conn[q]].format \in Colors
      <3>1. CASE conn[q] = conn[p]
        BY <1>4, <3>1
      <3>2. CASE conn[q] # conn[p]
        BY <1>4, <1>5, <2>1, <3>2 DEF Bounded
      <3>3. QED
        BY <3>1, <3>2
    <2>4. (pc[q] = "screen" /\ First(q, "res"))' => screen'[q].format \in Colors
      <3>1. CASE q = p
        BY <1>1, <3>1 DEF TypeOK
      <3>2. CASE q # p
        <4>1. pc'[q] = pc[q] /\ screen'[q] = screen[q] /\ (First(q, "res")' <=> First(q, "res"))
          BY <1>1, <1>5, <2>1, <3>2 DEF TypeOK
        <4>2. QED
          BY <2>1, <4>1 DEF Bounded
      <3>3. QED
        BY <3>1, <3>2
    <2>5. \/ base'[conn[q]].resolution \in Resolutions
          \/ \E r \in Started : conn[r] = conn[q] /\ "res" \in todo'[r]
      <3>1. CASE conn[q] = conn[p] /\ o = "res"
        BY <1>4, <3>1
      <3>2. CASE conn[q] = conn[p] /\ o = "color"
        BY <1>2, <1>6, <3>2
      <3>3. CASE conn[q] # conn[p]
        <4>1. base'[conn[q]] = base[conn[q]]
          BY <1>4, <2>1, <3>3
        <4>2. \A r \in Started : conn[r] = conn[q] => todo'[r] = todo[r]
          BY <1>5, <3>3 DEF Started
        <4>3. QED
          BY <2>1, <4>1, <4>2 DEF Bounded
      <3>4. QED
        BY <3>1, <3>2, <3>3
    <2>6. QED
      BY <1>1, <1>2, <2>1, <2>2, <2>3, <2>4, <2>5 DEF Bounded
  <1>8. QED
    BY <1>1, <1>2, <1>7

(* A run that has not ended takes a step.                                  *)
LEMMA RunBounded ==
    ASSUME TypeOK, \A q \in Started : Bounded(q), \A q \in Started : SetsBoth(q), errors' = 0,
           NEW p \in Procs,
           \/ SetBcsh(p) \/ SetOverscan(p) \/ SetFramebufferInfo(p)
           \/ SetColor(p) \/ SetResolution(p)
           \/ Reset(p) \/ Backup(p)
    PROVE  \A q \in Started : Bounded(q)'
  <1>1. CASE SetBcsh(p) \/ SetOverscan(p) \/ SetFramebufferInfo(p)
    BY <1>1, SettersCall, CallBounded
  <1>2. CASE SetColor(p)
    <2>1. CASE GetScreenInfo(p, "color")
      BY <2>1, GetBounded
    <2>2. CASE ~GetScreenInfo(p, "color")
      <3>1. PICK info \in Screen :
              /\ pc[p] = "screen" /\ First(p, "color") /\ SetScreenInfo(p, "color", info)
              /\ cmd[p].color # "Auto" => info.format = cmd[p].color
        BY <1>2, <2>2, ColorWrites
      <3>2. p \in Started /\ cmd[p].color \in Value
        BY <3>1 DEF Started, SetsBoth
      <3>3. info.format \in Colors
        BY <3>1, <3>2, ValueAssumption DEF Colors
      <3>4. QED
        BY <3>1, <3>3, SetBounded
    <2>3. QED
      BY <2>1, <2>2
  <1>3. CASE SetResolution(p)
    <2>1. CASE GetScreenInfo(p, "res")
      BY <2>1, GetBounded
    <2>2. CASE ~GetScreenInfo(p, "res")
      <3>1. PICK info \in Screen :
              /\ pc[p] = "screen" /\ First(p, "res") /\ SetScreenInfo(p, "res", info)
              /\ info.format = screen[p].format
              /\ cmd[p].res # "auto" => info.resolution \in Scanned(cmd[p].res)
        BY <1>3, <2>2, ResolutionWrites
      <3>2. p \in Started /\ cmd[p].res \in Value /\ Bounded(p)
        BY <3>1 DEF Started, SetsBoth
      <3>3. info.format \in Colors
        BY <3>1, <3>2 DEF Bounded
      <3>4. info.resolution \in Resolutions
        BY <3>1, <3>2, ScannedValue, ValueAssumption DEF Resolutions
      <3>5. QED
        BY <3>1, <3>3, <3>4, SetBounded
    <2>3. QED
      BY <2>1, <2>2
  <1>4. CASE Reset(p) \/ Backup(p)
    BY <1>4, CopyBounded
  <1>5. QED
    BY <1>1, <1>2, <1>3, <1>4

LEMMA RunKeeps ==
    ASSUME TypeOK, NEW p \in Procs,
           \/ SetBcsh(p) \/ SetOverscan(p) \/ SetFramebufferInfo(p)
           \/ SetColor(p) \/ SetResolution(p)
           \/ Reset(p) \/ Backup(p)
    PROVE  Started' = Started /\ UNCHANGED <<cmd, runs>>
  <1>1. CASE SetBcsh(p) \/ SetOverscan(p) \/ SetFramebufferInfo(p)
    <2>1. \E o, arg, group : Call(p, o, arg, group)
      BY <1>1 DEF SetBcsh, SetOverscan, SetFramebufferInfo
    <2>2. pc[p] = "run" /\ UNCHANGED <<pc, cmd, runs>>
      BY <2>1 DEF Call
    <2>3. QED
      BY <2>2, StartedKept
  <1>2. CASE SetColor(p) \/ SetResolution(p)
    <2>1. \/ \E o : GetScreenInfo(p, o)
          \/ pc[p] = "screen" /\ \E o, info : SetScreenInfo(p, o, info)
      BY <1>2, ColorWrites, ResolutionWrites
    <2>2. /\ pc[p] # "idle" /\ UNCHANGED <<cmd, runs>>
          /\ \E at \in PC \ {"idle"} : pc' = [pc EXCEPT ![p] = at]
      BY <2>1 DEF GetScreenInfo, SetScreenInfo, PC
    <2>3. QED
      BY <2>2, StartedKept
  <1>3. CASE Reset(p) \/ Backup(p)
    <2>1. \E o : ReadHalf(p, o) \/ WriteHalf(p, o)
      BY <1>3 DEF Reset, Backup
    <2>2. /\ pc[p] # "idle" /\ UNCHANGED <<cmd, runs>>
          /\ UNCHANGED pc \/ \E at \in PC \ {"idle"} : pc' = [pc EXCEPT ![p] = at]
      BY <2>1 DEF ReadHalf, WriteHalf, PC
    <2>3. QED
      BY <2>2, StartedKept
  <1>4. QED
    BY <1>1, <1>2, <1>3

(* A run that begins has still to set both.                                *)
LEMMA StartBounded ==
    ASSUME TypeOK, TypeOK', NEW p \in Procs, Start(p), AllBounded
    PROVE  /\ Started' = Started \cup {p} /\ p \notin Started /\ runs' = runs + 1
           /\ AllBounded'
  <1>1. /\ pc[p] = "idle" /\ pc' = [pc EXCEPT ![p] = "run"] /\ runs' = runs + 1
        /\ UNCHANGED <<base, screen>>
    BY DEF Start, partition
  <1>2. PICK c \in Commands :
          /\ cmd' = [cmd EXCEPT ![p] = c] /\ todo' = [todo EXCEPT ![p] = Requested(c)]
          /\ \E k \in Chosen(c.connector) : conn' = [conn EXCEPT ![p] = k]
    BY DEF Start
  <1>3. Started' = Started \cup {p} /\ p \notin Started
    BY <1>1 DEF Started, TypeOK
  <1>4. /\ cmd'[p] = c /\ todo'[p] = Requested(c) /\ pc'[p] = "run"
        /\ \A q \in Procs \ {p} : /\ cmd'[q] = cmd[q] /\ todo'[q] = todo[q]
                                  /\ conn'[q] = conn[q] /\ pc'[q] = pc[q]
    BY <1>1, <1>2 DEF TypeOK
  <1>5. SUFFICES ASSUME \A q \in Started' : SetsBoth(q)', NEW q \in Started'
                 PROVE  Bounded(q)'
    BY <1>1, <1>3 DEF AllBounded
  <1>6. \A r \in Started : Bounded(r) /\ r \in Procs \ {p}
    <2>1. \A r \in Started : r \in Procs \ {p}
      BY <1>3 DEF Started
    <2>2. \A r \in Started : SetsBoth(r)
      BY <1>3, <1>4, <1>5, <2>1 DEF SetsBoth
    <2>3. QED
      BY <2>1, <2>2 DEF AllBounded
  <1>7. Colors \subseteq Colors' /\ Resolutions \subseteq Resolutions'
    BY <1>3, <1>4, <1>6 DEF Colors, Resolutions
  <1>8. "color" \in todo'[p] /\ "res" \in todo'[p]
    <2>1. c.color \in Value /\ c.res \in Value
      BY <1>3, <1>4, <1>5 DEF SetsBoth
    <2>2. c["color"] # Absent /\ c["res"] # Absent
      BY <2>1, ScannedValue
    <2>3. QED
      BY <1>4, <2>2 DEF Requested
  <1>9. CASE q = p
    <2>1. p \in Started' /\ conn'[p] = conn'[p] /\ "res" \in todo'[p]
      BY <1>3, <1>8
    <2>2. QED
      BY <1>4, <1>8, <1>9, <2>1 DEF Bounded
  <1>10. CASE q # p
    <2>1. q \in Started /\ Bounded(q) /\ q \in Procs \ {p}
      BY <1>3, <1>6, <1>10
    <2>2. First(q, "res")' <=> First(q, "res")
      BY <1>4, <2>1 DEF First
    <2>3. \/ base'[conn'[q]].resolution \in Resolutions'
          \/ \E r \in Started' : conn'[r] = conn'[q] /\ "res" \in todo'[r]
      <3>1. CASE base[conn[q]].resolution \in Resolutions
        BY <1>1, <1>4, <1>7, <2>1, <3>1
      <3>2. CASE \E r \in Started : conn[r] = conn[q] /\ "res" \in todo[r]
        BY <1>3, <1>4, <1>6, <2>1, <3>2
      <3>3. QED
        BY <2>1, <3>1, <3>2 DEF Bounded
    <2>4. QED
      BY <1>1, <1>4, <1>7, <2>1, <2>2, <2>3 DEF Bounded
  <1>11. QED
    BY <1>9, <1>10

LEMMA StartedFinite == ASSUME TypeOK PROVE IsFiniteSet(Started) /\ Cardinality(Started) \in Nat
  <1>1. Started \subseteq Procs
    BY DEF Started
  <1>2. QED
    BY <1>1, ProcsAssumption, FS_Subset, FS_CardinalityType

LEMMA InitOnce == Init => OnceInv
  <1> SUFFICES ASSUME Init PROVE OnceInv
    OBVIOUS
  <1>1. Started = {} /\ runs = 0
    BY DEF Init, Started
  <1>2. Cardinality({}) = 0
    BY FS_EmptySet
  <1>3. QED
    BY <1>1, <1>2 DEF OnceInv, AllBounded

LEMMA NextOnce == TypeOK /\ TypeOK' /\ OnceInv /\ [Next]_vars => OnceInv'
  <1> SUFFICES ASSUME TypeOK, TypeOK', OnceInv, [Next]_vars
               PROVE  OnceInv'
    OBVIOUS
  <1>1. IsFiniteSet(Started) /\ Cardinality(Started) \in Nat /\ runs \in Nat
    BY StartedFinite, InputAssumption DEF TypeOK
  <1>2. CASE UNCHANGED vars
    BY <1>2 DEF vars, partition, history, OnceInv, AllBounded, Started, SetsBoth, Bounded,
       Colors, Resolutions, First
  <1>3. CASE Next
    <2>1. errors' = 0 => errors = 0
      BY <1>3, NoErrorBefore
    <2>2. PICK p \in Procs :
            \/ Start(p)
            \/ SetBcsh(p) \/ SetOverscan(p) \/ SetFramebufferInfo(p)
            \/ SetColor(p) \/ SetResolution(p)
            \/ Reset(p) \/ Backup(p)
            \/ Exit(p)
      BY <1>3 DEF Next
    <2>3. CASE Start(p)
      <3>1. /\ AllBounded => AllBounded'
            /\ Started' = Started \cup {p} /\ p \notin Started /\ runs' = runs + 1
        <4>1. pc[p] = "idle" /\ pc' = [pc EXCEPT ![p] = "run"] /\ runs' = runs + 1
          BY <2>3 DEF Start
        <4>2. Started' = Started \cup {p} /\ p \notin Started
          BY <4>1 DEF Started, TypeOK
        <4>3. QED
          BY <2>3, <4>1, <4>2, StartBounded
      <3>2. Cardinality(Started') = Cardinality(Started) + 1
        BY <1>1, <3>1, FS_AddElement
      <3>3. QED
        BY <1>1, <2>1, <3>1, <3>2 DEF OnceInv
    <2>4. CASE Exit(p)
      <3>1. pc[p] # "idle" /\ pc' = [pc EXCEPT ![p] = "idle"] /\ runs' = runs
        BY <2>4 DEF Exit
      <3>2. Started' = Started \ {p} /\ p \in Started
        BY <3>1 DEF Started, TypeOK
      <3>3. Cardinality(Started') = Cardinality(Started) - 1
        BY <1>1, <3>2, FS_RemoveElement
      <3>4. QED
        BY <1>1, <3>1, <3>3 DEF OnceInv
    <2>5. CASE \/ SetBcsh(p) \/ SetOverscan(p) \/ SetFramebufferInfo(p)
               \/ SetColor(p) \/ SetResolution(p)
               \/ Reset(p) \/ Backup(p)
      <3>1. Started' = Started /\ UNCHANGED <<cmd, runs>>
        BY <2>5, RunKeeps
      <3>2. ASSUME Cardinality(Started) = runs, errors' = 0, \A q \in Started : SetsBoth(q)
            PROVE  \A q \in Started : Bounded(q)'
        BY <2>1, <2>5, <3>2, RunBounded DEF OnceInv, AllBounded
      <3>3. QED
        BY <3>1, <3>2 DEF OnceInv, AllBounded, SetsBoth
    <2>6. QED
      BY <2>2, <2>3, <2>4, <2>5
  <1>4. QED
    BY <1>2, <1>3

LEMMA AlwaysOnce == Spec => []OnceInv
  <1>1. TypeOK /\ TypeOK' /\ OnceInv /\ [Next]_vars => OnceInv'
    BY NextOnce
  <1>2. QED
    BY <1>1, InitOnce, TypeCorrect, PTL DEF Spec

\* setColor() and setResolution(), which read a record and write all of it
\* back: when runs that overlap in any way all set both and are all done, what
\* they leave are settings that one of them asked for.
THEOREM NoneIsUndone == Spec => []NoneUndone
  <1>1. TypeOK /\ OnceInv => NoneUndone
    <2>1. SUFFICES ASSUME TypeOK, OnceInv, errors = 0, runs = Cardinality(Procs),
                          \A p \in Procs : Finished(p) /\ SetsBoth(p), NEW p \in Procs
                   PROVE  /\ \E q \in Procs : New(p).format = cmd[q].color
                          /\ \E q \in Procs : New(p).resolution = cmd[q].res
      BY DEF NoneUndone, SetsBoth
    <2>2. Started = Procs
      BY <2>1 DEF Started, Finished
    <2>3. Bounded(p)
      BY <2>1, <2>2 DEF OnceInv, AllBounded
    <2>4. \A q \in Procs : todo[q] = {}
      BY <2>1 DEF Finished
    <2>5. base[conn[p]].format \in Colors /\ base[conn[p]].resolution \in Resolutions
      BY <2>3, <2>4 DEF Bounded, Started
    <2>6. QED
      BY <2>2, <2>5 DEF Colors, Resolutions, New
  <1>2. QED
    BY <1>1, AlwaysOnce, TypeCorrect, PTL
=============================================================================
