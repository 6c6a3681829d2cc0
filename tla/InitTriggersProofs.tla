------------------------- MODULE InitTriggersProofs -------------------------
(***************************************************************************)
(* Proofs about InitTriggers, for any paths and any number of requests and *)
(* settings.  What happens at most once, the boot's zram trigger and the   *)
(* answer to a request, is followed through the two queues of init as a    *)
(* token that is in at most one place.                                     *)
(***************************************************************************)
EXTENDS InitTriggers, SequenceTheorems, TLAPS

None(q, S) == \A k \in 1 .. Len(q) : q[k] \notin S
AtMostOne(q, S) == \A j, k \in 1 .. Len(q) : q[j] \in S /\ q[k] \in S => j = k

\* The changes and the triggers that are queued, and the commands.
Event ==
    {Change(BootCompleted, "1"), Change(BootTrigger, Unset),
     Change(ZramEnabled, "0"), Change(ZramEnabled, "1"),
     Change(InternetAdb, "0"), Change(InternetAdb, "1"),
     Change(AdbEnable, "0"), Change(AdbEnable, "1"), Change(SerialNo, "1"),
     Change(Success, "1"), Change(VendorSuccess, "1"), Change(VendorSuccess, "2")}

StartGpsd == Do("start", "gpsd")
FireTrigger == Do("trigger", BootTrigger)
ReportBoot == Setprop("vendor.boot_completed", "1")
Swapon == Do("swapon_all", "fstab")
RestartAdbd == Do("restart", "adbd")
StopAdbd == Do("stop", "adbd")
StartFlash == Do("start", "flash_img")
Answer == Setprop(VendorSuccess, "1")

CommandSet ==
    {StartGpsd, FireTrigger, ReportBoot, Swapon, Setprop(AdbPort, "5555"),
     Setprop(AdbPort, "0"), RestartAdbd, StopAdbd, StartFlash, Answer}

-----------------------------------------------------------------------------
(* The inductive invariant.                                                *)

Types ==
    /\ TypeOK
    /\ DOMAIN prop = Name
    /\ prop[AdbPort] \in {"0", "5555"}
    /\ prop[VendorSuccess] \in {Unset, "1", "2"}
    /\ events \in Seq(Event)
    /\ commands \in Seq(CommandSet)
    /\ if \in Path \cup {Unset} /\ of \in Path \cup {Unset}
    /\ swapped \in Nat
    /\ client # "idle" => request \in [if : Path, of : Path]

\* The boot, on its way from the change of the property to swapon_all.
BootEvent == {Change(BootCompleted, "1"), Change(BootTrigger, Unset)}
BootCommand == {FireTrigger, Swapon}

Booting == ~ None(events, BootEvent) \/ ~ None(commands, BootCommand)

OneBoot ==
    /\ AtMostOne(events, BootEvent) /\ AtMostOne(commands, BootCommand)
    /\ None(events, BootEvent) \/ None(commands, BootCommand)
    /\ Booting => swapped = 0 /\ prop[BootCompleted] = "1"
    /\ prop[BootCompleted] = Unset => swapped = 0
    /\ prop[BootCompleted] \in {Unset, "1"}
    /\ Booting /\ None(commands, {Swapon}) /\ prop[ZramEnabled] = "1" => inTime
    /\ ~ None(commands, {Swapon}) => inTime
    /\ ZramOncePerBoot

\* A request, on its way from the client's 2 to the answer 1.
FlashEvent == {Change(VendorSuccess, "2"), Change(Success, "1")}
FlashCommand == {StartFlash, Answer}
Running == script \notin {"stopped", "exit"}

Flashing == Running \/ ~ None(events, FlashEvent) \/ ~ None(commands, FlashCommand)

OneRequest ==
    /\ AtMostOne(events, FlashEvent) /\ AtMostOne(commands, FlashCommand)
    /\ None(events, FlashEvent) \/ None(commands, FlashCommand)
    /\ Running => None(events, FlashEvent) /\ None(commands, FlashCommand)
    /\ Flashing => client = "waiting" /\ prop[VendorSuccess] = "2"

\* The paths of the request, as far as they have come.
PathsPassed ==
    /\ client \in {"of", "ask", "waiting"} => prop[IfPath] = request.if
    /\ client \in {"ask", "waiting"} => prop[OfPath] = request.of
    /\ script \in {"getprop of", "dd"} => if = request.if
    /\ script = "dd" => of = request.of
    /\ script = "setprop" => copied = request
    /\ ~ None(events, {Change(Success, "1")}) => copied = request
    /\ ~ None(commands, {Answer}) => copied = request
    /\ AnsweredAsAsked

IInv == Types /\ OneBoot /\ OneRequest /\ PathsPassed

-----------------------------------------------------------------------------
(* Queues.                                                                 *)

(* What an element added at the end does to the members of S in a queue.   *)
LEMMA Appended ==
  ASSUME NEW T, NEW q \in Seq(T), NEW e \in T, NEW S
  PROVE  /\ Append(q, e) \in Seq(T)
         /\ e \notin S => (None(Append(q, e), S) <=> None(q, S))
         /\ e \in S => ~ None(Append(q, e), S)
         /\ e \notin S /\ AtMostOne(q, S) => AtMostOne(Append(q, e), S)
         /\ None(q, S) => AtMostOne(Append(q, e), S)
<1> DEFINE a == Append(q, e)
<1>1. /\ a \in Seq(T) /\ Len(a) = Len(q) + 1
      /\ \A k \in 1 .. Len(q) : a[k] = q[k]
      /\ a[Len(q) + 1] = e
  BY AppendProperties
<1>2. Len(q) \in Nat
  BY LenProperties
<1> HIDE DEF a
<1>3. \A k \in 1 .. Len(a) : k \in 1 .. Len(q) \/ k = Len(q) + 1
  BY <1>1, <1>2
<1>4. /\ 1 .. Len(q) \subseteq 1 .. Len(a) /\ Len(q) + 1 \in 1 .. Len(a)
  BY <1>1, <1>2
<1>5. e \notin S => (None(a, S) <=> None(q, S))
  BY <1>1, <1>3, <1>4 DEF None
<1>6. e \in S => ~ None(a, S)
  BY <1>1, <1>4 DEF None
<1>7. e \notin S /\ AtMostOne(q, S) => AtMostOne(a, S)
  BY <1>1, <1>3 DEF AtMostOne
<1>8. None(q, S) => AtMostOne(a, S)
  BY <1>1, <1>3 DEF AtMostOne, None
<1>9. QED
  BY <1>1, <1>5, <1>6, <1>7, <1>8 DEF a

(* What is left of the members of S when the first element is taken.       *)
LEMMA Taken ==
  ASSUME NEW T, NEW q \in Seq(T), q # <<>>, NEW S
  PROVE  /\ Head(q) \in T /\ Tail(q) \in Seq(T)
         /\ None(q, S) => None(Tail(q), S) /\ Head(q) \notin S
         /\ AtMostOne(q, S) => AtMostOne(Tail(q), S)
         /\ AtMostOne(q, S) /\ Head(q) \in S => None(Tail(q), S)
         /\ Head(q) \notin S => (None(Tail(q), S) <=> None(q, S))
<1> DEFINE t == Tail(q)
           h == Head(q)
<1>1. /\ h \in T /\ t \in Seq(T) /\ Len(t) = Len(q) - 1
      /\ \A k \in 1 .. Len(t) : t[k] = q[k + 1]
  BY HeadTailProperties
<1>2. Len(q) \in Nat /\ Len(q) > 0
  BY EmptySeq, LenProperties
<1>3. h = q[1]
  BY <1>2
<1> HIDE DEF t, h
<1>4. \A k \in 1 .. Len(t) : k + 1 \in 1 .. Len(q) /\ k + 1 # 1
  BY <1>1, <1>2
<1>5. 1 \in 1 .. Len(q)
  BY <1>2
<1>6. \A k \in 1 .. Len(q) : k = 1 \/ (k - 1 \in 1 .. Len(t) /\ t[k - 1] = q[k])
  BY <1>1, <1>2
<1>7. None(q, S) => None(t, S) /\ h \notin S
  BY <1>1, <1>3, <1>4, <1>5 DEF None
<1>8. ASSUME AtMostOne(q, S) PROVE AtMostOne(t, S)
  <2> SUFFICES ASSUME NEW j \in 1 .. Len(t), NEW k \in 1 .. Len(t), t[j] \in S, t[k] \in S
               PROVE  j = k
    BY DEF AtMostOne
  <2>1. j + 1 \in 1 .. Len(q) /\ k + 1 \in 1 .. Len(q) /\ q[j + 1] \in S /\ q[k + 1] \in S
    BY <1>1, <1>4
  <2>2. j + 1 = k + 1
    BY <1>8, <2>1 DEF AtMostOne
  <2>3. QED
    BY <2>2
<1>9. AtMostOne(q, S) /\ h \in S => None(t, S)
  <2> SUFFICES ASSUME AtMostOne(q, S), h \in S, NEW k \in 1 .. Len(t), t[k] \in S
               PROVE  FALSE
    BY DEF None
  <2>1. k + 1 \in 1 .. Len(q) /\ q[k + 1] \in S /\ q[1] \in S
    BY <1>1, <1>3, <1>4
  <2>2. k + 1 = 1
    BY <2>1, <1>5 DEF AtMostOne
  <2>3. QED
    BY <2>2, <1>4
<1>10. h \notin S /\ None(t, S) => None(q, S)
  BY <1>3, <1>6 DEF None
<1>11. QED
  BY <1>1, <1>7, <1>8, <1>9, <1>10 DEF t, h

LEMMA NothingQueued ==
  ASSUME NEW S PROVE None(<<>>, S) /\ AtMostOne(<<>>, S)
<1>1. \A k : k \notin 1 .. Len(<<>>)
  BY EmptySeq
<1>2. QED
  BY <1>1 DEF None, AtMostOne

\* A queue of up to three different elements, told by its members.
LEMMA ShortQueue ==
  ASSUME NEW a, NEW b, NEW c, NEW S
  PROVE  /\ None(<<a>>, S) <=> a \notin S
         /\ AtMostOne(<<a>>, S)
         /\ None(<<a, b>>, S) <=> a \notin S /\ b \notin S
         /\ ~(a \in S /\ b \in S) => AtMostOne(<<a, b>>, S)
         /\ None(<<a, b, c>>, S) <=> a \notin S /\ b \notin S /\ c \notin S
         /\ a \notin S /\ c \notin S => AtMostOne(<<a, b, c>>, S)
<1>1. Len(<<a>>) = 1 /\ Len(<<a, b>>) = 2 /\ Len(<<a, b, c>>) = 3
  OBVIOUS
<1>2. 1 .. 1 = {1} /\ 1 .. 2 = {1, 2} /\ 1 .. 3 = {1, 2, 3}
  OBVIOUS
<1>3. QED
  BY <1>1, <1>2 DEF None, AtMostOne

-----------------------------------------------------------------------------
(* The rules of the rc file.                                               *)

(* The events of the rules.                                                *)
LEMMA NamesDiffer ==
  /\ BootCompleted \notin {BootTrigger, ZramEnabled, InternetAdb, AdbEnable, SerialNo,
                           Success, VendorSuccess}
  /\ BootTrigger \notin {ZramEnabled, InternetAdb, AdbEnable, SerialNo, Success,
                         VendorSuccess}
  /\ ZramEnabled \notin {InternetAdb, AdbEnable, SerialNo, Success, VendorSuccess}
  /\ InternetAdb \notin {AdbEnable, SerialNo, Success, VendorSuccess}
  /\ AdbEnable \notin {SerialNo, Success, VendorSuccess}
  /\ SerialNo \notin {Success, VendorSuccess}
  /\ Success # VendorSuccess
  BY DEF BootCompleted, BootTrigger, ZramEnabled, InternetAdb, AdbEnable, SerialNo, Success,
     VendorSuccess

(* At most one rule is for an event, so its commands are what is triggered.*)
LEMMA TriggeredByOne ==
  ASSUME NEW e \in Event
  PROVE  /\ e = Change(BootCompleted, "1") =>
                Triggered(e) = <<StartGpsd, FireTrigger, ReportBoot>>
         /\ e = Change(BootTrigger, Unset) =>
                Triggered(e) = IF prop[ZramEnabled] = "1" THEN <<Swapon>> ELSE <<>>
         /\ e = Change(InternetAdb, "1") =>
                Triggered(e) = <<Setprop(AdbPort, "5555"), RestartAdbd>>
         /\ e = Change(InternetAdb, "0") =>
                Triggered(e) = <<Setprop(AdbPort, "0"), RestartAdbd>>
         /\ e \in {Change(SerialNo, "1"), Change(AdbEnable, "1")} =>
                Triggered(e) = <<RestartAdbd>>
         /\ e = Change(AdbEnable, "0") => Triggered(e) = <<StopAdbd>>
         /\ e = Change(VendorSuccess, "2") => Triggered(e) = <<StartFlash>>
         /\ e = Change(Success, "1") => Triggered(e) = <<Answer>>
         /\ e \in {Change(ZramEnabled, "0"), Change(ZramEnabled, "1"),
                   Change(VendorSuccess, "1")} => Triggered(e) = <<>>
<1> DEFINE Fires(r) == /\ r.event = e.event /\ r.value \in {e.value, Any}
                       /\ \A w \in r.when : prop[w[1]] = w[2]
           Of(r) == IF Fires(r) THEN r.commands ELSE <<>>
           Zram == prop[ZramEnabled] = "1"
<1>1. Triggered(e) =
        (((((((Of(BootRule) \o Of(ZramRule)) \o Of(AdbOnRule)) \o Of(AdbOffRule))
           \o Of(SerialRule)) \o Of(AdbEnableRule)) \o Of(AdbDisableRule))
           \o Of(FlashRule)) \o Of(FlashedRule)
  BY DEF Triggered
<1>2. /\ BootRule.commands = <<StartGpsd, FireTrigger, ReportBoot>>
      /\ ZramRule.commands = <<Swapon>>
      /\ AdbOnRule.commands = <<Setprop(AdbPort, "5555"), RestartAdbd>>
      /\ AdbOffRule.commands = <<Setprop(AdbPort, "0"), RestartAdbd>>
      /\ SerialRule.commands = <<RestartAdbd>>
      /\ AdbEnableRule.commands = <<RestartAdbd>>
      /\ AdbDisableRule.commands = <<StopAdbd>>
      /\ FlashRule.commands = <<StartFlash>>
      /\ FlashedRule.commands = <<Answer>>
  BY DEF BootRule, ZramRule, AdbOnRule, AdbOffRule, SerialRule, AdbEnableRule,
     AdbDisableRule, FlashRule, FlashedRule, StartGpsd, FireTrigger, ReportBoot, Swapon,
     RestartAdbd, StopAdbd, StartFlash, Answer
<1>3. /\ Fires(BootRule) <=> e.event = BootCompleted /\ e.value = "1"
      /\ Fires(ZramRule) <=> e.event = BootTrigger /\ e.value = Unset /\ Zram
      /\ Fires(AdbOnRule) <=> e.event = InternetAdb /\ e.value = "1"
      /\ Fires(AdbOffRule) <=> e.event = InternetAdb /\ e.value = "0"
      /\ Fires(SerialRule) <=> e.event = SerialNo
      /\ Fires(AdbEnableRule) <=> e.event = AdbEnable /\ e.value = "1"
      /\ Fires(AdbDisableRule) <=> e.event = AdbEnable /\ e.value = "0"
      /\ Fires(FlashRule) <=> e.event = VendorSuccess /\ e.value = "2"
      /\ Fires(FlashedRule) <=> e.event = Success /\ e.value = "1"
  <2>1. Fires(ZramRule) <=> e.event = BootTrigger /\ e.value = Unset /\ Zram
    <3>1. /\ ZramRule.event = BootTrigger /\ ZramRule.value = Unset
          /\ ZramRule.when = {<<ZramEnabled, "1">>}
      BY DEF ZramRule
    <3>2. (\A w \in ZramRule.when : prop[w[1]] = w[2]) <=> Zram
      BY <3>1
    <3>3. QED
      BY <3>1, <3>2 DEF Any, Unset
  <2>2. QED
    BY <2>1 DEF BootRule, AdbOnRule, AdbOffRule, SerialRule, AdbEnableRule, AdbDisableRule,
       FlashRule, FlashedRule, Any
<1> HIDE DEF Zram, Fires
<1>4. /\ Change(BootCompleted, "1").event = BootCompleted
      /\ Change(BootCompleted, "1").value = "1"
      /\ Change(BootTrigger, Unset).event = BootTrigger
      /\ Change(BootTrigger, Unset).value = Unset
      /\ \A n \in {ZramEnabled, InternetAdb, AdbEnable, SerialNo, Success, VendorSuccess},
            v \in {"0", "1", "2"} :
             Change(n, v).event = n /\ Change(n, v).value = v
  BY DEF Change
<1>6. PICK b, z, n, f, r, g, h, s, d :
          /\ b = Of(BootRule) /\ z = Of(ZramRule) /\ n = Of(AdbOnRule)
          /\ f = Of(AdbOffRule) /\ r = Of(SerialRule) /\ g = Of(AdbEnableRule)
          /\ h = Of(AdbDisableRule) /\ s = Of(FlashRule) /\ d = Of(FlashedRule)
  OBVIOUS
<1>7. Triggered(e) = (((((((b \o z) \o n) \o f) \o r) \o g) \o h) \o s) \o d
  BY <1>1, <1>6
<1>8. \A q \in Seq(CommandSet) : q \o <<>> = q /\ <<>> \o q = q
  BY ConcatEmptySeq
<1>9. /\ <<>> \in Seq(CommandSet)
      /\ <<StartGpsd, FireTrigger, ReportBoot>> \in Seq(CommandSet)
      /\ <<Swapon>> \in Seq(CommandSet)
      /\ <<Setprop(AdbPort, "5555"), RestartAdbd>> \in Seq(CommandSet)
      /\ <<Setprop(AdbPort, "0"), RestartAdbd>> \in Seq(CommandSet)
      /\ <<RestartAdbd>> \in Seq(CommandSet) /\ <<StopAdbd>> \in Seq(CommandSet)
      /\ <<StartFlash>> \in Seq(CommandSet) /\ <<Answer>> \in Seq(CommandSet)
  BY DEF CommandSet
<1> HIDE DEF Of
<1>10. /\ b = IF Fires(BootRule) THEN BootRule.commands ELSE <<>>
       /\ z = IF Fires(ZramRule) THEN ZramRule.commands ELSE <<>>
       /\ n = IF Fires(AdbOnRule) THEN AdbOnRule.commands ELSE <<>>
       /\ f = IF Fires(AdbOffRule) THEN AdbOffRule.commands ELSE <<>>
       /\ r = IF Fires(SerialRule) THEN SerialRule.commands ELSE <<>>
       /\ g = IF Fires(AdbEnableRule) THEN AdbEnableRule.commands ELSE <<>>
       /\ h = IF Fires(AdbDisableRule) THEN AdbDisableRule.commands ELSE <<>>
       /\ s = IF Fires(FlashRule) THEN FlashRule.commands ELSE <<>>
       /\ d = IF Fires(FlashedRule) THEN FlashedRule.commands ELSE <<>>
  BY <1>6 DEF Of
<1>11. CASE e = Change(BootCompleted, "1")
  <2>1. /\ b = <<StartGpsd, FireTrigger, ReportBoot>>
        /\ z = <<>> /\ n = <<>> /\ f = <<>> /\ r = <<>> /\ g = <<>> /\ h = <<>>
        /\ s = <<>> /\ d = <<>>
    BY <1>2, <1>3, <1>4, <1>10, NamesDiffer, <1>11
  <2>2. Triggered(e) = b
    BY <1>7, <1>8, <1>9, <2>1
  <2>3. QED
    BY <1>4, NamesDiffer, <1>11, <2>1, <2>2
<1>12. CASE e = Change(BootTrigger, Unset)
  <2>1. /\ z = IF Zram THEN <<Swapon>> ELSE <<>>
        /\ b = <<>> /\ n = <<>> /\ f = <<>> /\ r = <<>> /\ g = <<>> /\ h = <<>>
        /\ s = <<>> /\ d = <<>>
    BY <1>2, <1>3, <1>4, <1>10, NamesDiffer, <1>12
  <2>2. Triggered(e) = z
    BY <1>7, <1>8, <1>9, <2>1
  <2>3. QED
    BY <1>4, NamesDiffer, <1>12, <2>1, <2>2 DEF Zram
<1>13. CASE e = Change(InternetAdb, "1")
  <2>1. /\ n = <<Setprop(AdbPort, "5555"), RestartAdbd>>
        /\ b = <<>> /\ z = <<>> /\ f = <<>> /\ r = <<>> /\ g = <<>> /\ h = <<>>
        /\ s = <<>> /\ d = <<>>
    BY <1>2, <1>3, <1>4, <1>10, NamesDiffer, <1>13
  <2>2. Triggered(e) = n
    BY <1>7, <1>8, <1>9, <2>1
  <2>3. QED
    BY <1>4, NamesDiffer, <1>13, <2>1, <2>2
<1>14. CASE e = Change(InternetAdb, "0")
  <2>1. /\ f = <<Setprop(AdbPort, "0"), RestartAdbd>>
        /\ b = <<>> /\ z = <<>> /\ n = <<>> /\ r = <<>> /\ g = <<>> /\ h = <<>>
        /\ s = <<>> /\ d = <<>>
    BY <1>2, <1>3, <1>4, <1>10, NamesDiffer, <1>14
  <2>2. Triggered(e) = f
    BY <1>7, <1>8, <1>9, <2>1
  <2>3. QED
    BY <1>4, NamesDiffer, <1>14, <2>1, <2>2
<1>15. CASE e = Change(VendorSuccess, "2")
  <2>1. /\ s = <<StartFlash>>
        /\ b = <<>> /\ z = <<>> /\ n = <<>> /\ f = <<>>
        /\ r = <<>> /\ g = <<>> /\ h = <<>> /\ d = <<>>
    BY <1>2, <1>3, <1>4, <1>10, NamesDiffer, <1>15
  <2>2. Triggered(e) = s
    BY <1>7, <1>8, <1>9, <2>1
  <2>3. QED
    BY <1>4, NamesDiffer, <1>15, <2>1, <2>2
<1>16. CASE e = Change(Success, "1")
  <2>1. /\ d = <<Answer>>
        /\ b = <<>> /\ z = <<>> /\ n = <<>> /\ f = <<>>
        /\ r = <<>> /\ g = <<>> /\ h = <<>> /\ s = <<>>
    BY <1>2, <1>3, <1>4, <1>10, NamesDiffer, <1>16
  <2>2. Triggered(e) = d
    BY <1>7, <1>8, <1>9, <2>1
  <2>3. QED
    BY <1>4, NamesDiffer, <1>16, <2>1, <2>2
<1>17. CASE e \in {Change(ZramEnabled, "0"), Change(ZramEnabled, "1"),
                   Change(VendorSuccess, "1")}
  <2>1. /\ b = <<>> /\ z = <<>> /\ n = <<>> /\ f = <<>> /\ r = <<>> /\ g = <<>> /\ h = <<>>
        /\ s = <<>> /\ d = <<>>
    BY <1>2, <1>3, <1>4, <1>10, NamesDiffer, <1>17
  <2>2. Triggered(e) = <<>>
    BY <1>7, <1>8, <1>9, <2>1
  <2>3. QED
    BY <1>4, NamesDiffer, <1>17, <2>2
<1>18. CASE e = Change(SerialNo, "1")
  <2>1. /\ r = <<RestartAdbd>>
        /\ b = <<>> /\ z = <<>> /\ n = <<>> /\ f = <<>> /\ s = <<>> /\ d = <<>>
        /\ g = <<>> /\ h = <<>>
    BY <1>2, <1>3, <1>4, <1>10, NamesDiffer, <1>18
  <2>2. Triggered(e) = r
    BY <1>7, <1>8, <1>9, <2>1
  <2>3. QED
    BY <1>4, NamesDiffer, <1>18, <2>1, <2>2
<1>19. CASE e = Change(AdbEnable, "1")
  <2>1. /\ g = <<RestartAdbd>>
        /\ b = <<>> /\ z = <<>> /\ n = <<>> /\ f = <<>> /\ s = <<>> /\ d = <<>>
        /\ r = <<>> /\ h = <<>>
    BY <1>2, <1>3, <1>4, <1>10, NamesDiffer, <1>19
  <2>2. Triggered(e) = g
    BY <1>7, <1>8, <1>9, <2>1
  <2>3. QED
    BY <1>4, NamesDiffer, <1>19, <2>1, <2>2
<1>20. CASE e = Change(AdbEnable, "0")
  <2>1. /\ h = <<StopAdbd>>
        /\ b = <<>> /\ z = <<>> /\ n = <<>> /\ f = <<>> /\ s = <<>> /\ d = <<>>
        /\ r = <<>> /\ g = <<>>
    BY <1>2, <1>3, <1>4, <1>10, NamesDiffer, <1>20
  <2>2. Triggered(e) = h
    BY <1>7, <1>8, <1>9, <2>1
  <2>3. QED
    BY <1>4, NamesDiffer, <1>20, <2>1, <2>2
<1>21. QED
  BY <1>11, <1>12, <1>13, <1>14, <1>15, <1>16, <1>17, <1>18, <1>19, <1>20 DEF Event

(* Which changes and which commands are steps of the boot or of a request. *)
LEMMA EventTokens ==
  /\ Change(BootCompleted, "1") \in BootEvent \ FlashEvent
  /\ Change(BootTrigger, Unset) \in BootEvent \ FlashEvent
  /\ Change(Success, "1") \in FlashEvent \ BootEvent
  /\ Change(VendorSuccess, "2") \in FlashEvent \ BootEvent
  /\ Change(VendorSuccess, "2") # Change(Success, "1")
  /\ Change(VendorSuccess, "1") \notin FlashEvent \cup BootEvent
  /\ \A n \in Setting : \A v \in ValuesOf(n) :
         Change(n, v) \in Event \ (BootEvent \cup FlashEvent)
  /\ BootEvent \subseteq Event /\ FlashEvent \subseteq Event
  /\ Change(VendorSuccess, "1") \in Event
<1>1. \A n \in Setting, v \in {"0", "1"} :
          Change(n, v).event = n /\ n \notin {BootCompleted, BootTrigger, Success, VendorSuccess}
  BY NamesDiffer DEF Change, Setting
<1>2. \A n \in Setting : \A v \in ValuesOf(n) : v \in {"0", "1"} /\ Change(n, v) \in Event
  BY NamesDiffer DEF Event, Setting, ValuesOf
<1>3. \A x \in BootEvent \cup FlashEvent :
          x.event \in {BootCompleted, BootTrigger, Success, VendorSuccess}
  BY DEF BootEvent, FlashEvent, Change
<1>4. \A n \in Setting : \A v \in ValuesOf(n) :
          Change(n, v) \in Event \ (BootEvent \cup FlashEvent)
  BY <1>1, <1>2, <1>3
<1>5. QED
  BY <1>4, NamesDiffer DEF Change, BootEvent, FlashEvent, Event

LEMMA CommandTokens ==
  /\ FireTrigger \in BootCommand \ FlashCommand /\ FireTrigger # Swapon
  /\ Swapon \in BootCommand \ FlashCommand
  /\ StartFlash \in FlashCommand \ BootCommand /\ StartFlash # Answer
  /\ Answer \in FlashCommand \ BootCommand
  /\ {StartGpsd, ReportBoot, Setprop(AdbPort, "5555"), Setprop(AdbPort, "0"), RestartAdbd,
      StopAdbd} \subseteq CommandSet \ (BootCommand \cup FlashCommand)
  /\ BootCommand \subseteq CommandSet /\ FlashCommand \subseteq CommandSet
  BY DEF Do, Setprop, StartGpsd, FireTrigger, ReportBoot, Swapon, RestartAdbd, StopAdbd,
     StartFlash, Answer, BootCommand, FlashCommand, CommandSet, AdbPort, VendorSuccess,
     BootTrigger

(* The command at the head of the queue, by its name.                      *)
LEMMA CommandNames ==
  ASSUME NEW c \in CommandSet
  PROVE  /\ c.command = "setprop" =>
                c \in {ReportBoot, Setprop(AdbPort, "5555"), Setprop(AdbPort, "0"), Answer}
         /\ c.command = "trigger" => c = FireTrigger
         /\ c.command = "swapon_all" => c = Swapon
         /\ c.command = "restart" => c = RestartAdbd
         /\ c.command = "stop" => c = StopAdbd
         /\ c.command = "start" => c \in {StartGpsd, StartFlash}
         /\ c.command \in {"setprop", "trigger", "swapon_all", "restart", "stop", "start"}
         /\ c = ReportBoot => c.name = "vendor.boot_completed" /\ c.value = "1"
         /\ c = Answer => c.name = VendorSuccess /\ c.value = "1"
         /\ \A v \in {"5555", "0"} : c = Setprop(AdbPort, v) => c.name = AdbPort /\ c.value = v
         /\ c = FireTrigger => c.name = BootTrigger
         /\ c = StartFlash => c.name = "flash_img"
         /\ c = StartGpsd => c.name # "flash_img"
  BY DEF Do, Setprop, StartGpsd, FireTrigger, ReportBoot, Swapon, RestartAdbd, StopAdbd,
     StartFlash, Answer, CommandSet

LEMMA Names ==
  /\ {BootCompleted, ZramEnabled, InternetAdb, AdbEnable, SerialNo, Success, VendorSuccess}
         \subseteq Name
  /\ {AdbPort, IfPath, OfPath} \subseteq Name
  /\ Watched = {BootCompleted, ZramEnabled, InternetAdb, AdbEnable, SerialNo, Success,
                VendorSuccess}
  /\ AdbPort \notin Watched /\ IfPath \notin Watched /\ OfPath \notin Watched
  /\ "vendor.boot_completed" \notin Name
  /\ IfPath # OfPath /\ AdbPort # IfPath /\ AdbPort # OfPath
  /\ BootCompleted # ZramEnabled /\ BootCompleted # InternetAdb /\ BootCompleted # Success
  /\ BootCompleted # VendorSuccess /\ ZramEnabled # InternetAdb /\ ZramEnabled # Success
  /\ ZramEnabled # VendorSuccess /\ InternetAdb # Success /\ InternetAdb # VendorSuccess
  /\ Success # VendorSuccess
  BY DEF Name, Watched, Setting, BootCompleted, ZramEnabled, InternetAdb, AdbEnable, SerialNo,
     Success, VendorSuccess, AdbPort, IfPath, OfPath

LEMMA TriggeredType ==
  ASSUME NEW e \in Event
  PROVE  Triggered(e) \in Seq(CommandSet)
<1>1. /\ <<>> \in Seq(CommandSet)
      /\ <<StartGpsd, FireTrigger, ReportBoot>> \in Seq(CommandSet)
      /\ <<Swapon>> \in Seq(CommandSet)
      /\ <<Setprop(AdbPort, "5555"), RestartAdbd>> \in Seq(CommandSet)
      /\ <<Setprop(AdbPort, "0"), RestartAdbd>> \in Seq(CommandSet)
      /\ <<RestartAdbd>> \in Seq(CommandSet) /\ <<StopAdbd>> \in Seq(CommandSet)
      /\ <<StartFlash>> \in Seq(CommandSet) /\ <<Answer>> \in Seq(CommandSet)
  BY DEF CommandSet
<1>2. \/ e = Change(BootCompleted, "1") \/ e = Change(BootTrigger, Unset)
      \/ e = Change(InternetAdb, "1") \/ e = Change(InternetAdb, "0")
      \/ e \in {Change(SerialNo, "1"), Change(AdbEnable, "1")} \/ e = Change(AdbEnable, "0")
      \/ e = Change(VendorSuccess, "2") \/ e = Change(Success, "1")
      \/ e \in {Change(ZramEnabled, "0"), Change(ZramEnabled, "1"), Change(VendorSuccess, "1")}
  BY DEF Event
<1>3. QED
  BY <1>1, <1>2, TriggeredByOne

-----------------------------------------------------------------------------
(* The effects of the steps on the queues and the properties.              *)

SameEvents(S) ==
    /\ None(events', S) <=> None(events, S)
    /\ AtMostOne(events, S) => AtMostOne(events', S)

SameCommands(S) ==
    /\ None(commands', S) <=> None(commands, S)
    /\ AtMostOne(commands, S) => AtMostOne(commands', S)

LEMMA EventAdded ==
  ASSUME events \in Seq(Event), NEW e \in Event, events' = Append(events, e)
  PROVE  /\ events' \in Seq(Event)
         /\ \A S \in SUBSET Event :
                /\ e \notin S => SameEvents(S)
                /\ e \in S => ~ None(events', S)
                /\ None(events, S) => AtMostOne(events', S)
  BY Appended DEF SameEvents

LEMMA PropertySet ==
  ASSUME DOMAIN prop = Name, NEW n, NEW v, SetProp(n, v)
  PROVE  /\ DOMAIN prop' = Name
         /\ n \in Name => prop'[n] = v
         /\ \A m \in Name \ {n} : prop'[m] = prop[m]
         /\ n \in Watched => events' = Append(events, Change(n, v))
         /\ n \notin Watched => events' = events
  BY DEF SetProp

LEMMA CommandTaken ==
  ASSUME Types, NEW name, Command(name)
  PROVE  /\ Head(commands) \in CommandSet /\ Head(commands).command = name
         /\ commands' \in Seq(CommandSet)
         /\ \A S \in SUBSET CommandSet :
                /\ Head(commands) \notin S => SameCommands(S)
                /\ Head(commands) \in S => ~ None(commands, S)
                /\ AtMostOne(commands, S) => AtMostOne(commands', S)
                /\ AtMostOne(commands, S) /\ Head(commands) \in S => None(commands', S)
<1>1. commands \in Seq(CommandSet) /\ commands # <<>> /\ commands' = Tail(commands)
      /\ Head(commands).command = name
  BY DEF Types, Command
<1>2. QED
  BY <1>1, Taken DEF SameCommands

LEMMA SameQueue ==
  ASSUME NEW S
  PROVE  /\ UNCHANGED events => SameEvents(S)
         /\ UNCHANGED commands => SameCommands(S)
  BY DEF SameEvents, SameCommands

(* What a step that has nothing to do with the boot leaves as it was.      *)
LEMMA BootKept ==
  ASSUME OneBoot,
         SameEvents(BootEvent), SameCommands(BootCommand), SameCommands({Swapon}),
         prop'[BootCompleted] = prop[BootCompleted], prop'[ZramEnabled] = prop[ZramEnabled],
         swapped' = swapped, inTime' = inTime
  PROVE  OneBoot'
  BY DEF OneBoot, Booting, SameEvents, SameCommands, ZramOncePerBoot

(* What a step that has nothing to do with a request leaves as it was.     *)
LEMMA RequestKept ==
  ASSUME OneRequest, PathsPassed,
         SameEvents(FlashEvent), SameCommands(FlashCommand),
         SameEvents({Change(Success, "1")}), SameCommands({Answer}),
         prop'[VendorSuccess] = prop[VendorSuccess], prop'[IfPath] = prop[IfPath],
         prop'[OfPath] = prop[OfPath],
         UNCHANGED <<scriptVars, client, request>>
  PROVE  OneRequest' /\ PathsPassed'
<1>1. /\ script' = script /\ if' = if /\ of' = of /\ copied' = copied
      /\ client' = client /\ request' = request
  BY DEF scriptVars
<1>2. OneRequest'
  BY <1>1 DEF OneRequest, Flashing, Running, SameEvents, SameCommands
<1>3. PathsPassed'
  BY <1>1 DEF PathsPassed, SameEvents, SameCommands, AnsweredAsAsked
<1>4. QED
  BY <1>2, <1>3

\* The parts of Types that the steps of one actor change.
PropType ==
    /\ DOMAIN prop = Name
    /\ prop \in [Name -> Path \cup {Unset, "0", "1", "2", "5555"}]
    /\ prop[AdbPort] \in {"0", "5555"}
    /\ prop[VendorSuccess] \in {Unset, "1", "2"}

ScriptType ==
    /\ script \in {"stopped", "getprop if", "getprop of", "dd", "setprop", "exit"}
    /\ if \in Path \cup {Unset} /\ of \in Path \cup {Unset}
    /\ copied \in [if : Path \cup {Unset}, of : Path \cup {Unset}]

ClientType ==
    /\ client \in {"idle", "if", "of", "ask", "waiting"}
    /\ request \in [if : Path \cup {Unset}, of : Path \cup {Unset}]
    /\ client # "idle" => request \in [if : Path, of : Path]

OthersType ==
    adbd \in {"starting", "stopped", "0", "5555"} /\ halted \in BOOLEAN /\ swapped \in Nat

LEMMA QueueNames ==
  /\ \A q \in Seq(Event) : \A k \in 1 .. Len(q) : q[k].event \in Watched \cup {BootTrigger}
  /\ \A q \in Seq(CommandSet) : \A k \in 1 .. Len(q) :
         q[k].command \in {"setprop", "trigger", "swapon_all", "restart", "stop", "start"}
<1>1. \A e \in Event : e.event \in Watched \cup {BootTrigger}
  BY DEF Event, Change, Watched, Setting
<1>2. \A c \in CommandSet :
          c.command \in {"setprop", "trigger", "swapon_all", "restart", "stop", "start"}
  BY CommandNames
<1>3. QED
  BY <1>1, <1>2, ElementOfSeq

LEMMA TypeParts ==
  Types <=> /\ PropType /\ ScriptType /\ ClientType /\ OthersType
            /\ events \in Seq(Event) /\ commands \in Seq(CommandSet)
  BY QueueNames DEF Types, TypeOK, PropType, ScriptType, ClientType, OthersType

LEMMA TypesAfter ==
  ASSUME PropType', ScriptType', ClientType', OthersType',
         events' \in Seq(Event), commands' \in Seq(CommandSet)
  PROVE  Types'
  BY QueueNames DEF Types, TypeOK, PropType, ScriptType, ClientType, OthersType

\* The property that is set keeps the type of its value.
LEMMA PropertyType ==
  ASSUME PropType, NEW n, NEW v, SetProp(n, v),
         n \in Name => v \in Path \cup {Unset, "0", "1", "2", "5555"},
         n = AdbPort => v \in {"0", "5555"},
         n = VendorSuccess => v \in {Unset, "1", "2"}
  PROVE  PropType'
<1>1. prop' = [m \in Name |-> IF m = n THEN v ELSE prop[m]]
  BY DEF SetProp
<1>2. AdbPort \in Name /\ VendorSuccess \in Name
  BY Names
<1>3. QED
  BY <1>1, <1>2 DEF PropType

LEMMA InitIInv == Init => IInv
<1> SUFFICES ASSUME Init PROVE IInv
  OBVIOUS
<1>1. PICK z \in {"0", "1"} :
          prop = [n \in Name |-> CASE n = ZramEnabled -> z
                                   [] n = InternetAdb -> "0"
                                   [] n = AdbPort -> "0"
                                   [] OTHER -> Unset]
  BY DEF Init
<1>2. events = <<>> /\ commands = <<>> /\ script = "stopped" /\ if = Unset /\ of = Unset
      /\ adbd = "0" /\ client = "idle" /\ request = NoPaths /\ copied = NoPaths
      /\ swapped = 0 /\ inTime = FALSE /\ halted = FALSE
  BY DEF Init
<1>3. \A n \in Name : prop[n] = CASE n = ZramEnabled -> z
                                  [] n = InternetAdb -> "0"
                                  [] n = AdbPort -> "0"
                                  [] OTHER -> Unset
  BY <1>1
<1>4. AdbPort # ZramEnabled /\ AdbPort # InternetAdb
  BY DEF AdbPort, ZramEnabled, InternetAdb
<1>5. BootCompleted # AdbPort /\ VendorSuccess # AdbPort
  BY DEF AdbPort, BootCompleted, VendorSuccess
<1>6. prop[AdbPort] = "0" /\ prop[VendorSuccess] = Unset /\ prop[BootCompleted] = Unset
  BY <1>3, <1>4, <1>5, Names
<1>7. PropType
  <2>1. \A n \in Name : prop[n] \in Path \cup {Unset, "0", "1", "2", "5555"}
    BY <1>3
  <2>2. DOMAIN prop = Name /\ prop = [n \in Name |-> prop[n]]
    BY <1>1
  <2>3. QED
    BY <1>6, <2>1, <2>2 DEF PropType
<1>8. Types
  <2>1. <<>> \in Seq(Event) /\ <<>> \in Seq(CommandSet)
    BY EmptySeq
  <2>2. ScriptType /\ ClientType /\ OthersType
    BY <1>2 DEF ScriptType, ClientType, OthersType, NoPaths
  <2>3. QED
    BY <1>2, <1>7, <2>1, <2>2, TypeParts
<1>9. /\ \A S : None(events, S) /\ AtMostOne(events, S)
      /\ \A S : None(commands, S) /\ AtMostOne(commands, S)
  BY <1>2, NothingQueued
<1>10. OneBoot
  BY <1>2, <1>6, <1>9 DEF OneBoot, Booting, ZramOncePerBoot
<1>11. OneRequest /\ PathsPassed
  BY <1>2, <1>9 DEF OneRequest, PathsPassed, Flashing, Running, AnsweredAsAsked
<1>12. QED
  BY <1>8, <1>10, <1>11 DEF IInv

-----------------------------------------------------------------------------
(* Init's steps.                                                           *)

LEMMA RunSetpropIInv == IInv /\ RunSetprop => IInv'
<1> SUFFICES ASSUME IInv, RunSetprop PROVE IInv'
  OBVIOUS
<1>1. Types /\ OneBoot /\ OneRequest /\ PathsPassed
  BY DEF IInv
<1>2. PICK c : c = Head(commands)
  OBVIOUS
<1>3. /\ Command("setprop") /\ SetProp(c.name, c.value)
      /\ UNCHANGED <<scriptVars, adbd, clientVars, settings, historyVars>>
  BY <1>2 DEF RunSetprop
<1>4. /\ c \in {ReportBoot, Setprop(AdbPort, "5555"), Setprop(AdbPort, "0"), Answer}
      /\ c \in CommandSet /\ commands' \in Seq(CommandSet)
      /\ \A S \in SUBSET CommandSet :
             /\ c \notin S => SameCommands(S)
             /\ c \in S => ~ None(commands, S)
             /\ AtMostOne(commands, S) => AtMostOne(commands', S)
             /\ AtMostOne(commands, S) /\ c \in S => None(commands', S)
  BY <1>1, <1>2, <1>3, CommandTaken, CommandNames
<1>5. /\ script' = script /\ if' = if /\ of' = of /\ copied' = copied
      /\ client' = client /\ request' = request /\ adbd' = adbd
      /\ halted' = halted /\ swapped' = swapped /\ inTime' = inTime
  BY <1>3 DEF scriptVars, clientVars, historyVars
<1>6. ScriptType' /\ ClientType' /\ OthersType'
  <2>1. ScriptType /\ ClientType /\ OthersType
    BY <1>1, TypeParts
  <2>2. ScriptType'
    BY <1>5, <2>1 DEF ScriptType
  <2>3. ClientType'
    BY <1>5, <2>1 DEF ClientType
  <2>4. OthersType'
    BY <1>5, <2>1 DEF OthersType
  <2>5. QED
    BY <2>2, <2>3, <2>4
<1>7. PropType /\ events \in Seq(Event) /\ DOMAIN prop = Name
  BY <1>1, TypeParts DEF PropType
<1>8. PropType'
  <2>1. /\ c.name \in Name => c.value \in Path \cup {Unset, "0", "1", "2", "5555"}
        /\ c.name = AdbPort => c.value \in {"0", "5555"}
        /\ c.name = VendorSuccess => c.value \in {Unset, "1", "2"}
    BY <1>4, CommandNames, Names
  <2>2. QED
    BY <1>3, <1>7, <2>1, PropertyType
<1>9. c \notin BootCommand /\ Swapon # c /\ BootCommand \subseteq CommandSet
      /\ FlashCommand \subseteq CommandSet /\ Swapon \in CommandSet /\ Answer \in CommandSet
  BY <1>4, CommandTokens DEF BootCommand
<1>10. SameCommands(BootCommand) /\ SameCommands({Swapon})
  BY <1>4, <1>9
<1>11. CASE c = Answer
  <2>1. c.name = VendorSuccess /\ c.value = "1" /\ VendorSuccess \in Watched
    BY <1>4, <1>11, CommandNames, Names
  <2>2. /\ prop'[VendorSuccess] = "1"
        /\ \A m \in Name \ {VendorSuccess} : prop'[m] = prop[m]
        /\ events' = Append(events, Change(VendorSuccess, "1"))
    BY <1>3, <1>7, <2>1, PropertySet, Names
  <2>3. /\ events' \in Seq(Event)
        /\ \A S \in SUBSET Event : Change(VendorSuccess, "1") \notin S => SameEvents(S)
    BY <1>7, <2>2, EventAdded, EventTokens
  <2>4. SameEvents(BootEvent) /\ SameEvents(FlashEvent) /\ SameEvents({Change(Success, "1")})
    BY <2>3, EventTokens DEF FlashEvent
  <2>5. Types'
    BY <1>4, <1>6, <1>8, <2>3, TypesAfter
  <2>6. OneBoot'
    <3>1. prop'[BootCompleted] = prop[BootCompleted] /\ prop'[ZramEnabled] = prop[ZramEnabled]
      BY <2>2, Names
    <3>2. QED
      BY <1>1, <1>5, <1>10, <2>4, <3>1, BootKept
  <2>7. c \in FlashCommand /\ c \in {Answer}
    BY <1>11, CommandTokens
  <2>8. ~ None(commands, FlashCommand) /\ ~ None(commands, {Answer})
    BY <1>4, <1>9, <2>7
  <2>9. None(commands', FlashCommand) /\ AtMostOne(commands', FlashCommand)
    BY <1>1, <1>4, <1>9, <2>7 DEF OneRequest
  <2>10. None(commands', {Answer})
    BY <2>9, CommandTokens DEF None
  <2>11. None(events, FlashEvent) /\ ~ Running /\ client = "waiting" /\ copied = request
    BY <1>1, <2>8 DEF OneRequest, Flashing, PathsPassed
  <2>12. OneRequest'
    BY <1>1, <1>5, <2>4, <2>9, <2>11 DEF OneRequest, Flashing, Running, SameEvents
  <2>13. PathsPassed'
    <3>1. prop'[IfPath] = prop[IfPath] /\ prop'[OfPath] = prop[OfPath]
      BY <2>2, Names DEF IfPath, OfPath, VendorSuccess
    <3>2. QED
      BY <1>1, <1>5, <2>11, <3>1 DEF PathsPassed, AnsweredAsAsked
  <2>14. QED
    BY <2>5, <2>6, <2>12, <2>13 DEF IInv
<1>12. CASE c # Answer
  <2>1. c.name \notin Watched /\ c.name \notin Name \ {AdbPort}
    BY <1>4, <1>12, CommandNames, Names
  <2>2. events' = events /\ \A m \in Name \ {AdbPort} : prop'[m] = prop[m]
    BY <1>3, <1>7, <2>1, PropertySet
  <2>3. SameEvents(BootEvent) /\ SameEvents(FlashEvent) /\ SameEvents({Change(Success, "1")})
    BY <2>2, SameQueue
  <2>4. Types'
    BY <1>4, <1>6, <1>7, <1>8, <2>2, TypesAfter
  <2>5. /\ prop'[BootCompleted] = prop[BootCompleted] /\ prop'[ZramEnabled] = prop[ZramEnabled]
        /\ prop'[VendorSuccess] = prop[VendorSuccess]
        /\ prop'[IfPath] = prop[IfPath] /\ prop'[OfPath] = prop[OfPath]
    BY <2>2, Names DEF AdbPort, BootCompleted, ZramEnabled, VendorSuccess
  <2>6. c \notin FlashCommand
    BY <1>4, <1>12, CommandTokens
  <2>7. SameCommands(FlashCommand) /\ SameCommands({Answer})
    BY <1>4, <1>9, <1>12, <2>6
  <2>8. OneBoot'
    BY <1>1, <1>5, <1>10, <2>3, <2>5, BootKept
  <2>9. OneRequest' /\ PathsPassed'
    BY <1>1, <1>3, <2>3, <2>5, <2>7, RequestKept DEF clientVars
  <2>10. QED
    BY <2>4, <2>8, <2>9 DEF IInv
<1>13. QED
  BY <1>11, <1>12

-----------------------------------------------------------------------------
(* The steps of flash_img.sh and of adbd.                                  *)

(* A step that leaves the properties and init as they were.                *)
LEMMA BootUntouched ==
  ASSUME OneBoot, UNCHANGED <<propVars, commands, historyVars>>
  PROVE  OneBoot'
<1>1. prop' = prop /\ events' = events /\ commands' = commands
      /\ halted' = halted /\ swapped' = swapped /\ inTime' = inTime
  BY DEF propVars, historyVars
<1>2. QED
  BY <1>1, SameQueue, BootKept

LEMMA ScriptReadsIInv == IInv /\ (ScriptGetIf \/ ScriptGetOf \/ ScriptCopy) => IInv'
<1> SUFFICES ASSUME IInv, ScriptGetIf \/ ScriptGetOf \/ ScriptCopy PROVE IInv'
  OBVIOUS
<1>1. Types /\ OneBoot /\ OneRequest /\ PathsPassed
  BY DEF IInv
<1>2. UNCHANGED <<propVars, commands, adbd, clientVars, settings, historyVars>>
  BY DEF ScriptGetIf, ScriptGetOf, ScriptCopy, At
<1>3. /\ prop' = prop /\ events' = events /\ commands' = commands /\ adbd' = adbd
      /\ client' = client /\ request' = request /\ halted' = halted /\ swapped' = swapped
  BY <1>2 DEF propVars, clientVars, historyVars
<1>4. Running /\ Running'
  BY DEF Running, ScriptGetIf, ScriptGetOf, ScriptCopy, At
<1>5. client = "waiting" /\ prop[VendorSuccess] = "2"
  BY <1>1, <1>4 DEF OneRequest, Flashing
<1>6. OneBoot'
  BY <1>1, <1>2, BootUntouched
<1>7. OneRequest'
  BY <1>1, <1>3, <1>4 DEF OneRequest, Flashing
<1>8. ClientType /\ ScriptType /\ PropType /\ OthersType
      /\ events \in Seq(Event) /\ commands \in Seq(CommandSet)
  BY <1>1, TypeParts
<1>9. prop[IfPath] = request.if /\ prop[OfPath] = request.of
  BY <1>1, <1>5 DEF PathsPassed
<1>10. request \in [if : Path, of : Path] /\ request = [if |-> request.if, of |-> request.of]
  BY <1>5, <1>8 DEF ClientType
<1>11. None(events, {Change(Success, "1")}) /\ None(commands, {Answer})
  BY <1>1, <1>4, EventTokens, CommandTokens DEF OneRequest, None
<1>12. Types'
  <2>1. PropType' /\ ClientType' /\ OthersType'
    BY <1>3, <1>8 DEF PropType, ClientType, OthersType
  <2>2. script' \in {"stopped", "getprop if", "getprop of", "dd", "setprop", "exit"}
    BY DEF ScriptGetIf, ScriptGetOf, ScriptCopy, At
  <2>3. request.if \in Path /\ request.of \in Path
    BY <1>10
  <2>4. if' \in Path \cup {Unset} /\ of' \in Path \cup {Unset}
    BY <1>8, <1>9, <2>3 DEF ScriptType, ScriptGetIf, ScriptGetOf, ScriptCopy
  <2>5. copied' \in [if : Path \cup {Unset}, of : Path \cup {Unset}]
    <3>1. copied' = copied \/ copied' = [if |-> if, of |-> of]
      BY DEF ScriptGetIf, ScriptGetOf, ScriptCopy
    <3>2. /\ if \in Path \cup {Unset} /\ of \in Path \cup {Unset}
          /\ copied \in [if : Path \cup {Unset}, of : Path \cup {Unset}]
      BY <1>8 DEF ScriptType
    <3>3. [if |-> if, of |-> of] \in [if : Path \cup {Unset}, of : Path \cup {Unset}]
      BY <3>2
    <3>4. QED
      BY <3>1, <3>2, <3>3
  <2>6. QED
    BY <1>3, <1>8, <2>1, <2>2, <2>4, <2>5, TypesAfter DEF ScriptType
<1>13. PathsPassed'
  <2>1. script' \in {"getprop of", "dd"} => if' = request.if
    BY <1>1, <1>9 DEF PathsPassed, ScriptGetIf, ScriptGetOf, ScriptCopy, At
  <2>2. script' = "dd" => of' = request.of
    BY <1>9 DEF ScriptGetIf, ScriptGetOf, ScriptCopy, At
  <2>3. script' = "setprop" => copied' = request
    BY <1>1, <1>10 DEF PathsPassed, ScriptGetIf, ScriptGetOf, ScriptCopy, At
  <2>4. QED
    BY <1>3, <1>5, <1>9, <1>11, <2>1, <2>2, <2>3 DEF PathsPassed, AnsweredAsAsked
<1>14. QED
  BY <1>6, <1>7, <1>12, <1>13 DEF IInv

(* The answer is queued when the token leaves the script.                  *)
LEMMA ScriptReportIInv == IInv /\ ScriptReport => IInv'
<1> SUFFICES ASSUME IInv, ScriptReport PROVE IInv'
  OBVIOUS
<1>1. Types /\ OneBoot /\ OneRequest /\ PathsPassed
  BY DEF IInv
<1>2. /\ script = "setprop" /\ script' = "exit" /\ SetProp(Success, "1")
      /\ if' = if /\ of' = of /\ copied' = copied
      /\ commands' = commands /\ adbd' = adbd /\ client' = client /\ request' = request
      /\ halted' = halted /\ swapped' = swapped /\ inTime' = inTime
  BY DEF ScriptReport, At, clientVars, historyVars
<1>3. PropType /\ ScriptType /\ ClientType /\ OthersType
      /\ events \in Seq(Event) /\ commands \in Seq(CommandSet)
  BY <1>1, TypeParts
<1>4. /\ events' = Append(events, Change(Success, "1"))
      /\ \A m \in Name \ {Success} : prop'[m] = prop[m]
  BY <1>2, <1>3, PropertySet, Names DEF PropType
<1>5. /\ events' \in Seq(Event)
      /\ \A S \in SUBSET Event :
             /\ Change(Success, "1") \notin S => SameEvents(S)
             /\ Change(Success, "1") \in S => ~ None(events', S)
             /\ None(events, S) => AtMostOne(events', S)
  BY <1>3, <1>4, EventAdded, EventTokens
<1>6. /\ prop'[BootCompleted] = prop[BootCompleted] /\ prop'[ZramEnabled] = prop[ZramEnabled]
      /\ prop'[VendorSuccess] = prop[VendorSuccess]
      /\ prop'[IfPath] = prop[IfPath] /\ prop'[OfPath] = prop[OfPath]
  BY <1>4, Names DEF IfPath, OfPath, Success
<1>7. Running /\ ~ Running'
  BY <1>2 DEF Running
<1>8. /\ None(events, FlashEvent) /\ None(commands, FlashCommand)
      /\ client = "waiting" /\ prop[VendorSuccess] = "2" /\ copied = request
  BY <1>1, <1>2, <1>7 DEF OneRequest, Flashing, PathsPassed
<1>9. Types'
  <2>1. PropType'
    BY <1>2, <1>3, PropertyType DEF Success, AdbPort, VendorSuccess
  <2>2. ScriptType' /\ ClientType' /\ OthersType'
    BY <1>2, <1>3 DEF ScriptType, ClientType, OthersType
  <2>3. QED
    BY <1>2, <1>3, <1>5, <2>1, <2>2, TypesAfter
<1>10. OneBoot'
  <2>1. SameEvents(BootEvent) /\ SameCommands(BootCommand) /\ SameCommands({Swapon})
    BY <1>2, <1>5, EventTokens, SameQueue
  <2>2. QED
    BY <1>1, <1>2, <1>6, <2>1, BootKept
<1>11. OneRequest'
  <2>1. AtMostOne(events', FlashEvent)
    BY <1>5, <1>8, EventTokens
  <2>2. QED
    BY <1>1, <1>2, <1>6, <1>7, <1>8, <2>1 DEF OneRequest, Flashing
<1>12. PathsPassed'
  BY <1>1, <1>2, <1>6, <1>8 DEF PathsPassed, AnsweredAsAsked
<1>13. QED
  BY <1>9, <1>10, <1>11, <1>12 DEF IInv

LEMMA ScriptEndsIInv == IInv /\ ScriptEnds => IInv'
<1> SUFFICES ASSUME IInv, ScriptEnds PROVE IInv'
  OBVIOUS
<1>1. Types /\ OneBoot /\ OneRequest /\ PathsPassed
  BY DEF IInv
<1>2. /\ script = "exit" /\ script' = "stopped"
      /\ UNCHANGED <<propVars, commands, adbd, clientVars, historyVars, if, of, copied>>
  BY DEF ScriptEnds, At
<1>3. /\ prop' = prop /\ events' = events /\ commands' = commands /\ adbd' = adbd
      /\ client' = client /\ request' = request /\ halted' = halted /\ swapped' = swapped
      /\ if' = if /\ of' = of /\ copied' = copied
  BY <1>2 DEF propVars, clientVars, historyVars
<1>4. ~ Running /\ ~ Running'
  BY <1>2 DEF Running
<1>5. Types'
  <2>1. PropType' /\ ScriptType' /\ ClientType' /\ OthersType'
    BY <1>1, <1>2, <1>3, TypeParts DEF PropType, ScriptType, ClientType, OthersType
  <2>2. QED
    BY <1>1, <1>3, <2>1, TypeParts, TypesAfter
<1>6. OneBoot'
  BY <1>1, <1>2, BootUntouched
<1>7. OneRequest' /\ PathsPassed'
  BY <1>1, <1>2, <1>3, <1>4 DEF OneRequest, Flashing, PathsPassed, AnsweredAsAsked
<1>8. QED
  BY <1>5, <1>6, <1>7 DEF IInv

LEMMA AdbdStartsIInv == IInv /\ AdbdStarts => IInv'
<1> SUFFICES ASSUME IInv, AdbdStarts PROVE IInv'
  OBVIOUS
<1>1. Types /\ OneBoot /\ OneRequest /\ PathsPassed
  BY DEF IInv
<1>2. /\ adbd' = prop[AdbPort]
      /\ UNCHANGED <<propVars, commands, scriptVars, clientVars, historyVars>>
  BY DEF AdbdStarts
<1>3. /\ prop' = prop /\ events' = events /\ commands' = commands
      /\ client' = client /\ request' = request /\ halted' = halted /\ swapped' = swapped
      /\ script' = script /\ if' = if /\ of' = of /\ copied' = copied
  BY <1>2 DEF propVars, clientVars, historyVars, scriptVars
<1>4. Types'
  <2>1. PropType /\ ScriptType /\ ClientType /\ OthersType
    BY <1>1, TypeParts
  <2>2. PropType'
    BY <1>3, <2>1 DEF PropType
  <2>3. ScriptType'
    BY <1>3, <2>1 DEF ScriptType
  <2>4. ClientType'
    BY <1>3, <2>1 DEF ClientType
  <2>5. OthersType'
    BY <1>2, <1>3, <2>1 DEF PropType, OthersType
  <2>6. QED
    BY <1>1, <1>3, <2>2, <2>3, <2>4, <2>5, TypeParts, TypesAfter
<1>5. OneBoot'
  BY <1>1, <1>2, BootUntouched
<1>6. OneRequest' /\ PathsPassed'
  <2>1. SameEvents(FlashEvent) /\ SameCommands(FlashCommand)
        /\ SameEvents({Change(Success, "1")}) /\ SameCommands({Answer})
    BY <1>3, SameQueue
  <2>2. QED
    BY <1>1, <1>2, <1>3, <2>1, RequestKept
<1>7. QED
  BY <1>4, <1>5, <1>6 DEF IInv

-----------------------------------------------------------------------------
(* Init's other commands.                                                  *)

LEMMA RunTriggerIInv == IInv /\ RunTrigger => IInv'
<1> SUFFICES ASSUME IInv, RunTrigger PROVE IInv'
  OBVIOUS
<1>1. Types /\ OneBoot /\ OneRequest /\ PathsPassed
  BY DEF IInv
<1>2. PICK c : c = Head(commands)
  OBVIOUS
<1>3. /\ Command("trigger") /\ events' = Append(events, Change(c.name, Unset))
      /\ UNCHANGED <<prop, scriptVars, adbd, clientVars, settings, historyVars>>
  BY <1>2 DEF RunTrigger
<1>4. /\ c = FireTrigger
      /\ c \in CommandSet /\ commands' \in Seq(CommandSet)
      /\ \A S \in SUBSET CommandSet :
             /\ c \notin S => SameCommands(S)
             /\ c \in S => ~ None(commands, S)
             /\ AtMostOne(commands, S) => AtMostOne(commands', S)
             /\ AtMostOne(commands, S) /\ c \in S => None(commands', S)
  BY <1>1, <1>2, <1>3, CommandTaken, CommandNames
<1>5. PropType /\ ScriptType /\ ClientType /\ OthersType
      /\ events \in Seq(Event) /\ commands \in Seq(CommandSet)
  BY <1>1, TypeParts
<1>6. /\ script' = script /\ if' = if /\ of' = of /\ copied' = copied /\ prop' = prop
      /\ client' = client /\ request' = request /\ adbd' = adbd
      /\ halted' = halted /\ swapped' = swapped /\ inTime' = inTime
  BY <1>3 DEF scriptVars, clientVars, historyVars
<1>7. events' = Append(events, Change(BootTrigger, Unset)) /\ Change(BootTrigger, Unset) \in Event
  BY <1>3, <1>4, CommandNames DEF Event
<1>8. /\ events' \in Seq(Event)
      /\ \A S \in SUBSET Event :
             /\ Change(BootTrigger, Unset) \notin S => SameEvents(S)
             /\ Change(BootTrigger, Unset) \in S => ~ None(events', S)
             /\ None(events, S) => AtMostOne(events', S)
  BY <1>5, <1>7, EventAdded
<1>9. Types'
  <2>1. PropType' /\ OthersType'
    BY <1>5, <1>6 DEF PropType, OthersType
  <2>2. ScriptType'
    BY <1>5, <1>6 DEF ScriptType
  <2>3. ClientType'
    BY <1>5, <1>6 DEF ClientType
  <2>4. QED
    BY <1>4, <1>8, <2>1, <2>2, <2>3, TypesAfter
<1>10. OneBoot'
  <2>1. ~ None(commands, BootCommand) /\ AtMostOne(commands, BootCommand)
    BY <1>1, <1>4, CommandTokens DEF OneBoot
  <2>2. /\ None(events, BootEvent) /\ None(commands', BootCommand)
        /\ AtMostOne(commands', BootCommand)
    BY <1>1, <1>4, <2>1, CommandTokens DEF OneBoot
  <2>3. None(commands', {Swapon}) /\ None(commands, {Swapon})
    <3>1. None(commands', {Swapon})
      BY <2>2, CommandTokens DEF None
    <3>2. SameCommands({Swapon})
      BY <1>4, CommandTokens
    <3>3. QED
      BY <3>1, <3>2 DEF SameCommands
  <2>4. AtMostOne(events', BootEvent)
    BY <1>8, <2>2, EventTokens
  <2>5. Booting
    BY <2>1 DEF Booting
  <2>6. QED
    BY <1>1, <1>6, <2>2, <2>3, <2>4, <2>5 DEF OneBoot, Booting, ZramOncePerBoot
<1>11. OneRequest' /\ PathsPassed'
  <2>1. SameEvents(FlashEvent)
    BY <1>8, EventTokens
  <2>2. SameEvents({Change(Success, "1")})
    BY <1>8, EventTokens
  <2>3. SameCommands(FlashCommand) /\ SameCommands({Answer})
    BY <1>4, CommandTokens
  <2>4. QED
    BY <1>1, <1>3, <1>6, <2>1, <2>2, <2>3, RequestKept
<1>12. QED
  BY <1>9, <1>10, <1>11 DEF IInv

LEMMA RunSwaponIInv == IInv /\ RunSwapon => IInv'
<1> SUFFICES ASSUME IInv, RunSwapon PROVE IInv'
  OBVIOUS
<1>1. Types /\ OneBoot /\ OneRequest /\ PathsPassed
  BY DEF IInv
<1>2. PICK c : c = Head(commands)
  OBVIOUS
<1>3. /\ Command("swapon_all") /\ halted' = halted /\ swapped' = swapped + 1
      /\ UNCHANGED <<propVars, scriptVars, adbd, clientVars, settings, inTime>>
  BY DEF RunSwapon
<1>4. /\ c = Swapon
      /\ c \in CommandSet /\ commands' \in Seq(CommandSet)
      /\ \A S \in SUBSET CommandSet :
             /\ c \notin S => SameCommands(S)
             /\ c \in S => ~ None(commands, S)
             /\ AtMostOne(commands, S) => AtMostOne(commands', S)
             /\ AtMostOne(commands, S) /\ c \in S => None(commands', S)
  BY <1>1, <1>2, <1>3, CommandTaken, CommandNames
<1>5. PropType /\ ScriptType /\ ClientType /\ OthersType
      /\ events \in Seq(Event) /\ commands \in Seq(CommandSet)
  BY <1>1, TypeParts
<1>6. /\ script' = script /\ if' = if /\ of' = of /\ copied' = copied
      /\ prop' = prop /\ events' = events
      /\ client' = client /\ request' = request /\ adbd' = adbd /\ inTime' = inTime
  BY <1>3 DEF propVars, scriptVars, clientVars
<1>7. ~ None(commands, BootCommand) /\ ~ None(commands, {Swapon})
      /\ AtMostOne(commands, BootCommand)
  BY <1>1, <1>4, CommandTokens DEF OneBoot
<1>8. swapped = 0 /\ prop[BootCompleted] = "1" /\ inTime /\ None(events, BootEvent)
  BY <1>1, <1>7 DEF OneBoot, Booting
<1>9. swapped' = 1
  BY <1>3, <1>8
<1>10. Types'
  <2>1. PropType' /\ OthersType'
    BY <1>3, <1>5, <1>6, <1>9 DEF PropType, OthersType
  <2>2. ScriptType'
    BY <1>5, <1>6 DEF ScriptType
  <2>3. ClientType'
    BY <1>5, <1>6 DEF ClientType
  <2>4. QED
    BY <1>4, <1>5, <1>6, <2>1, <2>2, <2>3, TypesAfter
<1>11. OneBoot'
  <2>1. None(commands', BootCommand) /\ AtMostOne(commands', BootCommand)
    BY <1>4, <1>7, CommandTokens
  <2>2. None(commands', {Swapon})
    BY <2>1, CommandTokens DEF None
  <2>3. None(events', BootEvent) /\ AtMostOne(events', BootEvent)
    BY <1>1, <1>6, <1>8 DEF OneBoot
  <2>4. prop'[BootCompleted] = "1" /\ inTime'
    BY <1>6, <1>8
  <2>5. prop'[BootCompleted] # Unset
    BY <2>4 DEF Unset
  <2>6. ~ Booting'
    BY <2>1, <2>3 DEF Booting
  <2>7. ZramOncePerBoot'
    BY <1>9, <2>4 DEF ZramOncePerBoot
  <2>8. QED
    BY <2>1, <2>2, <2>3, <2>4, <2>5, <2>6, <2>7 DEF OneBoot
<1>12. OneRequest' /\ PathsPassed'
  <2>1. SameEvents(FlashEvent) /\ SameEvents({Change(Success, "1")})
    BY <1>6, SameQueue
  <2>2. SameCommands(FlashCommand) /\ SameCommands({Answer})
    BY <1>4, CommandTokens
  <2>3. QED
    BY <1>1, <1>3, <1>6, <2>1, <2>2, RequestKept
<1>13. QED
  BY <1>10, <1>11, <1>12 DEF IInv

LEMMA RunRestartOrStopIInv == IInv /\ (RunRestart \/ RunStop) => IInv'
<1> SUFFICES ASSUME IInv, RunRestart \/ RunStop PROVE IInv'
  OBVIOUS
<1>1. Types /\ OneBoot /\ OneRequest /\ PathsPassed
  BY DEF IInv
<1>2. PICK c : c = Head(commands)
  OBVIOUS
<1>3. /\ \/ Command("restart") /\ adbd' = "starting"
         \/ Command("stop") /\ adbd' = "stopped"
      /\ UNCHANGED <<propVars, scriptVars, clientVars, settings, historyVars>>
  BY DEF RunRestart, RunStop
<1>4. /\ c \in {RestartAdbd, StopAdbd}
      /\ c \in CommandSet /\ commands' \in Seq(CommandSet)
      /\ \A S \in SUBSET CommandSet : c \notin S => SameCommands(S)
  BY <1>1, <1>2, <1>3, CommandTaken, CommandNames
<1>5. PropType /\ ScriptType /\ ClientType /\ OthersType
      /\ events \in Seq(Event) /\ commands \in Seq(CommandSet)
  BY <1>1, TypeParts
<1>6. /\ script' = script /\ if' = if /\ of' = of /\ copied' = copied
      /\ prop' = prop /\ events' = events
      /\ client' = client /\ request' = request /\ swapped' = swapped
      /\ halted' = halted /\ inTime' = inTime
  BY <1>3 DEF propVars, scriptVars, clientVars, historyVars
<1>7. /\ SameEvents(FlashEvent) /\ SameEvents({Change(Success, "1")}) /\ SameEvents(BootEvent)
      /\ SameCommands(FlashCommand) /\ SameCommands({Answer})
      /\ SameCommands(BootCommand) /\ SameCommands({Swapon})
  <2>1. c \notin BootCommand /\ c \notin FlashCommand /\ Swapon \in BootCommand
        /\ Answer \in FlashCommand
    BY <1>4, CommandTokens
  <2>2. c \notin {Answer} /\ c \notin {Swapon} /\ Swapon \in CommandSet /\ Answer \in CommandSet
    BY <2>1, CommandTokens
  <2>3. QED
    BY <1>4, <1>6, <2>1, <2>2, SameQueue, CommandTokens
<1>8. Types'
  <2>1. PropType' /\ OthersType'
    BY <1>3, <1>5, <1>6 DEF PropType, OthersType
  <2>2. ScriptType'
    BY <1>5, <1>6 DEF ScriptType
  <2>3. ClientType'
    BY <1>5, <1>6 DEF ClientType
  <2>4. QED
    BY <1>4, <1>5, <1>6, <2>1, <2>2, <2>3, TypesAfter
<1>9. OneBoot'
  BY <1>1, <1>6, <1>7, BootKept
<1>10. OneRequest' /\ PathsPassed'
  BY <1>1, <1>3, <1>6, <1>7, RequestKept
<1>11. QED
  BY <1>8, <1>9, <1>10 DEF IInv

(* The request is started, or the script of the one before has not ended.  *)
LEMMA RunStartIInv == IInv /\ RunStart => IInv'
<1> SUFFICES ASSUME IInv, RunStart PROVE IInv'
  OBVIOUS
<1>1. Types /\ OneBoot /\ OneRequest /\ PathsPassed
  BY DEF IInv
<1>2. PICK c : c = Head(commands)
  OBVIOUS
<1>3. /\ Command("start")
      /\ script' = (IF c.name = "flash_img" /\ script = "stopped" THEN "getprop if" ELSE script)
      /\ UNCHANGED <<propVars, if, of, copied, adbd, clientVars, swapped, inTime, halted>>
  BY <1>2 DEF RunStart
<1>4. /\ c \in {StartGpsd, StartFlash}
      /\ c \in CommandSet /\ commands' \in Seq(CommandSet)
      /\ \A S \in SUBSET CommandSet :
             /\ c \notin S => SameCommands(S)
             /\ c \in S => ~ None(commands, S)
             /\ AtMostOne(commands, S) => AtMostOne(commands', S)
             /\ AtMostOne(commands, S) /\ c \in S => None(commands', S)
  BY <1>1, <1>2, <1>3, CommandTaken, CommandNames
<1>5. PropType /\ ScriptType /\ ClientType /\ OthersType
      /\ events \in Seq(Event) /\ commands \in Seq(CommandSet)
  BY <1>1, TypeParts
<1>6. /\ if' = if /\ of' = of /\ copied' = copied
      /\ prop' = prop /\ events' = events /\ adbd' = adbd
      /\ client' = client /\ request' = request /\ swapped' = swapped
      /\ halted' = halted /\ inTime' = inTime
  BY <1>3 DEF propVars, clientVars
<1>7. /\ SameEvents(FlashEvent) /\ SameEvents({Change(Success, "1")}) /\ SameEvents(BootEvent)
      /\ SameCommands(BootCommand) /\ SameCommands({Swapon})
  <2>1. c \notin BootCommand /\ Swapon \in BootCommand
    BY <1>4, CommandTokens
  <2>2. c \notin {Swapon} /\ Swapon \in CommandSet
    BY <2>1, CommandTokens
  <2>3. QED
    BY <1>4, <1>6, <2>1, <2>2, SameQueue, CommandTokens
<1>8. Types'
  <2>1. PropType' /\ OthersType'
    BY <1>5, <1>6 DEF PropType, OthersType
  <2>2. script' = script \/ script' = "getprop if"
    BY <1>3
  <2>3. ScriptType'
    BY <1>5, <1>6, <2>2 DEF ScriptType
  <2>4. ClientType'
    BY <1>5, <1>6 DEF ClientType
  <2>5. QED
    BY <1>4, <1>5, <1>6, <2>1, <2>3, <2>4, TypesAfter
<1>9. OneBoot'
  BY <1>1, <1>6, <1>7, BootKept
<1>10. CASE c = StartGpsd
  <2>1. c \notin FlashCommand /\ c \notin {Answer} /\ Answer \in CommandSet
    BY <1>10, CommandTokens
  <2>2. SameCommands(FlashCommand) /\ SameCommands({Answer})
    BY <1>4, <2>1, CommandTokens
  <2>3. c.name # "flash_img"
    BY <1>4, <1>10, CommandNames
  <2>4. UNCHANGED <<scriptVars, client, request>>
    BY <1>3, <1>6, <2>3 DEF scriptVars
  <2>5. OneRequest' /\ PathsPassed'
    BY <1>1, <1>6, <1>7, <2>2, <2>4, RequestKept
  <2>6. QED
    BY <1>8, <1>9, <2>5 DEF IInv
<1>11. CASE c = StartFlash
  <2>1. ~ None(commands, FlashCommand) /\ None(commands', FlashCommand)
        /\ AtMostOne(commands', FlashCommand)
    BY <1>1, <1>4, <1>11, CommandTokens DEF OneRequest
  <2>2. None(commands', {Answer})
    BY <2>1, CommandTokens DEF None
  <2>3. /\ ~ Running /\ None(events, FlashEvent)
        /\ client = "waiting" /\ prop[VendorSuccess] = "2"
    BY <1>1, <2>1 DEF OneRequest, Flashing
  <2>4. OneRequest'
    BY <1>1, <1>6, <2>1, <2>3 DEF OneRequest
  <2>5. script' \notin {"getprop of", "dd", "setprop"}
    BY <1>3, <2>3 DEF Running
  <2>6. None(events', {Change(Success, "1")})
    BY <1>6, <2>3, EventTokens DEF None
  <2>7. PathsPassed'
    BY <1>1, <1>6, <2>2, <2>3, <2>5, <2>6 DEF PathsPassed, AnsweredAsAsked
  <2>8. QED
    BY <1>8, <1>9, <2>4, <2>7 DEF IInv
<1>12. QED
  BY <1>4, <1>10, <1>11

(* A token goes from the event to the commands it triggers, or is used up. *)
LEMMA NextEventIInv == IInv /\ NextEvent => IInv'
<1> SUFFICES ASSUME IInv, NextEvent PROVE IInv'
  OBVIOUS
<1>1. Types /\ OneBoot /\ OneRequest /\ PathsPassed
  BY DEF IInv
<1>2. PICK e : e = Head(events)
  OBVIOUS
<1>3. /\ commands = <<>> /\ events # <<>> /\ commands' = Triggered(e) /\ events' = Tail(events)
      /\ UNCHANGED <<prop, scriptVars, adbd, clientVars, settings, historyVars>>
  BY <1>2 DEF NextEvent
<1>4. PropType /\ ScriptType /\ ClientType /\ OthersType
      /\ events \in Seq(Event) /\ commands \in Seq(CommandSet)
  BY <1>1, TypeParts
<1>5. /\ script' = script /\ if' = if /\ of' = of /\ copied' = copied /\ prop' = prop
      /\ client' = client /\ request' = request /\ adbd' = adbd
      /\ halted' = halted /\ swapped' = swapped /\ inTime' = inTime
  BY <1>3 DEF scriptVars, clientVars, historyVars
<1>6. /\ e \in Event /\ events' \in Seq(Event)
      /\ \A S \in SUBSET Event :
             /\ e \notin S => SameEvents(S)
             /\ e \in S => ~ None(events, S)
             /\ AtMostOne(events, S) => AtMostOne(events', S)
             /\ AtMostOne(events, S) /\ e \in S => None(events', S)
  <2>1. /\ e \in Event /\ Tail(events) \in Seq(Event)
        /\ \A S \in SUBSET Event :
               /\ None(events, S) => None(Tail(events), S) /\ e \notin S
               /\ AtMostOne(events, S) => AtMostOne(Tail(events), S)
               /\ AtMostOne(events, S) /\ e \in S => None(Tail(events), S)
               /\ e \notin S => (None(Tail(events), S) <=> None(events, S))
    BY <1>2, <1>3, <1>4, Taken
  <2>2. QED
    BY <1>3, <2>1 DEF SameEvents
<1>7. commands' \in Seq(CommandSet)
  BY <1>3, <1>6, TriggeredType
<1>8. \A S : None(commands, S) /\ AtMostOne(commands, S)
  BY <1>3, NothingQueued
<1>9. \A S : None(commands', S) /\ AtMostOne(commands', S) => SameCommands(S)
  BY <1>8 DEF SameCommands
<1>10. Types'
  <2>1. PropType' /\ OthersType'
    BY <1>4, <1>5 DEF PropType, OthersType
  <2>2. ScriptType'
    BY <1>4, <1>5 DEF ScriptType
  <2>3. ClientType'
    BY <1>4, <1>5 DEF ClientType
  <2>4. QED
    BY <1>6, <1>7, <2>1, <2>2, <2>3, TypesAfter
<1>11. ASSUME e \notin FlashEvent, None(commands', FlashCommand), AtMostOne(commands', FlashCommand)
       PROVE  OneRequest' /\ PathsPassed'
  <2>1. SameEvents(FlashEvent) /\ SameEvents({Change(Success, "1")})
    BY <1>6, <1>11, EventTokens
  <2>2. None(commands', {Answer}) /\ AtMostOne(commands', {Answer})
    BY <1>11, CommandTokens DEF None, AtMostOne
  <2>3. SameCommands(FlashCommand) /\ SameCommands({Answer})
    BY <1>9, <1>11, <2>2
  <2>4. QED
    BY <1>1, <1>3, <1>5, <2>1, <2>3, RequestKept
<1>12. ASSUME e \notin BootEvent, None(commands', BootCommand), AtMostOne(commands', BootCommand)
       PROVE  OneBoot'
  <2>1. SameEvents(BootEvent)
    BY <1>6, <1>12, EventTokens
  <2>2. None(commands', {Swapon}) /\ AtMostOne(commands', {Swapon})
    BY <1>12, CommandTokens DEF None, AtMostOne
  <2>3. SameCommands(BootCommand) /\ SameCommands({Swapon})
    BY <1>9, <1>12, <2>2
  <2>4. QED
    BY <1>1, <1>5, <2>1, <2>3, BootKept
<1>13. ASSUME e \in BootEvent
       PROVE  /\ None(events', BootEvent) /\ AtMostOne(events', BootEvent)
              /\ swapped' = 0 /\ prop'[BootCompleted] = "1" /\ prop'[BootCompleted] # Unset
              /\ prop'[ZramEnabled] = "1" => inTime'
              /\ ZramOncePerBoot'
  <2>1. /\ ~ None(events, BootEvent) /\ None(events', BootEvent)
        /\ AtMostOne(events', BootEvent)
    BY <1>1, <1>6, <1>13, EventTokens DEF OneBoot
  <2>2. Booting /\ None(commands, {Swapon})
    BY <1>8, <2>1 DEF Booting
  <2>3. swapped' = 0 /\ prop'[BootCompleted] = "1" /\ (prop'[ZramEnabled] = "1" => inTime')
    BY <1>1, <1>5, <2>2 DEF OneBoot
  <2>4. QED
    BY <2>1, <2>3 DEF ZramOncePerBoot, Unset
<1>14. ASSUME e \in FlashEvent
       PROVE  /\ None(events', FlashEvent) /\ AtMostOne(events', FlashEvent) /\ ~ Running'
              /\ client' = "waiting" /\ prop'[VendorSuccess] = "2"
  <2>1. /\ ~ None(events, FlashEvent) /\ None(events', FlashEvent)
        /\ AtMostOne(events', FlashEvent)
    BY <1>1, <1>6, <1>14, EventTokens DEF OneRequest
  <2>2. Flashing /\ ~ Running
    BY <1>1, <2>1 DEF Flashing, OneRequest
  <2>3. QED
    BY <1>1, <1>5, <2>1, <2>2 DEF OneRequest, Running
<1>15. CASE e = Change(BootCompleted, "1")
  <2>1. commands' = <<StartGpsd, FireTrigger, ReportBoot>>
    BY <1>3, <1>6, <1>15, TriggeredByOne
  <2>2. e \in BootEvent /\ e \notin FlashEvent
    BY <1>15, EventTokens
  <2>3. /\ StartGpsd \notin FlashCommand \cup BootCommand
        /\ ReportBoot \notin FlashCommand \cup BootCommand
        /\ FireTrigger \in BootCommand /\ FireTrigger \notin FlashCommand
    BY CommandTokens
  <2>4. StartGpsd # Swapon /\ FireTrigger # Swapon /\ ReportBoot # Swapon
    BY <2>3, CommandTokens
  <2>5. None(commands', FlashCommand) /\ AtMostOne(commands', FlashCommand)
    BY <2>1, <2>3, ShortQueue
  <2>6. AtMostOne(commands', BootCommand) /\ None(commands', {Swapon})
    BY <2>1, <2>3, <2>4, ShortQueue
  <2>7. OneBoot'
    BY <1>13, <2>2, <2>6 DEF OneBoot, Booting
  <2>8. QED
    BY <1>10, <1>11, <2>2, <2>5, <2>7 DEF IInv
<1>16. CASE e = Change(BootTrigger, Unset)
  <2>1. commands' = IF prop[ZramEnabled] = "1" THEN <<Swapon>> ELSE <<>>
    BY <1>3, <1>6, <1>16, TriggeredByOne
  <2>2. e \in BootEvent /\ e \notin FlashEvent
    BY <1>16, EventTokens
  <2>3. Swapon \notin FlashCommand
    BY CommandTokens
  <2>4. None(commands', FlashCommand) /\ AtMostOne(commands', FlashCommand)
        /\ AtMostOne(commands', BootCommand)
    BY <2>1, <2>3, ShortQueue, NothingQueued
  <2>5. \/ prop[ZramEnabled] = "1"
        \/ None(commands', BootCommand) /\ None(commands', {Swapon})
    BY <2>1, NothingQueued
  <2>6. OneBoot'
    BY <1>5, <1>13, <2>2, <2>4, <2>5 DEF OneBoot, Booting
  <2>7. QED
    BY <1>10, <1>11, <2>2, <2>4, <2>6 DEF IInv
<1>17. CASE e = Change(VendorSuccess, "2")
  <2>1. commands' = <<StartFlash>>
    BY <1>3, <1>6, <1>17, TriggeredByOne
  <2>2. e \in FlashEvent /\ e \notin BootEvent
    BY <1>17, EventTokens
  <2>3. StartFlash \notin BootCommand /\ StartFlash \notin {Answer}
    BY CommandTokens
  <2>4. None(commands', BootCommand) /\ AtMostOne(commands', BootCommand)
        /\ AtMostOne(commands', FlashCommand) /\ None(commands', {Answer})
    BY <2>1, <2>3, ShortQueue
  <2>5. OneRequest'
    BY <1>14, <2>2, <2>4 DEF OneRequest
  <2>6. None(events', {Change(Success, "1")})
    BY <1>14, <2>2, EventTokens DEF None
  <2>7. script' \notin {"getprop of", "dd", "setprop"}
    BY <1>14, <2>2 DEF Running
  <2>8. PathsPassed'
    BY <1>1, <1>5, <1>14, <2>2, <2>4, <2>6, <2>7 DEF PathsPassed, AnsweredAsAsked
  <2>9. QED
    BY <1>10, <1>12, <2>2, <2>4, <2>5, <2>8 DEF IInv
<1>18. CASE e = Change(Success, "1")
  <2>1. commands' = <<Answer>>
    BY <1>3, <1>6, <1>18, TriggeredByOne
  <2>2. e \in FlashEvent /\ e \notin BootEvent
    BY <1>18, EventTokens
  <2>3. Answer \notin BootCommand
    BY CommandTokens
  <2>4. None(commands', BootCommand) /\ AtMostOne(commands', BootCommand)
        /\ AtMostOne(commands', FlashCommand)
    BY <2>1, <2>3, ShortQueue
  <2>5. copied' = request'
    <3>1. e \in {Change(Success, "1")} /\ {Change(Success, "1")} \in SUBSET Event
      BY <1>6, <1>18
    <3>2. QED
      BY <1>1, <1>5, <1>6, <3>1 DEF PathsPassed
  <2>6. OneRequest'
    BY <1>14, <2>2, <2>4 DEF OneRequest
  <2>7. script' \notin {"getprop of", "dd", "setprop"}
    BY <1>14, <2>2 DEF Running
  <2>8. PathsPassed'
    BY <1>1, <1>5, <2>5, <2>7 DEF PathsPassed, AnsweredAsAsked
  <2>9. QED
    BY <1>10, <1>12, <2>2, <2>4, <2>6, <2>8 DEF IInv
<1>19. CASE e \in {Change(ZramEnabled, "0"), Change(ZramEnabled, "1"),
                   Change(InternetAdb, "0"), Change(InternetAdb, "1"),
                   Change(AdbEnable, "0"), Change(AdbEnable, "1"), Change(SerialNo, "1"),
                   Change(VendorSuccess, "1")}
  <2>1. e \notin FlashEvent /\ e \notin BootEvent
    BY <1>19, EventTokens, NamesDiffer DEF Setting, ValuesOf
  <2>2. commands' \in {<<>>, <<Setprop(AdbPort, "5555"), RestartAdbd>>,
                       <<Setprop(AdbPort, "0"), RestartAdbd>>, <<RestartAdbd>>, <<StopAdbd>>}
    BY <1>3, <1>6, <1>19, TriggeredByOne
  <2>3. \A c \in {Setprop(AdbPort, "5555"), Setprop(AdbPort, "0"), RestartAdbd, StopAdbd} :
            c \notin FlashCommand /\ c \notin BootCommand
    BY CommandTokens
  <2>4. ASSUME NEW S \in {FlashCommand, BootCommand}
        PROVE  None(commands', S) /\ AtMostOne(commands', S)
    <3>1. PICK q : q = commands'
      OBVIOUS
    <3>2. CASE q = <<>>
      BY <3>1, <3>2, NothingQueued
    <3>3. ASSUME NEW c \in {Setprop(AdbPort, "5555"), Setprop(AdbPort, "0")},
                 q = <<c, RestartAdbd>>
          PROVE  None(q, S) /\ AtMostOne(q, S)
      <4>1. c \notin S /\ RestartAdbd \notin S
        BY <2>3
      <4>2. QED
        BY <3>3, <4>1, ShortQueue
    <3>4. ASSUME NEW c \in {RestartAdbd, StopAdbd}, q = <<c>>
          PROVE  None(q, S) /\ AtMostOne(q, S)
      BY <2>3, <3>4, ShortQueue
    <3>5. QED
      BY <2>2, <3>1, <3>2, <3>3, <3>4
  <2>5. QED
    BY <1>10, <1>11, <1>12, <2>1, <2>4 DEF IInv
<1>20. QED
  BY <1>6, <1>15, <1>16, <1>17, <1>18, <1>19 DEF Event

-----------------------------------------------------------------------------
(* The steps of the client.                                                *)

(* No part of a request is under way until the client has asked.           *)
LEMMA NotFlashing ==
  ASSUME OneRequest, client # "waiting" \/ prop[VendorSuccess] = "1"
  PROVE  /\ script \notin {"getprop if", "getprop of", "dd", "setprop"}
         /\ ~ Running /\ None(events, FlashEvent) /\ None(commands, FlashCommand)
         /\ None(events, {Change(Success, "1")}) /\ None(commands, {Answer})
<1>1. ~ Flashing
  BY DEF OneRequest
<1>2. ~ Running /\ None(events, FlashEvent) /\ None(commands, FlashCommand)
  BY <1>1 DEF Flashing
<1>3. None(events, {Change(Success, "1")}) /\ None(commands, {Answer})
  BY <1>2, EventTokens, CommandTokens DEF None
<1>4. QED
  BY <1>2, <1>3 DEF Running

LEMMA ClientAsksIInv ==
  ASSUME IInv, NEW from \in Path, NEW to \in Path, ClientAsks(from, to)
  PROVE  IInv'
<1>1. Types /\ OneBoot /\ OneRequest /\ PathsPassed
  BY DEF IInv
<1>2. /\ client = "idle" /\ client' = "if" /\ request' = [if |-> from, of |-> to]
      /\ UNCHANGED <<propVars, commands, scriptVars, adbd, historyVars>>
  BY DEF ClientAsks
<1>3. PropType /\ ScriptType /\ ClientType /\ OthersType
      /\ events \in Seq(Event) /\ commands \in Seq(CommandSet)
  BY <1>1, TypeParts
<1>4. /\ script' = script /\ if' = if /\ of' = of /\ copied' = copied /\ adbd' = adbd
      /\ prop' = prop /\ events' = events /\ commands' = commands
      /\ halted' = halted /\ swapped' = swapped
  BY <1>2 DEF propVars, scriptVars, historyVars
<1>5. /\ script \notin {"getprop if", "getprop of", "dd", "setprop"}
      /\ ~ Running /\ None(events, FlashEvent) /\ None(commands, FlashCommand)
      /\ None(events, {Change(Success, "1")}) /\ None(commands, {Answer})
  BY <1>1, <1>2, NotFlashing
<1>6. Types'
  <2>1. PropType' /\ OthersType'
    BY <1>3, <1>4 DEF PropType, OthersType
  <2>2. ScriptType'
    BY <1>3, <1>4 DEF ScriptType
  <2>3. ClientType'
    BY <1>2 DEF ClientType
  <2>4. QED
    BY <1>3, <1>4, <2>1, <2>2, <2>3, TypesAfter
<1>7. OneBoot'
  BY <1>1, <1>2, BootUntouched
<1>8. OneRequest'
  BY <1>1, <1>4, <1>5 DEF OneRequest, Flashing, Running
<1>9. PathsPassed'
  BY <1>2, <1>4, <1>5 DEF PathsPassed, AnsweredAsAsked
<1>10. QED
  BY <1>6, <1>7, <1>8, <1>9 DEF IInv

LEMMA ClientSeesIInv == IInv /\ ClientSees => IInv'
<1> SUFFICES ASSUME IInv, ClientSees PROVE IInv'
  OBVIOUS
<1>1. Types /\ OneBoot /\ OneRequest /\ PathsPassed
  BY DEF IInv
<1>2. /\ prop[VendorSuccess] = "1" /\ client' = "idle" /\ request' = request
      /\ UNCHANGED <<propVars, commands, scriptVars, adbd, historyVars>>
  BY DEF ClientSees
<1>3. PropType /\ ScriptType /\ ClientType /\ OthersType
      /\ events \in Seq(Event) /\ commands \in Seq(CommandSet)
  BY <1>1, TypeParts
<1>4. /\ script' = script /\ if' = if /\ of' = of /\ copied' = copied /\ adbd' = adbd
      /\ prop' = prop /\ events' = events /\ commands' = commands
      /\ halted' = halted /\ swapped' = swapped
  BY <1>2 DEF propVars, scriptVars, historyVars
<1>5. /\ script \notin {"getprop if", "getprop of", "dd", "setprop"}
      /\ ~ Running /\ None(events, FlashEvent) /\ None(commands, FlashCommand)
      /\ None(events, {Change(Success, "1")}) /\ None(commands, {Answer})
  BY <1>1, <1>2, NotFlashing
<1>6. Types'
  <2>1. PropType' /\ OthersType'
    BY <1>3, <1>4 DEF PropType, OthersType
  <2>2. ScriptType'
    BY <1>3, <1>4 DEF ScriptType
  <2>3. ClientType'
    BY <1>2, <1>3 DEF ClientType
  <2>4. QED
    BY <1>3, <1>4, <2>1, <2>2, <2>3, TypesAfter
<1>7. OneBoot'
  BY <1>1, <1>2, BootUntouched
<1>8. OneRequest'
  BY <1>1, <1>4, <1>5 DEF OneRequest, Flashing, Running
<1>9. PathsPassed'
  BY <1>2, <1>4, <1>5 DEF PathsPassed, AnsweredAsAsked
<1>10. QED
  BY <1>6, <1>7, <1>8, <1>9 DEF IInv

LEMMA ClientStepsIInv == IInv /\ ClientSteps => IInv'
<1> SUFFICES ASSUME IInv, ClientSteps PROVE IInv'
  OBVIOUS
<1>1. Types /\ OneBoot /\ OneRequest /\ PathsPassed
  BY DEF IInv
<1>2. PICK n, v :
          /\ SetProp(n, v)
          /\ \/ client = "if" /\ client' = "of" /\ n = IfPath /\ v = request.if
             \/ client = "of" /\ client' = "ask" /\ n = OfPath /\ v = request.of
             \/ client = "ask" /\ client' = "waiting" /\ n = VendorSuccess /\ v = "2"
  BY DEF ClientSteps, ClientSets
<1>3. UNCHANGED <<commands, scriptVars, adbd, request, historyVars>>
  BY DEF ClientSteps, ClientSets
<1>4. PropType /\ ScriptType /\ ClientType /\ OthersType
      /\ events \in Seq(Event) /\ commands \in Seq(CommandSet)
  BY <1>1, TypeParts
<1>5. /\ script' = script /\ if' = if /\ of' = of /\ copied' = copied /\ adbd' = adbd
      /\ request' = request /\ commands' = commands /\ swapped' = swapped
      /\ halted' = halted /\ inTime' = inTime
  BY <1>3 DEF scriptVars, historyVars
<1>6. client \in {"if", "of", "ask"} /\ client' \in {"of", "ask", "waiting"}
  BY <1>2
<1>7. /\ script \notin {"getprop if", "getprop of", "dd", "setprop"}
      /\ ~ Running /\ None(events, FlashEvent) /\ None(commands, FlashCommand)
      /\ None(events, {Change(Success, "1")}) /\ None(commands, {Answer})
  BY <1>1, <1>6, NotFlashing
<1>8. ~ Running'
  BY <1>5, <1>7 DEF Running
<1>9. request \in [if : Path, of : Path]
  BY <1>4, <1>6 DEF ClientType
<1>10. /\ n \in {IfPath, OfPath, VendorSuccess} /\ n \in Name
       /\ prop'[n] = v /\ \A m \in Name \ {n} : prop'[m] = prop[m]
       /\ n = VendorSuccess => events' = Append(events, Change(VendorSuccess, "2"))
       /\ n # VendorSuccess => events' = events
  BY <1>2, <1>4, PropertySet, Names DEF PropType
<1>11. /\ IfPath # OfPath /\ IfPath # VendorSuccess /\ OfPath # VendorSuccess
       /\ AdbPort \notin {IfPath, OfPath, VendorSuccess}
       /\ BootCompleted \notin {IfPath, OfPath, VendorSuccess}
       /\ ZramEnabled \notin {IfPath, OfPath, VendorSuccess}
       /\ {BootCompleted, ZramEnabled, IfPath, OfPath, VendorSuccess, AdbPort} \subseteq Name
  BY Names DEF IfPath, OfPath, VendorSuccess, AdbPort, BootCompleted, ZramEnabled
<1>12. prop'[BootCompleted] = prop[BootCompleted] /\ prop'[ZramEnabled] = prop[ZramEnabled]
  BY <1>10, <1>11
<1>13. PropType'
  <2>1. v \in Path \cup {Unset, "0", "1", "2", "5555"}
    BY <1>2, <1>9
  <2>2. n = VendorSuccess => v \in {Unset, "1", "2"}
    BY <1>2, <1>11
  <2>3. QED
    BY <1>2, <1>4, <1>10, <1>11, <2>1, <2>2, PropertyType
<1>14. ScriptType'
  BY <1>4, <1>5 DEF ScriptType
<1>15. ClientType' /\ OthersType'
  BY <1>4, <1>5, <1>6, <1>9 DEF ClientType, OthersType
<1>16. SameCommands(BootCommand) /\ SameCommands({Swapon})
  BY <1>5, SameQueue
<1>17. CASE n # VendorSuccess
  <2>1. events' = events
    BY <1>10, <1>17
  <2>2. Types'
    BY <1>4, <1>5, <1>13, <1>14, <1>15, <2>1, TypesAfter
  <2>3. OneBoot'
    BY <1>1, <1>5, <1>12, <1>16, <2>1, SameQueue, BootKept
  <2>4. OneRequest'
    BY <1>1, <1>5, <1>7, <1>8, <2>1 DEF OneRequest, Flashing
  <2>5. client' # "waiting" /\ None(events', {Change(Success, "1")})
    BY <1>2, <1>7, <1>17, <2>1
  <2>6. /\ client' \in {"of", "ask"} => prop'[IfPath] = request.if
        /\ client' = "ask" => prop'[OfPath] = request.of
    BY <1>1, <1>2, <1>10, <1>11 DEF PathsPassed
  <2>7. PathsPassed'
    BY <1>5, <1>7, <2>5, <2>6 DEF PathsPassed, AnsweredAsAsked
  <2>8. QED
    BY <2>2, <2>3, <2>4, <2>7 DEF IInv
<1>18. CASE n = VendorSuccess
  <2>1. /\ client = "ask" /\ client' = "waiting" /\ prop'[VendorSuccess] = "2"
        /\ events' = Append(events, Change(VendorSuccess, "2"))
    BY <1>2, <1>10, <1>11, <1>18
  <2>2. /\ events' \in Seq(Event)
        /\ \A S \in SUBSET Event :
               /\ Change(VendorSuccess, "2") \notin S => SameEvents(S)
               /\ None(events, S) => AtMostOne(events', S)
    BY <1>4, <2>1, EventAdded, EventTokens
  <2>3. Types'
    BY <1>4, <1>5, <1>13, <1>14, <1>15, <2>2, TypesAfter
  <2>4. OneBoot'
    <3>1. SameEvents(BootEvent)
      BY <2>2, EventTokens
    <3>2. QED
      BY <1>1, <1>5, <1>12, <1>16, <3>1, BootKept
  <2>5. AtMostOne(events', FlashEvent)
    BY <1>7, <2>2, EventTokens
  <2>6. OneRequest'
    BY <1>1, <1>5, <1>7, <1>8, <2>1, <2>5 DEF OneRequest
  <2>7. None(events', {Change(Success, "1")})
    <3>1. {Change(Success, "1")} \in SUBSET Event
      BY EventTokens
    <3>2. Change(VendorSuccess, "2") \notin {Change(Success, "1")}
      BY EventTokens
    <3>3. QED
      BY <1>7, <2>2, <3>1, <3>2 DEF SameEvents
  <2>8. prop'[IfPath] = request.if /\ prop'[OfPath] = request.of
    BY <1>1, <1>10, <1>11, <1>18, <2>1 DEF PathsPassed
  <2>9. PathsPassed'
    BY <1>5, <1>7, <2>1, <2>7, <2>8 DEF PathsPassed, AnsweredAsAsked
  <2>10. QED
    BY <2>3, <2>4, <2>6, <2>9 DEF IInv
<1>19. QED
  BY <1>17, <1>18

-----------------------------------------------------------------------------
(* The steps of the framework and of the user.                             *)

(* A property is set that is no part of a request.                         *)
LEMMA OtherSet ==
  ASSUME IInv, NEW n, NEW v,
         (n = BootCompleted /\ v = "1") \/ (n \in Setting /\ v \in ValuesOf(n)),
         SetProp(n, v), halted' \in BOOLEAN,
         UNCHANGED <<commands, scriptVars, adbd, clientVars, swapped>>
  PROVE  /\ Types' /\ OneRequest' /\ PathsPassed'
         /\ prop'[n] = v /\ \A m \in Name \ {n} : prop'[m] = prop[m]
         /\ \A S \in SUBSET Event :
                /\ Change(n, v) \notin S => SameEvents(S)
                /\ None(events, S) => AtMostOne(events', S)
<1>1. Types /\ OneBoot /\ OneRequest /\ PathsPassed
  BY DEF IInv
<1>2. PropType /\ ScriptType /\ ClientType /\ OthersType
      /\ events \in Seq(Event) /\ commands \in Seq(CommandSet)
  BY <1>1, TypeParts
<1>3. /\ script' = script /\ if' = if /\ of' = of /\ copied' = copied /\ adbd' = adbd
      /\ client' = client /\ request' = request /\ commands' = commands /\ swapped' = swapped
  BY DEF scriptVars, clientVars
<1>4. /\ n \in Watched /\ n \in Name
      /\ AdbPort # n /\ VendorSuccess # n /\ IfPath # n /\ OfPath # n
      /\ {AdbPort, VendorSuccess, IfPath, OfPath} \subseteq Name
  BY Names, NamesDiffer DEF AdbPort, IfPath, OfPath, BootCompleted, Setting, ZramEnabled,
     InternetAdb, AdbEnable, SerialNo
<1>5. /\ v \in {"0", "1"}
      /\ Change(n, v) \in Event /\ Change(n, v) \notin FlashEvent
      /\ Change(n, v) \notin {Change(Success, "1")}
  BY EventTokens DEF ValuesOf, FlashEvent
<1>6. /\ prop'[n] = v /\ \A m \in Name \ {n} : prop'[m] = prop[m]
      /\ events' = Append(events, Change(n, v))
  BY <1>2, <1>4, PropertySet DEF PropType
<1>7. /\ events' \in Seq(Event)
      /\ \A S \in SUBSET Event :
             /\ Change(n, v) \notin S => SameEvents(S)
             /\ None(events, S) => AtMostOne(events', S)
  BY <1>2, <1>5, <1>6, EventAdded
<1>8. Types'
  <2>1. PropType'
    BY <1>2, <1>4, <1>5, PropertyType
  <2>2. ScriptType'
    BY <1>2, <1>3 DEF ScriptType
  <2>3. ClientType'
    BY <1>2, <1>3 DEF ClientType
  <2>4. OthersType'
    BY <1>2, <1>3 DEF OthersType
  <2>5. QED
    BY <1>2, <1>3, <1>7, <2>1, <2>2, <2>3, <2>4, TypesAfter
<1>9. OneRequest' /\ PathsPassed'
  <2>1. /\ prop'[VendorSuccess] = prop[VendorSuccess]
        /\ prop'[IfPath] = prop[IfPath] /\ prop'[OfPath] = prop[OfPath]
    BY <1>4, <1>6
  <2>2. SameEvents(FlashEvent) /\ SameEvents({Change(Success, "1")})
    BY <1>5, <1>7, EventTokens
  <2>3. SameCommands(FlashCommand) /\ SameCommands({Answer})
    BY <1>3, SameQueue
  <2>4. QED
    BY <1>1, <1>3, <2>1, <2>2, <2>3, RequestKept
<1>10. QED
  BY <1>6, <1>7, <1>8, <1>9

LEMMA BootCompletesIInv == IInv /\ BootCompletes => IInv'
<1> SUFFICES ASSUME IInv, BootCompletes PROVE IInv'
  OBVIOUS
<1>1. Types /\ OneBoot /\ OneRequest /\ PathsPassed
  BY DEF IInv
<1>2. /\ prop[BootCompleted] = Unset /\ SetProp(BootCompleted, "1")
      /\ inTime' = (prop[ZramEnabled] = "1") /\ halted' = halted
      /\ UNCHANGED <<commands, scriptVars, adbd, clientVars, swapped>>
  BY DEF BootCompletes
<1>3. /\ Types' /\ OneRequest' /\ PathsPassed'
      /\ prop'[BootCompleted] = "1" /\ \A m \in Name \ {BootCompleted} : prop'[m] = prop[m]
      /\ \A S \in SUBSET Event : None(events, S) => AtMostOne(events', S)
  <2>1. halted' \in BOOLEAN
    BY <1>1, <1>2 DEF Types, TypeOK
  <2>2. QED
    BY <1>2, <2>1, OtherSet
<1>4. swapped = 0 /\ ~ Booting
  BY <1>1, <1>2 DEF OneBoot, Unset
<1>5. None(events, BootEvent) /\ None(commands, BootCommand)
  BY <1>4 DEF Booting
<1>6. None(commands, {Swapon})
  BY <1>5, CommandTokens DEF None
<1>7. AtMostOne(events', BootEvent)
  BY <1>3, <1>5, EventTokens
<1>8. prop'[ZramEnabled] = prop[ZramEnabled]
  BY <1>3, Names
<1>9. OneBoot'
  <2>1. /\ None(commands', BootCommand) /\ None(commands', {Swapon})
        /\ AtMostOne(commands', BootCommand) /\ swapped' = 0
    BY <1>1, <1>2, <1>4, <1>5, <1>6 DEF OneBoot
  <2>2. prop'[ZramEnabled] = "1" => inTime'
    BY <1>2, <1>8
  <2>3. prop'[BootCompleted] = "1" /\ prop'[BootCompleted] # Unset
    BY <1>3 DEF Unset
  <2>4. ZramOncePerBoot'
    BY <2>1 DEF ZramOncePerBoot
  <2>5. QED
    BY <1>7, <2>1, <2>2, <2>3, <2>4 DEF OneBoot
<1>10. QED
  BY <1>3, <1>9 DEF IInv

(* A boot that is under way is one that a new setting may still be in time for.*)
LEMMA BootingPending ==
  ASSUME Booting, None(commands, {Swapon})
  PROVE  BootPending
<1>1. CASE ~ None(events, BootEvent)
  <2>1. PICK i \in 1 .. Len(events) : events[i] \in BootEvent
    BY <1>1 DEF None
  <2>2. events[i].event \in {BootCompleted, BootTrigger}
    BY <2>1 DEF BootEvent, Change
  <2>3. QED
    BY <2>2 DEF BootPending
<1>2. CASE ~ None(commands, BootCommand)
  <2>1. PICK i \in 1 .. Len(commands) : commands[i] \in BootCommand
    BY <1>2 DEF None
  <2>2. commands[i] = FireTrigger
    BY <2>1 DEF BootCommand, None
  <2>3. commands[i].command = "trigger"
    BY <2>2 DEF FireTrigger, Do
  <2>4. QED
    BY <2>3 DEF BootPending
<1>3. QED
  BY <1>1, <1>2 DEF Booting

LEMMA UserSetsIInv ==
  ASSUME IInv, NEW n \in Setting, NEW v \in ValuesOf(n), UserSets(n, v)
  PROVE  IInv'
<1>1. Types /\ OneBoot /\ OneRequest /\ PathsPassed
  BY DEF IInv
<1>2. /\ SetProp(n, v)
      /\ inTime' = (inTime \/ (n = ZramEnabled /\ v = "1" /\ BootPending))
      /\ UNCHANGED <<commands, scriptVars, adbd, clientVars, swapped>>
      /\ halted' = IF n = ZramEnabled THEN halted ELSE n = AdbEnable /\ v = "0"
  BY DEF UserSets
<1>3. n # BootCompleted
  BY NamesDiffer DEF Setting
<1>4. /\ Types' /\ OneRequest' /\ PathsPassed'
      /\ prop'[n] = v /\ \A m \in Name \ {n} : prop'[m] = prop[m]
      /\ \A S \in SUBSET Event : Change(n, v) \notin S => SameEvents(S)
  <2>1. halted' \in BOOLEAN
    BY <1>1, <1>2 DEF Types, TypeOK
  <2>2. QED
    BY <1>2, <1>3, <2>1, OtherSet
<1>5. SameEvents(BootEvent)
  BY <1>4, EventTokens
<1>6. prop'[BootCompleted] = prop[BootCompleted]
  BY <1>3, <1>4, Names
<1>7. ASSUME Booting, None(commands, {Swapon}), prop'[ZramEnabled] = "1"
      PROVE  inTime'
  <2>1. CASE n = ZramEnabled
    BY <1>2, <1>4, <1>7, <2>1, BootingPending
  <2>2. CASE n # ZramEnabled
    <3>1. prop[ZramEnabled] = "1"
      BY <1>4, <1>7, <2>2, Names
    <3>2. QED
      BY <1>1, <1>2, <1>7, <3>1 DEF OneBoot
  <2>3. QED
    BY <2>1, <2>2
<1>8. inTime => inTime'
  BY <1>2
<1>9. OneBoot'
  BY <1>1, <1>2, <1>5, <1>6, <1>7, <1>8 DEF OneBoot, Booting, SameEvents, ZramOncePerBoot
<1>10. QED
  BY <1>4, <1>9 DEF IInv

LEMMA UnchangedIInv == IInv /\ UNCHANGED vars => IInv'
<1> SUFFICES ASSUME IInv, UNCHANGED vars PROVE IInv'
  OBVIOUS
<1>1. Types /\ OneBoot /\ OneRequest /\ PathsPassed
  BY DEF IInv
<1>2. UNCHANGED <<propVars, commands, scriptVars, adbd, clientVars, historyVars>>
  BY DEF vars
<1>3. /\ prop' = prop /\ events' = events /\ commands' = commands /\ adbd' = adbd
      /\ client' = client /\ request' = request /\ halted' = halted /\ swapped' = swapped
      /\ script' = script /\ if' = if /\ of' = of /\ copied' = copied
  BY <1>2 DEF propVars, scriptVars, clientVars, historyVars
<1>4. Types'
  <2>1. PropType /\ ScriptType /\ ClientType /\ OthersType
        /\ events \in Seq(Event) /\ commands \in Seq(CommandSet)
    BY <1>1, TypeParts
  <2>2. PropType' /\ OthersType'
    BY <1>3, <2>1 DEF PropType, OthersType
  <2>3. ScriptType'
    BY <1>3, <2>1 DEF ScriptType
  <2>4. ClientType'
    BY <1>3, <2>1 DEF ClientType
  <2>5. QED
    BY <1>3, <2>1, <2>2, <2>3, <2>4, TypesAfter
<1>5. OneBoot'
  BY <1>1, <1>2, BootUntouched
<1>6. OneRequest' /\ PathsPassed'
  <2>1. SameEvents(FlashEvent) /\ SameCommands(FlashCommand)
        /\ SameEvents({Change(Success, "1")}) /\ SameCommands({Answer})
    BY <1>3, SameQueue
  <2>2. QED
    BY <1>1, <1>2, <1>3, <2>1, RequestKept
<1>7. QED
  BY <1>4, <1>5, <1>6 DEF IInv

LEMMA NextIInv == IInv /\ [Next]_vars => IInv'
<1> SUFFICES ASSUME IInv, [Next]_vars PROVE IInv'
  OBVIOUS
<1>1. CASE InitStep
  BY <1>1, NextEventIInv, RunSetpropIInv, RunTriggerIInv, RunSwaponIInv,
     RunRestartOrStopIInv, RunStartIInv DEF InitStep
<1>2. CASE AdbdStarts
  BY <1>2, AdbdStartsIInv
<1>3. CASE Script
  BY <1>3, ScriptReadsIInv, ScriptReportIInv, ScriptEndsIInv DEF Script
<1>4. CASE \E from, to \in Path : ClientAsks(from, to)
  BY <1>4, ClientAsksIInv
<1>5. CASE ClientSteps \/ ClientSees
  BY <1>5, ClientStepsIInv, ClientSeesIInv
<1>6. CASE BootCompletes
  BY <1>6, BootCompletesIInv
<1>7. CASE \E n \in Setting : \E v \in ValuesOf(n) : UserSets(n, v)
  BY <1>7, UserSetsIInv
<1>8. CASE UNCHANGED vars
  BY <1>8, UnchangedIInv
<1>9. QED
  BY <1>1, <1>2, <1>3, <1>4, <1>5, <1>6, <1>7, <1>8 DEF Next

LEMMA Invariance == Spec => []IInv
  BY InitIInv, NextIInv, PTL DEF Spec

-----------------------------------------------------------------------------
(* The theorems.                                                           *)

(* Init's queues hold nothing but the changes, triggers and commands of    *)
(* init.rk30board.rc:228-259, 322-326 and 345-349; adbd is stopped or on   *)
(* one of the ports 5555 and 0, with any number of settings and requests.  *)
THEOREM TypeCorrect == Spec => []TypeOK
<1>1. IInv => TypeOK
  BY DEF IInv, Types
<1>2. QED
  BY <1>1, Invariance, PTL

(* flash_img.sh:3-8 and init.rk30board.rc:345-349: whatever the two queues *)
(* hold and whether or not dd fails, the 1 that a client reads after its 2 *)
(* says that dd was run with the two paths that this client has set.       *)
THEOREM AnsweredWithItsOwnPaths == Spec => []AnsweredAsAsked
<1>1. IInv => AnsweredAsAsked
  BY DEF IInv, PathsPassed
<1>2. QED
  BY <1>1, Invariance, PTL

(* init.rk30board.rc:234-240: swapon_all runs at most once in a boot, and  *)
(* only when zram was enabled before init took the boot's own trigger from *)
(* its queue, however often the setting is changed and whenever that is.   *)
THEOREM ZramIsSwappedOnce == Spec => []ZramOncePerBoot
<1>1. IInv => ZramOncePerBoot
  BY DEF IInv, OneBoot
<1>2. QED
  BY <1>1, Invariance, PTL
=============================================================================
