---------------------------- MODULE InitTriggers ----------------------------
(***************************************************************************)
(* Property triggers of rootdir/init.rk30board.rc that act on one another: *)
(* the zram trigger of the boot, the five that start or stop adbd, and the *)
(* flash_img service with its script.  Init itself is external: every      *)
(* setprop, of the same value too, queues a change with the value that was *)
(* set; init takes one from the queue when it has run all commands of the  *)
(* last; `start' does nothing to a service that runs, `restart' starts one *)
(* that is stopped, and of a `restart' and a `stop' the later counts.      *)
(***************************************************************************)
EXTENDS Naturals, Sequences
CONSTANTS
    Path,           \* files and block devices that a client copies
    Bounds          \* bounds: how many requests to flash_img come together with
                    \* how many changes of the zram and the adb settings

ASSUME BoundAssumption == Bounds \subseteq Nat \X Nat

BootCompleted == "sys.boot_completed"
ZramEnabled == "persist.sys.zram_enabled"
InternetAdb == "persist.internet_adb_enable"
AdbEnable == "persist.sys.adb_enable"
SerialNo == "vendor.serialno"
AdbPort == "service.adb.tcp.port"
Success == "flash.success"
VendorSuccess == "vendor.flash.success"
IfPath == "vendor.flash_if_path"
OfPath == "vendor.flash_of_path"
BootTrigger == "sys-boot-completed-set"

Setting == {ZramEnabled, InternetAdb, AdbEnable, SerialNo}
Watched == Setting \cup {BootCompleted, Success, VendorSuccess}
Name == Watched \cup {AdbPort, IfPath, OfPath}
Unset == ""
Any == "*"

VARIABLES
    prop,           \* the system properties
    events,         \* init's event queue
    commands,       \* what is left of the actions the last event triggered
    script,         \* the flash_img service: "stopped" or the line it is at
    if, of,         \* flash_img.sh's variables
    adbd,           \* the port adbd listens on, "starting" or "stopped"
    client,         \* the client of flash_img
    request,        \* history: the paths of its request
    copied,         \* history: what dd was called with last
    requests,       \* number of requests
    settings,       \* number of changes of a setting
    swapped,        \* how often swapon_all ran
    inTime,         \* history: zram was enabled when the boot completed
    halted,         \* history: the last setting that is about adbd disables it
    lost            \* history: a request was not started

propVars == <<prop, events>>
scriptVars == <<script, if, of, copied>>
clientVars == <<client, request, requests>>
historyVars == <<swapped, inTime, halted, lost>>
vars == <<propVars, commands, scriptVars, adbd, clientVars, settings, historyVars>>

NoPaths == [if |-> Unset, of |-> Unset]

Init ==
    /\ prop \in { [n \in Name |-> CASE n = ZramEnabled -> z
                                    [] n = InternetAdb -> "0"
                                    [] n = AdbPort -> "0"
                                    [] OTHER -> Unset] : z \in {"0", "1"} }
    /\ events = <<>> /\ commands = <<>>
    /\ script = "stopped" /\ if = Unset /\ of = Unset
    /\ adbd = "0"
    /\ client = "idle" /\ request = NoPaths /\ requests = 0
    /\ copied = NoPaths
    /\ settings = 0
    /\ swapped = 0 /\ inTime = FALSE /\ halted = FALSE /\ lost = FALSE

-----------------------------------------------------------------------------
(* The triggers: `on <event> && property:<name>=<value>', and commands.    *)

Change(n, v) == [event |-> n, value |-> v]
Setprop(n, v) == [command |-> "setprop", name |-> n, value |-> v]
Do(c, what) == [command |-> c, name |-> what]

BootRule ==
    [event |-> BootCompleted, value |-> "1", when |-> {},
     commands |-> << Do("start", "gpsd"), Do("trigger", BootTrigger),
                     Setprop("vendor.boot_completed", "1") >>]

\* Seeded fault: both are properties, and a change of either triggers.
ZramRuleOfProperties ==
    [event |-> ZramEnabled, value |-> "1", when |-> {<<BootCompleted, "1">>},
     commands |-> << Do("swapon_all", "fstab") >>]

ZramRule ==
    [event |-> BootTrigger, value |-> Unset, when |-> {<<ZramEnabled, "1">>},
     commands |-> << Do("swapon_all", "fstab") >>]

\* Seeded fault: adbd is restarted before it has its port.
AdbOffRuleLate ==
    [event |-> InternetAdb, value |-> "0", when |-> {},
     commands |-> << Do("restart", "adbd"), Setprop(AdbPort, "0") >>]

\* Seeded fault: adbd's own name for "no port".
AdbOffRuleMinus ==
    [event |-> InternetAdb, value |-> "0", when |-> {},
     commands |-> << Setprop(AdbPort, "-1"), Do("restart", "adbd") >>]

AdbOnRule ==
    [event |-> InternetAdb, value |-> "1", when |-> {},
     commands |-> << Setprop(AdbPort, "5555"), Do("restart", "adbd") >>]

AdbOffRule ==
    [event |-> InternetAdb, value |-> "0", when |-> {},
     commands |-> << Setprop(AdbPort, "0"), Do("restart", "adbd") >>]

\* It sets ro.serialno too, which no rule watches.
SerialRule ==
    [event |-> SerialNo, value |-> Any, when |-> {},
     commands |-> << Do("restart", "adbd") >>]

AdbEnableRule ==
    [event |-> AdbEnable, value |-> "1", when |-> {},
     commands |-> << Do("restart", "adbd") >>]

AdbDisableRule ==
    [event |-> AdbEnable, value |-> "0", when |-> {},
     commands |-> << Do("stop", "adbd") >>]

\* Seeded fault: the answer is given when the script has been started.
FlashRuleAnswers ==
    [event |-> VendorSuccess, value |-> "2", when |-> {},
     commands |-> << Do("start", "flash_img"), Setprop(VendorSuccess, "1") >>]

FlashRule ==
    [event |-> VendorSuccess, value |-> "2", when |-> {},
     commands |-> << Do("start", "flash_img") >>]

FlashedRule ==
    [event |-> Success, value |-> "1", when |-> {},
     commands |-> << Setprop(VendorSuccess, "1") >>]

\* External: the commands of the actions that an event triggers, in the order
\* of the file.
Triggered(e) ==
    LET Fires(r) ==
            /\ r.event = e.event /\ r.value \in {e.value, Any}
            /\ \A w \in r.when : prop[w[1]] = w[2]
        Of(r) == IF Fires(r) THEN r.commands ELSE <<>>
    IN  Of(BootRule) \o Of(ZramRule) \o Of(AdbOnRule) \o Of(AdbOffRule)
            \o Of(SerialRule) \o Of(AdbEnableRule) \o Of(AdbDisableRule)
            \o Of(FlashRule) \o Of(FlashedRule)

\* External: the property service.  No rule watches the other names.
SetProp(n, v) ==
    /\ prop' = [m \in Name |-> IF m = n THEN v ELSE prop[m]]
    /\ events' = IF n \in Watched THEN Append(events, Change(n, v)) ELSE events

-----------------------------------------------------------------------------
(* Init.                                                                   *)

NextEvent ==
    /\ commands = <<>> /\ events # <<>>
    /\ commands' = Triggered(Head(events))
    /\ events' = Tail(events)
    /\ UNCHANGED <<prop, scriptVars, adbd, clientVars, settings, historyVars>>

Command(c) ==
    commands # <<>> /\ Head(commands).command = c /\ commands' = Tail(commands)

RunSetprop ==
    /\ Command("setprop")
    /\ SetProp(Head(commands).name, Head(commands).value)
    /\ UNCHANGED <<scriptVars, adbd, clientVars, settings, historyVars>>

RunTrigger ==
    /\ Command("trigger")
    /\ events' = Append(events, Change(Head(commands).name, Unset))
    /\ UNCHANGED <<prop, scriptVars, adbd, clientVars, settings, historyVars>>

RunSwapon ==
    /\ Command("swapon_all")
    /\ swapped' = swapped + 1
    /\ UNCHANGED <<propVars, scriptVars, adbd, clientVars, settings, inTime, halted, lost>>

RunRestart ==
    /\ Command("restart")
    /\ adbd' = "starting"
    /\ UNCHANGED <<propVars, scriptVars, clientVars, settings, historyVars>>

RunStop ==
    /\ Command("stop")
    /\ adbd' = "stopped"
    /\ UNCHANGED <<propVars, scriptVars, clientVars, settings, historyVars>>

RunStart ==
    /\ Command("start")
    /\ LET flash == Head(commands).name = "flash_img" IN
       /\ script' = IF flash /\ script = "stopped" THEN "getprop if" ELSE script
       /\ lost' = (lost \/ (flash /\ script # "stopped"))
    /\ UNCHANGED <<propVars, if, of, copied, adbd, clientVars, settings>>
    /\ UNCHANGED <<swapped, inTime, halted>>

InitStep ==
    \/ NextEvent
    \/ RunSetprop \/ RunTrigger \/ RunSwapon \/ RunRestart \/ RunStop \/ RunStart

\* External: adbd reads its port when it starts.
AdbdStarts ==
    /\ adbd = "starting"
    /\ adbd' = prop[AdbPort]
    /\ UNCHANGED <<propVars, commands, scriptVars, clientVars, settings, historyVars>>

-----------------------------------------------------------------------------
(* flash_img.sh.                                                           *)

At(line, next) ==
    /\ script = line /\ script' = next
    /\ UNCHANGED <<commands, adbd, clientVars, settings, historyVars>>

ScriptGetIf ==
    At("getprop if", "getprop of") /\ if' = prop[IfPath] /\ UNCHANGED <<propVars, of, copied>>

ScriptGetOf ==
    At("getprop of", "dd") /\ of' = prop[OfPath] /\ UNCHANGED <<propVars, if, copied>>

\* Seeded fault: the script ends when dd fails, as under `set -e'.
ScriptCopyOrExit ==
    /\ \/ At("dd", "setprop")
       \/ At("dd", "exit")
    /\ copied' = [if |-> if, of |-> of]
    /\ UNCHANGED <<propVars, if, of>>

\* dd may fail, and the script goes on.
ScriptCopy ==
    At("dd", "setprop") /\ copied' = [if |-> if, of |-> of] /\ UNCHANGED <<propVars, if, of>>

ScriptReport ==
    At("setprop", "exit") /\ SetProp(Success, "1") /\ UNCHANGED <<if, of, copied>>

\* The shell ends and init reaps it.
ScriptEnds ==
    At("exit", "stopped") /\ UNCHANGED <<propVars, if, of, copied>>

Script == ScriptGetIf \/ ScriptGetOf \/ ScriptCopy \/ ScriptReport \/ ScriptEnds

-----------------------------------------------------------------------------
(* The environment.  The client of flash_img is external: it sets the      *)
(* paths, asks with 2 and waits for 1, as the two triggers have it, and    *)
(* makes no other request meanwhile.                                       *)

Within(r, s) == \E b \in Bounds : r <= b[1] /\ s <= b[2]

ClientAsks(from, to) ==
    /\ client = "idle" /\ Within(requests + 1, settings)
    /\ from # to
    /\ client' = "if" /\ requests' = requests + 1
    /\ request' = [if |-> from, of |-> to]
    /\ UNCHANGED <<propVars, commands, scriptVars, adbd, settings, historyVars>>

ClientSets(at, next, n, v) ==
    /\ client = at /\ client' = next
    /\ SetProp(n, v)
    /\ UNCHANGED <<commands, scriptVars, adbd, request, requests, settings, historyVars>>

ClientSteps ==
    \/ ClientSets("if", "of", IfPath, request.if)
    \/ ClientSets("of", "ask", OfPath, request.of)
    \/ ClientSets("ask", "waiting", VendorSuccess, "2")

ClientSees ==
    /\ client = "waiting" /\ prop[VendorSuccess] = "1"
    /\ client' = "idle"
    /\ UNCHANGED <<propVars, commands, scriptVars, adbd, request, requests, settings, historyVars>>

\* The boot is being completed: init has not come to the zram trigger yet.
BootPending ==
    \/ \E i \in 1 .. Len(events) : events[i].event \in {BootCompleted, BootTrigger}
    \/ \E i \in 1 .. Len(commands) : commands[i].command = "trigger"

\* The framework completes the boot, once.
BootCompletes ==
    /\ prop[BootCompleted] = Unset
    /\ SetProp(BootCompleted, "1")
    /\ inTime' = (prop[ZramEnabled] = "1")
    /\ UNCHANGED <<commands, scriptVars, adbd, clientVars, settings, swapped, halted, lost>>

\* The values that the rules tell apart.
ValuesOf(n) == IF n = SerialNo THEN {"1"} ELSE {"0", "1"}

\* A user, or another service, changes a setting, to what it is already too.
UserSets(n, v) ==
    /\ Within(requests, settings + 1)
    /\ settings' = settings + 1
    /\ SetProp(n, v)
    /\ inTime' = (inTime \/ (n = ZramEnabled /\ v = "1" /\ BootPending))
    /\ halted' = IF n = ZramEnabled THEN halted ELSE n = AdbEnable /\ v = "0"
    /\ UNCHANGED <<commands, scriptVars, adbd, clientVars, swapped, lost>>

Next ==
    \/ InitStep
    \/ AdbdStarts
    \/ Script
    \/ \E from, to \in Path : ClientAsks(from, to)
    \/ ClientSteps
    \/ ClientSees
    \/ BootCompletes
    \/ \E n \in Setting : \E v \in ValuesOf(n) : UserSets(n, v)

\* Init, the services and a client in the middle of a request go on; nobody has
\* to ask, to complete the boot or to change a setting.
Fairness ==
    /\ WF_vars(InitStep) /\ WF_vars(AdbdStarts) /\ WF_vars(Script)
    /\ WF_vars(ClientSteps) /\ WF_vars(ClientSees)

Spec == Init /\ [][Next]_vars /\ Fairness
-----------------------------------------------------------------------------
(* Properties.                                                             *)

TypeOK ==
    /\ prop \in [Name -> Path \cup {Unset, "0", "1", "2", "5555"}]
    /\ \A i \in 1 .. Len(events) : events[i].event \in Watched \cup {BootTrigger}
    /\ \A i \in 1 .. Len(commands) :
           commands[i].command \in {"setprop", "trigger", "swapon_all", "restart", "stop", "start"}
    /\ script \in {"stopped", "getprop if", "getprop of", "dd", "setprop", "exit"}
    /\ adbd \in {"starting", "stopped", "0", "5555"}
    /\ halted \in BOOLEAN
    /\ client \in {"idle", "if", "of", "ask", "waiting"}
    /\ request \in [if : Path \cup {Unset}, of : Path \cup {Unset}]
    /\ copied \in [if : Path \cup {Unset}, of : Path \cup {Unset}]

\* flash_img.sh:3-8 and init.rk30board.rc:345-349: through five properties, two
\* triggers and a service, the 1 a client sees says that dd was run from and to
\* the paths of this client's request, never those of the one before or a mixture.
AnsweredAsAsked ==
    client = "waiting" /\ prop[VendorSuccess] = "1" => copied = request

\* init.rk30board.rc:234-237: "We want one opportunity per boot to enable zram
\* [...] If persist.sys.zram_enabled becomes true after boot, we don't want to
\* run swapon_all at that time."
ZramOncePerBoot == swapped <= 1 /\ (swapped = 1 => inTime)

\* Every request is answered, whether or not dd fails, unless the script of the
\* request before has reported its success but has not ended when init comes to
\* start it: that request is lost.
Answered == (client = "waiting") ~> (client = "idle" \/ lost)

\* init.rk30board.rc:242-249, :257-259, :322-326: five triggers start or stop
\* adbd and two of them set its port first.  However the settings are changed
\* while init is busy, adbd ends up stopped if the last of them was to disable
\* it, and else on the port that internet adb was last set to.
AdbSettles ==
    <>[](adbd = IF halted THEN "stopped"
                ELSE IF prop[InternetAdb] = "1" THEN "5555" ELSE "0")
=============================================================================
