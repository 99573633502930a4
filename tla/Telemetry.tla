------------------------------ MODULE Telemetry ------------------------------
(***************************************************************************)
(* What the machine reports of itself (levshell-modules/src/telemetry):    *)
(* the battery (battery.rs) sampled on a tick and on the hints of the      *)
(* UPower watcher (upower.rs), the power profiles of a D-Bus service       *)
(* (power_profiles.rs), the counters of the kernel that CPU and network    *)
(* (cpu.rs, network.rs) turn into rates, and memory and disks (memory.rs,  *)
(* disk.rs).  The modules share nothing: each group has a next-state       *)
(* relation of its own.  A rate stands for the difference it is made from. *)
(***************************************************************************)
EXTENDS Naturals, SequencesExt, FiniteSetsExt

CONSTANTS
  Mount,        \* disk.toml: mounts
  Percent,      \* the readings of memory, disks and battery
  Offered,      \* what power-profiles-daemon offers
  Foreign,      \* a profile that is not offered
  Iface,        \* network interfaces
  Unread,       \* no value yet, or one that cannot be read
  LinkSlots,    \* of the queue to the shell
  MaxReadings,  \* bound on the steps of the world
  MaxCount      \* bound on the kernel's counters

ASSUME TelemetryAssumption == LinkSlots \in Nat /\ Unread \notin Nat

VARIABLES
  draining,     \* the battery discharges (the world)
  charge,       \* its capacity (the world)
  lastOnBattery, batteryLevel, \* BatteryModule
  watcher,      \* the UPower loop: "reading", "subscribing", "listening", "over"
  signalled,    \* PropertiesChanged signals it has not taken
  kicks,        \* AcLineChanged events in the battery module's channel
  link,         \* messages on the way to the shell
  shellPower, shellProfile, \* Theme.onBattery and the profile the shell shows
  current,      \* ActiveProfile of the service (the world)
  lastProfile,  \* PowerProfilesModule: last.active
  counted,      \* per counter: the kernel's value, or Unread (the world)
  lastSample,   \* per counter: the value the module read last
  probing,      \* NetworkModule::tick waits for its probe
  probeDue,     \* next_probe has come
  used,         \* memory and the mounts, in percent or Unread (the world)
  loadLevel,    \* EscalationTracker of memory and of the disks
  sampled,      \* history: the value was read since it changed last
  linkLost,     \* history: a message met a full queue
  grown,        \* history: per counter, the growth a rate has to report
  reported,     \* history: per counter, the growth reported
  lapsed,       \* history: the counters that began again with growth not read
  readings

powerVars == <<draining, charge, lastOnBattery, batteryLevel, watcher, signalled, kicks, shellPower>>
profileVars == <<current, lastProfile, shellProfile>>
counterVars == <<counted, lastSample, probing, probeDue, grown, reported, lapsed>>
loadVars == <<used, loadLevel>>
linkVars == <<link, linkLost>>
telemetryVars == <<powerVars, profileVars, counterVars, loadVars, linkVars, sampled, readings>>

\* order_profiles(): the known ones from the most sparing on, then the others as they come.
Canonical == <<"power-saver", "balanced", "performance">>
Order(names) ==
  LET Named(p) == p \in ToSet(names)
      Other(p) == p \notin ToSet(Canonical)
  IN  SelectSeq(Canonical, Named) \o SelectSeq(names, Other)
Advertised == Order(Offered)

Counter == Iface \cup {"cpu"}

TelemetryInit ==
  /\ draining \in BOOLEAN /\ charge = Max(Percent)
  /\ lastOnBattery = Unread /\ batteryLevel = 0
  /\ watcher = "reading" /\ signalled = 0 /\ kicks = 0
  /\ link = <<>> /\ shellPower = FALSE /\ shellProfile = Unread
  /\ current = Advertised[1] /\ lastProfile = Unread
  /\ counted = [c \in Counter |-> 0] /\ lastSample = [c \in Counter |-> 0]
  /\ probing = FALSE /\ probeDue = TRUE
  /\ used = [m \in Mount \cup {"memory"} |-> Min(Percent)]
  /\ loadLevel = [k \in {"memory", "disk"} |-> 0]
  /\ sampled = FALSE /\ linkLost = FALSE
  /\ grown = [c \in Counter |-> 0] /\ reported = [c \in Counter |-> 0]
  /\ lapsed = {} /\ readings = 0

World == readings < MaxReadings /\ readings' = readings + 1

\* EscalationTracker::step.
Step(level, raw) == IF raw > level THEN level + 1 ELSE raw

\* WidgetPublisher::try_send, for the messages that are not sent every time.
Send(m) ==
  /\ link' = IF Len(link) < LinkSlots THEN Append(link, m) ELSE link
  /\ linkLost' = (linkLost \/ Len(link) = LinkSlots)

-----------------------------------------------------------------------------
(* Battery, and the watcher that hastens it *)

BatteryRaw(p, onBattery) ==
  IF ~onBattery THEN 0
  ELSE IF p < 5 THEN 3 ELSE IF p <= 15 THEN 2 ELSE IF p <= 30 THEN 1 ELSE 0

\* handle_sample(): a change is published on the bus and sent to the shell.
Announce(onBattery) ==
  IF lastOnBattery # onBattery THEN Send(<<"power", onBattery>>) ELSE UNCHANGED linkVars

\* read_battery_state(): on battery is to be discharging, not merely not to charge.
BatteryState == [percent |-> charge, onBattery |-> draining]

HandleSample ==
  /\ Announce(BatteryState.onBattery)
  /\ lastOnBattery' = BatteryState.onBattery
  /\ batteryLevel' = Step(batteryLevel, BatteryRaw(BatteryState.percent, BatteryState.onBattery))
  /\ sampled' = TRUE

\* A tick (the first stands for start()); a read that fails leaves everything.
BatteryTick ==
  /\ HandleSample
  /\ UNCHANGED <<draining, charge, watcher, signalled, kicks, shellPower, profileVars,
                 counterVars, loadVars, readings>>

\* on_event(AcLineChanged): what the hint says is not used, and a failed read is only logged.
BatteryKick ==
  /\ kicks > 0 /\ kicks' = kicks - 1
  /\ HandleSample \/ UNCHANGED <<linkVars, lastOnBattery, batteryLevel, sampled>>
  /\ UNCHANGED <<draining, charge, watcher, signalled, shellPower, profileVars,
                 counterVars, loadVars, readings>>

\* run_loop(): it reads the property, publishes it, and only then subscribes.
WatcherSteps ==
  /\ \/ watcher = "reading" /\ watcher' = "subscribing" /\ kicks' \in {kicks, kicks + 1} /\ kicks < 2
        /\ UNCHANGED signalled
     \/ watcher = "subscribing" /\ watcher' = "listening" /\ UNCHANGED <<kicks, signalled>>
     \/ watcher = "listening" /\ signalled > 0 /\ signalled' = signalled - 1
        /\ kicks < 2 /\ kicks' = kicks + 1 /\ UNCHANGED watcher
     \/ watcher # "over" /\ watcher' = "over" /\ signalled' = 0 /\ UNCHANGED kicks
  /\ UNCHANGED <<draining, charge, lastOnBattery, batteryLevel, shellPower, profileVars,
                 counterVars, loadVars, linkVars, sampled, readings>>

\* The cable or the charge changes; a change is signalled to a watcher that listens.
SupplyChanges ==
  /\ World
  /\ draining' \in BOOLEAN /\ charge' \in Percent /\ <<draining, charge>>' # <<draining, charge>>
  /\ sampled' = FALSE
  /\ signalled' = IF watcher = "listening" /\ draining' # draining THEN signalled + 1 ELSE signalled
  /\ UNCHANGED <<lastOnBattery, batteryLevel, watcher, kicks, shellPower, profileVars,
                 counterVars, loadVars, linkVars>>

ShellHearsPower ==
  /\ link # <<>> /\ Head(link)[1] = "power"
  /\ shellPower' = Head(link)[2] /\ link' = Tail(link)
  /\ UNCHANGED <<draining, charge, lastOnBattery, batteryLevel, watcher, signalled, kicks,
                 profileVars, counterVars, loadVars, linkLost, sampled, readings>>

PowerNext == BatteryTick \/ BatteryKick \/ WatcherSteps \/ SupplyChanges \/ ShellHearsPower

-----------------------------------------------------------------------------
(* Power profiles *)

\* next_profile(): a current profile that is not in the list counts as the first.
NextProfile(p) ==
  LET idx == IF p \in ToSet(Advertised)
             THEN CHOOSE i \in DOMAIN Advertised : Advertised[i] = p ELSE 1
  IN  Advertised[(idx % Len(Advertised)) + 1]

\* refresh(): only a state that differs from the last is published.
Refresh(p) ==
  /\ IF lastProfile # p THEN Send(<<"profile", p>>) ELSE UNCHANGED linkVars
  /\ lastProfile' = p /\ sampled' = TRUE /\ UNCHANGED shellProfile

\* start() and tick(); a read that fails keeps the last state.
ProfileTick ==
  /\ Refresh(current)
  /\ UNCHANGED <<current, powerVars, counterVars, loadVars, readings>>

\* on_event: "set" names a profile, "cycle" goes on from the last one known.  Only what the
\* service is known to offer is asked for, and it may refuse.
ProfileAction ==
  /\ World /\ lastProfile # Unread
  /\ \E p \in {Foreign, NextProfile(lastProfile)} \cup ToSet(Advertised) :
       \/ p # Foreign /\ current' = p /\ (Refresh(p) \/ (sampled' = FALSE /\ UNCHANGED <<lastProfile, shellProfile, linkVars>>))
       \/ UNCHANGED <<current, lastProfile, shellProfile, linkVars, sampled>>
  /\ UNCHANGED <<powerVars, counterVars, loadVars>>

\* Another program, or the firmware, changes the profile.
ProfileChanges ==
  /\ World
  /\ current' \in ToSet(Advertised) \cup {Foreign} /\ current' # current
  /\ sampled' = FALSE
  /\ UNCHANGED <<lastProfile, shellProfile, powerVars, counterVars, loadVars, linkVars>>

ShellHearsProfile ==
  /\ link # <<>> /\ Head(link)[1] = "profile"
  /\ shellProfile' = Head(link)[2] /\ link' = Tail(link)
  /\ UNCHANGED <<current, lastProfile, powerVars, counterVars, loadVars, linkLost, sampled, readings>>

ProfileNext == ProfileTick \/ ProfileAction \/ ProfileChanges \/ ShellHearsProfile

-----------------------------------------------------------------------------
(* Counters: CPU time and network traffic *)

\* saturating_sub
Minus(a, b) == IF a > b THEN a - b ELSE 0

\* What the tick reports: a counter that was not there before counts from 0, one that went back
\* reports nothing, one that is gone is left out.
Delta(c) ==
  IF counted[c] = Unread THEN 0
  ELSE Minus(counted[c], IF lastSample[c] = Unread THEN 0 ELSE lastSample[c])

Report(cs) ==
  /\ reported' = [c \in Counter |-> IF c \in cs THEN reported[c] + Delta(c) ELSE reported[c]]
  /\ lastSample' = [c \in Counter |-> IF c \in cs THEN counted[c] ELSE lastSample[c]]

CpuTick ==
  /\ Report({"cpu"})
  /\ UNCHANGED <<counted, probing, probeDue, grown, lapsed, powerVars, profileVars, loadVars, linkVars, sampled, readings>>

\* The sample is stored before the probe is awaited.
NetworkTick ==
  /\ ~probing
  /\ Report(Iface)
  /\ probing' = probeDue
  /\ UNCHANGED <<counted, probeDue, grown, lapsed, powerVars, profileVars, loadVars, linkVars, sampled, readings>>

\* Mutant: the sample is stored when the probe has answered, as it is then.
ProbeEndsLate ==
  /\ probing /\ probing' = FALSE /\ probeDue' = FALSE
  /\ lastSample' = [c \in Counter |-> IF c \in Iface THEN counted[c] ELSE lastSample[c]]
  /\ UNCHANGED <<counted, reported, grown, lapsed, powerVars, profileVars, loadVars, linkVars, sampled, readings>>

\* refresh_quality(): the next probe is counted from the end of this one.
ProbeEnds ==
  /\ probing /\ probing' = FALSE /\ probeDue' = FALSE
  /\ UNCHANGED <<counted, lastSample, reported, grown, lapsed, powerVars, profileVars, loadVars, linkVars, sampled, readings>>

\* Time passes: a counter grows, an interface goes, one comes that counts from 0 (it may be
\* back before anyone saw it gone); a probe falls due.
CountersMove ==
  /\ World
  /\ \E c \in Counter :
       \/ /\ counted[c] # Unread /\ counted[c] < MaxCount
          /\ counted' = [counted EXCEPT ![c] = @ + 1]
          /\ grown' = [grown EXCEPT ![c] = @ + 1] /\ UNCHANGED lapsed
       \/ /\ c \in Iface /\ counted[c] # Unread
          /\ counted' = [counted EXCEPT ![c] = Unread]
          /\ lapsed' = IF Delta(c) > 0 THEN lapsed \cup {c} ELSE lapsed
          /\ UNCHANGED grown
       \/ /\ counted[c] = Unread
          /\ counted' = [counted EXCEPT ![c] = 0]
          /\ lapsed' = IF lastSample[c] # Unread THEN lapsed \cup {c} ELSE lapsed
          /\ UNCHANGED grown
  /\ probeDue' \in {probeDue, TRUE}
  /\ UNCHANGED <<lastSample, probing, reported, powerVars, profileVars, loadVars, linkVars, sampled>>

CounterNext == CpuTick \/ NetworkTick \/ ProbeEnds \/ CountersMove

-----------------------------------------------------------------------------
(* Memory and disks *)

MemoryRaw(p) == IF p >= 95 THEN 3 ELSE IF p >= 85 THEN 2 ELSE IF p >= 60 THEN 1 ELSE 0
DiskRaw(p) == IF p >= 97 THEN 3 ELSE IF p >= 92 THEN 2 ELSE IF p >= 85 THEN 1 ELSE 0

\* DiskModule::sample(): what cannot be read is left out, the fullest mount leads.
Readable == {used[m] : m \in {n \in Mount : used[n] # Unread}}

MemoryTick ==
  /\ loadLevel' = [loadLevel EXCEPT !["memory"] = Step(@, MemoryRaw(used["memory"]))]
  /\ UNCHANGED <<used, powerVars, profileVars, counterVars, linkVars, sampled, readings>>

\* With no mount to read there is nothing to fear.
DiskTick ==
  /\ loadLevel' = [loadLevel EXCEPT !["disk"] =
                     Step(@, IF Readable = {} THEN 0 ELSE DiskRaw(Max(Readable)))]
  /\ UNCHANGED <<used, powerVars, profileVars, counterVars, linkVars, sampled, readings>>

LoadChanges ==
  /\ World
  /\ \E m \in DOMAIN used, p \in Percent \cup {Unread} :
       /\ m = "memory" => p # Unread
       /\ p # used[m] /\ used' = [used EXCEPT ![m] = p]
  /\ UNCHANGED <<loadLevel, powerVars, profileVars, counterVars, linkVars, sampled>>

LoadNext == MemoryTick \/ DiskTick \/ LoadChanges

\* One group of modules at a time: they share the queue to the shell, and nothing else.
PowerSpec == TelemetryInit /\ [][PowerNext]_telemetryVars
ProfileSpec == TelemetryInit /\ [][ProfileNext]_telemetryVars
CounterSpec == TelemetryInit /\ [][CounterNext]_telemetryVars
LoadSpec == TelemetryInit /\ [][LoadNext]_telemetryVars
TelemetrySpec == PowerSpec \/ ProfileSpec \/ CounterSpec \/ LoadSpec

-----------------------------------------------------------------------------
(* Properties *)

\* Once the supply or the service has been read since it changed, nothing is on the way and
\* nothing was lost, the shell shows what is the case: that only changes are sent hides none.
ShellKnowsPower ==
  sampled /\ link = <<>> /\ ~linkLost =>
    /\ lastOnBattery # Unread => shellPower = draining
    /\ lastProfile # Unread => shellProfile = current

\* The rates add up to what the counters grew by: no traffic is counted twice, and none falls
\* between two samples unless its counter began again, whatever happens while a probe is awaited.
TrafficAddsUp ==
  \A c \in Counter :
    /\ reported[c] + Delta(c) <= grown[c]
    /\ c \notin lapsed => reported[c] + Delta(c) = grown[c]

\* What the shell knows of the machine is what was read, and what was read is all there was.
TelemetryTold == ShellKnowsPower /\ TrafficAddsUp
=============================================================================
