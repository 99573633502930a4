-------------------------------- MODULE Fleet --------------------------------
(***************************************************************************)
(* The monitors of remote hosts (levshell-modules/src/remote): the hosts   *)
(* named in a directory of files (host.rs), and three modules that each    *)
(* ask those of their role one after the other over ssh (runner.rs): is it *)
(* reachable (ssh_monitor.rs), what are its GPUs doing (gpu.rs), which     *)
(* jobs does it run (jobs.rs).  A pass awaits every answer, so the hosts   *)
(* may change between two questions of one pass.                           *)
(***************************************************************************)
EXTENDS Naturals, SequencesExt

CONSTANTS
  Directories,  \* the host directories considered: sequences of files, in path order; a file
                \* is Malformed or a sequence of [name, roles]
  Malformed,
  Unknown,
  MaxAsked,     \* bound on the "reconnect" actions that wait
  MaxTurns      \* bound on the changes of the hosts and on the passes

Monitor == {"ssh", "gpu", "jobs"}

VARIABLES
  hosts,         \* HostRegistry
  mood,          \* per host: what it answers (the world)
  answers,       \* per monitor: the answers of the pass under way, or Unknown
  board,         \* per monitor: the last state published, or Unknown
  lastReachable, \* SshMonitorModule
  heard,         \* per host: the last SshHostStatus on the bus
  fleetLevel,    \* its EscalationTracker
  asked,         \* "reconnect" actions in its channel
  started,       \* monitors whose start() is over: their loop runs, and cuts a long pass short
  outages,       \* history: whole passes in a row that found a host down
  cutShort,      \* history: the last pass over ssh was cut short
  boardLost,     \* history: the last update of its widget found the queue full
  turns

fleetVars ==
  <<hosts, mood, answers, board, lastReachable, heard, fleetLevel, asked, started, outages, cutShort, boardLost, turns>>

Host == UNION {UNION {ToSet(f) : f \in ToSet(d) \ {Malformed}} : d \in Directories}
Names == {h.name : h \in Host}
Answer == [name : Names, status : {"healthy", "degraded", "busy", "running", "idle", "offline"}]

ASSUME FleetAssumption ==
  /\ \A d \in Directories : d \in Seq(Seq(Host) \cup {Malformed})
  /\ Unknown \notin Seq(Answer)

\* HostRegistry::load_from_dir(): a malformed file is skipped; a name given twice refuses the
\* directory, and the daemon goes on without hosts.
LoadFromDir(d) ==
  LET all == FlattenSeq([i \in DOMAIN d |-> IF d[i] = Malformed THEN <<>> ELSE d[i]])
  IN  IF \E i, j \in DOMAIN all : i # j /\ all[i].name = all[j].name THEN <<>> ELSE all

\* filter_by_role()
HostsOf(k) == FlattenSeq([i \in DOMAIN hosts |-> IF k \in hosts[i].roles THEN <<hosts[i]>> ELSE <<>>])

FleetInit ==
  /\ hosts \in {LoadFromDir(d) : d \in Directories}
  /\ mood = [n \in Names |-> "fine"]
  /\ answers = [k \in Monitor |-> Unknown] /\ board = [k \in Monitor |-> Unknown]
  /\ lastReachable = [n \in Names |-> Unknown] /\ heard = [n \in Names |-> Unknown]
  /\ fleetLevel = 0 /\ asked = 0 /\ started = {} /\ outages = 0 /\ cutShort = FALSE /\ boardLost = FALSE /\ turns = 0

Turn == turns < MaxTurns /\ turns' = turns + 1

\* probe_host() of each monitor.  "busy": slow for ssh, at work for the others; "odd": the command
\* succeeds and says nothing that can be read; "fails": it times out, cannot be run or fails.
ProbeGpu(m) == CASE m = "fine" -> "healthy" [] m = "busy" -> "busy" [] OTHER -> "offline"
ProbeJobs(m) == CASE m = "busy" -> "running" [] m = "fails" -> "offline" [] OTHER -> "idle"
ProbeSsh(m) == CASE m = "busy" -> "degraded" [] m = "fails" -> "offline" [] OTHER -> "healthy"
ProbeHost(k, m) == CASE k = "gpu" -> ProbeGpu(m) [] k = "jobs" -> ProbeJobs(m) [] k = "ssh" -> ProbeSsh(m)

\* tick(), start(): nothing is done, or published, for no hosts.
BeginPass(k) ==
  /\ Turn
  /\ answers[k] = Unknown /\ HostsOf(k) # <<>>
  /\ answers' = [answers EXCEPT ![k] = <<>>]
  /\ UNCHANGED <<hosts, mood, board, lastReachable, heard, fleetLevel, asked, started, outages, cutShort, boardLost>>

\* on_event("reconnect"): one host is named, all are asked.
Reconnect ==
  /\ asked > 0 /\ asked' = asked - 1
  /\ answers["ssh"] = Unknown /\ ("ssh" \in started \/ HostsOf("ssh") = <<>>)
  /\ answers' = IF HostsOf("ssh") = <<>> THEN answers ELSE [answers EXCEPT !["ssh"] = <<>>]
  /\ UNCHANGED <<hosts, mood, board, lastReachable, heard, fleetLevel, started, outages, cutShort, boardLost, turns>>

\* Mutant: a host that was not known before is no transition.
HostAnswersQuietly(n, up) ==
  /\ lastReachable' = [lastReachable EXCEPT ![n] = up]
  /\ heard' = IF lastReachable[n] \in {up, Unknown} THEN heard ELSE [heard EXCEPT ![n] = up]

\* run_once(): the transition is published as the answer comes, before the pass is over.
HostAnswers(n, up) ==
  /\ lastReachable' = [lastReachable EXCEPT ![n] = up]
  /\ heard' = IF lastReachable[n] = up THEN heard ELSE [heard EXCEPT ![n] = up]

Probe(k) ==
  /\ answers[k] # Unknown /\ Len(answers[k]) < Len(HostsOf(k))
  /\ LET n == HostsOf(k)[Len(answers[k]) + 1].name
         status == ProbeHost(k, mood[n])
     IN  /\ answers' = [answers EXCEPT ![k] = Append(@, [name |-> n, status |-> status])]
         /\ IF k = "ssh" THEN HostAnswers(n, status # "offline") ELSE UNCHANGED <<lastReachable, heard>>
  /\ UNCHANGED <<hosts, mood, board, fleetLevel, asked, started, outages, cutShort, boardLost, turns>>

\* run_module_loop(): tick() and on_event() are dropped while they wait for an answer once their
\* time is up; start() may take as long as it likes.  What was published before stays published.
PassCut(k) ==
  /\ k \in started /\ answers[k] # Unknown /\ Len(answers[k]) < Len(HostsOf(k))
  /\ answers' = [answers EXCEPT ![k] = Unknown]
  /\ cutShort' = (cutShort \/ k = "ssh")
  /\ UNCHANGED <<hosts, mood, board, lastReachable, heard, fleetLevel, asked, started, outages, boardLost, turns>>

Down(snapshot) == {i \in DOMAIN snapshot : snapshot[i].status = "offline"}

\* ssh_raw_escalation()
FleetRaw(snapshot) ==
  IF Down(snapshot) = {} THEN 0 ELSE IF Down(snapshot) = DOMAIN snapshot THEN 3 ELSE 2

\* publish_widget(): the level is stepped whether the update finds room in the shell's queue or not.
PublishFleet(k) ==
  /\ answers[k] # Unknown /\ Len(answers[k]) = Len(HostsOf(k))
  /\ answers' = [answers EXCEPT ![k] = Unknown] /\ started' = started \cup {k}
  /\ \E lost \in BOOLEAN :
       /\ board' = IF lost THEN board
                   ELSE [board EXCEPT ![k] =
                     [rows |-> answers[k], status |-> IF Down(answers[k]) = {} THEN "normal" ELSE "stale"]]
       /\ boardLost' = IF k = "ssh" THEN lost ELSE boardLost
  /\ IF k = "ssh"
     THEN LET raw == FleetRaw(answers[k])
          IN  /\ fleetLevel' = IF raw > fleetLevel THEN fleetLevel + 1 ELSE raw
              /\ outages' = IF raw = 0 THEN 0 ELSE outages + 1
              /\ cutShort' = FALSE
     ELSE UNCHANGED <<fleetLevel, outages, cutShort>>
  /\ UNCHANGED <<hosts, mood, lastReachable, heard, asked, turns>>

HostChanges ==
  /\ Turn
  /\ \E n \in Names, m \in {"fine", "busy", "odd", "fails"} : m # mood[n] /\ mood' = [mood EXCEPT ![n] = m]
  /\ UNCHANGED <<hosts, answers, board, lastReachable, heard, fleetLevel, asked, started, outages, cutShort, boardLost>>

UserAsks ==
  /\ Turn
  /\ asked < MaxAsked /\ asked' = asked + 1
  /\ UNCHANGED <<hosts, mood, answers, board, lastReachable, heard, fleetLevel, started, outages, cutShort, boardLost>>

FleetNext ==
  \/ \E k \in Monitor : BeginPass(k) \/ Probe(k) \/ PassCut(k) \/ PublishFleet(k)
  \/ Reconnect \/ HostChanges \/ UserAsks

FleetSpec == FleetInit /\ [][FleetNext]_fleetVars

-----------------------------------------------------------------------------
(* Property *)

\* Between two passes the bus and the widget tell the same story of every host, from its first
\* answer on, whatever the hosts did between the questions; unless the last pass was cut short,
\* or its widget found the queue full: the next whole pass that finds room makes up for both.
\* And the fleet is Critical only after three whole passes in a row found a host down, the last of
\* them all.
FleetAgrees ==
  /\ answers["ssh"] = Unknown /\ board["ssh"] # Unknown /\ ~cutShort /\ ~boardLost =>
       \A i \in DOMAIN board["ssh"].rows :
         heard[board["ssh"].rows[i].name] = (board["ssh"].rows[i].status # "offline")
  /\ fleetLevel = 3 =>
       /\ outages >= 3
       /\ ~boardLost => Down(board["ssh"].rows) = DOMAIN board["ssh"].rows
=============================================================================
