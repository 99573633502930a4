# levshell in TLA+

levshell is a context-aware desktop bar. A Rust daemon (`crates/levshell-daemon`)
runs some thirty *modules* on an in-process *event bus*, keeps notes, references,
flashcards, tasks, events and experiments in one SQLite store that *sync adapters*
fill from outside tools, decides with a *context engine* which widget is how
prominent, and pushes all of it over a Unix socket to one QML *shell*. A CLI
(`levshell-ctl`) sends single requests to the same socket.

This directory models the parts of the daemon whose correctness is a matter of
order, time, failure and concurrency: the bus, the module runner, the connection
and the daemon's life cycle; the sync engine, every adapter and the store they
fill; the context engine with its debounce and the focus mode that drives it; the
settings and themes; the project registry; and the modules that watch, remind,
answer and search for the user, and follow the compositor. Every definition is translated from the Rust (or
QML) source; `PROJECT.json` gives the file and lines it stands for, lists the
hazards the properties are aimed at, and names a mutation of the code for every
property.

Run `tlc -config X.cfg M` and `tlapm M.tla` in this directory.

Paths below are relative to `src/crates/`.

## 1. Inventory

### Event bus: `levshell-core/src/bus.rs`

*State*: a vector of subscribers (name, set of event kinds, sending half of a
bounded channel, drop counter) behind one mutex. *Operations*: `subscribe`,
`publish`, `stats`; the receivers are read and dropped by their owners.
*Interaction*: every module, the sync engine and the daemon publish; modules
subscribe through the runner. *Hard*: publishers on several threads, receivers
that lag or vanish in the middle of a pass. *Correct when*: a subscriber sees the
matching events in publication order and once, losses are counted and hit only
the one that lags, a dropped receiver's entry goes away.

### Module runner: `levshell-core/src/{runner,module}.rs`

*State*: a vector of handles (name, health, task, stop sender); inside each task
a timer, an optional receiver and the module. *Operations*: `register` (await
`start`, subscribe, spawn), the loop's biased select over stop, tick and event,
handlers under a timeout, `shutdown` in two passes. *Hard*: handlers that hang or
panic, ticks that take longer than their period, stops that hang, events
published while a module starts. *Correct when*: a stop is answered within one
handler, late ticks do not bunch, delivered events are handled, nothing outlives `shutdown`, one module cannot hold up another.

### IPC and connection: `levshell-ipc/src/*.rs`

*State*: the socket file, per connection a framing buffer (newline-delimited
JSON, bounded frame), the shell's outbound bounded queue. *Operations*: bind
(replaces a socket file that is there), handshake (Hello, version check, role),
`WidgetPublisher` (`try_send` into the queue), the writer task. *Hard*: a peer
that never sends its Hello, a full queue, the socket file of a newer daemon.

### Daemon: `levshell-daemon/src/{lib,main}.rs`

*State*: the accept loop, the single-use module factory, the settings read at
boot, reader and writer tasks, the shared services. *Operations*: accept, admit a
shell (register modules, apply settings), serve a ctl request, shell disconnects,
shut down in order. *Hard*: the handshake is read inside the accept loop,
settings may change before the shell connects, shutdown races with all of it.

### Context engine: `levshell-context/src/*.rs`, `levshell-modules/src/context_engine.rs`

*State*: the signal context, rules, profiles and the active one, user overrides,
the committed and pending prominence per widget, density and scale, what was last
published. *Operations*: the five-step cascade (`resolve_layout`), `Hysteresis::observe`,
events that fold into signals, profile, density and scale actions, the tick.
*Hard*: delays that restart, forced commits, publishing through a queue that may
be full, layout and prominences that are debounced differently.

### Focus driver: `levshell-modules/src/focus/*.rs`

*State*: a phase per profile with an `auto_trigger` (inactive, activating, active,
deactivating), a mirror of the signals. *Operations*: observe on every event and
tick, publish activate and deactivate requests, follow the reloaded profiles.
*Hard*: the requests travel over the lossy bus to the context engine, whose active
profile manual commands change too; signals flip and profiles vanish in the middle
of a dwell. *Correct when*: an activation nobody asked for by hand is one the
tracker will retract, and every dwell is whole.

### Attention: `levshell-modules/src/{session_timer,notifications,escalation}.rs`, `set_presentation` of `theme.rs`

*State*: phase, planned and elapsed seconds, paused, finished work intervals,
seconds per workspace; a presentation flag in the theme service; a level per
telemetry widget; in notifications, a presentation and a focus flag. *Operations*:
start, pause, resume, stop, skip, the second, a workspace change; setting
presentation mode; one step of a tracker per sample; filtering what arrives.
*Hard*: everything meets in one bounded channel that is read late, `Started` and
`Ended` are separate events, the theme service announces outside its lock.
*Correct when*: each notification meets the quiet that held when it was
published, alerts always pass and are earned, work is booked once, the flags
agree in the end.

### Sync: `levshell-sync/src/engine.rs`, `adapter.rs` and the adapters

*State*: per adapter a task (probe, sync, sleep), one watched battery flag; per
adapter the external source, its configuration and the rows it owns. *Operations*:
probe, sync under a timeout, an interruptible sleep, the battery watcher, shutdown;
an adapter lists the external items and its `sync_metadata`, inserts, updates,
counts conflicts, deletes what is gone. Adapters: Obsidian, AnkiConnect, CalDAV,
Zotero, MLflow, W&B. *Hard*: a timeout or crash between two store calls, local
edits between two store calls, items that cannot be read this time, a server that
fails between a listing and a fetch. *Correct when*: what an undisturbed pass
leaves is the image of its source, what a cancelled one leaves is bounded and
repaired, the user's columns survive.

### Store: `levshell-data/src/*.rs`

*State*: the SQLite tables. *Operations*: one closure per call under one mutex, so
each call is atomic and a sequence of calls is not; a call whose caller was
cancelled still takes effect. Also scaffolding of literature notes, export and
import, the relation graph, full-text search. *Correct when*: constraints hold and
an export can be imported again.

### Settings and appearance: `levshell-config/src/*.rs`, `levshell-modules/src/theme.rs`, parts of `levshell-daemon/src/lib.rs`

*State*: `levshell.toml` and its temporary file, the context engine's dials, the
theme files, the active theme, follow-system and the last scheme reported.
*Operations*: `write_setting` by ctl requests and the shell's reader, the watcher
that applies the file, `set`, `toggle`, `reload_active`, the portal's reports, the
attachment of a shell. *Hard*: writers share one temporary file and hold no lock;
a theme is chosen, loaded, installed and shown in steps of several tasks. *Correct
when*: the file is whole and holds what was confirmed as long as writers do not
meet, and at rest everything shows the active theme and the file's settings, as far
as no queue was full and no command to the desktop failed or was overtaken.

### Project registry: `levshell-projects/src/*.rs`

*State*: project rows in the store, an index in memory, a stopwatch. *Operations*:
load, hot reload, booking of a workspace's time, attaching rows. *Hard*: reload
copies the run-time state under one lock and writes it back under another, while
the workspace watcher books into it. *Correct when*: a project's time is what its
stopwatch measured.

### Modules that notice the user: `levshell-modules/src/{interruption,warmup}`, `anki_review.rs`

*State*: when each workspace was left, when each project was last suggested, the
last activity and the last warmup, which is kept in a file. *Hard*: restarts in
the middle of a firing, a file that was not written. *Correct when*: the user is
told of a return, a review or a new day once.

### Snapshots, rubber duck: `levshell-modules/src/{context_snapshot,rubber_duck}`

A snapshot is the list of the desktop's windows; a restore plans moves and
launches and sends them one by one while Sway goes on changing, and a program it
starts opens its window later. *Correct when* a restore that worked is a fixed
point as soon as the programs it started show. The rubber duck keeps a conversation, has a
task per message that streams the reply, and the shell keeps a copy. *Correct when*
the two copies agree at rest and nobody waits for a reply that will not come.

### Telemetry: `levshell-modules/src/telemetry/*.rs`

Battery, UPower, power profiles, CPU, network, memory, disks: read something,
send what changed, and escalate. *Hard*: counters that begin again, readings that
are awaited, changes recorded as sent although the queue was full.

### Remote monitors: `levshell-modules/src/remote/*.rs`

A directory of hosts and three monitors that ask one host after the other. *Hard*:
the hosts change between two questions of one pass. *Correct when* events, boards
and escalation tell one story.

### Feeds: `arxiv_watch.rs`, `latex_status.rs`, `proc_sniper`, `reference_library.rs`

Seen papers, by their versioned ids, in a capped set and a file; builds told by the
presence of an engine and, when it has gone, by its log; CPU time from two samples of
`/proc`; references with their links. *Hard*: eviction, revised papers, failed writes,
restarts, a scan that dies, reused pids, a store that changes between two reads.

### Ideation, project pulse: `levshell-modules/src/ideation`, `project_pulse.rs`

A tick lists projects, notes and references, and reads tags, links and every
neighbour on its own, before it may choose a nudge; the pulse reads tasks and then
events for its deadlines. *Hard*: what was read is gone or another by the time of the
choice, a read that fails.

### Palette: `levshell-modules/src/palette`, `shell/widgets/CommandPalette.qml`

*State*: the query in the shell's field and in the module, results, recent
launches with their file, the icon theme chain. *Operations*: open, type, select,
close, on either side of two lossy queues. *Hard*: an answer to an older query
meets newer typing; a crash while the launches are written. *Correct when* both
copies agree when nothing is under way and results belong to their query.

### Sway bridge: `levshell-modules/src/sway/*.rs`

*State*: the event stream and a second connection, the title of the window focused
last, the bounded queue to the shell. *Operations*: list, subscribe, then for each
event publish it on the bus, ask for the list and send it. *Hard*: Sway goes on
between event and list; events speak of workspaces that are not focused. *Correct
when* the bar ends up with Sway's workspaces.

### Shell, CLI, clock, rule expressions

The rest of the QML shell renders what it is sent and returns user actions; the
CLI is one request and one answer; the expression language is a parser and an
evaluator.

## 2. Plan

Written, in this order: `LossyFifo`, `EventBus`, `ModuleLoop`, `ModuleRunner`,
`SyncEngine`, `ObsidianSync`, `ContextEngine`, `Daemon`, `Attention` and the
proofs of five of them; then `Store` and `Mirror` (the other adapters), `FocusMode`,
`Appearance`, `Projects`, `Returns`, `Snapshot`, `RubberDuck`, `Telemetry`,
`Fleet`, `Feeds`, `Ideation`, `Palette` and `SwayBridge`.

Then the proofs of `ModuleLoop`, `ModuleRunner` and `SyncEngine`, of `Returns`,
`Projects` and `FocusMode`, and of what was left of `ObsidianSync`, `ContextEngine`
and `Attention`; then those of `SwayBridge`, `Fleet`, `RubberDuck` and `Telemetry`,
of `Store` and `Mirror`, of `Feeds`, and of `Appearance` (section 5).

Left, in the order of what it would add:

1. Proofs for the components that are only model-checked: `Snapshot`, `Ideation` and
   `Palette`; and of `Mirror`'s `Mirrors`.
2. The step simulation of `Mirror` by an abstract "image of the source".
3. The frames below `Daemon` (`levshell-ipc/src/framing.rs`): a reader that is
   cancelled in the middle of a line.
4. Presentation and panel flags of the theme service, joined to `Attention`.

Components that share no state do not gain from being run together: they are put
side by side in one instance (section 3, *How they are instantiated*), and those
that do share state meet inside one module: the focus mode with the context
engine's profile requests, settings with dials and themes, the adapters with their
store, the chat and the palette with the shell's copy.

## 3. The models

### `LossyFifo`, `EventBus`

`LossyFifo` is the abstract specification: what one subscriber may expect. An
item offered to a full channel is lost and counted, nothing else is, and order
is kept. `EventBus` is `bus.rs`: `registered` is `Inner.subscribers`, `queue`
and `dropped` the channel and the counter of a `Subscriber`. `publish` holds the
mutex while `retain_mut` visits the vector; the model has one step per visit
(`Skip`, `Deliver`, `Drop`, `Reap`), so receivers take events and vanish in the
middle of a pass. Events are numbers in mutex order, `log` has their kinds.
`Subscribe` waits for the mutex as `publish` does. The order of the visits is
left open, the source promises none.

### `ModuleLoop`, `ModuleRunner`

`ModuleLoop` is the inside of one task: `select!` with its bias (`SelectStop`
before `SelectTick` before `SelectEvent`/`SelectNone`), handlers under
`tokio::time::timeout`, the interval with `MissedTickBehavior::Skip`. `due` is
the time to the next deadline; a late tick fires when polled and the next
deadline is the next multiple of the period. `SlowTick` and `SlowEvent` bound how
long a handler takes if nothing cuts it off; the runs choose values on both sides
of the timeouts. Its channel is an instance of `LossyFifo`.

`ModuleRunner` is `register` and `shutdown`: `Start` and then `Park` or `Spawn`
(the await of `start()` lies between them), and the two passes of the shutdown
(`SignalNext`, `JoinNext`). A task is its life cycle; it may panic in a handler,
and `hangs` are the modules whose `stop()`, which has no timeout, never returns.

### `SyncEngine`, `ObsidianSync`

`SyncEngine` has one loop per adapter (`pc`, `spent`), the watched flag and who
has yet to see its change (`battery`, `unseen`), the watcher behind the lossy
channel, and the handle. `interruptible_sleep` computes its interval on every
turn (`EnterSleep`). `stuck` are adapters whose `probe()`, which has no timeout,
never returns.

`ObsidianSync` is `sync()` of the adapter, one action per store call, because
every store call is atomic and two are not. Between two of them the vault
changes (`EditVault`, `LoseAccess`), a project is attached (`Touch`), or the sync
is cut off (`Interrupt`: its timeout, an error, the end of the daemon). A content
is a body and a frontmatter; the body stands for its hash. `newer` says that
`updated_at` is after `last_synced_at`, which is all the code asks of the two
stamps. `index` is `by_external_id`, `linkUpdates` the vector of that name, `pending`
the edges that `RemoveEdge` or `AddLink` have yet to come to. The history `torn` names
the notes whose update or delete was cut off before the row was told: of these, and of
no others, `HashTellsTruth` lets the row tell something else than the note has.

### `ContextEngine`

The cascade is a function of the signals, the dials and the profile; `Resolved`
characterises its outcome (the most insistent rule, the profile over the rules,
then the widgets in order of priority as far as there is room) instead of
computing it. `Commit` and `Pend` are the steps of `Hysteresis::observe` for one
widget, with the time left in place of an instant. `ResolveAndPublish` is the
handler's common tail; what it sends goes to `outbox`, from which `Send` takes
one message at a time to a queue that may be full, as the writer empties it at
the same time. User overrides and `force_commit` are never used by the program
and left out, and so is the language of rule conditions: a rule is a signal, a
value and a vote.

### `Daemon`

`phase` is where `run_with_sync` stands. The accept loop takes a connection
(`Accept`) and then reads its Hello *before it looks at anything else*
(`BadHello`, `AdmitCtl`, `RejectShell`, `AdmitShell`), which is why a silent peer
holds it. `AdmitShell` takes the factory; `Register` is one awaited module;
`Attached` applies the settings. Beside the loop run the shell's reader and
writer and a task per ctl client. The clean-up is `ShutDownRunner`,
`ShutDownSync`, `Return`, and until the process ends the listener still takes
connections. `Crash` may happen anywhere and leaves the socket file, which `Boot`
replaces. Clients connect at most once and may say nothing, nonsense, something
that cannot be decoded behind a proper Hello (`Garble`: a ctl client is then dropped
without an answer, and for a shell it is the end of the daemon), or hang up at any
moment.

### `Attention`

The timer, the theme service's flag, the trackers and the filter, joined by the
notifications module's channel (`inbox`, with the drops of `LossyFifo`). `Command`
is `handle_command` and the workspace change, `Tick` is `advance_one_second`;
`End` and `Enter` are the two halves of `advance()`, so that the reader can be
seen between `Ended` and `Started`. `SetPresentation` and `AnnouncePresentation`
are the two halves of `set_presentation`, inside and after its lock. Durations
are a few seconds, a sample is its raw level, an item in the channel is its kind
and urgency; `quiet` and `sure` are what was true when it was published.

### `Store`, `Mirror`

`Store` has no variables: it is the public functions of `levshell-data` as
operators on a database value (`row`, `meta`, `edge`, `tag`), one per statement,
with the constraints of the schema (`LinksHold`, `KeyFree`), the patches, which set
the columns they carry and no others, `Delete` with its cascades, scaffolding, and
`Export` and `Import`. The import is one transaction, so it is `Refused` as a whole
or done: a row is refused if it refers to one that was not put in with an `Earlier`
table.

`Mirror` runs one adapter at a time on it; which one is chosen at the start.
`Begin` is probe and listing, `ListCalendar` the calendars one by one, `Apply`
the next item: insert, update, skip or count as broken. What a row needs besides
itself (tags, a literature note with its edge, metrics, metadata) are calls of
`pass.job.next`, each a step of its own (`DoCall`), so `Cancel` may fall between any
two; for a literature note `FindNote` looks and then it is refreshed, or drafted
(`DraftNote`) and related. `ApplyDelete` removes what was not met, where the adapter
does that at all. What is one step here though the code reads before it writes is
the update of a row (`ApplyUpdate`, get and update): only the adapter itself takes its
rows away, and the patch does not hold what was read.
The adapters differ in what they read (`CaldavProbe`, `ZoteroRead`, ...), in their
insertions and revisions (`ZoteroInsert`, `MlflowUpdate`, ...), in what counts as
unchanged, and in what a refused statement does to the pass. The environment
changes items, takes servers away and gives them back, reloads the configuration and attaches rows to
a project. An item is a version, a mark (ETag, modification, hash) and a citation
key; what four of the adapters compare does not cover all of an item (`Unmarked`), so
it can change and keep its mark. `Overridden` are items whose file carries several VEVENTs of one UID.

### `FocusMode`

`Advanced` is `tracker.rs`: what one observation does to a profile's phase;
`Evaluate` observes all of them and publishes what they ask (`Published`, which may
be lost on the full channel). The other end of the channel is
`handle_profile_action` of the context engine (`Becomes`); the user asks by hand
through the same channel. Predicates hold or not (`holds`), and are mirrored by the
driver when a signal arrives.

### `Appearance`

A ctl request, the shell's reader, the settings watcher, the themes watcher, the
portal's listener and the daemon's main task are tasks with a program counter
(`job`). `write_setting` is `ReadSettings`, `CreateTmp`, `FillTmp` and `RenameTmp`,
with file handles that follow a file over its renaming; the watcher reads what is
there when it wakes. A theme change is `ChooseTheme`, `LoadTheme`, `InstallTheme`,
`PushTheme`, `Propagate`, and each reads the service's state anew, as the code
does. `Propagate` starts a command for Sway and one for GTK and Qt and waits for
neither: `CommandEnds` is one of them finishing, or failing, in whatever order. A
theme without the three colours (`Plain`) starts none for Sway, which keeps the
colours it has. The message to the shell (`Send`) and the events that turn a dial
(`Turn`, `ApplyDoc`) meet full queues and are lost. `Attach` is the accept loop
handing the shell to the theme service. The histories `overlap`, `themeRace` and
`stale` say that two tasks met, `missed`, `dropped` and `unsure` that the last
message, event or command was lost or overtaken, because the code promises nothing
then (section 6).

### `Projects`

`upsert_from_file` is `Upsert` (the row), `CopyRuntime` (under the read lock) and
`StoreEntry` (under the write lock). The workspace watcher is `Resolve`,
`StopWatch`, `BookTime`, `EnterProject`, one per access to the index. The clock has
two grains a second, because whole seconds are booked. `crossed` are projects whose
run-time state changed while a reload held a copy: the code loses that change.

### `Returns`

The pill (`ApplyFocus`), the suggestion (`Suggest`) and warmup (`Activity`,
`OpenWarmup`, then `Publish` or `NoPayload`, then `Persist`): the three modules
share nothing but the clock and `Restart`, and hear the focus events through
channels of their own, so each has a next-state relation of its own.

### `Snapshot`, `RubberDuck`

`PlanFor` is `plan_restore` with `BestMatch` (title, then workspace, then any);
`MoveWindow`, `Launch` and `FocusSaved` are the commands, each of which may fail,
with Sway and the user in between. Sway answers an `exec` before the program has a
window: `starting` are the programs that are still to open one, and `ProgramShows`
is one of them doing so, whenever and wherever it likes, or never. All windows are
of one application, since windows of different ones never match.

In `RubberDuck` each message has a task (`reply`): `StreamToken`, `StreamDone`,
`RecordReply`, `StreamFails`. The queue to the shell drops what does not fit;
`ShellReceives` is `main.qml`. `outOfStep` records that a reset crossed a reply or
that a message overtook the recording of one, `tokenLost` that the queue was full; a
reset that crosses nothing and finds room clears both, since it empties both copies.

### `Telemetry`, `Fleet`, `Feeds`, `Ideation`

Each groups modules that share nothing, with one next-state relation per group.
`Telemetry`: the supply (`BatteryTick`, `BatteryKick` with the UPower watcher), the
power profile, the counters (`CpuTick`, `NetworkTick`, whose probe is awaited until
`ProbeEnds`), memory and disks. A counter's rate is the difference it is made from.

`Fleet`: `LoadFromDir` is `HostRegistry::load_from_dir`; `BeginPass`, `Probe` and
`PublishFleet` a monitor's pass. What ssh prints is one of four answers: fine, busy,
odd (it cannot be read), or no answer. The runner drops a pass that takes too long,
at any host and after any number of events, before the board and the escalation are
reached: `PassCut`, which `cutShort` remembers until a pass ends, while `boardLost`
says that the last update of the board found the queue full.

`Feeds`: `Poll` and `Acknowledge` with the capped seen set and its file; an entry is
its paper with its version (`Entry`), and a paper that is revised is new to the module.
A write may fail (`unwritten`) and a file be cut short; `lostIds` are the ids that a
restart did not find for one of these reasons. `Scan` looks for an engine and `ReadLog`
reads the log of the one that ended, later, while others start (`rebuilt`); a log that
is not there and a scan that dies both count as success (`ScanFails`, `logUnread`). The
two samples of the sniper; `BeginRefresh`, `LookUp` and `PublishLibrary` for the
library, whose look-ups of the last `RecentRefs` references may each fail.

`Ideation`: `BeginTick` takes the projects, `ListRows` all notes (then all references)
at once, `TakeEntity` the tags and edges of one of them, `ReadNeighbour` one neighbour's
project; `Choose` is `select` with its fall-through over the kinds. `StoreChanges` and
`TimePasses` come between any two of them. A nudge is judged by what was in the store
and the registry (`held`: every row since the tick began), not by the tick's copies: a
reason that held throughout must be found, and the reason given must have held at some
moment of the tick. That it may be gone by the time the nudge is delivered is so in the
code. `ScanTasks` and `ShowDeadlines` are the two reads of the pulse, each of which may
fail. Chance is a choice.

### `Palette`

`WalkThemes` is one turn of `build_theme_chain`; `Results` collects what the
providers find, sorts by score and cuts at the limit. `HearAsk` sets the query and
whether the palette is open, `EndSearch` is the end of the awaited `refresh_results`
with the update that follows, and `CutSearch` the runner's 30 s running out in it,
after which the query is set and nothing was told. `Receive`, `TypeText`, `Commit`,
`Act` and `Faded` are the overlay. `HearLaunch` starts an application, which `EndRecord`
writes to `launches.json` before the palette closes, so that `Die` may come between
them; every other selection is `HearSelect`, cut off as well if its provider hangs.
A file that cannot be read is an empty history (`BeginPalette`), which the next launch
writes over it. An entry is given with how it fits each
query; scores are the code's, in hundredths.

### `SwayBridge`

`inFocus`, `windowOn`, `urgent` and the actions on them are Sway, which is external:
a workspace exists while it has a window or the focus, and each change sends the
events that Sway documents for it. `QueryFirst`, `PublishFirst` and `SubscribeSway`
are `start()`; `NextEvent`, `Query` or `QueryFails`, and `PublishList` are one turn
of `run_event_loop`, between whose parts Sway goes on. `behind` remembers a list that
was not read or did not fit in the queue.

### How they are instantiated

An MC module gives a specification small sets. It EXTENDS the components whose
properties it checks by their own names (`ModuleLoop` in `MCRunner`; `Attention`,
`FocusMode`, `Projects`, `Returns` and `Appearance` in `MCDesk`), so that their
assumptions are evaluated, and has the others as instances; `MCWatch` extends
`SwayBridge`, `Fleet`, `RubberDuck`, `Telemetry` and `Feeds`. `MCRunner`, `MCDesk` and `MCWatch`
hold several components that share no state and no step: a variable `part`, chosen
at the start and never changed, says which of them moves, and the others stay in
one initial state. The states are the disjoint union of what separate instances
would have, a property of one component is checked where that component moves, and
nothing is lost because there is nothing to interleave. Every step of `DeskNext` and
`WatchNext` is a step of exactly one component's own next-state relation.

## 4. The runs

| run | instance | what it shows |
| --- | --- | --- |
| `bus` | 2 publishers, 2 subscriptions with overlapping kinds and capacities 0 (which becomes 1) and 2, 3 publications | order, counted losses, reaping; each subscription is a `LossyFifo` |
| `runner` | loop: period 3, event timeout 4 (handlers take up to 5), tick timeout 6 (ticks up to 7), capacity 1, 3 events; runner: 2 modules, one with events; engine: 2 adapters, interval 1, multiplier 2, timeout 2, capacity 1, 2 power events | a stop is answered within one handler, accepted events are handled unless ticks take their whole period; modules unwind in parallel, the shutdown returns if every `stop()` does and leaves nothing behind; in the sync engine the interval of the present mode is in effect, adapters do not hold each other up and shutdown ends |
| `obsidian` | 2 files, 2 bodies (one links to both), 3 edits, 1 attachment, 1 cut-off, 5 notes | a row's hash is its note's body unless a write of that note was torn, rows and notes come to mirror the vault but for those and then nothing is written, conflicts are reported; without a cut-off also one note per file and no edge to a missing note |
| `obsidian_unreadable` | 2 edits, 2 notes | *violated*: the note of a file that cannot be read this time is deleted |
| `mirror` | each of 5 adapters, 2 items in collections of their own, one annotated, 3 changes, 2 faults (outages, reloads, cancellations; 4 with the changes; a server that went away may come back at any time), 14 row ids | after an undisturbed pass the store is the image of the source, it gets there if left alone, after outages and cancellations too, a cancelled pass leaves at most one thing half done, the user's columns survive, every moment can be exported and imported |
| `mirror_override` | the same with an item that has two VEVENTs of one UID | *violated*: the second is inserted anew at every pass |
| `context` | 2 widgets, 2 rules, 2 profiles, 1 dial, 3 bar widths, delays 1 and 3, a tick every 2, queue of 2, 2 events | a prominence commits exactly when it was asked for during the whole delay, layouts fit, profiles prevail, differences keep the shell in step |
| `desk` | *attention*: 1 tracker, 2 workspaces, work 2, breaks 1 and 2, long after 2, channel of 2, 5 seconds, 5 inputs; *focus*: 2 profiles, dwells of 1, channel of 2, 3 seconds, 4 moves; *look*: 2 callers, 1 dial, 2 themes of which one without colours, 2 requests; *registry*: 2 projects, 2 workspaces, 3 half seconds, 3 deeds; *returns*: 2 workspaces, 5 hours, 2 restarts | notifications are treated as was right when published, alerts are earned, work is booked once; dwells are whole and activations retracted; settings and theme end in one state; no focus time is lost; nobody is nagged |
| `watch` | *snapshot*: 3 windows, 2 workspaces, 2 titles, 7 acts; *duck*: cap of 2, queue of 3, 3 messages, a reset; *telemetry*: 5 readings, queue of 1; *fleet*: 3 host directories, one with a malformed file and one with a name twice, 6 turns; *feeds*: 3 papers of 2 versions, window 2, seen set of 5, 2 directories, 2 pids, 2 references; *ideation*: 2 projects, a note and a reference that are linked, 2 changes, 4 tasks and events; *palette*: 3 desktop files of 2 applications, 6 other providers, 3 moves, a restart; *sway*: 2 workspaces, 1 title, 4 moves, queue of 1 | a restore is a fixed point, chat and reply agree, only sending changes hides none, a fleet's event, board and escalation agree, versions of papers are announced once, a nudge is found if there was a reason during the whole tick, and none without one, both copies of the query agree, the bar shows Sway's workspaces |
| `sway_active` | the same instance | *violated*: a workspace that calls for attention is announced as the active one |
| `daemon` | 2 shells, a ctl client, 1 module, 2 starts | nobody with a proper Hello is turned away without a cause; if the modules' and adapters' calls return, the daemon ends when told to or its shell is gone, and everybody is served |
| `daemon_silent` | the same, one start, without the clients' good manners | *violated*: a signal is not heeded while a silent peer holds the handshake |

The type invariants that are proved (`EventBus`, `ObsidianSync`, `ContextEngine`,
`Daemon`, `Attention`) are not run again; those of the other modules with one are
conjuncts of an invariant of their run.

*Bounds.* Constants called `Max...` and `Horizon` cap how often the environment
acts; every one of them appears in a guard, and no action of the program is bounded
except through them. They suffice because each property is about few occurrences:
a loss needs one event more than the slots (3 publications over slots 1 and 2), an
overtaking needs two publishers and two subscribers; an edit, its reversal and a
second edit need 3; a conflict needs one attachment; a stale pending prominence
needs the change and the change of mind; a socket file left behind needs the next
start; an alert needs three samples and its repetition a fourth; a long break needs
two intervals, which skips shorten. In `context` the tick and the longer delay share
no divisor, so a deadline falls between two ticks. In `runner` the longest handlers
are longer than their timeouts and the tick timeout longer than the period. In
`mirror` an item that appears, changes and vanishes needs 3 changes, a clash of
citation keys 2 items, a row without its metadata one cancellation, a calendar that goes and comes back while a
pass is cancelled two faults; an item takes
two rows at most for each time it is inserted, which 14 ids cover. In `desk` a torn
settings file needs two writers, a reload that holds a copy during a booking one
reload and one switch, a warmup fired twice one restart. In `watch` an eviction needs
an id more than the set holds and a second batch; a dropped last token needs a
queue shorter than a reply; a critical fleet three passes; a query overtaken by its
answer two texts. What a larger instance could add for safety, the proofs below
cover for most of the modules.

*Deadlock* is not checked where a system may come to rest: a bus whose bounded
publications are spent, a module, runner or sync engine that has stopped, a timer
that is idle, a daemon after its last start, and everything in `desk` and `watch`
when the bounds are spent. It is checked in `context`, which ticks for ever.

### Fairness

Weak fairness of the program's own steps: tokio polls a task that is ready, a
store call and a bus pass return, time passes. Handlers end because of their
timeouts. `start()`, `stop()` and `probe()` have none, and the specifications do not
assume that they return: in `runner` modules and adapters whose `stop()` or `probe()`
hangs are states of the model and excepted by name in the properties; in `daemon`
the steps that await them (`Awaiting`) have no fairness, and the liveness properties
have `CallsReturn` as their hypothesis, since a module that hangs in `start()` does
stop the accept loop. Nothing is assumed of receivers, of users, or of who shuts down. `Mirror` has it for the
calls of a pass and for the next pass to begin, which the engine's timer sees to. `Daemon` separates two
things: `FairSpec` has the daemon's tasks only, and `PatientSpec` adds what the
clients in this repository do: `main.qml` and `levshell-ctl` send their Hello as
soon as they are connected, the CLI sends its request right behind it, and the
shell closes its socket when the stream ends. The difference between the two is
the point of `daemon_silent`. `desk` and `watch` have safety properties only.

## 5. Proofs

All for every value of the constants, under the named assumptions on them:
`BusAssumption`, `LoopAssumption`, `VaultAssumption`, `ContextAssumption`,
`DaemonAssumption`, `AttentionAssumption`, `RegistryAssumption`,
`ReturnsAssumption`, `FocusAssumption`, `SwayAssumption`, `FleetAssumption`,
`DuckAssumption`, `TelemetryAssumption`, `FeedsAssumption`, `LookAssumption`,
`MirrorAssumption` and `RecordAssumption`. They give types and positive capacities
and periods, say that the model values that stand for `None` are not among what
they are to be told from, and, where something is summed or counted, that the
workspaces, widgets or files are finitely many. `MirrorAssumption` also says that ids
are numbers, that a Zotero item's own key is no key a user gives, and that a source
lists each of its items once; `LookAssumption`, that the theme a theme file names as its
`light_pair` is a light one and its `dark_pair` a dark one, as those of `config/themes`
do. `ThemeService` takes the file's word for it: with another pair, following the system
ends in the wrong variant. TLC evaluates each on its run.
`IntervalAssumption` (the sync engine's intervals and factor are natural numbers, the
interval not zero) is a hypothesis of the theorem that needs it.

* `EventBusProofs`. The inductive invariant adds three parts to the properties:
  one thread at most is inside `publish` and publishes the newest event
  (`MutexInv`), an open subscription is registered (`SubInv`), and what was
  offered is numbered up to `seen` (`SeenInv`); without the first, an older event
  could still be on its way to a subscriber that has a newer one. From it follow
  `TypeOK`, `OrderedDelivery`, `NoSilentLoss` (counting the matching events of an
  interval) and `ReapedOnMatch`, and the step simulation `BusImplementsChannels`:
  the bus implements one `LossyFifo` per subscription.
* `RunnerProofs`. `StopLatency` is not inductive, since nothing in it keeps a
  handler from having run for long when the stop arrives; `Timely` adds that a stop
  is no older than the handler that delays it, and that a deadline is at most one
  handler behind (`NextDeadline` is the arithmetic of `MissedTickBehavior::Skip`). For the runner: `shutdown` joins every
  handle it has, and a task without a handle does not exist (`NoTaskLeft`). For the
  engine: `SleepsMatch`, `NothingRuns` and `OneMoreSync` are the safety parts of
  `ModeInEffect` and `EngineStops`; the last needs to know where an adapter can be
  that has begun one sync after the signal (`Overtime`).
* `ObsidianSyncProofs`. `HashTellsTruth`: the row's hash is the body the note has,
  but for the note in hand and for those a cut-off tore from their rows; of those the
  row still tells the old body, and if the file goes back to that body the next sync
  skips it and the note stays wrong (section 6). The strengthening says what the sync
  holds in its hand at each program point (`InHand`), that the note in hand has the
  body about to be told to its row (`Written`), and that no id lies beyond the newest
  (`NoneAhead`).
  `NotesMirrorFiles`, which is about runs without a cut-off, rests on five parts:
  rows and notes belong together but for the one in hand (`RowsFit`, `HandFits`),
  the map of rows names each path's row and misses none that is still to come
  (`MapFits`), in a vault that kept still what is done with is shown (`CalmFits`),
  and edges and those to be written have their notes (`EdgesFit`). Counting then
  needs that file and note are in one-to-one correspondence. `ConflictsReported`: an
  attachment made behind the row's back leaves the note stamped newer (`Reported`).
* `ContextEngineProofs`. `HeldSteady` (a commit was asked for during the whole
  delay) and `CommitsInTime` (and comes with the first tick after it): the
  invariant relates the time left of a pending change to how long the cascade has
  stood, in both directions. `SettledFits`: the widgets that have room, taken in
  order of priority, add up to the layout's extent (`AllFit`, from the last one
  placed); and what was published last is what was committed. `ShellAgrees`: for
  every topic (layout, a widget's visibility, a dial) the *newest* message about
  it, in the outbox, in the queue or shown already, says what was published last
  (`AgreeInv`); that the shell agrees when all is read is the case of no message.
* `DaemonProofs`. `OneShell` and `RefusedForCause`. The invariant: the loop holds
  the connection whose Hello it reads (`HoldInv`), the listener's queue has every
  queued client once (`QueueInv`), and the factory is gone exactly while there is
  a shell (`ShellInv`); the last one is what makes a rejection a rejection in
  favour of somebody; and that only who is closed was answered (`AnswerInv`).
  `FeedsAreTold`, about the modules that watch feeds: in the seen
  set no id is followed by one whose paper lies a window or more before its own, nor by
  an earlier version (`Ordered`), so that fewer than two windows of papers, in all their
  versions, follow an id that the feed may still list (`FewFollow`),
  and with a cap of that size it is not evicted (`RemembersWindow`); without this an
  eviction could announce it again. `FeedsAssumption` says how cap, window and versions
  relate; the module has 2000 and a window of 20 unless configured. What was seen is in the file,
  or waits for a write that works, or is given up as lost: that carries it over a
  restart (`PapersInv`). A log that was read says how the tracked build ended until there
  is another build in its directory (`BuildInv`). For the process list, what a pid has used since the
  first sample is bounded by what is accounted to it, reused or not (`SniperInv`).
* `DeskProofs`. `ReturnsCorrect`: outside `fire()` and unless it was lost, the stamp
  in memory and the one in the file are the last firing's (`WarmupInv`), which is
  what makes a restart harmless; `last_nudged` is the latest suggestion, and the
  departure the tracker kept is the user's own. `RegistryCorrect`: what was booked
  is compared with what was measured interval by interval (`WholeSeconds`,
  `OneMoreInterval`), for the index and for the copy a reload holds; the file read
  last is the one in the entry. `FocusCorrect`: the age of a dwell is bounded by how
  long its predicate has stood (`ClockInv`); and a profile that the tracker does not
  hold active, and that is active or will be without the user's asking, has its
  retraction behind it in the channel (`RetractInv`).
  For the attention modules, `NoLoneSpike`: each level is backed by the samples before it.
  `RightWhenPublished`: `On(q, m, g, k)` is flag `g` once everything before position
  `k` of the channel has been read; the invariant says that at each notification in
  the channel the flags will be what was announced when it was published, and at
  the end of the channel what was announced last. The lemmas about `On` say what
  appending and reading do to it. `TypeCorrect` needs that the seconds of a running
  work interval are counted, or taking them back could go below zero.
  `WorkIsBooked`: booking an interval adds its seconds to the total (`BookedMore`).
  `AppearanceIsKept`: the one writer's document is the file with its setting, and the
  temporary file is empty or that document (`OneWriter`); who applies a document has the
  file's, or the watcher will be woken, and a dial that is not where the file has it is
  about to be turned (`DialInv`). For the theme, `Fits` says what a task that crosses no
  other finds at each of its steps: what `OnDisplay` says, but for what the task itself
  is about to bring in order; and a display has been told of the active theme unless
  somebody is between `install` and `propagate`, crossed or not (`ThemeInv`, `Told`). A
  display that is not in doubt has one command at work at most (`CommandsInv`), so what
  it will show is what it was told last. Nothing is promised to a display whose last
  command failed or overlapped with another, to the shell whose last message was lost,
  or of a dial whose last event was.
* `WatchProofs`. `BarIsSways`: a list that the bar has or will get is Sway's present
  one, or an event is under way that will have it read again (`SwayInv`). Between the
  event and the list Sway goes on, and that is no harm because what goes on sends an
  event of its own; the exceptions are what `behind` records. `FleetIsTold`: the pass
  under way agrees with the bus as far as it has come, and in between the board of the
  last one does (`FleetInv`); without the first part a publication would prove nothing.
  A pass that was cut short, and a board whose update was lost, are exempt, and made good
  by the next pass that is neither. `DuckIsInStep`: `Whole` says that the conversation, with what the module has not
  heard or recorded, is the successful part of the chat, with what the shell has not
  been shown; a reset under way is the last thing under way (`AfterReset`), so that
  after it both copies are empty whatever was lost or crossed before (`DuckResets`), and
  `Awaited` that whoever waits is waited for. `MachineIsTold`: the value known last is
  the one sent last, and the present one if it was read since (`PowerInv`,
  `ProfileInv`); rates are differences of readings of one counter that did not begin
  again, so they add up to its growth (`CounterInv`).

  For the store with its adapters, `MirrorInv`: the constraints of the schema hold with
  what nothing in the schema says (metadata lies on rows of the adapter's table, a
  literature note has one edge and no second note to its reference, and no row the
  adapters make refers to another than a project, so that a deletion clears nothing);
  what a pass has not met is in the store, under its own metadata (`LeftHolds`); and a
  job knows what it has written: its row is there until it deletes it, its note is, and
  the edge is unless it comes next (`JobCompletes`). With that a step takes out of
  `StrayRows`, `StrayMeta` and `StrayNotes` or leaves them, but for `Cancel`, which adds
  what was in hand: `OnlyCancelledLeaveStrays`. `UsersDataAreKept` is the other half of
  the same case analysis (`RowsKept`). `AlwaysRestorable`: the only rows referred to are
  those of projects, which the import puts in first (`NothingRefused`), and each table
  comes back as it was (`EarlierIs`).
* `FoldLemmas`. What the sums of the models (`FoldSet`, `FoldFunction`) do when one
  summand changes or one element joins, what `FlattenSeq` consists of, and what is left
  of a sequence when only the members of a set are kept. The
  library's induction theorems cannot be used, so the lemmas suppose a least
  counterexample, which exists because the natural numbers are well-founded and so
  are the finite sets under inclusion.

Model-checked only: every liveness property (`DeliveredIsHandled`,
`ShutdownTerminates` and the live parts of `ModeInEffect`, `EngineStops`,
`KeepsPolling`, `Converges`, and those of `Mirror` and `Daemon`), since the prover
has no support for fairness; `Mirrors`, the content of what an undisturbed pass leaves;
and `Snapshot`, `Ideation` and `Palette`,
each of them sequential handlers over small state.

## 6. Divergences

Those with a run are listed in `PROJECT.json`. Noticed without one:

* `EventBus::subscribe` says a dropped receiver is removed "on the next publish
  call"; it is removed on the next one of a kind it asked for.
* `runner.rs` 6-10 documents that a module is subscribed and then started;
  `register` awaits `start` and subscribes afterwards, so what is published during
  `start` passes the module by.
* `session_timer.rs` 18-21: an interval is booked as a whole to the workspace that
  is current when it *ends*, whatever workspaces it passed through; without one it
  is booked to nobody.
* `escalation.rs` 9-13 ties the climb to one level per tick; the battery module
  also steps its tracker when the AC line changes.
* `notifications.rs` documents `focus_work` as a "non-paused" session; a pause
  does not clear it, as the comment in `on_event` says.
* The interval comments in `runner.rs` ("resume on next tick boundary", "Consume
  the immediate first tick"): a late tick fires at once, and nothing consumes the
  first one.
* `SyncEngineHandle::shutdown`: one more sync may begin, since the sleep's
  `select!` is not biased.
* Obsidian: the hash covers the body alone, so a change of tags or title is never
  synced and a link to a file that appears later never becomes an edge; a cut-off
  sync can leave a second note of a file, an edge to a deleted note, or (cut off after
  the row was told and before the links were) a note without its edges, which the
  equal hash then passes over; an update cut off between `update_note` and
  `set_sync_metadata` leaves the new body in the note if the file then goes back to
  the old one, since its hash is equal to the row's (mod.rs 289-292); an
  attachment between `get_note` and `set_sync_metadata` causes no conflict.
* Rules may carry their own activation and deactivation delays, which
  `Hysteresis` does not look at.
* The daemon's life-cycle doc ends the run when "the writer task closes"; nobody
  waits for the writer's `closed`.

*Settings, themes, focus mode.*

* Settings read at boot are applied when the shell connects, over what changed in
  between (`lib.rs` 259, 468); two concurrent writers of the settings file share a
  temporary file and can lose an update that was confirmed, or leave the file torn.
* `settings.rs` 11-12 says runtime commands "still win"; any change of the file
  applies all of its settings again.
* Presentation mode and `set_settings_open` are announced outside the lock that
  orders them, so the announcements can be in the other order.
* `reload_active` may undo a choice of theme that was made meanwhile, and
  attaching a shell pushes the theme but no other state of the service.
* The focus driver's doc: "Mirror the signals the context engine does"; it leaves
  out `focus_session.*`, `bar.density` and `ui.scale`, so a trigger on these never
  fires.

*Adapters and store.*

* CalDAV 315-316: a calendar that is skipped, a GET that fails and a file that cannot
  be parsed delete their events, which come back with the calendar; removing the
  last calendar from the configuration leaves its events.
* A pass cancelled between `delete_*` and `clear_sync_metadata` leaves metadata
  without a row; if the item comes back unchanged, it is taken for synced. Zotero
  cancelled between `insert_reference` and its metadata skips the item for ever.
* Zotero 291-294: an update to a citation key that another row has aborts this
  pass and every later one at that item.
* MLflow's hash leaves out the metrics of runs that are under way; the trackers
  abort a pass if the configured project has no row.
* `scaffold.rs` 42-46: the content of a literature note is overwritten at every
  scaffolding; a reference that is deleted leaves the note's edge dangling.

*Projects.* `registry.rs` 139-142: the interval under way is not part of what
`list()` and `get()` return. A reload that overlaps a booking loses it, or leaves
the workspace marked active. Of two projects that name one workspace the order of a
hash map decides. A renamed project keeps its old entry.

*Snapshots.* `restore.rs` 171-189: a saved window that had to be skipped makes
every restore launch its program again, and a window of the same title is dragged
from another workspace. A restore that is repeated while a program is starting
starts it again, and may move about the windows that are there. A window that was
matched by less than its title loses its place, at the next restore, to a window
with that title that a program has opened since.

*Rubber duck.* Disabled by configuration, it does not end the shell's waiting
(`mod.rs` 119-127, `main.qml` 957-969), nor does a done token that was dropped. The
done token is sent before the reply is recorded (152-176), and a reply that crosses
a reset lands in the cleared conversation. At the cap the message that hit it is
dropped with the reset.

*Warmup.* A restart after a state file that was not written fires again.

*Telemetry.* `next_profile`'s "start from the front" returns the second profile.
Power state and profile are recorded as sent although the queue was full. The UPower
watcher reads before it subscribes. A network interface that is seen for the first
time reports its whole counter as a rate, and what it carried before it went away is
lost. A disk that cannot be read de-escalates its widget.

*Remote monitors.* "All hosts unreachable" is judged over answers of different
moments, and a Reconnect counts as a tick of the escalation. One duplicate name
refuses the whole directory.

*Feeds.* An id is that of a version: a paper that is revised while the feed lists it is
announced again. `SeenSet` evicts the newest of a batch first, so an id is only safe if
the cap holds all versions of nearly two windows of papers and one more. What was seen
while no write worked is announced again after a restart. A join error of the LaTeX scan
is, as its comment at `latex_status.rs:286` has it, "a no-op tick"; it ends a tracked build
as a success. Papers not acknowledged are replaced by a
new batch, an acknowledgement clears what was never shown, a restart loses both. An
engine that was killed shows success; a build shorter than a tick is missed, and the
result of one that ends as another starts is lost. The sniper's kill goes to whoever
has the pid by then.

*Pulse.* 500 rows are read before they are filtered, which can leave out an overdue
task; an event under way sorts as past but is not marked overdue.

*Sway bridge.* A workspace that is left empty is announced after the one that was
entered, so the project registry's stopwatch, the context engine's signals and the
return tracker follow the one that is gone until the next event (`sway_active`
finds the shorter case of an urgent workspace). The title stays that of the window
focused last when it closes, changes its title, or an empty workspace is entered.
What happens between the first list and the subscription is shown with the next
event. An error of the stream ends the bridge while its health stays normal.

*Palette.* `build_theme_chain` 383-389 ("terminating with hicolor"): the common
theme stays in the middle if it was inherited there. `RECENCY_BOOST_MAX` 667-677: a
boosted prefix match does not rank above an exact one (0.9 < 1.0). `module.rs`
142-143: an action for an unknown provider does not close the palette. Both files of
one desktop id are listed and the second cannot be started. An update for an older
query overwrites the field, and a deletion back to the query shown is not sent. Keys
typed while the overlay fades leave a query for the next opening. `launches.json` is
written in place, so a crash may leave it cut and the history starts empty, as it
does when the file cannot be read; the next launch writes that over it. A search that
the runner cuts off leaves the palette with the old results under the new query, and the
shell with the old query, until the next event.

## 7. Abstractions, and what is not modelled

*Abstractions that a reader should know of.* A source is listed in one step and
items are fetched from it in steps of their own; the page limits of the trackers'
APIs and conflicts (a count in a report) are left out, and so is the reading of
records. `replace_tags` is one step. Probe and listing are one moment. Time passes
in `Projects` only when no workspace event waits. `find_by_tags` only reads. In
`Returns` wall clock and monotonic clock agree, and the flags that switch a module
off are on. Writing a snapshot is one step. A reading of telemetry that fails
changes nothing. In `Palette` the fit of an entry, the arithmetic and conversions of
`calc` and the glyph table are given; a row that vanishes between search and select
does nothing; Sway failing gives no results; `rescan()` is never called.
`delete_project`, `delete_task` and `delete_experiment` have no caller.

*Not modelled.* The expression language of rules (`levshell-context/src/expr.rs`)
and other parsers (TOML, frontmatter, ICS, BibTeX, `.desktop`), because what they
compute is a function of a text and recursion over it; framing and the JSON forms of
messages (`levshell-ipc/src/{framing,codec,messages}.rs`); SQL and full-text search;
the clock and the count of due cards; the QML shell beyond its connection, its chat,
its layout and its palette; what `levshell-ctl` prints. `PROJECT.json` gives the reason for every component.
