------------------------------ MODULE Appearance ------------------------------
(***************************************************************************)
(* Settings and theme of the desktop: levshell.toml with its writers and   *)
(* its watcher (levshell-config settings.rs, levshell-daemon lib.rs), and  *)
(* ThemeService (levshell-modules theme.rs) with the watcher of the theme  *)
(* files and the one of the system's light or dark preference.             *)
(*                                                                         *)
(* Every ctl request is a task, the shell's reader is one, the watchers    *)
(* and the accept loop are others: Task.  What a task does between two     *)
(* accesses to shared state (a file, the service's lock, the shell's       *)
(* queue) is one step; job[t] says where it stands.                        *)
(***************************************************************************)
EXTENDS Naturals, FiniteSets

CONSTANTS
  Requester,   \* ctl requests and the shell's reader
  Dial,        \* settings the context engine holds: density, scale
  Theme,       \* stems of the theme files
  Pair,        \* per stem: the theme its meta names for the other variant
  Variant,     \* per stem: "dark" or "light"
  Plain,       \* themes, as [name, body], without the colours Sway is told
  DefaultTheme,
  Nothing,
  MaxAsks      \* bound on what callers, the user's editor and the portal do

Key == Dial \cup {"follow"}
Choice(k) == IF k = "follow" THEN {"on", "off"} ELSE {"low", "high"}
Unset == "unset"

\* The contents of levshell.toml.  An empty file is a valid one; one that two
\* writers wrote into at once is not.
Blank == [k \in Key |-> Unset]
Garbled == [k \in Key |-> "garbled"]

\* The tasks are different ones, a theme names a theme of the other variant as its pair, if
\* any, and Nothing is no document and no preference.
ASSUME LookAssumption ==
  /\ Requester \cap {"settings", "themes", "portal", "main"} = {}
  /\ "follow" \notin Dial
  /\ DefaultTheme \in Theme
  /\ \A n \in Theme :
       Variant[n] \in {"dark", "light"} /\ (Pair[n] \in Theme \ {n} => Variant[Pair[n]] # Variant[n])
  /\ Nothing \notin {"dark", "light", "no-preference"} \cup [Key -> {"unset", "low", "high", "on", "off", "garbled"}]

Display == {"sway", "gtk"}
Task == Requester \cup {"settings", "themes", "portal", "main"}
Idle == [at |-> "idle"]

VARIABLES
  job,         \* per task, see above
  disk,        \* levshell.toml
  tmp,         \* levshell.toml.tmp, or Nothing
  fd,          \* per caller: the file it has open for writing: "tmp", "disk", "lost"
  touched,     \* the settings watcher has a change to look at
  bootDoc,     \* run(): the settings read at the start
  dial,        \* the context engine's bar.density, ui.scale
  dropped,     \* history: dials whose last turn found the engine's queue full
  listening,   \* the context engine is registered
  themeFile,   \* per stem: the body of its file, 0 if it cannot be loaded
  themeTouched,
  active,      \* ThemeService: active, as [name, body], or Nothing
  follow, scheme, \* follow_system, last_scheme
  attached,    \* publisher is Some
  shellTheme,  \* what the shell shows
  missed,      \* history: the last theme for the shell found its queue full
  desktop,     \* what Sway and the toolkits show: a theme and a variant
  running,     \* per display: what the commands that are still at work will set
  unsure,      \* history: displays two commands were on their way to, or one that failed
  saved,       \* history: the settings as confirmed writers left them
  overlap,     \* history: two writers were at work at once
  overridden,  \* history: dials set by a request since the file was applied last
  stale,       \* history: the file changed between start and connection, and was not read since
  themeRace,   \* history: two tasks changed the theme at once
  inStep,      \* history: the theme is as the system's preference last had it
  asks         \* counter for MaxAsks

fileVars == <<disk, tmp, fd, touched, saved, overlap>>
dialVars == <<bootDoc, dial, dropped, listening, overridden, stale>>
shellVars == <<shellTheme, missed>>
desktopVars == <<desktop, running, unsure>>
shownVars == <<themeFile, themeTouched, active, attached, shellVars, desktopVars, themeRace>>
followVars == <<follow, scheme, inStep>>
lookVars == <<job, fileVars, dialVars, shownVars, followVars, asks>>

LookInit ==
  /\ job = [t \in Task |-> Idle]
  /\ disk = Blank /\ tmp = Nothing /\ fd = [c \in Requester |-> "lost"] /\ touched = FALSE
  /\ bootDoc = Blank /\ dial = [d \in Dial |-> Unset] /\ dropped = {} /\ listening = FALSE
  /\ themeFile = [n \in Theme |-> 1] /\ themeTouched = FALSE
  \* load_default(), whose commands have run
  /\ active = [name |-> DefaultTheme, body |-> 1]
  /\ follow = FALSE /\ scheme = Nothing /\ attached = FALSE
  /\ shellTheme = Nothing /\ missed = FALSE
  /\ desktop = [sway |-> IF active \in Plain THEN Nothing ELSE active, gtk |-> Variant[DefaultTheme]]
  /\ running = [d \in Display |-> {}] /\ unsure = {}
  /\ saved = disk /\ overlap = FALSE /\ overridden = {} /\ stale = FALSE
  /\ themeRace = FALSE /\ inStep = FALSE /\ asks = 0

Ask == asks < MaxAsks /\ asks' = asks + 1
At(t, at) == job[t].at = at
Goto(t, j) == job' = [job EXCEPT ![t] = j]

-----------------------------------------------------------------------------
(***************************************************************************)
(* levshell.toml                                                           *)
(***************************************************************************)
Writing(t) == job[t].at \in {"create", "fill", "rename", "apply"}

\* Mutant: the file is written from the setting alone.
WithAlone(doc, k, v) == [Blank EXCEPT ![k] = v]

With(doc, k, v) == [doc EXCEPT ![k] = v]

\* write_setting(): the file is read and the setting put into it.
ReadSettings(c) ==
  /\ At(c, "idle") /\ Ask
  /\ disk # Garbled
  /\ \E k \in Key : \E v \in Choice(k) :
       Goto(c, [at |-> "create", key |-> k, value |-> v, doc |-> With(disk, k, v)])
  /\ overlap' = (overlap \/ \E t \in Requester : Writing(t))
  /\ UNCHANGED <<disk, tmp, fd, touched, saved, dialVars, shownVars, followVars>>

\* std::fs::write opens the temporary file and empties it...
CreateTmp(c) ==
  /\ At(c, "create")
  /\ tmp' = Blank
  /\ fd' = [fd EXCEPT ![c] = "tmp"]
  /\ Goto(c, [job[c] EXCEPT !.at = "fill"])
  /\ UNCHANGED <<disk, touched, saved, overlap, dialVars, shownVars, followVars, asks>>

\* ... and writes the text over whatever is there by now.
Filled(old, doc) == IF old \in {Blank, doc} THEN {doc} ELSE {doc, Garbled}

FillTmp(c) ==
  /\ At(c, "fill")
  /\ IF fd[c] = "tmp" THEN tmp' \in Filled(tmp, job[c].doc) ELSE UNCHANGED tmp
  /\ IF fd[c] = "disk" THEN disk' \in Filled(disk, job[c].doc) /\ touched' = TRUE
     ELSE UNCHANGED <<disk, touched>>
  /\ Goto(c, [job[c] EXCEPT !.at = "rename"])
  /\ UNCHANGED <<fd, saved, overlap, dialVars, shownVars, followVars, asks>>

\* The rename fails if another writer's has taken the file away.
RenameTmp(c) ==
  /\ At(c, "rename")
  /\ IF tmp = Nothing
       THEN Goto(c, Idle) /\ UNCHANGED <<disk, tmp, touched, saved>>
       ELSE /\ disk' = tmp /\ tmp' = Nothing /\ touched' = TRUE
            /\ saved' = [saved EXCEPT ![job[c].key] = job[c].value]
            /\ Goto(c, [job[c] EXCEPT !.at = "apply"])
  /\ fd' = IF tmp = Nothing THEN [fd EXCEPT ![c] = "lost"]
           ELSE [t \in Requester |-> IF t = c \/ fd[t] # "tmp" THEN "lost" ELSE "disk"]
  /\ UNCHANGED <<overlap, dialVars, shownVars, followVars, asks>>

\* The user saves the file in an editor.
EditSettings ==
  /\ Ask
  /\ \E k \in Key, v \in {"low", "high", "on", "off"} :
       v \in Choice(k) /\ disk' = With(Blank, k, v) /\ saved' = disk'
  /\ touched' = TRUE
  /\ overlap' = (overlap \/ \E t \in Requester : Writing(t))
  /\ UNCHANGED <<job, tmp, fd, dialVars, shownVars, followVars>>

-----------------------------------------------------------------------------
(* Values on their way to the context engine and the theme service. *)

\* BarDensityRequested, UiScaleRequested: nobody hears them before the modules are
\* registered, nor does the engine while its queue is full.
Turn(d, v) ==
  \/ listening /\ dial' = [dial EXCEPT ![d] = v] /\ dropped' = dropped \ {d}
  \/ listening /\ dropped' = dropped \cup {d} /\ UNCHANGED dial
  \/ ~listening /\ UNCHANGED <<dial, dropped>>

\* dispatch_ctl_request(), handle_settings_action(): a dial is set for this run only.
RequestDial(c) ==
  /\ At(c, "idle") /\ Ask
  /\ \E d \in Dial : \E v \in Choice(d) : Turn(d, v) /\ overridden' = overridden \cup {d}
  /\ UNCHANGED <<job, fileVars, bootDoc, listening, stale, shownVars, followVars>>

\* dispatch_config() and "persist", once the file is written.
ApplyDial(c) ==
  /\ At(c, "apply") /\ job[c].key \in Dial
  /\ Turn(job[c].key, job[c].value)
  /\ Goto(c, Idle)
  /\ UNCHANGED <<fileVars, bootDoc, listening, overridden, stale, shownVars, followVars, asks>>

\* apply_settings(): the dials the file sets are turned.
Dialled(doc) == {d \in Dial : doc[d] \in Choice(d)}

ApplyDoc(t) ==
  /\ At(t, "document")
  /\ \E lost \in SUBSET Dialled(job[t].doc) :
       /\ ~listening => lost = Dialled(job[t].doc)
       /\ dial' = [d \in Dial |-> IF d \in Dialled(job[t].doc) \ lost THEN job[t].doc[d] ELSE dial[d]]
       /\ dropped' = IF listening THEN (dropped \ Dialled(job[t].doc)) \cup lost ELSE dropped
  /\ overridden' = overridden \ Dialled(job[t].doc)
  /\ stale' = (t = "main" /\ disk # bootDoc)
  /\ Goto(t, [at |-> "follow", on |-> job[t].doc["follow"] = "on"])
  /\ UNCHANGED <<fileVars, bootDoc, listening, shownVars, followVars, asks>>

\* spawn_settings_watcher(): load_settings() takes what it cannot parse for nothing.
WatchSettings ==
  /\ touched /\ At("settings", "idle")
  /\ touched' = FALSE
  /\ Goto("settings", [at |-> "document", doc |-> disk])
  /\ UNCHANGED <<disk, tmp, fd, saved, overlap, dialVars, shownVars, followVars, asks>>

-----------------------------------------------------------------------------
(***************************************************************************)
(* ThemeService                                                            *)
(***************************************************************************)
Changing(t) == job[t].at \in {"sync", "load", "install", "push", "propagate", "catchup"}

\* t sets out to change the theme.
SetOut(t, j) ==
  /\ Goto(t, j)
  /\ themeRace' = (themeRace \/ \E u \in Task \ {t} : Changing(u))

ToLoad(n, why) == [at |-> "load", name |-> n, why |-> why]

HasPair(n) == Pair[n] \in Theme \ {n}

\* ctl theme set, toggle; "theme_set" and "theme_toggle_mode" of the panel.
ChooseTheme(c) ==
  /\ At(c, "idle") /\ Ask
  /\ \/ \E n \in Theme : SetOut(c, ToLoad(n, "hand"))
     \/ HasPair(active.name) /\ SetOut(c, ToLoad(Pair[active.name], "hand"))
  /\ UNCHANGED <<fileVars, dialVars, themeFile, themeTouched, active, attached, shellVars, desktopVars, followVars>>

\* activate(): the file is read...
LoadTheme(t) ==
  /\ At(t, "load")
  /\ LET n == job[t].name IN
       IF themeFile[n] = 0
         THEN Goto(t, Idle) /\ inStep' = (inStep /\ job[t].why # "system")
         ELSE /\ Goto(t, [at |-> "install", theme |-> [name |-> n, body |-> themeFile[n]], why |-> job[t].why])
              /\ UNCHANGED inStep
  /\ UNCHANGED <<fileVars, dialVars, shownVars, follow, scheme, asks>>

\* ... becomes the active theme under the lock...
InstallTheme(t) ==
  /\ At(t, "install")
  /\ active' = job[t].theme
  /\ inStep' = CASE job[t].why = "hand" -> FALSE [] job[t].why = "system" -> TRUE [] OTHER -> inStep
  /\ Goto(t, [at |-> "push", theme |-> job[t].theme, shell |-> attached])
  /\ UNCHANGED <<fileVars, dialVars, themeFile, themeTouched, attached, shellVars, desktopVars, themeRace, follow, scheme, asks>>

\* try_send(): a full queue loses the message.
Send(theme) ==
  \/ shellTheme' = theme /\ missed' = FALSE
  \/ missed' = TRUE /\ UNCHANGED shellTheme

\* ... is sent to the shell that was attached then...
PushTheme(t) ==
  /\ At(t, "push")
  /\ IF job[t].shell THEN Send(job[t].theme) ELSE UNCHANGED shellVars
  /\ Goto(t, [at |-> "propagate"])
  /\ UNCHANGED <<fileVars, dialVars, themeFile, themeTouched, active, attached, desktopVars, themeRace, followVars, asks>>

\* propagate_to_desktop(): a theme without the colours is none of Sway's business.
Orders(theme) == [sway |-> IF theme \in Plain THEN {} ELSE {theme}, gtk |-> {Variant[theme.name]}]

\* ... and whichever is active now goes to the compositor and the toolkits, by commands
\* nobody waits for.
Propagate(t) ==
  /\ At(t, "propagate")
  /\ running' = [d \in Display |-> running[d] \cup Orders(active)[d]]
  /\ unsure' = {d \in Display : IF Orders(active)[d] = {} THEN d \in unsure ELSE running[d] # {}}
  /\ Goto(t, Idle)
  /\ UNCHANGED <<fileVars, dialVars, themeFile, themeTouched, active, attached, shellVars, desktop, themeRace, followVars, asks>>

\* swaymsg, gsettings: one of those at work is through, or has failed.
CommandEnds ==
  /\ \E d \in Display : \E what \in running[d] :
       /\ running' = [running EXCEPT ![d] = @ \ {what}]
       /\ \/ desktop' = [desktop EXCEPT ![d] = what] /\ UNCHANGED unsure
          \/ unsure' = unsure \cup {d} /\ UNCHANGED desktop
  /\ UNCHANGED <<job, fileVars, dialVars, themeFile, themeTouched, active, attached, shellVars, themeRace, followVars, asks>>

\* The user edits or breaks a theme file.
EditTheme ==
  /\ Ask
  /\ \E n \in Theme, b \in {0, asks'} : themeFile' = [themeFile EXCEPT ![n] = b]
  /\ themeTouched' = TRUE
  /\ UNCHANGED <<job, fileVars, dialVars, active, attached, shellVars, desktopVars, themeRace, followVars>>

\* spawn_theme_watcher(), reload_active()
WatchThemes ==
  /\ themeTouched /\ At("themes", "idle")
  /\ themeTouched' = FALSE
  /\ SetOut("themes", ToLoad(active.name, "reload"))
  /\ UNCHANGED <<fileVars, dialVars, themeFile, active, attached, shellVars, desktopVars, followVars, asks>>

-----------------------------------------------------------------------------
(* The system's light or dark preference. *)

\* set_follow_system()
FollowSet(t, on) ==
  /\ follow' = on
  /\ IF on /\ scheme # Nothing THEN SetOut(t, [at |-> "sync", scheme |-> scheme])
     ELSE Goto(t, Idle) /\ UNCHANGED themeRace
  /\ UNCHANGED <<fileVars, dialVars, themeFile, themeTouched, active, attached, shellVars, desktopVars, scheme, inStep>>

RequestFollow(c) == At(c, "idle") /\ Ask /\ \E on \in BOOLEAN : FollowSet(c, on)

\* "appearance.follow_system" was persisted, or a document applied.
ApplyFollow(t) ==
  /\ UNCHANGED asks
  /\ \/ At(t, "apply") /\ job[t].key = "follow" /\ FollowSet(t, job[t].value = "on")
     \/ At(t, "follow") /\ FollowSet(t, job[t].on)

\* note_system_scheme(): only a change of the preference counts.
PortalReports ==
  /\ At("portal", "idle") /\ Ask
  /\ \E s \in {"dark", "light", "no-preference"} :
       /\ scheme' = s
       /\ IF s # scheme /\ follow THEN SetOut("portal", [at |-> "sync", scheme |-> s])
          ELSE UNCHANGED <<job, themeRace>>
  /\ UNCHANGED <<fileVars, dialVars, themeFile, themeTouched, active, attached, shellVars, desktopVars, follow, inStep>>

\* apply_system_scheme()
SyncScheme(t) ==
  /\ At(t, "sync")
  /\ LET s == job[t].scheme
         off == s \in {"dark", "light"} /\ Variant[active.name] # s
     IN /\ Goto(t, IF off /\ HasPair(active.name) THEN ToLoad(Pair[active.name], "system") ELSE Idle)
        /\ inStep' = IF off THEN inStep /\ HasPair(active.name) ELSE TRUE
  /\ UNCHANGED <<fileVars, dialVars, shownVars, follow, scheme, asks>>

-----------------------------------------------------------------------------
(* The accept loop attaches the shell. *)

\* attach_publisher() binds the queue and takes the active theme...
Attach ==
  /\ At("main", "idle") /\ ~attached
  /\ attached' = TRUE
  /\ SetOut("main", [at |-> "catchup", theme |-> active])
  /\ UNCHANGED <<fileVars, dialVars, themeFile, themeTouched, active, shellVars, desktopVars, followVars, asks>>

\* ... and sends it.
CatchUp ==
  /\ At("main", "catchup")
  /\ Send(job["main"].theme)
  /\ Goto("main", [at |-> "register"])
  /\ UNCHANGED <<fileVars, dialVars, themeFile, themeTouched, active, attached, desktopVars, themeRace, followVars, asks>>

\* The modules are registered; then the settings of the start are applied.
RegisterModules ==
  /\ At("main", "register")
  /\ listening' = TRUE
  /\ Goto("main", [at |-> "document", doc |-> bootDoc])
  /\ UNCHANGED <<fileVars, bootDoc, dial, dropped, overridden, stale, shownVars, followVars, asks>>

CallerStep(c) ==
  \/ ReadSettings(c) \/ CreateTmp(c) \/ FillTmp(c) \/ RenameTmp(c) \/ RequestDial(c) \/ ApplyDial(c)
  \/ ChooseTheme(c) \/ RequestFollow(c)

TaskStep(t) ==
  \/ ApplyDoc(t) \/ LoadTheme(t) \/ InstallTheme(t) \/ PushTheme(t) \/ Propagate(t)
  \/ ApplyFollow(t) \/ SyncScheme(t)

LookNext ==
  \/ \E c \in Requester : CallerStep(c)
  \/ \E t \in Task : TaskStep(t)
  \/ EditSettings \/ WatchSettings \/ EditTheme \/ WatchThemes \/ CommandEnds \/ PortalReports
  \/ Attach \/ CatchUp \/ RegisterModules

LookSpec == LookInit /\ [][LookNext]_lookVars

-----------------------------------------------------------------------------
(* Properties. *)

\* write_setting() "writes atomically (tmp + rename)": as long as no two writers
\* meet, levshell.toml is whole at every moment and holds what each of them put
\* there.  At rest the dials stand where the file has them, unless a request came
\* since it was applied or the engine's queue was full; the settings read at the
\* start are applied to the first shell even if the file has changed.
SettingsKept ==
  /\ ~overlap => disk = saved
  /\ (\A t \in Task : job[t].at \notin {"create", "fill", "rename", "apply", "register", "document"})
     /\ ~touched /\ listening /\ ~stale /\ ~overlap =>
       \A d \in Dial \ (overridden \cup dropped) : disk[d] \in {Unset, dial[d]}

\* At rest the compositor and the toolkits show the active theme however its
\* changes overlapped, unless the last command for them failed or overlapped with
\* another one, or the compositor is told no colours and keeps what it has.  The
\* shell shows it if no two changes overlapped, also when it was attached in
\* between, unless the last theme found its queue full; and then the theme is as
\* its file has it.  With follow-system on it is of the system's variant unless it
\* was chosen by hand since.
OnDisplay ==
  (\A t \in Task : ~Changing(t)) =>
    /\ \A d \in Display \ unsure : running[d] = {} => Orders(active)[d] \subseteq {desktop[d]}
    /\ ~themeRace /\ attached /\ ~missed => shellTheme = active
    /\ ~themeRace /\ ~themeTouched => themeFile[active.name] \in {0, active.body}
    /\ ~themeRace /\ follow /\ inStep /\ scheme \in {"dark", "light"} => Variant[active.name] = scheme

\* Writers that do not meet keep levshell.toml whole and what they wrote, and at rest
\* everything shows the active theme and the file's settings.
AppearanceKept == SettingsKept /\ OnDisplay
=============================================================================
