------------------------------- MODULE Returns -------------------------------
(***************************************************************************)
(* Modules that notice where the user goes: the interruption-cost pill     *)
(* (interruption/), the Anki review suggestion (anki_review.rs) and warmup *)
(* (warmup/), whose last firing is kept in a file.  Each module hears the  *)
(* Sway events through a channel of its own, so each is given a sequence   *)
(* of its own.  The daemon may stop at any time and start again.           *)
(***************************************************************************)
EXTENDS Naturals

CONSTANTS
  Spot,        \* workspaces; each is taken for a project with cards
  Away,        \* InterruptionTracker::min_away_secs
  Cooldown,    \* of the review suggestions
  Gap,         \* WarmupConfig::gap_secs, at least 1
  DayLength,   \* of a calendar day
  Horizon,     \* bound on the time that passes
  Never

ASSUME ReturnsAssumption ==
  /\ Gap \in Nat \ {0} /\ DayLength \in Nat \ {0}
  /\ Away \in Nat /\ Cooldown \in Nat
  /\ Never \notin Spot /\ Never \notin Nat

VARIABLES
  hour,        \* the clock, monotonic and wall clock alike
  spot, leftAt,   \* InterruptionTracker
  pill,        \* the state published last: [spot, away, truly], or Never; truly is history
  seenAt,      \* history: per workspace, when the user was last there
  due,         \* per project: cards are due
  nudgedAt,    \* AnkiReviewModule::last_nudged
  nudges,      \* history: the times of the suggestions, per project
  dayTrigger,  \* WarmupConfig::calendar_day_trigger, read at the start
  lastActivity, \* TriggerState
  warmedAt,    \* last_warmup_at
  warmFile,    \* warmup.json
  warming,     \* fire(): where it stands
  firedAt,     \* history: the time of the last firing, automatic or not
  fileLost,    \* history: a firing did not reach the file
  restarts

returnVars == <<hour, spot, leftAt, pill, seenAt, due, nudgedAt, nudges, dayTrigger, lastActivity, warmedAt, warmFile, warming, firedAt, fileLost, restarts>>
pillVars == <<spot, leftAt, pill, seenAt>>
reviewVars == <<due, nudgedAt, nudges>>
warmVars == <<dayTrigger, lastActivity, warmedAt, warmFile, warming, firedAt, fileLost>>

Awake == [at |-> "idle"]

ReturnsInit ==
  /\ hour = 0
  /\ spot = Never /\ leftAt = [s \in Spot |-> Never] /\ pill = Never /\ seenAt = leftAt
  /\ due = [s \in Spot |-> TRUE] /\ nudgedAt = leftAt /\ nudges = [s \in Spot |-> {}]
  /\ dayTrigger = FALSE /\ lastActivity = Never /\ warmedAt = Never /\ warmFile = Never /\ warming = Awake
  /\ firedAt = Never /\ fileLost = FALSE
  /\ restarts = 0

HourPasses ==
  /\ hour < Horizon /\ hour' = hour + 1
  /\ seenAt' = IF spot = Never THEN seenAt ELSE [seenAt EXCEPT ![spot] = hour']
  /\ UNCHANGED <<spot, leftAt, pill, reviewVars, warmVars, restarts>>

-----------------------------------------------------------------------------
(* InterruptionTracker::apply_focus() *)

\* An event that names the current workspace is not a return to it.
ApplyFocus(s) ==
  /\ s # spot
  /\ leftAt' = IF spot = Never THEN leftAt ELSE [leftAt EXCEPT ![spot] = hour]
  /\ spot' = s
  /\ pill' = IF leftAt'[s] # Never /\ hour - leftAt'[s] >= Away
               THEN [spot |-> s, away |-> hour - leftAt'[s], truly |-> hour - seenAt[s]] ELSE pill
  /\ seenAt' = [seenAt EXCEPT ![s] = hour]
  /\ UNCHANGED <<hour, reviewVars, warmVars, restarts>>

-----------------------------------------------------------------------------
(* AnkiReviewModule::on_workspace() *)

Suggest(s) ==
  /\ due[s]
  /\ nudgedAt[s] # Never => hour - nudgedAt[s] >= Cooldown
  /\ nudgedAt' = [nudgedAt EXCEPT ![s] = hour]
  /\ nudges' = [nudges EXCEPT ![s] = @ \cup {hour}]
  /\ UNCHANGED <<hour, pillVars, due, warmVars, restarts>>

CardsChange(s) ==
  /\ due' = [due EXCEPT ![s] = ~@]
  /\ UNCHANGED <<hour, pillVars, nudgedAt, nudges, warmVars, restarts>>

-----------------------------------------------------------------------------
(* WarmupModule *)

Day(t) == t \div DayLength

\* Mutant: the stamp of the last firing is not looked at.
WouldFireAgain == lastActivity = Never \/ hour - lastActivity >= Gap

\* would_fire()
WouldFire ==
  \/ dayTrigger /\ (warmedAt = Never \/ Day(warmedAt) < Day(hour))
  \/ /\ lastActivity = Never \/ hour - lastActivity >= Gap
     /\ warmedAt = Never \/ hour - warmedAt >= Gap

\* on_activity(), TriggerState::decide() of an enabled module
Activity ==
  /\ warming = Awake
  /\ lastActivity' = hour
  /\ warming' = IF WouldFire THEN [at |-> "publish", stamp |-> hour, asked |-> FALSE] ELSE Awake
  /\ UNCHANGED <<hour, pillVars, reviewVars, dayTrigger, warmedAt, warmFile, firedAt, fileLost, restarts>>

\* levshell-ctl warmup open
OpenWarmup ==
  /\ warming = Awake
  /\ warming' = [at |-> "publish", stamp |-> hour, asked |-> TRUE]
  /\ UNCHANGED <<hour, pillVars, reviewVars, dayTrigger, lastActivity, warmedAt, warmFile, firedAt, fileLost, restarts>>

\* fire(): without a payload it returns; a message the shell's channel has no room
\* for counts as sent.
Publish ==
  /\ warming.at = "publish"
  /\ warming' = [at |-> "persist", stamp |-> warming.stamp]
  /\ warmedAt' = warming.stamp
  /\ firedAt' = warming.stamp
  /\ UNCHANGED <<hour, pillVars, reviewVars, dayTrigger, lastActivity, warmFile, fileLost, restarts>>

NoPayload ==
  /\ warming.at = "publish" /\ warming' = Awake
  /\ UNCHANGED <<hour, pillVars, reviewVars, dayTrigger, lastActivity, warmedAt, warmFile, firedAt, fileLost, restarts>>

\* PersistedWarmupState::save(), whose failures are logged: the file may be as it
\* was, or cut short, which is as good as none.
Persist ==
  /\ warming.at = "persist" /\ warming' = Awake
  /\ \/ warmFile' = warming.stamp /\ fileLost' = FALSE
     \/ warmFile' \in {warmFile, Never} /\ fileLost' = TRUE
  /\ UNCHANGED <<hour, pillVars, reviewVars, dayTrigger, lastActivity, warmedAt, firedAt, restarts>>

\* The daemon stops wherever it is and starts again (with_config(), load()).
Restart ==
  /\ restarts < 2 /\ restarts' = restarts + 1
  /\ spot' = Never /\ leftAt' = [s \in Spot |-> Never] /\ pill' = Never /\ seenAt' = leftAt'
  /\ nudgedAt' = leftAt' /\ nudges' = [s \in Spot |-> {}]
  /\ fileLost' = (fileLost \/ warming.at = "persist")
  /\ warmFile' \in (IF warming.at = "persist" THEN {warmFile, Never} ELSE {warmFile})
  /\ dayTrigger' \in BOOLEAN /\ lastActivity' = Never /\ warmedAt' = warmFile' /\ warming' = Awake
  /\ UNCHANGED <<hour, due, firedAt>>

\* The three modules share nothing but the clock and the restart; each has a
\* next-state relation of its own.
PillNext == HourPasses \/ Restart \/ \E s \in Spot : ApplyFocus(s)
ReviewNext == HourPasses \/ Restart \/ \E s \in Spot : Suggest(s) \/ CardsChange(s)
WarmupNext == HourPasses \/ Restart \/ Activity \/ OpenWarmup \/ Publish \/ NoPayload \/ Persist

ReturnsSpec == ReturnsInit /\ [][PillNext \/ ReviewNext \/ WarmupNext]_returnVars

-----------------------------------------------------------------------------
(* Property. *)

\* Restarts included, warmup does not fire by itself within the gap of any firing
\* (or twice in a calendar day, where that is the trigger) unless the stamp of a
\* firing never reached its file; the user is not asked to review a project's
\* cards twice within the cooldown; and the pill tells the whole time since the
\* user left, of the workspace that is entered.
NobodyIsNagged ==
  /\ warming.at = "publish" /\ ~warming.asked /\ firedAt # Never /\ ~fileLost =>
       hour - firedAt >= Gap \/ (dayTrigger /\ Day(firedAt) < Day(hour))
  /\ \A s \in Spot : \A t, u \in nudges[s] : t < u => u - t >= Cooldown
  /\ pill # Never => pill.away >= Away /\ pill.away = pill.truly
=============================================================================
