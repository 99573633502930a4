------------------------------ MODULE FocusMode ------------------------------
(***************************************************************************)
(* The focus-mode driver (levshell-modules, focus/): profiles with an      *)
(* auto_trigger are activated when their predicate has been true for dwell *)
(* seconds and retracted when it has been false for exit_dwell seconds, or *)
(* when the profile is gone from the configuration.  Its requests, and the *)
(* user's, reach the context engine through one bounded channel of the     *)
(* bus.  Profiles are hot-reloaded; time is discrete.                      *)
(***************************************************************************)
EXTENDS Naturals, Sequences, SequencesExt

CONSTANTS
  Profile,        \* profiles with an auto_trigger, in the order of their names
  Dwell, ExitDwell,
  Slots,          \* of the context engine's channel
  MaxTime,        \* bound on the time that passes
  MaxMoves,       \* bound on signal changes, reloads and user's requests
  NoProfile

ASSUME FocusAssumption ==
  /\ Profile \in Seq(Range(Profile)) /\ NoProfile \notin Range(Profile)
  /\ Dwell \in Nat /\ ExitDwell \in Nat /\ Slots \in Nat

VARIABLES
  configured,  \* the shared profile set
  holds,       \* per profile: its predicate over the mirrored signals
  tracker,     \* FocusModeTracker::phases, as records [at, age]; "absent" if none
  requests,    \* ProfileActionRequested events that wait for the context engine
  activeProfile, \* ContextEngineModule::active_profile
  byUser,      \* history: the user asked for the profile that is active
  requestLost, \* history: a request met a full channel
  steady,      \* history: per profile, the time for which holds has not changed
  now, moves   \* counters for the bounds

focusVars == <<configured, holds, tracker, requests, activeProfile, byUser, requestLost, steady, now, moves>>

Phase(at) == [at |-> at, age |-> 0]
Absent == Phase("absent")

FocusInit ==
  /\ configured = {Profile[i] : i \in DOMAIN Profile}
  /\ holds = [p \in configured |-> FALSE]
  /\ tracker = [p \in configured |-> Absent]
  /\ requests = <<>>
  /\ activeProfile = NoProfile
  /\ byUser = FALSE
  /\ requestLost = FALSE
  /\ steady = [p \in configured |-> 0]
  /\ now = 0 /\ moves = 0

Known == DOMAIN tracker
Move == moves < MaxMoves /\ moves' = moves + 1

\* Mutant: a predicate that fails while the profile is being activated only stops
\* the clock.
AdvancedPaused(t, true) ==
  CASE t.at \in {"absent", "inactive"} /\ true -> Phase("activating")
    [] t.at = "activating" /\ true /\ t.age >= Dwell -> Phase("active")
    [] t.at = "active" /\ ~true -> Phase("deactivating")
    [] t.at = "deactivating" /\ true -> Phase("active")
    [] t.at = "deactivating" /\ ~true /\ t.age >= ExitDwell -> Phase("inactive")
    [] t.at = "absent" /\ ~true -> Phase("inactive")
    [] OTHER -> t

\* The transition of one profile (FocusModeTracker::tick).
Advanced(t, true) ==
  CASE t.at \in {"absent", "inactive"} /\ true -> Phase("activating")
    [] t.at = "activating" /\ ~true -> Phase("inactive")
    [] t.at = "activating" /\ true /\ t.age >= Dwell -> Phase("active")
    [] t.at = "active" /\ ~true -> Phase("deactivating")
    [] t.at = "deactivating" /\ true -> Phase("active")
    [] t.at = "deactivating" /\ ~true /\ t.age >= ExitDwell -> Phase("inactive")
    [] t.at = "absent" /\ ~true -> Phase("inactive")
    [] OTHER -> t

Request(action, p, user) == [action |-> action, name |-> p, user |-> user]

\* What a profile that is still configured has published when it goes from t to u.
Emitted(p, t, u) ==
  IF t.at = "activating" /\ u.at = "active" THEN <<Request("activate", p, FALSE)>>
  ELSE IF t.at = "deactivating" /\ u.at = "inactive" THEN <<Request("deactivate", p, FALSE)>>
  ELSE <<>>

\* Profiles that disappeared are forgotten, and retracted if they were active.
Retracted(p) ==
  IF p \notin configured /\ tracker[p].at \in {"active", "deactivating"}
    THEN <<Request("deactivate", p, FALSE)>> ELSE <<>>

\* EventBus::publish, one event after the other.
Published(rs) ==
  /\ requests' = SubSeq(requests \o rs, 1, IF Len(requests \o rs) > Slots THEN Slots ELSE Len(requests \o rs))
  /\ requestLost' = (requestLost \/ Len(requests \o rs) > Slots)

\* evaluate_and_publish() over the predicates h.
Evaluate(h) ==
  LET next == [p \in Known |-> IF p \in configured THEN Advanced(tracker[p], h[p]) ELSE Absent] IN
  /\ tracker' = next
  /\ Published(
       FlattenSeq([i \in DOMAIN Profile |->
         IF Profile[i] \in configured THEN Emitted(Profile[i], tracker[Profile[i]], next[Profile[i]]) ELSE <<>>])
       \o FlattenSeq([i \in DOMAIN Profile |-> Retracted(Profile[i])]))

\* on_event(): the mirrored signals change, and are looked at.
SignalArrives ==
  /\ Move
  /\ \E p \in Known : holds' = [holds EXCEPT ![p] = ~@] /\ steady' = [steady EXCEPT ![p] = 0]
  /\ Evaluate(holds')
  /\ UNCHANGED <<configured, activeProfile, byUser, now>>

\* tick()
FocusTick ==
  /\ Evaluate(holds)
  /\ UNCHANGED <<configured, holds, activeProfile, byUser, steady, now, moves>>

\* A second passes; a tick may come late.
FocusSecond ==
  /\ now < MaxTime /\ now' = now + 1
  /\ steady' = [p \in Known |-> steady[p] + 1]
  /\ tracker' = [p \in Known |->
       IF tracker[p].at \in {"activating", "deactivating"} THEN [tracker[p] EXCEPT !.age = @ + 1]
       ELSE tracker[p]]
  /\ UNCHANGED <<configured, holds, requests, activeProfile, byUser, requestLost, moves>>

\* The profile directory is read again (spawn_profile_watcher).
ReloadProfiles ==
  /\ Move
  /\ configured' \in SUBSET Known
  /\ UNCHANGED <<holds, tracker, requests, activeProfile, byUser, requestLost, steady, now>>

\* levshell-ctl profile activate, cycle.
UserAsks ==
  /\ Move
  /\ \E p \in Known : Published(<<Request("activate", p, TRUE)>>)
       \/ Published(<<Request("cycle", NoProfile, TRUE)>>)
  /\ UNCHANGED <<configured, holds, tracker, activeProfile, byUser, steady, now>>

-----------------------------------------------------------------------------
(* ContextEngineModule::apply_profile_action *)

Configured == SelectSeq(Profile, LAMBDA p : p \in configured)

\* "cycle": the next name, the first one if none is active or its name is gone.
Following ==
  IF activeProfile \in configured
    THEN LET i == SelectInSeq(Configured, LAMBDA p : p = activeProfile)
         IN Configured[(i % Len(Configured)) + 1]
    ELSE Configured[1]

Becomes(r) ==
  CASE r.action = "activate" /\ r.name \in configured -> r.name
    [] r.action = "deactivate" /\ r.name = activeProfile -> NoProfile
    [] r.action = "cycle" /\ configured # {} -> Following
    [] OTHER -> activeProfile

\* r makes its profile the active one, which it may have been before.
Chooses(r) ==
  \/ r.action = "activate" /\ r.name \in configured
  \/ r.action = "cycle" /\ configured # {}

ApplyProfileAction ==
  /\ requests # <<>>
  /\ requests' = Tail(requests)
  /\ activeProfile' = Becomes(Head(requests))
  /\ byUser' = IF Chooses(Head(requests)) THEN Head(requests).user ELSE byUser
  /\ UNCHANGED <<configured, holds, tracker, requestLost, steady, now, moves>>

FocusNext ==
  SignalArrives \/ FocusTick \/ FocusSecond \/ ReloadProfiles \/ UserAsks \/ ApplyProfileAction

FocusSpec == FocusInit /\ [][FocusNext]_focusVars

-----------------------------------------------------------------------------
(* Properties. *)

\* "this is how the focus-mode driver safely retracts an auto-activation": once
\* all requests are handled and unless one was lost, a profile that is active and
\* that the user did not ask for is one the tracker still holds active, so that
\* the end of its predicate or of its configuration will retract it.
AutoRetracted ==
  requests = <<>> /\ ~requestLost /\ activeProfile # NoProfile /\ ~byUser =>
    tracker[activeProfile].at \in {"active", "deactivating"}

\* A profile is activated after its predicate held for the whole dwell, and
\* retracted after it failed for the whole exit dwell, however the ticks, the
\* signals and the reloads fall.
DwellIsWhole ==
  \A p \in Known :
    /\ tracker[p].at = "activating" /\ tracker'[p].at = "active" => holds[p] /\ steady[p] >= Dwell
    /\ tracker[p].at = "deactivating" /\ tracker'[p].at = "inactive" => ~holds[p] /\ steady[p] >= ExitDwell

\* What a trigger activated is retracted, and every dwell is whole.
FocusFollows == []AutoRetracted /\ [][DwellIsWhole]_focusVars
=============================================================================
