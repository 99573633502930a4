------------------------------- MODULE MCWatch -------------------------------
(***************************************************************************)
(* What the daemon watches, fetches and answers for the shell, in one      *)
(* instance: "part" says which of these components moves.  A few windows,  *)
(* messages, readings, hosts, papers, builds, notes and applications.      *)
(***************************************************************************)
EXTENDS SwayBridge, Fleet, RubberDuck, Telemetry, Feeds, Palette

CONSTANT None

VARIABLES
  part,
  \* Snapshot (its desktop is windows here)
  windows, front, saving, plan, starting, settled, cons, hands,
  \* Ideation
  kinds, projects, entities, stage, offered, toList, toRead, ahead, recentOnes, graphFailed, held, fired, nudge,
  agenda, scanned, pulseRead, deadlines, changes

snapshotTuple == <<windows, front, saving, plan, starting, settled, cons, hands>>
ideationTuple ==
  <<kinds, projects, entities, stage, offered, toList, toRead, ahead, recentOnes, graphFailed, held, fired, nudge,
    agenda, scanned, pulseRead, deadlines, changes>>
bridgeTuple == <<swayVars, bridgeVars, behind>>
watchVars ==
  <<part, snapshotTuple, duckVars, telemetryVars, fleetVars, feedVars, ideationTuple, paletteVars, bridgeTuple>>

-----------------------------------------------------------------------------
Snap == INSTANCE Snapshot
  WITH desktop <- windows, Screen <- <<"v", "w">>, Title <- {"t", "u"}, MaxCons <- 3, MaxHands <- 7, Empty <- None

\* Host files: two of them, a malformed one, and one host under two names' files.
HostOf(n, roles) == [name |-> n, roles |-> roles]
MCDirectories ==
  {<< <<HostOf("a", {"ssh"})>>, <<HostOf("b", {"ssh", "jobs"})>> >>,
   << <<HostOf("a", {"ssh", "gpu"})>>, None >>,
   << <<HostOf("a", {"ssh"})>>, <<HostOf("b", {}), HostOf("a", {"gpu"})>> >>}

MCOffered == <<"performance", "turbo", "balanced">>

Idea == INSTANCE Ideation
  WITH Proj <- {"p", "q"}, ProjTags <- [p \in {"p", "q"} |-> IF p = "p" THEN {"x"} ELSE {}],
       Notes <- {"n"}, References <- {"r"}, EntityTags <- [e \in {"n", "r"} |-> IF e = "n" THEN {"x"} ELSE {}],
       Links <- {<<"n", "r">>}, Gone <- None, ScanLimit <- 2, MaxDeadlines <- 2, MaxChanges <- 2

-----------------------------------------------------------------------------
\* Two applications, one of them installed twice, and what else "f" finds.
Typed == {"", "f"}
Icon(qualified, words) == [qualified |-> qualified, words |-> words]
Installed(id, title, tier, icon) ==
  [id |-> id, title |-> title, fits |-> [q \in Typed |-> IF q = "" THEN "none" ELSE tier], icon |-> icon]
Applications ==
  <<Installed("fx", 2, "prefix", Icon(TRUE, <<"x", "y">>)), Installed("fx", 1, "within", Icon(FALSE, <<"z">>)),
    Installed("ed", 3, "command", Icon(FALSE, <<"x", "y">>))>>
Hit(id, fits) == <<[id |-> id, title |-> 1, rank |-> 0, fits |-> fits]>>
FoundBy ==
  [p \in {"note-search", "ref-search", "recent-docs", "unicode", "calc", "workspace-switcher"} |->
    [q \in Typed |->
      CASE p = "workspace-switcher" -> Hit("w", IF q = "" THEN "all" ELSE "prefix")
        [] p = "recent-docs" -> Hit("d", "all")
        [] p \in {"note-search", "ref-search"} /\ q # "" -> Hit(IF p = "note-search" THEN "n" ELSE "r", "all")
        [] OTHER -> <<>>]]
Linked == [e \in {"n", "r"} |-> IF e = "n" THEN <<[id |-> "r", title |-> 1]>> ELSE <<>>]

\* Themes that inherit each other and the common one, in the middle.
ThemeNames == {"a", "b", "hicolor"}
Inherited == [t \in ThemeNames |-> CASE t = "a" -> <<"hicolor", "b">> [] t = "b" -> <<"a">> [] OTHER -> <<>>]
IconFiles ==
  [p \in ThemeNames \cup {"pixmaps", "loose"} |->
    IF p \in {"b", "hicolor"} THEN {Icon(FALSE, <<"x">>)} ELSE IF p = "a" THEN {Icon(FALSE, <<"z">>)} ELSE {}]

MCInheritances == {Inherited}

-----------------------------------------------------------------------------
\* A part that does not move starts in one way only.
WatchInit ==
  /\ part \in {"snapshot", "duck", "power", "profile", "counters", "load", "fleet", "arxiv", "latex", "sniper",
               "library", "nudges", "pulse", "palette", "sway"}
  /\ Snap!SnapshotInit /\ DuckInit /\ TelemetryInit /\ FleetInit /\ FeedsInit
  /\ Idea!IdeationInit /\ PaletteInit /\ SwayInit
  /\ part # "duck" => enabled
  /\ part # "power" => draining
  /\ part # "fleet" => Len(hosts) = 2
  /\ part # "latex" => resultOf = "a"
  /\ part # "nudges" => Len(kinds) = 3 /\ entities["r"].project = None
  /\ part # "sway" => inFocus = "v"

WatchNext ==
  /\ part' = part
  /\ \/ /\ part = "snapshot" /\ Snap!SnapshotNext
        /\ UNCHANGED <<duckVars, telemetryVars, fleetVars, feedVars, ideationTuple, paletteVars, bridgeTuple>>
     \/ /\ part = "duck" /\ DuckNext
        /\ UNCHANGED <<snapshotTuple, telemetryVars, fleetVars, feedVars, ideationTuple, paletteVars, bridgeTuple>>
     \/ /\ \/ part = "power" /\ PowerNext
           \/ part = "profile" /\ ProfileNext
           \/ part = "counters" /\ CounterNext
           \/ part = "load" /\ LoadNext
        /\ UNCHANGED <<snapshotTuple, duckVars, fleetVars, feedVars, ideationTuple, paletteVars, bridgeTuple>>
     \/ /\ part = "fleet" /\ FleetNext
        /\ UNCHANGED <<snapshotTuple, duckVars, telemetryVars, feedVars, ideationTuple, paletteVars, bridgeTuple>>
     \/ /\ \/ part = "arxiv" /\ ArxivNext
           \/ part = "latex" /\ LatexNext
           \/ part = "sniper" /\ SniperNext
           \/ part = "library" /\ LibraryNext
        /\ UNCHANGED <<snapshotTuple, duckVars, telemetryVars, fleetVars, ideationTuple, paletteVars, bridgeTuple>>
     \/ /\ \/ part = "nudges" /\ Idea!NudgeNext
           \/ part = "pulse" /\ Idea!PulseNext
        /\ UNCHANGED <<snapshotTuple, duckVars, telemetryVars, fleetVars, feedVars, paletteVars, bridgeTuple>>
     \/ /\ part = "palette" /\ PaletteNext
        /\ UNCHANGED <<snapshotTuple, duckVars, telemetryVars, fleetVars, feedVars, ideationTuple, bridgeTuple>>
     \/ /\ part = "sway" /\ SwayNext
        /\ UNCHANGED <<snapshotTuple, duckVars, telemetryVars, fleetVars, feedVars, ideationTuple, paletteVars>>

WatchSpec == WatchInit /\ [][WatchNext]_watchVars

-----------------------------------------------------------------------------
\* Snapshot: a restore leaves every window where the snapshot has it.
RestoreSettles == Snap!RestoreSettles

=============================================================================
