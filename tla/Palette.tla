------------------------------ MODULE Palette ------------------------------
(***************************************************************************)
(* The command palette, from the key pressed to the application started:   *)
(* the overlay of the shell (widgets/CommandPalette.qml, main.qml), the    *)
(* daemon's module (levshell-modules/src/palette/module.rs) that asks its  *)
(* providers, and the application launcher with its icon themes and its    *)
(* file of recent launches (palette/app_launcher.rs).  Shell and module    *)
(* each keep a copy of the query and exchange them over two queues that    *)
(* drop what does not fit.  Scores are in hundredths.                      *)
(***************************************************************************)
EXTENDS Naturals, SequencesExt, FiniteSets

CONSTANTS
  Text, Blank,        \* what can be typed, and the empty query
  Entries,             \* desktop files in directory order: [id, title, fits, icon];
                       \* fits[q] \in {"exact", "prefix", "within", "command", "none"}
  Found,               \* per other provider and query: [id, title, rank, fits], best first
  LinksFrom,           \* per note or reference: what it is linked to, [id, title]
  Theme, Hicolor,      \* icon themes
  Inheritances,        \* the Inherits= lists they may have: functions of Theme
  Drawn,               \* per place ("pixmaps", "loose", a theme): the icon names it has
  Nil,                \* no theme, no icon, or a cut-off file
  Limit,               \* of results (256)
  AskSlots, UpdateSlots, \* of the two queues (256)
  MaxMoves, MaxDays, MaxRestarts \* bounds on what users, time and crashes do

App == {Entries[i].id : i \in DOMAIN Entries}
Never == [a \in App |-> 0]

\* The providers are those of default_palette_providers(), beside the two modelled here; ranks and
\* titles can be compared, themes inherit themes, and Nil is none of them and no history.
ASSUME PaletteAssumption ==
  /\ Blank \in Text /\ Limit \in Nat /\ Hicolor \in Theme
  /\ \A f \in Inheritances : f \in [Theme -> Seq(Theme)]
  /\ Nil \notin Text \cup Theme \cup [App -> Nat]
  /\ Entries \in Seq(ToSet(Entries))
  /\ \A e \in ToSet(Entries) :
       e.title \in Nat /\ e.fits \in [Text -> {"exact", "prefix", "within", "command", "none"}]
  /\ DOMAIN Found = {"calc", "note-search", "recent-docs", "ref-search", "unicode", "workspace-switcher"}
  /\ \A p \in DOMAIN Found, q \in Text :
       /\ Found[p][q] \in Seq(ToSet(Found[p][q]))
       /\ \A hit \in ToSet(Found[p][q]) :
            /\ hit.title \in Nat /\ hit.rank \in Nat
            /\ p = "workspace-switcher" => hit.fits \in {"all", "exact", "prefix", "within"}
            /\ p \in {"note-search", "ref-search"} =>
                 /\ LinksFrom[hit.id] \in Seq(ToSet(LinksFrom[hit.id]))
                 /\ \A n \in ToSet(LinksFrom[hit.id]) : n.title \in Nat

VARIABLES
  palPhase,            \* "down", "themes", "up": a provider is made when the shell connects
  inherits, themeStack, chain, icons, \* walking the themes; per entry the icon found
  palette,             \* the module's [open, query, results]; sought: history, the query of the results
  searching,           \* refresh_results() awaits the providers
  palAsks, palUpdates, \* events to the module; updates to the shell
  shownPal, field, fading, \* the shell's copy, its text field, the closing animation
  launches, launchFile,\* per application the day it was last started, 0 if never; the file
  recording, unsaved,  \* the file is being written; the last write failed
  remembered,          \* history: what launches should say
  palCut,              \* history: a search was cut off, "never", "once", or since the last update "now"
  palLost, launchesLost, \* history: a queue was full; a restart found less than it should
  palDay, palMoves, palRestarts

walkVars == <<inherits, themeStack, chain, icons>>
moduleVars == <<palette, searching, palCut>>
shellVars == <<shownPal, field, fading>>
launchVars == <<launches, launchFile, recording, unsaved, remembered, launchesLost>>
boundVars == <<palDay, palMoves, palRestarts>>
paletteVars == <<palPhase, walkVars, moduleVars, palAsks, palUpdates, shellVars, launchVars, palLost, boundVars>>

Shut == [open |-> FALSE, query |-> Blank, results |-> <<>>, sought |-> Nil]

PaletteInit ==
  /\ palPhase = "down" /\ inherits \in Inheritances
  /\ themeStack = <<>> /\ chain = <<>> /\ icons = [i \in DOMAIN Entries |-> Nil]
  /\ palette = Shut /\ searching = FALSE /\ palCut = "never" /\ palAsks = <<>> /\ palUpdates = <<>>
  /\ shownPal = Shut /\ field = Blank /\ fading = FALSE
  /\ launches = Never /\ launchFile = Never /\ recording = FALSE /\ unsaved = FALSE
  /\ remembered = Never /\ palLost = FALSE /\ launchesLost = FALSE
  /\ palDay = 1 /\ palMoves = 0 /\ palRestarts = 0

-----------------------------------------------------------------------------
(* Icon themes, and the start of the module *)

\* The shell connects and the module is made; the user may have set no theme.
ConnectPalette ==
  /\ palPhase = "down" /\ palPhase' = "themes"
  /\ \E t \in Theme \cup {Nil} : themeStack' = IF t = Nil THEN <<>> ELSE <<t>>
  /\ chain' = <<>>
  /\ UNCHANGED <<inherits, icons, moduleVars, palAsks, palUpdates, shellVars, launchVars, palLost, boundVars>>

\* build_theme_chain(): a theme that was visited is passed over.
Visit(c, t) == IF t \in ToSet(c) THEN c ELSE Append(c, t)

\* One turn of its loop: the inherited themes go on the stack, the first on top.
WalkThemes ==
  /\ palPhase = "themes" /\ themeStack # <<>>
  /\ LET t == Head(themeStack)
     IN /\ chain' = Visit(chain, t)
        /\ themeStack' = IF t \in ToSet(chain) THEN Tail(themeStack) ELSE inherits[t] \o Tail(themeStack)
  /\ UNCHANGED <<palPhase, inherits, icons, moduleVars, palAsks, palUpdates, shellVars, launchVars, palLost, boundVars>>

\* icon_name_fallbacks(): as it is, its tail after the last dot, and both without their last words.
Fallbacks(name) ==
  LET Shorter(n) == [k \in 1..(Len(n.words) - 1) |-> [n EXCEPT !.words = SubSeq(@, 1, Len(@) - k)]]
      tail == [name EXCEPT !.qualified = FALSE]
  IN IF name.qualified THEN <<name, tail>> \o Shorter(name) \o Shorter(tail) ELSE <<name>> \o Shorter(name)

\* resolve(): the first of them that is anywhere, pixmaps and loose icons before the chain's themes.
IconOf(name, themes) ==
  LET places == <<"pixmaps", "loose">> \o themes
      names == Fallbacks(name)
      Has(n, place) == n \in Drawn[place]
      found == {k \in DOMAIN names : \E j \in DOMAIN places : Has(names[k], places[j])}
  IN IF found = {} THEN Nil
     ELSE LET n == names[CHOOSE k \in found : \A l \in found : k <= l]
              at == {j \in DOMAIN places : Has(n, places[j])}
          IN [name |-> n, place |-> places[CHOOSE j \in at : \A l \in at : j <= l]]

\* LaunchHistory::load(): what cannot be parsed is an empty history, and so is what cannot be read.
Loaded == IF launchFile = Nil THEN Never ELSE launchFile

\* The end of the loop, AppLauncherProvider::new(), and start() with its first update.
BeginPalette ==
  /\ palPhase = "themes" /\ themeStack = <<>> /\ palPhase' = "up"
  /\ chain' = IF Hicolor \in ToSet(chain) THEN chain ELSE Append(chain, Hicolor)
  /\ icons' = [i \in DOMAIN Entries |-> IconOf(Entries[i].icon, chain')]
  /\ launches' \in {Loaded, Never} /\ launchesLost' = (launchesLost \/ launches' # Loaded)
  /\ palUpdates' = <<Shut>>
  /\ UNCHANGED <<inherits, themeStack, moduleVars, palAsks, shellVars, launchFile, recording, unsaved,
                 remembered, palLost, boundVars>>

-----------------------------------------------------------------------------
(* Searching *)

Least(a, b) == IF a < b THEN a ELSE b

\* score_entry() and recency_boost(): a tenth at most, fading with the days.
AppScore(entry, q) ==
  LET base == IF q = Blank THEN 40
              ELSE CASE entry.fits[q] = "exact" -> 100 [] entry.fits[q] = "prefix" -> 90
                     [] entry.fits[q] = "within" -> 70 [] entry.fits[q] = "command" -> 40
      last == launches[entry.id]
      boost == IF last = 0 THEN 0 ELSE IF last = palDay THEN 10 ELSE 4
  IN Least(100, base + boost)

\* What the other providers give a hit of this rank.
ScoreAt(provider, hit) ==
  CASE provider = "note-search" -> 75 - Least(30, 3 * hit.rank)
    [] provider = "ref-search" -> 72 - Least(30, 3 * hit.rank)
    [] provider = "links" -> 50 - Least(20, 2 * hit.rank)
    [] provider = "recent-docs" -> 68 - Least(30, 2 * hit.rank)
    [] provider = "unicode" -> 70 - Least(25, hit.rank)
    [] provider = "calc" -> 99
    [] provider = "workspace-switcher" ->
         CASE hit.fits = "all" -> 50 [] hit.fits = "exact" -> 100 [] hit.fits = "prefix" -> 85 [] hit.fits = "within" -> 65

\* LinksProvider: what is linked to the best note, or else to the best reference.
LinksOf(q) ==
  LET best == Found["note-search"][q] \o Found["ref-search"][q]
      near == IF best = <<>> THEN <<>> ELSE LinksFrom[best[1].id]
  IN [i \in DOMAIN near |-> [id |-> near[i].id, title |-> near[i].title, rank |-> i - 1]]

Hits(provider, q) == IF provider = "links" THEN LinksOf(q) ELSE Found[provider][q]

\* A PaletteItem, and its place among those of its provider.
Item(provider, hit, score, icon, nth) ==
  [provider |-> provider, id |-> hit.id, title |-> hit.title, score |-> score, icon |-> icon, nth |-> nth]

AppItems(q) ==
  LET Fits(e) == q = Blank \/ e.fits[q] # "none"
  IN {Item("app-launcher", Entries[i], AppScore(Entries[i], q), icons[i], i) :
        i \in {j \in DOMAIN Entries : Fits(Entries[j])}}

OtherItems(q) ==
  UNION {{Item(p, Hits(p, q)[i], ScoreAt(p, Hits(p, q)[i]), Nil, i) : i \in DOMAIN Hits(p, q)} :
           p \in DOMAIN Found \cup {"links"}}

\* The order of merge_results(), which keeps equals as they came.
ProviderOrder == <<"app-launcher", "calc", "links", "note-search", "recent-docs", "ref-search",
                   "unicode", "workspace-switcher">>
Precedes(a, b) ==
  LET Place(p) == CHOOSE i \in DOMAIN ProviderOrder : ProviderOrder[i] = p
  IN \/ a.score > b.score
     \/ a.score = b.score /\ \/ Place(a.provider) < Place(b.provider)
                             \/ a.provider = b.provider /\ \/ a.title < b.title
                                                           \/ a.title = b.title /\ a.nth < b.nth

\* refresh_results().
Results(q) ==
  LET all == AppItems(q) \cup OtherItems(q)
      Before(x) == Cardinality({y \in all : Precedes(y, x)})
  IN [k \in 1..Least(Limit, Cardinality(all)) |-> CHOOSE x \in all : Before(x) = k - 1]

-----------------------------------------------------------------------------
(* The module's events, and starting an application *)

\* What an event sets before anything is searched for: apply_query(), apply_palette_action().
Applied(p, ask) ==
  CASE ask.type = "query" -> [p EXCEPT !.query = ask.query]
    [] ask.type = "action" /\ ask.action = "open" ->
         [p EXCEPT !.open = TRUE, !.query = IF ask.query = Nil THEN @ ELSE ask.query]
    [] ask.type = "action" /\ ask.action = "close" -> Shut
    [] ask.type = "action" /\ ask.action = "toggle" -> IF p.open THEN Shut ELSE [p EXCEPT !.open = TRUE]
    [] ask.type = "action" /\ ask.action = "query" -> IF ask.query = Nil THEN p ELSE [p EXCEPT !.query = ask.query]

\* Mutant: what is typed is searched for with the next action only.
SeeksOnAction(p, ask) == ask.type = "action" /\ ask.action \in {"open", "toggle"} /\ ~p.open

\* Whether it is searched for: a closed palette only remembers its query.
Seeks(p, ask) ==
  CASE ask.type = "query" -> p.open
    [] ask.type = "action" /\ ask.action = "open" -> TRUE
    [] ask.type = "action" /\ ask.action = "close" -> FALSE
    [] ask.type = "action" /\ ask.action = "toggle" -> ~p.open
    [] ask.type = "action" /\ ask.action = "query" -> ask.query # Nil /\ p.open

\* publish(): what does not fit is dropped.
Publish ==
  /\ palCut' = IF palCut = "now" THEN "once" ELSE palCut
  /\ IF Len(palUpdates) < UpdateSlots THEN palUpdates' = Append(palUpdates, palette') /\ palLost' = palLost
     ELSE palLost' = TRUE /\ UNCHANGED palUpdates

HearNext ==
  palPhase = "up" /\ ~searching /\ ~recording /\ palAsks # <<>> /\ palAsks' = Tail(palAsks)

\* on_event(): a query or an action.
HearAsk ==
  /\ HearNext /\ Head(palAsks).type \in {"query", "action"}
  /\ palette' = Applied(palette, Head(palAsks)) /\ searching' = Seeks(palette, Head(palAsks))
  /\ IF searching' THEN UNCHANGED <<palUpdates, palCut, palLost>> ELSE Publish
  /\ UNCHANGED <<palPhase, walkVars, shellVars, launchVars, boundVars>>

\* refresh_results(), and then the update.
EndSearch ==
  /\ searching /\ searching' = FALSE
  /\ palette' = [palette EXCEPT !.results = Results(palette.query), !.sought = palette.query] /\ Publish
  /\ UNCHANGED <<palPhase, walkVars, palAsks, shellVars, launchVars, boundVars>>

\* A provider that does not answer: the runner drops the handler, with the query set and nothing told.
CutSearch ==
  /\ searching /\ searching' = FALSE /\ palCut' = "now"
  /\ UNCHANGED <<palPhase, walkVars, palette, palAsks, palUpdates, palLost, shellVars, launchVars, boundVars>>

\* apply_select(): whatever comes of it the palette closes, unless nobody offers such items,
\* or a provider (they ask Sway and open documents) hangs until the runner drops the handler.
HearSelect ==
  /\ HearNext /\ Head(palAsks).type = "select"
  /\ \/ /\ palette' = IF Head(palAsks).provider \in ToSet(ProviderOrder) THEN Shut ELSE palette
        /\ Publish
     \/ /\ Head(palAsks).provider \in ToSet(ProviderOrder) \ {"app-launcher"}
        /\ UNCHANGED <<palette, palUpdates, palCut, palLost>>
  /\ UNCHANGED <<palPhase, walkVars, searching, shellVars, launchVars, boundVars>>

\* The first application of that id is started, if it can be, and recorded.
HearLaunch ==
  /\ HearNext /\ Head(palAsks).type = "select"
  /\ LET ask == Head(palAsks)
     IN /\ ask.provider = "app-launcher" /\ ask.id \in App
        /\ launches' = [launches EXCEPT ![ask.id] = palDay]
        /\ remembered' = [remembered EXCEPT ![ask.id] = palDay]
        /\ recording' = TRUE
  /\ UNCHANGED <<palPhase, walkVars, moduleVars, palUpdates, palLost, shellVars, launchFile, unsaved, launchesLost, boundVars>>

\* persist(): the whole file, or an error that is only logged, the file as it was or cut off; then the
\* palette closes.
EndRecord ==
  /\ palPhase = "up" /\ recording /\ recording' = FALSE
  /\ \/ launchFile' = launches /\ unsaved' = FALSE
     \/ unsaved' = TRUE /\ launchFile' \in {launchFile, Nil}
  /\ palette' = Shut /\ Publish
  /\ UNCHANGED <<palPhase, walkVars, searching, palAsks, shellVars, launches, remembered, launchesLost, boundVars>>

-----------------------------------------------------------------------------
(* The shell and the command line *)

Move == palMoves < MaxMoves /\ palMoves' = palMoves + 1 /\ UNCHANGED <<palDay, palRestarts>>

\* A message to a daemon that is there; the bus drops what does not fit.
SendAsk(ask) ==
  IF palPhase = "up" /\ Len(palAsks) < AskSlots THEN palAsks' = Append(palAsks, ask) /\ palLost' = palLost
  ELSE /\ palLost' = (palLost \/ palPhase = "up")
       /\ UNCHANGED palAsks

\* onPaletteStateChanged and onPaletteDataChanged: an open palette gets the daemon's text.
Receive ==
  /\ palUpdates # <<>> /\ palUpdates' = Tail(palUpdates) /\ shownPal' = Head(palUpdates)
  /\ field' = IF shownPal'.open THEN shownPal'.query ELSE field
  /\ fading' = (~shownPal'.open /\ (shownPal.open \/ fading))
  /\ UNCHANGED <<palPhase, walkVars, moduleVars, palAsks, launchVars, palLost, boundVars>>

Faded ==
  /\ fading /\ fading' = FALSE
  /\ UNCHANGED <<palPhase, walkVars, moduleVars, palAsks, palUpdates, shownPal, field, launchVars, palLost, boundVars>>

\* Typing, which the closing window still takes: only what is not shown is sent.
TypeText ==
  /\ Move /\ (shownPal.open \/ fading)
  /\ \E q \in Text \ {field} :
       /\ field' = q
       /\ IF q # shownPal.query THEN SendAsk([type |-> "query", query |-> q]) ELSE UNCHANGED <<palAsks, palLost>>
  /\ UNCHANGED <<palPhase, walkVars, moduleVars, palUpdates, shownPal, fading, launchVars>>

\* commitSelection(): the results as they are shown, whatever the field says.
Commit ==
  /\ Move /\ (shownPal.open \/ fading)
  /\ \E i \in DOMAIN shownPal.results :
       SendAsk([type |-> "select", provider |-> shownPal.results[i].provider, id |-> shownPal.results[i].id])
  /\ UNCHANGED <<palPhase, walkVars, moduleVars, palUpdates, shellVars, launchVars>>

\* Escape or a click beside it; levshell-ctl palette.
Act ==
  /\ Move
  /\ \E a \in {"open", "close", "toggle", "query"}, q \in Text \cup {Nil} :
       /\ a \in {"close", "toggle"} => q = Nil
       /\ SendAsk([type |-> "action", action |-> a, query |-> q])
  /\ UNCHANGED <<palPhase, walkVars, moduleVars, palUpdates, shellVars, launchVars>>

NextDay ==
  /\ palDay < MaxDays /\ palDay' = palDay + 1
  /\ UNCHANGED <<palPhase, walkVars, moduleVars, palAsks, palUpdates, shellVars, launchVars, palLost, palMoves, palRestarts>>

\* The daemon dies at any moment: a file being written is old, cut off or new,
\* and the shell stays as it looks.
Die ==
  /\ palPhase = "up" /\ palRestarts < MaxRestarts /\ palRestarts' = palRestarts + 1
  /\ palPhase' = "down" /\ palette' = Shut /\ searching' = FALSE /\ palAsks' = <<>> /\ palUpdates' = <<>>
  /\ launches' = Never /\ recording' = FALSE /\ unsaved' = FALSE
  /\ launchFile' \in IF recording THEN {launchFile, Nil, launches} ELSE {launchFile}
  /\ launchesLost' = (launchesLost \/ recording \/ unsaved)
  /\ UNCHANGED <<walkVars, palCut, shellVars, remembered, palLost, palDay, palMoves>>

PaletteNext ==
  \/ ConnectPalette \/ WalkThemes \/ BeginPalette \/ HearAsk \/ EndSearch \/ CutSearch \/ HearSelect \/ HearLaunch \/ EndRecord
  \/ Receive \/ Faded \/ TypeText \/ Commit \/ Act \/ NextDay \/ Die

PaletteSpec == PaletteInit /\ [][PaletteNext]_paletteVars

-----------------------------------------------------------------------------
(* Properties *)

\* When nothing is under way and no queue was full, the shell shows what the
\* module has, and the text in the open palette's field is the query it searched for,
\* unless the last search was cut off.
PaletteInStep ==
  /\ palPhase = "up" /\ ~searching /\ ~recording /\ palAsks = <<>> /\ palUpdates = <<>>
  /\ ~palLost /\ palCut # "now"
  => shownPal = palette /\ (palette.open => field = palette.query)

\* Whatever palette is under way or shown, its results are those of one query, as many as match it or as
\* fit: its own if it is open, unless a search was ever cut off; and none if it is closed.
Fitting(p) ==
  LET Matching(q) == {<<i.provider, i.nth>> : i \in AppItems(q) \cup OtherItems(q)}
      listed == {<<r.provider, r.nth>> : r \in ToSet(p.results)}
  IN IF ~p.open \/ p.sought = Nil THEN p.results = <<>>
     ELSE listed \subseteq Matching(p.sought) /\ Len(p.results) = Least(Limit, Cardinality(Matching(p.sought)))
ResultsFit ==
  /\ \A p \in {palette, shownPal} \cup ToSet(palUpdates) : Fitting(p)
  /\ palCut = "never" =>
       \A p \in {shownPal} \cup ToSet(palUpdates) \cup (IF searching THEN {} ELSE {palette}) :
         p.open => p.sought = p.query

\* A launch is not forgotten over restarts unless the file could not be read, or its write
\* failed or the daemon died in it and no later write repaired it.
LaunchesKept == palPhase = "up" /\ ~launchesLost => launches = remembered

\* The themes searched for icons: each that can be inherited from the first,
\* once, after one that inherits it; and the common theme, whether inherited or not.
Heirs(S) == UNION {ToSet(inherits[t]) : t \in S}
Reachable(t) == {u \in Theme : \A S \in SUBSET Theme : t \in S /\ Heirs(S) \subseteq S => u \in S}
ChainIsWhole ==
  palPhase = "up" =>
    /\ IsInjective(chain) /\ Hicolor \in ToSet(chain)
    /\ chain[1] # Hicolor => ToSet(chain) = Reachable(chain[1]) \cup {Hicolor}
    /\ \A i \in 2..Len(chain) : chain[i] = Hicolor \/ \E j \in 1..(i - 1) : chain[i] \in ToSet(inherits[chain[j]])

\* The four together.
PaletteAgrees == PaletteInStep /\ ResultsFit /\ LaunchesKept /\ ChainIsWhole
=============================================================================
