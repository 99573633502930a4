----------------------------- MODULE WatchProofs -----------------------------
(***************************************************************************)
(* Proofs about what the daemon watches and answers for the shell (the     *)
(* bridge to Sway, the remote monitors, the rubber duck and telemetry) and *)
(* about the store with the adapters that fill it.                         *)
(***************************************************************************)
EXTENDS SwayBridge, Fleet, RubberDuck, Telemetry, Mirror, FoldLemmas

-----------------------------------------------------------------------------
(* SwayBridge *)

SwayEvent ==
  [type : {"workspace", "window"}, change : {"focus", "init", "empty", "reload", "urgent", "close"},
   name : Space \cup Caption \cup {NoName}]

SwayLists == [spaces : SUBSET Space, active : Space, urgent : SUBSET Space] \cup {NoName}

Indicators == [list : SwayLists, window : Space \cup Caption \cup {NoName}]

\* An event is under way that has the list read again.
Pending == \E i \in 1 .. Len(swayEvents) : LooksAt(swayEvents[i])

\* What the shell shows once it has drawn what is on its way.
Latest == IF barQueue = <<>> THEN bar ELSE barQueue[Len(barQueue)]

SwayTypes ==
  /\ inFocus \in Space /\ windowOn \in [Space -> Caption \cup {NoName}]
  /\ urgent \subseteq Space \ {inFocus}
  /\ swayEvents \in Seq(SwayEvent) /\ subscribed \in BOOLEAN /\ behind \in BOOLEAN
  /\ bridge \in {"connect", "first", "subscribe", "next", "query", "publish", "gone"}
  /\ answer \in SwayLists /\ focusedWindow \in Space \cup Caption \cup {NoName}
  /\ barQueue \in Seq(Indicators)

\* A list is current, or an event is under way that will have it read again: the list
\* being sent whatever was lost before, the list sent last unless it was lost.
SwayInv ==
  /\ SwayTypes
  /\ bridge \in {"connect", "first", "subscribe"} => ~subscribed
  /\ bridge \in {"next", "query", "publish"} => subscribed
  /\ ~subscribed => swayEvents = <<>>
  /\ bridge = "first" /\ ~behind => answer = Listing
  /\ bridge = "subscribe" /\ ~behind => Latest.list = Listing
  /\ bridge = "publish" => Pending \/ answer = Listing
  /\ bridge = "next" /\ ~behind => Pending \/ Latest.list = Listing

\* Sway's lists are lists.
LEMMA ListingType == SwayTypes => Listing \in SwayLists
BY DEF SwayTypes, Listing, SwayLists

\* A change of Sway that shows in its list sends an event that has the list read again.
LEMMA SwayMoves ==
  ASSUME SwayInv, NEW events \in Seq(SwayEvent), Sways(events),
         inFocus' \in Space, windowOn' \in [Space -> Caption \cup {NoName}],
         urgent' \subseteq Space \ {inFocus'},
         \/ Listing' = Listing
         \/ \E i \in 1 .. Len(events) : LooksAt(events[i])
  PROVE  SwayInv'
<1>1. UNCHANGED <<subscribed, bridge, answer, focusedWindow, barQueue, bar>>
  BY DEF Sways, bridgeVars
<1>2. swayEvents' = IF subscribed THEN swayEvents \o events ELSE swayEvents
  BY DEF Sways
<1>3. swayEvents' \in Seq(SwayEvent) /\ SwayTypes'
  BY <1>1, <1>2 DEF SwayInv, SwayTypes, Sways
<1>4. subscribed /\ Pending => Pending'
  <2> SUFFICES ASSUME subscribed, NEW i \in 1 .. Len(swayEvents), LooksAt(swayEvents[i])
               PROVE  Pending'
    BY DEF Pending
  <2>1. i \in 1 .. Len(swayEvents') /\ swayEvents'[i] = swayEvents[i]
    BY <1>2 DEF SwayInv, SwayTypes
  <2> QED
    BY <2>1 DEF Pending, LooksAt
<1>5. subscribed => Pending' \/ Listing' = Listing
  <2> SUFFICES ASSUME subscribed, NEW i \in 1 .. Len(events), LooksAt(events[i])
               PROVE  Pending'
    OBVIOUS
  <2>1. /\ Len(swayEvents) + i \in 1 .. Len(swayEvents')
        /\ swayEvents'[Len(swayEvents) + i] = events[i]
    BY <1>2 DEF SwayInv, SwayTypes
  <2> QED
    BY <2>1 DEF Pending, LooksAt
<1>6. Latest' = Latest
  BY <1>1 DEF Latest
<1>7. bridge \in {"first", "subscribe"} => behind'
  BY DEF Sways
<1>8. ~behind' => ~behind
  BY DEF Sways
<1> QED
  BY <1>1, <1>2, <1>3, <1>4, <1>5, <1>6, <1>7, <1>8 DEF SwayInv

\* What Sway sends are events.
LEMMA SwayEvents ==
  /\ \A change \in {"focus", "init", "empty", "reload", "urgent"}, w \in Space \cup {NoName} :
       About(change, w) \in SwayEvent
  /\ \A t \in Caption \cup {NoName} : Focused(t) \in SwayEvent /\ Closed(t) \in SwayEvent
  /\ \A condition \in BOOLEAN, e \in SwayEvent : Maybe(condition, e) \in Seq(SwayEvent)
  /\ \A e \in SwayEvent : <<e>> \in Seq(SwayEvent) /\ (LooksAt(e) => \E i \in 1 .. Len(<<e>>) : LooksAt(<<e>>[i]))
<1>1. /\ \A change \in {"focus", "init", "empty", "reload", "urgent"}, w \in Space \cup {NoName} :
            About(change, w) \in SwayEvent
      /\ \A t \in Caption \cup {NoName} : Focused(t) \in SwayEvent /\ Closed(t) \in SwayEvent
  BY DEF About, Focused, Closed, SwayEvent
<1>2. \A e \in SwayEvent : <<e>> \in Seq(SwayEvent) /\ 1 \in 1 .. Len(<<e>>) /\ <<e>>[1] = e
  OBVIOUS
<1>3. \A condition \in BOOLEAN, e \in SwayEvent : Maybe(condition, e) \in Seq(SwayEvent)
  BY <1>2 DEF Maybe
<1>4. \A e \in SwayEvent : LooksAt(e) => \E i \in 1 .. Len(<<e>>) : LooksAt(<<e>>[i])
  <2> TAKE e \in SwayEvent
  <2> HAVE LooksAt(e)
  <2> QED
    BY <1>2 DEF LooksAt
<1> QED
  BY <1>1, <1>2, <1>3, <1>4

\* What Sway and its user do.
LEMMA SwayWorld ==
  ASSUME SwayInv, SwitchSpace \/ OpenTitle \/ CloseTitle \/ WindowCalls \/ SwayReloads
  PROVE  SwayInv'
<1> USE DEF SwayInv, SwayTypes
<1>1. ASSUME SwitchSpace PROVE SwayInv'
  <2> PICK w \in Space \ {inFocus} :
        /\ inFocus' = w /\ urgent' = urgent \ {w}
        /\ Sways(Maybe(windowOn[w] = NoName, About("init", w)) \o <<About("focus", w)>>
                 \o Maybe(windowOn[w] # NoName, Focused(windowOn[w]))
                 \o Maybe(w \in urgent, About("urgent", w))
                 \o Maybe(windowOn[inFocus] = NoName, About("empty", inFocus)))
        /\ UNCHANGED windowOn
    BY <1>1 DEF SwitchSpace
  <2> DEFINE a == Maybe(windowOn[w] = NoName, About("init", w))
             b == Maybe(windowOn[w] # NoName, Focused(windowOn[w]))
             c == Maybe(w \in urgent, About("urgent", w))
             d == Maybe(windowOn[inFocus] = NoName, About("empty", inFocus))
             all == a \o <<About("focus", w)>> \o b \o c \o d
  <2>1. {a, b, c, d, <<About("focus", w)>>} \subseteq Seq(SwayEvent)
    <3>1. windowOn[w] \in Caption \cup {NoName} /\ w \in Space /\ inFocus \in Space
      OBVIOUS
    <3>2. {windowOn[w] = NoName, windowOn[w] # NoName, w \in urgent, windowOn[inFocus] = NoName} \subseteq BOOLEAN
      OBVIOUS
    <3> HIDE DEF SwayInv, SwayTypes
    <3>3. {About("init", w), About("focus", w), Focused(windowOn[w]), About("urgent", w), About("empty", inFocus)}
            \subseteq SwayEvent
      BY <3>1, SwayEvents
    <3>4. a \in Seq(SwayEvent) /\ b \in Seq(SwayEvent)
      BY <3>2, <3>3, SwayEvents
    <3>5. c \in Seq(SwayEvent) /\ d \in Seq(SwayEvent)
      BY <3>2, <3>3, SwayEvents
    <3>6. <<About("focus", w)>> \in Seq(SwayEvent)
      BY <3>3, SwayEvents
    <3> QED
      BY <3>4, <3>5, <3>6
  <2>2. /\ all \in Seq(SwayEvent)
        /\ Len(a) + 1 \in 1 .. Len(all) /\ all[Len(a) + 1] = About("focus", w)
    <3> HIDE DEF a, b, c, d, SwayInv, SwayTypes
    <3> QED
      BY <2>1
  <2>3. LooksAt(all[Len(a) + 1])
    BY <2>2 DEF LooksAt, About
  <2> HIDE DEF a, b, c, d
  <2>4. urgent' \subseteq Space \ {inFocus'} /\ inFocus' \in Space
    OBVIOUS
  <2> QED
    BY <2>2, <2>3, <2>4, SwayMoves DEF a, b, c, d
<1>2. ASSUME OpenTitle PROVE SwayInv'
  <2> PICK t \in Caption : windowOn' = [windowOn EXCEPT ![inFocus] = t] /\ Sways(<<Focused(t)>>)
    BY <1>2 DEF OpenTitle
  <2>1. <<Focused(t)>> \in Seq(SwayEvent) /\ UNCHANGED <<inFocus, urgent>>
    BY <1>2, SwayEvents DEF OpenTitle
  <2>2. \E i \in 1 .. Len(<<Focused(t)>>) : LooksAt(<<Focused(t)>>[i])
    <3>1. LooksAt(Focused(t))
      BY DEF LooksAt, Focused
    <3> QED
      BY <3>1, SwayEvents
  <2>3. windowOn' \in [Space -> Caption \cup {NoName}] /\ urgent' \subseteq Space \ {inFocus'} /\ inFocus' \in Space
    BY <2>1
  <2> HIDE DEF SwayInv, SwayTypes
  <2> QED
    BY <2>1, <2>2, <2>3, SwayMoves
<1>3. ASSUME CloseTitle PROVE SwayInv'
  <2> PICK w \in Space :
        /\ windowOn[w] # NoName
        /\ windowOn' = [windowOn EXCEPT ![w] = NoName] /\ urgent' = urgent \ {w}
        /\ Sways(<<Closed(windowOn[w])>> \o Maybe(w # inFocus, About("empty", w)))
        /\ UNCHANGED inFocus
    BY <1>3 DEF CloseTitle
  <2> DEFINE all == <<Closed(windowOn[w])>> \o Maybe(w # inFocus, About("empty", w))
  <2>1. all \in Seq(SwayEvent)
    <3>1. windowOn[w] \in Caption \cup {NoName} /\ (w # inFocus) \in BOOLEAN
      OBVIOUS
    <3> HIDE DEF SwayInv, SwayTypes
    <3>2. <<Closed(windowOn[w])>> \in Seq(SwayEvent) /\ Maybe(w # inFocus, About("empty", w)) \in Seq(SwayEvent)
      BY <3>1, SwayEvents
    <3> QED
      BY <3>2
  <2>2. w # inFocus => 2 \in 1 .. Len(all) /\ LooksAt(all[2])
    BY DEF LooksAt, Maybe, About
  <2>3. w = inFocus => Listing' = Listing
    <3> SUFFICES ASSUME w = inFocus PROVE Listing' = Listing
      OBVIOUS
    <3>1. urgent' = urgent
      OBVIOUS
    <3>2. {v \in Space : windowOn'[v] # NoName} \cup {inFocus} = {v \in Space : windowOn[v] # NoName} \cup {inFocus}
      OBVIOUS
    <3> QED
      BY <3>1, <3>2 DEF Listing
  <2>4. windowOn' \in [Space -> Caption \cup {NoName}] /\ urgent' \subseteq Space \ {inFocus'} /\ Sways(all)
    OBVIOUS
  <2> HIDE DEF all
  <2> QED
    BY <2>1, <2>2, <2>3, <2>4, SwayMoves
<1>4. ASSUME WindowCalls PROVE SwayInv'
  <2> PICK w \in Space \ (urgent \cup {inFocus}) :
        urgent' = urgent \cup {w} /\ Sways(<<About("urgent", w)>>) /\ UNCHANGED <<inFocus, windowOn>>
    BY <1>4 DEF WindowCalls
  <2>1. <<About("urgent", w)>> \in Seq(SwayEvent)
    BY SwayEvents
  <2>2. \E i \in 1 .. Len(<<About("urgent", w)>>) : LooksAt(<<About("urgent", w)>>[i])
    <3>1. LooksAt(About("urgent", w))
      BY DEF LooksAt, About
    <3> QED
      BY <3>1, SwayEvents
  <2>3. urgent' \subseteq Space \ {inFocus'} /\ inFocus' \in Space /\ windowOn' \in [Space -> Caption \cup {NoName}]
    OBVIOUS
  <2> HIDE DEF SwayInv, SwayTypes
  <2> QED
    BY <2>1, <2>2, <2>3, SwayMoves
<1>5. ASSUME SwayReloads PROVE SwayInv'
  <2>1. <<About("reload", NoName)>> \in Seq(SwayEvent)
    BY DEF About, SwayEvent
  <2>2. Sways(<<About("reload", NoName)>>) /\ UNCHANGED <<inFocus, windowOn, urgent>>
    BY <1>5 DEF SwayReloads
  <2>3. Listing' = Listing
    BY <2>2 DEF Listing
  <2> QED
    BY <2>1, <2>2, <2>3, SwayMoves
<1> QED
  BY <1>1, <1>2, <1>3, <1>4, <1>5

\* A list is sent: what the shell shows last is the list, unless it was dropped.
LEMMA Published ==
  ASSUME SwayTypes, NEW isNow \in BOOLEAN, PublishIndicator(isNow)
  PROVE  /\ barQueue' \in Seq(Indicators) /\ behind' \in BOOLEAN
         /\ ~behind' => isNow /\ Latest'.list = answer
<1>1. Indicator \in Indicators
  BY DEF SwayTypes, Indicator, Indicators
<1>2. CASE Len(barQueue) < BarSlots
  <2>1. barQueue' = Append(barQueue, Indicator) /\ behind' = ~isNow
    BY <1>2 DEF PublishIndicator
  <2>2. barQueue' # <<>> /\ barQueue'[Len(barQueue')] = Indicator
    BY <2>1, <1>1 DEF SwayTypes
  <2> QED
    <3>1. Indicator.list = answer
      BY DEF Indicator
    <3>2. barQueue' \in Seq(Indicators) /\ barQueue'[Len(barQueue')] = Indicator
      BY <2>1, <1>1 DEF SwayTypes
    <3>3. Latest'.list = answer
      BY <2>2, <3>1, <3>2 DEF Latest
    <3> QED
      BY <2>1, <3>2, <3>3
<1>3. CASE ~(Len(barQueue) < BarSlots)
  BY <1>3 DEF PublishIndicator, SwayTypes
<1> QED
  BY <1>2, <1>3

\* What the bridge does.
LEMMA SwayBridges ==
  ASSUME SwayInv,
         \/ StartFails \/ QueryFirst \/ PublishFirst \/ SubscribeSway
         \/ NextEvent \/ Query \/ QueryFails \/ PublishList \/ StreamEnds
  PROVE  SwayInv'
<1>1. Listing' = Listing
  BY DEF Listing, StartFails, QueryFirst, PublishFirst, SubscribeSway, NextEvent, Query, QueryFails,
         PublishList, StreamEnds, swayVars
<1>2. ASSUME NextEvent PROVE SwayInv'
  <2> DEFINE e == Head(swayEvents)
  <2>1. swayEvents # <<>> /\ e = swayEvents[1] /\ e \in SwayEvent /\ bridge = "next"
    BY <1>2 DEF NextEvent, SwayInv, SwayTypes
  <2>2. swayEvents' \in Seq(SwayEvent) /\ swayEvents' = Tail(swayEvents)
    BY <1>2, <2>1 DEF NextEvent, SwayInv, SwayTypes
  <2>3. Pending /\ ~LooksAt(e) => Pending'
    <3> SUFFICES ASSUME NEW i \in 1 .. Len(swayEvents), LooksAt(swayEvents[i]), ~LooksAt(e)
                 PROVE  Pending'
      BY DEF Pending
    <3>1. i - 1 \in 1 .. Len(swayEvents') /\ swayEvents'[i - 1] = swayEvents[i]
      BY <2>1, <2>2 DEF SwayInv, SwayTypes
    <3> QED
      BY <3>1 DEF Pending, LooksAt
  <2>4. focusedWindow' \in Space \cup Caption \cup {NoName}
    BY <1>2, <2>1 DEF NextEvent, SwayInv, SwayTypes, SwayEvent
  <2>5. bridge' = IF LooksAt(e) THEN "query" ELSE "next"
    BY <1>2 DEF NextEvent
  <2>6. UNCHANGED <<inFocus, windowOn, urgent, subscribed, answer, barQueue, bar, behind>>
    BY <1>2 DEF NextEvent
  <2>7. Latest' = Latest
    BY <2>6 DEF Latest
  <2> QED
    BY <1>1, <2>1, <2>2, <2>3, <2>4, <2>5, <2>6, <2>7 DEF SwayInv, SwayTypes
<1>3. ASSUME PublishFirst PROVE SwayInv'
  <2>1. SwayTypes' /\ (~behind' => ~behind /\ Latest'.list = answer)
    BY <1>3, Published DEF PublishFirst, SwayInv, SwayTypes, swayVars
  <2> QED
    BY <1>1, <1>3, <2>1 DEF PublishFirst, SwayInv, swayVars
<1>4. ASSUME PublishList PROVE SwayInv'
  <2>1. SwayTypes' /\ (~behind' => Latest'.list = answer)
    BY <1>4, Published DEF PublishList, SwayInv, SwayTypes, swayVars
  <2>2. Pending' = Pending
    BY <1>4 DEF PublishList, swayVars, Pending
  <2> QED
    BY <1>1, <1>4, <2>1, <2>2 DEF PublishList, SwayInv, swayVars
<1>5. ASSUME StartFails \/ QueryFirst \/ SubscribeSway \/ Query \/ QueryFails \/ StreamEnds PROVE SwayInv'
  <2>1. UNCHANGED <<barQueue, bar, swayEvents, inFocus, windowOn, urgent, focusedWindow>>
    BY <1>5 DEF StartFails, QueryFirst, SubscribeSway, Query, QueryFails, StreamEnds, swayVars
  <2>2. Latest' = Latest /\ Pending' = Pending
    BY <2>1 DEF Latest, Pending
  <2>3. SwayTypes'
    BY <1>5, <2>1, ListingType
    DEF SwayInv, SwayTypes, StartFails, QueryFirst, SubscribeSway, Query, QueryFails, StreamEnds
  <2> QED
    BY <1>1, <1>5, <2>1, <2>2, <2>3
    DEF SwayInv, StartFails, QueryFirst, SubscribeSway, Query, QueryFails, StreamEnds
<1> QED
  BY <1>2, <1>3, <1>4, <1>5

\* What the shell draws was on its way.
LEMMA ShellDrew ==
  ASSUME SwayInv, ShellDraws
  PROVE  SwayInv'
<1>1. UNCHANGED <<swayVars, subscribed, bridge, answer, focusedWindow, announced, behind>>
  BY DEF ShellDraws
<1>2. Listing' = Listing /\ Pending' = Pending
  BY <1>1 DEF Listing, Pending, swayVars
<1>3. barQueue # <<>> /\ barQueue' = Tail(barQueue) /\ bar' = barQueue[1] /\ barQueue' \in Seq(Indicators)
  BY DEF ShellDraws, SwayInv, SwayTypes
<1>4. Latest' = Latest
  <2>1. CASE Len(barQueue) = 1
    <3>1. barQueue' = <<>>
      BY <1>3, <2>1 DEF SwayInv, SwayTypes
    <3> QED
      BY <1>3, <2>1, <3>1 DEF Latest
  <2>2. CASE Len(barQueue) # 1
    <3>1. Len(barQueue') = Len(barQueue) - 1 /\ Len(barQueue') \in Nat \ {0}
      BY <1>3, <2>2 DEF SwayInv, SwayTypes
    <3>2. barQueue' # <<>>
      BY <3>1
    <3>3. barQueue'[Len(barQueue')] = barQueue[Len(barQueue)]
      <4>1. \A i \in 1 .. Len(barQueue') : barQueue'[i] = barQueue[i + 1]
        BY <1>3, <3>1 DEF SwayInv, SwayTypes
      <4>2. Len(barQueue') \in 1 .. Len(barQueue') /\ Len(barQueue') + 1 = Len(barQueue)
        BY <3>1 DEF SwayInv, SwayTypes
      <4> QED
        BY <4>1, <4>2
    <3> QED
      BY <1>3, <3>2, <3>3 DEF Latest
  <2> QED
    BY <2>1, <2>2
<1> QED
  BY <1>1, <1>2, <1>3, <1>4 DEF SwayInv, SwayTypes, swayVars

\* Whatever Sway and its user do between an event and the list that is read for it,
\* the bar shows Sway's workspaces once the bridge has caught up and nothing was lost:
\* for any workspaces, any windows and any length of the shell's queue.
THEOREM BarIsSways == SwaySpec => []BarShowsSway
<1>1. SwayInit => SwayInv
  <2> SUFFICES ASSUME SwayInit PROVE SwayInv
    OBVIOUS
  <2>1. <<>> \in Seq(SwayEvent) /\ <<>> \in Seq(Indicators)
    OBVIOUS
  <2> QED
    BY <2>1 DEF SwayInit, SwayInv, SwayTypes, SwayLists
<1>2. SwayInv /\ [SwayNext]_<<swayVars, bridgeVars, behind>> => SwayInv'
  <2> SUFFICES ASSUME SwayInv, [SwayNext]_<<swayVars, bridgeVars, behind>> PROVE SwayInv'
    OBVIOUS
  <2>1. CASE SwayNext
    BY <2>1, SwayWorld, SwayBridges, ShellDrew DEF SwayNext
  <2>2. CASE UNCHANGED <<swayVars, bridgeVars, behind>>
    BY <2>2 DEF SwayInv, SwayTypes, Listing, Latest, Pending, swayVars, bridgeVars
  <2> QED
    BY <2>1, <2>2
<1>3. SwayInv => BarShowsSway
  <2> SUFFICES ASSUME SwayInv, bridge = "next", swayEvents = <<>>, barQueue = <<>>, ~behind
               PROVE  bar.list = Listing
    BY DEF BarShowsSway, CaughtUp
  <2>1. ~Pending
    BY DEF Pending
  <2> QED
    BY <2>1 DEF SwayInv, Latest
<1> QED
  BY <1>1, <1>2, <1>3, PTL DEF SwaySpec

-----------------------------------------------------------------------------
(* Fleet *)

Statuses == {"healthy", "degraded", "busy", "running", "idle", "offline"}

\* The ssh monitor's hosts, as far as its pass has come.
Told(rows, known) == \A i \in 1 .. Len(rows) : known[rows[i].name] = (rows[i].status # "offline")

FleetTypes ==
  /\ hosts \in Seq(Host)
  /\ answers \in [Monitor -> Seq(Answer) \cup {Unknown}]
  /\ heard \in [Names -> BOOLEAN \cup {Unknown}]
  /\ fleetLevel \in 0 .. 3 /\ outages \in Nat /\ cutShort \in BOOLEAN

\* No two hosts have one name, the bus says of each what the monitor heard of it last,
\* the pass under way agrees with the bus as far as it has come and the board of the
\* last one does in between; and every level stands for a pass that found a host down.
FleetInv ==
  /\ FleetTypes
  /\ \A i, j \in 1 .. Len(hosts) : i < j => hosts[i].name # hosts[j].name
  /\ heard = lastReachable
  /\ answers["ssh"] # Unknown =>
       /\ Len(answers["ssh"]) <= Len(HostsOf("ssh"))
       /\ \A i \in 1 .. Len(answers["ssh"]) : answers["ssh"][i].name = HostsOf("ssh")[i].name
       /\ Told(answers["ssh"], heard)
  /\ DOMAIN board = Monitor
  /\ answers["ssh"] = Unknown /\ board["ssh"] # Unknown /\ ~cutShort /\ ~boardLost =>
       Told(board["ssh"].rows, heard)
  /\ fleetLevel <= outages
  /\ fleetLevel = 3 /\ ~boardLost => Down(board["ssh"].rows) = DOMAIN board["ssh"].rows

\* What has the role are hosts, each under a name of its own.
LEMMA HostsOfRole ==
  ASSUME NEW k, hosts \in Seq(Host),
         \A i, j \in 1 .. Len(hosts) : i < j => hosts[i].name # hosts[j].name
  PROVE  /\ HostsOf(k) \in Seq(Host)
         /\ \A i, j \in 1 .. Len(HostsOf(k)) : i < j => HostsOf(k)[i].name # HostsOf(k)[j].name
<1> DEFINE K == {h \in Host : k \in h.roles}
<1>1. HostsOf(k) = Kept(hosts, K)
  <2>1. \A i \in DOMAIN hosts : (k \in hosts[i].roles) <=> (hosts[i] \in K)
    OBVIOUS
  <2>2. [i \in DOMAIN hosts |-> IF k \in hosts[i].roles THEN <<hosts[i]>> ELSE <<>>]
          = [i \in DOMAIN hosts |-> IF hosts[i] \in K THEN <<hosts[i]>> ELSE <<>>]
    BY <2>1
  <2> QED
    BY <2>2, Zenon DEF HostsOf, Kept
<1> HIDE DEF K
<1>2. Kept(hosts, K) \in Seq(Host)
  BY KeptRange
<1>3. \A i, j \in 1 .. Len(Kept(hosts, K)) : i < j =>
        \E a, b \in 1 .. Len(hosts) : a < b /\ hosts[a] = Kept(hosts, K)[i] /\ hosts[b] = Kept(hosts, K)[j]
  BY KeptOrder
<1> QED
  BY <1>1, <1>2, <1>3

\* What a directory gives are hosts, each under a name of its own.
LEMMA LoadedHosts ==
  ASSUME NEW d \in Directories
  PROVE  /\ LoadFromDir(d) \in Seq(Host)
         /\ \A i, j \in 1 .. Len(LoadFromDir(d)) : i < j => LoadFromDir(d)[i].name # LoadFromDir(d)[j].name
<1> DEFINE parts == [i \in DOMAIN d |-> IF d[i] = Malformed THEN <<>> ELSE d[i]]
           all == FlattenSeq(parts)
<1>1. all \in Seq(Host)
  <2>1. d \in Seq(Seq(Host) \cup {Malformed}) /\ DOMAIN d = 1 .. Len(d) /\ Len(d) \in Nat
    BY FleetAssumption
  <2>2. \A i \in 1 .. Len(d) : (IF d[i] = Malformed THEN <<>> ELSE d[i]) \in Seq(Host)
    BY <2>1
  <2>3. parts \in [1 .. Len(d) -> Seq(Host)]
    BY <2>1, <2>2
  <2>4. parts \in Seq(Seq(Host))
    <3> HIDE DEF parts
    <3> QED
      BY <2>1, <2>3
  <2> HIDE DEF parts
  <2> QED
    BY <2>4, FlattenSeqRange
<1>2. LoadFromDir(d) = IF \E i, j \in DOMAIN all : i # j /\ all[i].name = all[j].name THEN <<>> ELSE all
  BY DEF LoadFromDir
<1> HIDE DEF all
<1>3. CASE \E i, j \in DOMAIN all : i # j /\ all[i].name = all[j].name
  BY <1>2, <1>3
<1>4. CASE ~ \E i, j \in DOMAIN all : i # j /\ all[i].name = all[j].name
  BY <1>1, <1>2, <1>4
<1> QED
  BY <1>3, <1>4

\* A host answers the ssh monitor: the bus has what it said, and of the hosts asked before
\* in this pass still what they said.
LEMMA FleetProbes ==
  ASSUME FleetInv, NEW k \in Monitor, Probe(k)
  PROVE  FleetInv'
<1> DEFINE n == HostsOf(k)[Len(answers[k]) + 1].name
           status == ProbeHost(k, mood[n])
           row == [name |-> n, status |-> status]
<1>1. /\ answers[k] # Unknown /\ Len(answers[k]) < Len(HostsOf(k))
      /\ answers' = [answers EXCEPT ![k] = Append(@, row)]
      /\ UNCHANGED <<hosts, mood, board, fleetLevel, asked, outages, cutShort, boardLost>>
  BY DEF Probe
<1>2. /\ HostsOf(k) \in Seq(Host) /\ HostsOf("ssh") \in Seq(Host)
      /\ \A i, j \in 1 .. Len(HostsOf("ssh")) : i < j => HostsOf("ssh")[i].name # HostsOf("ssh")[j].name
  BY HostsOfRole DEF FleetInv, FleetTypes
<1>3. answers[k] \in Seq(Answer) /\ n \in Names /\ status \in Statuses /\ row \in Answer
  <2>1. answers[k] \in Seq(Answer)
    BY <1>1 DEF FleetInv, FleetTypes
  <2>2. Len(answers[k]) + 1 \in 1 .. Len(HostsOf(k))
    BY <1>1, <1>2, <2>1
  <2>3. n \in Names
    BY <1>2, <2>2 DEF Names
  <2>4. status \in Statuses
    BY DEF ProbeHost, ProbeGpu, ProbeJobs, ProbeSsh, Statuses, Monitor
  <2> QED
    BY <2>1, <2>3, <2>4 DEF Answer, Statuses
<1> DEFINE more == Append(answers[k], row)
<1>4. /\ more \in Seq(Answer) /\ Len(more) = Len(answers[k]) + 1 /\ more[Len(more)] = row /\ more # Unknown
      /\ \A i \in 1 .. Len(answers[k]) : more[i] = answers[k][i]
  <2> HIDE DEF row
  <2> QED
    BY <1>3, FleetAssumption
<1>5. answers' \in [Monitor -> Seq(Answer) \cup {Unknown}] /\ answers'[k] = more
      /\ \A m \in Monitor \ {k} : answers'[m] = answers[m]
  BY <1>1, <1>4 DEF FleetInv, FleetTypes
<1>6. HostsOf("ssh")' = HostsOf("ssh")
  BY <1>1 DEF HostsOf
<1>7. CASE k # "ssh"
  <2>1. UNCHANGED <<lastReachable, heard>> /\ answers'["ssh"] = answers["ssh"]
    BY <1>5, <1>7 DEF Probe, Monitor
  <2>2. FleetTypes'
    BY <1>1, <1>5, <2>1 DEF FleetInv, FleetTypes
  <2> HIDE DEF more, row, n, status
  <2> QED
    BY <1>1, <1>6, <2>1, <2>2 DEF FleetInv, Down
<1>8. CASE k = "ssh"
  <2> DEFINE up == status # "offline"
  <2>1. HostAnswers(n, up)
    BY <1>8 DEF Probe
  <2>2. heard' = lastReachable' /\ heard' \in [Names -> BOOLEAN \cup {Unknown}] /\ heard'[n] = up
        /\ \A m \in Names \ {n} : heard'[m] = heard[m]
    <3> up \in BOOLEAN
      OBVIOUS
    <3> HIDE DEF n, status, up
    <3> QED
      BY <1>3, <2>1 DEF HostAnswers, FleetInv, FleetTypes
  <2>3. Len(more) <= Len(HostsOf("ssh")) /\ \A i \in 1 .. Len(more) : more[i].name = HostsOf("ssh")[i].name
    <3>1. \A i \in 1 .. Len(answers[k]) : answers[k][i].name = HostsOf("ssh")[i].name
      BY <1>1, <1>8 DEF FleetInv
    <3>2. row.name = HostsOf("ssh")[Len(answers[k]) + 1].name
      BY <1>8
    <3>3. Len(answers[k]) \in Nat /\ Len(HostsOf("ssh")) \in Nat
      BY <1>2, <1>3
    <3>4. Len(more) <= Len(HostsOf("ssh"))
      BY <1>1, <1>4, <1>8, <3>3
    <3>5. ASSUME NEW i \in 1 .. Len(more) PROVE more[i].name = HostsOf("ssh")[i].name
      <4> HIDE DEF more, row, n, status
      <4>1. CASE i = Len(more)
        BY <1>4, <3>2, <3>3, <4>1
      <4>2. CASE i # Len(more)
        BY <1>4, <3>1, <3>3, <4>2
      <4> QED
        BY <4>1, <4>2
    <3> QED
      BY <3>4, <3>5
  <2>4. \A i \in 1 .. Len(more) : heard'[more[i].name] = (more[i].status # "offline")
    <3> TAKE i \in 1 .. Len(more)
    <3>1. CASE i = Len(more)
      <4>1. more[i].name = n /\ more[i].status = status
        BY <1>4, <3>1
      <4> QED
        BY <2>2, <4>1
    <3>2. CASE i # Len(more)
      <4>1. i \in 1 .. Len(answers[k]) /\ more[i] = answers[k][i]
        BY <1>3, <1>4, <3>2
      <4>2. heard[more[i].name] = (more[i].status # "offline")
        BY <1>1, <1>8, <4>1 DEF FleetInv, Told
      <4>3. more[i].name # n /\ more[i].name \in Names
        <5>1. more[i].name = HostsOf("ssh")[i].name /\ n = HostsOf("ssh")[Len(answers[k]) + 1].name
          BY <2>3, <1>8
        <5>2. i < Len(answers[k]) + 1 /\ i \in 1 .. Len(HostsOf("ssh")) /\ Len(answers[k]) + 1 \in 1 .. Len(HostsOf("ssh"))
          BY <1>1, <1>2, <1>3, <1>8, <4>1
        <5>3. more[i] \in Answer
          BY <1>4
        <5> HIDE DEF more, n
        <5> QED
          BY <1>2, <5>1, <5>2, <5>3 DEF Answer
      <4> HIDE DEF more, n
      <4> QED
        BY <2>2, <4>2, <4>3
    <3> QED
      BY <3>1, <3>2
  <2> HIDE DEF more, n, status, row, up
  <2>5. answers'["ssh"] = more /\ more # Unknown
    BY <1>4, <1>5, <1>8
  <2>6. Told(answers["ssh"], heard)'
    BY <2>4, <2>5 DEF Told
  <2>7. FleetTypes'
    BY <1>1, <1>5, <2>2 DEF FleetInv, FleetTypes
  <2>8. Len(answers'["ssh"]) <= Len(HostsOf("ssh")')
        /\ \A i \in 1 .. Len(answers'["ssh"]) : answers'["ssh"][i].name = HostsOf("ssh")'[i].name
    BY <1>6, <2>3, <2>5
  <2>9. UNCHANGED <<hosts, board, fleetLevel, outages, boardLost>>
    BY <1>1
  <2>10. /\ \A i, j \in 1 .. Len(hosts) : i < j => hosts[i].name # hosts[j].name
         /\ DOMAIN board = Monitor /\ fleetLevel <= outages
         /\ fleetLevel = 3 /\ ~boardLost => Down(board["ssh"].rows) = DOMAIN board["ssh"].rows
    BY DEF FleetInv
  <2>11. heard' = lastReachable'
    BY <2>2
  <2>12. (fleetLevel = 3 /\ ~boardLost => Down(board["ssh"].rows) = DOMAIN board["ssh"].rows)'
    BY <2>9, <2>10 DEF Down
  <2> QED
    BY <2>5, <2>6, <2>7, <2>8, <2>9, <2>10, <2>11, <2>12 DEF FleetInv
<1> QED
  BY <1>7, <1>8

\* A pass is over: what it heard goes to the board, and the level follows what it found.
LEMMA FleetPublishes ==
  ASSUME FleetInv, NEW k \in Monitor, PublishFleet(k)
  PROVE  FleetInv'
<1>1. PICK lost \in BOOLEAN :
        /\ board' = IF lost THEN board ELSE [board EXCEPT ![k] =
             [rows |-> answers[k], status |-> IF Down(answers[k]) = {} THEN "normal" ELSE "stale"]]
        /\ boardLost' = IF k = "ssh" THEN lost ELSE boardLost
  BY DEF PublishFleet
<1>2. /\ answers[k] # Unknown /\ answers' = [answers EXCEPT ![k] = Unknown]
      /\ UNCHANGED <<hosts, mood, lastReachable, heard, asked>>
  BY DEF PublishFleet
<1>3. /\ answers' \in [Monitor -> Seq(Answer) \cup {Unknown}] /\ HostsOf("ssh")' = HostsOf("ssh")
      /\ hosts' \in Seq(Host) /\ heard' \in [Names -> BOOLEAN \cup {Unknown}] /\ DOMAIN board' = Monitor
  BY <1>1, <1>2 DEF FleetInv, FleetTypes, HostsOf
<1>4. CASE k # "ssh"
  <2>1. UNCHANGED <<fleetLevel, outages, cutShort, boardLost>>
    BY <1>1, <1>4 DEF PublishFleet
  <2>2. answers'["ssh"] = answers["ssh"] /\ board'["ssh"] = board["ssh"]
    BY <1>1, <1>2, <1>4 DEF Monitor, FleetInv, FleetTypes
  <2> QED
    BY <1>2, <1>3, <1>4, <2>1, <2>2 DEF FleetInv, FleetTypes, Told, Down
<1>5. CASE k = "ssh"
  <2> DEFINE raw == FleetRaw(answers["ssh"])
             rows == answers["ssh"]
  <2>1. /\ fleetLevel' = IF raw > fleetLevel THEN fleetLevel + 1 ELSE raw
        /\ outages' = IF raw = 0 THEN 0 ELSE outages + 1
        /\ cutShort' = FALSE
    BY <1>5 DEF PublishFleet
  <2>2. raw \in {0, 2, 3} /\ (raw = 3 => Down(answers["ssh"]) = DOMAIN answers["ssh"])
    BY DEF FleetRaw
  <2>3. /\ fleetLevel' \in 0 .. 3 /\ outages' \in Nat /\ fleetLevel' <= outages'
        /\ fleetLevel' = 3 => raw = 3
    <3> HIDE DEF raw
    <3> QED
      BY <2>1, <2>2 DEF FleetInv, FleetTypes
  <2>4. rows \in Seq(Answer) /\ Told(rows, heard)
    BY <1>2, <1>5 DEF FleetInv, FleetTypes
  <2>5. answers'["ssh"] = Unknown
    BY <1>2, <1>5 DEF FleetInv, FleetTypes, Monitor
  <2>6. ~boardLost' => board'["ssh"].rows = rows
    BY <1>1, <1>5 DEF FleetInv, Monitor
  <2> HIDE DEF raw
  <2>7. fleetLevel' = 3 => Down(rows) = DOMAIN rows
    BY <2>2, <2>3
  <2>8. PICK r : r = rows
    OBVIOUS
  <2> HIDE DEF rows
  <2>9. FleetTypes' /\ heard' = lastReachable'
    BY <1>2, <1>3, <2>1, <2>3 DEF FleetInv, FleetTypes
  <2>10. Told(r, heard') /\ (fleetLevel' = 3 => Down(r) = DOMAIN r)
    BY <1>2, <2>4, <2>7, <2>8
  <2>11. ~boardLost' => board'["ssh"].rows = r
    BY <2>6, <2>8
  <2>12. ~boardLost' => Down(board["ssh"].rows)' = Down(r)
    BY <2>11 DEF Down
  <2>13. \A i, j \in 1 .. Len(hosts') : i < j => hosts'[i].name # hosts'[j].name
    BY <1>2 DEF FleetInv
  <2> QED
    BY <1>3, <2>3, <2>5, <2>9, <2>10, <2>11, <2>12, <2>13 DEF FleetInv
<1> QED
  BY <1>4, <1>5

\* The bus and the widget tell the same story of every host after a whole pass whose update found
\* room, and a Critical fleet is three whole passes in a row that found a host down: for any hosts
\* in any files, and any number of passes, cut short wherever they wait for an answer.
THEOREM FleetIsTold == FleetSpec => []FleetAgrees
<1>1. FleetInit => FleetInv
  <2> SUFFICES ASSUME FleetInit PROVE FleetInv
    OBVIOUS
  <2>1. PICK d \in Directories : hosts = LoadFromDir(d)
    BY DEF FleetInit
  <2>2. hosts \in Seq(Host) /\ \A i, j \in 1 .. Len(hosts) : i < j => hosts[i].name # hosts[j].name
    BY <2>1, LoadedHosts
  <2>3. answers["ssh"] = Unknown /\ board["ssh"] = Unknown /\ fleetLevel = 0 /\ outages = 0 /\ heard = lastReachable
        /\ cutShort = FALSE
        /\ answers \in [Monitor -> {Unknown}] /\ heard \in [Names -> {Unknown}] /\ DOMAIN board = Monitor
    BY DEF FleetInit, Monitor
  <2>4. answers \in [Monitor -> Seq(Answer) \cup {Unknown}] /\ heard \in [Names -> BOOLEAN \cup {Unknown}]
    <3>1. answers \in [Monitor -> {Unknown}] /\ heard \in [Names -> {Unknown}]
      BY <2>3
    <3> QED
      BY <3>1
  <2>5. FleetTypes
    <3>1. fleetLevel = 0 /\ outages = 0
      BY <2>3
    <3>2. fleetLevel \in 0 .. 3 /\ outages \in Nat
      BY <3>1
    <3>3. cutShort \in BOOLEAN
      BY <2>3, Zenon
    <3> QED
      BY <2>2, <2>4, <3>2, <3>3, Zenon DEF FleetTypes
  <2> QED
    BY <2>2, <2>3, <2>5 DEF FleetInv
<1>2. FleetInv /\ [FleetNext]_fleetVars => FleetInv'
  <2> SUFFICES ASSUME FleetInv, [FleetNext]_fleetVars PROVE FleetInv'
    OBVIOUS
  <2>1. ASSUME NEW k \in Monitor, BeginPass(k) \/ Reconnect PROVE FleetInv'
    <3>1. UNCHANGED <<hosts, mood, board, lastReachable, heard, fleetLevel, outages, cutShort, boardLost>>
      BY <2>1 DEF BeginPass, Reconnect
    <3>2. PICK m \in Monitor : answers' = answers \/ answers' = [answers EXCEPT ![m] = <<>>]
      BY <2>1 DEF BeginPass, Reconnect, Monitor
    <3>3. <<>> \in Seq(Answer) /\ Len(<<>>) = 0
      OBVIOUS
    <3>4. answers' \in [Monitor -> Seq(Answer) \cup {Unknown}]
          /\ (answers'["ssh"] = answers["ssh"] \/ answers'["ssh"] = <<>>)
      <4>1. answers \in [Monitor -> Seq(Answer) \cup {Unknown}]
        BY DEF FleetInv, FleetTypes
      <4>2. "ssh" \in Monitor
        BY DEF Monitor
      <4> QED
        BY <3>2, <3>3, <4>1, <4>2
    <3>5. HostsOf("ssh")' = HostsOf("ssh")
      BY <3>1 DEF HostsOf
    <3>6. HostsOf("ssh") \in Seq(Host) /\ <<>> # Unknown
      BY <3>3, HostsOfRole, FleetAssumption DEF FleetInv, FleetTypes
    <3> QED
      BY <3>1, <3>3, <3>4, <3>5, <3>6 DEF FleetInv, FleetTypes, Told, Down
  <2>2. ASSUME HostChanges \/ UserAsks \/ UNCHANGED fleetVars PROVE FleetInv'
    <3>1. UNCHANGED <<hosts, answers, board, lastReachable, heard, fleetLevel, outages, cutShort, boardLost>>
      BY <2>2 DEF HostChanges, UserAsks, fleetVars
    <3> QED
      BY <3>1 DEF FleetInv, FleetTypes, Told, Down, HostsOf
  <2>3. ASSUME NEW k \in Monitor, PassCut(k) PROVE FleetInv'
    <3>1. /\ UNCHANGED <<hosts, board, lastReachable, heard, fleetLevel, outages, boardLost>>
          /\ answers' = [answers EXCEPT ![k] = Unknown] /\ cutShort' = (cutShort \/ k = "ssh")
      BY <2>3 DEF PassCut
    <3>2. answers' \in [Monitor -> Seq(Answer) \cup {Unknown}] /\ cutShort' \in BOOLEAN
      BY <3>1 DEF FleetInv, FleetTypes
    <3>3. answers'["ssh"] = Unknown \/ answers'["ssh"] = answers["ssh"]
      BY <3>1 DEF FleetInv, FleetTypes, Monitor
    <3>4. ~cutShort' => ~cutShort /\ answers'["ssh"] = answers["ssh"]
      BY <3>1 DEF FleetInv, FleetTypes, Monitor
    <3>5. HostsOf("ssh")' = HostsOf("ssh")
      BY <3>1 DEF HostsOf
    <3> QED
      BY <3>1, <3>2, <3>3, <3>4, <3>5 DEF FleetInv, FleetTypes, Told, Down
  <2> QED
    BY <2>1, <2>2, <2>3, FleetProbes, FleetPublishes DEF FleetNext, Monitor
<1>3. FleetInv => FleetAgrees
  <2> SUFFICES ASSUME FleetInv PROVE FleetAgrees
    OBVIOUS
  <2>1. answers["ssh"] = Unknown /\ board["ssh"] # Unknown /\ ~cutShort /\ ~boardLost =>
          \A i \in DOMAIN board["ssh"].rows :
            heard[board["ssh"].rows[i].name] = (board["ssh"].rows[i].status # "offline")
    BY DEF FleetInv, Told
  <2>2. fleetLevel = 3 =>
          /\ outages >= 3
          /\ ~boardLost => Down(board["ssh"].rows) = DOMAIN board["ssh"].rows
    BY DEF FleetInv, FleetTypes
  <2> QED
    BY <2>1, <2>2 DEF FleetAgrees
<1> QED
  BY <1>1, <1>2, <1>3, PTL DEF FleetSpec

-----------------------------------------------------------------------------
(* RubberDuck *)

Message == [who : {"user", "assistant"}, n : 1 .. MaxSays]

Letter ==
  {m \in [type : {"token", "end", "reset"}, n : 0 .. MaxSays, done : BOOLEAN] :
     (m.type # "token" => m.done) /\ (m.type # "reset" => m.n \in 1 .. MaxSays)}

DuckTypes ==
  /\ {enabled, thinking, tokenLost, outOfStep} \subseteq BOOLEAN
  /\ chat \in Seq(Message) /\ conversation \in Seq(Message)
  /\ said \in 0 .. MaxSays /\ says \in Seq(1 .. said) /\ broken \subseteq 1 .. said
  /\ reply \in [1 .. MaxSays -> [at : {"streaming", "record", "over"}, tokens : 0 .. MaxTokens]]
  /\ \A n \in 1 .. MaxSays : reply[n].at = "over" => reply[n] = Over
  /\ Running \subseteq 1 .. said
  /\ toShell \in Seq(Letter)

\* What an enabled duck is waited for is under way.
Awaited ==
  thinking /\ enabled /\ ~tokenLost =>
    \/ says # <<>>
    \/ \E n \in 1 .. MaxSays : reply[n].at = "streaming"
    \/ \E i \in 1 .. Len(toShell) : toShell[i].done

\* One reply at a time, to what was said last.
OneReply ==
  /\ \A p, q \in Running : p = q
  /\ Running # {} => Len(conversation) <= Cap
  /\ \A p \in Running : conversation # <<>> /\ conversation[Len(conversation)] = User(p)
  /\ Len(conversation) <= Cap + 1
  /\ \A i \in 1 .. Len(conversation) : conversation[i].who = "assistant" =>
       \E j \in 1 .. (i - 1) : conversation[j] = User(conversation[i].n)

ResetComes == \E i \in 1 .. Len(toShell) : toShell[i].type = "reset"
TokenComes == \E i \in 1 .. Len(toShell) : toShell[i].type = "token"
EndsWithReply == chat # <<>> /\ chat[Len(chat)].who = "assistant"

\* A reset that is under way is the last thing under way.
AfterReset ==
  /\ says = <<>> /\ Running = {} /\ conversation = <<>>
  /\ toShell # <<>> /\ toShell[Len(toShell)].type = "reset"

\* What was said and not heard yet, what was answered and not recorded yet, and what was
\* answered and not shown yet.
Unheard == IF says = <<>> THEN <<>> ELSE <<User(said)>>
Unrecorded(p) == IF reply[p].tokens = 0 THEN <<>> ELSE <<Reply(p)>>
Unshown == IF TokenComes /\ ~EndsWithReply /\ said \notin broken THEN <<Reply(said)>> ELSE <<>>

\* The chat ends with what was said last and its reply.
ChatNumbers ==
  /\ \A i \in 1 .. Len(chat) : chat[i].n <= said
  /\ \A i \in 1 .. (Len(chat) - 1) : chat[i].who = "assistant" => chat[i].n < said
  /\ toShell # <<>> \/ (says = <<>> /\ Running # {}) => chat # <<>> /\ chat[Len(chat)] \in {User(said), Reply(said)}

\* What is said is said when the reply to what was said before is shown.
Spoken ==
  says # <<>> =>
    /\ says = <<said>> /\ toShell = <<>> /\ thinking /\ said \notin broken /\ said \notin Running
    /\ chat # <<>> /\ chat[Len(chat)] = User(said)
    /\ \A p \in Running : reply[p].at = "record"

\* What is under way to the shell is of the reply to what was said last.
Coming ==
  /\ toShell # <<>> => thinking
  /\ \A i \in 1 .. Len(toShell) : toShell[i].n = said /\ (toShell[i].done => i = Len(toShell))

\* So is what the task does that streams.
Streaming ==
  \A p \in Running :
    /\ says = <<>> => p = said /\ (reply[p].tokens > 0 <=> EndsWithReply \/ TokenComes)
    /\ p \notin broken
    /\ reply[p].at = "streaming" => thinking /\ \A i \in 1 .. Len(toShell) : ~toShell[i].done

\* With what is under way the conversation is what the user sees.
Whole ==
  /\ Running = {} => conversation \o Unheard = Successful(chat) \o Unshown
  /\ \A p \in Running : conversation \o Unrecorded(p) \o Unheard = Successful(chat) \o Unshown

InStep == ChatNumbers /\ Spoken /\ Coming /\ Streaming /\ Whole

DuckInv ==
  /\ DuckTypes /\ Awaited
  /\ ~enabled => conversation = <<>> /\ Running = {}
  /\ ~outOfStep => OneReply
  /\ ~outOfStep /\ enabled /\ ~tokenLost => IF ResetComes THEN AfterReset ELSE InStep

\* What the steps do to the tasks that answer.
LEMMA DuckTasks ==
  ASSUME DuckTypes, NEW n \in 1 .. MaxSays
  PROVE  /\ StreamToken(n) \/ StreamDone(n) => n \in Running /\ Running' = Running
         /\ RecordReply(n) \/ StreamFails(n) => n \in Running /\ Running' = Running \ {n}
<1> USE DEF DuckTypes, Running, Over
<1>1. ASSUME StreamToken(n) PROVE n \in Running /\ Running' = Running
  BY <1>1 DEF StreamToken
<1>2. ASSUME StreamDone(n) PROVE n \in Running /\ Running' = Running
  BY <1>2 DEF StreamDone
<1>3. ASSUME RecordReply(n) PROVE n \in Running /\ Running' = Running \ {n}
  BY <1>3 DEF RecordReply
<1>4. ASSUME StreamFails(n) PROVE n \in Running /\ Running' = Running \ {n}
  BY <1>4 DEF StreamFails
<1> QED
  BY <1>1, <1>2, <1>3, <1>4

\* What goes to the shell, and what a full queue loses.
LEMMA DuckSends ==
  ASSUME DuckTypes, NEW m \in Letter, SendShell(m)
  PROVE  /\ toShell' \in Seq(Letter)
         /\ tokenLost' \in BOOLEAN /\ (tokenLost => tokenLost')
         /\ ~tokenLost' =>
              /\ Len(toShell') = Len(toShell) + 1 /\ toShell'[Len(toShell')] = m
              /\ \A i \in 1 .. Len(toShell) : toShell'[i] = toShell[i]
              /\ \A i \in 1 .. Len(toShell') : toShell'[i] = m \/ (i \in 1 .. Len(toShell) /\ toShell'[i] = toShell[i])
<1>1. toShell \in Seq(Letter) /\ tokenLost \in BOOLEAN /\ ShellSlots \in Nat
  BY DuckAssumption DEF DuckTypes
<1>2. /\ toShell' = IF Len(toShell) < ShellSlots THEN Append(toShell, m) ELSE toShell
      /\ tokenLost' = (tokenLost \/ Len(toShell) >= ShellSlots)
  BY DEF SendShell
<1>3. CASE Len(toShell) < ShellSlots
  <2>1. toShell' = Append(toShell, m) /\ tokenLost' = tokenLost
    BY <1>1, <1>2, <1>3
  <2> HIDE DEF Letter
  <2> QED
    BY <1>1, <2>1
<1>4. CASE ~(Len(toShell) < ShellSlots)
  <2>1. Len(toShell) >= ShellSlots
    BY <1>1, <1>4
  <2>2. toShell' = toShell /\ tokenLost'
    BY <1>2, <1>4, <2>1, Zenon
  <2> QED
    BY <1>1, <1>2, <2>1, <2>2
<1> QED
  BY <1>3, <1>4

\* What is sent are messages for the shell.
LEMMA DuckLetters ==
  /\ ResetMessage \in Letter
  /\ \A n \in 1 .. MaxSays : {Token(n, FALSE), Token(n, TRUE), End(n)} \subseteq Letter
<1>1. MaxSays \in Nat
  BY DuckAssumption
<1> QED
  BY <1>1 DEF Token, End, ResetMessage, Letter

\* A reset is sent like any message, and forgets what was lost before.
LEMMA DuckClears ==
  ASSUME DuckTypes, Clear
  PROVE  /\ conversation' = <<>> /\ outOfStep' \in BOOLEAN
         /\ toShell' \in Seq(Letter) /\ tokenLost' \in BOOLEAN
         /\ ~tokenLost' => Len(toShell') = Len(toShell) + 1 /\ toShell'[Len(toShell')] = ResetMessage
<1>1. /\ toShell \in Seq(Letter) /\ ShellSlots \in Nat /\ Len(toShell) \in Nat
      /\ toShell' = IF Len(toShell) < ShellSlots THEN Append(toShell, ResetMessage) ELSE toShell
      /\ tokenLost' = (Len(toShell) >= ShellSlots)
  BY DuckAssumption DEF DuckTypes, Clear
<1>2. conversation' = <<>> /\ outOfStep' \in BOOLEAN
  BY DEF Clear
<1>3. ResetMessage \in Letter
  BY DuckLetters
<1> HIDE DEF Letter
<1>4. CASE Len(toShell) < ShellSlots
  <2>0. (Len(toShell) >= ShellSlots) = FALSE
    BY <1>1, <1>4
  <2>01. toShell' = Append(toShell, ResetMessage)
    BY <1>1, <1>4, Zenon
  <2>02. tokenLost' = FALSE
    <3> DEFINE full == Len(toShell) >= ShellSlots
    <3>1. tokenLost' = full /\ full = FALSE
      BY <1>1, <2>0, Zenon
    <3> HIDE DEF full
    <3> QED
      BY <3>1, Zenon
  <2>1. toShell' = Append(toShell, ResetMessage) /\ ~tokenLost' /\ tokenLost' \in BOOLEAN
    BY <2>01, <2>02, Zenon
  <2>2. toShell' \in Seq(Letter) /\ Len(toShell') = Len(toShell) + 1 /\ toShell'[Len(toShell')] = ResetMessage
    BY <1>1, <1>3, <2>1
  <2> QED
    BY <1>2, <2>1, <2>2
<1>5. CASE ~(Len(toShell) < ShellSlots)
  <2>0. Len(toShell) >= ShellSlots
    BY <1>1, <1>5
  <2>1. toShell' = toShell /\ tokenLost' /\ tokenLost' \in BOOLEAN
    BY <1>1, <1>5, <2>0, Zenon
  <2> QED
    BY <1>1, <1>2, <2>1
<1> QED
  BY <1>4, <1>5

\* The types are kept.
LEMMA DuckTyped ==
  ASSUME DuckTypes, DuckNext
  PROVE  DuckTypes'
<1> DEFINE Exchange == [at : {"streaming", "record", "over"}, tokens : 0 .. MaxTokens]
<1>0. MaxSays \in Nat /\ MaxTokens \in Nat
  BY DuckAssumption
<1>1. ASSUME Say PROVE DuckTypes'
  <2>1. said + 1 \in 1 .. MaxSays /\ 1 .. said \subseteq 1 .. (said + 1)
    BY <1>0, <1>1 DEF Say, DuckTypes
  <2>2. User(said + 1) \in Message
    BY <2>1 DEF User, Message
  <2>3. chat' \in Seq(Message)
    BY <1>1, <2>2 DEF Say, DuckTypes
  <2>4. says' \in Seq(1 .. said')
    <3>1. says \in Seq(1 .. said) /\ said \in Nat /\ says' = Append(says, said + 1) /\ said' = said + 1
      BY <1>0, <1>1 DEF Say, DuckTypes
    <3> QED
      BY <3>1
  <2>5. Running' = Running
    BY <1>1 DEF Say, Running
  <2>6. UNCHANGED <<enabled, conversation, reply, toShell, tokenLost, broken>> /\ thinking' \in BOOLEAN
    BY <1>1 DEF Say
  <2>7. outOfStep' \in BOOLEAN
    BY <1>1 DEF Say, DuckTypes
  <2>8. said' \in 0 .. MaxSays /\ broken' \subseteq 1 .. said' /\ Running' \subseteq 1 .. said'
    <3>1. said \in Nat /\ said' = said + 1
      BY <1>0, <1>1 DEF Say, DuckTypes
    <3>2. 1 .. said \subseteq 1 .. said'
      BY <3>1
    <3>3. said' \in 0 .. MaxSays
      BY <1>0, <2>1, <3>1
    <3>4. broken \subseteq 1 .. said /\ Running \subseteq 1 .. said
      BY DEF DuckTypes
    <3> QED
      BY <2>5, <2>6, <3>2, <3>3, <3>4
  <2>9. /\ {enabled, tokenLost} \subseteq BOOLEAN /\ conversation \in Seq(Message) /\ reply \in [1 .. MaxSays -> Exchange]
        /\ (\A n \in 1 .. MaxSays : reply[n].at = "over" => reply[n] = Over) /\ toShell \in Seq(Letter)
    BY DEF DuckTypes
  <2>10. {enabled', thinking', tokenLost', outOfStep'} \subseteq BOOLEAN
    BY <2>6, <2>7, <2>9
  <2>11. /\ conversation' \in Seq(Message) /\ reply' \in [1 .. MaxSays -> Exchange] /\ toShell' \in Seq(Letter)
         /\ \A n \in 1 .. MaxSays : reply'[n].at = "over" => reply'[n] = Over
    BY <2>6, <2>9
  <2> QED
    BY <2>3, <2>4, <2>8, <2>10, <2>11 DEF DuckTypes
<1>2. ASSUME Clear PROVE /\ conversation' = <<>> /\ <<>> \in Seq(Message) /\ outOfStep' \in BOOLEAN
                         /\ toShell' \in Seq(Letter) /\ tokenLost' \in BOOLEAN
  <2>1. <<>> \in Seq(Message)
    OBVIOUS
  <2> QED
    BY <1>2, <2>1, DuckClears
<1>3. ASSUME ResetDuck PROVE DuckTypes'
  <2>1. Running' = Running
    BY <1>3 DEF ResetDuck, Running
  <2> QED
    BY <1>2, <1>3, <2>1 DEF ResetDuck, DuckTypes
<1>4. ASSUME Hear PROVE DuckTypes'
  <2> DEFINE n == Head(says)
  <2>1. n \in 1 .. said /\ says' \in Seq(1 .. said) /\ n \in 1 .. MaxSays
    <3>1. says \in Seq(1 .. said) /\ says # <<>> /\ says' = Tail(says) /\ said \in 0 .. MaxSays
      BY <1>4 DEF Hear, DuckTypes
    <3>2. n \in 1 .. said /\ says' \in Seq(1 .. said)
      BY <3>1
    <3> HIDE DEF n
    <3> QED
      BY <1>0, <3>1, <3>2
  <2>2. UNCHANGED <<enabled, chat, thinking, broken, said, resets>>
    BY <1>4 DEF Hear
  <2> HIDE DEF n
  <2>3. CASE ~enabled \/ ~(Len(conversation) < Cap)
    <3>1. reply' = reply /\ Running' = Running
      BY <1>4, <2>3 DEF Hear, Heard, Running
    <3>2. UNCHANGED <<conversation, toShell, tokenLost, outOfStep>> \/ Clear
      BY <1>4, <2>3 DEF Hear, Heard
    <3> QED
      BY <1>2, <2>1, <2>2, <3>1, <3>2 DEF DuckTypes
  <2>4. CASE enabled /\ Len(conversation) < Cap
    <3>1. /\ conversation' = Append(conversation, User(n))
          /\ reply' = [reply EXCEPT ![n] = [at |-> "streaming", tokens |-> 0]]
          /\ outOfStep' = (outOfStep \/ Running # {})
          /\ UNCHANGED <<toShell, tokenLost>>
      BY <1>4, <2>4 DEF Hear, Heard, n
    <3>2. User(n) \in Message /\ conversation' \in Seq(Message)
      BY <2>1, <3>1 DEF User, Message, DuckTypes
    <3>3. [at |-> "streaming", tokens |-> 0] \in Exchange
      BY <1>0
    <3>4. /\ reply' \in [1 .. MaxSays -> Exchange]
          /\ \A m \in 1 .. MaxSays : reply'[m].at = "over" => reply'[m] = Over
          /\ Running' = Running \cup {n}
      BY <2>1, <3>1, <3>3 DEF DuckTypes, Running, Over
    <3> QED
      BY <2>1, <2>2, <3>1, <3>2, <3>4 DEF DuckTypes
  <2> QED
    BY <2>3, <2>4
<1>5. ASSUME NEW n \in 1 .. MaxSays, StreamToken(n) \/ StreamDone(n) \/ StreamFails(n) \/ RecordReply(n)
      PROVE  DuckTypes'
  <2>1. UNCHANGED <<enabled, chat, thinking, says, outOfStep, said, resets>>
    BY <1>5 DEF StreamToken, StreamDone, StreamFails, RecordReply
  <2>2. broken' \subseteq 1 .. said /\ conversation' \in Seq(Message) /\ Running' \subseteq 1 .. said /\ n \in 1 .. said
    <3>1. n \in 1 .. said /\ Running' \subseteq 1 .. said
      BY <1>5, DuckTasks DEF DuckTypes
    <3>2. Reply(n) \in Message
      BY DEF Reply, Message
    <3>3. broken' = broken \/ broken' = broken \cup {n}
      BY <1>5 DEF StreamToken, StreamDone, StreamFails, RecordReply
    <3>4. conversation' = conversation \/ conversation' = Append(conversation, Reply(n))
      BY <1>5 DEF StreamToken, StreamDone, StreamFails, RecordReply
    <3>5. conversation' \in Seq(Message)
      <4>1. conversation \in Seq(Message)
        BY DEF DuckTypes
      <4> QED
        BY <3>2, <3>4, <4>1
    <3>6. broken' \subseteq 1 .. said
      BY <3>1, <3>3 DEF DuckTypes
    <3> QED
      BY <3>1, <3>5, <3>6
  <2>3. /\ reply' \in [1 .. MaxSays -> Exchange]
        /\ \A m \in 1 .. MaxSays : reply'[m].at = "over" => reply'[m] = Over
    <3>1. CASE StreamToken(n)
      <4>1. reply' = [reply EXCEPT ![n].tokens = @ + 1] /\ reply[n].tokens + 1 \in 0 .. MaxTokens
            /\ reply[n].at = "streaming"
        BY <1>0, <3>1 DEF StreamToken, DuckTypes
      <4> QED
        BY <4>1 DEF DuckTypes
    <3>2. CASE StreamDone(n)
      BY <3>2 DEF StreamDone, DuckTypes
    <3>3. CASE StreamFails(n) \/ RecordReply(n)
      <4>1. reply' = [reply EXCEPT ![n] = Over]
        BY <3>3 DEF StreamFails, RecordReply
      <4>2. Over \in Exchange
        BY <1>0 DEF Over
      <4> QED
        BY <4>1, <4>2 DEF DuckTypes
    <3> QED
      BY <1>5, <3>1, <3>2, <3>3
  <2>4. UNCHANGED <<toShell, tokenLost>>
        \/ \E m \in {Token(n, FALSE), Token(n, TRUE), End(n)} : SendShell(m)
    BY <1>5 DEF StreamToken, StreamDone, StreamFails, RecordReply
  <2>5. /\ toShell' \in Seq(Letter) /\ tokenLost' \in BOOLEAN
    <3>1. CASE UNCHANGED <<toShell, tokenLost>>
      BY <3>1 DEF DuckTypes
    <3>2. ASSUME NEW m \in {Token(n, FALSE), Token(n, TRUE), End(n)}, SendShell(m)
          PROVE  /\ toShell' \in Seq(Letter) /\ tokenLost' \in BOOLEAN
      BY <3>2, DuckLetters, DuckSends
    <3> QED
      BY <2>4, <3>1, <3>2
  <2> QED
    BY <2>1, <2>2, <2>3, <2>5 DEF DuckTypes
<1>6. ASSUME ShellReceives PROVE DuckTypes'
  <2>1. UNCHANGED <<enabled, says, conversation, reply, tokenLost, outOfStep, broken, said, resets>> /\ Running' = Running
    BY <1>6 DEF ShellReceives, Running
  <2>2. toShell \in Seq(Letter) /\ toShell # <<>> /\ toShell' = Tail(toShell)
    BY <1>6 DEF ShellReceives, DuckTypes
  <2>3. toShell' \in Seq(Letter) /\ Head(toShell) = toShell[1] /\ toShell[1] \in Letter
    BY <2>2
  <2>4. chat' = <<>> \/ chat' = chat \/ (chat' = Append(chat, Reply(toShell[1].n)) /\ toShell[1].type = "token")
    <3>1. chat' = IF toShell[1].type = "reset" THEN <<>> ELSE Grown(toShell[1])
      BY <1>6, <2>3 DEF ShellReceives
    <3>2. Grown(toShell[1]) = chat \/ (Grown(toShell[1]) = Append(chat, Reply(toShell[1].n)) /\ toShell[1].type # "end")
      BY DEF Grown
    <3>3. toShell[1].type \in {"token", "end", "reset"}
      BY <2>3 DEF Letter
    <3> QED
      BY <3>1, <3>2, <3>3
  <2>5. ASSUME toShell[1].type = "token" /\ chat' = Append(chat, Reply(toShell[1].n)) PROVE chat' \in Seq(Message)
    <3>1. toShell[1].n \in 1 .. MaxSays
      BY <2>3, <2>5 DEF Letter
    <3>2. Reply(toShell[1].n) \in Message
      BY <3>1 DEF Reply, Message
    <3>3. chat \in Seq(Message)
      BY DEF DuckTypes
    <3> QED
      BY <2>5, <3>2, <3>3
  <2>6. chat' \in Seq(Message)
    <3>1. chat \in Seq(Message) /\ <<>> \in Seq(Message)
      BY DEF DuckTypes
    <3> QED
      BY <2>4, <2>5, <3>1
  <2>7. thinking' \in BOOLEAN
    BY <1>6 DEF ShellReceives
  <2> QED
    BY <2>1, <2>3, <2>6, <2>7 DEF DuckTypes
<1> QED
  BY <1>1, <1>3, <1>4, <1>5, <1>6 DEF DuckNext

\* What an enabled duck is waited for stays under way until the input field is freed.
LEMMA DuckAwaits ==
  ASSUME DuckTypes, Awaited, DuckNext
  PROVE  Awaited'
<1>0. SUFFICES ASSUME thinking', enabled', ~tokenLost'
               PROVE  \/ says' # <<>>
                      \/ \E n \in 1 .. MaxSays : reply'[n].at = "streaming"
                      \/ \E i \in 1 .. Len(toShell') : toShell'[i].done
  BY DEF Awaited
<1> DEFINE LastSent == \E i \in 1 .. Len(toShell) : toShell[i].done
<1>1. ASSUME NEW m \in Letter, SendShell(m), m.done \/ LastSent PROVE \E i \in 1 .. Len(toShell') : toShell'[i].done
  <2>1. /\ Len(toShell') = Len(toShell) + 1 /\ toShell'[Len(toShell')] = m /\ Len(toShell) \in Nat
        /\ \A i \in 1 .. Len(toShell) : toShell'[i] = toShell[i]
    BY <1>0, <1>1, DuckSends DEF DuckTypes
  <2>2. CASE m.done
    <3>1. Len(toShell') \in 1 .. Len(toShell') /\ toShell'[Len(toShell')].done
      BY <2>1, <2>2
    <3> QED
      BY <3>1
  <2>3. CASE LastSent
    BY <2>1, <2>3
  <2> QED
    BY <1>1, <2>2, <2>3
<1> HIDE DEF LastSent
<1>2. CASE Say
  <2>1. says' = Append(says, said') /\ says \in Seq(1 .. said)
    BY <1>2 DEF Say, DuckTypes
  <2>2. Len(says') = Len(says) + 1 /\ Len(says) \in Nat
    BY <2>1
  <2>3. Len(<<>>) = 0
    OBVIOUS
  <2>4. says' # <<>>
    <3>1. Len(says') # 0
      BY <2>2
    <3> QED
      BY <2>3, <3>1
  <2> QED
    BY <2>4
<1>3. ASSUME Clear PROVE \E i \in 1 .. Len(toShell') : toShell'[i].done
  <2>1. Len(toShell') \in 1 .. Len(toShell') /\ toShell'[Len(toShell')] = ResetMessage
    BY <1>0, <1>3, DuckClears DEF DuckTypes
  <2> QED
    BY <2>1 DEF ResetMessage
<1>4. CASE ResetDuck
  BY <1>3, <1>4 DEF ResetDuck
<1>5. CASE Hear
  <2>1. enabled
    BY <1>0, <1>5 DEF Hear
  <2>2. PICK n \in 1 .. MaxSays : n = Head(says)
    BY <1>5, DuckAssumption DEF Hear, DuckTypes
  <2>3. Clear \/ reply' = [reply EXCEPT ![n] = [at |-> "streaming", tokens |-> 0]]
    BY <1>5, <2>1, <2>2 DEF Hear, Heard
  <2>4. reply' = [reply EXCEPT ![n] = [at |-> "streaming", tokens |-> 0]] => reply'[n].at = "streaming"
    BY DEF DuckTypes
  <2> QED
    BY <1>3, <2>3, <2>4
<1>6. ASSUME NEW n \in 1 .. MaxSays, StreamToken(n) \/ StreamDone(n) \/ StreamFails(n) \/ RecordReply(n)
      PROVE  \/ says' # <<>>
             \/ \E p \in 1 .. MaxSays : reply'[p].at = "streaming"
             \/ \E i \in 1 .. Len(toShell') : toShell'[i].done
  <2>1. UNCHANGED <<enabled, thinking, says>>
    BY <1>6 DEF StreamToken, StreamDone, StreamFails, RecordReply
  <2>2. ~tokenLost
    <3>1. UNCHANGED tokenLost \/ \E m \in Letter : SendShell(m)
      BY <1>6, DuckLetters DEF StreamToken, StreamDone, StreamFails, RecordReply
    <3> QED
      BY <1>0, <3>1, DuckSends
  <2>3. says # <<>> \/ (\E p \in 1 .. MaxSays : reply[p].at = "streaming") \/ LastSent
    BY <1>0, <2>1, <2>2 DEF Awaited, LastSent
  <2>4. CASE StreamToken(n)
    <3>1. SendShell(Token(n, FALSE)) /\ reply'[n].at = "streaming"
      BY <2>4 DEF StreamToken, DuckTypes
    <3> QED
      BY <3>1
  <2>5. CASE StreamDone(n) \/ StreamFails(n)
    <3>1. SendShell(End(n)) \/ SendShell(Token(n, TRUE))
      BY <2>5 DEF StreamDone, StreamFails
    <3> QED
      BY <1>1, <3>1, DuckLetters DEF End, Token
  <2>6. CASE RecordReply(n)
    <3>1. toShell' = toShell /\ \A p \in 1 .. MaxSays : reply[p].at = "streaming" => reply'[p].at = "streaming"
      BY <2>6 DEF RecordReply, DuckTypes
    <3> QED
      BY <2>1, <2>3, <3>1 DEF LastSent
  <2> QED
    BY <1>6, <2>4, <2>5, <2>6
<1>7. CASE ShellReceives
  <2>1. UNCHANGED <<enabled, says, reply, tokenLost>> /\ toShell' = Tail(toShell) /\ toShell # <<>>
        /\ thinking /\ ~Head(toShell).done
    BY <1>0, <1>7 DEF ShellReceives
  <2>2. \A i \in 1 .. Len(toShell) : toShell[i].done => i # 1 /\ i - 1 \in 1 .. Len(toShell') /\ toShell'[i - 1] = toShell[i]
    BY <2>1 DEF DuckTypes
  <2>3. LastSent => \E i \in 1 .. Len(toShell') : toShell'[i].done
    BY <2>2 DEF LastSent
  <2> QED
    BY <1>0, <2>1, <2>3 DEF Awaited, LastSent
<1> QED
  BY <1>2, <1>4, <1>5, <1>6, <1>7 DEF DuckNext

\* In step, there is one reply at a time, to what was said last.
LEMMA DuckOneReply ==
  ASSUME DuckTypes, ~outOfStep => OneReply, DuckNext, ~outOfStep'
  PROVE  OneReply'
<1>0. /\ conversation \in Seq(Message) /\ DOMAIN conversation = 1 .. Len(conversation) /\ Len(conversation) \in Nat
      /\ Cap \in Nat
  <2>1. conversation \in Seq(Message) /\ Cap \in Nat
    BY DuckAssumption DEF DuckTypes
  <2> QED
    BY <2>1
<1>1. ASSUME outOfStep => outOfStep' PROVE OneReply
  BY <1>1
<1>2. ASSUME OneReply, UNCHANGED <<conversation, Running>> PROVE OneReply'
  BY <1>2 DEF OneReply
<1>3. ASSUME Clear, Running' = Running PROVE OneReply'
  <2>1. conversation' = <<>> /\ Running = {}
    BY <1>3 DEF Clear
  <2>2. Len(<<>>) = 0
    OBVIOUS
  <2>3. Len(conversation') = 0 /\ Running' = {}
    BY <1>3, <2>1, <2>2
  <2> QED
    BY <1>0, <2>3 DEF OneReply
<1>4. CASE Say \/ ResetDuck \/ ShellReceives
  <2>1. Running' = Running
    BY <1>4 DEF Say, ResetDuck, ShellReceives, Running
  <2>2. Clear \/ (conversation' = conversation /\ (outOfStep => outOfStep'))
    BY <1>4 DEF Say, ResetDuck, ShellReceives
  <2> QED
    BY <1>1, <1>2, <1>3, <2>1, <2>2
<1>5. CASE Hear
  <2>1. CASE ~enabled \/ ~(Len(conversation) < Cap)
    <3>1. reply' = reply /\ (Clear \/ (conversation' = conversation /\ outOfStep' = outOfStep))
      BY <1>5, <2>1 DEF Hear, Heard
    <3>2. Running' = Running
      BY <3>1 DEF Running
    <3> QED
      BY <1>1, <1>2, <1>3, <3>1, <3>2
  <2>2. CASE enabled /\ Len(conversation) < Cap
    <3>1. PICK n \in 1 .. MaxSays : n = Head(says)
      BY <1>5, DuckAssumption DEF Hear, DuckTypes
    <3>2. /\ conversation' = Append(conversation, User(n)) /\ Running = {}
          /\ reply' = [reply EXCEPT ![n] = [at |-> "streaming", tokens |-> 0]] /\ OneReply
      <4>1. /\ conversation' = Append(conversation, User(n)) /\ outOfStep' = (outOfStep \/ Running # {})
            /\ reply' = [reply EXCEPT ![n] = [at |-> "streaming", tokens |-> 0]]
        BY <1>5, <2>2, <3>1 DEF Hear, Heard
      <4> QED
        BY <1>1, <4>1
    <3>3. Running' = {n}
      BY <3>2 DEF Running, DuckTypes, Over
    <3>4. User(n) \in Message /\ User(n).who = "user"
      BY DEF User, Message
    <3>5. /\ Len(conversation') = Len(conversation) + 1 /\ conversation'[Len(conversation) + 1] = User(n)
          /\ \A i \in 1 .. Len(conversation) : conversation'[i] = conversation[i]
      BY <1>0, <3>2, <3>4
    <3>6. ASSUME NEW i \in 1 .. Len(conversation'), conversation'[i].who = "assistant"
          PROVE  \E j \in 1 .. (i - 1) : conversation'[j] = User(conversation'[i].n)
      <4>1. i \in 1 .. Len(conversation) /\ conversation'[i] = conversation[i]
        BY <1>0, <3>4, <3>5, <3>6
      <4>2. PICK j \in 1 .. (i - 1) : conversation[j] = User(conversation[i].n)
        BY <3>2, <3>6, <4>1 DEF OneReply
      <4> QED
        BY <1>0, <3>5, <4>1, <4>2
    <3>7. Len(conversation') <= Cap /\ conversation' # <<>>
      BY <1>0, <2>2, <3>2, <3>4, <3>5
    <3> QED
      BY <1>0, <3>3, <3>5, <3>6, <3>7 DEF OneReply
  <2> QED
    BY <2>1, <2>2
<1>6. ASSUME NEW n \in 1 .. MaxSays, StreamToken(n) \/ StreamDone(n) \/ StreamFails(n) \/ RecordReply(n)
      PROVE  OneReply'
  <2>0. OneReply
    BY <1>1, <1>6 DEF StreamToken, StreamDone, StreamFails, RecordReply
  <2>1. CASE StreamToken(n) \/ StreamDone(n)
    <3>1. conversation' = conversation /\ Running' = Running
      BY <2>1, DuckTasks DEF StreamToken, StreamDone
    <3> QED
      BY <1>2, <2>0, <3>1
  <2>2. CASE StreamFails(n) \/ RecordReply(n)
    <3>1. n \in Running /\ Running' = {}
      BY <2>0, <2>2, DuckTasks DEF OneReply
    <3>2. CASE conversation' = conversation
      BY <2>0, <3>1, <3>2 DEF OneReply
    <3>3. CASE conversation' = Append(conversation, Reply(n))
      <4>1. Reply(n) \in Message /\ Reply(n).n = n
        BY DEF Reply, Message
      <4>2. /\ Len(conversation') = Len(conversation) + 1 /\ conversation'[Len(conversation) + 1] = Reply(n)
            /\ \A i \in 1 .. Len(conversation) : conversation'[i] = conversation[i]
        BY <1>0, <3>3, <4>1
      <4>3. Len(conversation) <= Cap /\ conversation[Len(conversation)] = User(n) /\ Len(conversation) \in 1 .. Len(conversation)
        BY <1>0, <2>0, <3>1 DEF OneReply
      <4>4. ASSUME NEW i \in 1 .. Len(conversation'), conversation'[i].who = "assistant"
            PROVE  \E j \in 1 .. (i - 1) : conversation'[j] = User(conversation'[i].n)
        <5>1. CASE i = Len(conversation) + 1
          BY <1>0, <4>1, <4>2, <4>3, <5>1
        <5>2. CASE i # Len(conversation) + 1
          <6>1. i \in 1 .. Len(conversation) /\ conversation'[i] = conversation[i]
            BY <1>0, <4>2, <5>2
          <6>2. PICK j \in 1 .. (i - 1) : conversation[j] = User(conversation[i].n)
            BY <2>0, <4>4, <6>1 DEF OneReply
          <6> QED
            BY <1>0, <4>2, <6>1, <6>2
        <5> QED
          BY <5>1, <5>2
      <4>5. Len(conversation') <= Cap + 1
        BY <1>0, <4>2, <4>3
      <4> QED
        BY <3>1, <4>4, <4>5 DEF OneReply
    <3> QED
      BY <2>2, <3>2, <3>3 DEF StreamFails, RecordReply
  <2> QED
    BY <1>6, <2>1, <2>2
<1> QED
  BY <1>4, <1>5, <1>6 DEF DuckNext

\* The messages but for the replies that are in b.
Sound(b) == {m \in Message : m.who = "user" \/ m.n \notin b}

\* What was said but for the replies that failed is what is kept of it.
LEMMA DuckKeeps ==
  /\ DuckTypes => Successful(chat) = Kept(chat, Sound(broken))
  /\ DuckTypes' => Successful(chat)' = Kept(chat', Sound(broken'))
<1>1. ASSUME NEW s \in Seq(Message), NEW b
      PROVE  FlattenSeq([i \in DOMAIN s |-> IF s[i].who = "user" \/ s[i].n \notin b THEN <<s[i]>> ELSE <<>>])
             = Kept(s, Sound(b))
  <2>1. DOMAIN s = 1 .. Len(s)
    OBVIOUS
  <2>2. \A i \in 1 .. Len(s) : s[i] \in Sound(b) <=> s[i].who = "user" \/ s[i].n \notin b
    BY DEF Sound
  <2>3. [i \in DOMAIN s |-> IF s[i].who = "user" \/ s[i].n \notin b THEN <<s[i]>> ELSE <<>>]
        = [i \in DOMAIN s |-> IF s[i] \in Sound(b) THEN <<s[i]>> ELSE <<>>]
    BY <2>1, <2>2
  <2> QED
    BY <2>3 DEF Kept
<1>2. ASSUME DuckTypes PROVE Successful(chat) = Kept(chat, Sound(broken))
  BY <1>1, <1>2 DEF Successful, DuckTypes
<1>3. ASSUME DuckTypes' PROVE Successful(chat)' = Kept(chat', Sound(broken'))
  BY <1>1, <1>3 DEF Successful, DuckTypes
<1> QED
  BY <1>2, <1>3

\* Nothing came in between or was lost, or a reset made it good.
Level == ~outOfStep /\ enabled /\ ~tokenLost

\* A duck in step was in step, or is reset.
LEMMA DuckWasLevel ==
  ASSUME DuckTypes, DuckNext, Level', ~(Clear /\ reply' = reply)
  PROVE  Level
<1>1. enabled
  BY DEF DuckNext, Say, Hear, ResetDuck, ShellReceives, StreamToken, StreamDone, StreamFails, RecordReply, Level
<1>2. CASE Say \/ ShellReceives \/ Hear \/ ResetDuck
  <2>1. Say \/ ShellReceives => tokenLost' = tokenLost /\ (outOfStep => outOfStep')
    <3>1. Say => tokenLost' = tokenLost
      BY DEF Say
    <3>2. Say => (outOfStep => outOfStep')
      BY Zenon DEF Say
    <3>3. ShellReceives => UNCHANGED <<tokenLost, outOfStep>>
      BY DEF ShellReceives
    <3> QED
      BY <3>1, <3>2, <3>3
  <2>2. Hear => tokenLost' = tokenLost /\ (outOfStep => outOfStep')
    <3> SUFFICES ASSUME Hear PROVE tokenLost' = tokenLost /\ (outOfStep => outOfStep')
      OBVIOUS
    <3>1. Heard(Head(says))
      BY <1>1 DEF Hear
    <3>2. CASE Len(conversation) < Cap
      BY <3>1, <3>2 DEF Heard
    <3>3. CASE ~(Len(conversation) < Cap)
      <4>1. Clear /\ reply' = reply
        BY <3>1, <3>3 DEF Heard
      <4> QED
        BY <4>1
    <3> QED
      BY <3>2, <3>3
  <2>3. ~ResetDuck
    BY DEF ResetDuck
  <2>4. tokenLost' = tokenLost /\ (outOfStep => outOfStep')
    BY <1>2, <2>1, <2>2, <2>3, Zenon
  <2>5. ~outOfStep' /\ ~tokenLost'
    BY DEF Level
  <2> QED
    BY <1>1, <2>4, <2>5, Zenon DEF Level
<1>3. ASSUME NEW n \in 1 .. MaxSays, StreamToken(n) \/ StreamDone(n) \/ StreamFails(n) \/ RecordReply(n)
      PROVE  Level
  <2>1. outOfStep' = outOfStep /\ (UNCHANGED tokenLost \/ \E m \in Letter : SendShell(m))
    BY <1>3, DuckLetters DEF StreamToken, StreamDone, StreamFails, RecordReply
  <2>2. ~tokenLost
    BY <2>1, DuckSends DEF Level
  <2> QED
    BY <1>1, <2>1, <2>2 DEF Level
<1> QED
  BY <1>2, <1>3 DEF DuckNext

\* The duck is reset: the reset is the last thing under way.
LEMMA DuckResets ==
  ASSUME DuckTypes, Level', Clear, reply' = reply
  PROVE  ResetComes' /\ AfterReset'
<1>1. conversation' = <<>> /\ Running = {} /\ says' = <<>>
  BY DEF Clear, Level
<1>2. /\ Len(toShell') = Len(toShell) + 1 /\ toShell'[Len(toShell')] = ResetMessage /\ Len(toShell) \in Nat
      /\ toShell' \in Seq(Letter)
  BY DuckClears DEF Level, DuckTypes
<1>3. Len(toShell') \in 1 .. Len(toShell') /\ toShell'[Len(toShell')].type = "reset" /\ toShell' # <<>>
  BY <1>2 DEF ResetMessage
<1>4. Running' = {}
  BY <1>1 DEF Running
<1> QED
  BY <1>1, <1>3, <1>4 DEF ResetComes, AfterReset

\* Facts every step of a duck in step starts from.
LEMMA DuckFacts ==
  ASSUME DuckTypes
  PROVE  /\ conversation \in Seq(Message) /\ Len(conversation) \in Nat
         /\ chat \in Seq(Message) /\ Len(chat) \in Nat
         /\ toShell \in Seq(Letter) /\ Len(toShell) \in Nat
         /\ Kept(chat, Sound(broken)) \in Seq(Message) /\ said \in Nat
         /\ \A p \in 1 .. MaxSays : /\ User(p) \in Message /\ Reply(p) \in Message /\ User(p) # Reply(p)
                                    /\ User(p).who = "user" /\ User(p).n = p /\ Reply(p).who = "assistant" /\ Reply(p).n = p
         /\ \A s \in Seq(Message), e \in Message :
              s \o <<>> = s /\ s \o <<e>> = Append(s, e) /\ Append(s, e) \in Seq(Message) /\ <<e>> \in Seq(Message)
         /\ <<>> \in Seq(Message) /\ \A s, t \in Seq(Message) : s \o t \in Seq(Message)
<1>1. conversation \in Seq(Message) /\ chat \in Seq(Message) /\ toShell \in Seq(Letter) /\ said \in Nat
  BY DuckAssumption DEF DuckTypes
<1>2. \A p \in 1 .. MaxSays : /\ User(p) \in Message /\ Reply(p) \in Message /\ User(p) # Reply(p)
                              /\ User(p).who = "user" /\ User(p).n = p /\ Reply(p).who = "assistant" /\ Reply(p).n = p
  BY DEF User, Reply, Message
<1>3. Kept(chat, Sound(broken)) \in Seq(Message)
  BY <1>1, KeptRange
<1>4. \A s \in Seq(Message), e \in Message :
        s \o <<>> = s /\ s \o <<e>> = Append(s, e) /\ Append(s, e) \in Seq(Message) /\ <<e>> \in Seq(Message)
  OBVIOUS
<1>5. <<>> \in Seq(Message) /\ \A s, t \in Seq(Message) : s \o t \in Seq(Message)
  OBVIOUS
<1> QED
  BY <1>1, <1>2, <1>3, <1>4, <1>5

\* The user says something.
LEMMA DuckSays ==
  ASSUME DuckTypes, DuckTypes', Level', Level, IF ResetComes THEN AfterReset ELSE InStep, Say
  PROVE  IF ResetComes' THEN AfterReset' ELSE InStep'
<1>1. /\ ~thinking /\ said' = said + 1 /\ chat' = Append(chat, User(said + 1)) /\ thinking' /\ says' = Append(says, said + 1)
      /\ UNCHANGED <<enabled, conversation, reply, toShell, tokenLost, broken>>
      /\ said + 1 \in 1 .. MaxSays
  BY DuckAssumption DEF Say, DuckTypes
<1>2. ~ResetComes /\ ~ResetComes'
  <2>1. ~ \E i \in DOMAIN toShell : toShell[i].type = "reset"
    BY DEF Say, Level
  <2>2. DOMAIN toShell = 1 .. Len(toShell)
    BY DEF DuckTypes
  <2> QED
    BY <1>1, <2>1, <2>2 DEF ResetComes
<1>3. InStep
  BY <1>2
<1>4. says = <<>> /\ toShell = <<>> /\ toShell' = <<>> /\ Len(toShell) = 0 /\ Running' = Running
  BY <1>1, <1>3 DEF InStep, Spoken, Coming, Running
<1>5. says' = <<said'>> /\ says' # <<>>
  BY <1>1, <1>4
<1>6. /\ Len(chat') = Len(chat) + 1 /\ chat'[Len(chat) + 1] = User(said')
      /\ \A i \in 1 .. Len(chat) : chat'[i] = chat[i]
  BY <1>1, DuckFacts
<1>7. said' \notin broken /\ said' \notin Running /\ said' = said + 1
  BY <1>1, DuckFacts DEF DuckTypes
<1>8. ChatNumbers'
  <2>1. \A i \in 1 .. Len(chat) : chat[i].n < said' /\ chat[i].n \in Int
    <3>1. \A i \in 1 .. Len(chat) : chat[i].n <= said /\ chat[i] \in Message
      BY <1>3, DuckFacts DEF InStep, ChatNumbers
    <3>2. \A m \in Message : m.n \in Int
      BY DEF Message
    <3>3. said \in Nat /\ said' = said + 1
      BY <1>1, DuckFacts
    <3> QED
      BY <3>1, <3>2, <3>3
  <2>2. chat'[Len(chat) + 1].n = said'
    BY <1>1, <1>6, DuckFacts
  <2>3. Len(chat) \in Nat /\ said' \in Nat
    BY <1>1, DuckFacts
  <2>4. \A i \in 1 .. Len(chat') : chat'[i].n <= said'
    BY <1>6, <2>1, <2>2, <2>3
  <2>5. \A i \in 1 .. (Len(chat') - 1) : chat'[i].n < said'
    BY <1>6, <2>1, <2>3
  <2>6. toShell' = <<>> /\ says' # <<>>
    BY <1>4, <1>5
  <2> QED
    BY <2>4, <2>5, <2>6 DEF ChatNumbers
<1>9. Spoken'
  <2>1. \A p \in Running' : reply'[p].at = "record"
    <3>1. \A p \in Running : reply[p].at = "record"
      BY <1>1, <1>3 DEF InStep, Streaming, Running, DuckTypes
    <3> QED
      BY <1>1, <1>4, <3>1
  <2>2. chat' # <<>> /\ chat'[Len(chat')] = User(said')
    BY <1>6, <1>1, DuckFacts
  <2>3. says' = <<said'>> /\ toShell' = <<>> /\ thinking'
    BY <1>1, <1>4, <1>5
  <2>4. said' \notin broken' /\ said' \notin Running'
    BY <1>1, <1>4, <1>7
  <2> QED
    BY <2>1, <2>2, <2>3, <2>4 DEF Spoken
<1>10. Coming' /\ Streaming'
  <2>1. Len(toShell') = 0 /\ toShell' = <<>> /\ says' # <<>> /\ Running' = Running /\ UNCHANGED <<reply, broken>>
    BY <1>1, <1>4, <1>5
  <2>2. Coming'
    BY <2>1 DEF Coming
  <2>3. \A p \in Running : p \notin broken
    BY <1>3 DEF InStep, Streaming
  <2>4. thinking'
    BY <1>1
  <2>5. Streaming'
    BY <2>1, <2>3, <2>4 DEF Streaming
  <2> QED
    BY <2>2, <2>5
<1>11. Whole'
  <2>1. Successful(chat)' = Append(Successful(chat), User(said'))
    <3>1. User(said') \in Sound(broken)
      BY <1>1, DuckFacts DEF Sound
    <3>2. Kept(chat', Sound(broken)) = Append(Kept(chat, Sound(broken)), User(said'))
      <4>1. chat \in Seq(Message) /\ User(said') \in Message /\ chat' = Append(chat, User(said'))
        BY <1>1, DuckFacts
      <4> QED
        BY <3>1, <4>1, KeptAppend
    <3>3. Successful(chat)' = Kept(chat', Sound(broken'))
      BY DuckKeeps
    <3> QED
      BY <1>1, <3>2, <3>3, DuckKeeps
  <2>2. Successful(chat) \in Seq(Message)
    BY DuckKeeps, DuckFacts
  <2>3. Unshown = <<>> /\ Unshown' = <<>> /\ Unheard = <<>> /\ Unheard' = <<User(said')>>
    BY <1>4, <1>5 DEF Unshown, Unheard, TokenComes
  <2>4. User(said') \in Message
    BY <1>1, DuckFacts
  <2>5. Successful(chat) \o <<>> = Successful(chat) /\ Append(Successful(chat), User(said')) \o <<>> = Append(Successful(chat), User(said'))
    BY <2>2, <2>4, DuckFacts
  <2>6. ASSUME Running' = {} PROVE conversation' \o Unheard' = Successful(chat)' \o Unshown'
    <3>1. conversation = Successful(chat)
      BY <1>3, <1>4, <2>3, <2>5, <2>6, DuckFacts DEF InStep, Whole
    <3> QED
      BY <1>1, <2>1, <2>2, <2>3, <2>4, <2>5, <3>1, DuckFacts
  <2>7. ASSUME NEW p \in Running' PROVE conversation' \o Unrecorded(p)' \o Unheard' = Successful(chat)' \o Unshown'
    <3>0. p \in Running /\ p \in 1 .. MaxSays
      BY <1>4, <2>7 DEF Running
    <3>1. Unrecorded(p)' = Unrecorded(p) /\ Unrecorded(p) \in Seq(Message)
      BY <1>1, <3>0, DuckFacts DEF Unrecorded
    <3>2. PICK c \in Seq(Message) : c = conversation \o Unrecorded(p)
      <4>1. conversation \o Unrecorded(p) \in Seq(Message)
        BY <3>1, DuckFacts
      <4> QED
        BY <4>1
    <3>3. c \o Unheard = Successful(chat) \o Unshown
      BY <1>3, <3>0, <3>2 DEF InStep, Whole
    <3>4. c = Successful(chat)
      BY <2>3, <2>5, <3>3, DuckFacts
    <3>5. conversation' \o Unrecorded(p)' = c
      BY <1>1, <3>1, <3>2
    <3>6. c \o <<User(said')>> = Append(c, User(said'))
      BY <2>4, DuckFacts
    <3> QED
      BY <2>1, <2>3, <2>5, <3>4, <3>5, <3>6
  <2> QED
    BY <2>6, <2>7 DEF Whole
<1> QED
  BY <1>2, <1>8, <1>9, <1>10, <1>11 DEF InStep

\* The module hears what was said.
LEMMA DuckHears ==
  ASSUME DuckTypes, DuckTypes', Level', Level, IF ResetComes THEN AfterReset ELSE InStep, Hear
  PROVE  IF ResetComes' THEN AfterReset' ELSE InStep'
<1>1. says # <<>> /\ says' = Tail(says) /\ enabled /\ UNCHANGED <<enabled, chat, thinking, broken, said, resets>>
      /\ Heard(Head(says))
  BY DEF Hear, Level
<1>2. ~ResetComes /\ InStep
  BY <1>1 DEF AfterReset
<1>3. /\ says = <<said>> /\ toShell = <<>> /\ thinking /\ said \notin broken /\ said \notin Running
      /\ chat # <<>> /\ chat[Len(chat)] = User(said) /\ Head(says) = said /\ says' = <<>>
  <2>1. /\ says = <<said>> /\ toShell = <<>> /\ thinking /\ said \notin broken /\ said \notin Running
        /\ chat # <<>> /\ chat[Len(chat)] = User(said)
    BY <1>1, <1>2 DEF InStep, Spoken
  <2>2. Head(<<said>>) = said /\ Tail(<<said>>) = <<>>
    OBVIOUS
  <2> QED
    BY <1>1, <2>1, <2>2
<1>4. CASE Len(conversation) < Cap
  <2>1. /\ conversation' = Append(conversation, User(said)) /\ Running = {}
        /\ reply' = [reply EXCEPT ![said] = [at |-> "streaming", tokens |-> 0]]
        /\ UNCHANGED <<toShell, tokenLost>>
    BY <1>1, <1>3, <1>4 DEF Heard, Level
  <2>2. said \in 1 .. MaxSays
    BY <1>3, DuckAssumption DEF DuckTypes
  <2>3. Running' = {said} /\ reply'[said].tokens = 0 /\ reply'[said].at = "streaming"
    BY <2>1, <2>2 DEF Running, DuckTypes, Over
  <2>4. ~TokenComes' /\ Len(toShell') = 0 /\ ~EndsWithReply' /\ toShell' = <<>> /\ ~TokenComes
    BY <1>1, <1>3, <2>1, <2>2, DuckFacts DEF TokenComes, EndsWithReply
  <2>5. ChatNumbers'
    BY <1>1, <1>2, <1>3, <2>1, <2>2, <2>4 DEF InStep, ChatNumbers
  <2>6. Spoken' /\ Coming'
    BY <1>3, <2>4 DEF Spoken, Coming
  <2>7. Streaming'
    BY <1>1, <1>3, <2>3, <2>4 DEF Streaming
  <2>8. Whole'
    <3>1. Successful(chat)' = Successful(chat)
      BY <1>1 DEF Successful
    <3>2. Unheard = <<User(said)>> /\ Unheard' = <<>> /\ Unshown' = <<>> /\ Unshown = <<>> /\ Unrecorded(said)' = <<>>
      BY <1>1, <1>3, <2>3, <2>4 DEF Unheard, Unshown, Unrecorded
    <3>3. conversation \o <<User(said)>> = Successful(chat) \o <<>>
      BY <1>2, <2>1, <3>2 DEF InStep, Whole
    <3>4. conversation \o <<User(said)>> = Append(conversation, User(said)) /\ Append(conversation, User(said)) \in Seq(Message)
      BY <2>2, DuckFacts
    <3>5. conversation' \o <<>> = conversation' /\ conversation' \o <<>> \o <<>> = conversation'
      BY <2>1, <3>4, DuckFacts
    <3> QED
      <4>1. conversation' \o Unrecorded(said)' \o Unheard' = Successful(chat)' \o Unshown'
        BY <2>1, <3>1, <3>2, <3>3, <3>4, <3>5
      <4>2. said' = said
        BY <1>1
      <4> QED
        BY <2>3, <4>1, <4>2 DEF Whole, Unrecorded
  <2>9. ~ResetComes'
    BY <2>4 DEF ResetComes
  <2> QED
    BY <2>5, <2>6, <2>7, <2>8, <2>9 DEF InStep
<1>5. CASE ~(Len(conversation) < Cap)
  BY <1>1, <1>5, DuckResets DEF Heard
<1> QED
  BY <1>4, <1>5

\* What a step of a task starts from.
LEMMA DuckStreams ==
  ASSUME DuckTypes, Level, OneReply, IF ResetComes THEN AfterReset ELSE InStep,
         NEW n \in 1 .. MaxSays, n \in Running
  PROVE  /\ ~ResetComes /\ InStep /\ Running = {n} /\ n \notin broken
         /\ reply[n].at = "streaming" =>
              /\ says = <<>> /\ n = said /\ thinking /\ \A i \in 1 .. Len(toShell) : ~toShell[i].done
              /\ chat # <<>> /\ chat[Len(chat)] \in {User(n), Reply(n)}
              /\ (reply[n].tokens > 0 <=> EndsWithReply \/ TokenComes)
<1>1. ~ResetComes /\ InStep /\ Running = {n}
  BY DEF AfterReset, OneReply
<1>2. ASSUME reply[n].at = "streaming"
      PROVE  /\ says = <<>> /\ n = said /\ thinking /\ \A i \in 1 .. Len(toShell) : ~toShell[i].done
             /\ chat # <<>> /\ chat[Len(chat)] \in {User(n), Reply(n)}
             /\ (reply[n].tokens > 0 <=> EndsWithReply \/ TokenComes)
  <2>1. says = <<>>
    BY <1>1, <1>2 DEF InStep, Spoken
  <2> QED
    BY <1>1, <1>2, <2>1 DEF InStep, ChatNumbers, Streaming
<1> QED
  BY <1>1, <1>2 DEF InStep, Streaming

\* A token of the reply.
LEMMA DuckToken ==
  ASSUME DuckTypes, DuckTypes', Level', Level, OneReply, IF ResetComes THEN AfterReset ELSE InStep,
         NEW n \in 1 .. MaxSays, StreamToken(n)
  PROVE  ~ResetComes' /\ InStep'
<1>1. /\ reply[n].at = "streaming" /\ SendShell(Token(n, FALSE))
      /\ UNCHANGED <<enabled, chat, thinking, says, conversation, outOfStep, broken, said, resets>>
      /\ reply'[n].at = "streaming" /\ reply'[n].tokens = reply[n].tokens + 1 /\ reply[n].tokens \in Nat
  <2>1. /\ reply[n].at = "streaming" /\ SendShell(Token(n, FALSE))
        /\ UNCHANGED <<enabled, chat, thinking, says, conversation, outOfStep, broken, said, resets>>
    BY DEF StreamToken
  <2>2. reply' = [reply EXCEPT ![n].tokens = @ + 1]
    BY DEF StreamToken
  <2>3. reply[n] \in [at : {"streaming", "record", "over"}, tokens : 0 .. MaxTokens] /\ n \in DOMAIN reply
    BY DEF DuckTypes
  <2>4. reply'[n].at = reply[n].at /\ reply'[n].tokens = reply[n].tokens + 1
    BY <2>2, <2>3
  <2>5. reply[n].tokens \in Nat
    BY <2>3, DuckAssumption
  <2> QED
    BY <2>1, <2>4, <2>5
<1>2. n \in Running /\ Running' = Running
  BY DuckTasks
<1>3. /\ ~ResetComes /\ InStep /\ Running = {n} /\ n \notin broken
      /\ says = <<>> /\ n = said /\ thinking /\ \A i \in 1 .. Len(toShell) : ~toShell[i].done
      /\ chat # <<>> /\ chat[Len(chat)] \in {User(n), Reply(n)}
      /\ (reply[n].tokens > 0 <=> EndsWithReply \/ TokenComes)
  BY <1>1, <1>2, DuckStreams
<1>4. /\ Len(toShell') = Len(toShell) + 1 /\ toShell'[Len(toShell) + 1] = Token(n, FALSE) /\ Len(toShell) \in Nat
      /\ \A i \in 1 .. Len(toShell) : toShell'[i] = toShell[i]
      /\ \A i \in 1 .. Len(toShell') : toShell'[i] = Token(n, FALSE) \/ (i \in 1 .. Len(toShell) /\ toShell'[i] = toShell[i])
  <2>1. Token(n, FALSE) \in Letter /\ Len(toShell) \in Nat /\ ~tokenLost'
    BY DuckLetters, DuckFacts DEF Level
  <2> QED
    BY <1>1, <2>1, DuckSends
<1>5. Token(n, FALSE).type = "token" /\ Token(n, FALSE).n = n /\ ~Token(n, FALSE).done
  BY DEF Token
<1>6. ~ResetComes' /\ TokenComes'
  <2>1. Len(toShell) + 1 \in 1 .. Len(toShell')
    BY <1>4
  <2> QED
    BY <1>3, <1>4, <1>5, <2>1 DEF ResetComes, TokenComes
<1>7. EndsWithReply' = EndsWithReply
  BY <1>1 DEF EndsWithReply
<1>8. ChatNumbers' /\ Spoken'
  BY <1>1, <1>2, <1>3 DEF InStep, ChatNumbers, Spoken
<1>9. Coming'
  <2>1. \A i \in 1 .. Len(toShell') : toShell'[i].n = said /\ ~toShell'[i].done
    BY <1>3, <1>4, <1>5 DEF InStep, Coming
  <2> QED
    BY <1>1, <1>3, <2>1 DEF Coming
<1>10. Streaming'
  <2>1. \A i \in 1 .. Len(toShell') : ~toShell'[i].done
    BY <1>3, <1>4, <1>5
  <2> QED
    BY <1>1, <1>2, <1>3, <1>6, <2>1 DEF Streaming
<1>11. Whole'
  <2>1. Successful(chat)' = Successful(chat) /\ Unheard' = Unheard
    BY <1>1 DEF Successful, Unheard
  <2>2. conversation \o Unrecorded(n) \o Unheard = Successful(chat) \o Unshown
    BY <1>2, <1>3 DEF InStep, Whole
  <2>3. Unheard = <<>> /\ conversation \o <<>> = conversation
    BY <1>3, DuckFacts DEF Unheard
  <2>4. conversation \in Seq(Message) /\ Successful(chat) \in Seq(Message) /\ Reply(n) \in Message
    BY DuckFacts, DuckKeeps
  <2>5. conversation \o Unrecorded(n)' \o Unheard = Successful(chat) \o Unshown'
    <3>1. CASE reply[n].tokens = 0
      <4>1. Unrecorded(n) = <<>> /\ Unrecorded(n)' = <<Reply(n)>> /\ Unshown = <<>> /\ Unshown' = <<Reply(n)>>
        BY <1>1, <1>3, <1>6, <1>7, <3>1 DEF Unrecorded, Unshown
      <4>2. conversation = Successful(chat)
        BY <2>2, <2>3, <2>4, <4>1, DuckFacts
      <4> QED
        BY <2>3, <2>4, <4>1, <4>2, DuckFacts
    <3>2. CASE reply[n].tokens # 0
      <4>1. Unrecorded(n)' = Unrecorded(n)
        BY <1>1, <3>2 DEF Unrecorded
      <4>2. EndsWithReply \/ TokenComes
        BY <1>1, <1>3, <3>2
      <4>3. Unshown' = Unshown
        BY <1>1, <1>3, <1>6, <1>7, <4>2 DEF Unshown
      <4> QED
        BY <2>2, <4>1, <4>3
    <3> QED
      BY <3>1, <3>2
  <2> QED
    BY <1>1, <1>2, <1>3, <2>1, <2>5 DEF Whole
<1> QED
  BY <1>6, <1>8, <1>9, <1>10, <1>11 DEF InStep

\* The end of the reply.
LEMMA DuckEnds ==
  ASSUME DuckTypes, DuckTypes', Level', Level, OneReply, IF ResetComes THEN AfterReset ELSE InStep,
         NEW n \in 1 .. MaxSays, StreamDone(n)
  PROVE  ~ResetComes' /\ InStep'
<1>1. /\ reply[n].at = "streaming" /\ SendShell(End(n))
      /\ UNCHANGED <<enabled, chat, thinking, says, conversation, outOfStep, broken, said, resets>>
      /\ reply'[n].at = "record" /\ reply'[n].tokens = reply[n].tokens
  BY DEF StreamDone, DuckTypes
<1>2. n \in Running /\ Running' = Running
  BY DuckTasks
<1>3. /\ ~ResetComes /\ InStep /\ Running = {n} /\ n \notin broken
      /\ says = <<>> /\ n = said /\ thinking /\ \A i \in 1 .. Len(toShell) : ~toShell[i].done
      /\ chat # <<>> /\ chat[Len(chat)] \in {User(n), Reply(n)}
      /\ (reply[n].tokens > 0 <=> EndsWithReply \/ TokenComes)
  BY <1>1, <1>2, DuckStreams
<1>4. /\ Len(toShell') = Len(toShell) + 1 /\ toShell'[Len(toShell) + 1] = End(n) /\ Len(toShell) \in Nat
      /\ \A i \in 1 .. Len(toShell) : toShell'[i] = toShell[i]
      /\ \A i \in 1 .. Len(toShell') : toShell'[i] = End(n) \/ (i \in 1 .. Len(toShell) /\ toShell'[i] = toShell[i])
  <2>1. End(n) \in Letter /\ Len(toShell) \in Nat /\ ~tokenLost'
    BY DuckLetters, DuckFacts DEF Level
  <2> QED
    BY <1>1, <2>1, DuckSends
<1>5. End(n).type = "end" /\ End(n).n = n
  BY DEF End
<1>6. ~ResetComes' /\ TokenComes' = TokenComes
  <2>1. ~ResetComes'
    BY <1>3, <1>4, <1>5 DEF ResetComes
  <2>2. TokenComes' => TokenComes
    BY <1>4, <1>5 DEF TokenComes
  <2>3. TokenComes => TokenComes'
    <3>1. \A i \in 1 .. Len(toShell) : i \in 1 .. Len(toShell')
      BY <1>4
    <3> QED
      BY <1>4, <3>1 DEF TokenComes
  <2> QED
    BY <2>1, <2>2, <2>3 DEF TokenComes
<1>7. EndsWithReply' = EndsWithReply
  BY <1>1 DEF EndsWithReply
<1>8. ChatNumbers' /\ Spoken'
  BY <1>1, <1>2, <1>3 DEF InStep, ChatNumbers, Spoken
<1>9. Coming'
  <2>1. ASSUME NEW i \in 1 .. Len(toShell')
        PROVE  toShell'[i].n = said' /\ (toShell'[i].done => i = Len(toShell'))
    <3>1. CASE i \in 1 .. Len(toShell)
      BY <1>1, <1>3, <1>4, <3>1 DEF InStep, Coming
    <3>2. CASE i \notin 1 .. Len(toShell)
      <4>1. i = Len(toShell')
        BY <1>4, <3>2
      <4> QED
        BY <1>1, <1>3, <1>4, <1>5, <4>1
    <3> QED
      BY <3>1, <3>2
  <2> QED
    BY <1>1, <1>3, <2>1 DEF Coming
<1>10. Streaming'
  BY <1>1, <1>2, <1>3, <1>6, <1>7 DEF Streaming
<1>11. Whole'
  <2>1. Successful(chat)' = Successful(chat) /\ Unheard' = Unheard /\ Unrecorded(n)' = Unrecorded(n) /\ Unshown' = Unshown
    BY <1>1, <1>6, <1>7 DEF Successful, Unheard, Unrecorded, Unshown
  <2>2. conversation \o Unrecorded(n) \o Unheard = Successful(chat) \o Unshown
    BY <1>2, <1>3 DEF InStep, Whole
  <2> QED
    BY <1>1, <1>2, <1>3, <2>1, <2>2 DEF Whole
<1> QED
  BY <1>6, <1>8, <1>9, <1>10, <1>11 DEF InStep

\* The reply is recorded.
LEMMA DuckRecords ==
  ASSUME DuckTypes, DuckTypes', Level', Level, OneReply, IF ResetComes THEN AfterReset ELSE InStep,
         NEW n \in 1 .. MaxSays, RecordReply(n)
  PROVE  ~ResetComes' /\ InStep'
<1>1. /\ conversation' = (IF reply[n].tokens = 0 THEN conversation ELSE Append(conversation, Reply(n)))
      /\ UNCHANGED <<enabled, chat, thinking, says, toShell, tokenLost, outOfStep, broken, said, resets>>
  BY DEF RecordReply
<1>2. n \in Running /\ Running' = Running \ {n}
  BY DuckTasks
<1>3. ~ResetComes /\ InStep /\ Running = {n} /\ n \notin broken
  BY <1>2, DuckStreams
<1>4. Running' = {}
  BY <1>2, <1>3
<1>5. ~ResetComes' /\ ChatNumbers' /\ Spoken' /\ Coming' /\ Streaming'
  BY <1>1, <1>3, <1>4 DEF ResetComes, InStep, ChatNumbers, Spoken, Coming, Streaming
<1>6. Whole'
  <2>1. Successful(chat)' = Successful(chat) /\ Unheard' = Unheard /\ Unshown' = Unshown
    BY <1>1 DEF Successful, Unheard, Unshown, TokenComes, EndsWithReply
  <2>2. conversation \o Unrecorded(n) \o Unheard = Successful(chat) \o Unshown
    BY <1>2, <1>3 DEF InStep, Whole
  <2>3. conversation' = conversation \o Unrecorded(n)
    BY <1>1, DuckFacts DEF Unrecorded
  <2> QED
    BY <1>4, <2>1, <2>2, <2>3 DEF Whole
<1> QED
  BY <1>5, <1>6 DEF InStep

\* The reply fails: what was shown of it is not in the conversation.
LEMMA DuckFails ==
  ASSUME DuckTypes, DuckTypes', Level', Level, OneReply, IF ResetComes THEN AfterReset ELSE InStep,
         NEW n \in 1 .. MaxSays, StreamFails(n)
  PROVE  ~ResetComes' /\ InStep'
<1>1. /\ reply[n].at = "streaming" /\ SendShell(Token(n, TRUE)) /\ broken' = broken \cup {n}
      /\ UNCHANGED <<enabled, chat, thinking, says, conversation, outOfStep, said, resets>>
  BY DEF StreamFails
<1>2. n \in Running /\ Running' = Running \ {n}
  BY DuckTasks
<1>3. /\ ~ResetComes /\ InStep /\ Running = {n} /\ n \notin broken
      /\ says = <<>> /\ n = said /\ thinking /\ \A i \in 1 .. Len(toShell) : ~toShell[i].done
      /\ chat # <<>> /\ chat[Len(chat)] \in {User(n), Reply(n)}
      /\ (reply[n].tokens > 0 <=> EndsWithReply \/ TokenComes)
  BY <1>1, <1>2, DuckStreams
<1>4. /\ Len(toShell') = Len(toShell) + 1 /\ toShell'[Len(toShell) + 1] = Token(n, TRUE) /\ Len(toShell) \in Nat
      /\ \A i \in 1 .. Len(toShell) : toShell'[i] = toShell[i]
      /\ \A i \in 1 .. Len(toShell') : toShell'[i] = Token(n, TRUE) \/ (i \in 1 .. Len(toShell) /\ toShell'[i] = toShell[i])
  <2>1. Token(n, TRUE) \in Letter /\ Len(toShell) \in Nat /\ ~tokenLost'
    BY DuckLetters, DuckFacts DEF Level
  <2> QED
    BY <1>1, <2>1, DuckSends
<1>5. Token(n, TRUE).type = "token" /\ Token(n, TRUE).n = n
  BY DEF Token
<1>6. ~ResetComes' /\ Running' = {}
  BY <1>2, <1>3, <1>4, <1>5 DEF ResetComes
<1>7. ChatNumbers' /\ Spoken' /\ Streaming'
  BY <1>1, <1>3, <1>6 DEF InStep, ChatNumbers, Spoken, Streaming
<1>8. Coming'
  <2>1. ASSUME NEW i \in 1 .. Len(toShell')
        PROVE  toShell'[i].n = said' /\ (toShell'[i].done => i = Len(toShell'))
    <3>1. CASE i \in 1 .. Len(toShell)
      BY <1>1, <1>3, <1>4, <3>1 DEF InStep, Coming
    <3>2. CASE i \notin 1 .. Len(toShell)
      <4>1. i = Len(toShell')
        BY <1>4, <3>2
      <4> QED
        BY <1>1, <1>3, <1>4, <1>5, <4>1
    <3> QED
      BY <3>1, <3>2
  <2> QED
    BY <1>1, <1>3, <2>1 DEF Coming
<1>9. conversation = Kept(chat, Sound(broken'))
  <2>1. conversation \o Unrecorded(n) = Kept(chat, Sound(broken)) \o Unshown
    <3>1. conversation \o Unrecorded(n) \o Unheard = Successful(chat) \o Unshown /\ Unheard = <<>>
      BY <1>2, <1>3 DEF InStep, Whole, Unheard
    <3>2. Unrecorded(n) \in Seq(Message)
      BY DuckFacts DEF Unrecorded
    <3>3. conversation \o Unrecorded(n) \in Seq(Message)
      BY <3>2, DuckFacts
    <3> QED
      BY <3>1, <3>3, DuckFacts, DuckKeeps
  <2>2. \A m \in Message : m # Reply(n) => (m \in Sound(broken) <=> m \in Sound(broken'))
    BY <1>1 DEF Sound, Message, Reply
  <2>3. Reply(n) \notin Sound(broken') /\ Reply(n) \in Sound(broken)
    BY <1>1, <1>3, DuckFacts DEF Sound
  <2>4. \A i \in 1 .. (Len(chat) - 1) : chat[i] # Reply(n)
    <3>1. \A i \in 1 .. (Len(chat) - 1) : chat[i].who = "assistant" => chat[i].n < n
      BY <1>3 DEF InStep, ChatNumbers
    <3>2. Reply(n).who = "assistant" /\ Reply(n).n = n /\ ~(n < n)
      BY DuckFacts
    <3> QED
      BY <3>1, <3>2
  <2>5. CASE ~EndsWithReply
    <3>1. \A i \in 1 .. Len(chat) : chat[i] # Reply(n)
      <4>1. chat[Len(chat)] # Reply(n)
        BY <1>3, <2>5, DuckFacts DEF EndsWithReply
      <4> QED
        BY <2>4, <4>1, DuckFacts
    <3>2. Kept(chat, Sound(broken)) = Kept(chat, Sound(broken'))
      <4>1. \A i \in 1 .. Len(chat) : chat[i] \in Sound(broken) <=> chat[i] \in Sound(broken')
        BY <2>2, <3>1, DuckFacts
      <4> QED
        BY <4>1, DuckFacts, KeptAgrees
    <3>3. CASE reply[n].tokens = 0
      <4>1. Unrecorded(n) = <<>> /\ Unshown = <<>>
        BY <1>3, <3>3 DEF Unrecorded, Unshown
      <4> QED
        BY <2>1, <3>2, <4>1, DuckFacts
    <3>4. CASE reply[n].tokens # 0
      <4>1. reply[n].tokens > 0
        <5>1. reply[n].tokens \in 0 .. MaxTokens
          BY DEF DuckTypes
        <5> QED
          BY <3>4, <5>1, DuckAssumption
      <4>2. Unrecorded(n) = <<Reply(n)>> /\ Unshown = <<Reply(n)>>
        BY <1>3, <2>5, <3>4, <4>1 DEF Unrecorded, Unshown
      <4>3. Append(conversation, Reply(n)) = Append(Kept(chat, Sound(broken)), Reply(n))
        BY <2>1, <4>2, DuckFacts
      <4>4. conversation = Kept(chat, Sound(broken))
        BY <4>3, DuckFacts, SameFront
      <4> QED
        BY <3>2, <4>4
    <3> QED
      BY <3>3, <3>4
  <2>6. CASE EndsWithReply
    <3>1. chat[Len(chat)] = Reply(n)
      BY <1>3, <2>6, DuckFacts DEF EndsWithReply
    <3>2. PICK front \in Seq(Message) :
            /\ chat = Append(front, Reply(n)) /\ Len(front) = Len(chat) - 1
            /\ \A i \in 1 .. Len(front) : front[i] = chat[i]
      <4> DEFINE f == SubSeq(chat, 1, Len(chat) - 1)
      <4>1. chat \in Seq(Message) /\ chat # <<>> /\ Len(chat) \in Nat
        BY <1>3, DuckFacts
      <4>2. f \in Seq(Message) /\ Len(f) = Len(chat) - 1 /\ \A i \in 1 .. Len(f) : f[i] = chat[i]
        <5>1. PICK k \in Nat : k = Len(chat) - 1
          BY <4>1
        <5>2. k \in 0 .. Len(chat) /\ f = SubSeq(chat, 1, k)
          BY <4>1, <5>1
        <5>3. f \in Seq(Message) /\ Len(f) = k /\ \A i \in 1 .. k : f[i] = chat[i]
          BY <4>1, <5>2
        <5> QED
          BY <5>1, <5>3
      <4>3. Append(f, chat[Len(chat)]) = chat
        BY <4>1
      <4> QED
        BY <3>1, <4>2, <4>3
    <3>3. Kept(chat, Sound(broken)) = Append(Kept(front, Sound(broken)), Reply(n))
          /\ Kept(chat, Sound(broken')) = Kept(front, Sound(broken'))
      BY <2>3, <3>2, DuckFacts, KeptAppend
    <3>4. Kept(front, Sound(broken)) = Kept(front, Sound(broken'))
      <4>1. \A i \in 1 .. Len(front) : front[i] \in Sound(broken) <=> front[i] \in Sound(broken')
        BY <2>2, <2>4, <3>2
      <4> QED
        BY <4>1, KeptAgrees
    <3>5. reply[n].tokens # 0
      BY <1>3, <2>6
    <3>6. Unrecorded(n) = <<Reply(n)>> /\ Unshown = <<>>
      BY <2>6, <3>5 DEF Unrecorded, Unshown
    <3>7. Append(conversation, Reply(n)) = Append(Kept(front, Sound(broken)), Reply(n))
      BY <2>1, <3>3, <3>6, DuckFacts
    <3>8. Kept(front, Sound(broken)) \in Seq(Message)
      BY KeptRange
    <3>9. conversation = Kept(front, Sound(broken))
      BY <3>7, <3>8, DuckFacts, SameFront
    <3> QED
      BY <3>3, <3>4, <3>9
  <2> QED
    BY <2>5, <2>6
<1>10. Whole'
  <2>1. Successful(chat)' = conversation
    BY <1>1, <1>9, DuckKeeps
  <2>2. Unheard' = <<>> /\ Unshown' = <<>>
    BY <1>1, <1>3 DEF Unheard, Unshown
  <2> QED
    BY <1>1, <1>6, <2>1, <2>2 DEF Whole
<1> QED
  BY <1>6, <1>7, <1>8, <1>10 DEF InStep

\* The shell shows what has come.
LEMMA DuckShows ==
  ASSUME DuckTypes, DuckTypes', Level', Level, IF ResetComes THEN AfterReset ELSE InStep, ShellReceives
  PROVE  IF ResetComes' THEN AfterReset' ELSE InStep'
<1> DEFINE m == toShell[1]
<1>1. /\ toShell # <<>> /\ toShell' = Tail(toShell)
      /\ chat' = (IF m.type = "reset" THEN <<>> ELSE Grown(m))
      /\ thinking' = (thinking /\ ~m.done)
      /\ UNCHANGED <<enabled, says, conversation, reply, tokenLost, outOfStep, broken, said, resets>>
  <2>1. toShell # <<>> /\ Head(toShell) = m
    BY DuckFacts DEF ShellReceives
  <2> QED
    BY <2>1 DEF ShellReceives
<1>2. /\ m \in Letter /\ Len(toShell) \in Nat /\ 1 \in 1 .. Len(toShell) /\ Len(toShell') = Len(toShell) - 1
      /\ \A i \in 1 .. Len(toShell') : i + 1 \in 1 .. Len(toShell) /\ toShell'[i] = toShell[i + 1]
      /\ \A i \in 2 .. Len(toShell) : i - 1 \in 1 .. Len(toShell') /\ toShell'[i - 1] = toShell[i]
  <2>1. toShell \in Seq(Letter) /\ Len(toShell) \in Nat
    BY DuckFacts
  <2> HIDE DEF Letter
  <2>2. m \in Letter /\ 1 \in 1 .. Len(toShell) /\ Len(toShell') = Len(toShell) - 1
        /\ \A i \in 1 .. Len(toShell') : toShell'[i] = toShell[i + 1]
    BY <1>1, <2>1
  <2>3. \A i \in 2 .. Len(toShell) : i - 1 \in 1 .. Len(toShell')
    BY <2>1, <2>2
  <2>4. \A i \in 2 .. Len(toShell) : toShell'[i - 1] = toShell[(i - 1) + 1] /\ (i - 1) + 1 = i
    BY <2>1, <2>2, <2>3
  <2> QED
    BY <2>1, <2>2, <2>3, <2>4
<1>3. Running' = Running
  BY <1>1 DEF Running
<1>4. CASE ResetComes
  <2>1. says = <<>> /\ Running = {} /\ conversation = <<>> /\ toShell[Len(toShell)].type = "reset"
    BY <1>4 DEF AfterReset
  <2>2. CASE Len(toShell') = 0
    <3>1. m.type = "reset" /\ toShell' = <<>>
      BY <1>1, <1>2, <2>1, <2>2, DuckFacts
    <3>2. chat' = <<>> /\ Len(chat') = 0 /\ ~ResetComes'
      <4>1. chat' = <<>>
        BY <1>1, <3>1
      <4>2. Len(<<>>) = 0
        OBVIOUS
      <4>3. ~ResetComes'
        <5>1. toShell' = <<>>
          BY <3>1
        <5> QED
          BY <5>1 DEF ResetComes
      <4> QED
        BY <4>1, <4>2, <4>3
    <3>3. Coming' /\ ChatNumbers' /\ Spoken' /\ Streaming'
      <4>1. says' = <<>> /\ Running' = {} /\ toShell' = <<>> /\ Len(toShell') = 0 /\ chat' = <<>> /\ Len(chat') = 0
        BY <1>1, <1>3, <2>1, <2>2, <3>1, <3>2
      <4>2. Coming' /\ ChatNumbers'
        BY <4>1 DEF Coming, ChatNumbers
      <4>3. Spoken' /\ Streaming'
        BY <4>1 DEF Spoken, Streaming
      <4> QED
        BY <4>2, <4>3
    <3>4. Successful(chat)' = <<>>
      BY <3>2, DuckKeeps, KeptNothing
    <3>5. Unheard' = <<>> /\ Unshown' = <<>>
      <4>1. ~TokenComes' /\ says' = <<>>
        <5>1. ~TokenComes'
          BY <2>2 DEF TokenComes
        <5> QED
          BY <1>1, <2>1, <5>1
      <4> QED
        BY <4>1 DEF Unheard, Unshown
    <3>6. Whole'
      BY <1>1, <1>3, <2>1, <3>4, <3>5 DEF Whole
    <3> QED
      BY <3>2, <3>3, <3>6 DEF InStep
  <2>3. CASE Len(toShell') # 0
    <3>1. Len(toShell) \in 2 .. Len(toShell) /\ Len(toShell) - 1 = Len(toShell')
      BY <1>2, <2>3, DuckFacts
    <3>2. toShell'[Len(toShell')].type = "reset" /\ Len(toShell') \in 1 .. Len(toShell')
      BY <1>2, <2>1, <3>1
    <3>3. toShell' # <<>>
      BY <2>3
    <3> QED
      BY <1>1, <1>3, <2>1, <3>2, <3>3 DEF AfterReset, ResetComes
  <2> QED
    BY <2>2, <2>3
<1>5. CASE ~ResetComes
  <2>1. InStep /\ m.type # "reset" /\ m.n = said /\ says = <<>> /\ thinking
        /\ (m.done => toShell' = <<>> /\ Len(toShell') = 0)
    <3>0. InStep /\ m = toShell[1] /\ toShell # <<>>
      BY <1>1, <1>5
    <3>1. InStep /\ m.type # "reset" /\ m.n = said /\ says = <<>> /\ thinking /\ (m.done => 1 = Len(toShell))
      <4>0. 1 \in 1 .. Len(toShell)
        BY <1>2
      <4>1. m.type # "reset"
        BY <1>5, <3>0, <4>0 DEF ResetComes
      <4>2. thinking /\ \A i \in 1 .. Len(toShell) : toShell[i].n = said /\ (toShell[i].done => i = Len(toShell))
        BY <3>0 DEF InStep, Coming
      <4>3. m.n = said /\ (m.done => 1 = Len(toShell))
        BY <3>0, <4>0, <4>2
      <4>4. says = <<>>
        BY <3>0 DEF InStep, Spoken
      <4> QED
        BY <3>0, <4>1, <4>2, <4>3, <4>4
    <3>2. 1 = Len(toShell) => Len(toShell') = 0 /\ toShell' = <<>>
      <4>1. 1 = Len(toShell) => Len(toShell') = 0
        <5>1. Len(toShell') = Len(toShell) - 1 /\ Len(toShell) \in Nat
          BY <1>2
        <5>2. \A k, l : k \in Nat /\ l = k - 1 /\ 1 = k => l = 0
          OBVIOUS
        <5> QED
          BY <5>1, <5>2
      <4>2. toShell' \in Seq(Letter)
        BY DEF DuckTypes
      <4>3. Len(toShell') = 0 => toShell' = <<>>
        <5> HIDE DEF Letter
        <5> QED
          BY <4>2
      <4> QED
        BY <4>1, <4>3
    <3> QED
      BY <3>1, <3>2
  <2>2. said \in 1 .. MaxSays /\ chat # <<>> /\ chat[Len(chat)] \in {User(said), Reply(said)}
    BY <1>1, <1>2, <2>1 DEF Letter, InStep, ChatNumbers
  <2>3. ~ResetComes'
    BY <1>2, <1>5 DEF ResetComes
  <2>4. Coming'
    <3>1. thinking' \/ toShell' = <<>>
      BY <1>1, <2>1
    <3>2. \A i \in 1 .. Len(toShell') : toShell'[i].n = said' /\ (toShell'[i].done => i = Len(toShell'))
      <4>1. \A i \in 1 .. Len(toShell) : toShell[i].n = said /\ (toShell[i].done => i = Len(toShell))
        BY <2>1 DEF InStep, Coming
      <4> TAKE i \in 1 .. Len(toShell')
      <4>2. i + 1 \in 1 .. Len(toShell) /\ toShell'[i] = toShell[i + 1]
        BY <1>2
      <4>3. toShell[i + 1].n = said /\ (toShell[i + 1].done => i + 1 = Len(toShell))
        BY <4>1, <4>2
      <4>4. i + 1 = Len(toShell) => i = Len(toShell')
        BY <1>2
      <4>5. said' = said
        BY <1>1
      <4> QED
        BY <4>2, <4>3, <4>4, <4>5
    <3> QED
      BY <3>1, <3>2 DEF Coming
  <2>5. Spoken'
    BY <1>1, <2>1 DEF Spoken
  <2>6. \A p \in Running : p = said /\ p \notin broken /\ (reply[p].tokens > 0 <=> EndsWithReply \/ TokenComes)
    BY <2>1 DEF InStep, Streaming
  <2>7. \A p \in Running : reply[p].at = "streaming" => thinking' /\ \A i \in 1 .. Len(toShell') : ~toShell'[i].done
    BY <1>1, <1>2, <2>1 DEF InStep, Streaming
  <2>8. Unheard = <<>> /\ Unheard' = <<>>
    BY <1>1, <2>1 DEF Unheard
  <2>9. CASE m.type = "end" \/ EndsWithReply
    <3>1. chat' = chat
      BY <1>1, <2>1, <2>9 DEF Grown, EndsWithReply, Last
    <3>2. ChatNumbers'
      BY <1>1, <2>1, <2>2, <3>1 DEF InStep, ChatNumbers
    <3>3. EndsWithReply' = EndsWithReply /\ Successful(chat)' = Successful(chat)
      BY <1>1, <3>1 DEF EndsWithReply, Successful
    <3>4. ~EndsWithReply => ~TokenComes /\ ~TokenComes'
      <4>1. SUFFICES ASSUME m.type = "end" PROVE ~TokenComes /\ ~TokenComes'
        BY <2>9
      <4>2. Len(toShell') = 0 /\ Len(toShell) = 1
        BY <1>2, <2>1, <4>1 DEF Letter
      <4> QED
        BY <4>1, <4>2 DEF TokenComes
    <3>5. Unshown' = Unshown
      BY <3>3, <3>4 DEF Unshown
    <3>6. Streaming'
      BY <1>1, <1>3, <2>6, <2>7, <3>3, <3>4 DEF Streaming
    <3>7. Whole'
      <4>1. Whole
        BY <2>1 DEF InStep
      <4> QED
        BY <1>1, <1>3, <2>8, <3>3, <3>5, <4>1 DEF Whole, Unrecorded
    <3> QED
      BY <2>3, <2>4, <2>5, <3>2, <3>6, <3>7 DEF InStep
  <2>10. CASE m.type # "end" /\ ~EndsWithReply
    <3>1. chat' = Append(chat, Reply(said)) /\ chat[Len(chat)] = User(said)
      <4>1. chat[Len(chat)].who # "assistant"
        BY <2>2, <2>10 DEF EndsWithReply
      <4>2. Grown(m) = Append(chat, Reply(said))
        BY <2>1, <2>10, <4>1 DEF Grown, Last
      <4> QED
        BY <1>1, <2>1, <2>2, <4>1, <4>2, DuckFacts
    <3>2. /\ Len(chat') = Len(chat) + 1 /\ chat'[Len(chat) + 1] = Reply(said) /\ Len(chat) \in Nat
          /\ \A i \in 1 .. Len(chat) : chat'[i] = chat[i]
          /\ chat' # <<>>
      <4>1. Reply(said) \in Message /\ chat \in Seq(Message) /\ Len(chat) \in Nat
        BY <2>2, DuckFacts
      <4> QED
        BY <3>1, <4>1
    <3>3. ChatNumbers'
      <4>1. \A i \in 1 .. Len(chat') : chat'[i].n <= said
        <5>1. \A i \in 1 .. Len(chat) : chat[i].n <= said
          BY <2>1 DEF InStep, ChatNumbers
        <5>2. Reply(said).n = said /\ said <= said
          BY <2>2, DuckFacts
        <5>3. \A i \in 1 .. Len(chat') : i \in 1 .. Len(chat) \/ i = Len(chat) + 1
          BY <3>2
        <5> QED
          BY <3>2, <5>1, <5>2, <5>3
      <4>2. \A i \in 1 .. (Len(chat') - 1) : chat'[i].who = "assistant" => chat'[i].n < said
        <5>1. ASSUME NEW i \in 1 .. Len(chat), chat[i].who = "assistant" PROVE chat[i].n < said
          <6>1. i # Len(chat)
            BY <2>2, <3>1, <5>1, DuckFacts
          <6>2. i \in 1 .. (Len(chat) - 1)
            BY <3>2, <6>1
          <6> QED
            BY <2>1, <5>1, <6>2 DEF InStep, ChatNumbers
        <5> QED
          BY <3>2, <5>1
      <4>3. chat'[Len(chat')] = Reply(said)
        BY <3>2
      <4> QED
        BY <1>1, <3>2, <4>1, <4>2, <4>3 DEF ChatNumbers
    <3>4. EndsWithReply'
      BY <2>2, <3>2, DuckFacts DEF EndsWithReply
    <3>5. TokenComes
      BY <1>2, <2>1, <2>10 DEF TokenComes, Letter
    <3>6. Streaming'
      BY <1>1, <1>3, <2>6, <2>7, <3>4, <3>5 DEF Streaming
    <3>7. Unshown' = <<>>
      BY <3>4 DEF Unshown
    <3>8. Successful(chat) \o Unshown = Successful(chat)' \o Unshown'
      <4>1. Successful(chat) = Kept(chat, Sound(broken)) /\ Successful(chat)' = Kept(chat', Sound(broken))
        BY <1>1, DuckKeeps
      <4>2. CASE said \in broken
        <5>1. Reply(said) \notin Sound(broken) /\ Unshown = <<>>
          BY <2>2, <4>2, DuckFacts DEF Sound, Unshown
        <5>2. Kept(chat', Sound(broken)) = Kept(chat, Sound(broken))
          BY <2>2, <3>1, <5>1, DuckFacts, KeptAppend
        <5> QED
          BY <3>7, <4>1, <5>1, <5>2
      <4>3. CASE said \notin broken
        <5>1. Reply(said) \in Sound(broken) /\ Unshown = <<Reply(said)>>
          BY <2>2, <2>10, <3>5, <4>3, DuckFacts DEF Sound, Unshown
        <5>2. Kept(chat', Sound(broken)) = Append(Kept(chat, Sound(broken)), Reply(said))
          <6>1. chat \in Seq(Message) /\ Reply(said) \in Message /\ chat' = Append(chat, Reply(said))
            BY <2>2, <3>1, DuckFacts
          <6> QED
            BY <5>1, <6>1, KeptAppend
        <5> QED
          BY <2>2, <3>7, <4>1, <5>1, <5>2, DuckFacts
      <4> QED
        BY <4>2, <4>3
    <3>9. Whole'
      <4>1. Whole
        BY <2>1 DEF InStep
      <4>2. PICK w : w = Successful(chat) \o Unshown
        OBVIOUS
      <4>3. Running = {} => conversation \o Unheard = w
        BY <4>1, <4>2 DEF Whole
      <4>4. \A p \in Running : conversation \o Unrecorded(p) \o Unheard = w
        BY <4>1, <4>2 DEF Whole
      <4>5. \A p : Unrecorded(p)' = Unrecorded(p)
        BY <1>1 DEF Unrecorded
      <4> QED
        BY <1>1, <1>3, <2>8, <3>8, <4>2, <4>3, <4>4, <4>5 DEF Whole, Unrecorded
    <3> QED
      BY <2>3, <2>4, <2>5, <3>3, <3>6, <3>9 DEF InStep
  <2> QED
    BY <2>9, <2>10
<1> QED
  BY <1>4, <1>5

\* The rubber duck answers what the user says, and a reset that crosses nothing brings the two
\* copies of the chat together whatever was lost or crossed before: for any limit and any queue.
THEOREM DuckIsInStep == DuckSpec => []DuckAnswers
<1>1. DuckInit => DuckInv
  <2> SUFFICES ASSUME DuckInit PROVE DuckInv
    OBVIOUS
  <2>1. DuckTypes /\ Running = {}
    <3>1. Over \in [at : {"streaming", "record", "over"}, tokens : 0 .. MaxTokens] /\ said \in 0 .. MaxSays
          /\ <<>> \in Seq(1 .. said)
      BY DuckAssumption DEF DuckInit, Over
    <3>2. Running = {}
      BY DEF DuckInit, Running
    <3> QED
      <4>1. reply = [n \in 1 .. MaxSays |-> Over] /\ enabled \in BOOLEAN /\ thinking = FALSE /\ tokenLost = FALSE
            /\ outOfStep = FALSE /\ chat = <<>> /\ conversation = <<>> /\ says = <<>> /\ toShell = <<>> /\ broken = {}
        BY DEF DuckInit
      <4>2. <<>> \in Seq(Message) /\ <<>> \in Seq(Letter)
        OBVIOUS
      <4>3. reply \in [1 .. MaxSays -> [at : {"streaming", "record", "over"}, tokens : 0 .. MaxTokens]]
            /\ \A n \in 1 .. MaxSays : reply[n] = Over
        BY <3>1, <4>1
      <4> QED
        BY <3>1, <3>2, <4>1, <4>2, <4>3 DEF DuckTypes
  <2>2. Len(conversation) = 0 /\ Len(chat) = 0 /\ Len(toShell) = 0 /\ ~thinking /\ says = <<>> /\ chat = <<>> /\ toShell = <<>>
        /\ conversation = <<>> /\ broken = {}
    BY DEF DuckInit
  <2>3. OneReply /\ Awaited
    BY <2>1, <2>2, DuckAssumption DEF OneReply, Awaited
  <2>4. ChatNumbers /\ Spoken /\ Coming /\ Streaming /\ ~ResetComes
    BY <2>1, <2>2 DEF ChatNumbers, Spoken, Coming, Streaming, ResetComes
  <2>5. Whole
    <3>1. Unheard = <<>> /\ Unshown = <<>> /\ Successful(chat) = <<>>
      BY <2>1, <2>2, DuckKeeps, KeptNothing DEF Unheard, Unshown, TokenComes
    <3> QED
      BY <2>1, <2>2, <3>1 DEF Whole
  <2> QED
    BY <2>1, <2>2, <2>3, <2>4, <2>5 DEF DuckInv, InStep
<1>2. DuckInv /\ [DuckNext]_duckVars => DuckInv'
  <2> SUFFICES ASSUME DuckInv, DuckNext \/ UNCHANGED duckVars PROVE DuckInv'
    OBVIOUS
  <2>1. CASE UNCHANGED duckVars
    <3>1. UNCHANGED <<enabled, chat, thinking, says, conversation, reply, toShell, tokenLost, outOfStep, broken, said>>
      BY <2>1 DEF duckVars
    <3>2. /\ Running' = Running /\ Unheard' = Unheard /\ Unshown' = Unshown /\ EndsWithReply' = EndsWithReply
          /\ TokenComes' = TokenComes /\ ResetComes' = ResetComes /\ Successful(chat)' = Successful(chat)
      BY <3>1 DEF Running, Unheard, Unshown, EndsWithReply, TokenComes, ResetComes, Successful
    <3>3. DuckTypes' /\ Awaited' /\ (OneReply => OneReply') /\ (AfterReset => AfterReset')
      BY <3>1, <3>2 DEF DuckInv, DuckTypes, Awaited, OneReply, AfterReset
    <3>4. InStep => InStep'
      <4>1. (ChatNumbers => ChatNumbers') /\ (Spoken => Spoken')
        BY <3>1, <3>2 DEF ChatNumbers, Spoken
      <4>2. (Coming => Coming') /\ (Streaming => Streaming')
        BY <3>1, <3>2 DEF Coming, Streaming
      <4>3. Whole => Whole'
        <5> HAVE Whole
        <5>1. PICK w : w = Successful(chat) \o Unshown
          OBVIOUS
        <5>2. (Running = {} => conversation \o Unheard = w)
              /\ \A p \in Running : conversation \o Unrecorded(p) \o Unheard = w
          BY <5>1 DEF Whole
        <5>3. \A p : Unrecorded(p)' = Unrecorded(p)
          BY <3>1 DEF Unrecorded
        <5>4. Successful(chat)' \o Unshown' = w
          BY <3>2, <5>1
        <5> QED
          BY <3>1, <3>2, <5>2, <5>3, <5>4 DEF Whole, Unrecorded
      <4> QED
        BY <4>1, <4>2, <4>3 DEF InStep
    <3> QED
      BY <3>1, <3>2, <3>3, <3>4 DEF DuckInv
  <2>2. CASE DuckNext
    <3>1. DuckTypes /\ DuckTypes' /\ Awaited'
      BY <2>2, DuckTyped, DuckAwaits DEF DuckInv
    <3>2. ~outOfStep' => OneReply'
      BY <2>2, DuckOneReply DEF DuckInv
    <3>3. ~enabled' => conversation' = <<>> /\ Running' = {}
      <4> SUFFICES ASSUME ~enabled' PROVE conversation' = <<>> /\ Running' = {}
        OBVIOUS
      <4>1. ~enabled
        BY <2>2 DEF DuckNext, Say, Hear, ResetDuck, ShellReceives, StreamToken, StreamDone, StreamFails, RecordReply
      <4>2. conversation = <<>> /\ Running = {}
        BY <4>1 DEF DuckInv
      <4>3. \A n \in 1 .. MaxSays : ~(StreamToken(n) \/ StreamDone(n) \/ RecordReply(n) \/ StreamFails(n))
        BY <3>1, <4>2, DuckTasks
      <4>4. reply' = reply /\ (conversation' = conversation \/ conversation' = <<>>)
        BY <2>2, <4>1, <4>3 DEF DuckNext, Say, Hear, ResetDuck, Clear, ShellReceives
      <4> QED
        BY <4>2, <4>4 DEF Running
    <3>4. Level' => IF ResetComes' THEN AfterReset' ELSE InStep'
      <4> SUFFICES ASSUME Level' PROVE IF ResetComes' THEN AfterReset' ELSE InStep'
        OBVIOUS
      <4>0. CASE Clear /\ reply' = reply
        BY <3>1, <4>0, DuckResets
      <4> SUFFICES ASSUME ~(Clear /\ reply' = reply)
                   PROVE  IF ResetComes' THEN AfterReset' ELSE InStep'
        BY <4>0
      <4>1. Level
        BY <2>2, <3>1, DuckWasLevel
      <4>2. OneReply /\ IF ResetComes THEN AfterReset ELSE InStep
        BY <4>1 DEF DuckInv, Level
      <4>3. CASE Say
        BY <3>1, <4>1, <4>2, <4>3, DuckSays
      <4>4. CASE Hear
        BY <3>1, <4>1, <4>2, <4>4, DuckHears
      <4>5. CASE ShellReceives
        BY <3>1, <4>1, <4>2, <4>5, DuckShows
      <4>6. CASE ResetDuck
        BY <4>6 DEF ResetDuck
      <4>7. ASSUME NEW n \in 1 .. MaxSays, StreamToken(n) \/ StreamDone(n) \/ RecordReply(n) \/ StreamFails(n)
            PROVE  ~ResetComes' /\ InStep'
        BY <3>1, <4>1, <4>2, <4>7, DuckToken, DuckEnds, DuckRecords, DuckFails
      <4> QED
        BY <2>2, <4>3, <4>4, <4>5, <4>6, <4>7 DEF DuckNext
    <3> QED
      BY <3>1, <3>2, <3>3, <3>4 DEF DuckInv, Level
  <2> QED
    BY <2>1, <2>2
<1>3. DuckInv => DuckAnswers
  <2> SUFFICES ASSUME DuckInv PROVE DuckAnswers
    OBVIOUS
  <2>1. DuckTypes
    BY DEF DuckInv
  <2>2. DOMAIN toShell = 1 .. Len(toShell) /\ DOMAIN conversation = 1 .. Len(conversation) /\ Len(<<>>) = 0
    BY <2>1, DuckFacts
  <2>3. thinking /\ enabled /\ ~tokenLost =>
          \/ says # <<>>
          \/ \E n \in 1 .. MaxSays : reply[n].at = "streaming"
          \/ \E i \in DOMAIN toShell : toShell[i].done
    BY <2>2 DEF DuckInv, Awaited
  <2>4. ASSUME ~outOfStep, AtRest, enabled, ~tokenLost PROVE conversation = Successful(chat)
    <3>1. ~ResetComes /\ ~TokenComes
      BY <2>2, <2>4 DEF AtRest, ResetComes, TokenComes
    <3>2. conversation \o Unheard = Successful(chat) \o Unshown
      BY <2>4, <3>1 DEF DuckInv, InStep, Whole, AtRest
    <3>3. Unheard = <<>> /\ Unshown = <<>> /\ Successful(chat) \in Seq(Message)
      BY <2>1, <2>4, <3>1, DuckFacts, DuckKeeps DEF Unheard, Unshown, AtRest
    <3> QED
      BY <2>1, <3>2, <3>3, DuckFacts
  <2>5. ~outOfStep =>
          /\ \A i \in DOMAIN conversation : conversation[i].who = "assistant" =>
               \E j \in 1 .. (i - 1) : conversation[j] = User(conversation[i].n)
          /\ Len(conversation) <= Cap + 1
    BY <2>2 DEF DuckInv, OneReply
  <2> QED
    BY <2>3, <2>4, <2>5 DEF DuckAnswers
<1> QED
  BY <1>1, <1>2, <1>3, PTL DEF DuckSpec
-----------------------------------------------------------------------------
(* Telemetry *)

\* What the shell shows once it has heard what is on its way to it.
Final(shown) == IF link = <<>> THEN shown ELSE link[Len(link)][2]

Linked == (\E S : link \in Seq(S)) /\ Len(link) <= LinkSlots

\* Nothing was lost: the value known last is the last one sent, and it is the present one
\* when it was read since.
PowerInv ==
  /\ lastProfile = Unread /\ Linked
  /\ sampled /\ lastOnBattery # Unread => lastOnBattery = draining
  /\ ~linkLost /\ lastOnBattery # Unread => Final(shellPower) = lastOnBattery

ProfileInv ==
  /\ lastOnBattery = Unread /\ Linked
  /\ sampled /\ lastProfile # Unread => lastProfile = current
  /\ ~linkLost /\ lastProfile # Unread => Final(shellProfile) = lastProfile

\* A counter that did not begin again is at least what was read of it.
CounterInv ==
  /\ counted \in [Counter -> Nat \cup {Unread}] /\ lastSample \in [Counter -> Nat \cup {Unread}]
  /\ reported \in [Counter -> Nat] /\ grown \in [Counter -> Nat]
  /\ TrafficAddsUp
  /\ \A c \in Counter \ lapsed :
       counted[c] # Unread /\ lastSample[c] # Unread => lastSample[c] <= counted[c]

\* A message is queued last, or lost and known to be.
LEMMA SendQueues ==
  ASSUME Linked, NEW m, Send(m)
  PROVE  /\ Linked'
         /\ ~linkLost' => ~linkLost /\ link' # <<>> /\ link'[Len(link')] = m
<1>1. PICK S : link \in Seq(S)
  BY DEF Linked
<1>2. link \in Seq(S \cup {m}) /\ Len(link) \in Nat
  BY <1>1
<1>3. CASE Len(link) < LinkSlots
  <2>1. link' = Append(link, m)
    BY <1>3 DEF Send
  <2>2. link' \in Seq(S \cup {m}) /\ Len(link') = Len(link) + 1 /\ link'[Len(link) + 1] = m
    BY <1>2, <2>1
  <2>3. link' # <<>>
    BY <1>2, <2>2
  <2>4. Len(link') <= LinkSlots
    BY <1>2, <1>3, <2>2, TelemetryAssumption
  <2>5. linkLost' => linkLost \/ Len(link) = LinkSlots
    BY DEF Send
  <2>6. linkLost => linkLost'
    BY DEF Send
  <2> QED
    BY <2>2, <2>3, <2>4, <2>6 DEF Linked
<1>4. CASE ~(Len(link) < LinkSlots)
  <2>1. Len(link) = LinkSlots
    BY <1>2, <1>4, TelemetryAssumption DEF Linked
  <2>2. link' = link /\ linkLost'
    BY <1>4, <2>1 DEF Send
  <2> QED
    BY <2>2 DEF Linked
<1> QED
  BY <1>3, <1>4

\* What the shell hears is off the queue; the message sent last stays the last.
LEMMA ShellHears ==
  ASSUME Linked, link # <<>>, link' = Tail(link)
  PROVE  /\ Linked'
         /\ link' = <<>> => Head(link)[2] = link[Len(link)][2]
         /\ link' # <<>> => link'[Len(link')][2] = link[Len(link)][2]
<1>1. PICK S : link \in Seq(S)
  BY DEF Linked
<1>2. link' \in Seq(S) /\ Len(link) \in Nat \ {0} /\ Len(link') = Len(link) - 1
  BY <1>1
<1>3. Linked'
  BY <1>2, TelemetryAssumption DEF Linked
<1>4. ASSUME link' = <<>> PROVE Head(link)[2] = link[Len(link)][2]
  <2>1. Len(link') = 0
    <3>1. Len(<<>>) = 0
      OBVIOUS
    <3> QED
      BY <1>4, <3>1
  <2>2. Len(link) = 1
    BY <1>2, <2>1
  <2>3. Head(link) = link[1]
    BY <1>1, <1>2
  <2> QED
    BY <2>2, <2>3
<1>5. ASSUME link' # <<>> PROVE link'[Len(link')] = link[Len(link)]
  <2>1. Len(link') # 0
    BY <1>2, <1>5
  <2>2. Len(link') \in 1 .. (Len(link) - 1)
    BY <1>2, <2>1
  <2> QED
    BY <1>1, <1>2, <2>2
<1> QED
  BY <1>3, <1>4, <1>5

\* Counters that nobody touches stay accounted for.
LEMMA CountersRest ==
  ASSUME CounterInv, UNCHANGED <<counted, lastSample, grown, reported, lapsed>>
  PROVE  CounterInv'
BY DEF CounterInv, TrafficAddsUp, Delta

\* At the start nothing is known and nothing is counted.
LEMMA TelemetryStarts ==
  ASSUME TelemetryInit
  PROVE  PowerInv /\ ProfileInv /\ CounterInv
<1>1. Linked
  <2>1. link = <<>> /\ link \in Seq({}) /\ Len(<<>>) = 0
    BY DEF TelemetryInit
  <2> QED
    BY <2>1, TelemetryAssumption DEF Linked
<1>2. PowerInv /\ ProfileInv
  BY <1>1 DEF TelemetryInit, PowerInv, ProfileInv
<1>3. counted = [c \in Counter |-> 0] /\ lastSample = [c \in Counter |-> 0]
      /\ grown = [c \in Counter |-> 0] /\ reported = [c \in Counter |-> 0]
  BY DEF TelemetryInit
<1>4. \A c \in Counter : Delta(c) = 0
  BY <1>3 DEF Delta, Minus
<1>5. TrafficAddsUp
  BY <1>3, <1>4 DEF TrafficAddsUp
<1> QED
  BY <1>2, <1>3, <1>5 DEF CounterInv

\* The battery module and its watcher keep the shell's power supply in step.
LEMMA PowerKeeps ==
  ASSUME PowerInv, CounterInv, [PowerNext]_telemetryVars
  PROVE  PowerInv' /\ CounterInv'
<1> USE DEF powerVars, profileVars, counterVars, loadVars, linkVars
<1>1. UNCHANGED <<counted, lastSample, grown, reported, lapsed, lastProfile>>
  BY DEF PowerNext, BatteryTick, BatteryKick, WatcherSteps, SupplyChanges, ShellHearsPower, telemetryVars
<1>2. CounterInv'
  BY <1>1, CountersRest
<1> SUFFICES PowerInv'
  BY <1>2
<1>3. lastProfile' = Unread
  BY <1>1 DEF PowerInv
<1>4. ASSUME HandleSample, UNCHANGED <<draining, shellPower>> PROVE PowerInv'
  <2>1. lastOnBattery' = draining /\ draining' = draining
    BY <1>4 DEF HandleSample, BatteryState
  <2>2. CASE lastOnBattery # draining
    <3>1. Send(<<"power", draining>>)
      BY <1>4, <2>2 DEF HandleSample, BatteryState, Announce
    <3>2. Linked' /\ (~linkLost' => ~linkLost /\ link' # <<>> /\ link'[Len(link')] = <<"power", draining>>)
      BY <3>1, SendQueues DEF PowerInv
    <3>3. ~linkLost' => Final(shellPower)' = draining
      BY <3>2 DEF Final
    <3> QED
      BY <1>3, <2>1, <3>2, <3>3 DEF PowerInv
  <2>3. CASE lastOnBattery = draining
    <3>1. UNCHANGED linkVars
      BY <1>4, <2>3 DEF HandleSample, BatteryState, Announce
    <3> QED
      BY <1>3, <1>4, <2>1, <2>3, <3>1 DEF PowerInv, Linked, Final
  <2> QED
    BY <2>2, <2>3
<1>5. ASSUME UNCHANGED <<draining, lastOnBattery, linkVars, shellPower, sampled>> PROVE PowerInv'
  BY <1>3, <1>5 DEF PowerInv, Linked, Final
<1>6. CASE BatteryTick
  BY <1>4, <1>6 DEF BatteryTick
<1>7. CASE BatteryKick
  BY <1>4, <1>5, <1>7 DEF BatteryKick
<1>8. CASE WatcherSteps
  BY <1>5, <1>8 DEF WatcherSteps
<1>9. CASE SupplyChanges
  BY <1>3, <1>9 DEF SupplyChanges, PowerInv, Linked, Final
<1>10. CASE ShellHearsPower
  <2>1. link # <<>> /\ link' = Tail(link) /\ shellPower' = Head(link)[2]
        /\ UNCHANGED <<draining, lastOnBattery, linkLost, sampled>>
    BY <1>10 DEF ShellHearsPower
  <2>2. Linked' /\ (link' = <<>> => Head(link)[2] = link[Len(link)][2])
        /\ (link' # <<>> => link'[Len(link')][2] = link[Len(link)][2])
    BY <2>1, ShellHears DEF PowerInv
  <2>3. Final(shellPower)' = Final(shellPower)
    BY <2>1, <2>2 DEF Final
  <2> QED
    BY <1>3, <2>1, <2>2, <2>3 DEF PowerInv
<1>11. CASE UNCHANGED telemetryVars
  BY <1>5, <1>11 DEF telemetryVars
<1> QED
  BY <1>6, <1>7, <1>8, <1>9, <1>10, <1>11 DEF PowerNext

\* The profile module keeps the shell's profile in step with the service, whoever changes it.
LEMMA ProfileKeeps ==
  ASSUME ProfileInv, CounterInv, [ProfileNext]_telemetryVars
  PROVE  ProfileInv' /\ CounterInv'
<1> USE DEF powerVars, profileVars, counterVars, loadVars, linkVars
<1>1. UNCHANGED <<counted, lastSample, grown, reported, lapsed, lastOnBattery>>
  BY DEF ProfileNext, ProfileTick, ProfileAction, ProfileChanges, ShellHearsProfile, telemetryVars
<1>2. CounterInv'
  BY <1>1, CountersRest
<1> SUFFICES ProfileInv'
  BY <1>2
<1>3. lastOnBattery' = Unread
  BY <1>1 DEF ProfileInv
<1>4. ASSUME NEW p, Refresh(p), current' = p PROVE ProfileInv'
  <2>1. lastProfile' = p /\ shellProfile' = shellProfile
    BY <1>4 DEF Refresh
  <2>2. CASE lastProfile # p
    <3>1. Send(<<"profile", p>>)
      BY <1>4, <2>2 DEF Refresh
    <3>2. Linked' /\ (~linkLost' => ~linkLost /\ link' # <<>> /\ link'[Len(link')] = <<"profile", p>>)
      BY <3>1, SendQueues DEF ProfileInv
    <3>3. ~linkLost' => Final(shellProfile)' = p
      BY <3>2 DEF Final
    <3> QED
      BY <1>3, <1>4, <2>1, <3>2, <3>3 DEF ProfileInv
  <2>3. CASE lastProfile = p
    <3>1. UNCHANGED linkVars
      BY <1>4, <2>3 DEF Refresh
    <3> QED
      BY <1>3, <1>4, <2>1, <2>3, <3>1 DEF ProfileInv, Linked, Final
  <2> QED
    BY <2>2, <2>3
<1>5. ASSUME UNCHANGED <<lastProfile, shellProfile, linkVars>>,
             ~sampled' \/ UNCHANGED <<current, sampled>>
      PROVE  ProfileInv'
  BY <1>3, <1>5 DEF ProfileInv, Linked, Final
<1>6. CASE ProfileTick
  BY <1>4, <1>6 DEF ProfileTick
<1>7. CASE ProfileAction
  <2>1. PICK p \in {Foreign, NextProfile(lastProfile)} \cup ToSet(Advertised) :
          \/ current' = p /\ (Refresh(p) \/ (sampled' = FALSE /\ UNCHANGED <<lastProfile, shellProfile, linkVars>>))
          \/ UNCHANGED <<current, lastProfile, shellProfile, linkVars, sampled>>
    BY <1>7, Zenon DEF ProfileAction
  <2> QED
    BY <1>4, <1>5, <2>1
<1>8. CASE ProfileChanges
  BY <1>5, <1>8 DEF ProfileChanges
<1>9. CASE ShellHearsProfile
  <2>1. link # <<>> /\ link' = Tail(link) /\ shellProfile' = Head(link)[2]
        /\ UNCHANGED <<current, lastProfile, linkLost, sampled>>
    BY <1>9 DEF ShellHearsProfile
  <2>2. Linked' /\ (link' = <<>> => Head(link)[2] = link[Len(link)][2])
        /\ (link' # <<>> => link'[Len(link')][2] = link[Len(link)][2])
    BY <2>1, ShellHears DEF ProfileInv
  <2>3. Final(shellProfile)' = Final(shellProfile)
    BY <2>1, <2>2 DEF Final
  <2> QED
    BY <1>3, <2>1, <2>2, <2>3 DEF ProfileInv
<1>10. CASE UNCHANGED telemetryVars
  BY <1>5, <1>10 DEF telemetryVars
<1> QED
  BY <1>6, <1>7, <1>8, <1>9, <1>10 DEF ProfileNext

\* A rate is a number.
LEMMA DeltaIsNat ==
  ASSUME CounterInv, NEW c \in Counter
  PROVE  Delta(c) \in Nat
<1>1. counted[c] \in Nat \cup {Unread} /\ lastSample[c] \in Nat \cup {Unread}
  BY DEF CounterInv
<1>2. \A a, b \in Nat : Minus(a, b) \in Nat
  BY DEF Minus
<1> QED
  BY <1>1, <1>2 DEF Delta

\* A tick reports what the counters have grown by since the last one, of those that it reads.
LEMMA ReportKeeps ==
  ASSUME CounterInv, NEW cs \in SUBSET Counter, Report(cs), UNCHANGED <<counted, grown, lapsed>>
  PROVE  CounterInv'
<1>1. \A c \in Counter : Delta(c) \in Nat /\ reported[c] \in Nat /\ grown[c] \in Nat
  BY DeltaIsNat DEF CounterInv
<1>2. \A c \in cs : reported'[c] = reported[c] + Delta(c) /\ lastSample'[c] = counted[c]
  BY DEF Report
<1>3. \A c \in Counter \ cs : reported'[c] = reported[c] /\ lastSample'[c] = lastSample[c]
  BY DEF Report
<1>4. reported' \in [Counter -> Nat]
  <2>1. \A c \in Counter : reported[c] + Delta(c) \in Nat
    BY <1>1
  <2> QED
    BY <1>1, <2>1 DEF Report
<1>5. lastSample' \in [Counter -> Nat \cup {Unread}]
  BY DEF Report, CounterInv
<1>6. ASSUME NEW c \in cs PROVE Delta(c)' = 0
  <2>1. lastSample'[c] = counted'[c] /\ counted'[c] \in Nat \cup {Unread}
    BY <1>2 DEF CounterInv
  <2>2. \A a \in Nat : Minus(a, a) = 0
    BY DEF Minus
  <2> QED
    BY <2>1, <2>2 DEF Delta
<1>7. ASSUME NEW c \in Counter \ cs PROVE Delta(c)' = Delta(c)
  BY <1>3 DEF Delta
<1>8. ASSUME NEW c \in Counter PROVE reported'[c] + Delta(c)' = reported[c] + Delta(c)
  <2>1. CASE c \in cs
    <3>1. reported'[c] = reported[c] + Delta(c) /\ Delta(c)' = 0
      BY <1>2, <1>6, <2>1
    <3>2. \A d \in Nat : d + 0 = d
      OBVIOUS
    <3> QED
      BY <1>1, <3>1, <3>2
  <2>2. CASE c \notin cs
    BY <1>3, <1>7, <2>2
  <2> QED
    BY <2>1, <2>2
<1>9. TrafficAddsUp'
  BY <1>8 DEF TrafficAddsUp, CounterInv
<1>10. ASSUME NEW c \in Counter \ lapsed, counted[c] # Unread, lastSample'[c] # Unread
       PROVE  lastSample'[c] <= counted[c]
  <2>1. c \in cs => lastSample'[c] = counted[c]
    BY <1>2
  <2>2. c \notin cs => lastSample'[c] = lastSample[c]
    BY <1>3
  <2>3. counted[c] \in Nat
    BY <1>10 DEF CounterInv
  <2> QED
    BY <1>10, <2>1, <2>2, <2>3 DEF CounterInv
<1> QED
  BY <1>4, <1>5, <1>9, <1>10 DEF CounterInv

\* The counters grow, go and come; what is not read of them then is known to have lapsed.
LEMMA MovesKeep ==
  ASSUME CounterInv, CountersMove
  PROVE  CounterInv'
<1>1. \A c \in Counter : Delta(c) \in Nat /\ reported[c] \in Nat /\ grown[c] \in Nat
  BY DeltaIsNat DEF CounterInv
<1>2. UNCHANGED <<lastSample, reported>>
  BY DEF CountersMove
<1>3. ASSUME NEW c \in Counter, NEW n \in Nat \cup {Unread}, counted' = [counted EXCEPT ![c] = n]
      PROVE  /\ counted' \in [Counter -> Nat \cup {Unread}] /\ counted'[c] = n
             /\ \A d \in Counter \ {c} : counted'[d] = counted[d] /\ Delta(d)' = Delta(d)
  <2>1. counted \in [Counter -> Nat \cup {Unread}]
    BY DEF CounterInv
  <2>2. /\ counted' \in [Counter -> Nat \cup {Unread}] /\ counted'[c] = n
        /\ \A d \in Counter \ {c} : counted'[d] = counted[d]
    BY <1>3, <2>1
  <2>3. \A d \in Counter \ {c} : Delta(d)' = Delta(d)
    BY <1>2, <2>2 DEF Delta
  <2> QED
    BY <2>2, <2>3
<1>4. ASSUME NEW c \in Counter, counted[c] # Unread, counted' = [counted EXCEPT ![c] = @ + 1],
             grown' = [grown EXCEPT ![c] = @ + 1], lapsed' = lapsed
      PROVE  CounterInv'
  <2>1. counted[c] \in Nat /\ counted[c] + 1 \in Nat
    BY <1>4 DEF CounterInv
  <2>2. /\ counted' \in [Counter -> Nat \cup {Unread}] /\ counted'[c] = counted[c] + 1
        /\ \A d \in Counter \ {c} : counted'[d] = counted[d] /\ Delta(d)' = Delta(d)
    BY <1>3, <1>4, <2>1
  <2>3. grown' \in [Counter -> Nat] /\ grown'[c] = grown[c] + 1
        /\ \A d \in Counter \ {c} : grown'[d] = grown[d]
    BY <1>4, <1>1 DEF CounterInv
  <2>4. lastSample[c] \in Nat \cup {Unread} /\ counted'[c] # Unread
    BY <2>1, <2>2, TelemetryAssumption DEF CounterInv
  <2>5. Delta(c)' \in Nat /\ Delta(c)' <= Delta(c) + 1
        /\ (c \notin lapsed => Delta(c)' = Delta(c) + 1)
    <3> DEFINE b == IF lastSample[c] = Unread THEN 0 ELSE lastSample[c]
    <3>1. Delta(c) = Minus(counted[c], b) /\ Delta(c)' = Minus(counted[c] + 1, b)
      BY <1>2, <1>4, <2>2, <2>4 DEF Delta
    <3>2. b \in Nat /\ (c \notin lapsed => b <= counted[c])
      BY <1>4, <2>1, <2>4 DEF CounterInv
    <3> HIDE DEF b
    <3>3. \A x, y \in Nat : /\ Minus(x + 1, y) \in Nat /\ Minus(x + 1, y) <= Minus(x, y) + 1
                            /\ y <= x => Minus(x + 1, y) = Minus(x, y) + 1
      BY DEF Minus
    <3> QED
      BY <2>1, <3>1, <3>2, <3>3
  <2>6. TrafficAddsUp'
    <3>1. ASSUME NEW d \in Counter
          PROVE  /\ reported[d] + Delta(d)' <= grown'[d]
                 /\ d \notin lapsed => reported[d] + Delta(d)' = grown'[d]
      <4>1. reported[d] + Delta(d) <= grown[d] /\ (d \notin lapsed => reported[d] + Delta(d) = grown[d])
        BY DEF CounterInv, TrafficAddsUp
      <4>2. \A r, x, y, g \in Nat : r + x <= g /\ y <= x + 1 => r + y <= g + 1
        OBVIOUS
      <4>3. \A r, x, g \in Nat : r + x = g => r + (x + 1) = g + 1
        OBVIOUS
      <4>4. CASE d = c
        BY <1>1, <2>3, <2>5, <4>1, <4>2, <4>3, <4>4
      <4>5. CASE d # c
        BY <2>2, <2>3, <4>1, <4>5
      <4> QED
        BY <4>4, <4>5
    <3> QED
      BY <1>2, <1>4, <3>1 DEF TrafficAddsUp
  <2>7. ASSUME NEW d \in Counter \ lapsed, counted'[d] # Unread, lastSample[d] # Unread
        PROVE  lastSample[d] <= counted'[d]
    <3>1. CASE d = c
      <4>1. lastSample[c] \in Nat /\ lastSample[c] <= counted[c]
        BY <1>4, <2>4, <2>7, <3>1 DEF CounterInv
      <4> QED
        BY <2>1, <2>2, <3>1, <4>1
    <3>2. CASE d # c
      BY <2>2, <2>7, <3>2 DEF CounterInv
    <3> QED
      BY <3>1, <3>2
  <2> QED
    BY <1>2, <1>4, <2>2, <2>3, <2>6, <2>7 DEF CounterInv
<1>5. ASSUME NEW c \in Counter, NEW n \in {0, Unread}, counted' = [counted EXCEPT ![c] = n], grown' = grown,
             lapsed \subseteq lapsed',
             Delta(c)' = 0,
             c \notin lapsed' => Delta(c) = 0 /\ (n = 0 => lastSample[c] = Unread)
      PROVE  CounterInv'
  <2> n \in Nat \cup {Unread}
    OBVIOUS
  <2>1. /\ counted' \in [Counter -> Nat \cup {Unread}] /\ counted'[c] = n
        /\ \A d \in Counter \ {c} : counted'[d] = counted[d] /\ Delta(d)' = Delta(d)
    BY <1>3, <1>5
  <2>2. TrafficAddsUp'
    <3>1. ASSUME NEW d \in Counter
          PROVE  /\ reported[d] + Delta(d)' <= grown[d]
                 /\ d \notin lapsed' => reported[d] + Delta(d)' = grown[d]
      <4>1. reported[d] + Delta(d) <= grown[d] /\ (d \notin lapsed => reported[d] + Delta(d) = grown[d])
        BY DEF CounterInv, TrafficAddsUp
      <4>2. \A r, x, g \in Nat : r + x <= g => r + 0 <= g
        OBVIOUS
      <4>3. CASE d = c
        BY <1>1, <1>5, <4>1, <4>2, <4>3
      <4>4. CASE d # c
        BY <1>5, <2>1, <4>1, <4>4
      <4> QED
        BY <4>3, <4>4
    <3> QED
      BY <1>2, <1>5, <3>1 DEF TrafficAddsUp
  <2>3. ASSUME NEW d \in Counter \ lapsed', counted'[d] # Unread, lastSample[d] # Unread
        PROVE  lastSample[d] <= counted'[d]
    <3>1. d # c
      BY <1>5, <2>1, <2>3
    <3> QED
      BY <1>5, <2>1, <2>3, <3>1 DEF CounterInv
  <2> QED
    BY <1>2, <1>5, <2>1, <2>2, <2>3 DEF CounterInv
<1>6. PICK c \in Counter :
       \/ /\ counted[c] # Unread
          /\ counted' = [counted EXCEPT ![c] = @ + 1]
          /\ grown' = [grown EXCEPT ![c] = @ + 1] /\ lapsed' = lapsed
       \/ /\ counted[c] # Unread
          /\ counted' = [counted EXCEPT ![c] = Unread]
          /\ lapsed' = (IF Delta(c) > 0 THEN lapsed \cup {c} ELSE lapsed)
          /\ grown' = grown
       \/ /\ counted[c] = Unread
          /\ counted' = [counted EXCEPT ![c] = 0]
          /\ lapsed' = (IF lastSample[c] # Unread THEN lapsed \cup {c} ELSE lapsed)
          /\ grown' = grown
  BY DEF CountersMove
<1>7. CASE counted[c] # Unread /\ counted' = [counted EXCEPT ![c] = @ + 1]
           /\ grown' = [grown EXCEPT ![c] = @ + 1] /\ lapsed' = lapsed
  BY <1>4, <1>7
<1>8. CASE /\ counted[c] # Unread
           /\ counted' = [counted EXCEPT ![c] = Unread]
           /\ lapsed' = (IF Delta(c) > 0 THEN lapsed \cup {c} ELSE lapsed)
           /\ grown' = grown
  <2>1. counted'[c] = Unread
    BY <1>3, <1>8
  <2>2. Delta(c)' = 0
    BY <2>1 DEF Delta
  <2>3. c \notin lapsed' => Delta(c) = 0
    BY <1>1, <1>8
  <2>4. Unread # 0 /\ lapsed \subseteq lapsed'
    BY <1>8, TelemetryAssumption
  <2> QED
    BY <1>5, <1>8, <2>2, <2>3, <2>4
<1>9. CASE /\ counted[c] = Unread
           /\ counted' = [counted EXCEPT ![c] = 0]
           /\ lapsed' = (IF lastSample[c] # Unread THEN lapsed \cup {c} ELSE lapsed)
           /\ grown' = grown
  <2>1. counted'[c] = 0 /\ lastSample'[c] \in Nat \cup {Unread}
    BY <1>2, <1>3, <1>9 DEF CounterInv
  <2>2. \A b \in Nat : Minus(0, b) = 0
    BY DEF Minus
  <2>3. Delta(c)' = 0
    BY <2>1, <2>2 DEF Delta
  <2>4. Delta(c) = 0
    BY <1>9 DEF Delta
  <2>5. lapsed \subseteq lapsed' /\ (c \notin lapsed' => lastSample[c] = Unread)
    BY <1>9
  <2> QED
    BY <1>5, <1>9, <2>3, <2>4, <2>5
<1> QED
  BY <1>6, <1>7, <1>8, <1>9

\* Every step of the modules that turn counters into rates.
LEMMA CountersKeep ==
  ASSUME CounterInv, [CounterNext]_telemetryVars
  PROVE  CounterInv'
<1> USE DEF powerVars, profileVars, counterVars, loadVars, linkVars
<1>1. CASE CpuTick
  BY <1>1, ReportKeeps DEF CpuTick, Counter
<1>2. CASE NetworkTick
  BY <1>2, ReportKeeps DEF NetworkTick, Counter
<1>3. CASE ProbeEnds
  BY <1>3, CountersRest DEF ProbeEnds
<1>4. CASE CountersMove
  BY <1>4, MovesKeep
<1>5. CASE UNCHANGED telemetryVars
  BY <1>5, CountersRest DEF telemetryVars
<1> QED
  BY <1>1, <1>2, <1>3, <1>4, <1>5 DEF CounterNext

\* Telemetry sends the shell only what changed, and rates made of differences: the shell
\* knows the present supply and profile all the same once they were read and nothing was
\* lost, and the rates add up to the growth of the counters, at every interleaving of ticks,
\* hints, probes and the world.
THEOREM MachineIsTold == TelemetrySpec => []TelemetryTold
<1> USE DEF powerVars, profileVars, counterVars, loadVars, linkVars
<1>1. TelemetryInit => PowerInv /\ ProfileInv /\ CounterInv /\ lastOnBattery = Unread /\ lastProfile = Unread
  BY TelemetryStarts DEF PowerInv, ProfileInv
<1>2. PowerInv /\ CounterInv /\ [PowerNext]_telemetryVars => (PowerInv /\ CounterInv)'
  BY PowerKeeps
<1>3. ProfileInv /\ CounterInv /\ [ProfileNext]_telemetryVars => (ProfileInv /\ CounterInv)'
  BY ProfileKeeps
<1> DEFINE Untold == CounterInv /\ lastOnBattery = Unread /\ lastProfile = Unread
<1>4. Untold /\ [CounterNext]_telemetryVars => Untold'
  <2>1. [CounterNext]_telemetryVars => UNCHANGED <<lastOnBattery, lastProfile>>
    BY DEF CounterNext, CpuTick, NetworkTick, ProbeEnds, CountersMove, telemetryVars
  <2> QED
    BY <2>1, CountersKeep
<1>5. Untold /\ [LoadNext]_telemetryVars => Untold'
  <2>1. [LoadNext]_telemetryVars =>
          UNCHANGED <<lastOnBattery, lastProfile, counted, lastSample, grown, reported, lapsed>>
    BY DEF LoadNext, MemoryTick, DiskTick, LoadChanges, telemetryVars
  <2> QED
    BY <2>1, CountersRest
<1>6. PowerInv /\ CounterInv => TelemetryTold
  BY DEF PowerInv, CounterInv, TelemetryTold, ShellKnowsPower, Final
<1>7. ProfileInv /\ CounterInv => TelemetryTold
  BY DEF ProfileInv, CounterInv, TelemetryTold, ShellKnowsPower, Final
<1>8. Untold => TelemetryTold
  BY DEF CounterInv, TelemetryTold, ShellKnowsPower
<1>9. TelemetryInit => Untold
  BY <1>1
<1> HIDE DEF Untold
<1>10. PowerSpec => []TelemetryTold
  BY <1>1, <1>2, <1>6, PTL DEF PowerSpec
<1>11. ProfileSpec => []TelemetryTold
  BY <1>1, <1>3, <1>7, PTL DEF ProfileSpec
<1>12. CounterSpec => []TelemetryTold
  BY <1>4, <1>8, <1>9, PTL DEF CounterSpec
<1>13. LoadSpec => []TelemetryTold
  BY <1>5, <1>8, <1>9, PTL DEF LoadSpec
<1> QED
  BY <1>10, <1>11, <1>12, <1>13 DEF TelemetrySpec

-----------------------------------------------------------------------------
(* Mirror and Store *)

\* The contents of the database, for ids given out below n and rows of an adapter a.
IsStore(d) == d = [row |-> d.row, edge |-> d.edge, tag |-> d.tag, meta |-> d.meta]

RowsHold(d, n) ==
  /\ d.row \in [DOMAIN d.row -> Row] /\ IsFiniteSet(DOMAIN d.row)
  /\ \A i \in DOMAIN d.row :
       /\ i \in Id /\ i < n
       /\ d.row[i].table = "project" <=> i = project
       /\ d.row[i].table = "flashcard" => d.row[i].note = None /\ d.row[i].ref = None
  /\ Consistent(d)

MetaHolds(d, n, a) ==
  /\ d.meta \in [DOMAIN d.meta -> SyncMetadata] /\ IsFiniteSet(DOMAIN d.meta)
  /\ \A i \in DOMAIN d.meta : i \in Id /\ native < i /\ i < n /\ d.meta[i].provider = a
  /\ \A i \in DOMAIN d.meta \cap DOMAIN d.row : d.row[i].table = TableOf[a]

EdgesHold(d, n) ==
  /\ d.edge \subseteq Relation /\ IsFiniteSet(d.edge)
  /\ \A e \in d.edge :
       /\ native < e.from /\ e.from < n /\ e.kind = "scaffolded_from"
       /\ \A f \in d.edge : f.to = e.to => f = e
  /\ DOMAIN d.tag \subseteq Id

StoreHolds(d, n, a) == IsStore(d) /\ RowsHold(d, n) /\ MetaHolds(d, n, a) /\ EdgesHold(d, n)

\* What is left to call for an item.
Plans ==
  {<<"meta">>, <<"tags", "meta">>, <<"tags", "note", "meta">>, <<"note", "meta">>, <<"refresh", "meta">>,
   <<"draft", "meta">>, <<"edge", "meta">>, <<"metrics", "meta">>, <<"clear">>}
\* Those that neither begin with a note or its relation nor belong to a deletion.
PlainPlans == Plans \ {<<"refresh", "meta">>, <<"draft", "meta">>, <<"edge", "meta">>, <<"clear">>}

\* The job j of a pass over the store d: the row is new or the adapter's own.
JobHolds(j, d, n, a) ==
  /\ j \in Job /\ j.next \in Plans
  /\ native < j.id /\ j.id < n
  /\ j.id \in DOMAIN d.row => d.row[j.id].table = TableOf[a]
  /\ j.id \in DOMAIN d.meta => d.meta[j.id].ext = j.ext
  /\ j.project # None => IsA(d, j.project, "project")
  /\ j.note # None => native < j.note /\ j.note < n

\* What the job j has done to the store d: its row is there, unless the job deletes
\* it, and so is its note, and the note's edge unless it is the next call; a note is to be
\* refreshed when there is one and drafted when there is none.
JobCompletes(j, d) ==
  /\ (j.next = <<"clear">>) <=> ~Exists(d, j.id)
  /\ j.next = <<"refresh", "meta">> => Scaffold(d, j.id) # None
  /\ j.next = <<"draft", "meta">> => Incoming(d, j.id, "scaffolded_from") = {}
  /\ j.next = <<"edge", "meta">> => j.note # None /\ Incoming(d, j.id, "scaffolded_from") = {}
  /\ j.note # None =>
       /\ IsA(d, j.note, "note")
       /\ j.next = <<"edge", "meta">> \/ (j.next = <<"meta">> /\ \E e \in d.edge : e.from = j.note)

\* The items a pass has not met are those of the store, each with its own metadata.
LeftHolds(left, d) ==
  /\ left \in [DOMAIN left -> Id] /\ DOMAIN left \subseteq Ext
  /\ \A x \in DOMAIN left : left[x] \in DOMAIN d.meta /\ d.meta[left[x]].ext = x

PassHolds(p, d, n, a) ==
  /\ p \in Pass
  /\ LeftHolds(p.left, d)
  /\ p.job # None => JobHolds(p.job, d, n, a) /\ JobCompletes(p.job, d) /\ p.job.ext \notin DOMAIN p.left

WorldHolds ==
  /\ adapter \in Provider /\ adapter \in DOMAIN TableOf
  /\ source \in [Ext -> Item \cup {None}] /\ down \subseteq Collection
  /\ config \in [enabled : BOOLEAN, wanted : SUBSET Collection, built : SUBSET Collection]
  /\ config.built \subseteq config.wanted
  /\ fresh \in Id /\ native < fresh
  /\ edits \in 0..MaxEdits /\ faults \in 0..MaxFaults /\ cancels \in 0..faults

MirrorInv ==
  /\ WorldHolds
  /\ StoreHolds(db, fresh, adapter)
  /\ pass # None => PassHolds(pass, db, fresh, adapter)


\* What nobody will come back to: a row of the adapter without its metadata,
\* metadata without its row, a note that no edge tells from the user's own.
HandOf(p) == IF p = None \/ p.job = None THEN {} ELSE {p.job.id, p.job.note} \cap Id
StrayRows(d, p, a) == Rows(d, TableOf[a]) \ (DOMAIN d.meta \cup HandOf(p) \cup {native})
StrayMeta(d, p) == {i \in DOMAIN d.meta : ~Exists(d, i)} \ HandOf(p)
StrayNotes(d, p) == Rows(d, "note") \ ({e.from : e \in d.edge} \cup HandOf(p))

StrayInv ==
  /\ Cardinality(StrayRows(db, pass, adapter)) <= cancels
  /\ Cardinality(StrayMeta(db, pass)) <= cancels /\ Cardinality(StrayNotes(db, pass)) <= cancels

\* A step from the store d and the pass p to d2 and p2 leaves no more of them behind.
NoNewStrays(d, p, d2, p2, a) ==
  /\ StrayRows(d2, p2, a) \subseteq StrayRows(d, p, a)
  /\ StrayMeta(d2, p2) \subseteq StrayMeta(d, p) /\ StrayNotes(d2, p2) \subseteq StrayNotes(d, p)

\* A step of a pass p from the store d to d2 keeps what is not its own.
RowsKept(d, p, d2) ==
  \A i \in DOMAIN d.row :
    /\ i \notin DOMAIN d.meta \cup {e.from : e \in d.edge} \cup HandOf(p) => i \in DOMAIN d2.row /\ d2.row[i] = d.row[i]
    /\ i \in DOMAIN d2.row /\ "project" \in DOMAIN d.row[i] => d2.row[i].project = d.row[i].project

\* The stores d and d2 differ in columns of rows at most, and in tags.
Alike(d, d2) ==
  /\ DOMAIN d2.row = DOMAIN d.row /\ d2.meta = d.meta /\ d2.edge = d.edge
  /\ \A i \in DOMAIN d.row : d2.row[i].table = d.row[i].table

\* What every step but a cancellation does.
Upholds ==
  /\ StoreHolds(db', fresh', adapter)
  /\ pass' # None => PassHolds(pass', db', fresh', adapter)
  /\ NoNewStrays(db, pass, db', pass', adapter)

\* What is left of a walk and of a plan after the next step.
MoreToDo(p) == Tail(p.todo) \in Seq(Entry)
Rest(j) == Tail(j.next)

\* A row of the store, column by column.
LEMMA RowParts ==
  ASSUME NEW r \in Row
  PROVE  /\ r.table \in EntityType /\ r.body \in Body
         /\ r = [f \in DOMAIN r |-> r[f]]
         /\ {"table", "body"} \subseteq DOMAIN r
         /\ "note" \in DOMAIN r \/ "ref" \in DOMAIN r => r.table = "flashcard"
         /\ r.table # "project" => "project" \in DOMAIN r /\ r.project \in OptId
         /\ r.table = "project" => Links(r) = {}
         /\ r.table = "experiment" => r.project \in Id
         /\ r.table = "ref" => "citekey" \in DOMAIN r /\ r.citekey \in Key
<1>1. CASE r \in Project
  BY <1>1 DEF Project, EntityType, Links
<1>2. CASE r \in Note
  BY <1>2 DEF Note, EntityType
<1>3. CASE r \in Reference
  BY <1>3 DEF Reference, EntityType
<1>4. CASE r \in Flashcard
  BY <1>4 DEF Flashcard, EntityType
<1>5. CASE r \in Event
  BY <1>5 DEF Event, EntityType
<1>6. CASE r \in Task
  BY <1>6 DEF Task, EntityType
<1>7. CASE r \in Experiment
  BY <1>7 DEF Experiment, EntityType, OptId
<1> QED
  BY <1>1, <1>2, <1>3, <1>4, <1>5, <1>6, <1>7 DEF Row

\* A patch of columns the row has gives a row of the same table.
LEMMA PatchedRow ==
  ASSUME NEW r \in Row, NEW p, DOMAIN p \subseteq DOMAIN r \cap {"body", "citekey", "project"},
         "body" \in DOMAIN p => p["body"] \in Body,
         "citekey" \in DOMAIN p => p["citekey"] \in Key,
         "project" \in DOMAIN p => p["project"] \in OptId /\ r.table # "experiment"
  PROVE  /\ Patched(r, p) \in Row /\ DOMAIN Patched(r, p) = DOMAIN r
         /\ Patched(r, p).table = r.table
         /\ \A c \in DOMAIN r \ DOMAIN p : Patched(r, p)[c] = r[c]
         /\ \A c \in DOMAIN p : Patched(r, p)[c] = p[c]
<1> DEFINE q == Patched(r, p)
<1>1. q = [c \in DOMAIN r |-> IF c \in DOMAIN p THEN p[c] ELSE r[c]]
  <2>1. DOMAIN r \cup DOMAIN p = DOMAIN r
    OBVIOUS
  <2> QED
    BY <2>1 DEF Patched
<1> HIDE DEF q
<1>2. DOMAIN q = DOMAIN r /\ \A c \in DOMAIN r : q[c] = IF c \in DOMAIN p THEN p[c] ELSE r[c]
  BY <1>1
<1>3. "table" \in DOMAIN r /\ q["table"] = r["table"]
  BY <1>2, RowParts
<1>4. CASE r \in Project
  <2>1. DOMAIN r = {"table", "body"} /\ r.table = "project" /\ r.body \in Body
    BY <1>4 DEF Project
  <2>2. q = [table |-> q["table"], body |-> q["body"]]
    BY <1>1, <2>1
  <2>3. q["body"] \in Body
    BY <1>2, <2>1
  <2> QED
    BY <1>2, <1>3, <2>1, <2>2, <2>3 DEF q, Project, Row
<1>5. CASE r \in Note
  <2>1. DOMAIN r = {"table", "body", "project"} /\ r.table = "note" /\ r.body \in Body /\ r.project \in OptId
    BY <1>5 DEF Note
  <2>2. q = [table |-> q["table"], body |-> q["body"], project |-> q["project"]]
    BY <1>1, <2>1
  <2>3. q["body"] \in Body /\ q["project"] \in OptId
    BY <1>2, <2>1
  <2> QED
    BY <1>2, <1>3, <2>1, <2>2, <2>3 DEF q, Note, Row
<1>6. CASE r \in Reference
  <2>1. DOMAIN r = {"table", "body", "citekey", "project"} /\ r.table = "ref" /\ r.body \in Body
        /\ r.citekey \in Key /\ r.project \in OptId
    BY <1>6 DEF Reference
  <2>2. q = [table |-> q["table"], body |-> q["body"], citekey |-> q["citekey"], project |-> q["project"]]
    BY <1>1, <2>1
  <2>3. q["body"] \in Body /\ q["project"] \in OptId /\ q["citekey"] \in Key
    BY <1>2, <2>1
  <2> QED
    BY <1>2, <1>3, <2>1, <2>2, <2>3 DEF q, Reference, Row
<1>7. CASE r \in Flashcard
  <2>1. DOMAIN r = {"table", "body", "note", "ref", "project"} /\ r.table = "flashcard" /\ r.body \in Body
        /\ r.note \in OptId /\ r.ref \in OptId /\ r.project \in OptId
    BY <1>7 DEF Flashcard
  <2>2. q = [table |-> q["table"], body |-> q["body"], note |-> q["note"], ref |-> q["ref"], project |-> q["project"]]
    BY <1>1, <2>1
  <2>3. q["body"] \in Body /\ q["project"] \in OptId /\ q["note"] \in OptId /\ q["ref"] \in OptId
    BY <1>2, <2>1
  <2> QED
    BY <1>2, <1>3, <2>1, <2>2, <2>3 DEF q, Flashcard, Row
<1>8. CASE r \in Event
  <2>1. DOMAIN r = {"table", "body", "project"} /\ r.table = "event" /\ r.body \in Body /\ r.project \in OptId
    BY <1>8 DEF Event
  <2>2. q = [table |-> q["table"], body |-> q["body"], project |-> q["project"]]
    BY <1>1, <2>1
  <2>3. q["body"] \in Body /\ q["project"] \in OptId
    BY <1>2, <2>1
  <2> QED
    BY <1>2, <1>3, <2>1, <2>2, <2>3 DEF q, Event, Row
<1>9. CASE r \in Task
  <2>1. DOMAIN r = {"table", "body", "project"} /\ r.table = "task" /\ r.body \in Body /\ r.project \in OptId
    BY <1>9 DEF Task
  <2>2. q = [table |-> q["table"], body |-> q["body"], project |-> q["project"]]
    BY <1>1, <2>1
  <2>3. q["body"] \in Body /\ q["project"] \in OptId
    BY <1>2, <2>1
  <2> QED
    BY <1>2, <1>3, <2>1, <2>2, <2>3 DEF q, Task, Row
<1>10. CASE r \in Experiment
  <2>1. DOMAIN r = {"table", "body", "project"} /\ r.table = "experiment" /\ r.body \in Body /\ r.project \in Id
    BY <1>10 DEF Experiment
  <2>2. q = [table |-> q["table"], body |-> q["body"], project |-> q["project"]]
    BY <1>1, <2>1
  <2>3. q["body"] \in Body /\ q["project"] \in Id
    BY <1>2, <2>1
  <2> QED
    BY <1>2, <1>3, <2>1, <2>2, <2>3 DEF q, Experiment, Row
<1> QED
  BY <1>4, <1>5, <1>6, <1>7, <1>8, <1>9, <1>10 DEF Row

\* The patches that the adapters and attach() make.
LEMMA PatchParts ==
  ASSUME NEW v, NEW k
  PROVE  /\ \A P \in {NotePatch([body |-> v]), FlashcardPatch([body |-> v]), EventPatch([body |-> v]),
                      ExperimentPatch([body |-> v])} : DOMAIN P = {"body"} /\ P["body"] = v
         /\ \A P \in {NotePatch([project |-> v]), ReferencePatch([project |-> v]), FlashcardPatch([project |-> v]),
                      EventPatch([project |-> v]), TaskPatch([project |-> v])} : DOMAIN P = {"project"} /\ P["project"] = v
         /\ LET P == ReferencePatch([body |-> v, citekey |-> k])
            IN  DOMAIN P = {"body", "citekey"} /\ P["body"] = v /\ P["citekey"] = k
<1>1. ASSUME NEW cs, "body" \in cs
      PROVE  DOMAIN Given([body |-> v], cs) = {"body"} /\ Given([body |-> v], cs)["body"] = v
  <2> DEFINE ch == [body |-> v]
  <2>1. DOMAIN ch = {"body"} /\ ch["body"] = v
    OBVIOUS
  <2> HIDE DEF ch
  <2>2. DOMAIN Given(ch, cs) = {"body"} /\ Given(ch, cs)["body"] = v
    BY <1>1, <2>1 DEF Given
  <2> QED
    BY <2>2 DEF ch
<1>2. ASSUME NEW cs, "project" \in cs
      PROVE  DOMAIN Given([project |-> v], cs) = {"project"} /\ Given([project |-> v], cs)["project"] = v
  <2> DEFINE ch == [project |-> v]
  <2>1. DOMAIN ch = {"project"} /\ ch["project"] = v
    OBVIOUS
  <2> HIDE DEF ch
  <2>2. DOMAIN Given(ch, cs) = {"project"} /\ Given(ch, cs)["project"] = v
    BY <1>2, <2>1 DEF Given
  <2> QED
    BY <2>2 DEF ch
<1>3. LET P == Given([body |-> v, citekey |-> k], {"body", "citekey", "project"})
      IN  DOMAIN P = {"body", "citekey"} /\ P["body"] = v /\ P["citekey"] = k
  <2> DEFINE ch == [body |-> v, citekey |-> k]
  <2>1. DOMAIN ch = {"body", "citekey"} /\ ch["body"] = v /\ ch["citekey"] = k
    OBVIOUS
  <2> HIDE DEF ch
  <2>2. DOMAIN Given(ch, {"body", "citekey", "project"}) = {"body", "citekey"}
        /\ Given(ch, {"body", "citekey", "project"})["body"] = v
        /\ Given(ch, {"body", "citekey", "project"})["citekey"] = k
    BY <2>1 DEF Given
  <2> QED
    BY <2>2 DEF ch
<1>4. \A P \in {NotePatch([body |-> v]), FlashcardPatch([body |-> v]), EventPatch([body |-> v]),
                ExperimentPatch([body |-> v])} : DOMAIN P = {"body"} /\ P["body"] = v
  BY <1>1 DEF NotePatch, FlashcardPatch, EventPatch, ExperimentPatch
<1>5. \A P \in {NotePatch([project |-> v]), ReferencePatch([project |-> v]), FlashcardPatch([project |-> v]),
                EventPatch([project |-> v]), TaskPatch([project |-> v])} : DOMAIN P = {"project"} /\ P["project"] = v
  BY <1>2 DEF NotePatch, ReferencePatch, FlashcardPatch, EventPatch, TaskPatch
<1> QED
  BY <1>3, <1>4, <1>5 DEF ReferencePatch

\* What the statements do to the tables: INSERT,
LEMMA InsertIs ==
  ASSUME NEW d, IsStore(d), NEW i, NEW r
  PROVE  Insert(d, i, r) = [row |-> Put(d.row, i, r), edge |-> d.edge, tag |-> d.tag, meta |-> d.meta]
BY DEF IsStore, Insert

\* UPDATE,
LEMMA UpdateIs ==
  ASSUME NEW d, IsStore(d), NEW i, NEW r
  PROVE  Update(d, i, r) = [row |-> [d.row EXCEPT ![i] = Patched(d.row[i], r)], edge |-> d.edge, tag |-> d.tag, meta |-> d.meta]
BY DEF IsStore, Update

\* a relation,
LEMMA RelationIs ==
  ASSUME NEW d, IsStore(d), NEW r
  PROVE  AddRelation(d, r) = [row |-> d.row, edge |-> d.edge \cup {r}, tag |-> d.tag, meta |-> d.meta]
BY DEF IsStore, AddRelation

\* tags,
LEMMA TagsIs ==
  ASSUME NEW d, IsStore(d), NEW i, NEW r
  PROVE  SetTags(d, i, r) = [row |-> d.row, edge |-> d.edge, tag |-> Put(d.tag, i, r), meta |-> d.meta]
BY DEF IsStore, SetTags

\* metadata,
LEMMA MetaIs ==
  ASSUME NEW d, IsStore(d), NEW i, NEW r
  PROVE  SetMeta(d, i, r) = [row |-> d.row, edge |-> d.edge, tag |-> d.tag, meta |-> Put(d.meta, i, r)]
BY DEF IsStore, SetMeta

\* no metadata.
LEMMA ClearIs ==
  ASSUME NEW d, IsStore(d), NEW i
  PROVE  ClearMeta(d, i) = [row |-> d.row, edge |-> d.edge, tag |-> d.tag, meta |-> Drop(d.meta, {i})]
BY DEF IsStore, ClearMeta

\* Ids are numbers, and the two rows the adapters did not make come before all others.
LEMMA Numbers ==
  /\ Id \subseteq Nat /\ project = 1 /\ native = 2 /\ None \notin Id /\ None \notin Key
  /\ {1, 2, 3} \subseteq Id /\ 0..MaxEdits \subseteq Body /\ 0 \in Body /\ Ext \subseteq Key
  /\ MaxEdits \in Nat /\ MaxFaults \in Nat /\ Ext \subseteq Nat
BY MirrorAssumption DEF project, native

\* A reference to another row holds as long as that row is there.
LEMMA LinksStay ==
  ASSUME NEW d, NEW d2, NEW r, LinksHold(d, r),
         \A f \in Links(r) : r[f] # None =>
           (r[f] \in DOMAIN d.row => r[f] \in DOMAIN d2.row /\ d2.row[r[f]].table = d.row[r[f]].table)
  PROVE  LinksHold(d2, r)
BY DEF LinksHold, IsA, Exists

\* A new row under the next id.
LEMMA InsertHolds ==
  ASSUME NEW d, NEW n \in Id, NEW a, StoreHolds(d, n, a), n = native \/ native < n,
         NEW r \in Row, Allowed(d, n, r), r.table # "project",
         r.table = "flashcard" => r.note = None /\ r.ref = None
  PROVE  LET d2 == Insert(d, n, r) IN
           /\ d2.row = Put(d.row, n, r) /\ n \notin DOMAIN d.row
           /\ d2.edge = d.edge /\ d2.tag = d.tag /\ d2.meta = d.meta
           /\ n + 1 \in Id => StoreHolds(d2, n + 1, a)
<1> DEFINE d2 == Insert(d, n, r)
<1>1. d2 = [row |-> Put(d.row, n, r), edge |-> d.edge, tag |-> d.tag, meta |-> d.meta]
  BY InsertIs DEF StoreHolds
<1> HIDE DEF d2
<1>2. d2.row = Put(d.row, n, r) /\ d2.edge = d.edge /\ d2.tag = d.tag /\ d2.meta = d.meta /\ IsStore(d2)
  BY <1>1 DEF IsStore
<1>3. n \in Nat /\ \A i \in Id : i \in Nat
  BY Numbers
<1>4. n \notin DOMAIN d.row
  BY <1>3 DEF StoreHolds, RowsHold
<1>5. /\ DOMAIN d2.row = DOMAIN d.row \cup {n} /\ d2.row[n] = r
      /\ \A i \in DOMAIN d.row : d2.row[i] = d.row[i]
      /\ d2.row \in [DOMAIN d2.row -> Row]
  <2>1. d.row \in [DOMAIN d.row -> Row]
    BY DEF StoreHolds, RowsHold
  <2> QED
    BY <1>2, <1>4, <2>1 DEF Put
<1>6. Consistent(d2)
  <2>1. ASSUME NEW x, LinksHold(d, x) PROVE LinksHold(d2, x)
    BY <1>5, <2>1, LinksStay
  <2>2. LinksHold(d2, r)
    BY <2>1 DEF Allowed
  <2>3. KeyFree(d2, n, r)
    BY <1>5 DEF Allowed, KeyFree, Rows
  <2>4. ASSUME NEW i \in DOMAIN d.row PROVE Allowed(d2, i, d.row[i])
    <3>1. LinksHold(d, d.row[i]) /\ KeyFree(d, i, d.row[i])
      BY DEF StoreHolds, RowsHold, Consistent, Allowed
    <3>2. KeyFree(d2, i, d.row[i])
      <4> SUFFICES ASSUME d.row[i].table = "ref", NEW o \in Rows(d2, "ref") \ {i}
                   PROVE  d2.row[o].citekey # d.row[i].citekey
        BY DEF KeyFree
      <4>1. CASE o = n
        <5>1. r.table = "ref" /\ i \in Rows(d, "ref") \ {n}
          BY <1>4, <1>5, <4>1 DEF Rows
        <5> QED
          BY <1>5, <4>1, <5>1 DEF Allowed, KeyFree
      <4>2. CASE o # n
        <5>1. o \in Rows(d, "ref") \ {i} /\ d2.row[o] = d.row[o]
          BY <1>5, <4>2 DEF Rows
        <5> QED
          BY <3>1, <5>1 DEF KeyFree
      <4> QED
        BY <4>1, <4>2
    <3> QED
      BY <2>1, <3>1, <3>2 DEF Allowed
  <2> QED
    BY <1>5, <2>2, <2>3, <2>4 DEF Consistent, Allowed
<1>7. ASSUME n + 1 \in Id PROVE StoreHolds(d2, n + 1, a)
  <2>1. IsFiniteSet(DOMAIN d2.row)
    BY <1>5, FS_AddElement DEF StoreHolds, RowsHold
  <2>2. ASSUME NEW i \in DOMAIN d2.row
        PROVE  /\ i \in Id /\ i < n + 1
               /\ d2.row[i].table = "project" <=> i = project
               /\ d2.row[i].table = "flashcard" => d2.row[i].note = None /\ d2.row[i].ref = None
    <3>1. CASE i = n
      BY <1>3, <1>5, <3>1, Numbers
    <3>2. CASE i \in DOMAIN d.row
      <4>1. i \in Id /\ i < n
        BY <3>2 DEF StoreHolds, RowsHold
      <4>2. i < n + 1
        <5>1. i \in Nat
          BY <1>3, <4>1
        <5> QED
          BY <1>3, <4>1, <5>1
      <4> QED
        BY <1>5, <3>2, <4>1, <4>2 DEF StoreHolds, RowsHold
    <3> QED
      BY <1>5, <3>1, <3>2
  <2>3. RowsHold(d2, n + 1)
    BY <1>5, <1>6, <2>1, <2>2 DEF RowsHold
  <2>4. MetaHolds(d2, n + 1, a)
    <3>1. ASSUME NEW i \in DOMAIN d.meta PROVE i \in Id /\ i # n /\ native < i /\ i < n + 1 /\ d.meta[i].provider = a
      <4>1. i \in Id /\ native < i /\ i < n /\ d.meta[i].provider = a
        BY DEF StoreHolds, MetaHolds
      <4>2. i \in Nat
        BY <1>3, <4>1
      <4>3. i # n /\ i < n + 1
        BY <1>3, <4>1, <4>2
      <4> QED
        BY <4>1, <4>3
    <3>2. ASSUME NEW i \in DOMAIN d.meta \cap DOMAIN d2.row PROVE d2.row[i].table = TableOf[a]
      BY <1>5, <3>1 DEF StoreHolds, MetaHolds
    <3>3. d.meta \in [DOMAIN d.meta -> SyncMetadata] /\ IsFiniteSet(DOMAIN d.meta)
      BY DEF StoreHolds, MetaHolds
    <3> QED
      BY <1>2, <3>1, <3>2, <3>3 DEF MetaHolds
  <2>5. EdgesHold(d2, n + 1)
    <3>1. ASSUME NEW e \in d.edge
          PROVE  /\ native < e.from /\ e.from < n + 1 /\ e.kind = "scaffolded_from"
                 /\ \A f \in d.edge : f.to = e.to => f = e
      <4>1. /\ e \in Relation /\ native < e.from /\ e.from < n /\ e.kind = "scaffolded_from"
            /\ \A f \in d.edge : f.to = e.to => f = e
        BY DEF StoreHolds, EdgesHold
      <4>2. e.from \in Nat
        BY <1>3, <4>1 DEF Relation
      <4>3. e.from < n + 1
        BY <1>3, <4>1, <4>2
      <4> QED
        BY <4>1, <4>3
    <3> QED
      BY <1>2, <3>1 DEF StoreHolds, EdgesHold
  <2> QED
    BY <1>2, <2>3, <2>4, <2>5 DEF StoreHolds
<1> QED
  BY <1>2, <1>4, <1>7 DEF d2

\* A patch that the constraints allow.
LEMMA UpdateHolds ==
  ASSUME NEW d, NEW n \in Id, NEW a, StoreHolds(d, n, a), NEW i \in DOMAIN d.row,
         NEW p, DOMAIN p \subseteq DOMAIN d.row[i] \cap {"body", "citekey", "project"},
         "body" \in DOMAIN p => p["body"] \in Body,
         "citekey" \in DOMAIN p => p["citekey"] \in Key,
         "project" \in DOMAIN p => p["project"] \in OptId /\ d.row[i].table # "experiment",
         CanUpdate(d, i, p)
  PROVE  LET d2 == Update(d, i, p) IN
           /\ d2.edge = d.edge /\ d2.tag = d.tag /\ d2.meta = d.meta /\ DOMAIN d2.row = DOMAIN d.row
           /\ \A j \in DOMAIN d.row : d2.row[j].table = d.row[j].table /\ (j # i => d2.row[j] = d.row[j])
           /\ \A c \in DOMAIN d.row[i] \ DOMAIN p : d2.row[i][c] = d.row[i][c]
           /\ StoreHolds(d2, n, a)
<1> DEFINE d2 == Update(d, i, p)
           q == Patched(d.row[i], p)
<1>1. d2 = [row |-> [d.row EXCEPT ![i] = q], edge |-> d.edge, tag |-> d.tag, meta |-> d.meta]
  <2>1. IsStore(d)
    BY DEF StoreHolds
  <2>2. Update(d, i, p) = [row |-> [d.row EXCEPT ![i] = Patched(d.row[i], p)], edge |-> d.edge, tag |-> d.tag,
                           meta |-> d.meta]
    BY <2>1, UpdateIs
  <2> QED
    BY <2>2
<1>2. d.row \in [DOMAIN d.row -> Row] /\ d.row[i] \in Row
  BY DEF StoreHolds, RowsHold
<1>3. /\ q \in Row /\ DOMAIN q = DOMAIN d.row[i] /\ q.table = d.row[i].table
      /\ \A c \in DOMAIN d.row[i] \ DOMAIN p : q[c] = d.row[i][c]
  BY <1>2, PatchedRow
<1>4. LinksHold(d, q) /\ KeyFree(d, i, q)
  BY DEF CanUpdate, Allowed
<1> HIDE DEF d2, q
<1>5. d2.row = [d.row EXCEPT ![i] = q] /\ d2.edge = d.edge /\ d2.tag = d.tag /\ d2.meta = d.meta /\ IsStore(d2)
  BY <1>1 DEF IsStore
<1>6. /\ DOMAIN d2.row = DOMAIN d.row /\ d2.row[i] = q /\ d2.row \in [DOMAIN d2.row -> Row]
      /\ \A j \in DOMAIN d.row : j # i => d2.row[j] = d.row[j]
      /\ \A j \in DOMAIN d.row : d2.row[j].table = d.row[j].table
  <2>1. DOMAIN d2.row = DOMAIN d.row /\ d2.row[i] = q /\ d2.row \in [DOMAIN d2.row -> Row]
        /\ \A j \in DOMAIN d.row : j # i => d2.row[j] = d.row[j]
    BY <1>2, <1>3, <1>5
  <2> QED
    BY <1>3, <2>1
<1>7. Rows(d2, "ref") = Rows(d, "ref")
  BY <1>6 DEF Rows
<1>8. Consistent(d2)
  <2>1. ASSUME NEW x, LinksHold(d, x) PROVE LinksHold(d2, x)
    BY <1>6, <2>1, LinksStay
  <2>2. KeyFree(d2, i, q)
    <3> SUFFICES ASSUME q.table = "ref", NEW o \in Rows(d, "ref") \ {i}
                 PROVE  d2.row[o].citekey # q.citekey
      BY <1>7 DEF KeyFree
    <3>1. d2.row[o] = d.row[o]
      BY <1>6 DEF Rows
    <3> QED
      BY <1>4, <3>1 DEF KeyFree
  <2>3. ASSUME NEW j \in DOMAIN d.row, j # i PROVE KeyFree(d2, j, d.row[j])
    <3> SUFFICES ASSUME d.row[j].table = "ref", NEW o \in Rows(d, "ref") \ {j}
                 PROVE  d2.row[o].citekey # d.row[j].citekey
      BY <1>7 DEF KeyFree
    <3>1. CASE o = i
      <4>1. q.table = "ref" /\ j \in Rows(d, "ref") \ {i}
        BY <1>3, <2>3, <3>1 DEF Rows
      <4> QED
        BY <1>4, <1>6, <3>1, <4>1 DEF KeyFree
    <3>2. CASE o # i
      <4>1. KeyFree(d, j, d.row[j]) /\ o \in DOMAIN d.row
        BY DEF StoreHolds, RowsHold, Consistent, Allowed, Rows
      <4> QED
        BY <1>6, <3>2, <4>1 DEF KeyFree
    <3> QED
      BY <3>1, <3>2
  <2>4. ASSUME NEW j \in DOMAIN d.row PROVE LinksHold(d, d.row[j])
    BY DEF StoreHolds, RowsHold, Consistent, Allowed
  <2> QED
    BY <1>4, <1>6, <2>1, <2>2, <2>3, <2>4 DEF Consistent, Allowed
<1>9. ASSUME NEW j \in DOMAIN d2.row
      PROVE  /\ j \in Id /\ j < n
             /\ d2.row[j].table = "project" <=> j = project
             /\ d2.row[j].table = "flashcard" => d2.row[j].note = None /\ d2.row[j].ref = None
  <2>1. /\ j \in Id /\ j < n /\ (d.row[j].table = "project" <=> j = project)
        /\ d.row[j].table = "flashcard" => d.row[j].note = None /\ d.row[j].ref = None
    BY <1>6 DEF StoreHolds, RowsHold
  <2>2. d.row[j].table = "flashcard" => {"note", "ref"} \subseteq DOMAIN d.row[j]
    <3>1. d.row[j] \in Row
      BY <1>2, <1>6
    <3> QED
      BY <3>1 DEF Row, Project, Note, Reference, Flashcard, Event, Task, Experiment
  <2>3. CASE j = i
    <3>1. d.row[j].table = "flashcard" => q.note = d.row[j].note /\ q.ref = d.row[j].ref
      BY <1>3, <2>2, <2>3
    <3> QED
      BY <1>3, <1>6, <2>1, <2>3, <3>1
  <2>4. CASE j # i
    BY <1>6, <2>1, <2>4
  <2> QED
    BY <2>3, <2>4
<1>10. RowsHold(d2, n)
  <2>1. IsFiniteSet(DOMAIN d2.row)
    BY <1>6 DEF StoreHolds, RowsHold
  <2> QED
    BY <1>6, <1>8, <1>9, <2>1 DEF RowsHold
<1>11. MetaHolds(d2, n, a) /\ EdgesHold(d2, n)
  BY <1>5, <1>6 DEF StoreHolds, MetaHolds, EdgesHold
<1> QED
  BY <1>3, <1>5, <1>6, <1>10, <1>11 DEF StoreHolds, d2

\* The constraints allow a patch of the body, and of the project if there is one.
LEMMA PatchAllowed ==
  ASSUME NEW d, NEW n, NEW a, StoreHolds(d, n, a), NEW i \in DOMAIN d.row,
         NEW p, DOMAIN p \subseteq DOMAIN d.row[i] \cap {"body", "project"},
         "body" \in DOMAIN p => p["body"] \in Body,
         "project" \in DOMAIN p =>
           /\ p["project"] \in OptId /\ d.row[i].table # "experiment"
           /\ p["project"] # None => IsA(d, p["project"], "project")
  PROVE  CanUpdate(d, i, p)
<1> DEFINE r == d.row[i]
           q == Patched(r, p)
<1>1. r \in Row /\ LinksHold(d, r) /\ KeyFree(d, i, r)
  BY DEF StoreHolds, RowsHold, Consistent, Allowed
<1>2. /\ DOMAIN q = DOMAIN r /\ q.table = r.table
      /\ \A c \in DOMAIN r \ DOMAIN p : q[c] = r[c]
      /\ \A c \in DOMAIN p : q[c] = p[c]
  BY <1>1, PatchedRow
<1>3. r.table = "ref" => "citekey" \in DOMAIN r
  BY <1>1, RowParts
<1> HIDE DEF q
<1>4. KeyFree(d, i, q)
  <2>1. r.table = "ref" => q.citekey = r.citekey
    BY <1>2, <1>3
  <2> QED
    BY <1>1, <1>2, <2>1 DEF KeyFree
<1>5. LinksHold(d, q)
  <2> SUFFICES ASSUME NEW f \in Links(q)
               PROVE  IF q[f] = None THEN q.table # "experiment" ELSE IsA(d, q[f], f)
    BY DEF LinksHold
  <2>1. f \in Links(r)
    BY <1>2 DEF Links
  <2>2. CASE f \in DOMAIN p
    <3>1. f = "project" /\ q[f] = p["project"]
      BY <1>2, <2>1, <2>2 DEF Links
    <3> QED
      BY <1>2, <2>2, <3>1
  <2>3. CASE f \notin DOMAIN p
    <3>1. q[f] = r[f]
      BY <1>2, <2>1, <2>3 DEF Links
    <3> QED
      BY <1>1, <1>2, <2>1, <3>1 DEF LinksHold
  <2> QED
    BY <2>2, <2>3
<1> QED
  BY <1>4, <1>5 DEF CanUpdate, Exists, Allowed, q

\* A row of an adapter goes: nothing refers to it, so nothing else changes.
LEMMA DeleteHolds ==
  ASSUME NEW d, NEW n \in Id, NEW a, StoreHolds(d, n, a), NEW i \in Id, native < i
  PROVE  LET d2 == Delete(d, i) IN
           /\ d2.row = Drop(d.row, {i}) /\ d2.edge = d.edge /\ d2.tag = d.tag /\ d2.meta = d.meta
           /\ StoreHolds(d2, n, a)
<1>1. d.row \in [DOMAIN d.row -> Row] /\ i \in Nat /\ i # project /\ i # None
  <2>1. d.row \in [DOMAIN d.row -> Row]
    BY DEF StoreHolds, RowsHold
  <2>2. i \in Nat /\ i # None
    BY Numbers
  <2>3. i # project
    BY <2>2, Numbers
  <2> QED
    BY <2>1, <2>2, <2>3
<1>2. ASSUME NEW j \in DOMAIN d.row, NEW f \in Links(d.row[j]) PROVE d.row[j][f] # i
  <2>1. d.row[j] \in Row /\ LinksHold(d, d.row[j])
    BY <1>1 DEF StoreHolds, RowsHold, Consistent, Allowed
  <2>2. CASE f = "project"
    <3>1. ~IsA(d, i, "project")
      BY <1>1 DEF StoreHolds, RowsHold, IsA, Exists
    <3> QED
      BY <1>1, <2>1, <2>2, <3>1 DEF LinksHold
  <2>3. CASE f \in {"note", "ref"}
    <3>1. d.row[j].table = "flashcard"
      BY <2>1, <2>3, RowParts DEF Links
    <3>2. d.row[j].note = None /\ d.row[j].ref = None
      BY <3>1 DEF StoreHolds, RowsHold
    <3> QED
      BY <1>1, <2>3, <3>2
  <2> QED
    BY <2>2, <2>3 DEF Links
<1> DEFINE taken == {i} \cup {e \in Rows(d, "experiment") : d.row[e].project = i}
           rest == Drop(d.row, taken)
           Unlinked(r) == [f \in DOMAIN r |-> IF f \in Links(r) /\ r[f] = i THEN None ELSE r[f]]
           rows == [j \in DOMAIN rest |-> Unlinked(rest[j])]
           d2 == Delete(d, i)
<1>3. taken = {i}
  <2>1. ASSUME NEW e \in Rows(d, "experiment") PROVE d.row[e].project # i
    <3>1. e \in DOMAIN d.row /\ d.row[e] \in Row /\ d.row[e].table = "experiment"
      BY <1>1 DEF Rows
    <3>2. "project" \in Links(d.row[e])
      BY <3>1, RowParts DEF Links
    <3> QED
      BY <1>2, <3>1, <3>2
  <2> QED
    BY <2>1
<1>4. d2 = [row |-> rows, edge |-> d.edge, tag |-> d.tag, meta |-> d.meta]
  <2>1. \A R : [d EXCEPT !.row = R] = [row |-> R, edge |-> d.edge, tag |-> d.tag, meta |-> d.meta]
    BY DEF StoreHolds, IsStore
  <2>2. d2 = [d EXCEPT !.row = rows]
    BY DEF Delete
  <2> QED
    BY <2>1, <2>2
<1>5. rows = Drop(d.row, {i})
  <2>1. rest = [j \in DOMAIN d.row \ {i} |-> d.row[j]]
    BY <1>3 DEF Drop
  <2>2. ASSUME NEW j \in DOMAIN d.row \ {i} PROVE Unlinked(rest[j]) = d.row[j]
    <3>1. rest[j] = d.row[j] /\ d.row[j] \in Row
      BY <1>1, <2>1
    <3>2. \A f \in Links(d.row[j]) : d.row[j][f] # i
      BY <1>2
    <3>3. d.row[j] = [f \in DOMAIN d.row[j] |-> d.row[j][f]]
      BY <3>1, RowParts
    <3> QED
      BY <3>1, <3>2, <3>3
  <2> HIDE DEF rest, Unlinked
  <2>3. DOMAIN rest = DOMAIN d.row \ {i}
    BY <2>1
  <2> QED
    BY <2>2, <2>3 DEF Drop
<1> HIDE DEF d2, rows, rest, taken, Unlinked
<1>6. d2.row = Drop(d.row, {i}) /\ d2.edge = d.edge /\ d2.tag = d.tag /\ d2.meta = d.meta /\ IsStore(d2)
  BY <1>4, <1>5 DEF IsStore
<1>7. /\ DOMAIN d2.row = DOMAIN d.row \ {i} /\ d2.row \in [DOMAIN d2.row -> Row]
      /\ \A j \in DOMAIN d2.row : d2.row[j] = d.row[j]
  BY <1>1, <1>6 DEF Drop
<1>8. Consistent(d2)
  <2> SUFFICES ASSUME NEW j \in DOMAIN d2.row PROVE Allowed(d2, j, d.row[j])
    BY <1>7 DEF Consistent
  <2>1. j \in DOMAIN d.row /\ LinksHold(d, d.row[j]) /\ KeyFree(d, j, d.row[j])
    BY <1>7 DEF StoreHolds, RowsHold, Consistent, Allowed
  <2>2. LinksHold(d2, d.row[j])
    <3>1. \A f \in Links(d.row[j]) : d.row[j][f] # i
      BY <1>2, <2>1
    <3> QED
      BY <1>7, <2>1, <3>1, LinksStay
  <2>3. KeyFree(d2, j, d.row[j])
    BY <1>7, <2>1 DEF KeyFree, Rows
  <2> QED
    BY <2>2, <2>3 DEF Allowed
<1>9. RowsHold(d2, n)
  <2>1. IsFiniteSet(DOMAIN d2.row)
    BY <1>7, FS_Subset DEF StoreHolds, RowsHold
  <2>2. ASSUME NEW j \in DOMAIN d2.row
        PROVE  /\ j \in Id /\ j < n
               /\ d2.row[j].table = "project" <=> j = project
               /\ d2.row[j].table = "flashcard" => d2.row[j].note = None /\ d2.row[j].ref = None
    <3>1. j \in DOMAIN d.row /\ d2.row[j] = d.row[j]
      BY <1>7
    <3> QED
      BY <3>1 DEF StoreHolds, RowsHold
  <2> QED
    BY <1>7, <1>8, <2>1, <2>2 DEF RowsHold
<1>10. MetaHolds(d2, n, a) /\ EdgesHold(d2, n)
  BY <1>6, <1>7 DEF StoreHolds, MetaHolds, EdgesHold
<1> QED
  BY <1>6, <1>9, <1>10 DEF StoreHolds, d2

\* New tags change no table but their own,
LEMMA TagsHold ==
  ASSUME NEW d, NEW n \in Id, NEW a, StoreHolds(d, n, a), NEW i \in Id, NEW v
  PROVE  LET t == SetTags(d, i, v)
         IN  t.row = d.row /\ t.edge = d.edge /\ t.meta = d.meta /\ StoreHolds(t, n, a)
<1> DEFINE t == SetTags(d, i, v)
<1>1. t = [row |-> d.row, edge |-> d.edge, tag |-> Put(d.tag, i, v), meta |-> d.meta]
  BY TagsIs DEF StoreHolds
<1> HIDE DEF t
<1>2. t.row = d.row /\ t.edge = d.edge /\ t.meta = d.meta /\ t.tag = Put(d.tag, i, v) /\ IsStore(t)
  BY <1>1 DEF IsStore
<1>3. DOMAIN t.tag \subseteq Id
  <2>1. DOMAIN t.tag = DOMAIN d.tag \cup {i}
    BY <1>2 DEF Put
  <2> QED
    BY <2>1 DEF StoreHolds, EdgesHold
<1>4. RowsHold(t, n)
  <2>1. Consistent(t) <=> Consistent(d)
    BY <1>2 DEF Consistent, Allowed, LinksHold, KeyFree, IsA, Exists, Rows
  <2> QED
    BY <1>2, <2>1 DEF StoreHolds, RowsHold
<1>5. MetaHolds(t, n, a) /\ EdgesHold(t, n)
  BY <1>2, <1>3 DEF StoreHolds, MetaHolds, EdgesHold
<1> QED
  BY <1>2, <1>4, <1>5 DEF StoreHolds, t

\* and the metadata of one row goes without the others.
LEMMA ClearHolds ==
  ASSUME NEW d, NEW n \in Id, NEW a, StoreHolds(d, n, a), NEW i \in Id
  PROVE  LET t == ClearMeta(d, i)
         IN  t.row = d.row /\ t.edge = d.edge /\ t.meta = Drop(d.meta, {i}) /\ StoreHolds(t, n, a)
<1> DEFINE t == ClearMeta(d, i)
<1>1. t = [row |-> d.row, edge |-> d.edge, tag |-> d.tag, meta |-> Drop(d.meta, {i})]
  BY ClearIs DEF StoreHolds
<1> HIDE DEF t
<1>2. t.row = d.row /\ t.edge = d.edge /\ t.tag = d.tag /\ t.meta = Drop(d.meta, {i}) /\ IsStore(t)
  BY <1>1 DEF IsStore
<1>3. DOMAIN t.meta = DOMAIN d.meta \ {i} /\ \A j \in DOMAIN t.meta : t.meta[j] = d.meta[j]
  BY <1>2 DEF Drop
<1>4. RowsHold(t, n)
  <2>1. Consistent(t) <=> Consistent(d)
    BY <1>2 DEF Consistent, Allowed, LinksHold, KeyFree, IsA, Exists, Rows
  <2> QED
    BY <1>2, <2>1 DEF StoreHolds, RowsHold
<1>5. MetaHolds(t, n, a)
  <2>1. IsFiniteSet(DOMAIN t.meta)
    BY <1>3, FS_Subset DEF StoreHolds, MetaHolds
  <2>2. t.meta \in [DOMAIN t.meta -> SyncMetadata]
    <3>1. d.meta \in [DOMAIN d.meta -> SyncMetadata]
      BY DEF StoreHolds, MetaHolds
    <3> QED
      BY <1>2, <3>1 DEF Drop
  <2> QED
    BY <1>2, <1>3, <2>1, <2>2 DEF StoreHolds, MetaHolds
<1>6. EdgesHold(t, n)
  BY <1>2 DEF StoreHolds, EdgesHold
<1> QED
  BY <1>2, <1>4, <1>5, <1>6 DEF StoreHolds, t

\* The metadata of a row of the adapter's.
LEMMA MetaIsSet ==
  ASSUME NEW d, NEW n \in Id, NEW a, StoreHolds(d, n, a), NEW i \in Id, native < i, i < n,
         NEW m \in SyncMetadata, m.provider = a, i \in DOMAIN d.row => d.row[i].table = TableOf[a]
  PROVE  LET d2 == SetMeta(d, i, m)
         IN  d2.row = d.row /\ d2.edge = d.edge /\ d2.meta = Put(d.meta, i, m) /\ StoreHolds(d2, n, a)
<1> DEFINE t == SetMeta(d, i, m)
<1>1. t = [row |-> d.row, edge |-> d.edge, tag |-> d.tag, meta |-> Put(d.meta, i, m)]
  BY MetaIs DEF StoreHolds
<1> HIDE DEF t
<1>2. t.row = d.row /\ t.edge = d.edge /\ t.tag = d.tag /\ t.meta = Put(d.meta, i, m) /\ IsStore(t)
  BY <1>1 DEF IsStore
<1>3. /\ DOMAIN t.meta = DOMAIN d.meta \cup {i} /\ t.meta[i] = m
      /\ \A j \in DOMAIN d.meta \ {i} : t.meta[j] = d.meta[j]
  BY <1>2 DEF Put
<1>4. RowsHold(t, n)
  <2>1. Consistent(t) <=> Consistent(d)
    BY <1>2 DEF Consistent, Allowed, LinksHold, KeyFree, IsA, Exists, Rows
  <2> QED
    BY <1>2, <2>1 DEF StoreHolds, RowsHold
<1>5. MetaHolds(t, n, a)
  <2>1. IsFiniteSet(DOMAIN t.meta)
    BY <1>3, FS_AddElement DEF StoreHolds, MetaHolds
  <2>2. t.meta \in [DOMAIN t.meta -> SyncMetadata]
    <3>1. d.meta \in [DOMAIN d.meta -> SyncMetadata]
      BY DEF StoreHolds, MetaHolds
    <3> QED
      BY <1>2, <3>1 DEF Put
  <2>3. ASSUME NEW j \in DOMAIN t.meta
        PROVE  /\ j \in Id /\ native < j /\ j < n /\ t.meta[j].provider = a
               /\ j \in DOMAIN t.row => t.row[j].table = TableOf[a]
    <3>1. CASE j = i
      BY <1>2, <1>3, <3>1
    <3>2. CASE j # i
      <4>1. j \in DOMAIN d.meta /\ t.meta[j] = d.meta[j]
        BY <1>3, <3>2
      <4> QED
        BY <1>2, <4>1 DEF StoreHolds, MetaHolds
    <3> QED
      BY <3>1, <3>2
  <2> QED
    BY <2>1, <2>2, <2>3 DEF MetaHolds
<1>6. EdgesHold(t, n)
  BY <1>2 DEF StoreHolds, EdgesHold
<1> QED
  BY <1>2, <1>4, <1>5, <1>6 DEF StoreHolds, t

\* The edge of a reference's note, which has none yet.
LEMMA EdgeIsAdded ==
  ASSUME NEW d, NEW n \in Id, NEW a, StoreHolds(d, n, a), NEW i \in Id, NEW k \in Id, native < k, k < n,
         Incoming(d, i, "scaffolded_from") = {}
  PROVE  LET d2 == AddRelation(d, ScaffoldEdge(k, i))
         IN  d2.row = d.row /\ d2.edge = d.edge \cup {ScaffoldEdge(k, i)} /\ d2.meta = d.meta /\ StoreHolds(d2, n, a)
<1> DEFINE e == ScaffoldEdge(k, i)
           t == AddRelation(d, e)
<1>1. t = [row |-> d.row, edge |-> d.edge \cup {e}, tag |-> d.tag, meta |-> d.meta]
  BY RelationIs DEF StoreHolds
<1>2. e \in Relation /\ e.from = k /\ e.to = i /\ e.kind = "scaffolded_from"
  BY DEF ScaffoldEdge, Relation
<1> HIDE DEF t, e
<1>3. t.row = d.row /\ t.edge = d.edge \cup {e} /\ t.tag = d.tag /\ t.meta = d.meta /\ IsStore(t)
  BY <1>1 DEF IsStore
<1>4. RowsHold(t, n)
  <2>1. Consistent(t) <=> Consistent(d)
    BY <1>3 DEF Consistent, Allowed, LinksHold, KeyFree, IsA, Exists, Rows
  <2> QED
    BY <1>3, <2>1 DEF StoreHolds, RowsHold
<1>5. MetaHolds(t, n, a)
  BY <1>3 DEF StoreHolds, MetaHolds
<1>6. EdgesHold(t, n)
  <2>1. IsFiniteSet(t.edge) /\ t.edge \subseteq Relation /\ DOMAIN t.tag \subseteq Id
    BY <1>2, <1>3, FS_AddElement DEF StoreHolds, EdgesHold
  <2>2. \A f \in d.edge : f.to # i /\ native < f.from /\ f.from < n /\ f.kind = "scaffolded_from"
    BY DEF StoreHolds, EdgesHold, Incoming
  <2>3. \A f, g \in d.edge : f.to = g.to => f = g
    BY DEF StoreHolds, EdgesHold
  <2> QED
    BY <1>2, <1>3, <2>1, <2>2, <2>3 DEF EdgesHold
<1> QED
  BY <1>3, <1>4, <1>5, <1>6 DEF StoreHolds, t, e

\* Numbers that have a bound have a greatest one.
LEMMA GreatestNumber ==
  ASSUME NEW T \in SUBSET Nat, T # {}, NEW b \in Nat, \A m \in T : m <= b
  PROVE  \E k \in T : \A m \in T : m <= k
<1> DEFINE U == {c \in Nat : \A m \in T : m <= c}
<1>1. U \in SUBSET Nat /\ U # {}
  OBVIOUS
<1>2. PICK k \in U : \A c \in U : k <= c
  BY <1>1, LeastNumber
<1>3. k \in T
  <2> SUFFICES ASSUME k \notin T PROVE FALSE
    OBVIOUS
  <2>1. \A m \in T : m \in Nat /\ m < k
    BY <1>2
  <2>2. k # 0
    <3>1. PICK m \in T : TRUE
      OBVIOUS
    <3> QED
      BY <2>1, <3>1
  <2>3. k - 1 \in U
    BY <1>2, <2>1, <2>2
  <2> QED
    BY <1>2, <2>3
<1> QED
  BY <1>2, <1>3

\* The rows an adapter finds for its items: for each the newest of those with its external id.
LEMMA MetaOfHolds ==
  ASSUME NEW d, NEW n \in Id, NEW a, MetaHolds(d, n, a)
  PROVE  /\ DOMAIN MetaOf(d, a) = {d.meta[i].ext : i \in DOMAIN d.meta}
         /\ \A x \in DOMAIN MetaOf(d, a) :
              /\ MetaOf(d, a)[x] \in DOMAIN d.meta /\ d.meta[MetaOf(d, a)[x]].ext = x
              /\ \A i \in DOMAIN d.meta : d.meta[i].ext = x => i <= MetaOf(d, a)[x]
         /\ LeftHolds(MetaOf(d, a), d)
<1> DEFINE mine == {i \in DOMAIN d.meta : d.meta[i].provider = a}
           Newest(x) == CHOOSE i \in mine : d.meta[i].ext = x /\ \A o \in mine : d.meta[o].ext = x => o <= i
<1>1. mine = DOMAIN d.meta
  BY DEF MetaHolds
<1>2. MetaOf(d, a) = [x \in {d.meta[i].ext : i \in DOMAIN d.meta} |-> Newest(x)]
  BY <1>1 DEF MetaOf
<1>3. ASSUME NEW x \in {d.meta[i].ext : i \in DOMAIN d.meta}
      PROVE  Newest(x) \in mine /\ d.meta[Newest(x)].ext = x /\ \A o \in mine : d.meta[o].ext = x => o <= Newest(x)
  <2> DEFINE T == {i \in mine : d.meta[i].ext = x}
  <2>1. T \in SUBSET Nat /\ T # {} /\ n \in Nat /\ \A m \in T : m <= n
    <3>1. \A m \in T : m \in Id /\ m < n
      BY <1>1 DEF MetaHolds
    <3>2. Id \subseteq Nat /\ n \in Nat
      BY Numbers
    <3>3. T # {}
      BY <1>1
    <3>4. ASSUME NEW m \in T PROVE m \in Nat /\ m <= n
      <4>1. m \in Nat /\ m < n
        BY <3>1, <3>2
      <4> QED
        BY <3>2, <4>1
    <3> QED
      BY <3>2, <3>3, <3>4
  <2>2. PICK k \in T : \A m \in T : m <= k
    BY <2>1, GreatestNumber
  <2> QED
    BY <2>2
<1> HIDE DEF Newest
<1>4. DOMAIN MetaOf(d, a) = {d.meta[i].ext : i \in DOMAIN d.meta} /\ \A x \in DOMAIN MetaOf(d, a) : MetaOf(d, a)[x] = Newest(x)
  BY <1>2
<1>5. \A x \in DOMAIN MetaOf(d, a) :
        /\ MetaOf(d, a)[x] \in DOMAIN d.meta /\ d.meta[MetaOf(d, a)[x]].ext = x
        /\ \A i \in DOMAIN d.meta : d.meta[i].ext = x => i <= MetaOf(d, a)[x]
  BY <1>1, <1>3, <1>4
<1>6. DOMAIN MetaOf(d, a) \subseteq Ext
  <2>1. \A i \in DOMAIN d.meta : d.meta[i].ext \in Ext
    BY DEF MetaHolds, SyncMetadata
  <2> QED
    BY <1>4, <2>1
<1>7. MetaOf(d, a) \in [DOMAIN MetaOf(d, a) -> Id]
  <2>1. \A i \in DOMAIN d.meta : i \in Id
    BY DEF MetaHolds
  <2> QED
    BY <1>2, <1>5, <2>1
<1> QED
  BY <1>4, <1>5, <1>6, <1>7 DEF LeftHolds

\* The note of a reference, if one is there.
LEMMA ScaffoldHolds ==
  ASSUME NEW d, NEW n \in Id, EdgesHold(d, n), NEW i \in Id
  PROVE  /\ Scaffold(d, i) = None => Incoming(d, i, "scaffolded_from") = {}
         /\ Scaffold(d, i) # None => \E e \in d.edge : e.from = Scaffold(d, i) /\ e.to = i
<1> DEFINE notes == {e.from : e \in Incoming(d, i, "scaffolded_from")}
<1>1. notes \subseteq Id /\ None \notin Id /\ Id \subseteq Nat
  BY Numbers DEF EdgesHold, Relation, Incoming
<1>2. CASE notes = {}
  <2>1. Incoming(d, i, "scaffolded_from") = {}
    BY <1>2
  <2>2. Scaffold(d, i) = None
    BY <1>2 DEF Scaffold
  <2> QED
    BY <2>1, <2>2
<1>3. CASE notes # {}
  <2>1. \E k \in notes : \A m \in notes : k <= m
    BY <1>1, <1>3, LeastNumber
  <2>2. Scaffold(d, i) = CHOOSE k \in notes : \A m \in notes : k <= m
    BY <1>3 DEF Scaffold
  <2>3. Scaffold(d, i) \in notes
    BY <2>1, <2>2
  <2>4. Scaffold(d, i) # None
    BY <1>1, <2>3
  <2> QED
    BY <2>3, <2>4 DEF Incoming
<1> QED
  BY <1>2, <1>3

\* The plans, call by call.
LEMMA PlanSteps ==
  ASSUME NEW s \in Plans
  PROVE  /\ s \in Seq(Call) /\ Head(s) \in Call
         /\ Head(s) = "tags" => Tail(s) \in {<<"meta">>, <<"note", "meta">>} /\ Tail(s) # <<>>
         /\ Head(s) = "note" => s = <<"note", "meta">> /\ Tail(s) = <<"meta">> /\ Tail(s) # <<>>
         /\ Head(s) = "refresh" => s = <<"refresh", "meta">> /\ Tail(s) = <<"meta">> /\ Tail(s) # <<>>
         /\ Head(s) = "draft" => s = <<"draft", "meta">> /\ Tail(s) = <<"meta">> /\ Tail(s) # <<>>
         /\ Head(s) = "edge" => s = <<"edge", "meta">> /\ Tail(s) = <<"meta">> /\ Tail(s) # <<>>
         /\ Head(s) = "metrics" => Tail(s) = <<"meta">> /\ Tail(s) # <<>>
         /\ Head(s) = "meta" => s = <<"meta">> /\ Tail(s) = <<>>
         /\ Head(s) = "clear" => s = <<"clear">> /\ Tail(s) = <<>>
<1>1. ASSUME NEW u \in Call
      PROVE  <<u>> \in Seq(Call) /\ Head(<<u>>) = u /\ Tail(<<u>>) = <<>>
  OBVIOUS
<1>2. ASSUME NEW u \in Call, NEW v \in Call
      PROVE  /\ <<u, v>> \in Seq(Call) /\ Head(<<u, v>>) = u /\ Tail(<<u, v>>) = <<v>> /\ <<v>> # <<>>
  OBVIOUS
<1>3. ASSUME NEW u \in Call, NEW v \in Call, NEW w \in Call
      PROVE  /\ <<u, v, w>> \in Seq(Call) /\ Head(<<u, v, w>>) = u /\ Tail(<<u, v, w>>) = <<v, w>> /\ <<v, w>> # <<>>
  OBVIOUS
<1>4. {"tags", "note", "refresh", "draft", "edge", "metrics", "meta", "clear"} = Call
  BY DEF Call
<1>5. CASE s = <<"meta">>
  <2>1. s \in Seq(Call) /\ Head(s) = "meta" /\ Tail(s) = <<>>
    BY <1>1, <1>4, <1>5
  <2> QED
    BY <1>4, <1>5, <2>1
<1>6. CASE s = <<"clear">>
  <2>1. s \in Seq(Call) /\ Head(s) = "clear" /\ Tail(s) = <<>>
    BY <1>1, <1>4, <1>6
  <2> QED
    BY <1>4, <1>6, <2>1
<1>7. CASE s = <<"tags", "meta">>
  <2>1. s \in Seq(Call) /\ Head(s) = "tags" /\ Tail(s) = <<"meta">> /\ <<"meta">> # <<>>
    BY <1>2, <1>4, <1>7
  <2> QED
    BY <1>4, <2>1
<1>8. CASE s = <<"tags", "note", "meta">>
  <2>1. s \in Seq(Call) /\ Head(s) = "tags" /\ Tail(s) = <<"note", "meta">> /\ <<"note", "meta">> # <<>>
    BY <1>3, <1>4, <1>8
  <2> QED
    BY <1>4, <2>1
<1>9. CASE s = <<"note", "meta">>
  <2>1. s \in Seq(Call) /\ Head(s) = "note" /\ Tail(s) = <<"meta">> /\ <<"meta">> # <<>>
    BY <1>2, <1>4, <1>9
  <2> QED
    BY <1>4, <1>9, <2>1
<1>10. CASE s = <<"edge", "meta">>
  <2>1. s \in Seq(Call) /\ Head(s) = "edge" /\ Tail(s) = <<"meta">> /\ <<"meta">> # <<>>
    BY <1>2, <1>4, <1>10
  <2> QED
    BY <1>4, <1>10, <2>1
<1>11. CASE s = <<"metrics", "meta">>
  <2>1. s \in Seq(Call) /\ Head(s) = "metrics" /\ Tail(s) = <<"meta">> /\ <<"meta">> # <<>>
    BY <1>2, <1>4, <1>11
  <2> QED
    BY <1>4, <2>1
<1>12. CASE s = <<"refresh", "meta">>
  <2>1. s \in Seq(Call) /\ Head(s) = "refresh" /\ Tail(s) = <<"meta">> /\ <<"meta">> # <<>>
    BY <1>2, <1>4, <1>12
  <2> QED
    BY <1>4, <1>12, <2>1
<1>13. CASE s = <<"draft", "meta">>
  <2>1. s \in Seq(Call) /\ Head(s) = "draft" /\ Tail(s) = <<"meta">> /\ <<"meta">> # <<>>
    BY <1>2, <1>4, <1>13
  <2> QED
    BY <1>4, <1>13, <2>1
<1> QED
  BY <1>5, <1>6, <1>7, <1>8, <1>9, <1>10, <1>11, <1>12, <1>13 DEF Plans

\* None of them is empty, and what matters of them shows in their first call.
LEMMA PlansFilled ==
  /\ \A s \in Plans : s # <<>>
  /\ Head(<<"edge", "meta">>) = "edge" /\ Head(<<"clear">>) = "clear" /\ Head(<<"meta">>) = "meta"
  /\ Head(<<"refresh", "meta">>) = "refresh" /\ Head(<<"draft", "meta">>) = "draft"
<1>1. \A u : <<u>> # <<>> /\ Head(<<u>>) = u
  OBVIOUS
<1>2. \A u, v : <<u, v>> # <<>> /\ Head(<<u, v>>) = u
  OBVIOUS
<1>3. \A u, v, w : <<u, v, w>> # <<>>
  OBVIOUS
<1> QED
  BY <1>1, <1>2, <1>3 DEF Plans

\* No two plans that matter are alike.
LEMMA PlansDiffer ==
  /\ {<<"meta">>, <<"note", "meta">>, <<"tags", "meta">>, <<"tags", "note", "meta">>, <<"metrics", "meta">>} \subseteq PlainPlans
  /\ <<"meta">> # <<"refresh", "meta">> /\ <<"meta">> # <<"draft", "meta">>
  /\ <<"meta">> # <<"edge", "meta">> /\ <<"meta">> # <<"clear">>
  /\ <<"clear">> # <<"refresh", "meta">> /\ <<"clear">> # <<"draft", "meta">> /\ <<"clear">> # <<"edge", "meta">>
  /\ <<"edge", "meta">> # <<"refresh", "meta">> /\ <<"edge", "meta">> # <<"draft", "meta">>
  /\ <<"refresh", "meta">> # <<"draft", "meta">> /\ <<"edge", "meta">> # <<"meta">>
  /\ <<"edge">> \o <<"meta">> = <<"edge", "meta">>
  /\ <<"refresh">> \o <<"meta">> = <<"refresh", "meta">>
  /\ <<"draft">> \o <<"meta">> = <<"draft", "meta">>
<1>1. \A u, v : Len(<<u>>) = 1 /\ Len(<<u, v>>) = 2 /\ <<u>>[1] = u /\ <<u, v>>[1] = u
  OBVIOUS
<1>2. \A u, v, w : Len(<<u, v, w>>) = 3
  OBVIOUS
<1>3. ASSUME NEW u \in {"edge", "refresh", "draft"} PROVE <<u>> \o <<"meta">> = <<u, "meta">>
  <2>1. <<u>> \in Seq({u, "meta"}) /\ <<"meta">> \in Seq({u, "meta"}) /\ <<u, "meta">> \in Seq({u, "meta"})
    OBVIOUS
  <2>2. Len(<<u>>) = 1 /\ Len(<<"meta">>) = 1 /\ Len(<<u, "meta">>) = 2
    OBVIOUS
  <2> DEFINE w == <<u>> \o <<"meta">>
  <2>3. w \in Seq({u, "meta"}) /\ Len(w) = 2 /\ w[1] = u /\ w[2] = "meta"
    BY <2>1, <2>2
  <2> HIDE DEF w
  <2>4. w = <<u, "meta">>
    BY <2>1, <2>2, <2>3
  <2> QED
    BY <2>4 DEF w
<1>4. /\ <<"meta">> # <<"refresh", "meta">> /\ <<"meta">> # <<"draft", "meta">>
      /\ <<"meta">> # <<"edge", "meta">> /\ <<"clear">> # <<"edge", "meta">>
      /\ <<"clear">> # <<"refresh", "meta">> /\ <<"clear">> # <<"draft", "meta">>
  BY <1>1
<1>5. /\ <<"meta">> # <<"clear">> /\ <<"edge", "meta">> # <<"refresh", "meta">>
      /\ <<"edge", "meta">> # <<"draft", "meta">> /\ <<"refresh", "meta">> # <<"draft", "meta">>
  BY <1>1
<1>6. ASSUME NEW u \in {"note", "tags", "metrics"}
      PROVE  /\ <<u, "meta">> # <<"edge", "meta">> /\ <<u, "meta">> # <<"refresh", "meta">>
             /\ <<u, "meta">> # <<"draft", "meta">> /\ <<u, "meta">> # <<"clear">>
  BY <1>1
<1>7. /\ <<"tags", "note", "meta">> # <<"edge", "meta">> /\ <<"tags", "note", "meta">> # <<"clear">>
      /\ <<"tags", "note", "meta">> # <<"refresh", "meta">> /\ <<"tags", "note", "meta">> # <<"draft", "meta">>
  BY <1>1, <1>2
<1>8. {<<"meta">>, <<"tags", "note", "meta">>} \subseteq PlainPlans
  BY <1>4, <1>5, <1>7 DEF PlainPlans, Plans
<1>9. {<<"note", "meta">>, <<"tags", "meta">>, <<"metrics", "meta">>} \subseteq PlainPlans
  BY <1>6 DEF PlainPlans, Plans
<1> QED
  BY <1>3, <1>4, <1>5, <1>8, <1>9

\* A pass, field by field.
LEMMA PassForm ==
  ASSUME NEW p \in Pass
  PROVE  /\ p = [unlisted |-> p.unlisted, todo |-> p.todo, left |-> p.left, claimed |-> p.claimed, job |-> p.job,
                 clean |-> p.clean]
         /\ p.unlisted \subseteq Collection /\ p.todo \in Seq(Entry) /\ p.claimed \subseteq Key
         /\ p.job \in Job \cup {None} /\ p.clean \in BOOLEAN
         /\ p.left \in [DOMAIN p.left -> Id] /\ DOMAIN p.left \subseteq Ext
<1>1. /\ p = [unlisted |-> p.unlisted, todo |-> p.todo, left |-> p.left, claimed |-> p.claimed, job |-> p.job,
              clean |-> p.clean]
      /\ p.unlisted \subseteq Collection /\ p.todo \in Seq(Entry) /\ p.claimed \subseteq Key
      /\ p.job \in Job \cup {None} /\ p.clean \in BOOLEAN
  BY DEF Pass
<1>2. PICK S \in SUBSET Ext : p.left \in [S -> Id]
  BY DEF Pass
<1> QED
  BY <1>1, <1>2

\* And what is one.
LEMMA PassMade ==
  ASSUME NEW u \in SUBSET Collection, NEW t \in Seq(Entry), NEW l, l \in [DOMAIN l -> Id], DOMAIN l \subseteq Ext,
         NEW c \in SUBSET Key, NEW j \in Job \cup {None}, NEW k \in BOOLEAN
  PROVE  LET p == [unlisted |-> u, todo |-> t, left |-> l, claimed |-> c, job |-> j, clean |-> k]
         IN  p \in Pass /\ p # None
<1>1. l \in UNION {[S -> Id] : S \in SUBSET Ext}
  OBVIOUS
<1> QED
  BY <1>1, RecordAssumption DEF Pass

\* A job, field by field.
LEMMA JobForm ==
  ASSUME NEW j \in Job
  PROVE  /\ j = [ext |-> j.ext, id |-> j.id, project |-> j.project, note |-> j.note, ver |-> j.ver, mark |-> j.mark,
                 next |-> j.next]
         /\ j.ext \in Ext /\ j.id \in Id /\ j.project \in OptId /\ j.note \in OptId /\ j.ver \in Body /\ j.mark \in Body
         /\ j.next \in Seq(Call) /\ j # None
BY RecordAssumption DEF Job

\* An entry of a listing, field by field.
LEMMA EntryForm ==
  ASSUME NEW e \in Entry
  PROVE  /\ e.ext \in Ext /\ e.ver \in Body /\ e.mark \in Body /\ e.key \in Key \cup {None} /\ e.bad \in BOOLEAN
BY DEF Entry

\* What a source lists are entries, of the items that are there.
LEMMA ListedEntries ==
  ASSUME source \in [Ext -> Item \cup {None}], NEW cols
  PROVE  /\ Listed(cols) \in Seq(Entry)
         /\ Range(Listed(cols)) = {EntryOf(x) : x \in {y \in Ext : source[y] # None /\ CollectionOf[y] \in cols}}
<1> DEFINE Part(x) == IF source[x] # None /\ CollectionOf[x] \in cols THEN <<EntryOf(x)>> ELSE <<>>
           parts == [i \in DOMAIN ListingOrder |-> Part(ListingOrder[i])]
<1>1. ListingOrder \in Seq(Ext) /\ Range(ListingOrder) = Ext /\ DOMAIN ListingOrder = 1 .. Len(ListingOrder)
  <2>1. ListingOrder \in Seq(Ext) /\ ToSet(ListingOrder) = Ext
    BY MirrorAssumption
  <2> QED
    BY <2>1 DEF ToSet, Range
<1>2. ASSUME NEW x \in Ext, source[x] # None PROVE EntryOf(x) \in Entry
  <2>1. source[x] \in Item
    BY <1>2
  <2> QED
    BY <2>1 DEF EntryOf, Entry, Item
<1>3. ASSUME NEW x \in Ext
      PROVE  Part(x) \in Seq(Entry) /\ Range(Part(x)) = {EntryOf(y) : y \in {z \in {x} : source[z] # None /\ CollectionOf[z] \in cols}}
  <2>1. CASE source[x] # None /\ CollectionOf[x] \in cols
    <3>1. Part(x) = <<EntryOf(x)>> /\ EntryOf(x) \in Entry
      BY <1>2, <2>1
    <3> HIDE DEF Part
    <3>2. Range(<<EntryOf(x)>>) = {EntryOf(x)}
      BY DEF Range
    <3> QED
      BY <2>1, <3>1, <3>2
  <2>2. CASE ~(source[x] # None /\ CollectionOf[x] \in cols)
    <3>1. Part(x) = <<>>
      BY <2>2
    <3> HIDE DEF Part
    <3>2. Range(<<>>) = {} /\ <<>> \in Seq(Entry)
      BY DEF Range
    <3> QED
      BY <2>2, <3>1, <3>2
  <2> QED
    BY <2>1, <2>2
<1> HIDE DEF Part
<1>4. parts \in Seq(Seq(Entry)) /\ Len(parts) = Len(ListingOrder) /\ \A i \in 1 .. Len(parts) : parts[i] = Part(ListingOrder[i])
  <2>1. \A i \in 1 .. Len(ListingOrder) : Part(ListingOrder[i]) \in Seq(Entry)
    BY <1>1, <1>3
  <2>2. Len(ListingOrder) \in Nat
    BY <1>1
  <2> QED
    BY <1>1, <2>1, <2>2
<1>5. Listed(cols) = FlattenSeq(parts)
  BY DEF Listed, Part
<1> HIDE DEF parts
<1>6. Listed(cols) \in Seq(Entry) /\ Range(Listed(cols)) = UNION {Range(parts[i]) : i \in 1 .. Len(parts)}
  BY <1>4, <1>5, FlattenSeqRange
<1>7. UNION {Range(parts[i]) : i \in 1 .. Len(parts)} = UNION {Range(Part(x)) : x \in Ext}
  <2>1. \A i \in 1 .. Len(parts) : parts[i] = Part(ListingOrder[i]) /\ ListingOrder[i] \in Ext
    BY <1>1, <1>4
  <2>2. \A x \in Ext : \E i \in 1 .. Len(parts) : ListingOrder[i] = x
    BY <1>1, <1>4 DEF Range
  <2> QED
    BY <2>1, <2>2
<1>8. UNION {Range(Part(x)) : x \in Ext} = {EntryOf(x) : x \in {y \in Ext : source[y] # None /\ CollectionOf[y] \in cols}}
  BY <1>3
<1> QED
  BY <1>6, <1>7, <1>8

\* A file with an override is two entries of a calendar.
LEMMA TranslatedEntries ==
  ASSUME NEW s \in Seq(Entry)
  PROVE  Translate(s) \in Seq(Entry) /\ Range(Translate(s)) = Range(s)
<1> DEFINE Part(e) == IF e.ext \in Overridden THEN <<e, e>> ELSE <<e>>
           parts == [i \in 1 .. Len(s) |-> Part(s[i])]
<1>1. \A e \in Entry : Part(e) \in Seq(Entry) /\ Range(Part(e)) = {e}
  <2>1. \A e \in Entry : <<e>> \in Seq(Entry) /\ <<e, e>> \in Seq(Entry)
    OBVIOUS
  <2>2. \A e : Range(<<e>>) = {e} /\ Range(<<e, e>>) = {e}
    BY DEF Range
  <2> QED
    BY <2>1, <2>2
<1> HIDE DEF Part
<1>2. s \in Seq(Entry) /\ Len(s) \in Nat /\ DOMAIN s = 1 .. Len(s) /\ \A i \in 1 .. Len(s) : s[i] \in Entry
  OBVIOUS
<1>3. parts \in Seq(Seq(Entry)) /\ Len(parts) = Len(s) /\ \A i \in 1 .. Len(s) : parts[i] = Part(s[i])
  BY <1>1, <1>2
<1>4. Translate(s) = FlattenSeq(parts)
  BY DEF Translate, Part
<1> HIDE DEF parts
<1>5. Translate(s) \in Seq(Entry) /\ Range(Translate(s)) = UNION {Range(parts[i]) : i \in 1 .. Len(parts)}
  BY <1>3, <1>4, FlattenSeqRange
<1>6. UNION {Range(parts[i]) : i \in 1 .. Len(parts)} = {s[i] : i \in 1 .. Len(s)}
  <2>1. \A i \in 1 .. Len(s) : Range(parts[i]) = {s[i]}
    BY <1>1, <1>2, <1>3
  <2>2. Len(parts) = Len(s)
    BY <1>3
  <2>3. ASSUME NEW i \in 1 .. Len(s) PROVE s[i] \in UNION {Range(parts[j]) : j \in 1 .. Len(parts)}
    BY <2>1, <2>2
  <2>4. ASSUME NEW x \in UNION {Range(parts[j]) : j \in 1 .. Len(parts)} PROVE x \in {s[i] : i \in 1 .. Len(s)}
    <3>1. PICK j \in 1 .. Len(parts) : x \in Range(parts[j])
      BY <2>4
    <3>2. j \in 1 .. Len(s) /\ x = s[j]
      BY <2>1, <2>2, <3>1
    <3> QED
      BY <3>2
  <2> QED
    BY <2>3, <2>4
<1>7. Range(s) = {s[i] : i \in 1 .. Len(s)}
  BY <1>2 DEF Range
<1> QED
  BY <1>5, <1>6, <1>7

\* The calls of a library's item, put together.
LEMMA PlanConcats ==
  /\ <<"tags">> \o <<>> \o <<"meta">> = <<"tags", "meta">>
  /\ <<"tags">> \o <<"note">> \o <<"meta">> = <<"tags", "note", "meta">>
<1> DEFINE S == {"tags", "note", "meta"}
<1>1. /\ <<"tags">> \in Seq(S) /\ <<"note">> \in Seq(S) /\ <<"meta">> \in Seq(S) /\ <<>> \in Seq(S)
      /\ <<"tags", "meta">> \in Seq(S) /\ <<"tags", "note">> \in Seq(S)
  OBVIOUS
<1>2. \A u \in S : Len(<<u>>) = 1 /\ <<u>>[1] = u
  OBVIOUS
<1>3. \A u, v \in S : Len(<<u, v>>) = 2 /\ <<u, v>>[1] = u /\ <<u, v>>[2] = v
  OBVIOUS
<1>4. \A u, v, w \in S :
        <<u, v, w>> \in Seq(S) /\ Len(<<u, v, w>>) = 3 /\ <<u, v, w>>[1] = u /\ <<u, v, w>>[2] = v /\ <<u, v, w>>[3] = w
  OBVIOUS
<1>5. <<"tags">> \o <<>> = <<"tags">>
  BY <1>1
<1>6. <<"tags">> \o <<"meta">> = <<"tags", "meta">>
  <2> DEFINE w == <<"tags">> \o <<"meta">>
  <2>1. w \in Seq(S) /\ Len(w) = 2 /\ w[1] = "tags" /\ w[2] = "meta"
    BY <1>1, <1>2
  <2> HIDE DEF w
  <2>2. w = <<"tags", "meta">>
    BY <1>1, <1>3, <2>1
  <2> QED
    BY <2>2 DEF w
<1>7. <<"tags">> \o <<"note">> = <<"tags", "note">>
  <2> DEFINE w == <<"tags">> \o <<"note">>
  <2>1. w \in Seq(S) /\ Len(w) = 2 /\ w[1] = "tags" /\ w[2] = "note"
    BY <1>1, <1>2
  <2> HIDE DEF w
  <2>2. w = <<"tags", "note">>
    BY <1>1, <1>3, <2>1
  <2> QED
    BY <2>2 DEF w
<1>8. <<"tags", "note">> \o <<"meta">> = <<"tags", "note", "meta">>
  <2> DEFINE w == <<"tags", "note">> \o <<"meta">>
  <2>1. w \in Seq(S) /\ Len(w) = 3 /\ w[1] = "tags" /\ w[2] = "note" /\ w[3] = "meta"
    BY <1>1, <1>2, <1>3
  <2> HIDE DEF w
  <2>2. w = <<"tags", "note", "meta">>
    BY <1>4, <2>1
  <2> QED
    BY <2>2 DEF w
<1> QED
  BY <1>5, <1>6, <1>7, <1>8

\* The tables of the adapters.
LEMMA TablesOf ==
  ASSUME NEW a \in Provider
  PROVE  /\ a \in DOMAIN TableOf /\ TableOf[a] \in {"event", "ref", "flashcard", "experiment"}
         /\ a = "caldav" => TableOf[a] = "event"
         /\ a = "zotero" => TableOf[a] = "ref"
         /\ a = "ankiconnect" => TableOf[a] = "flashcard"
         /\ a \in Tracker <=> TableOf[a] = "experiment"
<1>1. a \in {"caldav", "zotero", "ankiconnect", "mlflow", "wandb"}
  BY MirrorAssumption
<1> QED
  BY <1>1 DEF TableOf, Tracker

\* A pass over a store stays one when the store's rows change in columns only.
LEMMA PassStays ==
  ASSUME NEW p, NEW d, NEW n, NEW a, PassHolds(p, d, n, a), NEW d2, Alike(d, d2)
  PROVE  PassHolds(p, d2, n, a)
<1>1. \A i : Exists(d2, i) <=> Exists(d, i)
  BY DEF Alike, Exists
<1>2. \A i, t : IsA(d2, i, t) <=> IsA(d, i, t)
  BY DEF Alike, IsA, Exists
<1>3. LeftHolds(p.left, d2)
  BY DEF Alike, PassHolds, LeftHolds
<1>4. Incoming(d2, p.job.id, "scaffolded_from") = Incoming(d, p.job.id, "scaffolded_from")
  BY DEF Alike, Incoming
<1>6. Scaffold(d2, p.job.id) = Scaffold(d, p.job.id)
  BY DEF Alike, Scaffold, Incoming
<1>5. ASSUME p.job # None PROVE JobHolds(p.job, d2, n, a) /\ JobCompletes(p.job, d2)
  <2>1. JobHolds(p.job, d, n, a) /\ JobCompletes(p.job, d)
    BY <1>5 DEF PassHolds
  <2>2. JobHolds(p.job, d2, n, a)
    BY <1>2, <2>1 DEF JobHolds, Alike
  <2>3. JobCompletes(p.job, d2)
    BY <1>1, <1>2, <1>4, <1>6, <2>1 DEF JobCompletes, Alike
  <2> QED
    BY <2>2, <2>3
<1> QED
  BY <1>3, <1>5 DEF PassHolds

\* And nothing is left behind.
LEMMA AlikeStrays ==
  ASSUME NEW d, NEW d2, NEW p, NEW p2, NEW a, Alike(d, d2), HandOf(p) \subseteq HandOf(p2)
  PROVE  NoNewStrays(d, p, d2, p2, a)
<1>1. \A t : Rows(d2, t) = Rows(d, t)
  BY DEF Alike, Rows
<1>2. \A i : Exists(d2, i) <=> Exists(d, i)
  BY DEF Alike, Exists
<1> QED
  BY <1>1, <1>2 DEF Alike, NoNewStrays, StrayRows, StrayMeta, StrayNotes

\* The world changes under a pass, which is no longer a clean one.
LEMMA DisturbedHolds ==
  ASSUME NEW p, NEW d, NEW n, NEW a, p # None => PassHolds(p, d, n, a),
         NEW q, q = IF p = None THEN None ELSE [p EXCEPT !.clean = FALSE]
  PROVE  (q # None => PassHolds(q, d, n, a)) /\ HandOf(q) = HandOf(p)
<1>1. CASE p = None
  BY <1>1
<1>2. CASE p # None
  <2>1. p \in Pass
    BY <1>2 DEF PassHolds
  <2>5. p = [unlisted |-> p.unlisted, todo |-> p.todo, left |-> p.left, claimed |-> p.claimed, job |-> p.job,
             clean |-> p.clean]
    BY <2>1, PassForm
  <2>2. q = [unlisted |-> p.unlisted, todo |-> p.todo, left |-> p.left, claimed |-> p.claimed, job |-> p.job,
             clean |-> FALSE]
    BY <1>2, <2>5
  <2>6. /\ p.unlisted \subseteq Collection /\ p.todo \in Seq(Entry) /\ p.claimed \subseteq Key
        /\ p.job \in Job \cup {None} /\ p.left \in [DOMAIN p.left -> Id] /\ DOMAIN p.left \subseteq Ext
    BY <2>1, PassForm
  <2>3. q \in Pass /\ q # None
    <3>1. p.unlisted \in SUBSET Collection /\ p.claimed \in SUBSET Key /\ FALSE \in BOOLEAN
      BY <2>6
    <3> HIDE <2>2
    <3>2. LET r == [unlisted |-> p.unlisted, todo |-> p.todo, left |-> p.left, claimed |-> p.claimed, job |-> p.job,
                    clean |-> FALSE]
          IN  r \in Pass /\ r # None
      BY <2>6, <3>1, PassMade
    <3> QED
      BY <2>2, <3>2
  <2>4. q.left = p.left /\ q.job = p.job
    BY <2>2
  <2> QED
    BY <1>2, <2>3, <2>4 DEF PassHolds, HandOf
<1> QED
  BY <1>1, <1>2

\* What the world and the counters are, after any step.
LEMMA WorldStep ==
  ASSUME WorldHolds, Next
  PROVE  WorldHolds' /\ adapter' = adapter
<1> USE Numbers
<1>1. ASSUME NEW x \in Ext, Change(x) PROVE WorldHolds' /\ adapter' = adapter
  <2>1. PICK k \in (IF adapter = "zotero" THEN {None} \cup Bbt ELSE {None}),
             b \in (IF adapter \in {"caldav", "ankiconnect"} THEN BOOLEAN ELSE {FALSE}),
             quiet \in (IF adapter \in Unmarked /\ source[x] # None THEN BOOLEAN ELSE {FALSE}) :
          source' = [source EXCEPT ![x] =
            [ver |-> edits', mark |-> IF quiet THEN source[x].mark ELSE edits', key |-> k, bad |-> b]]
    BY <1>1 DEF Change
  <2>2. k \in Key \cup {None} /\ b \in BOOLEAN /\ (quiet => source[x] # None)
    BY <2>1, MirrorAssumption
  <2>3. edits' \in 0 .. MaxEdits /\ edits' \in Body
    BY <1>1 DEF Change, Edited, WorldHolds
  <2>4. quiet => source[x].mark \in Body
    BY <2>2 DEF WorldHolds, Item
  <2>5. [ver |-> edits', mark |-> IF quiet THEN source[x].mark ELSE edits', key |-> k, bad |-> b] \in Item
    BY <2>2, <2>3, <2>4 DEF Item
  <2>6. source' \in [Ext -> Item \cup {None}]
    BY <2>1, <2>5 DEF WorldHolds
  <2> QED
    BY <1>1, <2>3, <2>6 DEF Change, WorldHolds
<1>2. ASSUME NEW x \in Ext, Vanish(x) PROVE WorldHolds' /\ adapter' = adapter
  BY <1>2 DEF Vanish, Edited, WorldHolds
<1>3. ASSUME NEW c \in Collection, Outage(c) PROVE WorldHolds' /\ adapter' = adapter
  BY <1>3 DEF Outage, Fault, WorldHolds
<1>9. ASSUME NEW c \in Collection, Recovery(c) PROVE WorldHolds' /\ adapter' = adapter
  BY <1>9 DEF Recovery, bounds, WorldHolds
<1>4. ASSUME NEW i \in Id, Attach(i) PROVE WorldHolds' /\ adapter' = adapter
  BY <1>4 DEF Attach, Edited, WorldHolds, world
<1>5. ASSUME Reload PROVE WorldHolds' /\ adapter' = adapter
  <2> DEFINE C == [enabled : BOOLEAN, wanted : SUBSET Collection, built : SUBSET Collection]
  <2>1. /\ adapter' = adapter /\ source' = source /\ down' = down /\ fresh' = fresh /\ edits' = edits /\ cancels' = cancels
        /\ faults < MaxFaults /\ faults' = faults + 1
    BY <1>5 DEF Reload, Fault
  <2>2. Disabled \in C /\ Disabled.built \subseteq Disabled.wanted
    BY DEF WorldHolds, Disabled
  <2>3. \A w \in SUBSET Collection : \A b \in SUBSET w : Enabled(w, b) \in C /\ Enabled(w, b).built \subseteq Enabled(w, b).wanted
    BY DEF Enabled
  <2>4. config' \in C /\ config'.built \subseteq config'.wanted
    <3>1. \A k \in CaldavReload : k \in C /\ k.built \subseteq k.wanted
      BY <2>2, <2>3 DEF CaldavReload, BuildCalendars
    <3>2. \A k \in ZoteroReload \cup AnkiReload : k \in C /\ k.built \subseteq k.wanted
      BY <2>2, <2>3 DEF ZoteroReload, AnkiReload
    <3>3. adapter \in {"caldav", "zotero", "ankiconnect"}
      <4>1. adapter \in {"caldav", "zotero", "ankiconnect", "mlflow", "wandb"}
        BY MirrorAssumption DEF WorldHolds
      <4> QED
        BY <1>5, <4>1 DEF Reload, Tracker
    <3>4. config' \in CaldavReload \cup (ZoteroReload \cup AnkiReload)
      BY <1>5, <3>3 DEF Reload
    <3> QED
      BY <3>1, <3>2, <3>4
  <2> QED
    BY <2>1, <2>4 DEF WorldHolds
<1>6. ASSUME Begin \/ ListCalendar \/ Finish \/ ApplyDelete PROVE WorldHolds' /\ adapter' = adapter
  <2>1. UNCHANGED <<world, fresh, bounds>>
    BY <1>6 DEF Begin, ListCalendar, Finish, ApplyDelete
  <2> QED
    BY <2>1 DEF WorldHolds, world, bounds
<1>7. ASSUME Apply \/ DoCall PROVE WorldHolds' /\ adapter' = adapter
  <2>1. UNCHANGED <<world, bounds>>
    BY <1>7 DEF Apply, DoCall
  <2>2. fresh' = fresh \/ (fresh' = fresh + 1 /\ fresh' \in Id)
    <3>1. CASE Apply
      BY <3>1 DEF Apply, ApplyInsert, ApplyUpdate
    <3>2. CASE DoCall
      BY <3>2 DEF DoCall, FindNote, DraftNote
    <3> QED
      BY <1>7, <3>1, <3>2
  <2>3. fresh' \in Id /\ native < fresh'
    BY <2>2 DEF WorldHolds
  <2> QED
    BY <2>1, <2>3 DEF WorldHolds, world, bounds
<1>8. ASSUME Cancel PROVE WorldHolds' /\ adapter' = adapter
  BY <1>8 DEF Cancel, Fault, WorldHolds, world
<1> QED
  BY <1>1, <1>2, <1>3, <1>4, <1>5, <1>6, <1>7, <1>8, <1>9 DEF Next, Sync

\* The store is as it was: nothing is left behind if nothing is dropped by the pass.
LEMMA SameStore ==
  ASSUME NEW d, NEW p, NEW p2, NEW a
  PROVE  RowsKept(d, p, d) /\ (HandOf(p) \subseteq HandOf(p2) => NoNewStrays(d, p, d, p2, a))
<1>1. RowsKept(d, p, d)
  BY DEF RowsKept
<1>2. Alike(d, d)
  BY DEF Alike
<1> QED
  BY <1>1, <1>2, AlikeStrays

\* Steps of the world.
LEMMA WorldUpholds ==
  ASSUME MirrorInv, Reload \/ (\E x \in Ext : Change(x) \/ Vanish(x)) \/ (\E c \in Collection : Outage(c) \/ Recovery(c))
  PROVE  Upholds
<1>1. StoreHolds(db, fresh, adapter) /\ (pass # None => PassHolds(pass, db, fresh, adapter))
  BY DEF MirrorInv
<1>2. db' = db /\ fresh' = fresh /\ (Disturbed \/ pass' = pass)
  BY DEF Reload, Change, Vanish, Outage, Recovery
<1>3. (pass' # None => PassHolds(pass', db, fresh, adapter)) /\ HandOf(pass') = HandOf(pass)
  <2>1. CASE pass' = pass
    BY <1>1, <2>1
  <2>2. CASE Disturbed
    <3>1. pass' = IF pass = None THEN None ELSE [pass EXCEPT !.clean = FALSE]
      BY <2>2 DEF Disturbed
    <3> QED
      BY <1>1, <3>1, DisturbedHolds
  <2> QED
    BY <1>2, <2>1, <2>2
<1>4. NoNewStrays(db, pass, db, pass', adapter)
  BY <1>3, SameStore
<1> QED
  BY <1>1, <1>2, <1>3, <1>4 DEF Upholds

\* The user moves a row.
LEMMA AttachUpholds ==
  ASSUME MirrorInv, NEW i \in Id, Attach(i)
  PROVE  Upholds
<1>1. StoreHolds(db, fresh, adapter) /\ (pass # None => PassHolds(pass, db, fresh, adapter)) /\ fresh \in Id
  BY DEF MirrorInv, WorldHolds
<1>2. /\ Exists(db, i) /\ Exists(db, project) /\ db.row[i].table \notin {"project", "experiment"}
      /\ fresh' = fresh /\ pass' = pass
  BY DEF Attach
<1>3. PICK p \in {project, None} : db' = SetEntityProject(i, p)
  BY DEF Attach
<1>4. i \in DOMAIN db.row /\ db.row[i] \in Row /\ IsA(db, project, "project")
  BY <1>1, <1>2 DEF Exists, StoreHolds, RowsHold, IsA
<1>5. /\ db.row[i].table \in {"note", "ref", "flashcard", "event", "task"}
      /\ "project" \in DOMAIN db.row[i]
  <2>1. db.row[i].table \in EntityType /\ (db.row[i].table # "project" => "project" \in DOMAIN db.row[i])
    BY <1>4, RowParts
  <2> QED
    BY <1>2, <2>1 DEF EntityType
<1>6. PICK q : db' = Update(db, i, q) /\ DOMAIN q = {"project"} /\ q["project"] = p
  <2> DEFINE given == [project |-> p]
  <2>1. \A P \in {NotePatch(given), ReferencePatch(given), FlashcardPatch(given), EventPatch(given), TaskPatch(given)} :
          DOMAIN P = {"project"} /\ P["project"] = p
    BY PatchParts
  <2>2. \E P \in {NotePatch(given), ReferencePatch(given), FlashcardPatch(given), EventPatch(given), TaskPatch(given)} :
          db' = Update(db, i, P)
    BY <1>3, <1>5 DEF SetEntityProject
  <2> QED
    BY <2>1, <2>2
<1>7. p \in OptId /\ (p # None => IsA(db, p, "project"))
  BY <1>4, Numbers DEF OptId
<1>8. CanUpdate(db, i, q)
  BY <1>1, <1>2, <1>4, <1>5, <1>6, <1>7, PatchAllowed
<1>9. LET d2 == Update(db, i, q) IN
        /\ d2.edge = db.edge /\ d2.meta = db.meta /\ DOMAIN d2.row = DOMAIN db.row
        /\ \A j \in DOMAIN db.row : d2.row[j].table = db.row[j].table
        /\ StoreHolds(d2, fresh, adapter)
  BY <1>1, <1>2, <1>4, <1>5, <1>6, <1>7, <1>8, UpdateHolds
<1>10. Alike(db, db') /\ StoreHolds(db', fresh, adapter)
  BY <1>6, <1>9 DEF Alike
<1>11. pass # None => PassHolds(pass, db', fresh, adapter)
  BY <1>1, <1>10, PassStays
<1>12. NoNewStrays(db, pass, db', pass, adapter)
  BY <1>10, AlikeStrays
<1> QED
  BY <1>2, <1>10, <1>11, <1>12 DEF Upholds

\* A pass begins.
LEMMA BeginUpholds ==
  ASSUME MirrorInv, Begin
  PROVE  Upholds
<1>1. StoreHolds(db, fresh, adapter) /\ fresh \in Id /\ source \in [Ext -> Item \cup {None}]
      /\ config.built \in SUBSET Collection
  BY DEF MirrorInv, WorldHolds
<1>2. pass = None /\ db' = db /\ fresh' = fresh
  BY DEF Begin
<1>3. PICK u \in {config.built, {}}, t \in {<<>>, Listed(config.wanted)} : Start(u, t)
  BY DEF Begin, ZoteroRead, AnkiRead, MlflowRead, WandbRead
<1>4. u \in SUBSET Collection /\ t \in Seq(Entry)
  <2>1. Listed(config.wanted) \in Seq(Entry)
    BY <1>1, ListedEntries
  <2>2. <<>> \in Seq(Entry)
    OBVIOUS
  <2> QED
    BY <1>1, <1>3, <2>1, <2>2
<1>5. LeftHolds(MetaOf(db, adapter), db)
  BY <1>1, MetaOfHolds DEF StoreHolds
<1> DEFINE l == MetaOf(db, adapter)
           k == (config.built = config.wanted)
<1>6. l \in [DOMAIN l -> Id] /\ DOMAIN l \subseteq Ext
  BY <1>5 DEF LeftHolds
<1>7. pass' = [unlisted |-> u, todo |-> t, left |-> l, claimed |-> {}, job |-> None, clean |-> k]
  BY <1>3 DEF Start
<1>8. k \in BOOLEAN /\ {} \in SUBSET Key /\ None \in Job \cup {None}
  OBVIOUS
<1> HIDE DEF l, k
<1>9. LET r == [unlisted |-> u, todo |-> t, left |-> l, claimed |-> {}, job |-> None, clean |-> k]
      IN  r \in Pass /\ r # None
  BY <1>4, <1>6, <1>8, PassMade
<1>10. pass' \in Pass /\ pass' # None /\ pass'.left = l /\ pass'.job = None
  BY <1>7, <1>9
<1>11. PassHolds(pass', db, fresh, adapter)
  BY <1>5, <1>10 DEF PassHolds, l
<1>12. NoNewStrays(db, pass, db, pass', adapter)
  <2>1. HandOf(pass) = {}
    BY <1>2 DEF HandOf
  <2> QED
    BY <2>1, SameStore
<1> QED
  BY <1>1, <1>2, <1>11, <1>12 DEF Upholds

\* The next calendar is listed.
LEMMA ListUpholds ==
  ASSUME MirrorInv, ListCalendar
  PROVE  Upholds /\ RowsKept(db, pass, db')
<1>1. /\ StoreHolds(db, fresh, adapter) /\ source \in [Ext -> Item \cup {None}]
      /\ pass # None /\ pass.job = None /\ PassHolds(pass, db, fresh, adapter) /\ pass \in Pass
  BY DEF MirrorInv, WorldHolds, ListCalendar, Free, PassHolds
<1>2. db' = db /\ fresh' = fresh
  BY DEF ListCalendar
<1>3. PICK c \in pass.unlisted :
        pass' = [pass EXCEPT !.unlisted = @ \ {c},
                             !.todo = IF ListEntries(c) = None THEN <<>> ELSE Translate(ListEntries(c)),
                             !.clean = @ /\ ListEntries(c) # None]
  BY DEF ListCalendar
<1> DEFINE u == pass.unlisted \ {c}
           t == IF ListEntries(c) = None THEN <<>> ELSE Translate(ListEntries(c))
           k == (pass.clean /\ ListEntries(c) # None)
<1>4. t \in Seq(Entry)
  <2>1. CASE ListEntries(c) = None
    BY <2>1
  <2>2. CASE ListEntries(c) # None
    <3>1. ListEntries(c) = Listed({c})
      BY <2>2 DEF ListEntries
    <3>2. ListEntries(c) \in Seq(Entry)
      BY <1>1, <3>1, ListedEntries
    <3> QED
      BY <2>2, <3>2, TranslatedEntries
  <2> QED
    BY <2>1, <2>2
<1>5. pass = [unlisted |-> pass.unlisted, todo |-> pass.todo, left |-> pass.left, claimed |-> pass.claimed,
              job |-> pass.job, clean |-> pass.clean]
  BY <1>1, PassForm
<1>6. pass' = [unlisted |-> u, todo |-> t, left |-> pass.left, claimed |-> pass.claimed, job |-> None, clean |-> k]
  BY <1>1, <1>3, <1>5
<1>7. /\ u \in SUBSET Collection /\ pass.claimed \in SUBSET Key /\ k \in BOOLEAN
      /\ pass.left \in [DOMAIN pass.left -> Id] /\ DOMAIN pass.left \subseteq Ext /\ None \in Job \cup {None}
  <2>1. /\ pass.unlisted \subseteq Collection /\ pass.claimed \subseteq Key
        /\ pass.left \in [DOMAIN pass.left -> Id] /\ DOMAIN pass.left \subseteq Ext
    BY <1>1, PassForm
  <2> QED
    BY <2>1
<1> HIDE DEF u, t, k
<1>8. LET r == [unlisted |-> u, todo |-> t, left |-> pass.left, claimed |-> pass.claimed, job |-> None, clean |-> k]
      IN  r \in Pass /\ r # None
  BY <1>4, <1>7, PassMade
<1>9. pass' \in Pass /\ pass'.left = pass.left /\ pass'.job = None
  BY <1>6, <1>8
<1>10. PassHolds(pass', db, fresh, adapter)
  BY <1>1, <1>9 DEF PassHolds
<1>11. HandOf(pass) = {}
  BY <1>1 DEF HandOf
<1> QED
  BY <1>1, <1>2, <1>10, <1>11, SameStore DEF Upholds

\* A pass ends, with what the walk met all done.
LEMMA FinishUpholds ==
  ASSUME MirrorInv, Finish
  PROVE  Upholds /\ RowsKept(db, pass, db')
<1>1. db' = db /\ fresh' = fresh /\ pass' = None /\ pass # None /\ pass.job = None
  BY DEF Finish, Walked, Free
<1>2. HandOf(pass) = {}
  BY <1>1 DEF HandOf
<1> QED
  BY <1>1, <1>2, SameStore DEF Upholds, MirrorInv

\* What an adapter writes for a new item, and what it calls next.
LEMMA InsertionIs ==
  ASSUME adapter \in Provider, NEW e \in Entry, Citekey(e) \in Key
  PROVE  /\ Insertion(e).row \in Row /\ Insertion(e).row.table = TableOf[adapter]
         /\ Insertion(e).row.table = "flashcard" => Insertion(e).row.note = None /\ Insertion(e).row.ref = None
         /\ Insertion(e).next \in PlainPlans
<1>1. {<<"meta">>, <<"tags", "meta">>, <<"tags", "note", "meta">>, <<"metrics", "meta">>} \subseteq PlainPlans
  BY PlansDiffer
<1>2. adapter \in {"caldav", "zotero", "ankiconnect", "mlflow", "wandb"} /\ e.ver \in Body
  BY MirrorAssumption, EntryForm
<1>3. CASE adapter = "caldav"
  <2>1. Insertion(e) = [row |-> NewEvent(e.ver), next |-> <<"meta">>]
    BY <1>3 DEF Insertion, CaldavInsert, Tracker
  <2>2. NewEvent(e.ver) \in Event /\ NewEvent(e.ver).table = "event"
    BY <1>2 DEF NewEvent, Event, OptId
  <2> QED
    BY <1>1, <1>3, <2>1, <2>2 DEF Row, TableOf
<1>4. CASE adapter = "zotero"
  <2>1. Insertion(e) = [row |-> NewReference(e.ver, Citekey(e)), next |-> <<"tags">> \o ScaffoldCalls(e) \o <<"meta">>]
    BY <1>4 DEF Insertion, ZoteroInsert, Tracker
  <2>2. NewReference(e.ver, Citekey(e)) \in Reference /\ NewReference(e.ver, Citekey(e)).table = "ref"
    BY <1>2 DEF NewReference, Reference, OptId
  <2> DEFINE s == <<"tags">> \o ScaffoldCalls(e) \o <<"meta">>
  <2>3. s \in {<<"tags", "meta">>, <<"tags", "note", "meta">>}
    BY PlanConcats DEF ScaffoldCalls
  <2>4. s \in PlainPlans
    BY <1>1, <2>3
  <2> HIDE DEF s
  <2>5. Insertion(e).row = NewReference(e.ver, Citekey(e)) /\ Insertion(e).next = s
    BY <2>1 DEF s
  <2> QED
    BY <1>4, <2>2, <2>4, <2>5 DEF Row, TableOf
<1>5. CASE adapter = "ankiconnect"
  <2>1. Insertion(e) = [row |-> NewFlashcard(e.ver), next |-> <<"tags", "meta">>]
    BY <1>5 DEF Insertion, AnkiInsert, Tracker
  <2>2. /\ NewFlashcard(e.ver) \in Flashcard /\ NewFlashcard(e.ver).table = "flashcard"
        /\ NewFlashcard(e.ver).note = None /\ NewFlashcard(e.ver).ref = None
    BY <1>2 DEF NewFlashcard, Flashcard, OptId
  <2> QED
    BY <1>1, <1>5, <2>1, <2>2 DEF Row, TableOf
<1>6. CASE adapter \in Tracker
  <2>1. Insertion(e) = [row |-> NewExperiment(project), next |-> <<"metrics", "meta">>]
    BY <1>6 DEF Insertion, TrackerInsert, Tracker
  <2>2. NewExperiment(project) \in Experiment /\ NewExperiment(project).table = "experiment"
    BY Numbers DEF NewExperiment, Experiment
  <2>3. TableOf[adapter] = "experiment"
    BY <1>6, TablesOf
  <2> QED
    BY <1>1, <2>1, <2>2, <2>3 DEF Row
<1> QED
  BY <1>2, <1>3, <1>4, <1>5, <1>6 DEF Tracker

\* And for a changed one.
LEMMA RevisionIs ==
  ASSUME adapter \in Provider, NEW e \in Entry, Citekey(e) \in Key
  PROVE  /\ {"body"} \subseteq DOMAIN Revision(e).row /\ DOMAIN Revision(e).row \subseteq {"body", "citekey"}
         /\ "citekey" \in DOMAIN Revision(e).row => adapter = "zotero"
         /\ Revision(e).row["body"] \in Body
         /\ "citekey" \in DOMAIN Revision(e).row => Revision(e).row["citekey"] \in Key
         /\ Revision(e).next \in PlainPlans
<1>1. {<<"meta">>, <<"tags", "meta">>, <<"tags", "note", "meta">>, <<"metrics", "meta">>} \subseteq PlainPlans
  BY PlansDiffer
<1>2. adapter \in {"caldav", "zotero", "ankiconnect", "mlflow", "wandb"} /\ e.ver \in Body
  BY MirrorAssumption, EntryForm
<1>3. CASE adapter # "zotero"
  <2>1. \A P \in {FlashcardPatch([body |-> e.ver]), EventPatch([body |-> e.ver]), ExperimentPatch([body |-> e.ver])} :
          DOMAIN P = {"body"} /\ P["body"] = e.ver
    BY PatchParts
  <2>2. \E P \in {FlashcardPatch([body |-> e.ver]), EventPatch([body |-> e.ver]), ExperimentPatch([body |-> e.ver])} :
          \E s \in {<<"meta">>, <<"tags", "meta">>} : Revision(e) = [row |-> P, next |-> s]
    BY <1>2, <1>3 DEF Revision, CaldavUpdate, AnkiUpdate, MlflowUpdate, WandbUpdate
  <2>3. PICK P : DOMAIN P = {"body"} /\ P["body"] = e.ver
                 /\ \E s \in {<<"meta">>, <<"tags", "meta">>} : Revision(e) = [row |-> P, next |-> s]
    BY <2>1, <2>2
  <2>4. Revision(e).row = P /\ Revision(e).next \in {<<"meta">>, <<"tags", "meta">>}
    BY <2>3
  <2> QED
    BY <1>1, <1>2, <2>3, <2>4
<1>4. CASE adapter = "zotero"
  <2> DEFINE P == ReferencePatch([body |-> e.ver, citekey |-> Citekey(e)])
             s == <<"tags">> \o ScaffoldCalls(e) \o <<"meta">>
  <2>1. Revision(e) = [row |-> P, next |-> s]
    BY <1>4 DEF Revision, ZoteroUpdate
  <2>2. DOMAIN P = {"body", "citekey"} /\ P["body"] = e.ver /\ P["citekey"] = Citekey(e)
    BY PatchParts
  <2>3. s \in {<<"tags", "meta">>, <<"tags", "note", "meta">>}
    BY PlanConcats DEF ScaffoldCalls
  <2>4. s \in PlainPlans
    BY <1>1, <2>3
  <2> HIDE DEF P, s
  <2>5. Revision(e).row = P /\ Revision(e).next = s
    BY <2>1
  <2> QED
    BY <1>2, <1>4, <2>2, <2>4, <2>5
<1> QED
  BY <1>3, <1>4

\* The entry that is looked at.
LEMMA EntryAt ==
  ASSUME WorldHolds, pass \in Pass, pass.todo # <<>>,
         NEW e, e = IF adapter = "caldav" THEN FetchIcs(Head(pass.todo)) ELSE Head(pass.todo)
  PROVE  e \in Entry /\ MoreToDo(pass) /\ Citekey(e) \in Key
<1>1. pass.todo \in Seq(Entry)
  BY PassForm
<1>2. Head(pass.todo) \in Entry /\ Tail(pass.todo) \in Seq(Entry)
  BY <1>1
<1>3. ASSUME NEW h \in Entry PROVE FetchIcs(h) \in Entry
  <2>1. h.ext \in Ext /\ [h EXCEPT !.bad = TRUE] \in Entry
    BY DEF Entry
  <2>2. CASE source[h.ext] = None \/ CollectionOf[h.ext] \in down \/ source[h.ext].bad
    BY <2>1, <2>2 DEF FetchIcs
  <2>3. CASE ~(source[h.ext] = None \/ CollectionOf[h.ext] \in down \/ source[h.ext].bad)
    <3>1. source[h.ext] \in Item
      BY <2>1, <2>3 DEF WorldHolds
    <3>2. source[h.ext].ver \in Body
      BY <3>1 DEF Item
    <3>3. [h EXCEPT !.ver = source[h.ext].ver, !.bad = FALSE] \in Entry
      BY <3>2 DEF Entry
    <3> QED
      BY <2>3, <3>3 DEF FetchIcs
  <2> QED
    BY <2>2, <2>3
<1>4. e \in Entry
  BY <1>2, <1>3
<1> QED
  BY <1>2, <1>4, EntryForm, Numbers DEF Citekey, MoreToDo

\* The pass when an item is done with, as far as what follows depends on it,
TakenBy(p, e, j, q) == q \in Pass /\ q # None /\ q.left = Drop(p.left, {e.ext}) /\ q.job = j

\* in the three forms it takes,
LEMMA TakenForm ==
  ASSUME pass \in Pass, NEW e \in Entry, Citekey(e) \in Key, MoreToDo(pass), pass.job = None
  PROVE  /\ TakenBy(pass, e, None, Taken(e))
         /\ \A j \in Job : TakenBy(pass, e, j, [Taken(e) EXCEPT !.job = j])
         /\ TakenBy(pass, e, None, [Taken(e) EXCEPT !.clean = FALSE])
<1> DEFINE t2 == Tail(pass.todo)
           l2 == Drop(pass.left, {e.ext})
           c2 == pass.claimed \cup {Citekey(e)}
           L == UNION {[S -> Id] : S \in SUBSET Ext}
<1>1. l2 \in L
  <2>1. pass.left \in [DOMAIN pass.left -> Id] /\ DOMAIN pass.left \subseteq Ext
    BY PassForm
  <2>2. l2 \in [DOMAIN pass.left \ {e.ext} -> Id] /\ DOMAIN pass.left \ {e.ext} \in SUBSET Ext
    BY <2>1 DEF Drop
  <2> QED
    BY <2>2
<1>2. c2 \in SUBSET Key
  BY PassForm
<1>3. Taken(e) = [pass EXCEPT !.todo = t2, !.left = l2, !.claimed = c2]
  BY DEF Taken
<1> HIDE DEF t2, l2, c2, L
<1>4. Pass = [unlisted : SUBSET Collection, todo : Seq(Entry), left : L, claimed : SUBSET Key, job : Job \cup {None},
              clean : BOOLEAN]
  BY DEF Pass, L
<1>5. Taken(e) \in Pass /\ Taken(e).left = l2 /\ Taken(e).job = None
  BY <1>1, <1>2, <1>3, <1>4 DEF t2, MoreToDo
<1>6. ASSUME NEW j \in Job
      PROVE  LET q == [Taken(e) EXCEPT !.job = j] IN q \in Pass /\ q.left = l2 /\ q.job = j
  BY <1>4, <1>5
<1>7. LET q == [Taken(e) EXCEPT !.clean = FALSE] IN q \in Pass /\ q.left = l2 /\ q.job = None
  BY <1>4, <1>5
<1>8. None \notin Pass
  BY RecordAssumption
<1> QED
  BY <1>5, <1>6, <1>7, <1>8 DEF TakenBy, l2

\* is one still.
LEMMA TakenHolds ==
  ASSUME NEW p, NEW d, NEW n, NEW a, PassHolds(p, d, n, a), NEW e, NEW d2, NEW n2, d2.meta = d.meta,
         NEW j, j = None \/ (JobHolds(j, d2, n2, a) /\ JobCompletes(j, d2) /\ j.ext = e.ext),
         NEW q, TakenBy(p, e, j, q)
  PROVE  PassHolds(q, d2, n2, a)
<1>1. LeftHolds(p.left, d) /\ q \in Pass /\ q.left = Drop(p.left, {e.ext}) /\ q.job = j
  BY DEF PassHolds, TakenBy
<1>2. /\ q.left \in [DOMAIN q.left -> Id] /\ DOMAIN q.left \subseteq Ext /\ DOMAIN q.left = DOMAIN p.left \ {e.ext}
      /\ \A x \in DOMAIN q.left : q.left[x] = p.left[x]
  BY <1>1 DEF LeftHolds, Drop
<1>3. LeftHolds(q.left, d2)
  BY <1>1, <1>2 DEF LeftHolds
<1> QED
  BY <1>1, <1>2, <1>3 DEF PassHolds

\* A row that is new:
RowAdded(d, n, r, d2) == n \notin DOMAIN d.row /\ d2.row = Put(d.row, n, r) /\ d2.edge = d.edge /\ d2.meta = d.meta

\* what was there is there still,
LEMMA NewRow ==
  ASSUME NEW d, NEW n, NEW r, NEW d2, RowAdded(d, n, r, d2)
  PROVE  /\ \A i : Exists(d2, i) <=> Exists(d, i) \/ i = n
         /\ \A i, t : IsA(d, i, t) => IsA(d2, i, t)
         /\ d2.row[n] = r
BY DEF RowAdded, Put, IsA, Exists

\* and nothing is left behind while it is in hand.
LEMMA NewRowStrays ==
  ASSUME NEW d, NEW n, NEW a, NEW r, NEW d2, RowAdded(d, n, r, d2), NEW p, NEW q, HandOf(p) \cup {n} \subseteq HandOf(q)
  PROVE  NoNewStrays(d, p, d2, q, a) /\ RowsKept(d, p, d2)
<1>1. /\ DOMAIN d2.row = DOMAIN d.row \cup {n} /\ \A i \in DOMAIN d.row : d2.row[i] = d.row[i]
      /\ d2.edge = d.edge /\ d2.meta = d.meta
  BY DEF Put, RowAdded
<1>2. \A t : Rows(d2, t) \subseteq Rows(d, t) \cup {n}
  BY <1>1 DEF Rows
<1>3. \A i : Exists(d2, i) <=> Exists(d, i) \/ i = n
  BY <1>1 DEF Exists
<1>4. NoNewStrays(d, p, d2, q, a)
  <2>1. StrayRows(d2, q, a) \subseteq StrayRows(d, p, a)
    BY <1>1, <1>2 DEF StrayRows
  <2>2. StrayMeta(d2, q) \subseteq StrayMeta(d, p)
    BY <1>1, <1>3 DEF StrayMeta
  <2>3. StrayNotes(d2, q) \subseteq StrayNotes(d, p)
    BY <1>1, <1>2 DEF StrayNotes
  <2> QED
    BY <2>1, <2>2, <2>3 DEF NoNewStrays
<1>5. RowsKept(d, p, d2)
  BY <1>1 DEF RowsKept
<1> QED
  BY <1>4, <1>5

\* The job for an item whose row was just written.
LEMMA JobMade ==
  ASSUME NEW e \in Entry, NEW i \in Id, NEW v \in OptId, NEW s \in PlainPlans,
         NEW d, NEW n, NEW a, native < i, i < n, Exists(d, i), d.row[i].table = TableOf[a],
         i \in DOMAIN d.meta => d.meta[i].ext = e.ext,
         v # None => IsA(d, v, "project")
  PROVE  LET j == JobFor(e, i, v, s)
         IN  /\ j \in Job /\ j.id = i /\ j.note = None /\ j.ext = e.ext
             /\ JobHolds(j, d, n, a) /\ JobCompletes(j, d)
<1>1. s \in Seq(Call)
  BY PlanSteps DEF PlainPlans
<1>2. e.ext \in Ext /\ e.ver \in Body /\ e.mark \in Body
  BY EntryForm
<1> DEFINE j == JobFor(e, i, v, s)
<1>3. j = [ext |-> e.ext, id |-> i, project |-> v, note |-> None, ver |-> e.ver, mark |-> e.mark, next |-> s]
  BY DEF JobFor
<1>4. j \in Job
  BY <1>1, <1>2, <1>3 DEF Job, OptId
<1> HIDE DEF j
<1>5. j.id = i /\ j.note = None /\ j.ext = e.ext /\ j.project = v /\ j.next = s
  BY <1>3
<1>6. JobHolds(j, d, n, a)
  BY <1>4, <1>5 DEF JobHolds, PlainPlans
<1>7. JobCompletes(j, d)
  BY <1>5 DEF JobCompletes, PlainPlans
<1> QED
  BY <1>4, <1>5, <1>6, <1>7 DEF j

\* A new row for an item, or none.
LEMMA InsertUpholds ==
  ASSUME MirrorInv, pass # None, pass.job = None, NEW e \in Entry, Citekey(e) \in Key, MoreToDo(pass)
  PROVE  ApplyInsert(e) => Upholds /\ RowsKept(db, pass, db')
<1>0. SUFFICES ASSUME ApplyInsert(e) PROVE Upholds /\ RowsKept(db, pass, db')
  OBVIOUS
<1>1. /\ StoreHolds(db, fresh, adapter) /\ PassHolds(pass, db, fresh, adapter) /\ pass \in Pass
      /\ fresh \in Id /\ native < fresh /\ adapter \in Provider
  BY DEF MirrorInv, WorldHolds, PassHolds
<1>2. HandOf(pass) = {}
  BY DEF HandOf
<1> DEFINE r == Insertion(e).row
           s == Insertion(e).next
           j == JobFor(e, fresh, None, s)
<1>3. /\ r \in Row /\ r.table = TableOf[adapter] /\ (r.table = "flashcard" => r.note = None /\ r.ref = None)
      /\ s \in PlainPlans
  BY <1>1, InsertionIs
<1>4. TableOf[adapter] # "project"
  BY <1>1, TablesOf
<1>5. CASE Allowed(db, fresh, r)
  <2>1. /\ db' = Insert(db, fresh, r) /\ fresh' = fresh + 1 /\ fresh' \in Id
        /\ pass' = [Taken(e) EXCEPT !.job = j]
    BY <1>0, <1>5 DEF ApplyInsert
  <2> HIDE DEF r, s
  <2>2. /\ db'.row = Put(db.row, fresh, r) /\ fresh \notin DOMAIN db.row /\ db'.edge = db.edge /\ db'.meta = db.meta
        /\ StoreHolds(db', fresh', adapter)
    BY <1>1, <1>3, <1>4, <1>5, <2>1, InsertHolds
  <2>3. Exists(db', fresh) /\ db'.row[fresh].table = TableOf[adapter]
    BY <1>3, <2>2 DEF Exists, Put
  <2>4. fresh \notin DOMAIN db.meta
    <3>1. \A i \in DOMAIN db.meta : i \in Nat /\ i < fresh
      BY <1>1, Numbers DEF StoreHolds, MetaHolds
    <3>2. fresh \in Nat
      BY <1>1, Numbers
    <3> QED
      BY <3>1, <3>2
  <2>5. fresh < fresh'
    <3>1. fresh \in Nat
      BY <1>1, Numbers
    <3> QED
      BY <2>1, <3>1
  <2>6. /\ j \in Job /\ j.id = fresh /\ j.ext = e.ext
        /\ JobHolds(j, db', fresh', adapter) /\ JobCompletes(j, db')
    <3>1. fresh \in Id /\ None \in OptId /\ s \in PlainPlans
      BY <1>1, <1>3 DEF OptId
    <3>2. native < fresh /\ fresh < fresh' /\ Exists(db', fresh) /\ db'.row[fresh].table = TableOf[adapter]
      BY <1>1, <2>3, <2>5
    <3>3. fresh \notin DOMAIN db'.meta
      BY <2>2, <2>4
    <3> QED
      BY <3>1, <3>2, <3>3, JobMade
  <2> HIDE DEF j
  <2>7. TakenBy(pass, e, j, pass')
    BY <1>1, <2>1, <2>6, TakenForm
  <2>8. PassHolds(pass', db', fresh', adapter)
    BY <1>1, <2>2, <2>6, <2>7, TakenHolds
  <2>9. fresh \in HandOf(pass')
    BY <1>1, <2>6, <2>7, JobForm DEF HandOf, TakenBy
  <2>10. NoNewStrays(db, pass, db', pass', adapter) /\ RowsKept(db, pass, db')
    <3>1. HandOf(pass) \cup {fresh} \subseteq HandOf(pass')
      BY <1>2, <2>9
    <3>2. RowAdded(db, fresh, r, db')
      BY <2>2 DEF RowAdded
    <3> QED
      BY <3>1, <3>2, NewRowStrays
  <2> QED
    BY <2>2, <2>8, <2>10 DEF Upholds
<1>6. CASE ~Allowed(db, fresh, r)
  <2>1. pass' = (IF adapter = "zotero" THEN [Taken(e) EXCEPT !.clean = FALSE] ELSE None) /\ db' = db /\ fresh' = fresh
    BY <1>0, <1>6 DEF ApplyInsert
  <2>2. pass' # None => PassHolds(pass', db, fresh, adapter)
    <3>1. TakenBy(pass, e, None, [Taken(e) EXCEPT !.clean = FALSE])
      BY <1>1, TakenForm
    <3> QED
      BY <1>1, <2>1, <3>1, TakenHolds
  <2> QED
    BY <1>1, <1>2, <2>1, <2>2, SameStore DEF Upholds
<1> QED
  BY <1>5, <1>6

\* A row of the adapter's own is changed, or its pass ends.
LEMMA UpdateUpholds ==
  ASSUME MirrorInv, pass # None, pass.job = None, NEW e \in Entry, Citekey(e) \in Key, MoreToDo(pass),
         e.ext \in DOMAIN pass.left
  PROVE  ApplyUpdate(e, pass.left[e.ext]) => Upholds /\ RowsKept(db, pass, db')
<1>0. SUFFICES ASSUME ApplyUpdate(e, pass.left[e.ext]) PROVE Upholds /\ RowsKept(db, pass, db')
  OBVIOUS
<1>1. /\ StoreHolds(db, fresh, adapter) /\ PassHolds(pass, db, fresh, adapter) /\ pass \in Pass
      /\ fresh \in Id /\ native < fresh /\ adapter \in Provider /\ adapter \in DOMAIN TableOf
  BY DEF MirrorInv, WorldHolds, PassHolds
<1>2. HandOf(pass) = {}
  BY DEF HandOf
<1> DEFINE i == pass.left[e.ext]
           r == Revision(e).row
           s == Revision(e).next
           j == JobFor(e, i, db.row[i].project, s)
<1>3. /\ {"body"} \subseteq DOMAIN r /\ DOMAIN r \subseteq {"body", "citekey"} /\ ("citekey" \in DOMAIN r => adapter = "zotero")
      /\ r["body"] \in Body /\ ("citekey" \in DOMAIN r => r["citekey"] \in Key)
      /\ s \in PlainPlans
  BY <1>1, RevisionIs
<1>4. i \in Id /\ i \in DOMAIN db.meta /\ db.meta[i].ext = e.ext /\ native < i /\ i < fresh
  BY <1>1 DEF PassHolds, LeftHolds, StoreHolds, MetaHolds
<1>5. CASE CanUpdate(db, i, r)
  <2>1. db' = Update(db, i, r) /\ fresh' = fresh /\ pass' = [Taken(e) EXCEPT !.job = j]
    BY <1>0, <1>5 DEF ApplyUpdate
  <2> HIDE DEF r, s
  <2>2. i \in DOMAIN db.row /\ db.row[i] \in Row /\ db.row[i].table = TableOf[adapter] /\ LinksHold(db, db.row[i])
    <3>1. i \in DOMAIN db.row
      BY <1>5 DEF CanUpdate, Exists
    <3> QED
      BY <1>1, <1>4, <3>1 DEF StoreHolds, RowsHold, MetaHolds, Consistent, Allowed
  <2> HIDE DEF i
  <2>3. /\ {"table", "body"} \subseteq DOMAIN db.row[i]
        /\ "project" \in DOMAIN db.row[i] /\ db.row[i].project \in OptId
        /\ (db.row[i].table = "ref" => "citekey" \in DOMAIN db.row[i])
    <3>1. db.row[i].table # "project"
      BY <1>1, <2>2, TablesOf
    <3> QED
      BY <2>2, <3>1, RowParts
  <2>4. DOMAIN r \subseteq DOMAIN db.row[i] \cap {"body", "citekey", "project"}
    BY <1>1, <1>3, <2>2, <2>3, TablesOf
  <2>5. /\ db'.edge = db.edge /\ db'.tag = db.tag /\ db'.meta = db.meta /\ DOMAIN db'.row = DOMAIN db.row
        /\ \A k \in DOMAIN db.row : db'.row[k].table = db.row[k].table /\ (k # i => db'.row[k] = db.row[k])
        /\ \A c \in DOMAIN db.row[i] \ DOMAIN r : db'.row[i][c] = db.row[i][c]
        /\ StoreHolds(db', fresh, adapter)
    <3>1. "project" \notin DOMAIN r
      BY <1>3
    <3> QED
      BY <1>1, <1>3, <1>5, <2>1, <2>2, <2>4, <3>1, UpdateHolds
  <2>6. Alike(db, db')
    BY <2>5 DEF Alike
  <2>7. db.row[i].project # None => IsA(db', db.row[i].project, "project")
    <3>1. "project" \in Links(db.row[i])
      BY <2>3 DEF Links
    <3>2. db.row[i].project # None => IsA(db, db.row[i].project, "project")
      BY <2>2, <3>1 DEF LinksHold
    <3> QED
      BY <2>6, <3>2 DEF Alike, IsA, Exists
  <2>8. /\ j \in Job /\ j.id = i /\ j.ext = e.ext
        /\ JobHolds(j, db', fresh, adapter) /\ JobCompletes(j, db')
    <3>1. Exists(db', i) /\ db'.row[i].table = TableOf[adapter] /\ db'.meta = db.meta
      BY <2>2, <2>5 DEF Exists
    <3>2. /\ s \in PlainPlans
          /\ i \in Id /\ native < i /\ i < fresh /\ db'.meta[i].ext = e.ext
      BY <1>3, <1>4, <3>1 DEF i
    <3>3. PICK v, w : v = db.row[i].project /\ w = s
      OBVIOUS
    <3>4. v \in OptId /\ (v # None => IsA(db', v, "project")) /\ w \in PlainPlans
      BY <2>3, <2>7, <3>2, <3>3
    <3>5. LET k == JobFor(e, i, v, w)
          IN  /\ k \in Job /\ k.id = i /\ k.ext = e.ext
              /\ JobHolds(k, db', fresh, adapter) /\ JobCompletes(k, db')
      BY <3>1, <3>2, <3>4, JobMade
    <3> QED
      BY <3>3, <3>5
  <2> HIDE DEF j
  <2>9. TakenBy(pass, e, j, pass')
    BY <1>1, <2>1, <2>8, TakenForm
  <2>10. PassHolds(pass', db', fresh, adapter)
    BY <1>1, <2>5, <2>8, <2>9, TakenHolds
  <2>11. NoNewStrays(db, pass, db', pass', adapter)
    BY <1>2, <2>6, AlikeStrays
  <2>12. RowsKept(db, pass, db')
    <3>1. i \in DOMAIN db.meta
      BY <1>4 DEF i
    <3>2. "project" \notin DOMAIN r
      BY <1>3
    <3> QED
      BY <2>5, <3>1, <3>2 DEF RowsKept
  <2> QED
    BY <2>1, <2>5, <2>10, <2>11, <2>12 DEF Upholds
<1>6. CASE ~CanUpdate(db, i, r)
  <2>1. pass' = None /\ db' = db /\ fresh' = fresh
    BY <1>0, <1>6 DEF ApplyUpdate
  <2> QED
    BY <1>1, <1>2, <2>1, SameStore DEF Upholds
<1> QED
  BY <1>5, <1>6

\* One turn of the loop.
LEMMA ApplyUpholds ==
  ASSUME MirrorInv, Apply
  PROVE  Upholds /\ RowsKept(db, pass, db')
<1>1. /\ StoreHolds(db, fresh, adapter) /\ PassHolds(pass, db, fresh, adapter) /\ pass \in Pass
      /\ pass # None /\ pass.job = None /\ pass.todo # <<>> /\ WorldHolds
  BY DEF MirrorInv, PassHolds, Apply, Free
<1>2. HandOf(pass) = {}
  BY <1>1 DEF HandOf
<1> DEFINE e == IF adapter = "caldav" THEN FetchIcs(Head(pass.todo)) ELSE Head(pass.todo)
<1>3. e \in Entry /\ MoreToDo(pass) /\ Citekey(e) \in Key
  BY <1>1, EntryAt
<1>4. \/ pass' = [pass EXCEPT !.todo = Tail(@), !.clean = @ /\ adapter # "caldav"] /\ db' = db /\ fresh' = fresh
      \/ ApplyInsert(e)
      \/ pass' = Taken(e) /\ db' = db /\ fresh' = fresh
      \/ e.ext \in DOMAIN pass.left /\ ApplyUpdate(e, pass.left[e.ext])
  BY DEF Apply
<1> HIDE DEF e
<1>5. CASE pass' = [pass EXCEPT !.todo = Tail(@), !.clean = @ /\ adapter # "caldav"] /\ db' = db /\ fresh' = fresh
  <2>1. pass' \in Pass /\ pass'.left = pass.left /\ pass'.job = None
    BY <1>1, <1>3, <1>5 DEF Pass, MoreToDo
  <2>2. PassHolds(pass', db, fresh, adapter)
    BY <1>1, <2>1 DEF PassHolds
  <2> QED
    BY <1>1, <1>2, <1>5, <2>2, SameStore DEF Upholds
<1>6. CASE ApplyInsert(e)
  BY <1>1, <1>3, <1>6, InsertUpholds
<1>7. CASE pass' = Taken(e) /\ db' = db /\ fresh' = fresh
  <2>1. TakenBy(pass, e, None, pass')
    BY <1>1, <1>3, <1>7, TakenForm
  <2>2. PassHolds(pass', db, fresh, adapter)
    BY <1>1, <2>1, TakenHolds
  <2> QED
    BY <1>1, <1>2, <1>7, <2>2, SameStore DEF Upholds
<1>8. CASE e.ext \in DOMAIN pass.left /\ ApplyUpdate(e, pass.left[e.ext])
  BY <1>1, <1>3, <1>8, UpdateUpholds
<1> QED
  BY <1>4, <1>5, <1>6, <1>7, <1>8

\* A job with that much of its plan left.
Further(j, s) == [j EXCEPT !.next = s]

\* The next call is next.
LEMMA DoneForm ==
  ASSUME pass \in Pass, pass.job \in Job, pass.job.next \in Plans
  PROVE  Done => /\ pass' \in Pass /\ pass' # None /\ pass'.left = pass.left
                 /\ Rest(pass.job) = <<>> => pass'.job = None
                 /\ Rest(pass.job) # <<>> => pass'.job = Further(pass.job, Rest(pass.job))
<1>1. SUFFICES ASSUME Done
               PROVE  /\ pass' \in Pass /\ pass' # None /\ pass'.left = pass.left
                      /\ Rest(pass.job) = <<>> => pass'.job = None
                      /\ Rest(pass.job) # <<>> => pass'.job = Further(pass.job, Rest(pass.job))
  OBVIOUS
<1> DEFINE rest == Rest(pass.job)
           k == IF rest = <<>> THEN None ELSE [pass.job EXCEPT !.next = rest]
           L == UNION {[S -> Id] : S \in SUBSET Ext}
<1>2. pass' = [pass EXCEPT !.job = k]
  BY <1>1 DEF Done, Rest
<1>3. k \in Job \cup {None}
  <2>1. CASE rest = <<>>
    BY <2>1
  <2>2. CASE rest # <<>>
    <3>1. pass.job.next \in Seq(Call)
      BY PlanSteps
    <3>2. pass.job.next # <<>>
      BY PlansFilled
    <3>3. rest \in Seq(Call)
      BY <3>1, <3>2 DEF Rest
    <3> HIDE DEF rest
    <3>4. [pass.job EXCEPT !.next = rest] \in Job
      BY <3>3 DEF Job
    <3> QED
      BY <2>2, <3>4
  <2> QED
    BY <2>1, <2>2
<1>4. Pass = [unlisted : SUBSET Collection, todo : Seq(Entry), left : L, claimed : SUBSET Key, job : Job \cup {None},
              clean : BOOLEAN]
  BY DEF Pass
<1> HIDE DEF k, L
<1>5. pass' \in Pass /\ pass'.left = pass.left /\ pass'.job = k
  BY <1>2, <1>3, <1>4
<1> QED
  BY <1>5, RecordAssumption DEF k, Further

\* What a job depends on is as it was.
JobStays(j, d, d2, a) ==
  /\ j.id \in DOMAIN d2.row => d2.row[j.id].table = TableOf[a]
  /\ d2.meta = d.meta
  /\ \A i : IsA(d, i, "project") => IsA(d2, i, "project")

\* A job with what is left of its plan.
LEMMA JobNext ==
  ASSUME NEW j, NEW d, NEW n, NEW a, JobHolds(j, d, n, a), NEW d2, NEW s \in Plans, JobStays(j, d, d2, a)
  PROVE  LET k == Further(j, s)
         IN  /\ k \in Job /\ k.id = j.id /\ k.ext = j.ext /\ k.note = j.note /\ k.next = s
             /\ JobHolds(k, d2, n, a)
<1>1. j \in Job /\ s \in Seq(Call)
  BY PlanSteps DEF JobHolds
<1> DEFINE k == Further(j, s)
<1>2. k \in Job /\ k.id = j.id /\ k.ext = j.ext /\ k.note = j.note /\ k.next = s /\ k.project = j.project
  BY <1>1 DEF Job, Further
<1> HIDE DEF k
<1>3. JobHolds(k, d2, n, a)
  BY <1>2 DEF JobHolds, JobStays
<1> QED
  BY <1>2, <1>3 DEF k

\* A pass whose job has come further, or has come to its end.
LEMMA JobGoesOn ==
  ASSUME NEW p, NEW d, NEW n, NEW a, PassHolds(p, d, n, a), p.job # None, NEW q \in Pass, q.left = p.left,
         NEW d2, NEW n2, LeftHolds(p.left, d2),
         q.job = None \/ (JobHolds(q.job, d2, n2, a) /\ JobCompletes(q.job, d2) /\ q.job.ext = p.job.ext)
  PROVE  PassHolds(q, d2, n2, a)
BY DEF PassHolds

\* The metadata of a job's row is that of no item yet to be met.
LEMMA LeftStays ==
  ASSUME NEW p, NEW d, NEW n, NEW a, PassHolds(p, d, n, a), p.job # None, NEW d2,
         \A i \in DOMAIN d.meta \ {p.job.id} : i \in DOMAIN d2.meta /\ d2.meta[i] = d.meta[i]
  PROVE  LeftHolds(p.left, d2)
<1>1. LeftHolds(p.left, d) /\ JobHolds(p.job, d, n, a) /\ p.job.ext \notin DOMAIN p.left
  BY DEF PassHolds
<1>2. \A x \in DOMAIN p.left : p.left[x] # p.job.id
  BY <1>1 DEF LeftHolds, JobHolds
<1> QED
  BY <1>1, <1>2 DEF LeftHolds

\* A call in the middle of a plan that changes columns of the item's row, or its tags.
LEMMA MiddleUpholds ==
  ASSUME MirrorInv, pass # None, pass.job # None, NEW s \in PlainPlans,
         s = Rest(pass.job), pass.job.note = None, Exists(db, pass.job.id)
  PROVE  Done /\ Alike(db, db') /\ StoreHolds(db', fresh, adapter) /\ fresh' = fresh => Upholds
<1>1. SUFFICES ASSUME Done, Alike(db, db'), StoreHolds(db', fresh, adapter), fresh' = fresh PROVE Upholds
  OBVIOUS
<1>2. PassHolds(pass, db, fresh, adapter) /\ pass \in Pass /\ JobHolds(pass.job, db, fresh, adapter)
      /\ pass.job \in Job /\ pass.job.next \in Plans
  BY DEF MirrorInv, PassHolds, JobHolds
<1>3. pass' \in Pass /\ pass' # None /\ pass'.left = pass.left /\ pass'.job = Further(pass.job, s)
  <2>1. Rest(pass.job) # <<>>
    BY PlansFilled DEF PlainPlans
  <2> QED
    BY <1>1, <1>2, <2>1, DoneForm
<1>4. /\ pass'.job.id = pass.job.id /\ pass'.job.ext = pass.job.ext /\ pass'.job.note = None /\ pass'.job.next = s
      /\ JobHolds(pass'.job, db', fresh, adapter)
  <2>1. pass.job.id \in DOMAIN db'.row => db'.row[pass.job.id].table = TableOf[adapter]
    BY <1>1, <1>2 DEF Alike, JobHolds
  <2>2. \A i : IsA(db, i, "project") => IsA(db', i, "project")
    BY <1>1 DEF Alike, IsA, Exists
  <2>3. db'.meta = db.meta
    BY <1>1 DEF Alike
  <2>4. LET k == Further(pass.job, s)
        IN  /\ k.id = pass.job.id /\ k.ext = pass.job.ext /\ k.note = pass.job.note /\ k.next = s
            /\ JobHolds(k, db', fresh, adapter)
    <3>2. s \in Plans
      BY DEF PlainPlans
    <3>1. JobStays(pass.job, db, db', adapter)
      BY <2>1, <2>2, <2>3 DEF JobStays
    <3> QED
      BY <1>2, <3>1, <3>2, JobNext
  <2> QED
    BY <1>3, <2>4
<1>5. JobCompletes(pass'.job, db')
  <2>1. Exists(db', pass.job.id)
    BY <1>1 DEF Alike, Exists
  <2> QED
    BY <1>4, <2>1 DEF JobCompletes, PlainPlans
<1>6. LeftHolds(pass.left, db')
  BY <1>1, <1>2 DEF Alike, PassHolds, LeftHolds
<1>7. PassHolds(pass', db', fresh, adapter)
  BY <1>2, <1>3, <1>4, <1>5, <1>6, JobGoesOn
<1>8. HandOf(pass') = HandOf(pass)
  <2>1. pass'.job \in Job /\ pass'.job # None
    BY <1>4, JobForm DEF JobHolds
  <2> QED
    BY <1>3, <1>4, <2>1 DEF HandOf
<1>9. NoNewStrays(db, pass, db', pass', adapter)
  BY <1>1, <1>8, AlikeStrays
<1> QED
  BY <1>1, <1>7, <1>9 DEF Upholds

\* The first call of what is left to do.
First(j) == Head(j.next)

\* A job that runs, and what it stands for.
LEMMA JobAtHand ==
  ASSUME MirrorInv, pass # None, pass.job # None
  PROVE  /\ PassHolds(pass, db, fresh, adapter) /\ pass \in Pass /\ StoreHolds(db, fresh, adapter)
         /\ JobHolds(pass.job, db, fresh, adapter) /\ JobCompletes(pass.job, db)
         /\ pass.job \in Job /\ pass.job.next \in Plans /\ pass.job.id \in Id /\ native < pass.job.id /\ pass.job.id < fresh
         /\ pass.job.note \in OptId /\ pass.job.ver \in Body /\ pass.job.mark \in Body /\ pass.job.ext \in Ext
         /\ pass.job.project \in OptId
         /\ fresh \in Id /\ native < fresh /\ adapter \in Provider
         /\ HandOf(pass) = {pass.job.id, pass.job.note} \cap Id
<1>1. /\ PassHolds(pass, db, fresh, adapter) /\ StoreHolds(db, fresh, adapter)
      /\ fresh \in Id /\ native < fresh /\ adapter \in Provider
  BY DEF MirrorInv, WorldHolds
<1>2. pass \in Pass /\ JobHolds(pass.job, db, fresh, adapter) /\ JobCompletes(pass.job, db)
  BY <1>1 DEF PassHolds
<1>3. pass.job \in Job /\ pass.job.next \in Plans /\ native < pass.job.id /\ pass.job.id < fresh
  BY <1>2 DEF JobHolds
<1>4. HandOf(pass) = {pass.job.id, pass.job.note} \cap Id
  BY DEF HandOf
<1> QED
  BY <1>1, <1>2, <1>3, <1>4, JobForm

\* A call other than the ones for a literature note, for an item with a row.
LEMMA PlainCall ==
  ASSUME NEW j, j.next \in Plans, NEW d, JobCompletes(j, d), First(j) \in {"tags", "metrics", "note", "refresh"}
  PROVE  Rest(j) \in PlainPlans /\ Exists(d, j.id) /\ j.note = None
<1>1. j.next # <<"clear">> /\ j.next # <<"edge", "meta">> /\ j.next # <<"meta">>
  BY PlansFilled DEF First
<1>2. Exists(d, j.id) /\ j.note = None
  BY <1>1 DEF JobCompletes
<1>3. Rest(j) \in {<<"meta">>, <<"note", "meta">>}
  BY PlanSteps DEF First, Rest
<1>4. {<<"meta">>, <<"note", "meta">>} \subseteq PlainPlans
  BY PlansDiffer
<1> QED
  BY <1>2, <1>3, <1>4

\* Tags.
LEMMA TagsUpholds ==
  ASSUME MirrorInv, pass # None, pass.job # None, First(pass.job) = "tags"
  PROVE  db' = SetTags(db, pass.job.id, pass.job.ver) /\ Done /\ fresh' = fresh => Upholds /\ RowsKept(db, pass, db')
<1>1. SUFFICES ASSUME db' = SetTags(db, pass.job.id, pass.job.ver), Done, fresh' = fresh
               PROVE  Upholds /\ RowsKept(db, pass, db')
  OBVIOUS
<1>2. Rest(pass.job) \in PlainPlans /\ Exists(db, pass.job.id) /\ pass.job.note = None
  BY JobAtHand, PlainCall
<1>3. StoreHolds(db', fresh, adapter) /\ db'.row = db.row /\ db'.edge = db.edge /\ db'.meta = db.meta
  <2>1. StoreHolds(db, fresh, adapter) /\ fresh \in Id /\ pass.job.id \in Id
    BY JobAtHand
  <2> QED
    BY <1>1, <2>1, TagsHold
<1>4. Alike(db, db')
  BY <1>3 DEF Alike
<1>5. RowsKept(db, pass, db')
  BY <1>3 DEF RowsKept
<1> QED
  BY <1>1, <1>2, <1>3, <1>4, <1>5, MiddleUpholds

\* Columns of a row that is the adapter's own.
LEMMA BodyPatch ==
  ASSUME NEW d, NEW n \in Id, NEW a, StoreHolds(d, n, a), NEW i \in DOMAIN d.row, NEW p, DOMAIN p = {"body"}, p["body"] \in Body
  PROVE  /\ Alike(d, Update(d, i, p)) /\ StoreHolds(Update(d, i, p), n, a)
         /\ \A k \in DOMAIN d.row : k # i => Update(d, i, p).row[k] = d.row[k]
         /\ "project" \in DOMAIN d.row[i] => Update(d, i, p).row[i].project = d.row[i].project
<1>1. d.row[i] \in Row
  BY DEF StoreHolds, RowsHold
<1>2. DOMAIN p \subseteq DOMAIN d.row[i] \cap {"body", "project"}
  BY <1>1, RowParts
<1>3. CanUpdate(d, i, p)
  BY <1>2, PatchAllowed
<1> DEFINE d2 == Update(d, i, p)
<1>4. /\ d2.edge = d.edge /\ d2.tag = d.tag /\ d2.meta = d.meta /\ DOMAIN d2.row = DOMAIN d.row
      /\ \A j \in DOMAIN d.row : d2.row[j].table = d.row[j].table /\ (j # i => d2.row[j] = d.row[j])
      /\ \A c \in DOMAIN d.row[i] \ DOMAIN p : d2.row[i][c] = d.row[i][c]
      /\ StoreHolds(d2, n, a)
  BY <1>2, <1>3, UpdateHolds
<1> HIDE DEF d2
<1>5. Alike(d, d2)
  BY <1>4 DEF Alike
<1>6. "project" \in DOMAIN d.row[i] => d2.row[i].project = d.row[i].project
  BY <1>4
<1> QED
  BY <1>4, <1>5, <1>6 DEF d2

\* Metrics.
LEMMA MetricsUpholds ==
  ASSUME MirrorInv, pass # None, pass.job # None, First(pass.job) = "metrics"
  PROVE  db' = Update(db, pass.job.id, ExperimentPatch([body |-> pass.job.ver])) /\ Done /\ fresh' = fresh
           => Upholds /\ RowsKept(db, pass, db')
<1> DEFINE p == ExperimentPatch([body |-> pass.job.ver])
<1>1. SUFFICES ASSUME db' = Update(db, pass.job.id, p), Done, fresh' = fresh
               PROVE  Upholds /\ RowsKept(db, pass, db')
  OBVIOUS
<1>2. Rest(pass.job) \in PlainPlans /\ Exists(db, pass.job.id) /\ pass.job.note = None
  BY JobAtHand, PlainCall
<1>3. DOMAIN p = {"body"} /\ p["body"] \in Body
  BY JobAtHand, PatchParts
<1> HIDE DEF p
<1>4. /\ Alike(db, db') /\ StoreHolds(db', fresh, adapter)
      /\ \A k \in DOMAIN db.row : k # pass.job.id => db'.row[k] = db.row[k]
      /\ "project" \in DOMAIN db.row[pass.job.id] => db'.row[pass.job.id].project = db.row[pass.job.id].project
  BY <1>1, <1>2, <1>3, JobAtHand, BodyPatch DEF Exists
<1>5. RowsKept(db, pass, db')
  <2>1. pass.job.id \in HandOf(pass)
    BY JobAtHand
  <2> QED
    BY <1>4, <2>1 DEF RowsKept, Alike
<1> QED
  BY <1>1, <1>2, <1>4, <1>5, MiddleUpholds

\* A literature note is refreshed,
LEMMA RefreshUpholds ==
  ASSUME MirrorInv, pass # None, pass.job # None, First(pass.job) = "refresh"
  PROVE  db' = Update(db, Scaffold(db, pass.job.id), NotePatch([body |-> pass.job.ver])) /\ Done /\ fresh' = fresh
           => Upholds /\ RowsKept(db, pass, db')
<1> DEFINE p == NotePatch([body |-> pass.job.ver])
           i == Scaffold(db, pass.job.id)
<1>1. SUFFICES ASSUME db' = Update(db, i, p), Done, fresh' = fresh
               PROVE  Upholds /\ RowsKept(db, pass, db')
  OBVIOUS
<1>2. Rest(pass.job) \in PlainPlans /\ Exists(db, pass.job.id) /\ pass.job.note = None
  BY JobAtHand, PlainCall
<1>3. DOMAIN p = {"body"} /\ p["body"] \in Body
  BY JobAtHand, PatchParts
<1>4. \E e \in db.edge : e.from = i
  <2>1. pass.job.next = <<"refresh", "meta">>
    BY JobAtHand, PlanSteps DEF First
  <2>2. i # None
    BY <2>1, JobAtHand DEF JobCompletes
  <2> QED
    BY <2>2, JobAtHand, ScaffoldHolds DEF StoreHolds
<1> HIDE DEF p, i
<1>5. CASE i \in DOMAIN db.row
  <2>1. /\ Alike(db, db') /\ StoreHolds(db', fresh, adapter)
        /\ \A k \in DOMAIN db.row : k # i => db'.row[k] = db.row[k]
        /\ "project" \in DOMAIN db.row[i] => db'.row[i].project = db.row[i].project
    BY <1>1, <1>3, <1>5, JobAtHand, BodyPatch
  <2>2. RowsKept(db, pass, db')
    BY <1>4, <2>1 DEF RowsKept, Alike
  <2> QED
    BY <1>1, <1>2, <2>1, <2>2, MiddleUpholds
<1>6. CASE i \notin DOMAIN db.row
  <2>1. IsStore(db)
    BY JobAtHand DEF StoreHolds
  <2>2. db' = [row |-> [db.row EXCEPT ![i] = Patched(db.row[i], p)], edge |-> db.edge, tag |-> db.tag, meta |-> db.meta]
    BY <1>1, <2>1, UpdateIs
  <2>3. db.row \in [DOMAIN db.row -> Row]
    BY JobAtHand DEF StoreHolds, RowsHold
  <2>4. [db.row EXCEPT ![i] = Patched(db.row[i], p)] = db.row
    BY <1>6, <2>3
  <2>5. db' = db
    BY <2>1, <2>2, <2>4 DEF IsStore
  <2>6. Alike(db, db') /\ RowsKept(db, pass, db') /\ StoreHolds(db', fresh, adapter)
    BY <2>5, JobAtHand DEF Alike, RowsKept
  <2> QED
    BY <1>1, <1>2, <2>6, MiddleUpholds
<1> QED
  BY <1>5, <1>6

\* when one was found,
LEMMA FindUpholds ==
  ASSUME MirrorInv, pass # None, pass.job # None, First(pass.job) = "note"
  PROVE  FindNote => Upholds /\ RowsKept(db, pass, db')
<1>0. SUFFICES ASSUME FindNote PROVE Upholds /\ RowsKept(db, pass, db')
  OBVIOUS
<1> DEFINE c == IF Scaffold(db, pass.job.id) = None THEN "draft" ELSE "refresh"
           s == <<c, "meta">>
           k == Further(pass.job, s)
<1>1. db' = db /\ fresh' = fresh /\ pass' = [pass EXCEPT !.job.next = <<c>> \o Tail(@)]
  BY <1>0 DEF FindNote
<1>2. pass.job.next = <<"note", "meta">> /\ Tail(pass.job.next) = <<"meta">>
  BY JobAtHand, PlanSteps DEF First
<1>3. Exists(db, pass.job.id) /\ pass.job.note = None
  BY JobAtHand, PlainCall
<1>4. <<c>> \o <<"meta">> = s /\ s \in Plans /\ s # <<"clear">> /\ s # <<"edge", "meta">>
  BY PlansDiffer DEF Plans
<1>5. pass' = [pass EXCEPT !.job = k]
  BY <1>1, <1>2, <1>4, JobAtHand DEF Further, Pass
<1>6. /\ s = <<"refresh", "meta">> => Scaffold(db, pass.job.id) # None
      /\ s = <<"draft", "meta">> => Incoming(db, pass.job.id, "scaffolded_from") = {}
  <2>1. Scaffold(db, pass.job.id) = None => Incoming(db, pass.job.id, "scaffolded_from") = {}
    BY JobAtHand, ScaffoldHolds DEF StoreHolds
  <2>2. <<"refresh", "meta">> # <<"draft", "meta">>
    BY PlansDiffer
  <2> QED
    BY <2>1, <2>2
<1> HIDE DEF s
<1>7. k \in Job /\ k.id = pass.job.id /\ k.ext = pass.job.ext /\ k.note = None /\ k.next = s /\ JobHolds(k, db', fresh, adapter)
  <2>1. JobStays(pass.job, db, db', adapter)
    BY <1>1, JobAtHand DEF JobStays, JobHolds
  <2> QED
    BY <1>3, <1>4, <2>1, JobAtHand, JobNext
<1> HIDE DEF k
<1>8. JobCompletes(k, db')
  BY <1>1, <1>3, <1>4, <1>6, <1>7 DEF JobCompletes
<1>9. pass' \in Pass /\ pass' # None /\ pass'.left = pass.left /\ pass'.job = k
  <2> DEFINE L == UNION {[S -> Id] : S \in SUBSET Ext}
  <2>1. Pass = [unlisted : SUBSET Collection, todo : Seq(Entry), left : L, claimed : SUBSET Key, job : Job \cup {None},
                clean : BOOLEAN]
    BY DEF Pass
  <2> HIDE DEF L
  <2>2. pass' \in Pass /\ pass'.left = pass.left /\ pass'.job = k
    BY <1>5, <1>7, <2>1, JobAtHand
  <2> QED
    BY <2>2, RecordAssumption
<1>10. LeftHolds(pass.left, db')
  BY <1>1, JobAtHand DEF PassHolds
<1>11. PassHolds(pass', db', fresh, adapter)
  BY <1>7, <1>8, <1>9, <1>10, JobAtHand, JobGoesOn
<1>12. HandOf(pass') = HandOf(pass)
  BY <1>3, <1>7, <1>9, JobAtHand, JobForm DEF HandOf
<1>13. NoNewStrays(db, pass, db', pass', adapter) /\ RowsKept(db, pass, db')
  BY <1>1, <1>12, SameStore
<1> QED
  BY <1>1, <1>11, <1>13, JobAtHand DEF Upholds

\* or made, its relation to follow.
LEMMA DraftUpholds ==
  ASSUME MirrorInv, pass # None, pass.job # None, First(pass.job) = "draft"
  PROVE  DraftNote => Upholds /\ RowsKept(db, pass, db')
<1> DEFINE r == NewNote(pass.job.ver, pass.job.project)
           j == pass.job
           k == [ext |-> j.ext, id |-> j.id, project |-> j.project, note |-> fresh, ver |-> j.ver, mark |-> j.mark,
                 next |-> <<"edge", "meta">>]
<1>0. SUFFICES ASSUME DraftNote PROVE Upholds /\ RowsKept(db, pass, db')
  OBVIOUS
<1>1. /\ db' = Insert(db, fresh, r) /\ fresh' = fresh + 1 /\ fresh' \in Id
      /\ pass' = [pass EXCEPT !.job.note = fresh, !.job.next = <<"edge">> \o Tail(@)]
  BY <1>0 DEF DraftNote
<1>2. Exists(db, j.id) /\ j.note = None /\ Incoming(db, j.id, "scaffolded_from") = {}
  <2>1. j.next = <<"draft", "meta">>
    BY JobAtHand, PlanSteps DEF First
  <2> QED
    BY <2>1, JobAtHand, PlansDiffer DEF JobCompletes
<1>3. r \in Row /\ r.table = "note" /\ Allowed(db, fresh, r)
  <2>1. r = [table |-> "note", body |-> j.ver, project |-> j.project]
    BY DEF NewNote
  <2>2. r \in Note /\ r.table = "note" /\ r.project = j.project
    BY <2>1, JobAtHand DEF Note
  <2>3. LinksHold(db, r)
    <3>1. Links(r) = {"project"}
      BY <2>1 DEF Links
    <3>2. j.project # None => IsA(db, j.project, "project")
      BY JobAtHand DEF JobHolds
    <3> QED
      BY <2>2, <3>1, <3>2 DEF LinksHold
  <2>4. KeyFree(db, fresh, r)
    BY <2>2 DEF KeyFree
  <2> QED
    BY <2>2, <2>3, <2>4 DEF Row, Allowed
<1> HIDE DEF r
<1>4. RowAdded(db, fresh, r, db') /\ StoreHolds(db', fresh', adapter)
  BY <1>1, <1>3, JobAtHand, InsertHolds DEF RowAdded
<1>5. /\ \A i : Exists(db', i) <=> Exists(db, i) \/ i = fresh
      /\ \A i, t : IsA(db, i, t) => IsA(db', i, t)
      /\ db'.row[fresh] = r
  BY <1>4, NewRow
<1>6. pass' \in Pass /\ pass' # None /\ pass'.left = pass.left /\ pass'.job = k
  <2>1. Tail(pass.job.next) = <<"meta">>
    BY JobAtHand, PlanSteps DEF First
  <2>2. <<"edge">> \o Tail(pass.job.next) = <<"edge", "meta">>
    BY <2>1, PlansDiffer
  <2>3. pass' = [pass EXCEPT !.job = [pass.job EXCEPT !.note = fresh, !.next = <<"edge", "meta">>]]
    BY <1>1, <2>2, JobAtHand DEF Pass
  <2>4. pass' = [pass EXCEPT !.job = k]
    <3> DEFINE w == <<"edge", "meta">>
    <3> HIDE DEF w
    <3>1. j = [ext |-> j.ext, id |-> j.id, project |-> j.project, note |-> j.note, ver |-> j.ver, mark |-> j.mark,
               next |-> j.next]
      BY JobAtHand, JobForm
    <3> DEFINE m == [ext |-> j.ext, id |-> j.id, project |-> j.project, note |-> fresh, ver |-> j.ver, mark |-> j.mark,
                     next |-> j.next]
    <3>2. [j EXCEPT !.note = fresh] = m
      BY <3>1
    <3>3. [m EXCEPT !.next = w] = [ext |-> j.ext, id |-> j.id, project |-> j.project, note |-> fresh, ver |-> j.ver,
                                   mark |-> j.mark, next |-> w]
      OBVIOUS
    <3>4. [j EXCEPT !.note = fresh, !.next = w] = [[j EXCEPT !.note = fresh] EXCEPT !.next = w]
      OBVIOUS
    <3> HIDE DEF m
    <3>5. [j EXCEPT !.note = fresh, !.next = w] = [ext |-> j.ext, id |-> j.id, project |-> j.project, note |-> fresh,
                                                   ver |-> j.ver, mark |-> j.mark, next |-> w]
      BY <3>2, <3>3, <3>4
    <3> QED
      BY <2>3, <3>5 DEF w
  <2>5. k \in Job
    <3>1. <<"edge", "meta">> \in Seq(Call)
      BY PlanSteps DEF Plans
    <3> QED
      BY <3>1, JobAtHand DEF Job, OptId
  <2> HIDE DEF k
  <2> DEFINE L == UNION {[S -> Id] : S \in SUBSET Ext}
  <2>6. Pass = [unlisted : SUBSET Collection, todo : Seq(Entry), left : L, claimed : SUBSET Key, job : Job \cup {None},
                clean : BOOLEAN]
    BY DEF Pass
  <2> HIDE DEF L
  <2>7. pass' \in Pass /\ pass'.left = pass.left /\ pass'.job = k
    BY <2>4, <2>5, <2>6, JobAtHand
  <2> QED
    BY <2>7, RecordAssumption
<1>7. k \in Job /\ k.id = j.id /\ k.ext = j.ext /\ k.note = fresh /\ k.project = j.project /\ k.next = <<"edge", "meta">>
  <2>1. <<"edge", "meta">> \in Seq(Call)
    BY PlanSteps DEF Plans
  <2> QED
    BY <2>1, JobAtHand DEF Job, OptId
<1> HIDE DEF k
<1>8. fresh < fresh' /\ fresh \in Nat /\ fresh' \in Nat
  BY <1>1, JobAtHand, Numbers
<1>9. JobHolds(k, db', fresh', adapter)
  <2>1. JobHolds(j, db, fresh, adapter) /\ j.id \in Nat /\ native < j.id /\ j.id < fresh
    BY JobAtHand, Numbers
  <2>2. j.id < fresh'
    BY <1>8, <2>1
  <2>3. j.id \in DOMAIN db'.row => db'.row[j.id].table = TableOf[adapter]
    BY <1>2, <1>5, <2>1 DEF JobHolds, IsA, Exists
  <2>4. db'.meta = db.meta
    BY <1>4 DEF RowAdded
  <2>5. <<"edge", "meta">> \in Plans
    BY DEF Plans
  <2> QED
    BY <1>5, <1>7, <1>8, <2>1, <2>2, <2>3, <2>4, <2>5, JobAtHand DEF JobHolds
<1>10. JobCompletes(k, db')
  <2>1. Incoming(db', j.id, "scaffolded_from") = {}
    BY <1>2, <1>4 DEF Incoming, RowAdded
  <2>2. Exists(db', j.id) /\ IsA(db', fresh, "note")
    BY <1>2, <1>3, <1>5 DEF IsA
  <2>3. fresh # None
    BY JobAtHand, Numbers
  <2> QED
    BY <1>7, <2>1, <2>2, <2>3, PlansDiffer DEF JobCompletes
<1>11. LeftHolds(pass.left, db')
  <2>1. db'.meta = db.meta
    BY <1>4 DEF RowAdded
  <2> QED
    BY <2>1, JobAtHand DEF PassHolds, LeftHolds
<1>12. PassHolds(pass', db', fresh', adapter)
  BY <1>6, <1>7, <1>9, <1>10, <1>11, JobAtHand, JobGoesOn
<1>13. NoNewStrays(db, pass, db', pass', adapter) /\ RowsKept(db, pass, db')
  <2>1. HandOf(pass') = {j.id, fresh} \cap Id
    BY <1>6, <1>7, JobForm DEF HandOf
  <2>2. HandOf(pass) = {j.id} \cap Id
    BY <1>2, JobAtHand, Numbers
  <2>3. HandOf(pass) \cup {fresh} \subseteq HandOf(pass')
    BY <2>1, <2>2, JobAtHand
  <2> QED
    BY <1>4, <2>3, NewRowStrays
<1> QED
  BY <1>4, <1>12, <1>13 DEF Upholds

\* A new note gets its relation.
LEMMA EdgeUpholds ==
  ASSUME MirrorInv, pass # None, pass.job # None, First(pass.job) = "edge"
  PROVE  db' = AddRelation(db, ScaffoldEdge(pass.job.note, pass.job.id)) /\ Done /\ fresh' = fresh
           => Upholds /\ RowsKept(db, pass, db')
<1> DEFINE j == pass.job
           s == <<"meta">>
<1>1. SUFFICES ASSUME db' = AddRelation(db, ScaffoldEdge(j.note, j.id)), Done, fresh' = fresh
               PROVE  Upholds /\ RowsKept(db, pass, db')
  OBVIOUS
<1>2. Rest(j) = s /\ s # <<>> /\ j.note # None /\ Incoming(db, j.id, "scaffolded_from") = {} /\ Exists(db, j.id)
      /\ IsA(db, j.note, "note")
  <2>1. j.next = <<"edge", "meta">> /\ Rest(j) = s /\ s # <<>>
    BY JobAtHand, PlanSteps DEF First, Rest
  <2> QED
    BY <2>1, JobAtHand, PlansDiffer DEF JobCompletes
<1>3. s \in PlainPlans /\ s \in Plans
  BY PlansDiffer DEF PlainPlans, Plans
<1> HIDE DEF s
<1>4. j.note \in Id /\ native < j.note /\ j.note < fresh
  BY <1>2, JobAtHand DEF OptId, JobHolds
<1>5. /\ db'.row = db.row /\ db'.edge = db.edge \cup {ScaffoldEdge(j.note, j.id)} /\ db'.meta = db.meta
      /\ StoreHolds(db', fresh, adapter)
  BY <1>1, <1>2, <1>4, JobAtHand, EdgeIsAdded
<1>6. pass' \in Pass /\ pass'.left = pass.left /\ pass'.job = Further(j, s) /\ pass' # None
  BY <1>1, <1>2, JobAtHand, DoneForm
<1> DEFINE k == Further(j, s)
<1>7. k \in Job /\ k.id = j.id /\ k.ext = j.ext /\ k.note = j.note /\ k.next = s /\ JobHolds(k, db', fresh, adapter)
  <2>1. JobStays(j, db, db', adapter)
    BY <1>5, JobAtHand DEF JobStays, JobHolds, IsA, Exists
  <2> QED
    BY <1>3, <2>1, JobAtHand, JobNext
<1> HIDE DEF k
<1>8. JobCompletes(k, db')
  <2>1. \E e \in db'.edge : e.from = j.note
    <3>1. \A m, i : ScaffoldEdge(m, i).from = m
      BY DEF ScaffoldEdge
    <3>2. ScaffoldEdge(j.note, j.id) \in db'.edge
      BY <1>5
    <3> QED
      BY <3>1, <3>2
  <2>2. Exists(db', j.id) /\ IsA(db', j.note, "note")
    BY <1>2, <1>5 DEF Exists, IsA
  <2>3. s # <<"clear">> /\ s # <<"edge", "meta">> /\ s = <<"meta">>
    BY PlansDiffer DEF s
  <2> QED
    BY <1>7, <2>1, <2>2, <2>3 DEF JobCompletes
<1>9. LeftHolds(pass.left, db')
  BY <1>5, JobAtHand DEF PassHolds, LeftHolds
<1>10. PassHolds(pass', db', fresh, adapter)
  BY <1>6, <1>7, <1>8, <1>9, JobAtHand, JobGoesOn DEF k
<1>11. HandOf(pass') = HandOf(pass)
  BY <1>6, <1>7, JobAtHand, JobForm DEF HandOf, k
<1>12. NoNewStrays(db, pass, db', pass', adapter) /\ RowsKept(db, pass, db')
  <2>1. \A t : Rows(db', t) = Rows(db, t)
    BY <1>5 DEF Rows
  <2>2. \A i : Exists(db', i) <=> Exists(db, i)
    BY <1>5 DEF Exists
  <2>3. StrayRows(db', pass', adapter) \subseteq StrayRows(db, pass, adapter)
    BY <1>5, <1>11, <2>1 DEF StrayRows
  <2>4. StrayMeta(db', pass') \subseteq StrayMeta(db, pass)
    BY <1>5, <1>11, <2>2 DEF StrayMeta
  <2>5. StrayNotes(db', pass') \subseteq StrayNotes(db, pass)
    BY <1>5, <1>11, <2>1 DEF StrayNotes
  <2>6. RowsKept(db, pass, db')
    BY <1>5 DEF RowsKept
  <2> QED
    BY <2>3, <2>4, <2>5, <2>6 DEF NoNewStrays
<1> QED
  BY <1>1, <1>5, <1>10, <1>12 DEF Upholds

\* The last call of a plan leaves the pass without a job.
LEMMA LastCall ==
  ASSUME MirrorInv, pass # None, pass.job # None, Rest(pass.job) = <<>>
  PROVE  Done => pass' \in Pass /\ pass' # None /\ pass'.left = pass.left /\ pass'.job = None /\ HandOf(pass') = {}
BY JobAtHand, DoneForm DEF HandOf

\* The metadata, which makes the row the image of its item.
LEMMA MetaUpholds ==
  ASSUME MirrorInv, pass # None, pass.job # None, First(pass.job) = "meta"
  PROVE  db' = SetMeta(db, pass.job.id, [provider |-> adapter, ext |-> pass.job.ext, hash |-> pass.job.mark])
           /\ Done /\ fresh' = fresh
           => Upholds /\ RowsKept(db, pass, db')
<1> DEFINE j == pass.job
           m == [provider |-> adapter, ext |-> j.ext, hash |-> j.mark]
<1>1. SUFFICES ASSUME db' = SetMeta(db, j.id, m), Done, fresh' = fresh
               PROVE  Upholds /\ RowsKept(db, pass, db')
  OBVIOUS
<1>2. /\ Rest(j) = <<>> /\ Exists(db, j.id)
      /\ j.note # None => IsA(db, j.note, "note") /\ \E e \in db.edge : e.from = j.note
  <2>1. j.next = <<"meta">> /\ Rest(j) = <<>>
    BY JobAtHand, PlanSteps DEF First, Rest
  <2> QED
    BY <2>1, JobAtHand, PlansDiffer DEF JobCompletes
<1>3. m \in SyncMetadata /\ m.provider = adapter
  BY JobAtHand DEF SyncMetadata
<1>4. j.id \in DOMAIN db.row /\ db.row[j.id].table = TableOf[adapter]
  BY <1>2, JobAtHand DEF JobHolds, Exists
<1> HIDE DEF m
<1>5. db'.row = db.row /\ db'.edge = db.edge /\ db'.meta = Put(db.meta, j.id, m) /\ StoreHolds(db', fresh, adapter)
  BY <1>1, <1>3, <1>4, JobAtHand, MetaIsSet
<1>6. pass' \in Pass /\ pass'.left = pass.left /\ pass'.job = None /\ HandOf(pass') = {}
  BY <1>1, <1>2, LastCall
<1>7. DOMAIN db'.meta = DOMAIN db.meta \cup {j.id} /\ \A i \in DOMAIN db.meta \ {j.id} : db'.meta[i] = db.meta[i]
  BY <1>5 DEF Put
<1>8. LeftHolds(pass.left, db')
  BY <1>7, JobAtHand, LeftStays
<1>9. PassHolds(pass', db', fresh, adapter)
  BY <1>6, <1>8, JobAtHand, JobGoesOn
<1>10. NoNewStrays(db, pass, db', pass', adapter)
  <2>1. TableOf[adapter] # "note"
    BY JobAtHand, TablesOf
  <2>2. \A i \in HandOf(pass) : i = j.id \/ (i = j.note /\ IsA(db, i, "note") /\ \E e \in db.edge : e.from = i)
    BY <1>2, JobAtHand, Numbers
  <2>3. \A t : Rows(db', t) = Rows(db, t)
    BY <1>5 DEF Rows
  <2>4. \A i : Exists(db', i) <=> Exists(db, i)
    BY <1>5 DEF Exists
  <2>5. StrayRows(db', pass', adapter) \subseteq StrayRows(db, pass, adapter)
    BY <1>7, <2>1, <2>2, <2>3 DEF StrayRows, Rows, IsA
  <2>6. StrayMeta(db', pass') \subseteq StrayMeta(db, pass)
    BY <1>2, <1>7, <2>2, <2>4 DEF StrayMeta, IsA
  <2>7. StrayNotes(db', pass') \subseteq StrayNotes(db, pass)
    BY <1>4, <1>5, <2>1, <2>2, <2>3 DEF StrayNotes, Rows
  <2> QED
    BY <2>5, <2>6, <2>7 DEF NoNewStrays
<1>11. RowsKept(db, pass, db')
  BY <1>5 DEF RowsKept
<1> QED
  BY <1>1, <1>5, <1>9, <1>10, <1>11 DEF Upholds

\* The metadata of a deleted row goes too.
LEMMA ClearUpholds ==
  ASSUME MirrorInv, pass # None, pass.job # None, First(pass.job) = "clear"
  PROVE  db' = ClearMeta(db, pass.job.id) /\ Done /\ fresh' = fresh => Upholds /\ RowsKept(db, pass, db')
<1> DEFINE j == pass.job
<1>1. SUFFICES ASSUME db' = ClearMeta(db, j.id), Done, fresh' = fresh
               PROVE  Upholds /\ RowsKept(db, pass, db')
  OBVIOUS
<1>2. Rest(j) = <<>> /\ ~Exists(db, j.id) /\ j.note = None
  <2>1. j.next = <<"clear">> /\ Rest(j) = <<>>
    BY JobAtHand, PlanSteps DEF First, Rest
  <2> QED
    BY <2>1, JobAtHand, PlansDiffer DEF JobCompletes
<1>3. db'.row = db.row /\ db'.edge = db.edge /\ db'.meta = Drop(db.meta, {j.id}) /\ StoreHolds(db', fresh, adapter)
  BY <1>1, JobAtHand, ClearHolds
<1>4. pass' \in Pass /\ pass'.left = pass.left /\ pass'.job = None /\ HandOf(pass') = {}
  BY <1>1, <1>2, LastCall
<1>5. DOMAIN db'.meta = DOMAIN db.meta \ {j.id} /\ \A i \in DOMAIN db'.meta : db'.meta[i] = db.meta[i]
  BY <1>3 DEF Drop
<1>6. LeftHolds(pass.left, db')
  BY <1>5, JobAtHand, LeftStays
<1>7. PassHolds(pass', db', fresh, adapter)
  BY <1>4, <1>6, JobAtHand, JobGoesOn
<1>8. NoNewStrays(db, pass, db', pass', adapter)
  <2>1. \A i \in HandOf(pass) : i = j.id
    BY <1>2, JobAtHand, Numbers
  <2>2. \A t : Rows(db', t) = Rows(db, t) /\ j.id \notin Rows(db, t)
    BY <1>2, <1>3 DEF Rows, Exists
  <2>3. \A i : Exists(db', i) <=> Exists(db, i)
    BY <1>3 DEF Exists
  <2>4. StrayRows(db', pass', adapter) \subseteq StrayRows(db, pass, adapter)
    BY <1>5, <2>1, <2>2 DEF StrayRows
  <2>5. StrayMeta(db', pass') \subseteq StrayMeta(db, pass)
    BY <1>5, <2>1, <2>3 DEF StrayMeta
  <2>6. StrayNotes(db', pass') \subseteq StrayNotes(db, pass)
    BY <1>3, <2>1, <2>2 DEF StrayNotes
  <2> QED
    BY <2>4, <2>5, <2>6 DEF NoNewStrays
<1>9. RowsKept(db, pass, db')
  BY <1>3 DEF RowsKept
<1> QED
  BY <1>1, <1>3, <1>7, <1>8, <1>9 DEF Upholds

\* The calls that follow a row.
LEMMA CallUpholds ==
  ASSUME MirrorInv
  PROVE  DoCall => Upholds /\ RowsKept(db, pass, db')
<1>1. SUFFICES ASSUME DoCall PROVE Upholds /\ RowsKept(db, pass, db')
  OBVIOUS
<1>2. pass # None /\ pass.job # None
  BY <1>1 DEF DoCall
<1>3. First(pass.job) \in Call
  BY <1>2, JobAtHand, PlanSteps DEF First
<1>4. CASE First(pass.job) = "note"
  <2>1. FindNote
    BY <1>1, <1>4 DEF DoCall, First
  <2> QED
    BY <1>2, <1>4, <2>1, FindUpholds
<1>5. CASE First(pass.job) = "draft"
  <2>1. DraftNote
    BY <1>1, <1>5 DEF DoCall, First
  <2> QED
    BY <1>2, <1>5, <2>1, DraftUpholds
<1>6. CASE First(pass.job) \notin {"note", "draft"}
  <2>1. db' = After(pass.job, First(pass.job)) /\ Done /\ fresh' = fresh
    BY <1>1, <1>6 DEF DoCall, First
  <2>7. CASE First(pass.job) = "refresh"
    <3>1. db' = Update(db, Scaffold(db, pass.job.id), NotePatch([body |-> pass.job.ver]))
      BY <2>1, <2>7 DEF After
    <3> QED
      BY <1>2, <2>1, <2>7, <3>1, RefreshUpholds
  <2>2. CASE First(pass.job) = "tags"
    <3>1. db' = SetTags(db, pass.job.id, pass.job.ver)
      BY <2>1, <2>2 DEF After
    <3> QED
      BY <1>2, <2>1, <2>2, <3>1, TagsUpholds
  <2>3. CASE First(pass.job) = "edge"
    <3>1. db' = AddRelation(db, ScaffoldEdge(pass.job.note, pass.job.id))
      BY <2>1, <2>3 DEF After
    <3> QED
      BY <1>2, <2>1, <2>3, <3>1, EdgeUpholds
  <2>4. CASE First(pass.job) = "metrics"
    <3>1. db' = Update(db, pass.job.id, ExperimentPatch([body |-> pass.job.ver]))
      BY <2>1, <2>4 DEF After
    <3> QED
      BY <1>2, <2>1, <2>4, <3>1, MetricsUpholds
  <2>5. CASE First(pass.job) = "meta"
    <3>1. db' = SetMeta(db, pass.job.id, [provider |-> adapter, ext |-> pass.job.ext, hash |-> pass.job.mark])
      BY <2>1, <2>5 DEF After
    <3> QED
      BY <1>2, <2>1, <2>5, <3>1, MetaUpholds
  <2>6. CASE First(pass.job) = "clear"
    <3>1. db' = ClearMeta(db, pass.job.id)
      BY <2>1, <2>6 DEF After
    <3> QED
      BY <1>2, <2>1, <2>6, <3>1, ClearUpholds
  <2> QED
    BY <1>3, <1>6, <2>2, <2>3, <2>4, <2>5, <2>6, <2>7 DEF Call
<1> QED
  BY <1>4, <1>5, <1>6

\* What the walk did not meet is deleted.
LEMMA DeleteUpholds ==
  ASSUME MirrorInv
  PROVE  ApplyDelete => Upholds /\ RowsKept(db, pass, db')
<1>1. SUFFICES ASSUME ApplyDelete PROVE Upholds /\ RowsKept(db, pass, db')
  OBVIOUS
<1>2. PICK x \in DOMAIN pass.left :
        /\ db' = Delete(db, pass.left[x])
        /\ pass' = [pass EXCEPT !.left = Drop(@, {x}),
                      !.job = JobFor([ext |-> x, ver |-> 0, mark |-> 0], pass.left[x], None, <<"clear">>)]
  BY <1>1 DEF ApplyDelete
<1>3. pass # None /\ pass.job = None /\ fresh' = fresh
  BY <1>1 DEF ApplyDelete, Walked, Free
<1>4. /\ StoreHolds(db, fresh, adapter) /\ PassHolds(pass, db, fresh, adapter) /\ pass \in Pass
      /\ fresh \in Id /\ adapter \in Provider
  BY <1>3 DEF MirrorInv, WorldHolds, PassHolds
<1> DEFINE i == pass.left[x]
           e == [ext |-> x, ver |-> 0, mark |-> 0]
           s == <<"clear">>
           j == [ext |-> x, id |-> i, project |-> None, note |-> None, ver |-> 0, mark |-> 0, next |-> s]
           l == Drop(pass.left, {x})
<1>5. i \in Id /\ native < i /\ i < fresh /\ i \in DOMAIN db.meta /\ db.meta[i].ext = x /\ x \in Ext
  BY <1>4 DEF PassHolds, LeftHolds, StoreHolds, MetaHolds
<1>6. /\ db'.row = Drop(db.row, {i}) /\ db'.edge = db.edge /\ db'.meta = db.meta
      /\ StoreHolds(db', fresh, adapter)
  BY <1>2, <1>4, <1>5, DeleteHolds
<1>7. /\ DOMAIN db'.row = DOMAIN db.row \ {i}
      /\ \A k \in DOMAIN db'.row : db'.row[k] = db.row[k]
  BY <1>6 DEF Drop
<1>8. pass' = [pass EXCEPT !.left = l, !.job = j]
  BY <1>2 DEF JobFor
<1>9. s \in Plans /\ s \in Seq(Call)
  BY PlanSteps DEF Plans
<1>10. s = <<"clear">> /\ s # <<"edge", "meta">>
  BY PlansDiffer
<1>11. l \in [DOMAIN l -> Id] /\ DOMAIN l \subseteq Ext
  BY <1>4 DEF PassHolds, LeftHolds, Drop
<1> HIDE DEF i, s, l
<1>12. /\ j \in Job /\ j.id = i /\ j.ext = x /\ j.note = None /\ j.project = None /\ j.next = s
  BY <1>5, <1>9, Numbers DEF Job, OptId
<1> HIDE DEF j
<1>13. JobHolds(j, db', fresh, adapter)
  BY <1>5, <1>6, <1>7, <1>9, <1>12 DEF JobHolds
<1>14. JobCompletes(j, db')
  BY <1>7, <1>10, <1>12 DEF JobCompletes, Exists
<1>15. TakenBy(pass, e, j, pass')
  <2>1. l \in UNION {[S -> Id] : S \in SUBSET Ext}
    BY <1>11
  <2> DEFINE L == UNION {[S -> Id] : S \in SUBSET Ext}
  <2>2. Pass = [unlisted : SUBSET Collection, todo : Seq(Entry), left : L, claimed : SUBSET Key, job : Job \cup {None},
                clean : BOOLEAN]
    BY DEF Pass
  <2> HIDE DEF L
  <2>3. pass' \in Pass /\ pass'.left = l /\ pass'.job = j
    BY <1>4, <1>8, <1>12, <2>1, <2>2 DEF L
  <2> QED
    BY <2>3, RecordAssumption DEF TakenBy, l
<1>16. PassHolds(pass', db', fresh, adapter)
  <2>1. j.ext = e.ext
    BY <1>12
  <2> QED
    BY <1>4, <1>6, <1>13, <1>14, <1>15, <2>1, TakenHolds
<1>17. HandOf(pass) = {} /\ i \in HandOf(pass')
  BY <1>3, <1>5, <1>12, <1>15, JobForm DEF HandOf, TakenBy
<1>18. NoNewStrays(db, pass, db', pass', adapter)
  <2>1. \A t : Rows(db', t) \subseteq Rows(db, t)
    BY <1>7 DEF Rows
  <2>2. \A k : k # i => (Exists(db', k) <=> Exists(db, k))
    BY <1>7 DEF Exists
  <2>3. StrayRows(db', pass', adapter) \subseteq StrayRows(db, pass, adapter)
    BY <1>6, <1>17, <2>1 DEF StrayRows
  <2>4. StrayMeta(db', pass') \subseteq StrayMeta(db, pass)
    BY <1>6, <1>17, <2>2 DEF StrayMeta
  <2>5. StrayNotes(db', pass') \subseteq StrayNotes(db, pass)
    BY <1>6, <1>17, <2>1 DEF StrayNotes
  <2> QED
    BY <2>3, <2>4, <2>5 DEF NoNewStrays
<1>19. RowsKept(db, pass, db')
  BY <1>5, <1>7 DEF RowsKept
<1> QED
  BY <1>3, <1>6, <1>16, <1>18, <1>19 DEF Upholds

\* Every step of a pass.
LEMMA SyncUpholds ==
  ASSUME MirrorInv
  PROVE  Sync => Upholds /\ RowsKept(db, pass, db')
<1>1. SUFFICES ASSUME Sync PROVE Upholds /\ RowsKept(db, pass, db')
  OBVIOUS
<1>2. CASE ListCalendar
  BY <1>2, ListUpholds
<1>3. CASE Apply
  BY <1>3, ApplyUpholds
<1>4. CASE DoCall
  BY <1>4, CallUpholds
<1>5. CASE ApplyDelete
  BY <1>5, DeleteUpholds
<1>6. CASE Finish
  BY <1>6, FinishUpholds
<1> QED
  BY <1>1, <1>2, <1>3, <1>4, <1>5, <1>6 DEF Sync

\* Every step but a cancelled pass keeps the store in order and leaves nothing behind.
LEMMA NextUpholds ==
  ASSUME MirrorInv
  PROVE  Next => Upholds \/ Cancel
<1>1. SUFFICES ASSUME Next PROVE Upholds \/ Cancel
  OBVIOUS
<1>2. CASE Reload \/ (\E x \in Ext : Change(x) \/ Vanish(x)) \/ (\E c \in Collection : Outage(c) \/ Recovery(c))
  BY <1>2, WorldUpholds
<1>3. ASSUME NEW i \in Id, Attach(i) PROVE Upholds
  BY <1>3, AttachUpholds
<1>4. CASE Begin
  BY <1>4, BeginUpholds
<1>5. CASE Sync
  BY <1>5, SyncUpholds
<1> QED
  BY <1>1, <1>2, <1>3, <1>4, <1>5 DEF Next

\* The empty store, and the one with the project of the trackers' configuration.
LEMMA SeedHolds ==
  ASSUME NEW a, NEW d, d \in {Empty, Insert(Empty, project, NewProject(0))}
  PROVE  StoreHolds(d, native, a) /\ d.meta = <<>> /\ d.edge = {} /\ \A i \in DOMAIN d.row : d.row[i].table = "project"
<1> USE Numbers
<1> DEFINE E == Empty
           P == NewProject(0)
<1>1. E.row = <<>> /\ E.edge = {} /\ E.tag = <<>> /\ E.meta = <<>> /\ IsStore(E)
  BY DEF Empty, IsStore
<1>2. DOMAIN <<>> = {}
  OBVIOUS
<1>3. P \in Row /\ P.table = "project"
  BY DEF NewProject, Row, Project
<1>4. Insert(E, project, P) = [row |-> Put(E.row, project, P), edge |-> E.edge, tag |-> E.tag, meta |-> E.meta]
  BY <1>1, InsertIs
<1> HIDE DEF E, P
<1>5. /\ d.edge = {} /\ d.tag = <<>> /\ d.meta = <<>> /\ IsStore(d)
      /\ d.row = <<>> \/ d.row = Put(<<>>, project, P)
  BY <1>1, <1>4 DEF E, P, IsStore
<1>6. DOMAIN d.row \subseteq {project} /\ d.row \in [DOMAIN d.row -> Row] /\ \A i \in DOMAIN d.row : d.row[i] = P
  <2>1. CASE d.row = <<>>
    BY <1>2, <2>1
  <2>2. CASE d.row = Put(<<>>, project, P)
    <3>1. d.row = [y \in {project} |-> P]
      BY <1>2, <2>2 DEF Put
    <3> QED
      BY <1>3, <3>1
  <2> QED
    BY <1>5, <2>1, <2>2
<1>7. Consistent(d)
  <2>1. Links(P) = {}
    BY <1>3, RowParts
  <2> QED
    BY <1>3, <1>6, <2>1 DEF Consistent, Allowed, LinksHold, KeyFree
<1>8. RowsHold(d, native)
  <2>1. IsFiniteSet(DOMAIN d.row)
    <3>1. IsFiniteSet({project})
      BY FS_Singleton
    <3> QED
      BY <1>6, <3>1, FS_Subset
  <2>2. project < native /\ project \in Id
    OBVIOUS
  <2> QED
    BY <1>3, <1>6, <1>7, <2>1, <2>2 DEF RowsHold
<1>9. MetaHolds(d, native, a)
  <2>1. IsFiniteSet({})
    BY FS_EmptySet
  <2>2. DOMAIN d.meta = {}
    BY <1>2, <1>5
  <2>3. d.meta \in [DOMAIN d.meta -> SyncMetadata]
    BY <1>2, <1>5
  <2> QED
    BY <2>1, <2>2, <2>3 DEF MetaHolds
<1>10. EdgesHold(d, native)
  <2>1. IsFiniteSet({})
    BY FS_EmptySet
  <2>2. DOMAIN d.tag = {}
    BY <1>2, <1>5
  <2> QED
    BY <1>5, <2>1, <2>2 DEF EdgesHold
<1> QED
  BY <1>3, <1>5, <1>6, <1>8, <1>9, <1>10 DEF StoreHolds

\* The row no adapter made.
LEMMA NativeHolds ==
  ASSUME NEW r \in NativeRows
  PROVE  r \in Row /\ r.table \notin {"project", "flashcard", "note"} /\ Links(r) = {"project"} /\ r.project = None
<1>1. CASE r = [table |-> "task", body |-> 0, project |-> None]
  BY <1>1, Numbers DEF Row, Task, Links, OptId
<1>2. ASSUME NEW k \in Key, r = NewReference(0, k)
      PROVE  r \in Row /\ r.table \notin {"project", "flashcard", "note"} /\ Links(r) = {"project"} /\ r.project = None
  <2>1. r = [table |-> "ref", body |-> 0, citekey |-> k, project |-> None]
    BY <1>2 DEF NewReference
  <2> QED
    BY <2>1, Numbers DEF Row, Reference, Links, OptId
<1> QED
  BY <1>1, <1>2 DEF NativeRows

\* The store a daemon finds: with one row of the user's, and nothing imported.
LEMMA FirstStore ==
  ASSUME NEW a, NEW d, d \in {Empty, Insert(Empty, project, NewProject(0))}, NEW r \in NativeRows
  PROVE  LET s == Insert(d, native, r) IN
           /\ StoreHolds(s, 3, a) /\ DOMAIN s.meta = {} /\ s.edge = {}
           /\ \A i \in DOMAIN s.row : i = native \/ s.row[i].table = "project"
           /\ s.row[native].table # "note"
<1> DEFINE s == Insert(d, native, r)
<1>1. StoreHolds(d, native, a) /\ d.meta = <<>> /\ d.edge = {} /\ \A i \in DOMAIN d.row : d.row[i].table = "project"
  BY SeedHolds
<1>2. r \in Row /\ r.table \notin {"project", "flashcard", "note"} /\ Links(r) = {"project"} /\ r.project = None
  BY NativeHolds
<1>3. Allowed(d, native, r)
  <2>1. LinksHold(d, r)
    BY <1>2, TablesOf DEF LinksHold, NativeRows, NewReference
  <2>2. Rows(d, "ref") = {}
    BY <1>1 DEF Rows
  <2> QED
    BY <2>1, <2>2 DEF Allowed, KeyFree
<1>4. native \in Id /\ native + 1 = 3 /\ 3 \in Id
  BY Numbers
<1>5. /\ s.row = Put(d.row, native, r) /\ s.edge = d.edge /\ s.meta = d.meta
      /\ StoreHolds(s, native + 1, a)
  BY <1>1, <1>2, <1>3, <1>4, InsertHolds
<1> HIDE DEF s
<1>6. StoreHolds(s, 3, a)
  BY <1>4, <1>5
<1>7. /\ \A i \in DOMAIN s.row : i = native \/ s.row[i].table = "project"
      /\ s.row[native].table # "note"
  BY <1>1, <1>2, <1>5 DEF Put
<1>8. DOMAIN s.meta = {} /\ s.edge = {}
  BY <1>1, <1>5
<1> QED
  BY <1>6, <1>7, <1>8 DEF s

\* The initial states.
LEMMA InitHolds ==
  ASSUME Init
  PROVE  MirrorInv /\ StrayInv
<1>1. PICK known \in (IF adapter \in Tracker THEN BOOLEAN ELSE {TRUE}), r \in NativeRows :
        db = Insert(IF known THEN Insert(Empty, project, NewProject(0)) ELSE Empty, native, r)
  BY DEF Init
<1> DEFINE d == IF known THEN Insert(Empty, project, NewProject(0)) ELSE Empty
<1>2. d \in {Empty, Insert(Empty, project, NewProject(0))} /\ db = Insert(d, native, r)
  BY <1>1
<1> HIDE DEF d
<1>3. /\ StoreHolds(db, 3, adapter) /\ DOMAIN db.meta = {} /\ db.edge = {}
      /\ \A i \in DOMAIN db.row : i = native \/ db.row[i].table = "project"
      /\ db.row[native].table # "note"
  <2> DEFINE s == Insert(d, native, r)
  <2>1. /\ StoreHolds(s, 3, adapter) /\ DOMAIN s.meta = {} /\ s.edge = {}
        /\ \A i \in DOMAIN s.row : i = native \/ s.row[i].table = "project"
        /\ s.row[native].table # "note"
    BY <1>2, FirstStore
  <2>2. db = s
    BY <1>2
  <2> HIDE DEF s
  <2> QED
    BY <2>1, <2>2
<1>4. WorldHolds
  <2>1. adapter \in Provider /\ adapter \in DOMAIN TableOf
    BY TablesOf DEF Init
  <2> QED
    BY <2>1, Numbers DEF Init, WorldHolds
<1>5. MirrorInv
  BY <1>3, <1>4 DEF Init, MirrorInv
<1>6. StrayRows(db, pass, adapter) = {} /\ StrayMeta(db, pass) = {} /\ StrayNotes(db, pass) = {}
  <2>1. TableOf[adapter] # "project"
    BY TablesOf DEF Init
  <2> QED
    BY <1>3, <2>1 DEF StrayRows, StrayMeta, StrayNotes, Rows
<1>7. cancels = 0 /\ Cardinality({}) = 0
  BY FS_EmptySet DEF Init
<1>8. StrayInv
  BY <1>6, <1>7 DEF StrayInv
<1> QED
  BY <1>5, <1>8

\* A cancelled pass leaves the store as it is.
LEMMA CancelUpholds ==
  ASSUME MirrorInv, Cancel, WorldHolds', adapter' = adapter
  PROVE  MirrorInv'
<1>1. db' = db /\ fresh' = fresh /\ pass' = None
  BY DEF Cancel
<1>2. StoreHolds(db', fresh', adapter')
  BY <1>1 DEF MirrorInv
<1> QED
  BY <1>1, <1>2 DEF MirrorInv

\* The store keeps its constraints, rows, metadata and relations their types and what
\* ties them together, and a pass in the middle of an item knows what it has written.
THEOREM MirrorInvariant == Spec => []MirrorInv
<1>1. Init => MirrorInv
  BY InitHolds
<1>2. MirrorInv /\ [Next]_vars => MirrorInv'
  <2> SUFFICES ASSUME MirrorInv, [Next]_vars PROVE MirrorInv'
    OBVIOUS
  <2>1. CASE Next
    <3>1. WorldHolds' /\ adapter' = adapter
      BY <2>1, WorldStep DEF MirrorInv
    <3>2. CASE Cancel
      BY <3>1, <3>2, CancelUpholds
    <3>3. CASE Upholds
      <4>1. StoreHolds(db', fresh', adapter') /\ (pass' # None => PassHolds(pass', db', fresh', adapter'))
        BY <3>1, <3>3 DEF Upholds
      <4> QED
        BY <3>1, <4>1 DEF MirrorInv
    <3> QED
      BY <2>1, <3>2, <3>3, NextUpholds
  <2>2. CASE UNCHANGED vars
    BY <2>2 DEF MirrorInv, WorldHolds, vars, world, bounds
  <2> QED
    BY <2>1, <2>2
<1> QED
  BY <1>1, <1>2, PTL DEF Spec

\* Rows that no pass imported stay as they are, and those that survive keep their project.
THEOREM UsersDataAreKept == Spec => UsersDataKept
<1>1. ASSUME MirrorInv, Sync, NEW id \in DOMAIN db.row
      PROVE  /\ id \notin DOMAIN db.meta \cup Scaffolds \cup InHand
                  => Exists(db', id) /\ db'.row[id] = db.row[id]
             /\ Exists(db', id) /\ "project" \in DOMAIN db.row[id]
                  => db'.row[id].project = db.row[id].project
  <2>1. RowsKept(db, pass, db')
    BY <1>1, SyncUpholds
  <2>2. HandOf(pass) \subseteq InHand
    BY DEF HandOf, InHand
  <2>3. Scaffolds = {e.from : e \in db.edge}
    BY DEF Scaffolds
  <2> QED
    BY <2>1, <2>2, <2>3 DEF RowsKept, Exists
<1>2. MirrorInv /\ [Next]_vars =>
        [Sync => \A id \in DOMAIN db.row :
           /\ id \notin DOMAIN db.meta \cup Scaffolds \cup InHand
                => Exists(db', id) /\ db'.row[id] = db.row[id]
           /\ Exists(db', id) /\ "project" \in DOMAIN db.row[id]
                => db'.row[id].project = db.row[id].project]_vars
  BY <1>1
<1> QED
  BY <1>2, MirrorInvariant, PTL DEF Spec, UsersDataKept

\* Of a set that loses nothing else but x, and of one that gains nothing else.
LEMMA OneMore ==
  ASSUME NEW S, IsFiniteSet(S), NEW T, NEW x, T \subseteq S \cup {x}, NEW n \in Nat, Cardinality(S) <= n
  PROVE  Cardinality(T) <= n + 1
<1>1. IsFiniteSet(S \cup {x}) /\ Cardinality(S \cup {x}) <= Cardinality(S) + 1
  <2>1. CASE x \in S
    <3>1. S \cup {x} = S /\ Cardinality(S) \in Nat
      BY <2>1, FS_CardinalityType
    <3> QED
      BY <3>1
  <2>2. CASE x \notin S
    <3>1. Cardinality(S) \in Nat /\ IsFiniteSet(S \cup {x}) /\ Cardinality(S \cup {x}) = Cardinality(S) + 1
      BY <2>2, FS_AddElement, FS_CardinalityType
    <3> QED
      BY <3>1
  <2> QED
    BY <2>1, <2>2
<1>2. IsFiniteSet(T) /\ Cardinality(T) <= Cardinality(S \cup {x})
  BY <1>1, FS_Subset
<1>3. Cardinality(S) \in Nat /\ Cardinality(S \cup {x}) \in Nat /\ Cardinality(T) \in Nat
  BY <1>1, <1>2, FS_CardinalityType
<1> QED
  BY <1>1, <1>2, <1>3

\* A smaller set has no more members.
LEMMA NoMore ==
  ASSUME NEW S, IsFiniteSet(S), NEW T, T \subseteq S, NEW n \in Nat, Cardinality(S) <= n
  PROVE  Cardinality(T) <= n
<1>1. IsFiniteSet(T) /\ Cardinality(T) <= Cardinality(S)
  BY FS_Subset
<1>2. Cardinality(S) \in Nat /\ Cardinality(T) \in Nat
  BY <1>1, FS_CardinalityType
<1> QED
  BY <1>1, <1>2

\* What a store leaves behind is finite.
LEMMA StraysFinite ==
  ASSUME NEW d, NEW n, NEW a, StoreHolds(d, n, a), NEW p
  PROVE  IsFiniteSet(StrayRows(d, p, a)) /\ IsFiniteSet(StrayMeta(d, p)) /\ IsFiniteSet(StrayNotes(d, p))
<1>1. IsFiniteSet(DOMAIN d.row) /\ IsFiniteSet(DOMAIN d.meta)
  BY DEF StoreHolds, RowsHold, MetaHolds
<1>2. /\ StrayRows(d, p, a) \subseteq DOMAIN d.row /\ StrayNotes(d, p) \subseteq DOMAIN d.row
      /\ StrayMeta(d, p) \subseteq DOMAIN d.meta
  BY DEF StrayRows, StrayMeta, StrayNotes, Rows
<1> QED
  BY <1>1, <1>2, FS_Subset

\* The pass q over the store d leaves behind what p does, and x and y.
DroppedStrays(d, p, q, a, x, y) ==
  /\ StrayRows(d, q, a) \subseteq StrayRows(d, p, a) \cup {x}
  /\ StrayMeta(d, q) \subseteq StrayMeta(d, p) \cup {x}
  /\ StrayNotes(d, q) \subseteq StrayNotes(d, p) \cup {y}

\* A cancelled pass drops its job: the row and the note it had in hand are two of a
\* kind each, and the metadata one.
LEMMA CancelStrays ==
  ASSUME NEW d, NEW n, NEW a \in Provider, StoreHolds(d, n, a), NEW p, p # None => PassHolds(p, d, n, a),
         NEW q, q = None
  PROVE  \E x, y : DroppedStrays(d, p, q, a, x, y)
<1>1. HandOf(q) = {}
  BY DEF HandOf
<1>2. CASE HandOf(p) = {}
  BY <1>1, <1>2 DEF DroppedStrays, StrayRows, StrayMeta, StrayNotes
<1>3. CASE p # None /\ p.job # None
  <2>1. HandOf(p) \subseteq {p.job.id, p.job.note}
    BY <1>3 DEF HandOf
  <2>2. JobHolds(p.job, d, n, a) /\ JobCompletes(p.job, d)
    BY <1>3 DEF PassHolds
  <2>3. TableOf[a] # "note"
    BY TablesOf
  <2>4. p.job.note \notin Rows(d, TableOf[a])
    <3>1. CASE p.job.note = None
      <4>1. \A i \in DOMAIN d.row : i # None
        BY Numbers DEF StoreHolds, RowsHold
      <4> QED
        BY <3>1, <4>1 DEF Rows
    <3>2. CASE p.job.note # None
      BY <2>2, <2>3, <3>2 DEF JobCompletes, IsA, Rows
    <3> QED
      BY <3>1, <3>2
  <2>5. p.job.note \notin StrayMeta(d, q)
    <3>1. CASE p.job.note = None
      <4>1. \A i \in DOMAIN d.meta : i # None
        BY Numbers DEF StoreHolds, MetaHolds
      <4> QED
        BY <3>1, <4>1 DEF StrayMeta
    <3>2. CASE p.job.note # None
      BY <2>2, <3>2 DEF JobCompletes, IsA, StrayMeta
    <3> QED
      BY <3>1, <3>2
  <2>6. p.job.id \notin Rows(d, "note")
    BY <2>2, <2>3 DEF JobHolds, Rows
  <2>7. /\ StrayRows(d, q, a) \subseteq StrayRows(d, p, a) \cup {p.job.id}
        /\ StrayMeta(d, q) \subseteq StrayMeta(d, p) \cup {p.job.id}
        /\ StrayNotes(d, q) \subseteq StrayNotes(d, p) \cup {p.job.note}
    BY <1>1, <2>1, <2>4, <2>5, <2>6 DEF StrayRows, StrayMeta, StrayNotes
  <2> QED
    BY <2>7 DEF DroppedStrays
<1> QED
  BY <1>2, <1>3 DEF HandOf

\* After k cancelled passes.
StraysCounted(d, p, a, k) ==
  /\ Cardinality(StrayRows(d, p, a)) <= k
  /\ Cardinality(StrayMeta(d, p)) <= k /\ Cardinality(StrayNotes(d, p)) <= k

\* A step that leaves nothing more behind.
LEMMA StraysBounded ==
  ASSUME NEW d, NEW n, NEW a, StoreHolds(d, n, a), NEW p, NEW d2, NEW p2, NoNewStrays(d, p, d2, p2, a),
         NEW k \in Nat, StraysCounted(d, p, a, k)
  PROVE  StraysCounted(d2, p2, a, k)
<1>1. IsFiniteSet(StrayRows(d, p, a)) /\ IsFiniteSet(StrayMeta(d, p)) /\ IsFiniteSet(StrayNotes(d, p))
  BY StraysFinite
<1>2. Cardinality(StrayRows(d2, p2, a)) <= k
  BY <1>1, NoMore DEF NoNewStrays, StraysCounted
<1>3. Cardinality(StrayMeta(d2, p2)) <= k
  BY <1>1, NoMore DEF NoNewStrays, StraysCounted
<1>4. Cardinality(StrayNotes(d2, p2)) <= k
  BY <1>1, NoMore DEF NoNewStrays, StraysCounted
<1> QED
  BY <1>2, <1>3, <1>4 DEF StraysCounted

\* A cancelled pass.
LEMMA StraysCancelled ==
  ASSUME NEW d, NEW n, NEW a \in Provider, StoreHolds(d, n, a), NEW p, p # None => PassHolds(p, d, n, a),
         NEW q, q = None, NEW k \in Nat, StraysCounted(d, p, a, k)
  PROVE  StraysCounted(d, q, a, k + 1)
<1>1. IsFiniteSet(StrayRows(d, p, a)) /\ IsFiniteSet(StrayMeta(d, p)) /\ IsFiniteSet(StrayNotes(d, p))
  BY StraysFinite
<1>2. PICK x, y : DroppedStrays(d, p, q, a, x, y)
  BY CancelStrays
<1>3. Cardinality(StrayRows(d, q, a)) <= k + 1
  BY <1>1, <1>2, OneMore DEF StraysCounted, DroppedStrays
<1>4. Cardinality(StrayMeta(d, q)) <= k + 1
  BY <1>1, <1>2, OneMore DEF StraysCounted, DroppedStrays
<1>5. Cardinality(StrayNotes(d, q)) <= k + 1
  BY <1>1, <1>2, OneMore DEF StraysCounted, DroppedStrays
<1> QED
  BY <1>3, <1>4, <1>5 DEF StraysCounted

\* The relations of literature notes: at most one to a reference.
LEMMA OneScaffold ==
  ASSUME NEW d, NEW n, EdgesHold(d, n), NEW i
  PROVE  Cardinality(Incoming(d, i, "scaffolded_from")) <= 1
<1> DEFINE S == Incoming(d, i, "scaffolded_from")
<1>1. CASE S = {}
  <2>1. Cardinality({}) = 0
    BY FS_EmptySet
  <2> QED
    BY <1>1, <2>1
<1>2. ASSUME NEW e \in S PROVE Cardinality(S) <= 1
  <2>1. S = {e}
    BY <1>2 DEF EdgesHold, Incoming
  <2>2. Cardinality({e}) = 1
    BY FS_Singleton
  <2> HIDE DEF S
  <2> QED
    BY <2>1, <2>2
<1> QED
  BY <1>1, <1>2

\* No pass leaves anything half done behind it but one that was cancelled, and each of
\* those at most one thing of a kind (the order of the calls in apply_insert(),
\* apply_delete() and scaffold_note_for_reference()).
THEOREM OnlyCancelledLeaveStrays == Spec => []StraysAreCancelled
<1>1. Init => StrayInv
  BY InitHolds
<1>2. MirrorInv /\ StrayInv /\ [Next]_vars => StrayInv'
  <2> SUFFICES ASSUME MirrorInv, StrayInv, [Next]_vars PROVE StrayInv'
    OBVIOUS
  <2>1. StraysCounted(db, pass, adapter, cancels)
    BY DEF StrayInv, StraysCounted
  <2>2. /\ StoreHolds(db, fresh, adapter) /\ (pass # None => PassHolds(pass, db, fresh, adapter))
        /\ cancels \in Nat /\ adapter \in Provider
    <3>1. cancels \in 0..faults /\ faults \in 0..MaxFaults
      BY DEF MirrorInv, WorldHolds
    <3>2. cancels \in Nat
      BY <3>1, Numbers
    <3> QED
      BY <3>2 DEF MirrorInv, WorldHolds
  <2>3. SUFFICES StraysCounted(db', pass', adapter', cancels')
    BY DEF StrayInv, StraysCounted
  <2>4. CASE Cancel
    <3>1. db' = db /\ pass' = None /\ adapter' = adapter /\ cancels' = cancels + 1
      BY <2>4 DEF Cancel, world
    <3>2. StraysCounted(db, None, adapter, cancels + 1)
      BY <2>1, <2>2, StraysCancelled
    <3> QED
      BY <3>1, <3>2
  <2>5. CASE Next /\ Upholds /\ cancels' = cancels
    <3>1. NoNewStrays(db, pass, db', pass', adapter) /\ adapter' = adapter
      BY <2>5, WorldStep DEF Upholds, MirrorInv
    <3>2. StraysCounted(db', pass', adapter, cancels)
      BY <2>1, <2>2, <3>1, StraysBounded
    <3> QED
      BY <2>5, <3>1, <3>2
  <2>6. CASE UNCHANGED vars
    BY <2>1, <2>6 DEF vars, world, bounds
  <2>7. Next => Cancel \/ cancels' = cancels
    BY DEF Next, Change, Vanish, Outage, Recovery, Attach, Reload, Begin, Sync, ListCalendar, Apply, DoCall, ApplyDelete,
           Finish, bounds
  <2> QED
    BY <2>4, <2>5, <2>6, <2>7, NextUpholds
<1>3. MirrorInv /\ StrayInv => StraysAreCancelled
  <2> SUFFICES ASSUME MirrorInv, StrayInv PROVE StraysAreCancelled
    OBVIOUS
  <2>1. StoreHolds(db, fresh, adapter) /\ HandOf(pass) \subseteq InHand /\ cancels \in Nat
    <3>1. cancels \in 0..faults /\ faults \in 0..MaxFaults
      BY DEF MirrorInv, WorldHolds
    <3>2. cancels \in Nat
      BY <3>1, Numbers
    <3> QED
      BY <3>2 DEF MirrorInv, HandOf, InHand
  <2>2. IsFiniteSet(StrayRows(db, pass, adapter)) /\ IsFiniteSet(StrayMeta(db, pass)) /\ IsFiniteSet(StrayNotes(db, pass))
    BY <2>1, StraysFinite
  <2>3. Cardinality(Strays) <= cancels
    <3>1. Strays \subseteq StrayRows(db, pass, adapter)
      BY <2>1 DEF StrayRows, Strays
    <3> QED
      BY <2>1, <2>2, <3>1, NoMore DEF StrayInv
  <2>4. Cardinality(Ghosts \ InHand) <= cancels
    <3>1. Ghosts \ InHand \subseteq StrayMeta(db, pass)
      BY <2>1 DEF StrayMeta, Ghosts
    <3> QED
      BY <2>1, <2>2, <3>1, NoMore DEF StrayInv
  <2>5. Cardinality(Rows(db, "note") \ ({e.from : e \in db.edge} \cup InHand)) <= cancels
    <3>1. Rows(db, "note") \ ({e.from : e \in db.edge} \cup InHand) \subseteq StrayNotes(db, pass)
      BY <2>1 DEF StrayNotes
    <3> QED
      BY <2>1, <2>2, <3>1, NoMore DEF StrayInv
  <2>6. \A i : Cardinality(Incoming(db, i, "scaffolded_from")) <= 1
    BY <2>1, OneScaffold DEF StoreHolds
  <2> QED
    BY <2>3, <2>4, <2>5, <2>6 DEF StraysAreCancelled
<1> QED
  BY <1>1, <1>2, <1>3, MirrorInvariant, PTL DEF Spec

\* The tables in the order of an import: projects first.
LEMMA TablesInOrder ==
  /\ DOMAIN Tables = 1..7 /\ Len(Tables) = 7 /\ Tables[1] = "project"
  /\ \A j \in 1..7 : Tables[j] \in EntityType /\ (Tables[j] = "project" => j = 1)
  /\ {Tables[j] : j \in 1..7} = EntityType
<1>1. DOMAIN Tables = 1..7 /\ Len(Tables) = 7
  BY DEF Tables
<1>2. /\ Tables[1] = "project" /\ Tables[2] = "note" /\ Tables[3] = "ref" /\ Tables[4] = "flashcard"
      /\ Tables[5] = "event" /\ Tables[6] = "task" /\ Tables[7] = "experiment"
  BY DEF Tables
<1>3. \A j \in 1..7 : j = 1 \/ j = 2 \/ j = 3 \/ j = 4 \/ j = 5 \/ j = 6 \/ j = 7
  OBVIOUS
<1>4. \A j \in 1..7 : Tables[j] \in EntityType /\ (Tables[j] = "project" => j = 1)
  BY <1>2, <1>3 DEF EntityType
<1>5. {Tables[j] : j \in 1..7} = EntityType
  <2>1. 1 \in 1..7 /\ 2 \in 1..7 /\ 3 \in 1..7 /\ 4 \in 1..7 /\ 5 \in 1..7 /\ 6 \in 1..7 /\ 7 \in 1..7
    OBVIOUS
  <2>2. EntityType \subseteq {Tables[j] : j \in 1..7}
    BY <1>2, <2>1 DEF EntityType
  <2> QED
    BY <1>4, <2>2
<1> QED
  BY <1>1, <1>2, <1>4, <1>5

\* The rows of the tables before the k-th.
RowsBefore(d, k) ==
  [i \in {x \in DOMAIN d.row : \E j \in 1..(k - 1) : d.row[x].table = Tables[j]} |-> d.row[i]]

\* What an import has put into the store before the rows of table k: those of the
\* tables before it, as they were exported.
LEMMA EarlierIs ==
  ASSUME NEW d, NEW k \in 1..8
  PROVE  Earlier(Export(d), k) = RowsBefore(d, k)
<1> DEFINE rows == Export(d).rows
           inserted == {Tables[j] : j \in 1..(k - 1)}
           E == Earlier(Export(d), k)
           B == {x \in DOMAIN d.row : \E j \in 1..(k - 1) : d.row[x].table = Tables[j]}
<1>1. rows = [t \in EntityType |-> [id \in Rows(d, t) |-> d.row[id]]]
  BY DEF Export
<1>2. inserted \subseteq EntityType
  BY TablesInOrder
<1>3. E = [id \in UNION {DOMAIN rows[t] : t \in inserted} |->
             LET t == CHOOSE u \in inserted : id \in DOMAIN rows[u] IN rows[t][id]]
  BY DEF Earlier
<1> HIDE DEF rows, E
<1>4. \A t \in inserted : DOMAIN rows[t] = Rows(d, t) /\ \A i \in Rows(d, t) : rows[t][i] = d.row[i]
  BY <1>1, <1>2
<1>5. DOMAIN E = UNION {Rows(d, t) : t \in inserted}
  BY <1>3, <1>4
<1>6. ASSUME NEW i \in DOMAIN E PROVE E[i] = d.row[i]
  <2> DEFINE t == CHOOSE u \in inserted : i \in DOMAIN rows[u]
  <2>1. \E u \in inserted : i \in DOMAIN rows[u]
    BY <1>4, <1>5, <1>6
  <2>2. t \in inserted /\ i \in DOMAIN rows[t]
    BY <2>1
  <2>3. E[i] = rows[t][i]
    BY <1>3, <1>6
  <2> HIDE DEF t
  <2> QED
    BY <1>4, <2>2, <2>3
<1>7. DOMAIN E = B
  BY <1>5 DEF Rows
<1>8. E = [i \in DOMAIN E |-> E[i]]
  BY <1>3
<1> HIDE DEF B
<1>9. E = [i \in B |-> d.row[i]]
  BY <1>6, <1>7, <1>8
<1> QED
  BY <1>9 DEF E, B, RowsBefore

\* Every statement of an import succeeds: no row is inserted before one it refers to.
LEMMA NothingRefused ==
  ASSUME NEW d, NEW n, RowsHold(d, n)
  PROVE  ~Refused(Empty, Export(d))
<1> SUFFICES ASSUME NEW k \in DOMAIN Tables, NEW i \in DOMAIN Export(d).rows[Tables[k]]
             PROVE  LinksHold([Empty EXCEPT !.row = Earlier(Export(d), k)], Export(d).rows[Tables[k]][i])
  BY DEF Refused
<1> DEFINE E == Earlier(Export(d), k)
           s == [Empty EXCEPT !.row = E]
           r == d.row[i]
<1>1. k \in 1..7 /\ Tables[k] \in EntityType /\ (Tables[k] = "project" => k = 1)
  BY TablesInOrder
<1>2. /\ i \in DOMAIN d.row /\ r.table = Tables[k]
      /\ Export(d).rows[Tables[k]][i] = r
  BY <1>1 DEF Export, Rows
<1>3. r \in Row /\ LinksHold(d, r) /\ (r.table = "flashcard" => r.note = None /\ r.ref = None)
  BY <1>2 DEF RowsHold, Consistent, Allowed
<1>4. E = RowsBefore(d, k)
  <2>1. k \in 1..8
    BY <1>1
  <2> QED
    BY <2>1, EarlierIs
<1>5. s.row = E
  BY DEF Empty
<1> HIDE DEF E, s, r
<1> SUFFICES ASSUME NEW f \in Links(r)
             PROVE  IF r[f] = None THEN r.table # "experiment" ELSE IsA(s, r[f], f)
  BY <1>2 DEF LinksHold, s, E
<1>6. CASE r[f] = None
  BY <1>3, <1>6 DEF LinksHold
<1>7. CASE r[f] # None
  <2>1. f = "project"
    <3>1. f \in {"note", "ref"} => r.table = "flashcard"
      BY <1>3, RowParts DEF Links
    <3> QED
      BY <1>3, <1>7, <3>1 DEF Links
  <2>2. IsA(d, r[f], "project")
    BY <1>3, <1>7, <2>1 DEF LinksHold
  <2>3. k # 1
    <3>1. r.table # "project"
      BY <1>3, RowParts
    <3> QED
      BY <1>2, <3>1, TablesInOrder
  <2>4. 1 \in 1..(k - 1) /\ Tables[1] = "project"
    BY <1>1, <2>3, TablesInOrder
  <2>5. r[f] \in DOMAIN E /\ E[r[f]] = d.row[r[f]]
    BY <1>4, <2>2, <2>4 DEF IsA, Exists, RowsBefore
  <2> QED
    BY <1>5, <1>7, <2>1, <2>2, <2>5 DEF IsA, Exists
<1> QED
  BY <1>6, <1>7

\* An import gives back what was exported.
LEMMA RoundTrip ==
  ASSUME NEW d, NEW n, RowsHold(d, n), IsStore(d)
  PROVE  Import(Empty, Export(d)) = d
<1> DEFINE E == Earlier(Export(d), 8)
<1>1. ~Refused(Empty, Export(d))
  BY NothingRefused
<1>2. Len(Tables) + 1 = 8
  BY TablesInOrder
<1>3. Export(d).edge = d.edge /\ Export(d).tag = d.tag /\ Export(d).meta = d.meta
  BY DEF Export
<1>4. Import(Empty, Export(d)) = [row |-> E, edge |-> d.edge, tag |-> d.tag, meta |-> d.meta]
  BY <1>1, <1>2, <1>3 DEF Import
<1>5. E = RowsBefore(d, 8)
  <2>1. 8 \in 1..8
    OBVIOUS
  <2> QED
    BY <2>1, EarlierIs
<1>6. \A x \in DOMAIN d.row : \E j \in 1..(8 - 1) : d.row[x].table = Tables[j]
  <2>1. \A x \in DOMAIN d.row : d.row[x].table \in EntityType
    BY RowParts DEF RowsHold
  <2>2. 8 - 1 = 7
    OBVIOUS
  <2> QED
    BY <2>1, <2>2, TablesInOrder
<1> HIDE DEF E
<1>7. E = d.row
  <2>1. d.row = [x \in DOMAIN d.row |-> d.row[x]]
    BY DEF RowsHold
  <2>2. {x \in DOMAIN d.row : \E j \in 1..(8 - 1) : d.row[x].table = Tables[j]} = DOMAIN d.row
    BY <1>6
  <2> QED
    BY <1>5, <2>1, <2>2 DEF RowsBefore
<1> QED
  BY <1>4, <1>7 DEF IsStore

\* At any moment the store can be exported, and imported again into an empty one.
THEOREM AlwaysRestorable == Spec => []Restorable
<1>1. MirrorInv => Restorable
  <2> SUFFICES ASSUME MirrorInv PROVE Restorable
    OBVIOUS
  <2>1. RowsHold(db, fresh) /\ MetaHolds(db, fresh, adapter) /\ EdgesHold(db, fresh) /\ IsStore(db)
    BY DEF MirrorInv, StoreHolds
  <2>2. TypeOK
    <3>1. pass # None => pass \in Pass
      BY DEF MirrorInv, PassHolds
    <3>2. \A i \in DOMAIN db.row : i \in Id /\ i < fresh /\ db.row[i] \in Row
      BY <2>1 DEF RowsHold
    <3>3. \A i \in DOMAIN db.meta : db.meta[i] \in SyncMetadata
      BY <2>1 DEF MetaHolds
    <3>4. db.edge \subseteq Relation /\ DOMAIN db.tag \subseteq Id /\ Consistent(db)
      BY <2>1 DEF EdgesHold, RowsHold
    <3>5. WorldHolds
      BY DEF MirrorInv
    <3> QED
      BY <3>1, <3>2, <3>3, <3>4, <3>5 DEF TypeOK, WorldHolds
  <2>3. Import(Empty, Export(db)) = db
    BY <2>1, RoundTrip
  <2> QED
    BY <2>2, <2>3 DEF Restorable
<1> QED
  BY <1>1, MirrorInvariant, PTL
=============================================================================
