--------------------------- MODULE MCContextEngine ---------------------------
(***************************************************************************)
(* Two widgets that compete for the width of a narrow bar, rules on power  *)
(* and focus, two profiles, one dial.  Widths and gap are the code's.      *)
(***************************************************************************)
EXTENDS ContextEngine, TLC

CONSTANTS timer, cpu

MCWidget == {timer, cpu}
MCPriority == [w \in MCWidget |-> IF w = timer THEN 62 ELSE 40]
MCDefault == [w \in MCWidget |-> 3]
MCSignal == {"focus", "battery"}
MCEvent == {[signal |-> "focus", value |-> v] : v \in {"work", "idle"}}
           \cup {[signal |-> "battery", value |-> TRUE]}
MCRule == {[signal |-> "focus", value |-> "work", target |-> timer, prominence |-> 4],
           [signal |-> "battery", value |-> TRUE, target |-> cpu, prominence |-> 5]}
calm == 1
deep == 2
MCProfile == {calm, deep}
MCOverride == [n \in MCProfile |->
  IF n = calm THEN (timer :> 2) ELSE (timer :> 5 @@ cpu :> 0)]
MCSteps == [d \in {"density"} |-> <<"full", "compact">>]
MCWidth == [p \in Prominence |-> <<0, 16, 32, 96, 160, 220>>[p + 1]]
MCWidths == {2560, 260, 120}
=============================================================================
