-------------------------------- MODULE MCDesk --------------------------------
(***************************************************************************)
(* Components that follow the user about but not one another, in one       *)
(* instance: "part" says which of them moves.  Intervals of a few seconds, *)
(* two workspaces, two profiles, two themes, two requests at a time.       *)
(***************************************************************************)
EXTENDS Attention, FocusMode, Projects, Returns, Appearance

CONSTANTS cpu, a, b, c1, c2

MCWidget == {cpu}
MCWorkspace == {a, b}
MCCaller == {c1}
MCProfile == <<"p", "q">>

MCRequester == {c1, c2}
MCVariant == [n \in Theme |-> n]
MCPlain == {[name |-> "light", body |-> 1]}
MCPair == [n \in Theme |-> IF n = "dark" THEN "light" ELSE "dark"]

VARIABLE part

deskVars == <<part, vars, focusVars, lookVars, registryVars, returnVars>>

DeskInit ==
  /\ part \in {"attention", "focus", "look", "registry", "pill", "review", "warmup"}
  /\ Init /\ FocusInit /\ LookInit /\ RegistryInit /\ ReturnsInit

DeskNext ==
  /\ part' = part
  /\ \/ /\ part = "attention" /\ Next
        /\ UNCHANGED <<focusVars, lookVars, registryVars, returnVars>>
     \/ /\ part = "focus" /\ FocusNext
        /\ UNCHANGED <<vars, lookVars, registryVars, returnVars>>
     \/ /\ part = "look" /\ LookNext
        /\ UNCHANGED <<vars, focusVars, registryVars, returnVars>>
     \/ /\ part = "registry" /\ RegistryNext
        /\ UNCHANGED <<vars, focusVars, lookVars, returnVars>>
     \/ /\ \/ part = "pill" /\ PillNext
           \/ part = "review" /\ ReviewNext
           \/ part = "warmup" /\ WarmupNext
        /\ UNCHANGED <<vars, focusVars, lookVars, registryVars>>

DeskSpec == DeskInit /\ [][DeskNext]_deskVars
=============================================================================
