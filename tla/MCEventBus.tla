------------------------------ MODULE MCEventBus ------------------------------
(***************************************************************************)
(* A small instance of EventBus: two publishers, two subscriptions with    *)
(* overlapping kinds, one of them of requested capacity 0.                 *)
(***************************************************************************)
EXTENDS EventBus

CONSTANTS s1, s2, p1, p2, theme, sync

MCSub == {s1, s2}
MCPub == {p1, p2}
MCKind == {theme, sync}
MCKindsOf == [s \in MCSub |-> IF s = s1 THEN {theme} ELSE MCKind]
MCRequested == [s \in MCSub |-> IF s = s1 THEN 0 ELSE 2]
=============================================================================
