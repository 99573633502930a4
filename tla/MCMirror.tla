------------------------------- MODULE MCMirror -------------------------------
(* Two items in collections of their own, one of them annotated; keys of the   *)
(* user and of the items themselves.                                           *)
EXTENDS Mirror

MCExt == {1, 2}
MCBbt == {11}
MCKey == MCExt \cup MCBbt
MCCollectionOf == 1 :> "home" @@ 2 :> "work"
MCId == 1..14
MCListingOrder == <<1, 2>>
MCBody == 0..MaxEdits
=============================================================================
