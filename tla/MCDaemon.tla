------------------------------- MODULE MCDaemon -------------------------------
(***************************************************************************)
(* Two shells and a ctl client, two starts of the daemon.                  *)
(***************************************************************************)
EXTENDS Daemon

CONSTANTS s1, s2, c1

MCShell == {s1, s2}
MCCtl == {c1}
=============================================================================
