------------------------------ MODULE MCDaemon ------------------------------
(***************************************************************************)
(* Small instances of the daemon for TLC.                                  *)
(***************************************************************************)
EXTENDS DaemonProperties

CONSTANTS GroupA, GroupB   \* model values

TwoGroups == {GroupA, GroupB}
OneGroup == {GroupA}

=============================================================================
