----------------------------- MODULE MCTaskLogs -----------------------------
(* Small instances of TaskLogs for TLC.                                    *)
EXTENDS TaskLogs

BothModes == {"local", "remote"}
OnlyRemote == {"remote"}
AllOrLast == {0, 1}

(* What happens after a log was printed or a follow has ended is of no     *)
(* interest any more: neither reads a file again.                          *)
StillAtWork == reader.place \notin {"printed", "failed"} /\ viewer.place # "ended"
=============================================================================
