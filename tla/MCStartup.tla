----------------------------- MODULE MCStartup -----------------------------
(***************************************************************************)
(* Small instances of Startup for TLC.                                     *)
(***************************************************************************)
EXTENDS Startup, TLC

CONSTANTS p1, p2   \* model values

TwoDaemons == {p1, p2}
Symmetry == Permutations(TwoDaemons)

\* Every property is about what happens before daemons are started at the same time.
Apart == ~overlapped

=============================================================================
