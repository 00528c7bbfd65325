----------------------------- MODULE MCSessions -----------------------------
(***************************************************************************)
(* Small instances of the client sessions for TLC.                         *)
(***************************************************************************)
EXTENDS ClientSessions

CONSTANTS GroupA, GroupB, Alice, Bob   \* model values

TwoGroups == {GroupA, GroupB}
OneGroup == {GroupA}

\* `wait` for one group, or for two tasks.
Selections ==
    { [kind |-> "Group", ids |-> {}, group |-> GroupA],
      [kind |-> "TaskIds", ids |-> {0, 1} \cap TaskIds, group |-> GroupA] }

Pair(first, second, deps) ==
    [i \in {0, 1} |->
        IF i = 0 THEN [NewTask(GroupA, first, {}, 0) EXCEPT
                          !.dependents = IF deps = {} THEN {} ELSE {1}]
                 ELSE NewTask(GroupA, second, deps, 1)]

TwoTasks ==
    {Pair("Failed", "Queued", {0}), Pair("Success", "Stashed", {0})}

\* One client edits, archives and waits while the other does everything else too.
Users ==
    [c \in Clients |->
        IF c = Alice THEN {"edit", "archive", "wait"}
        ELSE {"edit", "archive", "restart", "restart_in_place", "copy", "import"}]

=============================================================================
