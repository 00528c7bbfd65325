----------------------------- MODULE MCQueries ------------------------------
(***************************************************************************)
(* Small instances of Queries for TLC.  A query is either any one filter,  *)
(* any order and limit, or a selection of columns; the lists of tasks are  *)
(* short but have every kind of task.                                      *)
(***************************************************************************)
EXTENDS Queries

Stashed == [group |-> "default", status |-> "stashed", priority |-> 0,
            dependencies |-> {}, label |-> "build", command |-> "build", original |-> "b",
            enqueue_at |-> 3, start |-> NoTime, end |-> NoTime]
Parked  == [Stashed EXCEPT !.enqueue_at = NoTime, !.label = NotSet]
Queued  == [Stashed EXCEPT !.status = "queued", !.priority = 1, !.enqueue_at = 1,
                            !.label = "build-all", !.command = "build-all",
                            !.original = "build-all"]
Running == [Queued EXCEPT !.status = "running", !.priority = 0, !.dependencies = {1}, !.start = 2]
Success == [Queued EXCEPT !.status = "success", !.start = 3, !.end = 5]
Killed  == [Success EXCEPT !.status = "killed", !.group = "other", !.label = NotSet]
Old     == [Success EXCEPT !.status = "failed", !.group = "archive", !.start = 1]

Kinds == {Stashed, Parked, Queued, Running, Success, Killed, Old}

WithId(id, kind) ==
    [id |-> id, group |-> kind.group, status |-> kind.status, priority |-> kind.priority,
     dependencies |-> kind.dependencies, label |-> kind.label, command |-> kind.command,
     original |-> kind.original, enqueue_at |-> kind.enqueue_at, start |-> kind.start, end |-> kind.end]

ShortLists ==
    {[i \in 1..3 |-> WithId(i, kinds[i])] : kinds \in [1..3 -> Kinds]}

Unordered == [column |-> NotSet, direction |-> "asc"]
Unlimited == [end |-> NotSet, count |-> 0]

StatusFilters ==
    [kind : {"status"}, operator : {"=", "!="},
     value : {"queued", "stashed", "running", "success", "failed"}]
LabelFilters ==
    [kind : {"label", "command"}, operator : {"=", "!=", "%="}, value : {"build", "build-all"}]
TimeFilters ==
    [kind : {"date", "datetime"}, column : {"enqueue_at", "start", "end"},
     operator : {"=", "!=", "<", ">"}, value : {1, 3}]

Sorted ==
    [column : {"id", "status", "label", "command", "enqueue_at", "start", "end", "dependencies"},
     direction : {"asc", "desc"}]
Limits == [end : {"first", "last"}, count : {1, 2}]

Plain == [group |-> NotSet, columns |-> {}, filters |-> <<>>, order |-> Unordered,
          limit |-> Unlimited, expand |-> FALSE]

SomeQueries ==
    {[Plain EXCEPT !.filters = <<filter>>] : filter \in StatusFilters}
    \cup {[Plain EXCEPT !.filters = <<filter>>] : filter \in LabelFilters}
    \cup {[Plain EXCEPT !.filters = <<filter>>] : filter \in TimeFilters}
    \cup {[Plain EXCEPT !.group = group, !.order = order, !.limit = limit] :
              group \in {NotSet, "default", "archive"}, order \in Sorted \cup {Unordered},
              limit \in Limits \cup {Unlimited}}
    \cup {[Plain EXCEPT !.group = group, !.columns = columns, !.expand = expand] :
              group \in {NotSet, "other"}, columns \in {{"id"}, {"label", "command", "end"}},
              expand \in BOOLEAN}

Max == 7
Parts == [start : 0..Max, end : 0..Max, step : 0..3, stepped : {TRUE}]
             \cup [start : 0..Max, end : 0..Max, step : {1}, stepped : {FALSE}]
SomeIdLists ==
    {<<part>> : part \in Parts}
    \cup {<<[start |-> i, end |-> i, step |-> 1, stepped |-> FALSE], part>> :
              i \in {0, 3}, part \in [start : 0..2, end : 2..5, step : 1..2, stepped : {TRUE}]}

SomeFiles == UNION {[1..n -> {"newline", "other"}] : n \in 0..6}
=============================================================================
