------------------------------ MODULE Queries -------------------------------
(***************************************************************************)
(* What the client computes by itself, from the state it received or from  *)
(* its command line: the tasks that `pueue status QUERY` shows             *)
(* (client/commands/state), the ids that `1,2:5,9` stands for and the      *)
(* switches that reverse them (client/task_ids_parser.rs and reverse.rs),  *)
(* and where the last lines of a log begin (pueue_lib/src/log.rs).         *)
(*                                                                         *)
(* A behavior is one command, computed step by step.  Points in time are   *)
(* numbers, two to a day; numbers on the command line have a width.        *)
(***************************************************************************)
EXTENDS Integers, Sequences, FiniteSets

SeqExt == INSTANCE SequencesExt

CONSTANTS
    TaskLists,      \* sequences of tasks, in the order of their ids
    Lookups,        \* queries: [group, columns, filters, order, limit, expand]
    IdLists,        \* sequences of the parts of a list of ids
    Files,          \* log files, as sequences of bytes: "newline" or "other"
    LineCounts,     \* numbers of last lines that are asked for
    MaxGrowth,      \* bound on the bytes that a file grows by while it is searched
    MaxUsize        \* the largest number that an id can be

VARIABLES
    command,        \* the command and its input
    place,          \* the step it is at
    list,           \* the tasks that are left, the ids, or the file
    answer          \* the tables, the switches, or the scan of the file

vars == <<command, place, list, answer>>

NotSet == "None"    \* an absent label, group, column or limit
NoTime == -1        \* an absent time

Groups == <<"default", "archive", "other">>   \* in the order of their tables
Columns == <<"id", "status", "priority", "enqueue_at", "dependencies", "label", "command",
             "start", "end">>

Elements(s) == {s[i] : i \in DOMAIN s}

(* A status is that of a task, or the result of a done one.                *)
Statuses == {"stashed", "locked", "queued", "paused", "running", "success", "failed", "killed"}
Times == Nat \cup {NoTime}
Task == [id : Nat, group : Elements(Groups), status : Statuses, priority : Int,
         dependencies : SUBSET Nat, label : STRING, command : STRING, original : STRING,
         enqueue_at : Times, start : Times, end : Times]

TimeColumns == {"enqueue_at", "start", "end"}
Operators == {"=", "!=", "<", ">"}
Filter ==
    [kind : {"status"}, operator : {"=", "!="}, value : Statuses]
    \cup [kind : {"label", "command"}, operator : {"=", "!=", "%="}, value : STRING \ {NotSet}]
    \cup [kind : {"date", "datetime"}, column : TimeColumns, operator : Operators, value : Nat]

SortColumns == {"id", "status", "label", "command", "dependencies"} \cup TimeColumns
Order == [column : {NotSet}, direction : {"asc"}]
             \cup [column : SortColumns, direction : {"asc", "desc"}]
Limit == [end : {NotSet}, count : {0}] \cup [end : {"first", "last"}, count : Nat \ {0}]

(* With the query goes the client's setting show_expanded_aliases.         *)
Query == [group : Elements(Groups) \cup {NotSet}, columns : SUBSET Elements(Columns),
          filters : Seq(Filter), order : Order, limit : Limit, expand : BOOLEAN]

(* A part of a list of ids: one id, a range, or a range with a step.       *)
Ids == 0..MaxUsize
Part == [start : Ids, end : Ids, step : {1}, stepped : {FALSE}]
            \cup [start : Ids, end : Ids, step : Ids, stepped : {TRUE}]

Bytes == {"newline", "other"}

ASSUME QueriesAssumption ==
    /\ TaskLists \subseteq Seq(Task)
    /\ \A tasks \in TaskLists : \A i, j \in DOMAIN tasks : i < j => tasks[i].id < tasks[j].id
    /\ Lookups \subseteq Query
    /\ MaxUsize \in Nat
    /\ IdLists \subseteq Seq(Part)
    /\ Files \subseteq Seq(Bytes)
    /\ LineCounts \subseteq Nat
    /\ MaxGrowth \in Nat

(* The elements of S in the order R, and those of a sequence at the        *)
(* indices in I: what SortSeq and SelectSeq compute, as functions that     *)
(* proofs can be about.                                                    *)
Arranged(S, R) ==
    [k \in 1..Cardinality(S) |->
        CHOOSE i \in S : Cardinality({j \in S : <<j, i>> \in R}) = k - 1]

Ascending(I) == Arranged(I, {p \in I \X I : p[1] < p[2]})

Selected(s, I) ==
    LET at == Ascending(I)
    IN [k \in DOMAIN at |-> s[at[k]]]

-----------------------------------------------------------------------------
(* What a filter says of a task.                                           *)

Archived(task) == task.group = "archive"

(* Strings that contain another one.                                       *)
Contains(text, part) == part = text \/ <<text, part>> \in {<<"build-all", "build">>}

StatusMatches(task, status) ==
    IF status = "failed" THEN task.status \in {"failed", "killed"}
                         ELSE task.status = status

Compare(operator, field, operand) ==
    CASE operator = "="  -> field = operand
      [] operator = "!=" -> field # operand
      [] operator = "<"  -> field < operand
      [] operator = ">"  -> field > operand

(* A whole day: both ends of it are outside of `=`.                        *)
DayLength == 2
CompareDay(operator, field, day) ==
    LET startOfDay == day * DayLength
        endOfDay == (day + 1) * DayLength
    IN CASE operator = "="  -> field > startOfDay /\ field < endOfDay
         [] operator = "!=" -> field < startOfDay /\ field > endOfDay
         [] operator = "<"  -> field < startOfDay
         [] operator = ">"  -> field > endOfDay

(* enqueue_at is looked up for stashed tasks alone.                        *)
TimeField(task, column) ==
    CASE column = "enqueue_at" -> IF task.status = "stashed" THEN task.enqueue_at ELSE NoTime
      [] column = "start"      -> task.start
      [] column = "end"        -> task.end

LabelMatches(operator, label, value) ==
    CASE operator = "="  -> label = value
      [] operator = "!=" -> label # value
      [] operator = "%=" -> Contains(label, value)

Matches(filter, task) ==
    CASE filter.kind = "status" ->
             StatusMatches(task, filter.value) = (filter.operator = "=")
      [] filter.kind = "label" ->
             IF task.label = NotSet THEN filter.operator = "!="
             ELSE LabelMatches(filter.operator, task.label, filter.value)
      [] filter.kind = "command" ->
             LabelMatches(filter.operator, task.command, filter.value)
      [] OTHER ->
             LET field == TimeField(task, filter.column)
             IN /\ field # NoTime
                /\ IF filter.kind = "date"
                   THEN CompareDay(filter.operator, field, filter.value)
                   ELSE Compare(filter.operator, field, filter.value)

(* order_tasks: a task without a time comes first, but last by the time it *)
(* is enqueued.  Done, running and queued tasks have been enqueued, too.   *)
FarFuture == 1000
TextRank(text) == IF text = NotSet THEN 0 ELSE IF text = "build" THEN 1 ELSE 2
Rank(task, column) ==
    CASE column = "id"     -> task.id
      [] column = "status" ->
             CASE task.status = "stashed" -> 0 [] task.status = "locked" -> 1
               [] task.status = "queued" -> 2  [] task.status = "paused" -> 3
               [] task.status = "running" -> 4 [] task.status = "success" -> 6
               [] OTHER -> 5
      [] column = "label"   -> TextRank(task.label)
      [] column = "command" -> TextRank(task.command)
      [] column = "enqueue_at" -> IF task.enqueue_at = NoTime THEN FarFuture ELSE task.enqueue_at
      [] column = "start"  -> task.start
      [] column = "end"    -> task.end

(* sort_by is stable, and the reversal turns equal tasks around as well.   *)
Ordered(tasks, order) ==
    LET rank(i) == Rank(tasks[i], order.column)
        before == {p \in (DOMAIN tasks) \X (DOMAIN tasks) :
                      \/ rank(p[1]) < rank(p[2])
                      \/ rank(p[1]) = rank(p[2]) /\ p[1] < p[2]}
        sorted == Arranged(DOMAIN tasks, before)
        ascending == [k \in DOMAIN tasks |-> tasks[sorted[k]]]
    IN IF order.direction = "desc" THEN SeqExt!Reverse(ascending) ELSE ascending

\* Mutant of Limited: the last tasks begin one too early.
LimitedOneMore(tasks, limit) ==
    IF Len(tasks) <= limit.count THEN tasks
    ELSE IF limit.end = "first" THEN SubSeq(tasks, 1, limit.count)
                                ELSE SubSeq(tasks, Len(tasks) - limit.count, Len(tasks))

Limited(tasks, limit) ==
    IF Len(tasks) <= limit.count \/ limit.count = 0 THEN tasks
    ELSE IF limit.end = "first" THEN SubSeq(tasks, 1, limit.count)
                                ELSE SubSeq(tasks, Len(tasks) - limit.count + 1, Len(tasks))

-----------------------------------------------------------------------------
(* `pueue status`: print_state and apply_query.                            *)

Status ==
    \E tasks \in TaskLists, query \in Lookups :
        /\ command = [kind |-> "status", tasks |-> tasks, query |-> query]
        /\ place = "visible" /\ list = tasks /\ answer = "none"

Continue(next, tasks) ==
    /\ place' = next /\ list' = tasks
    /\ UNCHANGED <<command, answer>>

(* The archive is shown only on request, a group alone.                    *)
HideOtherGroups ==
    /\ place = "visible"
    /\ LET group == command.query.group
       IN Continue("filter", Selected(list, {i \in DOMAIN list :
              /\ Archived(list[i]) => group = "archive"
              /\ group = NotSet \/ list[i].group = group}))

ApplyFilters ==
    /\ place = "filter"
    /\ LET filters == command.query.filters
       IN Continue("order", Selected(list, {i \in DOMAIN list :
              \A k \in DOMAIN filters : Matches(filters[k], list[i])}))

(* The grammar lets a query order by the dependencies, which the           *)
(* comparison does not know: any order may come out.                       *)
OrderTasks ==
    /\ place = "order"
    /\ LET order == command.query.order
       IN CASE order.column = NotSet -> Continue("limit", list)
            [] order.column = "dependencies" ->
                   \E p \in [DOMAIN list -> DOMAIN list] :
                       /\ \A i, j \in DOMAIN list : p[i] = p[j] => i = j
                       /\ Continue("limit", [i \in DOMAIN list |-> list[p[i]]])
            [] OTHER -> Continue("limit", Ordered(list, order))

LimitTasks ==
    /\ place = "limit"
    /\ Continue("shown", IF command.query.limit.end = NotSet THEN list
                         ELSE Limited(list, command.query.limit))

(* The tables: TableBuilder, print_single_group and print_all_groups.  The *)
(* path, which every table shows by default, is left out.                  *)

HasDelay(task) == task.status = "stashed" /\ task.enqueue_at # NoTime

(* Without a selection, some columns are there only if a task of this      *)
(* table has something to show in them.                                    *)
Visible(selected, tasks) ==
    IF selected # {} THEN selected
    ELSE {"id", "status", "command", "start", "end"} \cup
         {column \in {"priority", "enqueue_at", "dependencies", "label"} :
             \E i \in DOMAIN tasks :
                CASE column = "priority"     -> tasks[i].priority # 0
                  [] column = "enqueue_at"   -> HasDelay(tasks[i])
                  [] column = "dependencies" -> tasks[i].dependencies # {}
                  [] column = "label"        -> tasks[i].label # NotSet}

(* build_header and build_task_rows list the columns once each.            *)
Shown(visible) == {k \in DOMAIN Columns : Columns[k] \in visible}

Header(visible) == Selected(Columns, Shown(visible))

(* A command that an alias stands for is shown as it was written.          *)
CommandText(task) == IF command.query.expand THEN task.command ELSE task.original

Row(task, visible) ==
    Selected(<<task.id, task.status, task.priority,
               IF HasDelay(task) THEN task.enqueue_at ELSE NoTime,
               task.dependencies, task.label, CommandText(task), task.start, task.end>>,
             Shown(visible))

TableOf(group, tasks) ==
    LET visible == Visible(command.query.columns, tasks)
    IN [group |-> group, header |-> Header(visible),
        rows |-> [i \in DOMAIN tasks |-> Row(tasks[i], visible)]]

OfGroup(tasks, group) == Selected(tasks, {i \in DOMAIN tasks : tasks[i].group = group})

TablesOf(tasks, groups) ==
    LET used == Selected(groups, {k \in DOMAIN groups : OfGroup(tasks, groups[k]) # <<>>})
    IN [k \in DOMAIN used |-> TableOf(used[k], OfGroup(tasks, used[k]))]

\* Mutant of Tables: the default group comes first and in its place once more.
TablesTwice(tasks) == TablesOf(tasks, <<"default", "archive", "default", "other">>)

(* The default group, then the others that have tasks, by name.            *)
Tables(tasks) == TablesOf(tasks, Groups)

PrintState ==
    /\ place = "shown"
    /\ place' = "printed"
    /\ answer' = Tables(list)
    /\ UNCHANGED <<command, list>>

-----------------------------------------------------------------------------
(* Lists of ids: a part is one id, a range, or a range with a step.        *)

(* The n-th id that the loop over a range looks at: the sum wraps around.  *)
LookedAt(part, n) == (part.start + n * part.step) % (MaxUsize + 1)

\* Mutant of Beyond: the end is left out.
AtOrBeyond(part, id) == id >= part.end

Beyond(part, id) == id > part.end

(* With a step, the loop adds before it looks at the end; after as many    *)
(* rounds as there are numbers it only sees again what it has seen.        *)
(* Without a step, `start..=end`; a single id is the range of itself.      *)
IdsOfRange(part) ==
    LET rounds == 0..(MaxUsize + 1)
        stops == {n \in rounds : Beyond(part, LookedAt(part, n))}
    IN IF ~part.stepped THEN [ids |-> part.start..part.end, ends |-> TRUE]
       ELSE [ids |-> {LookedAt(part, n) : n \in {m \in rounds : \A stop \in stops : m < stop}},
             ends |-> stops # {}]

Refused(part) == (part.stepped /\ part.step = 0) \/ part.start > part.end

Reverse ==
    \E parts \in IdLists :
        /\ command = [kind |-> "reverse", parts |-> parts]
        /\ place = "parse" /\ list = <<>> /\ answer = "none"

(* A BTreeSet collects the ids: each once, in ascending order.             *)
ParseTaskIds ==
    /\ place = "parse"
    /\ LET parts == command.parts
           bad(i) == Refused(parts[i]) \/ ~IdsOfRange(parts[i]).ends
           ids == UNION {IdsOfRange(parts[i]).ids : i \in DOMAIN parts}
       IN IF \E i \in DOMAIN parts : bad(i)
          THEN LET first == CHOOSE i \in DOMAIN parts : bad(i) /\ \A j \in 1..(i - 1) : ~bad(j)
               IN Continue(IF Refused(parts[first]) THEN "refused" ELSE "endless", <<>>)
          ELSE Continue("pair", Ascending(ids))

\* Mutant of Pairs: the middle is rounded down, and its pair dropped.
PairsShort(ids) ==
    [i \in 1..((Len(ids) - 1) \div 2) |-> <<ids[i], ids[Len(ids) + 1 - i]>>]

(* The first with the last, and so on; the one in the middle stays.        *)
Pairs(ids) == [i \in 1..(Len(ids) \div 2) |-> <<ids[i], ids[Len(ids) + 1 - i]>>]

PairIds ==
    /\ place = "pair"
    /\ IF list = <<>> THEN Continue("refused", list)
       ELSE /\ answer' = Pairs(list) /\ place' = "paired"
            /\ UNCHANGED <<command, list>>

-----------------------------------------------------------------------------
(* The last lines of a log: seek_to_last_lines scans the file backwards,   *)
(* in pieces, each from its end.  `list` is the file, which may go on to   *)
(* grow; the scan has the size it began with (start_position), the bytes   *)
(* it has looked at (total_read_bytes), the newlines among them            *)
(* (found_lines), where the piece begins that it holds (piece), and where  *)
(* the file's cursor is.                                                   *)

Log ==
    \E file \in Files, lines \in LineCounts :
        /\ command = [kind |-> "log", file |-> file, lines |-> lines]
        /\ place = "read" /\ list = file
        /\ answer = [start |-> Len(file), total |-> 0, found |-> 0, piece |-> Len(file),
                     cursor |-> Len(file), complete |-> FALSE]

Newlines(file) == {i \in DOMAIN file : file[i] = "newline"}

Searching == place \in {"read", "scan"}

(* The task goes on to write.                                              *)
Grow ==
    /\ Searching /\ Len(list) < Len(command.file) + MaxGrowth
    /\ \E byte \in Bytes : list' = Append(list, byte)
    /\ UNCHANGED <<command, place, answer>>

(* RevBufReader: a piece of any length from right before the last one; the *)
(* cursor is at the beginning of a buffer, which may reach further back.   *)
ReadPiece ==
    /\ place = "read" /\ answer.piece > 0
    /\ \E from \in 0..(answer.piece - 1) : \E cursor \in 0..from :
           answer' = [answer EXCEPT !.piece = from, !.cursor = cursor]
    /\ place' = "scan"
    /\ UNCHANGED <<command, list>>

(* Nothing is left to read: all of the file is shown.                      *)
ReachStart ==
    /\ place = "read" /\ answer.piece = 0
    /\ answer' = [answer EXCEPT !.cursor = 0, !.complete = TRUE]
    /\ place' = "sought"
    /\ UNCHANGED <<command, list>>

\* Mutant of Wanted: the newline that ends the last line is forgotten.
WantedShort == command.lines

(* One more newline than lines: the first one ends the last line.          *)
Wanted == command.lines + 1

\* Mutant of Distance: the size is looked up when it is needed.
DistanceNow(total) == Len(list) - total + 1

Distance(total) == answer.start - total + 1

(* The next byte from behind.  Only a place that lies before where the     *)
(* search began is sought; else the cursor stays where the reader left it. *)
ScanByte ==
    /\ place = "scan"
    /\ LET total == answer.total + 1
           found == answer.found + (IF list[answer.start - answer.total] = "newline" THEN 1 ELSE 0)
           last == found = Wanted /\ found # answer.found
       IN /\ answer' = [answer EXCEPT !.total = total, !.found = found,
                           !.cursor = IF last /\ Distance(total) < answer.start
                                      THEN Distance(total) ELSE @]
          /\ place' = IF last THEN "sought"
                      ELSE IF answer.start - total = answer.piece THEN "read" ELSE "scan"
    /\ UNCHANGED <<command, list>>

SearchStep == Grow \/ ReadPiece \/ ReachStart \/ ScanByte

-----------------------------------------------------------------------------
Init == Status \/ Reverse \/ Log

Next ==
    \/ HideOtherGroups \/ ApplyFilters \/ OrderTasks \/ LimitTasks \/ PrintState
    \/ ParseTaskIds \/ PairIds
    \/ SearchStep

Spec == Init /\ [][Next]_vars

-----------------------------------------------------------------------------
(* What the help of `pueue status` says of a filter (cli.rs:456-478), for  *)
(* a task that has the field.  A date with `!=`, and a time at midnight,   *)
(* are left out: see the README for what the code makes of them.           *)
Documented(filter, task) ==
    CASE filter.kind = "status" ->
             \/ filter.operator = "=" /\ StatusMatches(task, filter.value)
             \/ filter.operator = "!=" /\ ~StatusMatches(task, filter.value)
      [] filter.kind = "label" ->
             \/ filter.operator = "=" /\ task.label = filter.value
             \/ filter.operator = "!=" /\ task.label # filter.value
             \/ filter.operator = "%=" /\ Contains(task.label, filter.value)
      [] filter.kind = "command" ->
             \/ filter.operator = "=" /\ task.command = filter.value
             \/ filter.operator = "!=" /\ task.command # filter.value
             \/ filter.operator = "%=" /\ Contains(task.command, filter.value)
      [] OTHER ->
             LET field == TimeField(task, filter.column)
                 unit == IF filter.kind = "date" THEN DayLength ELSE 1
             IN /\ field # NoTime
                /\ Compare(filter.operator, field \div unit, filter.value)

Odd(filter, task) ==
    /\ filter.kind = "date"
    /\ \/ filter.operator = "!="
       \/ /\ TimeField(task, filter.column) # NoTime
          /\ TimeField(task, filter.column) % DayLength = 0

Candidates ==
    LET query == command.query
    IN {task \in Elements(command.tasks) :
           /\ IF query.group = NotSet THEN ~Archived(task) ELSE task.group = query.group
           /\ \A i \in DOMAIN query.filters : Documented(query.filters[i], task)}

(* Whether one task may stand before another in the table.                 *)
InOrder(first, second) ==
    LET order == command.query.order
        a == IF order.column = NotSet THEN first.id ELSE Rank(first, order.column)
        b == IF order.column = NotSet THEN second.id ELSE Rank(second, order.column)
    IN IF order.direction = "desc" THEN a >= b ELSE a <= b

(* print_state: the tasks that are shown are those the query describes, in *)
(* its order, all of them or as many as it allows, and none is kept back   *)
(* that should stand before (or, from the end, after) one that is shown.   *)
AnswersQuery ==
    LET limit == command.query.limit
        sorts == command.query.order.column # "dependencies"
        hidden == Candidates \ Elements(list)
    IN (/\ place = "shown"
        /\ \A task \in Elements(command.tasks) :
               \A i \in DOMAIN command.query.filters : ~Odd(command.query.filters[i], task))
       => /\ Elements(list) \subseteq Candidates
          /\ Cardinality(Elements(list)) = Len(list)
          /\ hidden # {} => limit.end # NotSet /\ Len(list) = limit.count
          /\ limit.end # NotSet => Len(list) <= limit.count
          /\ sorts =>
                /\ \A i, j \in DOMAIN list : i < j => InOrder(list[i], list[j])
                /\ \A task \in hidden, i \in DOMAIN list :
                       IF limit.end = "first" THEN InOrder(list[i], task)
                                              ELSE InOrder(task, list[i])

(* What a column would show of a task that it does not show of others.     *)
Tells(task, column) ==
    CASE column = "priority"     -> task.priority # 0
      [] column = "enqueue_at"   -> HasDelay(task)
      [] column = "dependencies" -> task.dependencies # {}
      [] column = "label"        -> task.label # NotSet

TextsOf(task) ==
    [id |-> task.id, status |-> task.status, priority |-> task.priority,
     enqueue_at |-> IF HasDelay(task) THEN task.enqueue_at ELSE NoTime,
     dependencies |-> task.dependencies, label |-> task.label,
     command |-> IF command.query.expand THEN task.command ELSE task.original,
     start |-> task.start, end |-> task.end]

(* print_all_groups and TableBuilder: every task of the answer has one row *)
(* in one table, that of its group; within a group the rows keep the order *)
(* of the answer; each text stands under the header of its column; and no  *)
(* priority, delay, dependency or label is hidden that the user did not    *)
(* deselect.                                                               *)
TablesShowAnswer ==
    place = "printed" =>
        LET groupsOf(i) == {j \in DOMAIN answer : answer[j].group = list[i].group}
        IN /\ \A i \in DOMAIN list : Cardinality(groupsOf(i)) = 1
           /\ \A j \in DOMAIN answer :
                  LET table == answer[j]
                      tasks == OfGroup(list, table.group)
                  IN /\ Len(table.rows) = Len(tasks)
                     /\ \A i \in DOMAIN tasks :
                            /\ Len(table.rows[i]) = Len(table.header)
                            /\ \A k \in DOMAIN table.header :
                                   table.rows[i][k] = TextsOf(tasks[i])[table.header[k]]
                            /\ command.query.columns = {} =>
                                   \A column \in {"priority", "enqueue_at",
                                                  "dependencies", "label"} :
                                      Tells(tasks[i], column) => column \in Elements(table.header)

(* pueue status: what is printed is what the query asks for.               *)
StatusAnswersQuery == AnswersQuery /\ TablesShowAnswer

(* parse_task_ids: the ids are those that the ranges name, and parsing     *)
(* ends, unless the step leads past the largest number.                    *)
ParsesAsWritten ==
    LET parts == command.parts
        named == UNION {{k \in part.start..part.end : (k - part.start) % part.step = 0}
                            : part \in {parts[i] : i \in DOMAIN parts}}
    IN place \in {"pair", "endless"} =>
           \/ \E i \in DOMAIN parts :
                  parts[i].stepped /\ parts[i].end + parts[i].step > MaxUsize
           \/ place = "pair" /\ Elements(list) = named

(* reverse and switch: when the daemon has switched the pairs, the tasks   *)
(* stand in the opposite order at the ids that were named.                 *)
ReversesOrder ==
    place = "paired" =>
        LET partner(id) == IF \E p \in Elements(answer) : id \in {p[1], p[2]}
                           THEN LET p == CHOOSE p \in Elements(answer) : id \in {p[1], p[2]}
                                IN IF p[1] = id THEN p[2] ELSE p[1]
                           ELSE id
        IN [i \in DOMAIN list |-> partner(list[i])] = SeqExt!Reverse(list)

(* A list of ids, written with ranges, stands for these ids, and reversing *)
(* it reverses them.                                                       *)
IdListsAsWritten == ParsesAsWritten /\ ReversesOrder

(* seek_to_last_lines: what is read from the cursor on begins with a line  *)
(* and has, of the newlines that the file had when the search began, as    *)
(* many as lines were asked for, or all that there were; it is marked as   *)
(* complete if and only if it is the whole file.  A last line without a    *)
(* newline comes on top; for no lines at all see the README.               *)
LastLinesExact ==
    place = "sought" /\ command.lines > 0 =>
        LET file == command.file
            all == Cardinality(Newlines(file))
            shown == Cardinality({i \in Newlines(file) : i > answer.cursor})
        IN /\ answer.cursor \in 0..Len(file)
           /\ answer.cursor > 0 => file[answer.cursor] = "newline"
           /\ answer.complete <=> answer.cursor = 0
           /\ shown = IF all <= command.lines THEN all ELSE command.lines
=============================================================================
