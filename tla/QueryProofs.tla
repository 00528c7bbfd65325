---------------------------- MODULE QueryProofs -----------------------------
(***************************************************************************)
(* Proofs about what the client computes by itself: the last lines of a    *)
(* log, lists of ids and the pairs of `reverse`, and the tasks and tables  *)
(* that answer `pueue status QUERY`.  Every theorem is about all states,   *)
(* command lines and files that the constants of Queries allow.            *)
(***************************************************************************)
EXTENDS Queries, FiniteSetTheorems, FunctionTheorems, WellFoundedInduction, TLAPS

-----------------------------------------------------------------------------
(* Finite sets.                                                            *)

(* The set of numbers up to another one.                                   *)
LEMMA Interval == \A n \in Nat : IsFiniteSet(1..n) /\ Cardinality(1..n) = n
<1> SUFFICES ASSUME NEW n \in Nat PROVE IsFiniteSet(1..n) /\ Cardinality(1..n) = n
  OBVIOUS
<1>1. 1 \in Int /\ n \in Int
  OBVIOUS
<1>2. /\ IsFiniteSet(1..n)
      /\ Cardinality(1..n) = IF 1 > n THEN 0 ELSE n - 1 + 1
  BY <1>1, FS_Interval
<1>3. QED
  BY <1>2

(* A subset that lacks an element is smaller by one at least.              *)
LEMMA Smaller ==
    ASSUME NEW S, IsFiniteSet(S), NEW T, T \subseteq S, NEW x \in S, x \notin T
    PROVE  /\ IsFiniteSet(T) /\ Cardinality(T) \in Nat /\ Cardinality(S) \in Nat
           /\ Cardinality(T) < Cardinality(S)
<1>1. IsFiniteSet(T) /\ Cardinality(T) <= Cardinality(S)
      /\ (Cardinality(S) = Cardinality(T) => S = T)
  BY FS_Subset
<1>2. Cardinality(T) \in Nat /\ Cardinality(S) \in Nat
  BY <1>1, FS_CardinalityType
<1>3. QED
  BY <1>1, <1>2

(* The least element of a set of numbers.                                  *)
LEMMA LeastNumber == \A A \in SUBSET Nat : A # {} => \E n \in A : \A m \in A : n <= m
<1> SUFFICES ASSUME NEW A \in SUBSET Nat, A # {}
             PROVE  \E n \in A : \A m \in A : n <= m
  OBVIOUS
<1> DEFINE R == StrictSubsetOrdering(Nat)
           F == {0..n : n \in A}
<1>1. ASSUME NEW n \in Nat PROVE 0..n \in FiniteSubsetsOf(Nat)
  <2>1. 0 \in Int /\ n \in Int
    OBVIOUS
  <2>2. IsFiniteSet(0..n)
    BY <2>1, FS_Interval
  <2>3. QED
    BY <2>2 DEF FiniteSubsetsOf
<1>2. F \subseteq FiniteSubsetsOf(Nat) /\ F # {}
  BY <1>1
<1>3. IsWellFoundedOn(R, FiniteSubsetsOf(Nat))
  BY FS_StrictSubsetOrderingWellFounded
<1> HIDE DEF F, R
<1>4. PICK x \in F : \A y \in F : ~(<<y, x>> \in R)
  BY <1>2, <1>3, WFMin
<1>5. PICK n \in A : x = 0..n
  BY DEF F
<1>6. ASSUME NEW m \in A, m < n PROVE FALSE
  <2>1. n \in Nat /\ m \in Nat
    OBVIOUS
  <2>2. 0..m \subseteq 0..n /\ 0..m # 0..n
    BY <2>1, <1>6
  <2>3. 0..m \in F
    BY DEF F
  <2>4. <<0..m, x>> \in R
    BY <2>1, <2>2, <1>5 DEF R, StrictSubsetOrdering
  <2>5. QED
    BY <1>4, <2>3, <2>4
<1>7. QED
  BY <1>6

-----------------------------------------------------------------------------
(* The elements of a finite set in an order.                               *)

StrictTotalOrder(S, R) ==
    /\ \A i \in S : <<i, i>> \notin R
    /\ \A i, j \in S : <<i, j>> \in R \/ i = j \/ <<j, i>> \in R
    /\ \A i, j, k \in S : <<i, j>> \in R /\ <<j, k>> \in R => <<i, k>> \in R

(* Every element of S once, in the order R.                                *)
IsArrangement(s, S, R) ==
    /\ s \in [1..Cardinality(S) -> S]
    /\ \A x \in S : \E k \in 1..Cardinality(S) : s[k] = x
    /\ \A a, b \in 1..Cardinality(S) : a < b => <<s[a], s[b]>> \in R
    /\ \A a, b \in 1..Cardinality(S) : s[a] = s[b] => a = b

(* Arranged: counting the elements before it gives each of them a place of *)
(* its own.                                                                *)
LEMMA ArrangedIs ==
    ASSUME NEW S, IsFiniteSet(S), NEW R, StrictTotalOrder(S, R)
    PROVE  IsArrangement(Arranged(S, R), S, R)
<1> DEFINE n == Cardinality(S)
           Before(i) == {j \in S : <<j, i>> \in R}
           rank == [i \in S |-> Cardinality(Before(i)) + 1]
           s == Arranged(S, R)
<1>1. n \in Nat
  BY FS_CardinalityType
<1>2. ASSUME NEW i \in S PROVE Cardinality(Before(i)) \in Nat /\ Cardinality(Before(i)) < n
  <2>1. Before(i) \subseteq S /\ i \notin Before(i)
    BY DEF StrictTotalOrder
  <2> HIDE DEF Before
  <2>2. QED
    BY <2>1, Smaller
<1>3. ASSUME NEW i \in S, NEW j \in S, <<i, j>> \in R
      PROVE  Cardinality(Before(i)) < Cardinality(Before(j))
  <2>1. Before(i) \subseteq Before(j) /\ i \notin Before(i) /\ i \in Before(j)
    BY <1>3 DEF StrictTotalOrder
  <2>2. Before(j) \subseteq S
    OBVIOUS
  <2> HIDE DEF Before
  <2>3. IsFiniteSet(Before(j))
    BY <2>2, FS_Subset
  <2>4. QED
    BY <2>1, <2>3, Smaller
<1>4. rank \in [S -> 1..n]
  <2>1. ASSUME NEW i \in S PROVE Cardinality(Before(i)) + 1 \in 1..n
    BY <1>1, <1>2
  <2>2. QED
    BY <2>1
<1>5. \A i, j \in S : rank[i] = rank[j] => i = j
  <2>1. ASSUME NEW i \in S, NEW j \in S, <<i, j>> \in R PROVE rank[i] < rank[j]
    <3>1. Cardinality(Before(i)) < Cardinality(Before(j))
      BY <1>3, <2>1
    <3>2. Cardinality(Before(i)) \in Nat /\ Cardinality(Before(j)) \in Nat
      BY <1>2
    <3>3. rank[i] = Cardinality(Before(i)) + 1 /\ rank[j] = Cardinality(Before(j)) + 1
      OBVIOUS
    <3> HIDE DEF Before, rank
    <3>4. QED
      BY <3>1, <3>2, <3>3
  <2> HIDE DEF rank
  <2>2. ASSUME NEW i \in S, NEW j \in S, rank[i] = rank[j] PROVE i = j
    <3>1. rank[i] \in Int /\ rank[j] \in Int
      BY <1>4, <1>1
    <3>2. ~(rank[i] < rank[j]) /\ ~(rank[j] < rank[i])
      BY <3>1, <2>2
    <3>3. <<i, j>> \notin R /\ <<j, i>> \notin R
      BY <2>1, <3>2
    <3>4. QED
      BY <3>3 DEF StrictTotalOrder
  <2>3. QED
    BY <2>2
<1>6. \A k \in 1..n : \E i \in S : rank[i] = k
  <2> HIDE DEF rank
  <2>1. rank \in Injection(S, 1..n)
    BY <1>4, <1>5 DEF Injection, IsInjective
  <2>2. IsFiniteSet(1..n) /\ Cardinality(1..n) = n
    BY <1>1, Interval
  <2>3. rank \in Surjection(S, 1..n)
    BY <2>1, <2>2, FS_Injection
  <2>4. QED
    BY <2>3 DEF Surjection
<1>7. ASSUME NEW k \in 1..n PROVE s[k] \in S /\ rank[s[k]] = k
  <2>1. PICK i \in S : rank[i] = k
    BY <1>6
  <2>2. Cardinality(Before(i)) = k - 1
    <3>1. rank[i] = Cardinality(Before(i)) + 1
      OBVIOUS
    <3> HIDE DEF rank, Before
    <3>2. QED
      BY <2>1, <3>1, <1>2, <1>1
  <2>3. s[k] = CHOOSE x \in S : Cardinality({j \in S : <<j, x>> \in R}) = k - 1
    BY DEF Arranged
  <2>4. s[k] \in S /\ Cardinality(Before(s[k])) = k - 1
    BY <2>2, <2>3
  <2>5. rank[s[k]] = Cardinality(Before(s[k])) + 1
    BY <2>4
  <2> HIDE DEF s, rank, Before
  <2>6. QED
    BY <2>4, <2>5, <1>1
<1>8. s = [k \in 1..n |-> s[k]]
  <2> DEFINE at(k) == CHOOSE i \in S : Cardinality({j \in S : <<j, i>> \in R}) = k - 1
  <2>1. s = [k \in 1..n |-> at(k)]
    BY DEF Arranged
  <2> HIDE DEF at, s
  <2>2. QED
    BY <2>1
<1> HIDE DEF s
<1>9. s \in [1..n -> S]
  BY <1>7, <1>8
<1>10. ASSUME NEW x \in S PROVE \E k \in 1..n : s[k] = x
  <2>1. rank[x] \in 1..n
    BY <1>4
  <2>2. s[rank[x]] \in S /\ rank[s[rank[x]]] = rank[x]
    BY <2>1, <1>7
  <2> HIDE DEF rank
  <2>3. QED
    BY <2>1, <2>2, <1>5
<1>11. ASSUME NEW a \in 1..n, NEW b \in 1..n, a < b PROVE <<s[a], s[b]>> \in R
  <2>1. s[a] \in S /\ s[b] \in S /\ rank[s[a]] = a /\ rank[s[b]] = b
    BY <1>7
  <2>2. rank[s[a]] = Cardinality(Before(s[a])) + 1 /\ rank[s[b]] = Cardinality(Before(s[b])) + 1
    BY <2>1
  <2>3. <<s[b], s[a]>> \in R => Cardinality(Before(s[b])) < Cardinality(Before(s[a]))
    BY <2>1, <1>3
  <2>4. Cardinality(Before(s[a])) \in Nat /\ Cardinality(Before(s[b])) \in Nat
    BY <2>1, <1>2
  <2> HIDE DEF Before, rank
  <2>5. ~(<<s[b], s[a]>> \in R) /\ s[a] # s[b]
    BY <2>1, <2>2, <2>3, <2>4, <1>11, <1>1
  <2>6. QED
    BY <2>1, <2>5 DEF StrictTotalOrder
<1>12. \A a, b \in 1..n : s[a] = s[b] => a = b
  BY <1>7
<1>13. IsArrangement(s, S, R)
  BY <1>9, <1>10, <1>11, <1>12 DEF IsArrangement
<1>14. QED
  BY <1>13 DEF s

(* Ascending: every number of a finite set once, the smaller ones first.   *)
IsAscending(at, I) ==
    /\ Cardinality(I) \in Nat
    /\ at \in [1..Cardinality(I) -> I]
    /\ \A x \in I : \E k \in 1..Cardinality(I) : at[k] = x
    /\ \A a, b \in 1..Cardinality(I) : a < b => at[a] < at[b]
    /\ \A a, b \in 1..Cardinality(I) : at[a] = at[b] => a = b

LEMMA AscendingIs ==
    ASSUME NEW I, IsFiniteSet(I), I \subseteq Int
    PROVE  IsAscending(Ascending(I), I)
<1> DEFINE R == {p \in I \X I : p[1] < p[2]}
<1>1. \A i, j \in I : <<i, j>> \in R <=> i < j
  OBVIOUS
<1>2. Ascending(I) = Arranged(I, R)
  BY DEF Ascending
<1> HIDE DEF R
<1>3. StrictTotalOrder(I, R)
  BY <1>1 DEF StrictTotalOrder
<1>4. IsArrangement(Arranged(I, R), I, R)
  BY <1>3, ArrangedIs
<1>5. Cardinality(I) \in Nat
  BY FS_CardinalityType
<1> DEFINE at == Arranged(I, R)
<1>6. IsArrangement(at, I, R) /\ at = Ascending(I)
  BY <1>4, <1>2
<1> HIDE DEF at
<1>7. \A a, b \in 1..Cardinality(I) : a < b => at[a] < at[b]
  BY <1>6, <1>1 DEF IsArrangement
<1>8. IsAscending(at, I)
  BY <1>5, <1>6, <1>7 DEF IsAscending, IsArrangement
<1>9. QED
  BY <1>8, <1>6

(* Selected: the elements of a sequence at some of its indices.            *)
LEMMA SelectedIs ==
    ASSUME NEW X, NEW s \in Seq(X), NEW I \in SUBSET DOMAIN s
    PROVE  /\ IsAscending(Ascending(I), I)
           /\ Selected(s, I) \in Seq(X)
           /\ Len(Selected(s, I)) = Cardinality(I)
           /\ DOMAIN Selected(s, I) = 1..Cardinality(I)
           /\ \A k \in 1..Cardinality(I) : Selected(s, I)[k] = s[Ascending(I)[k]]
<1> DEFINE at == Ascending(I)
           n == Cardinality(I)
<1>1. IsFiniteSet(I) /\ I \subseteq Int
  <2>1. DOMAIN s = 1..Len(s) /\ Len(s) \in Nat
    OBVIOUS
  <2>2. IsFiniteSet(DOMAIN s)
    BY <2>1, Interval
  <2>3. QED
    BY <2>1, <2>2, FS_Subset
<1>2. IsAscending(at, I)
  BY <1>1, AscendingIs
<1>3. Selected(s, I) = [k \in DOMAIN at |-> s[at[k]]]
  BY DEF Selected
<1> HIDE DEF at
<1>4. n \in Nat /\ DOMAIN at = 1..n
  BY <1>2 DEF IsAscending
<1>5. \A k \in 1..n : s[at[k]] \in X
  BY <1>2 DEF IsAscending
<1> HIDE DEF n
<1>6. Selected(s, I) \in [1..n -> X]
  BY <1>3, <1>4, <1>5
<1>7. Selected(s, I) \in Seq(X) /\ Len(Selected(s, I)) = n
  BY <1>4, <1>6
<1>8. QED
  BY <1>2, <1>3, <1>4, <1>6, <1>7 DEF n, at

-----------------------------------------------------------------------------
(* The last lines of a log.                                                *)

(* The newlines of a file behind a place.                                  *)
Behind(file, from) == {i \in Newlines(file) : i > from}

(* One byte further to the front, there is one newline more or none.       *)
LEMMA OneByteMore ==
    ASSUME NEW file \in Seq(Bytes), NEW x \in 1..Len(file)
    PROVE  /\ IsFiniteSet(Newlines(file))
           /\ IsFiniteSet(Behind(file, x)) /\ Cardinality(Behind(file, x)) \in Nat
           /\ Cardinality(Behind(file, x - 1)) =
                  Cardinality(Behind(file, x)) + (IF file[x] = "newline" THEN 1 ELSE 0)
<1>1. DOMAIN file = 1..Len(file) /\ Len(file) \in Nat
  OBVIOUS
<1>2. IsFiniteSet(Newlines(file))
  <2>1. Newlines(file) \subseteq 1..Len(file)
    BY <1>1 DEF Newlines
  <2>2. QED
    BY <1>1, <2>1, Interval, FS_Subset
<1>3. IsFiniteSet(Behind(file, x)) /\ Cardinality(Behind(file, x)) \in Nat
  <2>1. Behind(file, x) \subseteq Newlines(file)
    BY DEF Behind
  <2>2. QED
    BY <1>2, <2>1, FS_Subset, FS_CardinalityType
<1>4. CASE file[x] = "newline"
  <2>1. Behind(file, x - 1) = Behind(file, x) \cup {x} /\ x \notin Behind(file, x)
    BY <1>1, <1>4 DEF Behind, Newlines
  <2>2. Cardinality(Behind(file, x - 1)) = Cardinality(Behind(file, x)) + 1
    BY <1>3, <2>1, FS_AddElement
  <2>3. QED
    BY <1>2, <1>3, <1>4, <2>2
<1>5. CASE file[x] # "newline"
  <2>1. Behind(file, x - 1) = Behind(file, x)
    BY <1>1, <1>5 DEF Behind, Newlines
  <2>2. QED
    BY <1>2, <1>3, <1>5, <2>1
<1>6. QED
  BY <1>4, <1>5

(* What LastLinesExact says of an answer, for any file and amount.         *)
LinesExact(file, amount, found) ==
    /\ found.cursor \in 0..Len(file)
    /\ found.cursor > 0 => file[found.cursor] = "newline"
    /\ found.complete <=> found.cursor = 0
    /\ Cardinality(Behind(file, found.cursor)) =
           IF Cardinality(Newlines(file)) <= amount THEN Cardinality(Newlines(file)) ELSE amount

Scan == [start : Nat, total : Nat, found : Nat, piece : Nat, cursor : Nat, complete : BOOLEAN]

(* While the file is scanned, it still begins with what it was; the        *)
(* newlines that were found are those of the bytes that were looked at, no *)
(* more than lines are wanted; and the piece that is held ends before the  *)
(* first of these bytes.                                                   *)
LogInv ==
    LET file == command.file
        at == answer.start - answer.total
    IN /\ place \in {"read", "scan", "sought"} =>
              file \in Files /\ command.lines \in LineCounts
       /\ place \in {"read", "scan"} =>
              /\ list \in Seq(Bytes) /\ Len(file) <= Len(list)
              /\ \A i \in DOMAIN file : list[i] = file[i]
              /\ answer \in Scan /\ answer.start = Len(file) /\ ~answer.complete
              /\ answer.total <= answer.start
              /\ answer.found = Cardinality(Behind(file, at))
              /\ answer.found <= command.lines
              /\ place = "read" => answer.piece = at
              /\ place = "scan" => answer.piece < at
       /\ place = "sought" /\ command.lines > 0 => LinesExact(file, command.lines, answer)

LEMMA FilesAre == \A file \in Files : file \in Seq(Bytes) /\ Len(file) \in Nat /\ DOMAIN file = 1..Len(file)
  BY QueriesAssumption

LEMMA InitLog == Init => LogInv
<1>1. Status => LogInv
  BY DEF Status, LogInv
<1>2. Reverse => LogInv
  BY DEF Reverse, LogInv
<1>3. ASSUME Log PROVE LogInv
  <2>1. PICK file \in Files, lines \in LineCounts :
            /\ command = [kind |-> "log", file |-> file, lines |-> lines]
            /\ place = "read" /\ list = file
            /\ answer = [start |-> Len(file), total |-> 0, found |-> 0, piece |-> Len(file),
                         cursor |-> Len(file), complete |-> FALSE]
    BY <1>3 DEF Log
  <2>2. /\ file \in Seq(Bytes) /\ Len(file) \in Nat /\ DOMAIN file = 1..Len(file)
        /\ lines \in Nat
    BY FilesAre, QueriesAssumption
  <2>3. Behind(file, Len(file)) = {}
    BY <2>2 DEF Behind, Newlines
  <2>4. Cardinality(Behind(file, Len(file))) = 0
    BY <2>3, FS_EmptySet
  <2>5. /\ answer \in Scan /\ answer.start = Len(file) /\ ~answer.complete
        /\ answer.total = 0 /\ answer.found = 0 /\ answer.piece = Len(file)
    BY <2>1, <2>2 DEF Scan
  <2>6. answer.start - answer.total = Len(file)
    BY <2>2, <2>5
  <2>7. command.file = file /\ command.lines = lines
    BY <2>1
  <2>8. QED
    BY <2>1, <2>2, <2>4, <2>5, <2>6, <2>7 DEF LogInv
<1>4. QED
  BY <1>1, <1>2, <1>3 DEF Init

(* A byte is what it was when the search began, and it is the one right    *)
(* before those that were looked at.  The newline that is found as the     *)
(* last one is not the last byte of the file.                              *)
LEMMA ScanKeeps == LogInv /\ ScanByte => LogInv'
<1> SUFFICES ASSUME LogInv, ScanByte PROVE LogInv'
  OBVIOUS
<1>1. PICK file : file = command.file
  OBVIOUS
<1>2. PICK n : n = command.lines
  OBVIOUS
<1>3. /\ file \in Seq(Bytes) /\ Len(file) \in Nat /\ DOMAIN file = 1..Len(file)
      /\ n \in Nat
  BY <1>1, <1>2, FilesAre, QueriesAssumption DEF LogInv, ScanByte
<1>4. PICK x : x = answer.start - answer.total
  OBVIOUS
<1>5. /\ answer \in Scan /\ answer.start = Len(file) /\ ~answer.complete
      /\ answer.total <= answer.start
      /\ answer.found = Cardinality(Behind(file, x)) /\ answer.found <= n
      /\ answer.piece < x /\ \A i \in DOMAIN file : list[i] = file[i]
      /\ list \in Seq(Bytes) /\ Len(file) <= Len(list)
  BY <1>1, <1>2, <1>4 DEF LogInv, ScanByte
<1>6. /\ answer.total \in Nat /\ answer.found \in Nat /\ answer.piece \in Nat
      /\ answer.cursor \in Nat
  BY <1>5 DEF Scan
<1>7. /\ x = Len(file) - answer.total /\ x \in 1..Len(file)
      /\ list[x] = file[x]
  <2>1. x = Len(file) - answer.total
    BY <1>4, <1>5
  <2>2. Len(file) \in Nat /\ answer.piece < x
    BY <1>3, <1>5
  <2>3. x \in 1..Len(file)
    BY <1>6, <2>1, <2>2
  <2>4. x \in DOMAIN file
    BY <1>3, <2>3
  <2>5. QED
    BY <1>5, <2>1, <2>3, <2>4
<1>8. PICK found : found = answer.found + (IF list[x] = "newline" THEN 1 ELSE 0)
  OBVIOUS
<1>9. /\ found = Cardinality(Behind(file, x - 1)) /\ found \in Nat
      /\ IsFiniteSet(Newlines(file)) /\ IsFiniteSet(Behind(file, x))
  <2>1. file \in Seq(Bytes) /\ answer.found = Cardinality(Behind(file, x))
    BY <1>3, <1>5
  <2>2. found = answer.found + (IF file[x] = "newline" THEN 1 ELSE 0)
    BY <1>7, <1>8
  <2>3. QED
    BY <1>6, <1>7, <2>1, <2>2, OneByteMore
<1>10. PICK total : total = answer.total + 1
  OBVIOUS
<1>11. /\ total \in Nat /\ total <= answer.start /\ answer.start - total = x - 1
       /\ Distance(total) = x
  <2>1. answer.start = Len(file) /\ Len(file) \in Nat
    BY <1>3, <1>5
  <2>2. total = answer.total + 1 /\ answer.total \in Nat
    BY <1>6, <1>10
  <2>3. x = Len(file) - answer.total /\ x \in Int /\ 1 <= x
    BY <1>7, <2>1
  <2>4. /\ total \in Nat /\ total <= Len(file)
        /\ Len(file) - total = x - 1 /\ Len(file) - total + 1 = x
    BY <2>1, <2>2, <2>3
  <2>5. QED
    BY <2>1, <2>4 DEF Distance
<1>12. UNCHANGED <<command, list>>
  BY DEF ScanByte
<1>13. CASE ~(found = n + 1 /\ found # answer.found)
  <2>1. /\ answer' = [answer EXCEPT !.total = total, !.found = found, !.cursor = @]
        /\ place' = IF answer.start - total = answer.piece THEN "read" ELSE "scan"
    BY <1>2, <1>4, <1>8, <1>10, <1>13 DEF ScanByte, Wanted
  <2>2. /\ answer' \in Scan /\ answer'.start = answer.start /\ answer'.complete = answer.complete
        /\ answer'.total = total /\ answer'.found = found /\ answer'.piece = answer.piece
    BY <1>5, <1>9, <1>11, <2>1 DEF Scan
  <2>3. found <= n
    BY <1>3, <1>5, <1>6, <1>8, <1>13
  <2>4. answer.piece < x - 1 \/ answer.piece = x - 1
    BY <1>5, <1>6, <1>7
  <2>5. place' \in {"read", "scan"} /\ (place' = "read" => answer.piece = x - 1)
        /\ (place' = "scan" => answer.piece < x - 1)
    BY <1>11, <2>1, <2>4
  <2>6. answer'.start - answer'.total = x - 1
    BY <1>11, <2>2
  <2>7. QED
    BY <1>1, <1>2, <1>5, <1>9, <1>11, <1>12, <2>2, <2>3, <2>5, <2>6 DEF LogInv, ScanByte
<1>14. CASE found = n + 1 /\ found # answer.found
  <2>1. /\ answer' = [answer EXCEPT !.total = total, !.found = found,
                          !.cursor = IF x < answer.start THEN x ELSE @]
        /\ place' = "sought"
    BY <1>2, <1>4, <1>8, <1>10, <1>11, <1>14 DEF ScanByte, Wanted
  <2>2. ASSUME n > 0 PROVE LinesExact(file, n, answer')
    <3>1. list[x] = "newline" /\ answer.found = n
      BY <1>3, <1>5, <1>6, <1>8, <1>14
    <3>2. Behind(file, x) # {}
      <4>1. Cardinality(Behind(file, x)) > 0
        BY <1>5, <2>2, <3>1
      <4>2. Cardinality({}) = 0
        BY FS_EmptySet
      <4>3. QED
        BY <4>1, <4>2
    <3>3. x < answer.start
      BY <1>3, <1>5, <1>7, <3>2 DEF Behind, Newlines
    <3>4. answer'.cursor = x /\ answer'.complete = answer.complete
      BY <1>5, <2>1, <3>3 DEF Scan
    <3>5. x \in Newlines(file) /\ x \notin Behind(file, x) /\ Behind(file, x) \subseteq Newlines(file)
      <4>1. x \in DOMAIN file /\ file[x] = "newline" /\ ~(x > x)
        BY <1>3, <1>7, <3>1
      <4>2. QED
        BY <4>1 DEF Behind, Newlines
    <3>6. n < Cardinality(Newlines(file)) /\ Cardinality(Newlines(file)) \in Nat
      BY <1>5, <1>9, <3>1, <3>5, Smaller
    <3>7. ~(Cardinality(Newlines(file)) <= n)
      BY <1>3, <3>6
    <3>8. Cardinality(Behind(file, x)) = n /\ file[x] = "newline"
      BY <1>5, <1>7, <3>1
    <3>9. x \in 0..Len(file) /\ x > 0
      BY <1>3, <1>7
    <3>10. QED
      BY <1>5, <3>4, <3>7, <3>8, <3>9 DEF LinesExact
  <2>3. QED
    BY <1>1, <1>2, <1>12, <2>1, <2>2 DEF LogInv, ScanByte
<1>15. QED
  BY <1>13, <1>14

(* At the start of the file all of its newlines have been found.           *)
LEMMA StartKeeps == LogInv /\ ReachStart => LogInv'
<1> SUFFICES ASSUME LogInv, ReachStart PROVE LogInv'
  OBVIOUS
<1>1. PICK file : file = command.file
  OBVIOUS
<1>2. PICK n : n = command.lines
  OBVIOUS
<1>3. /\ file \in Seq(Bytes) /\ Len(file) \in Nat /\ DOMAIN file = 1..Len(file)
      /\ n \in Nat
  BY <1>1, <1>2, FilesAre, QueriesAssumption DEF LogInv, ReachStart
<1>4. /\ answer \in Scan /\ answer.found <= n
      /\ answer.found = Cardinality(Behind(file, 0))
  BY <1>1, <1>2 DEF LogInv, ReachStart
<1>5. Behind(file, 0) = Newlines(file)
  BY <1>3 DEF Behind, Newlines
<1>6. answer'.cursor = 0 /\ answer'.complete = TRUE
  BY <1>4 DEF ReachStart, Scan
<1>7. LinesExact(file, n, answer')
  BY <1>3, <1>4, <1>5, <1>6 DEF LinesExact
<1>8. place' = "sought" /\ UNCHANGED <<command, list>>
  BY DEF ReachStart
<1>9. QED
  BY <1>1, <1>2, <1>7, <1>8 DEF LogInv, ReachStart

LEMMA ReadKeeps == LogInv /\ ReadPiece => LogInv'
<1> SUFFICES ASSUME LogInv, ReadPiece PROVE LogInv'
  OBVIOUS
<1>1. answer \in Scan /\ answer.piece \in Nat
  BY DEF LogInv, ReadPiece, Scan
<1>2. PICK from \in 0..(answer.piece - 1) : \E cursor \in 0..from :
          answer' = [answer EXCEPT !.piece = from, !.cursor = cursor]
  BY DEF ReadPiece
<1>3. PICK cursor \in 0..from : answer' = [answer EXCEPT !.piece = from, !.cursor = cursor]
  BY <1>2
<1>4. from \in Nat /\ cursor \in Nat /\ from < answer.piece
  BY <1>1
<1>5. /\ answer' \in Scan /\ answer'.start = answer.start /\ answer'.total = answer.total
      /\ answer'.found = answer.found /\ answer'.complete = answer.complete
      /\ answer'.piece = from
  BY <1>1, <1>3, <1>4 DEF Scan
<1>6. place = "read" /\ place' = "scan" /\ UNCHANGED <<command, list>>
  BY DEF ReadPiece
<1>7. QED
  BY <1>4, <1>5, <1>6 DEF LogInv

LEMMA GrowKeeps == LogInv /\ Grow => LogInv'
<1> SUFFICES ASSUME LogInv, Grow PROVE LogInv'
  OBVIOUS
<1>1. place \in {"read", "scan"} /\ UNCHANGED <<command, place, answer>>
  BY DEF Grow, Searching
<1>2. PICK byte \in Bytes : list' = Append(list, byte)
  BY DEF Grow
<1>3. PICK file : file = command.file
  OBVIOUS
<1>4. /\ Len(file) \in Nat /\ DOMAIN file = 1..Len(file)
      /\ list \in Seq(Bytes) /\ Len(file) <= Len(list)
      /\ \A i \in DOMAIN file : list[i] = file[i]
  BY <1>1, <1>3, FilesAre DEF LogInv
<1>5. list' \in Seq(Bytes) /\ Len(file) <= Len(list')
      /\ \A i \in DOMAIN file : list'[i] = file[i]
  BY <1>2, <1>4
<1>6. QED
  BY <1>1, <1>3, <1>5 DEF LogInv

(* Each order leads to the limit, with some tasks.                         *)
LEMMA OrderContinues == OrderTasks => place = "order" /\ \E tasks : Continue("limit", tasks)
<1> SUFFICES ASSUME OrderTasks PROVE place = "order" /\ \E tasks : Continue("limit", tasks)
  OBVIOUS
<1> DEFINE order == command.query.order
<1>1. CASE order.column = NotSet
  BY <1>1 DEF OrderTasks
<1>2. CASE order.column # NotSet /\ order.column = "dependencies"
  <2>1. PICK p \in [DOMAIN list -> DOMAIN list] :
            Continue("limit", [i \in DOMAIN list |-> list[p[i]]])
    BY <1>2 DEF OrderTasks, NotSet
  <2>2. place = "order"
    BY DEF OrderTasks
  <2>3. QED
    BY <2>1, <2>2
<1>3. CASE order.column # NotSet /\ order.column # "dependencies"
  BY <1>3 DEF OrderTasks
<1>4. QED
  BY <1>1, <1>2, <1>3

LEMMA NextLog == LogInv /\ [Next]_vars => LogInv'
<1> SUFFICES ASSUME LogInv, [Next]_vars PROVE LogInv'
  OBVIOUS
<1>1. ASSUME NEW next, NEW tasks, Continue(next, tasks), next \notin {"read", "scan", "sought"}
      PROVE  LogInv'
  BY <1>1 DEF Continue, LogInv
<1>2. CASE HideOtherGroups
  BY <1>1, <1>2 DEF HideOtherGroups
<1>3. CASE ApplyFilters
  BY <1>1, <1>3 DEF ApplyFilters
<1>4. CASE OrderTasks
  BY <1>1, <1>4, OrderContinues
<1>5. CASE LimitTasks
  BY <1>1, <1>5 DEF LimitTasks
<1>6. CASE PrintState
  BY <1>6 DEF PrintState, LogInv
<1>7. CASE ParseTaskIds
  BY <1>1, <1>7 DEF ParseTaskIds
<1>8. CASE PairIds
  BY <1>1, <1>8 DEF PairIds, LogInv
<1>9. CASE SearchStep
  BY <1>9, GrowKeeps, ReadKeeps, StartKeeps, ScanKeeps DEF SearchStep
<1>10. CASE UNCHANGED vars
  BY <1>10 DEF vars, LogInv
<1>11. QED
  BY <1>2, <1>3, <1>4, <1>5, <1>6, <1>7, <1>8, <1>9, <1>10 DEF Next

(* seek_to_last_lines, for every file, every number of lines, every size   *)
(* of the pieces that are read and however the file grows meanwhile: what  *)
(* is read begins with a line, has as many newlines as were asked for, and *)
(* is marked as complete if and only if it is the whole file.              *)
THEOREM LastLinesAlwaysExact == Spec => []LastLinesExact
<1>1. LogInv => LastLinesExact
  BY DEF LogInv, LastLinesExact, LinesExact, Behind
<1>2. QED
  BY <1>1, InitLog, NextLog, PTL DEF Spec

-----------------------------------------------------------------------------
(* Lists of ids.                                                           *)

(* Division with a remainder, and products.                                *)
LEMMA DivisionIs ==
    \A a \in Nat, d \in Nat : d > 0 =>
        /\ a \div d \in Nat /\ a % d \in Nat /\ a % d < d
        /\ a = d * (a \div d) + (a % d)
<1> SUFFICES ASSUME NEW a \in Nat, NEW d \in Nat, d > 0
             PROVE  /\ a \div d \in Nat /\ a % d \in Nat /\ a % d < d
                    /\ a = d * (a \div d) + (a % d)
  OBVIOUS
<1>1. QED
  OBVIOUS

LEMMA MultipleIs == \A m \in Nat, d \in Nat : d > 0 => (d * m) % d = 0
  OBVIOUS

LEMMA ProductGrows == \A m, q, d \in Nat : m <= q => d * m \in Nat /\ d * m <= d * q
  OBVIOUS

LEMMA NoWrap == \A x \in Nat : x <= MaxUsize => x % (MaxUsize + 1) = x
  BY QueriesAssumption

(* The ids that a part names: every step-th from its start to its end.     *)
Named(part) == {k \in part.start..part.end : (k - part.start) % part.step = 0}

(* The step after the end does not fit into a number.                      *)
Overflows(part) == part.stepped /\ part.end + part.step > MaxUsize

LEMMA PartIs ==
    ASSUME NEW part \in Part
    PROVE  /\ part.start \in Nat /\ part.end \in Nat /\ part.step \in Nat
           /\ part.end <= MaxUsize /\ part.stepped \in BOOLEAN
           /\ ~part.stepped => part.step = 1
<1>1. \A k \in Ids : k \in Nat /\ k <= MaxUsize
  BY QueriesAssumption DEF Ids
<1>2. CASE part \in [start : Ids, end : Ids, step : {1}, stepped : {FALSE}]
  <2>1. /\ part.start \in Ids /\ part.end \in Ids
        /\ part.step = 1 /\ part.stepped = FALSE
    BY <1>2
  <2>2. part.start \in Nat /\ part.end \in Nat /\ part.end <= MaxUsize
    BY <1>1, <2>1
  <2>3. part.step \in Nat
    BY <2>1
  <2>4. part.stepped \in BOOLEAN
    BY <2>1
  <2>5. QED
    BY <2>1, <2>2, <2>3, <2>4
<1>3. CASE part \in [start : Ids, end : Ids, step : Ids, stepped : {TRUE}]
  <2>1. /\ part.start \in Ids /\ part.end \in Ids
        /\ part.step \in Ids /\ part.stepped = TRUE
    BY <1>3
  <2>2. QED
    BY <1>1, <2>1
<1>4. QED
  BY <1>2, <1>3 DEF Part

(* parse_range collects what the part names, unless the loop wraps around: *)
(* the first id that it looks at after the end is the one that stops it.   *)
LEMMA RangeAsWritten ==
    ASSUME NEW part \in Part, ~Refused(part), ~Overflows(part)
    PROVE  IdsOfRange(part).ends /\ IdsOfRange(part).ids = Named(part)
<1>1. PICK s \in Nat, e \in Nat, d \in Nat : part.start = s /\ part.end = e /\ part.step = d
  BY PartIs
<1>2. s <= e /\ MaxUsize \in Nat
  BY <1>1, PartIs, QueriesAssumption DEF Refused
<1>3. ASSUME ~part.stepped PROVE IdsOfRange(part).ends /\ IdsOfRange(part).ids = Named(part)
  <2>1. IdsOfRange(part) = [ids |-> part.start..part.end, ends |-> TRUE]
    BY <1>3 DEF IdsOfRange
  <2>2. \A k \in s..e : (k - s) % 1 = 0
    OBVIOUS
  <2>3. Named(part) = s..e
    BY <1>1, <1>3, <2>2, PartIs DEF Named
  <2>4. QED
    BY <1>1, <2>1, <2>3
<1>4. ASSUME part.stepped PROVE IdsOfRange(part).ends /\ IdsOfRange(part).ids = Named(part)
  <2> DEFINE rounds == 0..(MaxUsize + 1)
             stops == {n \in rounds : Beyond(part, LookedAt(part, n))}
             looked == {m \in rounds : \A stop \in stops : m < stop}
  <2>1. d > 0 /\ e + d <= MaxUsize
    BY <1>1, <1>2, <1>4 DEF Refused, Overflows
  <2>2. PICK q \in Nat : e - s = d * q + ((e - s) % d) /\ (e - s) % d \in Nat /\ (e - s) % d < d
    BY <1>2, <2>1, DivisionIs
  <2>3. d * q <= e - s /\ e - s < d * (q + 1) /\ d * (q + 1) = d * q + d
    BY <1>2, <2>1, <2>2
  <2>4. \A n \in Nat : n <= q + 1 => /\ LookedAt(part, n) = s + d * n
                                     /\ s + d * n \in Nat /\ n \in rounds
    <3> SUFFICES ASSUME NEW n \in Nat, n <= q + 1
                 PROVE  /\ LookedAt(part, n) = s + d * n
                        /\ s + d * n \in Nat /\ n \in rounds
      OBVIOUS
    <3>1. d * n \in Nat /\ d * n <= d * (q + 1)
      BY ProductGrows
    <3>2. s + d * n \in Nat /\ s + d * n <= MaxUsize
      BY <1>2, <2>1, <2>3, <3>1
    <3>3. n <= d * n /\ n * d = d * n
      BY <2>1
    <3>4. n \in rounds
      BY <1>2, <3>2, <3>3
    <3>5. LookedAt(part, n) = (s + d * n) % (MaxUsize + 1)
      BY <1>1, <3>3 DEF LookedAt
    <3>6. QED
      BY <3>2, <3>4, <3>5, NoWrap
  <2>5. q + 1 \in stops
    <3>1. q + 1 \in Nat /\ q + 1 <= q + 1
      OBVIOUS
    <3>2. LookedAt(part, q + 1) = s + d * (q + 1) /\ q + 1 \in rounds
      BY <2>4, <3>1
    <3>3. s + d * (q + 1) > e
      BY <1>2, <2>3, <3>1, <2>1
    <3>4. QED
      BY <1>1, <3>2, <3>3 DEF Beyond
  <2>6. \A n \in Nat : n <= q => n \notin stops /\ s + d * n <= e
    <3> SUFFICES ASSUME NEW n \in Nat, n <= q PROVE n \notin stops /\ s + d * n <= e
      OBVIOUS
    <3>1. d * n \in Nat /\ d * n <= d * q
      BY ProductGrows
    <3>2. s + d * n <= e
      BY <1>2, <2>3, <3>1
    <3>3. LookedAt(part, n) = s + d * n
      BY <2>4
    <3>4. QED
      BY <1>1, <3>2, <3>3, <3>1 DEF Beyond
  <2>7. looked = 0..q
    <3>1. ASSUME NEW m \in looked PROVE m \in 0..q
      <4>1. m < q + 1 /\ m \in Nat
        BY <2>5, <1>2
      <4>2. QED
        BY <4>1
    <3>2. ASSUME NEW m \in 0..q PROVE m \in looked
      <4>1. m \in Nat /\ m <= q /\ m <= q + 1
        OBVIOUS
      <4>2. m \in rounds
        BY <2>4, <4>1
      <4>3. \A stop \in stops : stop \in Nat /\ ~(stop <= q)
        BY <2>6, <1>2
      <4>4. QED
        BY <4>1, <4>2, <4>3
    <3>3. QED
      BY <3>1, <3>2
  <2>8. IdsOfRange(part) = [ids |-> {LookedAt(part, n) : n \in looked}, ends |-> stops # {}]
    BY <1>4 DEF IdsOfRange
  <2> HIDE DEF looked, stops, rounds
  <2>9. IdsOfRange(part).ends /\ IdsOfRange(part).ids = {LookedAt(part, n) : n \in 0..q}
    <3>1. IdsOfRange(part).ends
      <4>1. IdsOfRange(part).ends = (stops # {})
        BY <2>8
      <4>2. stops # {}
        BY <2>5
      <4>3. QED
        BY <4>1, <4>2
    <3>2. IdsOfRange(part).ids = {LookedAt(part, n) : n \in looked}
      BY <2>8
    <3>3. QED
      BY <3>1, <3>2, <2>7
  <2>10. {LookedAt(part, n) : n \in 0..q} \subseteq Named(part)
    <3> SUFFICES ASSUME NEW n \in 0..q PROVE LookedAt(part, n) \in Named(part)
      OBVIOUS
    <3>1. n \in Nat /\ n <= q /\ n <= q + 1
      OBVIOUS
    <3>2. LookedAt(part, n) = s + d * n /\ s + d * n <= e /\ d * n \in Nat
      BY <2>4, <2>6, <3>1
    <3>3. s + d * n \in s..e /\ (s + d * n) - s = d * n
      BY <3>2
    <3>4. (d * n) % d = 0
      BY <2>1, <3>1, MultipleIs
    <3>5. QED
      BY <1>1, <3>2, <3>3, <3>4 DEF Named
  <2>11. ASSUME NEW k \in Named(part) PROVE \E n \in 0..q : LookedAt(part, n) = k
    <3>1. k \in s..e /\ (k - s) % d = 0
      BY <1>1 DEF Named
    <3>2. k - s \in Nat /\ k - s <= e - s
      BY <3>1
    <3>3. PICK n \in Nat : k - s = d * n
      BY <2>1, <3>1, <3>2, DivisionIs
    <3>4. n <= q
      <4>1. CASE q + 1 <= n
        <5>1. d * (q + 1) <= d * n
          BY <4>1, ProductGrows
        <5>2. QED
          BY <1>2, <2>3, <3>2, <3>3, <5>1
      <4>2. CASE ~(q + 1 <= n)
        BY <4>2
      <4>3. QED
        BY <4>1, <4>2
    <3>5. LookedAt(part, n) = s + d * n /\ s + d * n = k
      BY <2>4, <3>1, <3>3, <3>4
    <3>6. QED
      BY <3>4, <3>5
  <2>12. QED
    BY <2>9, <2>10, <2>11
<1>5. QED
  BY <1>3, <1>4, PartIs

(* Whatever the range, the ids are numbers of the width.                   *)
LEMMA RangeWithin ==
    ASSUME NEW part \in Part PROVE IdsOfRange(part).ids \subseteq 0..MaxUsize
<1>1. CASE part.stepped
  <2>1. \A n \in Nat : LookedAt(part, n) \in 0..MaxUsize
    <3> SUFFICES ASSUME NEW n \in Nat PROVE LookedAt(part, n) \in 0..MaxUsize
      OBVIOUS
    <3>1. PICK x \in Nat : x = part.start + n * part.step
      <4>1. part.start \in Nat /\ part.step \in Nat
        BY PartIs
      <4>2. QED
        BY <4>1
    <3>2. x % (MaxUsize + 1) \in 0..MaxUsize
      BY QueriesAssumption
    <3>3. QED
      BY <3>1, <3>2 DEF LookedAt
  <2> DEFINE looked == {m \in 0..(MaxUsize + 1) :
                           \A stop \in {n \in 0..(MaxUsize + 1) : Beyond(part, LookedAt(part, n))} :
                              m < stop}
  <2>2. looked \subseteq Nat
    BY QueriesAssumption
  <2>3. IdsOfRange(part).ids = {LookedAt(part, n) : n \in looked}
    BY <1>1 DEF IdsOfRange
  <2> HIDE DEF looked
  <2>4. QED
    BY <2>1, <2>2, <2>3
<1>2. CASE ~part.stepped
  <2>1. IdsOfRange(part).ids = part.start..part.end
    BY <1>2 DEF IdsOfRange
  <2>2. QED
    BY <2>1, PartIs, QueriesAssumption
<1>3. QED
  BY <1>1, <1>2

Collected(parts) == UNION {IdsOfRange(parts[i]).ids : i \in DOMAIN parts}
Bad(parts, i) == Refused(parts[i]) \/ ~IdsOfRange(parts[i]).ends

(* The parts are a list that the constants allow; the ids are what its     *)
(* ranges collect, unless one of them is refused or never ends.            *)
IdsInv ==
    /\ place \in {"parse", "pair", "paired", "endless"} => command.parts \in IdLists
    /\ place = "pair" => \A i \in DOMAIN command.parts : ~Bad(command.parts, i)
    /\ place \in {"pair", "paired"} => list = Ascending(Collected(command.parts))
    /\ place = "endless" =>
           \E i \in DOMAIN command.parts :
               ~Refused(command.parts[i]) /\ ~IdsOfRange(command.parts[i]).ends
    /\ place = "paired" => answer = Pairs(list)

LEMMA InitIds == Init => IdsInv
<1>1. Status => IdsInv
  BY DEF Status, IdsInv
<1>2. Reverse => IdsInv
  BY DEF Reverse, IdsInv
<1>3. Log => IdsInv
  BY DEF Log, IdsInv
<1>4. QED
  BY <1>1, <1>2, <1>3 DEF Init

LEMMA ParseKeepsIds ==
    ASSUME IdsInv, ParseTaskIds PROVE IdsInv'
<1> DEFINE parts == command.parts
<1>1. place = "parse" /\ parts \in IdLists
  BY DEF ParseTaskIds, IdsInv
<1>2. CASE \A i \in DOMAIN parts : ~Bad(parts, i)
  <2>1. Continue("pair", Ascending(Collected(parts)))
    BY <1>2 DEF ParseTaskIds, Bad, Collected
  <2>2. QED
    BY <1>1, <1>2, <2>1 DEF Continue, IdsInv
<1>3. CASE \E i \in DOMAIN parts : Bad(parts, i)
  <2> DEFINE Foremost(i) == Bad(parts, i) /\ \A j \in 1..(i - 1) : ~Bad(parts, j)
             first == CHOOSE i \in DOMAIN parts : Foremost(i)
  <2>1. \E i \in DOMAIN parts : Foremost(i)
    <3> DEFINE A == {i \in DOMAIN parts : Bad(parts, i)}
    <3>1. DOMAIN parts = 1..Len(parts) /\ Len(parts) \in Nat
      BY <1>1, QueriesAssumption
    <3>2. A \in SUBSET Nat /\ A # {}
      BY <1>3, <3>1
    <3>3. PICK i \in A : \A j \in A : i <= j
      BY <3>2, LeastNumber
    <3>4. \A j \in 1..(i - 1) : j \notin A /\ j \in DOMAIN parts
      BY <3>1, <3>3
    <3>5. QED
      BY <3>3, <3>4
  <2>2. first \in DOMAIN parts /\ Foremost(first)
    <3> HIDE DEF Foremost
    <3>1. QED
      BY <2>1
  <2>3. Continue(IF Refused(parts[first]) THEN "refused" ELSE "endless", <<>>)
    BY <1>3 DEF ParseTaskIds, Bad
  <2> HIDE DEF first
  <2>4. Refused(parts[first]) \/ ~IdsOfRange(parts[first]).ends
    BY <2>2 DEF Bad
  <2>5. QED
    BY <1>1, <2>2, <2>3, <2>4 DEF Continue, IdsInv
<1>4. QED
  BY <1>2, <1>3

LEMMA NextIds == IdsInv /\ [Next]_vars => IdsInv'
<1> SUFFICES ASSUME IdsInv, [Next]_vars PROVE IdsInv'
  OBVIOUS
<1>1. ASSUME NEW next, NEW tasks, Continue(next, tasks),
             next \notin {"parse", "pair", "paired", "endless"}
      PROVE  IdsInv'
  BY <1>1 DEF Continue, IdsInv
<1>2. CASE HideOtherGroups
  BY <1>1, <1>2 DEF HideOtherGroups
<1>3. CASE ApplyFilters
  BY <1>1, <1>3 DEF ApplyFilters
<1>4. CASE OrderTasks
  BY <1>1, <1>4, OrderContinues
<1>5. CASE LimitTasks
  BY <1>1, <1>5 DEF LimitTasks
<1>6. CASE PrintState
  BY <1>6 DEF PrintState, IdsInv
<1>7. CASE ParseTaskIds
  BY <1>7, ParseKeepsIds
<1>8. CASE PairIds
  BY <1>1, <1>8 DEF PairIds, IdsInv
<1>9. CASE SearchStep
  BY <1>9 DEF SearchStep, Grow, Searching, ReadPiece, ReachStart, ScanByte, IdsInv
<1>10. CASE UNCHANGED vars
  BY <1>10 DEF vars, IdsInv
<1>11. QED
  BY <1>2, <1>3, <1>4, <1>5, <1>6, <1>7, <1>8, <1>9, <1>10 DEF Next

(* What was collected can be put in order.                                 *)
LEMMA CollectedAscend ==
    ASSUME NEW parts \in IdLists
    PROVE  IsAscending(Ascending(Collected(parts)), Collected(parts))
<1>1. \A i \in DOMAIN parts : parts[i] \in Part
  BY QueriesAssumption
<1>2. \A i \in DOMAIN parts : IdsOfRange(parts[i]).ids \subseteq 0..MaxUsize
  BY <1>1, RangeWithin
<1>3. Collected(parts) \subseteq 0..MaxUsize
  BY <1>2 DEF Collected
<1>4. 0 \in Int /\ MaxUsize \in Int
  BY QueriesAssumption
<1>5. IsFiniteSet(0..MaxUsize) /\ 0..MaxUsize \subseteq Int
  BY <1>4, FS_Interval
<1>6. IsFiniteSet(Collected(parts)) /\ Collected(parts) \subseteq Int
  BY <1>3, <1>5, FS_Subset
<1>7. QED
  BY <1>6, AscendingIs

LEMMA IdsAsWritten == IdsInv => ParsesAsWritten
<1> SUFFICES ASSUME IdsInv, place \in {"pair", "endless"},
                    ~\E i \in DOMAIN command.parts : Overflows(command.parts[i])
             PROVE  /\ place = "pair"
                    /\ Elements(list) =
                           UNION {Named(part) :
                                     part \in {command.parts[i] : i \in DOMAIN command.parts}}
  BY DEF ParsesAsWritten, Overflows, Named
<1> DEFINE parts == command.parts
<1>1. parts \in IdLists /\ \A i \in DOMAIN parts : parts[i] \in Part
  BY QueriesAssumption DEF IdsInv
<1>2. ASSUME NEW i \in DOMAIN parts, ~Refused(parts[i])
      PROVE  IdsOfRange(parts[i]).ends /\ IdsOfRange(parts[i]).ids = Named(parts[i])
  BY <1>1, <1>2, RangeAsWritten
<1>3. place = "pair"
  <2>1. ASSUME place = "endless" PROVE FALSE
    BY <1>2, <2>1 DEF IdsInv
  <2>2. QED
    BY <2>1
<1>4. \A i \in DOMAIN parts : ~Refused(parts[i])
  BY <1>3 DEF IdsInv, Bad
<1>5. list = Ascending(Collected(parts))
  BY <1>3 DEF IdsInv
<1>6. Elements(list) = Collected(parts)
  <2>1. IsAscending(list, Collected(parts))
    BY <1>1, <1>5, CollectedAscend
  <2>2. DOMAIN list = 1..Cardinality(Collected(parts))
    BY <2>1 DEF IsAscending
  <2>3. QED
    BY <2>1, <2>2 DEF IsAscending, Elements
<1>7. Collected(parts) = UNION {Named(parts[i]) : i \in DOMAIN parts}
  <2>1. \A i \in DOMAIN parts : IdsOfRange(parts[i]).ids = Named(parts[i])
    BY <1>2, <1>4
  <2>2. QED
    BY <2>1 DEF Collected
<1>8. UNION {Named(parts[i]) : i \in DOMAIN parts}
          = UNION {Named(part) : part \in {parts[i] : i \in DOMAIN parts}}
  OBVIOUS
<1>9. QED
  BY <1>3, <1>6, <1>7, <1>8

(* The id that the switches give the place of an id.                       *)
Partner(pairs, id) ==
    IF \E p \in Elements(pairs) : id \in {p[1], p[2]}
    THEN LET p == CHOOSE p \in Elements(pairs) : id \in {p[1], p[2]}
         IN IF p[1] = id THEN p[2] ELSE p[1]
    ELSE id

(* Switching the first with the last, and so on, reverses a sequence       *)
(* without repetitions: each of its elements is in one pair at most.       *)
LEMMA PairsReverse ==
    ASSUME NEW n \in Nat, NEW ids, DOMAIN ids = 1..n, Len(ids) = n,
           \A a, b \in 1..n : ids[a] = ids[b] => a = b,
           NEW i \in 1..n
    PROVE  Partner(Pairs(ids), ids[i]) = ids[n - i + 1]
<1> DEFINE pairs == Pairs(ids)
           id == ids[i]
           In(p) == id \in {p[1], p[2]}
<1>1. PICK h \in Nat : h = n \div 2 /\ (n = 2 * h \/ n = 2 * h + 1)
  OBVIOUS
<1>2. Elements(pairs) = {<<ids[a], ids[n + 1 - a]>> : a \in 1..h}
  BY <1>1 DEF Pairs, Elements
<1>3. ASSUME NEW a \in 1..h, In(<<ids[a], ids[n + 1 - a]>>)
      PROVE  (a = i /\ ids[a] = id) \/ (n + 1 - a = i /\ a # i /\ ids[a] # id)
  <2>1. a \in 1..n /\ n + 1 - a \in 1..n /\ a # n + 1 - a
    BY <1>1
  <2>2. ids[a] = id \/ ids[n + 1 - a] = id
    BY <1>3
  <2>3. a = i \/ n + 1 - a = i
    BY <2>1, <2>2
  <2>4. QED
    BY <2>1, <2>3
<1> HIDE DEF pairs
<1>4. CASE \E p \in Elements(pairs) : In(p)
  <2>1. PICK p \in Elements(pairs) : In(p) /\ Partner(pairs, id) = IF p[1] = id THEN p[2] ELSE p[1]
    BY <1>4 DEF Partner
  <2>2. PICK a \in 1..h : p = <<ids[a], ids[n + 1 - a]>>
    BY <1>2, <2>1
  <2>3. (a = i /\ ids[a] = id) \/ (n + 1 - a = i /\ a # i /\ ids[a] # id)
    BY <1>3, <2>1, <2>2
  <2>4. Partner(pairs, id) = IF ids[a] = id THEN ids[n + 1 - a] ELSE ids[a]
    BY <2>1, <2>2
  <2>5. n + 1 - i = n - i + 1 /\ (n + 1 - a = i => a = n - i + 1)
    BY <1>1
  <2>6. QED
    BY <2>3, <2>4, <2>5 DEF pairs
<1>5. CASE ~\E p \in Elements(pairs) : In(p)
  <2>1. \A a \in 1..h : ids[a] # id /\ ids[n + 1 - a] # id
    <3> SUFFICES ASSUME NEW a \in 1..h PROVE ids[a] # id /\ ids[n + 1 - a] # id
      OBVIOUS
    <3>1. PICK p \in Elements(pairs) : p = <<ids[a], ids[n + 1 - a]>>
      BY <1>2
    <3>2. p[1] = ids[a] /\ p[2] = ids[n + 1 - a]
      BY <3>1
    <3>3. QED
      BY <1>5, <3>2
  <2>2. i \notin 1..h /\ n + 1 - i \notin 1..h
    <3>1. i \notin 1..h
      BY <2>1
    <3>2. ASSUME n + 1 - i \in 1..h PROVE FALSE
      <4>1. n + 1 - (n + 1 - i) = i
        OBVIOUS
      <4>2. QED
        BY <2>1, <3>2, <4>1
    <3>3. QED
      BY <3>1, <3>2
  <2>3. n - i + 1 = i
    BY <1>1, <2>2
  <2>4. Partner(pairs, id) = id
    BY <1>5 DEF Partner
  <2>5. QED
    BY <2>3, <2>4 DEF pairs
<1>6. QED
  BY <1>4, <1>5

LEMMA ReversedInOrder == IdsInv => ReversesOrder
<1> SUFFICES ASSUME IdsInv, place = "paired"
             PROVE  [i \in DOMAIN list |-> Partner(answer, list[i])] = SeqExt!Reverse(list)
  BY DEF ReversesOrder, Partner
<1>1. /\ list = Ascending(Collected(command.parts)) /\ command.parts \in IdLists
      /\ answer = Pairs(list)
  BY DEF IdsInv
<1>2. PICK n \in Nat : /\ DOMAIN list = 1..n /\ Len(list) = n
                       /\ \A a, b \in 1..n : list[a] = list[b] => a = b
  <2> DEFINE I == Collected(command.parts)
  <2>1. IsAscending(list, I)
    BY <1>1, CollectedAscend
  <2>2. list \in [1..Cardinality(I) -> I] /\ Cardinality(I) \in Nat
    BY <2>1 DEF IsAscending
  <2>3. Len(list) = Cardinality(I) /\ DOMAIN list = 1..Cardinality(I)
    BY <2>2
  <2>4. QED
    BY <2>1, <2>2, <2>3 DEF IsAscending
<1>3. \A i \in 1..n : Partner(answer, list[i]) = list[n - i + 1]
  BY <1>1, <1>2, PairsReverse
<1>4. SeqExt!Reverse(list) = [i \in 1..n |-> list[n - i + 1]]
  BY <1>2 DEF SeqExt!Reverse
<1>5. QED
  BY <1>2, <1>3, <1>4

(* parse_task_ids and reverse, for every list of ids and every width of    *)
(* numbers: the ids are those the ranges name unless a step leads past the *)
(* largest number, and switching the pairs reverses them.                  *)
THEOREM IdListsAlwaysAsWritten == Spec => []IdListsAsWritten
<1>1. IdsInv => IdListsAsWritten
  BY IdsAsWritten, ReversedInOrder DEF IdListsAsWritten
<1>2. QED
  BY <1>1, InitIds, NextIds, PTL DEF Spec

-----------------------------------------------------------------------------
(* The tasks that a query asks for.                                        *)

LEMMA FilterIs ==
    ASSUME NEW filter \in Filter
    PROVE  \/ /\ filter.kind = "status" /\ filter.operator \in {"=", "!="}
              /\ filter.value \in Statuses
           \/ /\ filter.kind \in {"label", "command"} /\ filter.operator \in {"=", "!=", "%="}
              /\ filter.value \in STRING /\ filter.value # NotSet
           \/ /\ filter.kind \in {"date", "datetime"} /\ filter.column \in TimeColumns
              /\ filter.operator \in Operators /\ filter.value \in Nat
  BY DEF Filter

LEMMA TimeIs ==
    ASSUME NEW task \in Task, NEW column \in TimeColumns
    PROVE  TimeField(task, column) \in Nat \cup {NoTime}
<1>1. /\ task.enqueue_at \in Times /\ task.start \in Times /\ task.end \in Times
  BY DEF Task
<1>2. QED
  BY <1>1 DEF TimeColumns, TimeField, Times

(* An odd point in time is within its day.                                 *)
LEMMA WithinDay ==
    ASSUME NEW field \in Nat, NEW day \in Nat, NEW operator \in {"=", "<", ">"},
           field % DayLength # 0
    PROVE  CompareDay(operator, field, day) <=> Compare(operator, field \div DayLength, day)
<1>1. PICK h \in Nat : h = field \div DayLength /\ field = 2 * h + 1
  BY DEF DayLength
<1>2. /\ field > 2 * day /\ field < 2 * (day + 1) <=> h = day
      /\ field < 2 * day <=> h < day
      /\ field > 2 * (day + 1) <=> h > day
  BY <1>1
<1>3. QED
  BY <1>1, <1>2 DEF CompareDay, Compare, DayLength

(* What a filter matches is what the help says of it.                      *)
LEMMA MatchesAsDocumented ==
    ASSUME NEW task \in Task, NEW filter \in Filter, ~Odd(filter, task)
    PROVE  Matches(filter, task) <=> Documented(filter, task)
<1>1. CASE filter.kind = "status"
  <2>1. filter.operator = "=" \/ filter.operator = "!="
    BY <1>1, FilterIs
  <2>2. StatusMatches(task, filter.value) \in BOOLEAN
    <3>1. CASE filter.value = "failed"
      BY <3>1 DEF StatusMatches
    <3>2. CASE filter.value # "failed"
      BY <3>2 DEF StatusMatches
    <3>3. QED
      BY <3>1, <3>2
  <2>3. QED
    BY <1>1, <2>1, <2>2 DEF Matches, Documented
<1>2. CASE filter.kind = "label"
  <2>1. filter.operator \in {"=", "!=", "%="} /\ filter.value # NotSet
    BY <1>2, FilterIs
  <2>2. ~Contains(NotSet, filter.value)
    BY <2>1 DEF Contains, NotSet
  <2>3. QED
    BY <1>2, <2>1, <2>2 DEF Matches, Documented, LabelMatches
<1>3. CASE filter.kind = "command"
  <2>1. filter.operator \in {"=", "!=", "%="}
    BY <1>3, FilterIs
  <2>2. QED
    BY <1>3, <2>1 DEF Matches, Documented, LabelMatches
<1>4. CASE filter.kind \in {"date", "datetime"}
  <2> DEFINE field == TimeField(task, filter.column)
  <2>1. filter.operator \in Operators /\ filter.value \in Nat /\ filter.column \in TimeColumns
    BY <1>4, FilterIs
  <2>2. field \in Nat \cup {NoTime}
    BY <2>1, TimeIs
  <2>3. CASE field = NoTime
    BY <1>4, <2>3 DEF Matches, Documented
  <2>4. CASE field # NoTime /\ filter.kind = "datetime"
    <3>1. field \div 1 = field
      BY <2>2, <2>4
    <3>2. QED
      BY <2>4, <3>1 DEF Matches, Documented
  <2>5. CASE field # NoTime /\ filter.kind = "date"
    <3>1. filter.operator \in {"=", "<", ">"} /\ field % DayLength # 0 /\ field \in Nat
      BY <2>1, <2>2, <2>5 DEF Odd, Operators
    <3>2. CompareDay(filter.operator, field, filter.value)
              <=> Compare(filter.operator, field \div DayLength, filter.value)
      BY <2>1, <3>1, WithinDay
    <3>3. QED
      BY <2>5, <3>2 DEF Matches, Documented
  <2>6. QED
    BY <1>4, <2>3, <2>4, <2>5
<1>5. QED
  BY <1>1, <1>2, <1>3, <1>4, FilterIs

(* Rank: what tasks are ordered by is a number.                            *)
LEMMA RankIs ==
    ASSUME NEW task \in Task, NEW column \in SortColumns, column # "dependencies"
    PROVE  Rank(task, column) \in Int
<1>1. /\ task.id \in Int
      /\ task.enqueue_at \in Int /\ task.start \in Int /\ task.end \in Int
  <2>1. /\ task.id \in Nat
        /\ task.enqueue_at \in Times /\ task.start \in Times /\ task.end \in Times
    BY DEF Task
  <2>2. QED
    BY <2>1 DEF Times, NoTime
<1>2. column = "id" => Rank(task, column) \in Int
  BY <1>1 DEF Rank
<1>3. column = "status" => Rank(task, column) \in Int
  BY DEF Rank
<1>4. column = "label" \/ column = "command" => Rank(task, column) \in Int
  BY DEF Rank, TextRank
<1>5. column \in TimeColumns => Rank(task, column) \in Int
  BY <1>1 DEF Rank, TimeColumns, FarFuture
<1>6. QED
  BY <1>2, <1>3, <1>4, <1>5 DEF SortColumns

(* The same elements in another order.                                     *)
PermutedBy(p, t, s) ==
    /\ p \in [DOMAIN s -> DOMAIN s]
    /\ \A i, j \in DOMAIN s : p[i] = p[j] => i = j
    /\ \A i \in DOMAIN s : \E k \in DOMAIN s : p[k] = i
    /\ DOMAIN t = DOMAIN s
    /\ \A k \in DOMAIN s : t[k] = s[p[k]]

Permuted(t, s) == \E p : PermutedBy(p, t, s)

Distinct(s) == \A i, j \in DOMAIN s : s[i] = s[j] => i = j

LEMMA PermutedSame ==
    ASSUME NEW s, NEW t, Permuted(t, s), Distinct(s)
    PROVE  Distinct(t) /\ Elements(t) = Elements(s)
  BY DEF Permuted, PermutedBy, Distinct, Elements

(* Whether one task may stand before another one.                          *)
Precedes(order, first, second) ==
    LET a == IF order.column = NotSet THEN first.id ELSE Rank(first, order.column)
        b == IF order.column = NotSet THEN second.id ELSE Rank(second, order.column)
    IN IF order.direction = "desc" THEN a >= b ELSE a <= b

InOrderOf(order, s) == \A i, j \in DOMAIN s : i < j => Precedes(order, s[i], s[j])

LEMMA OrderIs ==
    ASSUME NEW order \in Order
    PROVE  \/ order.column = NotSet /\ order.direction = "asc"
           \/ /\ order.column # NotSet /\ order.column \in SortColumns
              /\ order.direction \in {"asc", "desc"}
  BY DEF Order, SortColumns, TimeColumns, NotSet

(* order_tasks: the order of the ranks, and backwards that of the reversed *)
(* ranks.                                                                  *)
LEMMA OrderedIs ==
    ASSUME NEW tasks \in Seq(Task), NEW order \in Order,
           order.column # NotSet, order.column # "dependencies"
    PROVE  /\ Ordered(tasks, order) \in Seq(Task)
           /\ Permuted(Ordered(tasks, order), tasks)
           /\ InOrderOf(order, Ordered(tasks, order))
<1> DEFINE rank(i) == Rank(tasks[i], order.column)
           D == DOMAIN tasks
           before == {p \in D \X D : \/ rank(p[1]) < rank(p[2])
                                     \/ rank(p[1]) = rank(p[2]) /\ p[1] < p[2]}
           sorted == Arranged(D, before)
           ascending == [k \in D |-> tasks[sorted[k]]]
<1>1. PICK n \in Nat : D = 1..n /\ Len(tasks) = n /\ IsFiniteSet(D) /\ Cardinality(D) = n
  <2>1. Len(tasks) \in Nat /\ D = 1..Len(tasks)
    OBVIOUS
  <2>2. QED
    BY <2>1, Interval
<1>2. \A i \in D : tasks[i] \in Task /\ rank(i) \in Int
  <2>1. \A i \in D : tasks[i] \in Task
    OBVIOUS
  <2>2. order.column \in SortColumns
    BY OrderIs
  <2>3. QED
    BY <2>1, <2>2, RankIs
<1>3. Ordered(tasks, order) =
          IF order.direction = "desc" THEN SeqExt!Reverse(ascending) ELSE ascending
  BY DEF Ordered
<1>4. \A i, j \in D : <<i, j>> \in before <=> (rank(i) < rank(j) \/ (rank(i) = rank(j) /\ i < j))
  OBVIOUS
<1> HIDE DEF before, rank
<1>5. \A i, j \in D : <<i, j>> \in before => rank(i) <= rank(j)
  BY <1>2, <1>4
<1>6. StrictTotalOrder(D, before)
  <2>1. \A i \in D : <<i, i>> \notin before
    BY <1>1, <1>2, <1>4
  <2>2. \A i, j \in D : <<i, j>> \in before \/ i = j \/ <<j, i>> \in before
    <3> SUFFICES ASSUME NEW i \in D, NEW j \in D
                 PROVE  <<i, j>> \in before \/ i = j \/ <<j, i>> \in before
      OBVIOUS
    <3>1. PICK a \in Int, b \in Int : rank(i) = a /\ rank(j) = b
      BY <1>2
    <3>2. i \in Int /\ j \in Int
      BY <1>1
    <3>3. a < b \/ b < a \/ (a = b /\ (i < j \/ i = j \/ j < i))
      BY <3>2
    <3>4. QED
      BY <1>4, <3>1, <3>3
  <2>3. \A i, j, k \in D : <<i, j>> \in before /\ <<j, k>> \in before => <<i, k>> \in before
    <3> SUFFICES ASSUME NEW i \in D, NEW j \in D, NEW k \in D,
                        <<i, j>> \in before, <<j, k>> \in before
                 PROVE  <<i, k>> \in before
      OBVIOUS
    <3>1. PICK a \in Int, b \in Int, c \in Int : rank(i) = a /\ rank(j) = b /\ rank(k) = c
      BY <1>2
    <3>2. i \in Int /\ j \in Int /\ k \in Int
      BY <1>1
    <3>3. (a < b \/ (a = b /\ i < j)) /\ (b < c \/ (b = c /\ j < k))
      BY <1>4, <3>1
    <3>4. a < c \/ (a = c /\ i < k)
      BY <3>2, <3>3
    <3>5. QED
      BY <1>4, <3>1, <3>4
  <2>4. QED
    BY <2>1, <2>2, <2>3 DEF StrictTotalOrder
<1>7. IsArrangement(sorted, D, before)
  BY <1>1, <1>6, ArrangedIs
<1> HIDE DEF sorted
<1>8. /\ sorted \in [1..n -> D]
      /\ \A x \in D : \E k \in 1..n : sorted[k] = x
      /\ \A a, b \in 1..n : a < b => <<sorted[a], sorted[b]>> \in before
      /\ \A a, b \in 1..n : sorted[a] = sorted[b] => a = b
  BY <1>1, <1>7 DEF IsArrangement
<1>9. \A k \in 1..n : ascending[k] = tasks[sorted[k]] /\ ascending[k] \in Task
  BY <1>1, <1>2, <1>8
<1>10. \A a, b \in 1..n : a < b =>
           Rank(ascending[a], order.column) <= Rank(ascending[b], order.column)
  BY <1>5, <1>8, <1>9 DEF rank
<1>11. ascending \in [1..n -> Task]
  BY <1>1, <1>9
<1> HIDE DEF ascending, D
<1>12. CASE order.direction = "desc"
  <2> DEFINE t == Ordered(tasks, order)
             p == [k \in 1..n |-> sorted[n - k + 1]]
  <2>1. Len(ascending) = n
    BY <1>11
  <2>2. t = [k \in 1..n |-> ascending[n - k + 1]]
    BY <1>3, <1>12, <2>1 DEF SeqExt!Reverse
  <2>3. \A k \in 1..n : n - k + 1 \in 1..n
    OBVIOUS
  <2> HIDE DEF t
  <2>4. t \in [1..n -> Task]
    BY <1>11, <2>2, <2>3
  <2>5. \A a, b \in 1..n : a < b => Precedes(order, t[a], t[b])
    <3> SUFFICES ASSUME NEW a \in 1..n, NEW b \in 1..n, a < b PROVE Precedes(order, t[a], t[b])
      OBVIOUS
    <3>1. PICK c \in 1..n, d \in 1..n : c = n - b + 1 /\ d = n - a + 1 /\ c < d
      BY <2>3
    <3>2. t[a] = ascending[d] /\ t[b] = ascending[c]
      BY <2>2, <3>1
    <3>3. Rank(t[b], order.column) <= Rank(t[a], order.column)
      BY <1>10, <3>1, <3>2
    <3>4. Rank(t[b], order.column) \in Int /\ Rank(t[a], order.column) \in Int
      BY <2>4, RankIs, OrderIs
    <3>5. QED
      BY <1>12, <3>3, <3>4 DEF Precedes
  <2>6. /\ p \in [1..n -> 1..n]
        /\ \A k \in 1..n : p[k] = sorted[n - k + 1] /\ t[k] = tasks[p[k]]
    BY <1>1, <1>8, <1>9, <2>2, <2>3
  <2> HIDE DEF p
  <2>7. \A i, j \in 1..n : p[i] = p[j] => i = j
    <3> SUFFICES ASSUME NEW i \in 1..n, NEW j \in 1..n, p[i] = p[j] PROVE i = j
      OBVIOUS
    <3>1. PICK a \in 1..n, b \in 1..n : a = n - i + 1 /\ b = n - j + 1
      BY <2>3
    <3>2. sorted[a] = sorted[b]
      BY <2>6, <3>1
    <3>3. a = b
      BY <1>8, <3>2
    <3>4. QED
      BY <3>1, <3>3
  <2>8. \A i \in 1..n : \E k \in 1..n : p[k] = i
    <3> SUFFICES ASSUME NEW i \in 1..n PROVE \E k \in 1..n : p[k] = i
      OBVIOUS
    <3>1. PICK k \in 1..n : sorted[k] = i
      BY <1>1, <1>8
    <3>2. PICK m \in 1..n : m = n - k + 1 /\ n - m + 1 = k
      BY <2>3
    <3>3. QED
      BY <2>6, <3>1, <3>2
  <2>9. DOMAIN t = 1..n /\ DOMAIN tasks = 1..n
    BY <2>4, <1>1 DEF D
  <2>10. Permuted(t, tasks)
    <3>1. PermutedBy(p, t, tasks)
      BY <2>6, <2>7, <2>8, <2>9 DEF PermutedBy
    <3>2. QED
      BY <3>1 DEF Permuted
  <2>11. InOrderOf(order, t)
    BY <2>5, <2>9 DEF InOrderOf
  <2>12. t \in Seq(Task)
    BY <2>4
  <2>13. QED
    BY <2>10, <2>11, <2>12 DEF t
<1>13. CASE order.direction # "desc"
  <2>1. Ordered(tasks, order) = ascending
    BY <1>3, <1>13
  <2>2. DOMAIN ascending = 1..n /\ DOMAIN tasks = 1..n
    BY <1>11, <1>1 DEF D
  <2>3. Permuted(ascending, tasks)
    <3>1. PermutedBy(sorted, ascending, tasks)
      BY <1>1, <1>8, <1>9, <2>2 DEF PermutedBy
    <3>2. QED
      BY <3>1 DEF Permuted
  <2>4. InOrderOf(order, ascending)
    BY <1>10, <1>13, <2>2 DEF InOrderOf, Precedes
  <2>5. ascending \in Seq(Task)
    BY <1>11
  <2>6. QED
    BY <2>1, <2>3, <2>4, <2>5
<1>14. QED
  BY <1>12, <1>13

(* Any injection of a finite sequence's indices permutes them.             *)
LEMMA InjectionPermutes ==
    ASSUME NEW s \in Seq(Task), NEW p \in [DOMAIN s -> DOMAIN s],
           \A i, j \in DOMAIN s : p[i] = p[j] => i = j,
           NEW t, t = [i \in DOMAIN s |-> s[p[i]]]
    PROVE  Permuted(t, s) /\ t \in Seq(Task)
<1>1. PICK n \in Nat : DOMAIN s = 1..n /\ Len(s) = n
  OBVIOUS
<1>2. IsFiniteSet(1..n)
  BY Interval
<1>3. p \in Injection(1..n, 1..n)
  BY <1>1 DEF Injection, IsInjective
<1>4. p \in Surjection(1..n, 1..n)
  BY <1>2, <1>3, FS_Injection
<1>5. \A i \in 1..n : \E k \in 1..n : p[k] = i
  BY <1>4 DEF Surjection
<1>6. PermutedBy(p, t, s)
  BY <1>1, <1>5 DEF PermutedBy
<1>7. \A i \in 1..n : s[p[i]] \in Task
  BY <1>1
<1>8. t \in [1..n -> Task]
  BY <1>1, <1>7
<1>9. t \in Seq(Task)
  BY <1>8
<1>10. Permuted(t, s)
  BY <1>6 DEF Permuted
<1>11. QED
  BY <1>9, <1>10

(* The tasks come in the order of their ids.                               *)
ById(s) == \A i, j \in DOMAIN s : i < j => s[i].id < s[j].id

LEMMA ByIdDistinct ==
    ASSUME NEW s \in Seq(Task), ById(s) PROVE Distinct(s)
<1> SUFFICES ASSUME NEW i \in DOMAIN s, NEW j \in DOMAIN s, s[i] = s[j] PROVE i = j
  BY DEF Distinct
<1>1. PICK n \in Nat : DOMAIN s = 1..n
  OBVIOUS
<1>2. s[i].id \in Nat
  <2>1. s[i] \in Task
    OBVIOUS
  <2>2. QED
    BY <2>1 DEF Task
<1>3. ~(s[i].id < s[j].id) /\ ~(s[j].id < s[i].id)
  BY <1>2
<1>4. QED
  BY <1>1, <1>3 DEF ById

LEMMA SelectedById ==
    ASSUME NEW s \in Seq(Task), ById(s), NEW I \in SUBSET DOMAIN s
    PROVE  /\ Selected(s, I) \in Seq(Task) /\ ById(Selected(s, I))
           /\ Elements(Selected(s, I)) = {s[i] : i \in I}
<1> DEFINE t == Selected(s, I)
           at == Ascending(I)
           n == Cardinality(I)
<1>1. /\ IsAscending(at, I)
      /\ t \in Seq(Task) /\ DOMAIN t = 1..n
      /\ \A k \in 1..n : t[k] = s[at[k]]
  BY SelectedIs
<1> HIDE DEF t, at, n
<1>2. /\ \A k \in 1..n : at[k] \in I
      /\ \A x \in I : \E k \in 1..n : at[k] = x
      /\ \A a, b \in 1..n : a < b => at[a] < at[b]
  BY <1>1 DEF IsAscending, n
<1>3. ById(t)
  BY <1>1, <1>2 DEF ById
<1>4. Elements(t) = {s[i] : i \in I}
  BY <1>1, <1>2 DEF Elements
<1>5. QED
  BY <1>1, <1>3, <1>4 DEF t

(* What the answer is to show of `all` tasks that were found.              *)
ShownRight(s, all, limit, order) ==
    LET hidden == all \ Elements(s)
    IN /\ Distinct(s)
       /\ Elements(s) \subseteq all
       /\ hidden # {} => limit.end # NotSet /\ Len(s) = limit.count
       /\ limit.end # NotSet => Len(s) <= limit.count
       /\ order.column # "dependencies" =>
             /\ InOrderOf(order, s)
             /\ \A task \in hidden, i \in DOMAIN s :
                    IF limit.end = "first" THEN Precedes(order, s[i], task)
                                           ELSE Precedes(order, task, s[i])

LEMMA LimitIs ==
    ASSUME NEW limit \in Limit
    PROVE  \/ limit.end = NotSet
           \/ /\ limit.end # NotSet /\ limit.end \in {"first", "last"}
              /\ limit.count \in Nat /\ limit.count > 0
<1>1. CASE limit \in [end : {NotSet}, count : {0}]
  BY <1>1
<1>2. CASE limit \in [end : {"first", "last"}, count : Nat \ {0}]
  <2>1. limit.end \in {"first", "last"} /\ limit.count \in Nat \ {0}
    BY <1>2
  <2>2. QED
    BY <2>1 DEF NotSet
<1>3. QED
  BY <1>1, <1>2 DEF Limit

(* A part of a sequence from one end, and what it leaves out.              *)
LEMMA LimitedIs ==
    ASSUME NEW s \in Seq(Task), Distinct(s), NEW limit \in Limit, NEW order,
           order.column # "dependencies" => InOrderOf(order, s),
           NEW t, t = IF limit.end = NotSet THEN s ELSE Limited(s, limit)
    PROVE  t \in Seq(Task) /\ ShownRight(t, Elements(s), limit, order)
<1>1. PICK n \in Nat : Len(s) = n /\ DOMAIN s = 1..n
  OBVIOUS
<1>2. CASE t = s /\ (limit.end # NotSet => Len(s) <= limit.count)
  <2>1. Elements(s) \ Elements(t) = {}
    BY <1>2
  <2>2. QED
    BY <1>2, <2>1 DEF ShownRight
<1>3. ASSUME NEW low \in 0..n, NEW c \in Nat, c = limit.count, low + c <= n, c > 0,
             limit.end # NotSet,
             t = SubSeq(s, low + 1, low + c),
             (limit.end = "first" /\ low = 0) \/ (limit.end # "first" /\ low + c = n)
      PROVE  t \in Seq(Task) /\ ShownRight(t, Elements(s), limit, order)
  <2>1. t \in Seq(Task) /\ Len(t) = c /\ DOMAIN t = 1..c
    <3>0. low + c <= n /\ c > 0
      BY <1>3
    <3>1. PICK a \in 1..n, b \in 1..n : a = low + 1 /\ b = low + c /\ a <= b /\ b - a + 1 = c
      <4>1. /\ low + 1 \in 1..n /\ low + c \in 1..n /\ low + 1 <= low + c
            /\ (low + c) - (low + 1) + 1 = c
        BY <3>0
      <4>2. QED
        BY <4>1
    <3>2. t = SubSeq(s, a, b)
      BY <1>3, <3>1
    <3>3. t \in Seq(Task)
      BY <1>1, <3>1, <3>2
    <3>4. Len(t) = b - a + 1
      BY <1>1, <3>1, <3>2
    <3>5. DOMAIN t = 1..Len(t)
      BY <3>3
    <3>6. QED
      BY <3>1, <3>3, <3>4, <3>5
  <2>2. \A k \in 1..c : low + k \in 1..n /\ t[k] = s[low + k]
    BY <1>1, <1>3
  <2>3. Distinct(t)
    <3> SUFFICES ASSUME NEW i \in 1..c, NEW j \in 1..c, t[i] = t[j] PROVE i = j
      BY <2>1 DEF Distinct
    <3>1. low + i = low + j
      BY <1>1, <2>2 DEF Distinct
    <3>2. QED
      BY <3>1
  <2>4. Elements(t) \subseteq Elements(s)
    <3> SUFFICES ASSUME NEW k \in 1..c PROVE t[k] \in Elements(s)
      BY <2>1 DEF Elements
    <3>1. low + k \in DOMAIN s /\ t[k] = s[low + k]
      BY <1>1, <2>2
    <3>2. QED
      BY <3>1 DEF Elements
  <2>5. ASSUME InOrderOf(order, s) PROVE InOrderOf(order, t)
    <3> SUFFICES ASSUME NEW i \in 1..c, NEW j \in 1..c, i < j PROVE Precedes(order, t[i], t[j])
      BY <2>1 DEF InOrderOf
    <3>1. PICK a \in 1..n, b \in 1..n : a = low + i /\ b = low + j /\ a < b
      BY <2>2
    <3>2. Precedes(order, s[a], s[b])
      BY <1>1, <2>5, <3>1 DEF InOrderOf
    <3>3. QED
      BY <2>2, <3>1, <3>2
  <2>6. ASSUME InOrderOf(order, s), NEW task \in Elements(s) \ Elements(t), NEW i \in 1..c
        PROVE  IF limit.end = "first" THEN Precedes(order, t[i], task)
                                      ELSE Precedes(order, task, t[i])
    <3>1. PICK a \in 1..n : task = s[a]
      BY <1>1 DEF Elements
    <3>2. ~(low < a /\ a <= low + c)
      <4>1. ASSUME low < a, a <= low + c PROVE FALSE
        <5>1. PICK k \in 1..c : a = low + k
          <6>1. a - low \in 1..c /\ a = low + (a - low)
            BY <4>1
          <6>2. QED
            BY <6>1
        <5>2. task = t[k]
          BY <2>2, <3>1, <5>1
        <5>3. QED
          BY <2>1, <5>2 DEF Elements
      <4>2. QED
        BY <4>1
    <3>3. PICK b \in 1..n : b = low + i /\ t[i] = s[b]
      BY <2>2
    <3>4. IF limit.end = "first" THEN b < a ELSE a < b
      BY SMTT(30), <1>3, <3>2, <3>3
    <3>5. QED
      BY <1>1, <2>6, <3>1, <3>3, <3>4 DEF InOrderOf
  <2>7. limit.end # NotSet /\ Len(t) = limit.count /\ Len(t) <= limit.count
    BY <1>3, <2>1
  <2>8. order.column # "dependencies" =>
            /\ InOrderOf(order, t)
            /\ \A task \in Elements(s) \ Elements(t), i \in DOMAIN t :
                   IF limit.end = "first" THEN Precedes(order, t[i], task)
                                          ELSE Precedes(order, task, t[i])
    BY <2>1, <2>5, <2>6
  <2>9. QED
    BY <2>1, <2>3, <2>4, <2>7, <2>8 DEF ShownRight
<1>4. CASE ~(t = s /\ (limit.end # NotSet => Len(s) <= limit.count))
  <2>1. limit.end \in {"first", "last"} /\ limit.end # NotSet
    BY <1>4, LimitIs
  <2>2. PICK c \in Nat : c = limit.count /\ c > 0
    BY <2>1, LimitIs
  <2>3. n > c
    BY <1>1, <1>4, <2>1, <2>2 DEF Limited
  <2>4. t = IF limit.end = "first" THEN SubSeq(s, 1, c) ELSE SubSeq(s, n - c + 1, n)
    BY <1>1, <2>1, <2>2, <2>3 DEF Limited
  <2>5. CASE limit.end = "first"
    <3>1. 0 \in 0..n /\ 0 + c <= n /\ t = SubSeq(s, 0 + 1, 0 + c)
      BY <2>3, <2>4, <2>5
    <3>2. QED
      BY <1>3, <2>1, <2>2, <2>5, <3>1
  <2>6. CASE limit.end # "first"
    <3>1. PICK low \in 0..n : low = n - c /\ low + c = n /\ low + c <= n
      BY <2>3
    <3>2. t = SubSeq(s, low + 1, low + c)
      BY <2>4, <2>6, <3>1
    <3>3. QED
      BY <1>3, <2>1, <2>2, <2>6, <3>1, <3>2
  <2>7. QED
    BY <2>5, <2>6
<1>5. QED
  BY <1>2, <1>4

(* The tasks that the client may show, and those of them that match.       *)
InGroup(tasks, query) ==
    {task \in Elements(tasks) :
        /\ Archived(task) => query.group = "archive"
        /\ query.group = NotSet \/ task.group = query.group}

Matching(tasks, query) ==
    {task \in InGroup(tasks, query) :
        \A k \in DOMAIN query.filters : Matches(query.filters[k], task)}

(* What each step of the query has done to the tasks.                      *)
StatusInv ==
    LET tasks == command.tasks
        query == command.query
    IN /\ place \in {"visible", "filter", "order", "limit", "shown", "printed"} =>
              tasks \in TaskLists /\ query \in Lookups /\ list \in Seq(Task)
       /\ place = "visible" => list = tasks
       /\ place = "filter" => ById(list) /\ Elements(list) = InGroup(tasks, query)
       /\ place = "order" => ById(list) /\ Elements(list) = Matching(tasks, query)
       /\ place = "limit" =>
              /\ Distinct(list) /\ Elements(list) = Matching(tasks, query)
              /\ query.order.column # "dependencies" => InOrderOf(query.order, list)
       /\ place = "shown" => ShownRight(list, Matching(tasks, query), query.limit, query.order)
       /\ place = "printed" => answer = Tables(list)

LEMMA InitStatus == Init => StatusInv
<1>1. Status => StatusInv
  BY QueriesAssumption DEF Status, StatusInv
<1>2. Reverse => StatusInv
  BY DEF Reverse, StatusInv
<1>3. Log => StatusInv
  BY DEF Log, StatusInv
<1>4. QED
  BY <1>1, <1>2, <1>3 DEF Init

LEMMA QueryIs ==
    ASSUME NEW query \in Lookups
    PROVE  /\ query.filters \in Seq(Filter) /\ query.order \in Order /\ query.limit \in Limit
           /\ query.group \in Elements(Groups) \cup {NotSet}
           /\ query.columns \in SUBSET Elements(Columns)
  BY QueriesAssumption DEF Query

LEMMA HideKeeps == StatusInv /\ HideOtherGroups => StatusInv'
<1> SUFFICES ASSUME StatusInv, HideOtherGroups PROVE StatusInv'
  OBVIOUS
<1> DEFINE query == command.query
           I == {i \in DOMAIN list :
                    /\ Archived(list[i]) => query.group = "archive"
                    /\ query.group = NotSet \/ list[i].group = query.group}
<1>1. /\ place = "visible" /\ command.tasks \in TaskLists /\ query \in Lookups
      /\ list \in Seq(Task) /\ list = command.tasks
  BY DEF HideOtherGroups, StatusInv
<1>2. Continue("filter", Selected(list, I))
  BY DEF HideOtherGroups
<1>3. ById(list)
  BY <1>1, QueriesAssumption DEF ById
<1>4. /\ Selected(list, I) \in Seq(Task) /\ ById(Selected(list, I))
      /\ Elements(Selected(list, I)) = {list[i] : i \in I}
  BY <1>1, <1>3, SelectedById
<1>5. {list[i] : i \in I} = InGroup(command.tasks, query)
  BY <1>1 DEF InGroup, Elements
<1>6. QED
  BY <1>1, <1>2, <1>4, <1>5 DEF Continue, StatusInv

LEMMA FilterKeeps == StatusInv /\ ApplyFilters => StatusInv'
<1> SUFFICES ASSUME StatusInv, ApplyFilters PROVE StatusInv'
  OBVIOUS
<1> DEFINE query == command.query
           I == {i \in DOMAIN list :
                    \A k \in DOMAIN query.filters : Matches(query.filters[k], list[i])}
<1>1. /\ place = "filter" /\ command.tasks \in TaskLists /\ query \in Lookups
      /\ list \in Seq(Task) /\ ById(list) /\ Elements(list) = InGroup(command.tasks, query)
  BY DEF ApplyFilters, StatusInv
<1>2. Continue("order", Selected(list, I))
  BY DEF ApplyFilters
<1>3. /\ Selected(list, I) \in Seq(Task) /\ ById(Selected(list, I))
      /\ Elements(Selected(list, I)) = {list[i] : i \in I}
  BY <1>1, SelectedById
<1>4. {list[i] : i \in I} = Matching(command.tasks, query)
  <2>1. {list[i] : i \in I} =
            {task \in Elements(list) :
                \A k \in DOMAIN query.filters : Matches(query.filters[k], task)}
    BY DEF Elements
  <2>2. QED
    BY <1>1, <2>1 DEF Matching
<1>5. QED
  BY <1>1, <1>2, <1>3, <1>4 DEF Continue, StatusInv

LEMMA OrderKeeps == StatusInv /\ OrderTasks => StatusInv'
<1> SUFFICES ASSUME StatusInv, OrderTasks PROVE StatusInv'
  OBVIOUS
<1> DEFINE query == command.query
           order == query.order
<1>1. /\ place = "order" /\ command.tasks \in TaskLists /\ query \in Lookups
      /\ list \in Seq(Task) /\ ById(list) /\ Elements(list) = Matching(command.tasks, query)
      /\ Distinct(list) /\ order \in Order
  BY ByIdDistinct, QueryIs DEF OrderTasks, StatusInv
<1>2. ASSUME NEW t \in Seq(Task), Continue("limit", t),
             Distinct(t), Elements(t) = Elements(list),
             order.column # "dependencies" => InOrderOf(order, t)
      PROVE  StatusInv'
  BY <1>1, <1>2 DEF Continue, StatusInv
<1>3. CASE order.column = NotSet
  <2>1. Continue("limit", list)
    BY <1>3 DEF OrderTasks, NotSet
  <2>2. InOrderOf(order, list)
    <3>1. order.direction = "asc"
      BY <1>1, <1>3, OrderIs
    <3>2. \A i \in DOMAIN list : list[i].id \in Int
      <4>1. \A i \in DOMAIN list : list[i] \in Task
        BY <1>1
      <4>2. QED
        BY <4>1 DEF Task
    <3>3. \A i, j \in DOMAIN list : i < j => list[i].id <= list[j].id
      BY <1>1, <3>2 DEF ById
    <3>4. QED
      BY <1>3, <3>1, <3>3 DEF InOrderOf, Precedes
  <2>3. QED
    BY <1>1, <1>2, <2>1, <2>2
<1>4. CASE order.column # NotSet /\ order.column = "dependencies"
  <2>1. PICK p \in [DOMAIN list -> DOMAIN list] :
            /\ \A i, j \in DOMAIN list : p[i] = p[j] => i = j
            /\ Continue("limit", [i \in DOMAIN list |-> list[p[i]]])
    BY <1>4 DEF OrderTasks
  <2> DEFINE t == [i \in DOMAIN list |-> list[p[i]]]
  <2>2. Permuted(t, list) /\ t \in Seq(Task)
    BY <1>1, <2>1, InjectionPermutes
  <2> HIDE DEF t
  <2>3. Distinct(t) /\ Elements(t) = Elements(list)
    BY <1>1, <2>2, PermutedSame
  <2>4. Continue("limit", t)
    BY <2>1 DEF t
  <2>5. QED
    BY <1>2, <1>4, <2>2, <2>3, <2>4
<1>5. CASE order.column # NotSet /\ order.column # "dependencies"
  <2> DEFINE t == Ordered(list, order)
  <2>1. Continue("limit", t)
    BY <1>5 DEF OrderTasks
  <2>2. t \in Seq(Task) /\ Permuted(t, list) /\ InOrderOf(order, t)
    BY <1>1, <1>5, OrderedIs
  <2>3. Distinct(t) /\ Elements(t) = Elements(list)
    BY <1>1, <2>2, PermutedSame
  <2>4. QED
    BY <1>2, <2>1, <2>2, <2>3
<1>6. QED
  BY <1>3, <1>4, <1>5

LEMMA LimitKeeps == StatusInv /\ LimitTasks => StatusInv'
<1> SUFFICES ASSUME StatusInv, LimitTasks PROVE StatusInv'
  OBVIOUS
<1> DEFINE query == command.query
           t == IF query.limit.end = NotSet THEN list ELSE Limited(list, query.limit)
<1>1. /\ place = "limit" /\ command.tasks \in TaskLists /\ query \in Lookups
      /\ list \in Seq(Task) /\ Distinct(list) /\ Elements(list) = Matching(command.tasks, query)
      /\ query.order.column # "dependencies" => InOrderOf(query.order, list)
      /\ query.limit \in Limit
  BY QueryIs DEF LimitTasks, StatusInv
<1>2. Continue("shown", t)
  BY DEF LimitTasks
<1>3. t \in Seq(Task) /\ ShownRight(t, Elements(list), query.limit, query.order)
  BY <1>1, LimitedIs
<1> HIDE DEF t
<1>4. QED
  BY <1>1, <1>2, <1>3 DEF Continue, StatusInv

LEMMA PrintKeeps == StatusInv /\ PrintState => StatusInv'
<1> SUFFICES ASSUME StatusInv, PrintState PROVE StatusInv'
  OBVIOUS
<1>1. /\ place = "shown" /\ place' = "printed" /\ answer' = Tables(list)
      /\ command' = command /\ list' = list
  BY DEF PrintState
<1>2. Tables(list)' = Tables(list)
  BY <1>1 DEF Tables, TablesOf, TableOf, Row, CommandText
<1>3. QED
  BY <1>1, <1>2 DEF StatusInv

LEMMA NextStatus == StatusInv /\ [Next]_vars => StatusInv'
<1> SUFFICES ASSUME StatusInv, [Next]_vars PROVE StatusInv'
  OBVIOUS
<1>1. ASSUME NEW next, NEW tasks, Continue(next, tasks),
             next \in {"refused", "endless", "pair"}
      PROVE  StatusInv'
  BY <1>1 DEF Continue, StatusInv
<1>2. CASE HideOtherGroups
  BY <1>2, HideKeeps
<1>3. CASE ApplyFilters
  BY <1>3, FilterKeeps
<1>4. CASE OrderTasks
  BY <1>4, OrderKeeps
<1>5. CASE LimitTasks
  BY <1>5, LimitKeeps
<1>6. CASE PrintState
  BY <1>6, PrintKeeps
<1>7. CASE ParseTaskIds
  <2>1. \E next \in {"refused", "endless", "pair"} : \E tasks : Continue(next, tasks)
    BY <1>7 DEF ParseTaskIds
  <2>2. QED
    BY <1>1, <2>1
<1>8. CASE PairIds
  BY <1>1, <1>8 DEF PairIds, StatusInv
<1>9. CASE SearchStep
  BY <1>9 DEF SearchStep, Grow, Searching, ReadPiece, ReachStart, ScanByte, StatusInv
<1>10. CASE UNCHANGED vars
  <2>1. command' = command /\ place' = place /\ list' = list /\ answer' = answer
    BY <1>10 DEF vars
  <2>2. Tables(list)' = Tables(list)
    BY <2>1 DEF Tables, TablesOf, TableOf, Row, CommandText
  <2>3. QED
    BY <2>1, <2>2 DEF StatusInv
<1>11. QED
  BY <1>2, <1>3, <1>4, <1>5, <1>6, <1>7, <1>8, <1>9, <1>10 DEF Next

(* Without repetitions there are as many elements as places.               *)
LEMMA DistinctCount ==
    ASSUME NEW s \in Seq(Task), Distinct(s)
    PROVE  Cardinality(Elements(s)) = Len(s)
<1>1. PICK n \in Nat : n = Len(s) /\ DOMAIN s = 1..n
  OBVIOUS
<1>2. s \in [1..n -> Elements(s)]
  BY <1>1 DEF Elements
<1>3. s \in Bijection(1..n, Elements(s))
  BY <1>1, <1>2 DEF Elements, Distinct, Bijection, Injection, IsInjective, Surjection
<1>4. ExistsBijection(1..n, Elements(s))
  BY <1>3 DEF ExistsBijection
<1>5. QED
  BY <1>1, <1>4, Interval, FS_Bijection

LEMMA QueryAnswered == StatusInv => AnswersQuery
<1> DEFINE query == command.query
           tasks == command.tasks
<1> SUFFICES ASSUME StatusInv, place = "shown",
                    \A task \in Elements(tasks) :
                       \A i \in DOMAIN query.filters : ~Odd(query.filters[i], task)
             PROVE  AnswersQuery
  BY DEF AnswersQuery
<1>1. /\ tasks \in Seq(Task) /\ query \in Lookups /\ list \in Seq(Task)
      /\ ShownRight(list, Matching(tasks, query), query.limit, query.order)
  BY QueriesAssumption DEF StatusInv
<1>2. Matching(tasks, query) = Candidates
  <2>1. \A task \in Elements(tasks), k \in DOMAIN query.filters :
            Matches(query.filters[k], task) <=> Documented(query.filters[k], task)
    <3> SUFFICES ASSUME NEW task \in Elements(tasks), NEW k \in DOMAIN query.filters
                 PROVE  Matches(query.filters[k], task) <=> Documented(query.filters[k], task)
      OBVIOUS
    <3>1. task \in Task
      BY <1>1 DEF Elements
    <3>2. query.filters[k] \in Filter
      BY <1>1, QueryIs
    <3>3. QED
      BY <3>1, <3>2, MatchesAsDocumented
  <2>2. \A task \in Elements(tasks) :
            (/\ Archived(task) => query.group = "archive"
             /\ query.group = NotSet \/ task.group = query.group)
            <=> IF query.group = NotSet THEN ~Archived(task) ELSE task.group = query.group
    BY DEF Archived, NotSet
  <2>3. QED
    BY <2>1, <2>2 DEF Matching, InGroup, Candidates
<1>3. Cardinality(Elements(list)) = Len(list)
  BY <1>1, DistinctCount DEF ShownRight
<1>4. \A a, b : InOrder(a, b) <=> Precedes(query.order, a, b)
  BY DEF InOrder, Precedes
<1>5. ShownRight(list, Candidates, query.limit, query.order)
  BY <1>1, <1>2
<1>6. QED
  BY <1>3, <1>4, <1>5 DEF AnswersQuery, ShownRight, InOrderOf

-----------------------------------------------------------------------------
(* The tables that show the answer.                                        *)

LEMMA FunctionIsSequence == \A S, f : \A n \in Nat : f \in [1..n -> S] => f \in Seq(S)
  OBVIOUS

LEMMA GroupsAre ==
    /\ Groups \in Seq(Elements(Groups)) /\ DOMAIN Groups = 1..3
    /\ \A i, j \in 1..3 : Groups[i] = Groups[j] => i = j
<1>1. DOMAIN Groups = 1..3 /\ Len(Groups) = 3
  BY DEF Groups
<1>2. \A i \in 1..3 : Groups[i] \in Elements(Groups)
  BY <1>1 DEF Elements
<1>3. Groups \in [1..3 -> Elements(Groups)]
  BY <1>2 DEF Groups
<1>4. Groups[1] = "default" /\ Groups[2] = "archive" /\ Groups[3] = "other"
  BY DEF Groups
<1>5. \A i, j \in 1..3 : Groups[i] = Groups[j] => i = j
  BY <1>4
<1>6. Groups \in Seq(Elements(Groups))
  <2>1. 3 \in Nat
    OBVIOUS
  <2>2. QED
    BY <1>3, <2>1, FunctionIsSequence
<1>7. QED
  BY <1>1, <1>5, <1>6

LEMMA ColumnsAre ==
    Columns \in Seq(Elements(Columns)) /\ DOMAIN Columns = 1..9 /\ Len(Columns) = 9
<1>1. DOMAIN Columns = 1..9 /\ Len(Columns) = 9
  BY DEF Columns
<1>2. Columns = [k \in 1..9 |-> Columns[k]]
  BY DEF Columns
<1>3. \A k \in 1..9 : Columns[k] \in Elements(Columns)
  BY <1>1 DEF Elements
<1>4. Columns \in [1..9 -> Elements(Columns)]
  BY <1>2, <1>3
<1>5. 9 \in Nat
  OBVIOUS
<1>6. QED
  BY <1>1, <1>4, <1>5, FunctionIsSequence

(* The texts of a task, in the order of the columns.                       *)
LEMMA TextsAre ==
    ASSUME NEW task,
           NEW texts, texts = <<task.id, task.status, task.priority,
                                IF HasDelay(task) THEN task.enqueue_at ELSE NoTime,
                                task.dependencies, task.label, CommandText(task),
                                task.start, task.end>>
    PROVE  /\ texts \in Seq(Elements(texts)) /\ DOMAIN texts = 1..9
           /\ \A k \in 1..9 : texts[k] = TextsOf(task)[Columns[k]]
<1>1. DOMAIN texts = 1..9
  OBVIOUS
<1>2. texts = [k \in 1..9 |-> texts[k]]
  OBVIOUS
<1>3. \A k \in 1..9 : texts[k] \in Elements(texts)
  BY <1>1 DEF Elements
<1>4. /\ Columns[1] = "id" /\ Columns[2] = "status" /\ Columns[3] = "priority"
      /\ Columns[4] = "enqueue_at" /\ Columns[5] = "dependencies" /\ Columns[6] = "label"
      /\ Columns[7] = "command" /\ Columns[8] = "start" /\ Columns[9] = "end"
  BY DEF Columns
<1>5. /\ texts[1] = TextsOf(task)["id"] /\ texts[2] = TextsOf(task)["status"]
      /\ texts[3] = TextsOf(task)["priority"] /\ texts[4] = TextsOf(task)["enqueue_at"]
      /\ texts[5] = TextsOf(task)["dependencies"] /\ texts[6] = TextsOf(task)["label"]
      /\ texts[7] = TextsOf(task)["command"] /\ texts[8] = TextsOf(task)["start"]
      /\ texts[9] = TextsOf(task)["end"]
  BY DEF TextsOf, CommandText
<1>6. \A k \in 1..9 : k \in {1, 2, 3, 4, 5, 6, 7, 8, 9}
  OBVIOUS
<1>7. \A k \in 1..9 : texts[k] = TextsOf(task)[Columns[k]]
  BY <1>4, <1>5, <1>6
<1>8. texts \in Seq(Elements(texts))
  <2>1. texts \in [1..9 -> Elements(texts)]
    BY <1>2, <1>3
  <2>2. QED
    BY <2>1
<1>9. QED
  BY <1>1, <1>7, <1>8

(* The header and a row select the same columns, so each text is under the *)
(* name of its column.                                                     *)
LEMMA RowIs ==
    ASSUME NEW task, NEW visible
    PROVE  /\ Len(Row(task, visible)) = Len(Header(visible))
           /\ \A k \in DOMAIN Header(visible) :
                  Row(task, visible)[k] = TextsOf(task)[Header(visible)[k]]
           /\ \A column \in Elements(Columns) :
                  column \in visible => column \in Elements(Header(visible))
<1> DEFINE texts == <<task.id, task.status, task.priority,
                      IF HasDelay(task) THEN task.enqueue_at ELSE NoTime,
                      task.dependencies, task.label, CommandText(task), task.start, task.end>>
           I == Shown(visible)
           n == Cardinality(I)
           at == Ascending(I)
           header == Header(visible)
           row == Row(task, visible)
<1>1. I \subseteq 1..9
  BY ColumnsAre DEF Shown
<1>2. PICK t : /\ row = Selected(t, I)
               /\ t \in Seq(Elements(t)) /\ DOMAIN t = 1..9
               /\ \A k \in 1..9 : t[k] = TextsOf(task)[Columns[k]]
  <2>1. row = Selected(texts, I)
    BY DEF Row
  <2>2. /\ texts \in Seq(Elements(texts)) /\ DOMAIN texts = 1..9
        /\ \A k \in 1..9 : texts[k] = TextsOf(task)[Columns[k]]
    BY TextsAre
  <2> HIDE DEF texts, row
  <2>3. QED
    BY <2>1, <2>2
<1>3. header = Selected(Columns, I)
  BY DEF Header
<1> HIDE DEF row, header, n, at, texts
<1>4. /\ Len(row) = n /\ DOMAIN row = 1..n
      /\ \A k \in 1..n : row[k] = t[at[k]]
  <2>1. I \in SUBSET DOMAIN t
    BY <1>1, <1>2
  <2>2. QED
    BY <1>2, <2>1, SelectedIs DEF n, at
<1>5. /\ Len(header) = n /\ DOMAIN header = 1..n
      /\ \A k \in 1..n : header[k] = Columns[at[k]]
  <2>1. I \in SUBSET DOMAIN Columns
    BY <1>1, ColumnsAre
  <2>2. QED
    BY <1>3, <2>1, ColumnsAre, SelectedIs DEF n, at
<1>6. IsAscending(at, I)
  <2>1. I \in SUBSET DOMAIN Columns
    BY <1>1, ColumnsAre
  <2>2. QED
    BY <2>1, ColumnsAre, SelectedIs DEF at
<1>7. /\ \A k \in 1..n : at[k] \in I
      /\ \A x \in I : \E k \in 1..n : at[k] = x
  BY <1>6 DEF IsAscending, n
<1>8. \A k \in 1..n : row[k] = TextsOf(task)[header[k]]
  <2>1. ASSUME NEW k \in 1..n PROVE row[k] = TextsOf(task)[header[k]]
    <3>1. at[k] \in 1..9
      BY <1>1, <1>7, <2>1
    <3>2. t[at[k]] = TextsOf(task)[Columns[at[k]]]
      BY <1>2, <3>1
    <3>3. row[k] = t[at[k]] /\ header[k] = Columns[at[k]]
      BY <1>4, <1>5, <2>1
    <3>4. QED
      BY <3>2, <3>3
  <2>2. QED
    BY <2>1
<1>9. ASSUME NEW column \in Elements(Columns), column \in visible
      PROVE  column \in Elements(header)
  <2>1. PICK x \in I : Columns[x] = column
    BY <1>9 DEF Elements, Shown
  <2>2. PICK k \in 1..n : at[k] = x
    BY <1>7
  <2>3. header[k] = column
    BY <1>5, <2>1, <2>2
  <2>4. QED
    BY <1>5, <2>3 DEF Elements
<1>10. QED
  BY <1>4, <1>5, <1>8, <1>9 DEF row, header

(* The tasks of a group.                                                   *)
LEMMA OfGroupIs ==
    ASSUME NEW s \in Seq(Task), NEW group
    PROVE  /\ OfGroup(s, group) \in Seq(Task)
           /\ OfGroup(s, group) # <<>> <=> \E i \in DOMAIN s : s[i].group = group
<1> DEFINE I == {i \in DOMAIN s : s[i].group = group}
           t == OfGroup(s, group)
<1>1. I \in SUBSET DOMAIN s
  OBVIOUS
<1>2. t = Selected(s, I)
  BY DEF OfGroup
<1>3. IsFiniteSet(I)
  <2>1. DOMAIN s = 1..Len(s) /\ Len(s) \in Nat
    OBVIOUS
  <2>2. QED
    BY <2>1, Interval, FS_Subset
<1>4. (I = {}) <=> ~\E i \in DOMAIN s : s[i].group = group
  OBVIOUS
<1> HIDE DEF t, I
<1>5. t \in Seq(Task) /\ Len(t) = Cardinality(I)
  BY <1>1, <1>2, SelectedIs
<1>6. Cardinality(I) = 0 <=> I = {}
  BY <1>3, FS_EmptySet
<1>7. t = <<>> <=> Len(t) = 0
  BY <1>5
<1>8. QED
  BY <1>4, <1>5, <1>6, <1>7 DEF t

(* TableBuilder: one row for each task, and nothing is hidden that the     *)
(* user did not deselect.                                                  *)
TableRight(table, tasks) ==
    /\ Len(table.rows) = Len(tasks)
    /\ \A i \in DOMAIN tasks :
           /\ Len(table.rows[i]) = Len(table.header)
           /\ \A k \in DOMAIN table.header :
                  table.rows[i][k] = TextsOf(tasks[i])[table.header[k]]
           /\ command.query.columns = {} =>
                  \A column \in {"priority", "enqueue_at", "dependencies", "label"} :
                     Tells(tasks[i], column) => column \in Elements(table.header)

LEMMA TableIs ==
    ASSUME NEW group, NEW tasks \in Seq(Task)
    PROVE  TableOf(group, tasks).group = group /\ TableRight(TableOf(group, tasks), tasks)
<1> DEFINE visible == Visible(command.query.columns, tasks)
           table == TableOf(group, tasks)
<1>1. /\ table.group = group /\ table.header = Header(visible)
      /\ table.rows = [i \in DOMAIN tasks |-> Row(tasks[i], visible)]
  BY DEF TableOf
<1>2. PICK v : v = visible
  OBVIOUS
<1>3. ASSUME command.query.columns = {}, NEW i \in DOMAIN tasks,
             NEW column \in {"priority", "enqueue_at", "dependencies", "label"},
             Tells(tasks[i], column)
      PROVE  column \in v /\ column \in Elements(Columns)
  <2>1. column \in v
    BY <1>2, <1>3 DEF Visible, Tells
  <2>2. /\ Columns[3] = "priority" /\ Columns[4] = "enqueue_at"
        /\ Columns[5] = "dependencies" /\ Columns[6] = "label"
    BY DEF Columns
  <2>3. 3 \in DOMAIN Columns /\ 4 \in DOMAIN Columns /\ 5 \in DOMAIN Columns /\ 6 \in DOMAIN Columns
    BY ColumnsAre
  <2>4. column \in Elements(Columns)
    BY <2>2, <2>3 DEF Elements
  <2>5. QED
    BY <2>1, <2>4
<1> HIDE DEF visible, table
<1>4. Len(table.rows) = Len(tasks)
  <2>1. PICK n \in Nat : DOMAIN tasks = 1..n /\ Len(tasks) = n
    OBVIOUS
  <2>2. table.rows = [i \in 1..n |-> Row(tasks[i], v)]
    BY <1>1, <1>2, <2>1
  <2>3. QED
    BY <2>1, <2>2
<1>5. \A i \in DOMAIN tasks : table.rows[i] = Row(tasks[i], v)
  BY <1>1, <1>2
<1>6. table.header = Header(v)
  BY <1>1, <1>2
<1>7. TableRight(table, tasks)
  BY <1>3, <1>4, <1>5, <1>6, RowIs DEF TableRight
<1>8. QED
  BY <1>1, <1>7 DEF table

LEMMA AnswerShown == StatusInv => TablesShowAnswer
<1> SUFFICES ASSUME StatusInv, place = "printed"
             PROVE  /\ \A i \in DOMAIN list :
                           Cardinality({j \in DOMAIN answer : answer[j].group = list[i].group}) = 1
                    /\ \A j \in DOMAIN answer :
                           TableRight(answer[j], OfGroup(list, answer[j].group))
  BY DEF TablesShowAnswer, TableRight
<1> DEFINE I == {k \in DOMAIN Groups : OfGroup(list, Groups[k]) # <<>>}
           used == Selected(Groups, I)
           at == Ascending(I)
           n == Cardinality(I)
<1>1. list \in Seq(Task) /\ answer = Tables(list)
  BY DEF StatusInv
<1>2. answer = [k \in DOMAIN used |-> TableOf(used[k], OfGroup(list, used[k]))]
  BY <1>1 DEF Tables, TablesOf
<1>3. /\ IsAscending(at, I) /\ DOMAIN used = 1..n
      /\ \A k \in 1..n : used[k] = Groups[at[k]]
  <2>1. I \in SUBSET DOMAIN Groups
    OBVIOUS
  <2> HIDE DEF I
  <2>2. QED
    BY <2>1, GroupsAre, SelectedIs
<1>4. I \subseteq 1..3
  BY GroupsAre
<1> HIDE DEF used, at, n
<1>5. /\ n \in Nat
      /\ \A k \in 1..n : at[k] \in I
      /\ \A x \in I : \E k \in 1..n : at[k] = x
      /\ \A a, b \in 1..n : at[a] = at[b] => a = b
  BY <1>3 DEF IsAscending, n
<1>6. \A j \in 1..n : /\ answer[j].group = used[j]
                      /\ TableRight(answer[j], OfGroup(list, used[j]))
  <2> SUFFICES ASSUME NEW j \in 1..n
               PROVE  answer[j].group = used[j] /\ TableRight(answer[j], OfGroup(list, used[j]))
    OBVIOUS
  <2>1. answer[j] = TableOf(used[j], OfGroup(list, used[j]))
    BY <1>2, <1>3
  <2>2. OfGroup(list, used[j]) \in Seq(Task)
    BY <1>1, OfGroupIs
  <2>3. QED
    BY <2>1, <2>2, TableIs
<1>7. DOMAIN answer = 1..n
  BY <1>2, <1>3
<1>8. ASSUME NEW i \in DOMAIN list
      PROVE  Cardinality({j \in DOMAIN answer : answer[j].group = list[i].group}) = 1
  <2>1. list[i].group \in Elements(Groups)
    <3>1. list[i] \in Task
      BY <1>1
    <3>2. QED
      BY <3>1 DEF Task
  <2>2. PICK k \in 1..3 : Groups[k] = list[i].group
    BY <2>1, GroupsAre DEF Elements
  <2>3. OfGroup(list, Groups[k]) # <<>>
    BY <1>1, <2>2, OfGroupIs
  <2>4. k \in I
    BY <2>3, GroupsAre
  <2>5. PICK j \in 1..n : at[j] = k
    BY <1>5, <2>4
  <2>6. \A m \in 1..n : used[m] = Groups[k] => m = j
    BY <1>3, <1>4, <1>5, <2>5, GroupsAre
  <2>7. {m \in DOMAIN answer : answer[m].group = list[i].group} = {j}
    BY <1>3, <1>6, <1>7, <2>2, <2>5, <2>6
  <2>8. QED
    BY <2>7, FS_Singleton
<1>9. QED
  BY <1>6, <1>7, <1>8

(* print_state, for every state and every query without the filters that   *)
(* the help does not describe: the tasks that are shown are those the      *)
(* query asks for, in its order and number, each in the table of its group *)
(* with its texts under their columns.                                     *)
THEOREM StatusAlwaysAnswers == Spec => []StatusAnswersQuery
<1>1. StatusInv => StatusAnswersQuery
  BY QueryAnswered, AnswerShown DEF StatusAnswersQuery
<1>2. QED
  BY <1>1, InitStatus, NextStatus, PTL DEF Spec

=============================================================================
