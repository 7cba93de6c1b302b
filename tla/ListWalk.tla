------------------------------ MODULE ListWalk ------------------------------
(***************************************************************************)
(* A client that walks the pages of a list while rows are created and      *)
(* deleted: PageRequest, PageResult and the two queries of listUsers() and *)
(* listRoles().  Nothing is cached here, as with REDIS_ENABLED=false.      *)
(*                                                                         *)
(* Rows are numbers; Created[i] is the created_at that the replica which   *)
(* creates row i takes from its own clock before it inserts it, so rows    *)
(* need not be inserted in the order of their created_at.                  *)
(***************************************************************************)
EXTENDS Integers, Sequences, FiniteSets, SequencesExt

CONSTANTS Row,         \* the rows that may come to exist
          Created,     \* their created_at
          FirstPage,   \* the pages a walk may begin with
          MaxPageSize, \* kMaxPageSize
          MaxInt       \* the greatest int

ASSUME WalkAssumption ==
  /\ IsFiniteSet(Row)
  /\ Created \in [Row -> Nat]
  /\ MaxInt \in Nat
  /\ MaxPageSize \in 1..MaxInt
  /\ FirstPage \subseteq 1..MaxInt

VARIABLES
  table,   \* the rows in the table
  born,    \* history: the rows that were ever created
  pc,      \* what the walk does next: "idle", "count", "find" or "done"
  pageNumber, size, \* its PageRequest: the page and the page size
  total,   \* what count() has returned
  shown,   \* the rows of the pages answered so far
  asked,   \* how many pages were asked for
  first,   \* history: the rows when the walk began
  during   \* history: what happened to the table during the walk

walkVars == << pc, pageNumber, size, total, shown, asked, first >>
listVars == << table, born, walkVars, during >>

WalkInit ==
  /\ table = {}
  /\ born = {}
  /\ pc = "idle"
  /\ pageNumber = 1
  /\ size = 1
  /\ total = 0
  /\ shown = << >>
  /\ asked = 0
  /\ first = {}
  /\ during = {}

-----------------------------------------------------------------------------
(* int arithmetic.                                                         *)

\* What is left of n in two's complement.
Wrapped(n) == ((n + MaxInt + 1) % (2 * (MaxInt + 1))) - (MaxInt + 1)

\* Signed overflow is undefined: the product wraps, or is computed in the
\* registers of the wider type it is converted to next.
IntValues(n) == IF n <= MaxInt THEN {n} ELSE {n, Wrapped(n)}

\* Mutant: the last row of a page is on the next page, too.
OffsetOverlapping(p, s) == IntValues((p - 1) * (s - 1))

Offset(p, s) == IntValues((p - 1) * s)

\* Mutant: a full page is always followed by another one.
HasNextAfterFull(o, s, t) == {n >= 0 /\ n <= t : n \in IntValues(o + s)}

\* Mutant: the page after the next one has to exist.
HasNextEarly(o, s, t) == {n >= 0 /\ n + s < t : n \in IntValues(o + s)}

\* The sum becomes a size_t: a negative one is a huge one.
HasNext(o, s, t) == {n >= 0 /\ n < t : n \in IntValues(o + s)}

-----------------------------------------------------------------------------
(* The table: orderBy(created_at) leaves rows of the same time in any order. *)

Ordered(S) ==
  {q \in SetToSeqs(S) :
     \A i, j \in DOMAIN q : i < j => Created[q[i]] <= Created[q[j]]}

Happens(what) ==
  /\ during' = IF pc \in {"count", "find"} THEN during \cup what ELSE during
  /\ UNCHANGED walkVars

\* A row may come to stand before rows that were there before it.
CreateRow(i) ==
  /\ i \in Row \ born
  /\ table' = table \cup {i}
  /\ born' = born \cup {i}
  /\ Happens(IF \E j \in table : Created[j] >= Created[i]
               THEN {"create", "early"} ELSE {"create"})

DeleteRow(i) ==
  /\ i \in table
  /\ table' = table \ {i}
  /\ UNCHANGED born
  /\ Happens({"delete"})

-----------------------------------------------------------------------------
Start(p, s) ==
  /\ pc = "idle"
  /\ pc' = "count"
  /\ pageNumber' = p
  /\ size' = s
  /\ asked' = 1
  /\ first' = table
  /\ UNCHANGED << table, born, total, shown, during >>

Count ==
  /\ pc = "count"
  /\ total' = Cardinality(table)
  /\ pc' = "find"
  /\ UNCHANGED << table, born, pageNumber, size, shown, asked, first, during >>

\* limit() and offset().
PageOf(q, o, s) == SubSeq(q, o + 1, IF o + s <= Len(q) THEN o + s ELSE Len(q))

\* The page is answered, and the client follows has_next, up to the last page
\* that is an int.
Find ==
  \E o \in Offset(pageNumber, size), q \in Ordered(table) :
    /\ pc = "find"
    /\ o >= 0
    /\ shown' = shown \o PageOf(q, o, size)
    /\ \E more \in UNION {HasNext(n, size, total) : n \in Offset(pageNumber, size)} :
         IF more /\ pageNumber < MaxInt
           THEN pc' = "count" /\ pageNumber' = pageNumber + 1 /\ asked' = asked + 1
           ELSE pc' = "done" /\ UNCHANGED << pageNumber, asked >>
    /\ UNCHANGED << table, born, size, total, first, during >>

\* A negative offset becomes a size_t that PostgreSQL takes for no bigint: the
\* request is answered with an error, and the walk is over.
FindFails ==
  /\ pc = "find"
  /\ \E o \in Offset(pageNumber, size) : o < 0
  /\ pc' = "done"
  /\ UNCHANGED << table, born, pageNumber, size, total, shown, asked, first, during >>

WalkNext ==
  \/ \E i \in Row : CreateRow(i) \/ DeleteRow(i)
  \/ \E p \in FirstPage, s \in 1..MaxPageSize : Start(p, s)
  \/ Count \/ Find \/ FindFails

WalkSpec == WalkInit /\ [][WalkNext]_listVars

-----------------------------------------------------------------------------
WalkTypeOK ==
  /\ table \subseteq born /\ born \subseteq Row
  /\ pc \in {"idle", "count", "find", "done"}
  /\ pageNumber \in Nat \ {0}
  /\ size \in 1..MaxPageSize
  /\ total \in 0..Cardinality(Row)
  /\ ToSet(shown) \subseteq Row /\ Len(shown) <= asked * size
  /\ first \subseteq Row
  /\ during \subseteq {"create", "delete", "early"}

\* The walk has begun with the first page.
WholeWalk == pageNumber = asked

\* The rows of S that have a time of their own.
Own(S) == {i \in S : \A j \in S \ {i} : Created[j] # Created[i]}

\* "page-based pagination ... and has_next": the walk of a table that nobody
\* writes to shows at each place a row of the time that belongs there, so those
\* of a time of their own once each, and asks for no page in vain.  Rows that
\* share a time may change places from one page to the next: one of them may be
\* shown twice, and another never.
QuietWalkIsExact ==
  pc = "done" /\ WholeWalk /\ during = {} =>
    /\ \E q \in Ordered(first) :
         /\ Len(shown) = Len(q)
         /\ \A n \in DOMAIN q : shown[n] \in first /\ Created[shown[n]] = Created[q[n]]
    /\ asked * size < Cardinality(first) + size \/ asked = 1

\* Rows that are created during a walk, behind the others, hide none of those
\* that were there at a time of their own: has_next comes from a count() before
\* findAll().
SkipsNeedWrites ==
  pc = "done" /\ WholeWalk /\ during \subseteq {"create"} => Own(first) \subseteq ToSet(shown)

\* Whatever is deleted during a walk, and even if the offset overflows, a row
\* that shares its time with none is shown twice only if another row came to
\* stand before one that was there.
RepeatsNeedEarlyRows ==
  "early" \notin during =>
    \A m, n \in DOMAIN shown : shown[m] = shown[n] /\ shown[m] \in Own(born) => m = n
=============================================================================
