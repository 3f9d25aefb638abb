-------------------------- MODULE PaginationProofs --------------------------
(***************************************************************************)
(* Theorems about Pagination, for any times, any number of rows and any    *)
(* limits.                                                                 *)
(*                                                                         *)
(* First come facts about the order of rows and about cursors, then what   *)
(* ORDER BY and LIMIT leave of a finite set, then what a query returns     *)
(* going forward and going back, and from these the invariant.             *)
(***************************************************************************)
EXTENDS Pagination, FiniteSetTheorems, WellFoundedInduction, TLAPS

Pages == [entries : SUBSET Row, next : DatetimeIdCursor \union {NoCursor},
          prev : DatetimeIdCursor \union {NoCursor}]

Walks == [rows : SUBSET Row, seen : SUBSET Row]

\* A row is selected by at most one of a page's cursors; what the next selects
\* comes after the page, and what the previous selects before it.
Apart(p) ==
    /\ \A r \in Row : ~(Selects(p.next, r) /\ Selects(p.prev, r))
    /\ \A r \in p.entries, s \in Row :
         /\ Selects(p.next, s) => apply_order(r, s, FALSE)
         /\ Selects(p.prev, s) => apply_order(s, r, FALSE)

\* The next cursor goes forward and the previous one back.
Directed(p) ==
    /\ p.next # NoCursor => ~p.next.previous
    /\ p.prev # NoCursor => p.prev.previous

\* A row the client has not been shown on its walk is still ahead of it.
ToCome ==
    /\ \A r \in fromStart.rows : r \in fromStart.seen \/ Selects(page.next, r)
    /\ \A r \in fromEnd.rows : r \in fromEnd.seen \/ Selects(page.prev, r)

Staying ==
    /\ IsFiniteSet(rows)
    /\ fromStart.rows \subseteq rows
    /\ fromEnd.rows \subseteq rows

IInv == PaginationTypeOK /\ Apart(page) /\ Directed(page) /\ ToCome /\ Staying

-----------------------------------------------------------------------------
\* Rows and cursors have integers for their times and identifiers.
LEMMA RowType ==
    ASSUME NEW r \in Row
    PROVE  r.time \in Int /\ r.id \in Int
<1>1. r.time \in Times
  BY DEF Row
<1>2. r.id \in 1..MaxId
  BY DEF Row
<1>3. r.time \in Int
  BY <1>1, TimeAssumption
<1>4. r.id \in Int
  BY <1>2, BoundAssumption
<1> QED
  BY <1>3, <1>4

LEMMA CursorType ==
    ASSUME NEW c \in DatetimeIdCursor
    PROVE  c.time \in Int /\ c.id \in Int /\ c.previous \in BOOLEAN
<1>1. c.time \in Times
  BY DEF DatetimeIdCursor
<1>2. c.id \in 1..MaxId
  BY DEF DatetimeIdCursor
<1>3. c.previous \in BOOLEAN
  BY DEF DatetimeIdCursor
<1>4. c.time \in Int
  BY <1>1, TimeAssumption
<1>5. c.id \in Int
  BY <1>2, BoundAssumption
<1> QED
  BY <1>3, <1>4, <1>5

\* The order of rows is strict, transitive and total, and the reverse order is
\* its inverse.
LEMMA Strict ==
    ASSUME NEW a \in Row, NEW b \in Row, NEW reverse \in BOOLEAN,
           apply_order(a, b, reverse)
    PROVE  a # b /\ ~apply_order(b, a, reverse)
  BY RowType DEF apply_order

LEMMA Transitive ==
    ASSUME NEW a \in Row, NEW b \in Row, NEW c \in Row, NEW reverse \in BOOLEAN,
           apply_order(a, b, reverse), apply_order(b, c, reverse)
    PROVE  apply_order(a, c, reverse)
  BY RowType DEF apply_order

LEMMA Total ==
    ASSUME NEW a \in Row, NEW b \in Row, NEW reverse \in BOOLEAN
    PROVE  a = b \/ apply_order(a, b, reverse) \/ apply_order(b, a, reverse)
<1>1. a.time = b.time /\ a.id = b.id => a = b
  BY DEF Row
<1> QED
  BY <1>1, RowType DEF apply_order

LEMMA Reversed ==
    ASSUME NEW a \in Row, NEW b \in Row, NEW reverse \in BOOLEAN
    PROVE  /\ apply_order(a, b, ~reverse) <=> apply_order(b, a, reverse)
           /\ apply_order(a, b, TRUE) <=> apply_order(b, a, FALSE)
<1>1. CASE reverse
  BY <1>1 DEF apply_order
<1>2. CASE ~reverse
  BY <1>2 DEF apply_order
<1> QED
  BY <1>1, <1>2

\* A cursor and its inverse select all rows between them and none twice, and a
\* cursor selects an end of the rows.
LEMMA CursorFacts ==
    ASSUME NEW c \in DatetimeIdCursor, NEW r \in Row, NEW s \in Row
    PROVE  /\ invert(c) \in DatetimeIdCursor
           /\ invert(c).previous = ~c.previous
           /\ apply_cursor(invert(c), r) <=> ~apply_cursor(c, r)
           /\ ~c.previous /\ apply_cursor(c, r) /\ ~apply_cursor(c, s)
                => apply_order(s, r, FALSE)
           /\ c.previous /\ apply_cursor(c, s) /\ ~apply_cursor(c, r)
                => apply_order(s, r, FALSE)
<1>1. /\ c.time \in Int /\ r.time \in Int /\ s.time \in Int
      /\ c.id \in Int /\ r.id \in Int /\ s.id \in Int
      /\ c.previous \in BOOLEAN
  BY RowType, CursorType
<1>2. /\ invert(c) \in DatetimeIdCursor
      /\ invert(c).previous = ~c.previous
      /\ invert(c).time = c.time
      /\ invert(c).id = c.id
  BY DEF invert, DatetimeIdCursor
<1>3. apply_cursor(invert(c), r) <=> ~apply_cursor(c, r)
  <2>1. CASE c.previous
    <3>1. ~invert(c).previous
      BY <1>2, <2>1
    <3>2. apply_cursor(invert(c), r)
            <=> r.time < c.time \/ (r.time = c.time /\ r.id <= c.id)
      BY <1>2, <3>1 DEF apply_cursor
    <3>3. apply_cursor(c, r)
            <=> r.time > c.time \/ (r.time = c.time /\ r.id > c.id)
      BY <2>1 DEF apply_cursor
    <3> QED
      BY <1>1, <3>2, <3>3
  <2>2. CASE ~c.previous
    <3>1. invert(c).previous
      BY <1>2, <2>2
    <3>2. apply_cursor(invert(c), r)
            <=> r.time > c.time \/ (r.time = c.time /\ r.id > c.id)
      BY <1>2, <3>1 DEF apply_cursor
    <3>3. apply_cursor(c, r)
            <=> r.time < c.time \/ (r.time = c.time /\ r.id <= c.id)
      BY <2>2 DEF apply_cursor
    <3> QED
      BY <1>1, <3>2, <3>3
  <2> QED
    BY <2>1, <2>2
<1>4. ~c.previous /\ apply_cursor(c, r) /\ ~apply_cursor(c, s)
        => apply_order(s, r, FALSE)
  BY <1>1 DEF apply_cursor, apply_order
<1>5. c.previous /\ apply_cursor(c, s) /\ ~apply_cursor(c, r)
        => apply_order(s, r, FALSE)
  BY <1>1 DEF apply_cursor, apply_order
<1> QED
  BY <1>2, <1>3, <1>4, <1>5

\* The inverse of a cursor goes the other way and selects all the other rows.
LEMMA DatetimeIdCursorInverts ==
    ASSUME NEW c \in DatetimeIdCursor
    PROVE  /\ invert(c) \in DatetimeIdCursor
           /\ invert(c).previous = ~c.previous
           /\ c # NoCursor
           /\ invert(c) # NoCursor
<1>1. /\ invert(c) \in DatetimeIdCursor
      /\ invert(c).previous = ~c.previous
  BY DEF invert, DatetimeIdCursor
<1> QED
  BY <1>1, CursorAssumption

LEMMA InverseSelects ==
    ASSUME NEW c \in DatetimeIdCursor, NEW r \in Row
    PROVE  Selects(invert(c), r) <=> ~apply_cursor(c, r)
  BY CursorFacts, DatetimeIdCursorInverts DEF Selects

\* A cursor made from a row selects that row and those after it, or, going back,
\* those before it.
LEMMA EntryFacts ==
    ASSUME NEW r \in Row, NEW s \in Row
    PROVE  /\ from_entry(r, FALSE) \in DatetimeIdCursor
           /\ from_entry(r, TRUE) \in DatetimeIdCursor
           /\ ~from_entry(r, FALSE).previous
           /\ from_entry(r, TRUE).previous
           /\ apply_cursor(from_entry(r, FALSE), s)
                <=> s = r \/ apply_order(r, s, FALSE)
           /\ apply_cursor(from_entry(r, TRUE), s) <=> apply_order(s, r, FALSE)
<1>1. /\ r.time \in Int /\ s.time \in Int
      /\ r.id \in Int /\ s.id \in Int
  BY RowType
<1>2. r.time = s.time /\ r.id = s.id => r = s
  BY DEF Row
<1>3. /\ from_entry(r, FALSE) \in DatetimeIdCursor
      /\ from_entry(r, TRUE) \in DatetimeIdCursor
      /\ ~from_entry(r, FALSE).previous
      /\ from_entry(r, TRUE).previous
  BY DEF from_entry, DatetimeIdCursor, Row
<1>4. apply_cursor(from_entry(r, FALSE), s) <=> s = r \/ apply_order(r, s, FALSE)
  BY <1>1, <1>2 DEF apply_cursor, from_entry, apply_order
<1>5. apply_cursor(from_entry(r, TRUE), s) <=> apply_order(s, r, FALSE)
  BY <1>1 DEF apply_cursor, from_entry, apply_order
<1> QED
  BY <1>3, <1>4, <1>5

-----------------------------------------------------------------------------
\* The rows of S that come before r.
Above(S, r, reverse) == {s \in S : apply_order(s, r, reverse)}

\* Of rows in order, those above one are among those above a later one.
LEMMA AboveGrows ==
    ASSUME NEW S \in SUBSET Row, NEW reverse \in BOOLEAN,
           NEW a \in Row, NEW b \in Row, apply_order(a, b, reverse)
    PROVE  /\ Above(S, a, reverse) \subseteq Above(S, b, reverse)
           /\ a \in S => a \in Above(S, b, reverse) \ Above(S, a, reverse)
<1>1. \A s \in S : apply_order(s, a, reverse) => apply_order(s, b, reverse)
  BY Transitive
<1>2. ~apply_order(a, a, reverse)
  BY Strict
<1> QED
  BY <1>1, <1>2 DEF Above

\* Of a finite set, finitely many rows are above one.
LEMMA AboveFinite ==
    ASSUME NEW S, IsFiniteSet(S), NEW r, NEW reverse
    PROVE  /\ IsFiniteSet(Above(S, r, reverse))
           /\ Cardinality(Above(S, r, reverse)) \in Nat
<1>1. Above(S, r, reverse) \in SUBSET S
  BY DEF Above
<1> QED
  BY <1>1, FS_Subset, FS_CardinalityType

\* Rows of a finite set have a first one.
LEMMA Foremost ==
    ASSUME NEW S \in SUBSET Row, IsFiniteSet(S), NEW reverse \in BOOLEAN,
           NEW T \in SUBSET S, T # {}
    PROVE  \E m \in T : \A t \in T : t = m \/ apply_order(m, t, reverse)
<1> DEFINE U == {Above(S, t, reverse) : t \in T}
<1>1. U \subseteq FiniteSubsetsOf(S)
  <2> SUFFICES ASSUME NEW t \in T
               PROVE  Above(S, t, reverse) \in FiniteSubsetsOf(S)
    OBVIOUS
  <2>1. Above(S, t, reverse) \in SUBSET S
    BY DEF Above
  <2> QED
    BY <2>1, AboveFinite DEF FiniteSubsetsOf
<1>2. U # {}
  OBVIOUS
<1>3. PICK P \in U : \A Q \in U : ~(<<Q, P>> \in StrictSubsetOrdering(S))
  BY <1>1, <1>2, FS_StrictSubsetOrderingWellFounded, WFMin, Zenon
<1>4. PICK m \in T : P = Above(S, m, reverse)
  OBVIOUS
<1>5. ASSUME NEW t \in T
      PROVE  t = m \/ apply_order(m, t, reverse)
  <2> SUFFICES ASSUME apply_order(t, m, reverse)
               PROVE  FALSE
    BY Total
  <2> DEFINE Q == Above(S, t, reverse)
  <2>1. Q \subseteq P /\ Q # P
    BY <1>4, AboveGrows
  <2>2. <<Q, P>> \in StrictSubsetOrdering(S)
    BY <1>1, <2>1, <1>4 DEF StrictSubsetOrdering, FiniteSubsetsOf, Above
  <2> QED
    BY <1>3, <2>2
<1> QED
  BY <1>5

\* They have a last one too, the first of the reverse order.
LEMMA LastIsLast ==
    ASSUME NEW S \in SUBSET Row, IsFiniteSet(S), S # {}, NEW reverse \in BOOLEAN
    PROVE  /\ Last(S, reverse) \in S
           /\ \A s \in S : s = Last(S, reverse) \/ apply_order(s, Last(S, reverse), reverse)
<1>1. \A a, b \in S : apply_order(a, b, ~reverse) <=> apply_order(b, a, reverse)
  BY Reversed
<1>2. PICK m \in S : \A s \in S : s = m \/ apply_order(m, s, ~reverse)
  BY Foremost
<1>3. \A s \in S : s = m \/ apply_order(s, m, reverse)
  BY <1>1, <1>2
<1> QED
  BY <1>3 DEF Last

\* Whatever comes before one of the first n rows is one of them.
LEMMA FirstIsInitial ==
    ASSUME NEW S \in SUBSET Row, IsFiniteSet(S), NEW reverse \in BOOLEAN,
           NEW n \in Nat, NEW a \in S, NEW b \in First(S, n, reverse),
           apply_order(a, b, reverse)
    PROVE  a \in First(S, n, reverse)
<1>1. b \in S /\ Cardinality(Above(S, b, reverse)) < n
  BY DEF First, Above
<1>2. Above(S, a, reverse) \in SUBSET Above(S, b, reverse)
  BY <1>1, AboveGrows
<1>3. Cardinality(Above(S, a, reverse)) <= Cardinality(Above(S, b, reverse))
  BY <1>2, AboveFinite, FS_Subset
<1>4. /\ Cardinality(Above(S, a, reverse)) \in Nat
      /\ Cardinality(Above(S, b, reverse)) \in Nat
  BY AboveFinite
<1>5. Cardinality(Above(S, a, reverse)) < n
  BY <1>1, <1>3, <1>4
<1> QED
  BY <1>5 DEF First, Above

\* What follows, for a query with a limit: one row more than the limit is found,
\* and if it is there, it is the last found and no entry; else all are found.
LEMMA Cut ==
    ASSUME NEW S \in SUBSET Row, IsFiniteSet(S), NEW reverse \in BOOLEAN,
           NEW limit \in Nat, limit # 0
    PROVE  LET found == First(S, limit + 1, reverse)
               entries == First(found, limit, reverse)
               extra == Last(found, reverse)
           IN
           /\ entries \subseteq found
           /\ found \subseteq S
           /\ IsFiniteSet(found)
           /\ ~(Cardinality(found) > limit) => found = S
           /\ Cardinality(found) > limit =>
                /\ entries # {}
                /\ extra \in found \ entries
                /\ \A r \in entries : apply_order(r, extra, reverse)
                /\ \A r \in S \ entries : r = extra \/ apply_order(extra, r, reverse)
                /\ \A r \in S \ entries, e \in entries : apply_order(e, r, reverse)
<1> DEFINE found == First(S, limit + 1, reverse)
           entries == First(found, limit, reverse)
           extra == Last(found, reverse)
<1>0. /\ found = First(S, limit + 1, reverse)
      /\ entries = First(found, limit, reverse)
      /\ extra = Last(found, reverse)
  OBVIOUS
<1> HIDE DEF found, entries, extra
<1>1. entries \subseteq found /\ found \subseteq S
  BY <1>0 DEF First
<1>2. /\ IsFiniteSet(found)
      /\ Cardinality(found) \in Nat
  BY <1>1, FS_Subset, FS_CardinalityType
<1>3. ASSUME found # S
      PROVE  Cardinality(found) > limit
  <2>1. S \ found # {} /\ S \ found \in SUBSET S
    BY <1>1, <1>3
  <2>2. PICK r \in S \ found : \A t \in S \ found : t = r \/ apply_order(r, t, reverse)
    BY <2>1, Foremost
  <2>3. Above(S, r, reverse) \in SUBSET found
    <3> SUFFICES ASSUME NEW t \in S, apply_order(t, r, reverse), t \notin found
                 PROVE  FALSE
      BY DEF Above
    <3>1. t = r \/ apply_order(r, t, reverse)
      BY <2>2
    <3> QED
      BY <3>1, Strict
  <2>4. Cardinality(Above(S, r, reverse)) <= Cardinality(found)
    BY <2>3, <1>2, FS_Subset
  <2>5. ~(Cardinality(Above(S, r, reverse)) < limit + 1)
    BY <2>2, <1>0 DEF First, Above
  <2>6. Cardinality(Above(S, r, reverse)) \in Nat
    BY AboveFinite
  <2> QED
    BY <2>4, <2>5, <2>6, <1>2
<1>4. ASSUME Cardinality(found) > limit
      PROVE  /\ entries # {}
             /\ extra \in found \ entries
             /\ \A r \in entries : apply_order(r, extra, reverse)
             /\ \A r \in S \ entries : r = extra \/ apply_order(extra, r, reverse)
             /\ \A r \in S \ entries, e \in entries : apply_order(e, r, reverse)
  <2>1. found # {} /\ found \in SUBSET Row
    BY <1>1, <1>2, <1>4, FS_EmptySet
  <2>2. /\ extra \in found
        /\ \A s \in found : s = extra \/ apply_order(s, extra, reverse)
    BY <2>1, <1>2, <1>0, LastIsLast
  <2>3. entries # {}
    <3>1. PICK m \in found : \A t \in found : t = m \/ apply_order(m, t, reverse)
      BY <2>1, <1>2, Foremost
    <3>2. \A t \in found : ~apply_order(t, m, reverse)
      BY <3>1, <2>1, Strict
    <3>3. Cardinality(Above(found, m, reverse)) = 0
      BY <3>2, FS_EmptySet DEF Above
    <3>4. Cardinality(Above(found, m, reverse)) < limit
      BY <3>3
    <3>5. m \in entries
      BY <3>1, <3>4, <1>0 DEF First, Above
    <3> QED
      BY <3>5
  <2>4. extra \notin entries
    <3>0. ~apply_order(extra, extra, reverse)
      BY <2>1, <2>2, Strict
    <3>1. Above(found, extra, reverse) = found \ {extra}
      BY <2>2, <3>0 DEF Above
    <3>2. Cardinality(Above(found, extra, reverse)) = Cardinality(found) - 1
      BY <3>1, <2>2, <1>2, FS_RemoveElement
    <3>3. ~(Cardinality(Above(found, extra, reverse)) < limit)
      BY <3>2, <1>2, <1>4
    <3> QED
      BY <3>3, <1>0 DEF First, Above
  <2>5. \A r \in entries : apply_order(r, extra, reverse)
    BY <1>1, <2>2, <2>4
  <2>6. ASSUME NEW r \in S \ entries, NEW e \in entries
        PROVE  apply_order(e, r, reverse)
    <3>0. r \in Row /\ e \in Row /\ r # e
      BY <1>1, <2>6
    <3> SUFFICES ASSUME apply_order(r, e, reverse)
                 PROVE  FALSE
      BY <3>0, Total
    <3>1. r \in found
      BY <1>1, <1>0, FirstIsInitial
    <3>2. r \in entries
      BY <3>1, <2>1, <1>2, <1>0, FirstIsInitial
    <3> QED
      BY <3>2
  <2>7. ASSUME NEW r \in S \ entries
        PROVE  r = extra \/ apply_order(extra, r, reverse)
    <3> SUFFICES ASSUME apply_order(r, extra, reverse)
                 PROVE  FALSE
      BY <1>1, <2>2, Total
    <3>1. r \in found
      BY <1>1, <2>2, <1>0, FirstIsInitial
    <3> DEFINE A == Above(found, r, reverse)
               B == Above(S, extra, reverse)
    <3>2. /\ IsFiniteSet(A) /\ Cardinality(A) \in Nat
          /\ IsFiniteSet(B) /\ Cardinality(B) \in Nat
      BY <1>2, AboveFinite
    <3>3. ~(Cardinality(A) < limit)
      BY <3>1, <1>0 DEF First, Above
    <3>4. Cardinality(B) < limit + 1
      BY <2>2, <1>0 DEF First, Above
    <3>5. r \notin A
      BY <3>1, <2>1, Strict DEF Above
    <3>6. A \union {r} \in SUBSET B
      <4>1. \A t \in found : apply_order(t, r, reverse) => apply_order(t, extra, reverse)
        BY <1>1, <2>2, <3>1, Transitive
      <4> QED
        BY <1>1, <3>1, <4>1 DEF Above
    <3>7. Cardinality(A \union {r}) = Cardinality(A) + 1
      BY <3>2, <3>5, FS_AddElement
    <3>8. Cardinality(A \union {r}) <= Cardinality(B)
      BY <3>2, <3>6, FS_Subset
    <3> QED
      BY <3>2, <3>3, <3>4, <3>7, <3>8
  <2> QED
    BY <2>2, <2>3, <2>4, <2>5, <2>6, <2>7
<1> QED
  BY <1>1, <1>2, <1>3, <1>4 DEF found, entries, extra

-----------------------------------------------------------------------------
\* A page got without a cursor or with a forward one: its rows and those that the
\* next cursor selects are those the query was for.
LEMMA Forward ==
    ASSUME rows \in SUBSET Row, IsFiniteSet(rows), NEW limit \in Nat,
           NEW cursor, cursor = NoCursor \/ (cursor \in DatetimeIdCursor /\ ~cursor.previous)
    PROVE  LET matching == IF cursor = NoCursor THEN rows
                           ELSE {r \in rows : apply_cursor(cursor, r)}
               new == query_object(cursor, limit)
           IN
           /\ new = Page(new.entries, new.next, new.prev)
           /\ new.next \in DatetimeIdCursor \union {NoCursor}
           /\ new.prev = IF cursor = NoCursor THEN NoCursor ELSE invert(cursor)
           /\ new.entries \subseteq matching
           /\ \A r \in matching : r \in new.entries \/ Selects(new.next, r)
           /\ new.next # NoCursor =>
                \E x \in matching : /\ new.next = from_entry(x, FALSE)
                                   /\ \A r \in new.entries : apply_order(r, x, FALSE)
<1> DEFINE matching == IF cursor = NoCursor THEN rows
                       ELSE {r \in rows : apply_cursor(cursor, r)}
           new == query_object(cursor, limit)
<1>0. /\ matching = IF cursor = NoCursor THEN rows
                    ELSE {r \in rows : apply_cursor(cursor, r)}
      /\ new = query_object(cursor, limit)
  OBVIOUS
<1> SUFFICES /\ new = Page(new.entries, new.next, new.prev)
             /\ new.next \in DatetimeIdCursor \union {NoCursor}
             /\ new.prev = IF cursor = NoCursor THEN NoCursor ELSE invert(cursor)
             /\ new.entries \subseteq matching
             /\ \A r \in matching : r \in new.entries \/ Selects(new.next, r)
             /\ new.next # NoCursor =>
                  \E x \in matching : /\ new.next = from_entry(x, FALSE)
                                     /\ \A r \in new.entries : apply_order(r, x, FALSE)
  BY DEF matching, new
<1> HIDE DEF matching, new
<1> DEFINE found == IF limit = 0 THEN matching ELSE First(matching, limit + 1, FALSE)
           entries == First(found, limit, FALSE)
           extra == Last(found, FALSE)
           more == limit # 0 /\ Cardinality(found) > limit
           prev == IF cursor = NoCursor THEN NoCursor ELSE invert(cursor)
<1>1. /\ matching \in SUBSET Row
      /\ IsFiniteSet(matching)
  <2>1. matching \in SUBSET rows
    BY <1>0
  <2> QED
    BY <2>1, FS_Subset
<1>2. new = Page(IF more THEN entries ELSE found,
                 IF more THEN from_entry(extra, FALSE) ELSE NoCursor, prev)
  <2>1. ~(cursor # NoCursor /\ cursor.previous)
    OBVIOUS
  <2>2. CASE cursor # NoCursor \/ limit # 0
    BY <1>0, <2>1, <2>2 DEF query_object, _paginated_query
  <2>3. CASE cursor = NoCursor /\ limit = 0
    BY <1>0, <2>3 DEF query_object, _full_query
  <2> QED
    BY <2>2, <2>3
<1>3. CASE ~more
  <2>1. found = matching
    <3>1. CASE limit = 0
      BY <3>1
    <3>2. CASE limit # 0
      <4>1. found = First(matching, limit + 1, FALSE)
        BY <3>2
      <4>2. ~(Cardinality(found) > limit)
        BY <1>3, <3>2
      <4> HIDE DEF found
      <4> QED
        BY <1>1, <3>2, <4>1, <4>2, Cut
    <3> QED
      BY <3>1, <3>2
  <2>2. new = Page(matching, NoCursor, prev)
    BY <1>2, <1>3, <2>1
  <2> QED
    BY <1>1, <2>2 DEF Page
<1>4. CASE more
  <2>1. /\ entries \subseteq found
        /\ found \subseteq matching
        /\ extra \in found \ entries
        /\ \A r \in entries : apply_order(r, extra, FALSE)
        /\ \A r \in matching \ entries : r = extra \/ apply_order(extra, r, FALSE)
    <3>1. limit # 0 /\ Cardinality(found) > limit
      BY <1>4
    <3>2. found = First(matching, limit + 1, FALSE)
      BY <3>1
    <3> HIDE DEF found
    <3> QED
      BY <1>1, <3>1, <3>2, Cut
  <2>2. extra \in Row /\ extra \in matching /\ entries \in SUBSET Row
    BY <1>1, <2>1
  <2>3. from_entry(extra, FALSE) \in DatetimeIdCursor
    BY <2>2, EntryFacts
  <2>4. from_entry(extra, FALSE) # NoCursor
    BY <2>3, CursorAssumption
  <2>5. \A r \in matching \ entries : apply_cursor(from_entry(extra, FALSE), r)
    BY <1>1, <2>1, <2>2, EntryFacts
  <2>6. new = Page(entries, from_entry(extra, FALSE), prev)
    BY <1>2, <1>4
  <2>7. /\ new.entries = entries
        /\ new.next = from_entry(extra, FALSE)
    BY <2>6 DEF Page
  <2>8. new.prev = prev
    BY <2>6 DEF Page
  <2>9. \A r \in matching : r \in entries \/ Selects(from_entry(extra, FALSE), r)
    BY <2>4, <2>5 DEF Selects
  <2> QED
    BY <2>1, <2>2, <2>3, <2>6, <2>7, <2>8, <2>9
<1> QED
  BY <1>3, <1>4

\* The same of a page got with a cursor that goes back.
LEMMA Backward ==
    ASSUME rows \in SUBSET Row, IsFiniteSet(rows), NEW limit \in Nat,
           NEW cursor \in DatetimeIdCursor, cursor.previous
    PROVE  LET matching == {r \in rows : apply_cursor(cursor, r)}
               new == query_object(cursor, limit)
           IN
           /\ new = Page(new.entries, new.next, new.prev)
           /\ new.next = invert(cursor)
           /\ new.prev \in DatetimeIdCursor \union {NoCursor}
           /\ new.entries \subseteq matching
           /\ \A r \in matching : r \in new.entries \/ Selects(new.prev, r)
           /\ new.prev # NoCursor =>
                \E x \in matching :
                   /\ new.prev = from_entry(x, TRUE)
                   /\ \A r \in new.entries : r = x \/ apply_order(x, r, FALSE)
<1> DEFINE matching == {r \in rows : apply_cursor(cursor, r)}
           new == query_object(cursor, limit)
<1>0. /\ matching = {r \in rows : apply_cursor(cursor, r)}
      /\ new = query_object(cursor, limit)
  OBVIOUS
<1> SUFFICES /\ new = Page(new.entries, new.next, new.prev)
             /\ new.next = invert(cursor)
             /\ new.prev \in DatetimeIdCursor \union {NoCursor}
             /\ new.entries \subseteq matching
             /\ \A r \in matching : r \in new.entries \/ Selects(new.prev, r)
             /\ new.prev # NoCursor =>
                  \E x \in matching :
                     /\ new.prev = from_entry(x, TRUE)
                     /\ \A r \in new.entries : r = x \/ apply_order(x, r, FALSE)
  BY DEF matching, new
<1> HIDE DEF matching, new
<1> DEFINE found == IF limit = 0 THEN matching ELSE First(matching, limit + 1, TRUE)
           entries == First(found, limit, TRUE)
           last == Last(entries, TRUE)
           more == limit # 0 /\ Cardinality(found) > limit
<1>1. /\ matching \in SUBSET Row
      /\ IsFiniteSet(matching)
  <2>1. matching \in SUBSET rows
    BY <1>0
  <2> QED
    BY <2>1, FS_Subset
<1>2. new = Page(IF more THEN entries ELSE found, invert(cursor),
                 IF more THEN from_entry(last, TRUE) ELSE NoCursor)
  <2>1. cursor # NoCursor
    BY CursorAssumption
  <2> QED
    BY <1>0, <2>1 DEF query_object, _paginated_query
<1>3. CASE ~more
  <2>1. found = matching
    <3>1. CASE limit = 0
      BY <3>1
    <3>2. CASE limit # 0
      <4>1. found = First(matching, limit + 1, TRUE)
        BY <3>2
      <4>2. ~(Cardinality(found) > limit)
        BY <1>3, <3>2
      <4> HIDE DEF found
      <4> QED
        BY <1>1, <3>2, <4>1, <4>2, Cut
    <3> QED
      BY <3>1, <3>2
  <2>2. new = Page(matching, invert(cursor), NoCursor)
    BY <1>2, <1>3, <2>1
  <2> QED
    BY <1>1, <2>2 DEF Page
<1>4. CASE more
  <2>1. /\ entries \subseteq found
        /\ found \subseteq matching
        /\ IsFiniteSet(found)
        /\ entries # {}
        /\ \A r \in matching \ entries, e \in entries : apply_order(e, r, TRUE)
    <3>1. limit # 0 /\ Cardinality(found) > limit
      BY <1>4
    <3>2. found = First(matching, limit + 1, TRUE)
      BY <3>1
    <3> HIDE DEF found
    <3> QED
      BY <1>1, <3>1, <3>2, Cut
  <2>2. entries \in SUBSET Row /\ IsFiniteSet(entries)
    BY <1>1, <2>1, FS_Subset
  <2>3. /\ last \in entries
        /\ \A r \in entries : r = last \/ apply_order(r, last, TRUE)
    BY <2>1, <2>2, LastIsLast
  <2>4. last \in Row /\ last \in matching
    BY <2>1, <2>2, <2>3
  <2>5. from_entry(last, TRUE) \in DatetimeIdCursor
    BY <2>4, EntryFacts
  <2>6. from_entry(last, TRUE) # NoCursor
    BY <2>5, CursorAssumption
  <2>7. \A r \in entries : r = last \/ apply_order(last, r, FALSE)
    BY <2>2, <2>3, <2>4, Reversed
  <2>8. \A r \in matching \ entries : apply_order(r, last, FALSE)
    BY <1>1, <2>1, <2>3, <2>4, Reversed
  <2>9. \A r \in matching : r \in entries \/ Selects(from_entry(last, TRUE), r)
    BY <1>1, <2>4, <2>6, <2>8, EntryFacts DEF Selects
  <2>10. new = Page(entries, invert(cursor), from_entry(last, TRUE))
    BY <1>2, <1>4
  <2>11. /\ new.entries = entries
         /\ new.prev = from_entry(last, TRUE)
    BY <2>10 DEF Page
  <2>12. new.next = invert(cursor)
    BY <2>10 DEF Page
  <2> QED
    BY <2>1, <2>4, <2>5, <2>7, <2>9, <2>10, <2>11, <2>12
<1> QED
  BY <1>3, <1>4

-----------------------------------------------------------------------------
\* What is true of every page that a query returns: its cursors are apart, and
\* with its own rows they make up all that there are.
Sound(p) ==
    /\ p \in Pages
    /\ p.entries \subseteq rows
    /\ Apart(p)
    /\ Directed(p)
    /\ \A r \in rows : r \in p.entries \/ Selects(p.next, r) \/ Selects(p.prev, r)

\* A query without a cursor or with a forward one returns such a page.  The rows
\* the cursor selects are on it or after it.
LEMMA ForwardSound ==
    ASSUME rows \in SUBSET Row, IsFiniteSet(rows), NEW limit \in Nat,
           NEW cursor, cursor = NoCursor \/ (cursor \in DatetimeIdCursor /\ ~cursor.previous),
           NEW new, new = query_object(cursor, limit)
    PROVE  /\ Sound(new)
           /\ new.prev = IF cursor = NoCursor THEN NoCursor ELSE invert(cursor)
           /\ \A r \in rows : cursor = NoCursor \/ Selects(cursor, r)
                                => r \in new.entries \/ Selects(new.next, r)
           /\ \A r \in new.entries : cursor = NoCursor \/ Selects(cursor, r)
<1> DEFINE matching == IF cursor = NoCursor THEN rows
                       ELSE {r \in rows : apply_cursor(cursor, r)}
<1>1. matching = IF cursor = NoCursor THEN rows
                 ELSE {r \in rows : apply_cursor(cursor, r)}
  OBVIOUS
<1>2. /\ new = Page(new.entries, new.next, new.prev)
      /\ new.next \in DatetimeIdCursor \union {NoCursor}
      /\ new.prev = IF cursor = NoCursor THEN NoCursor ELSE invert(cursor)
      /\ new.entries \subseteq matching
      /\ \A r \in matching : r \in new.entries \/ Selects(new.next, r)
      /\ new.next # NoCursor =>
           \E x \in matching : /\ new.next = from_entry(x, FALSE)
                              /\ \A r \in new.entries : apply_order(r, x, FALSE)
  BY Forward
<1> HIDE DEF matching
<1>3. matching \subseteq rows
  BY <1>1
<1>4. \A r \in rows : r \in matching <=> cursor = NoCursor \/ Selects(cursor, r)
  BY <1>1 DEF Selects
<1>5. new.prev \in DatetimeIdCursor \union {NoCursor}
  BY <1>2, DatetimeIdCursorInverts
<1>6. new \in Pages
  <2>1. new.entries \in SUBSET Row
    BY <1>2, <1>3
  <2>2. Page(new.entries, new.next, new.prev) \in Pages
    BY <1>2, <1>5, <2>1 DEF Page, Pages
  <2> QED
    BY <1>2, <2>2
<1>7. \A r \in Row : Selects(new.prev, r) <=>
                       cursor # NoCursor /\ ~apply_cursor(cursor, r)
  BY <1>2, InverseSelects DEF Selects
<1>8. Directed(new)
  <2>1. ASSUME new.next # NoCursor
        PROVE  ~new.next.previous
    BY <1>2, <1>3, <2>1, EntryFacts
  <2>2. ASSUME new.prev # NoCursor
        PROVE  new.prev.previous
    BY <1>2, <2>2, DatetimeIdCursorInverts
  <2> QED
    BY <2>1, <2>2 DEF Directed
<1>9. Apart(new)
  <2>1. ASSUME NEW r \in Row, Selects(new.next, r), Selects(new.prev, r)
        PROVE  FALSE
    <3>1. PICK x \in matching : new.next = from_entry(x, FALSE)
      BY <1>2, <2>1 DEF Selects
    <3>2. x \in Row /\ x \in matching /\ x \in rows
      BY <1>3
    <3>3. r = x \/ apply_order(x, r, FALSE)
      BY <2>1, <3>1, <3>2, EntryFacts DEF Selects
    <3>4. cursor # NoCursor /\ ~apply_cursor(cursor, r)
      BY <1>7, <2>1
    <3>5. apply_cursor(cursor, x)
      BY <1>4, <3>2, <3>4 DEF Selects
    <3>6. apply_order(r, x, FALSE)
      BY <3>2, <3>4, <3>5, CursorFacts
    <3> QED
      BY <3>2, <3>3, <3>6, Strict
  <2>2. ASSUME NEW e \in new.entries, NEW s \in Row, Selects(new.next, s)
        PROVE  apply_order(e, s, FALSE)
    <3>1. PICK x \in matching : /\ new.next = from_entry(x, FALSE)
                               /\ \A r \in new.entries : apply_order(r, x, FALSE)
      BY <1>2, <2>2 DEF Selects
    <3>2. x \in Row /\ e \in Row
      BY <1>2, <1>3
    <3>3. s = x \/ apply_order(x, s, FALSE)
      BY <2>2, <3>1, <3>2, EntryFacts DEF Selects
    <3>4. apply_order(e, x, FALSE)
      BY <3>1
    <3> QED
      BY <3>2, <3>3, <3>4, Transitive
  <2>3. ASSUME NEW e \in new.entries, NEW s \in Row, Selects(new.prev, s)
        PROVE  apply_order(s, e, FALSE)
    <3>1. cursor # NoCursor /\ ~apply_cursor(cursor, s)
      BY <1>7, <2>3
    <3>2. e \in Row /\ apply_cursor(cursor, e)
      BY <1>2, <1>3, <1>4, <3>1 DEF Selects
    <3> QED
      BY <3>1, <3>2, CursorFacts
  <2> QED
    BY <2>1, <2>2, <2>3 DEF Apart
<1>10. \A r \in rows : r \in new.entries \/ Selects(new.next, r) \/ Selects(new.prev, r)
  BY <1>2, <1>4, <1>7 DEF Selects
<1>11. new.entries \subseteq rows
  BY <1>2, <1>3
<1>12. Sound(new)
  BY <1>6, <1>8, <1>9, <1>10, <1>11 DEF Sound
<1> QED
  BY <1>2, <1>4, <1>11, <1>12

\* So does a query with a cursor that goes back.
LEMMA BackwardSound ==
    ASSUME rows \in SUBSET Row, IsFiniteSet(rows), NEW limit \in Nat,
           NEW cursor \in DatetimeIdCursor, cursor.previous,
           NEW new, new = query_object(cursor, limit)
    PROVE  /\ Sound(new)
           /\ new.next = invert(cursor)
           /\ \A r \in rows : Selects(cursor, r)
                                => r \in new.entries \/ Selects(new.prev, r)
           /\ \A r \in new.entries : Selects(cursor, r)
<1> DEFINE matching == {r \in rows : apply_cursor(cursor, r)}
<1>1. matching = {r \in rows : apply_cursor(cursor, r)}
  OBVIOUS
<1>2. /\ new = Page(new.entries, new.next, new.prev)
      /\ new.next = invert(cursor)
      /\ new.prev \in DatetimeIdCursor \union {NoCursor}
      /\ new.entries \subseteq matching
      /\ \A r \in matching : r \in new.entries \/ Selects(new.prev, r)
      /\ new.prev # NoCursor =>
           \E x \in matching :
              /\ new.prev = from_entry(x, TRUE)
              /\ \A r \in new.entries : r = x \/ apply_order(x, r, FALSE)
  BY Backward
<1> HIDE DEF matching
<1>3. matching \subseteq rows /\ cursor # NoCursor
  BY <1>1, CursorAssumption
<1>4. \A r \in rows : r \in matching <=> Selects(cursor, r)
  BY <1>1, <1>3 DEF Selects
<1>5. new.next \in DatetimeIdCursor /\ ~new.next.previous
  BY <1>2, DatetimeIdCursorInverts
<1>6. new \in Pages
  <2>1. new.entries \in SUBSET Row
    BY <1>2, <1>3
  <2>2. Page(new.entries, new.next, new.prev) \in Pages
    BY <1>2, <1>5, <2>1 DEF Page, Pages
  <2> QED
    BY <1>2, <2>2
<1>7. \A r \in Row : Selects(new.next, r) <=> ~apply_cursor(cursor, r)
  BY <1>2, <1>3, InverseSelects DEF Selects
<1>8. Directed(new)
  <2>1. ASSUME new.prev # NoCursor
        PROVE  new.prev.previous
    BY <1>2, <1>3, <2>1, EntryFacts
  <2> QED
    BY <1>5, <2>1 DEF Directed
<1>9. Apart(new)
  <2>1. ASSUME NEW r \in Row, Selects(new.next, r), Selects(new.prev, r)
        PROVE  FALSE
    <3>1. PICK x \in matching : new.prev = from_entry(x, TRUE)
      BY <1>2, <2>1 DEF Selects
    <3>2. x \in Row /\ apply_cursor(cursor, x)
      BY <1>1, <1>3
    <3>3. apply_order(r, x, FALSE)
      BY <2>1, <3>1, <3>2, EntryFacts DEF Selects
    <3>4. ~apply_cursor(cursor, r)
      BY <1>7, <2>1
    <3>5. apply_order(x, r, FALSE)
      BY <3>2, <3>4, CursorFacts
    <3> QED
      BY <3>2, <3>3, <3>5, Strict
  <2>2. ASSUME NEW e \in new.entries, NEW s \in Row, Selects(new.next, s)
        PROVE  apply_order(e, s, FALSE)
    <3>1. e \in Row /\ apply_cursor(cursor, e) /\ ~apply_cursor(cursor, s)
      BY <1>1, <1>2, <1>3, <1>7, <2>2
    <3> QED
      BY <3>1, CursorFacts
  <2>3. ASSUME NEW e \in new.entries, NEW s \in Row, Selects(new.prev, s)
        PROVE  apply_order(s, e, FALSE)
    <3>1. PICK x \in matching :
             /\ new.prev = from_entry(x, TRUE)
             /\ \A r \in new.entries : r = x \/ apply_order(x, r, FALSE)
      BY <1>2, <2>3 DEF Selects
    <3>2. x \in Row /\ e \in Row
      BY <1>2, <1>3
    <3>3. apply_order(s, x, FALSE)
      BY <2>3, <3>1, <3>2, EntryFacts DEF Selects
    <3>4. e = x \/ apply_order(x, e, FALSE)
      BY <3>1
    <3> QED
      BY <3>2, <3>3, <3>4, Transitive
  <2> QED
    BY <2>1, <2>2, <2>3 DEF Apart
<1>10. \A r \in rows : r \in new.entries \/ Selects(new.next, r) \/ Selects(new.prev, r)
  BY <1>2, <1>3, <1>4, <1>7 DEF Selects
<1>11. new.entries \subseteq rows
  BY <1>2, <1>3
<1>12. Sound(new)
  BY <1>6, <1>8, <1>9, <1>10, <1>11 DEF Sound
<1> QED
  BY <1>2, <1>4, <1>11, <1>12

-----------------------------------------------------------------------------
\* The two walks after a page is shown, with a history that is complete so far.
LEMMA PageShown ==
    ASSUME IInv, NEW new, Sound(new),
           NEW start \in Walks, start.rows \subseteq rows,
           \A r \in start.rows :
              r \in start.seen \/ r \in new.entries \/ Selects(new.next, r),
           NEW end \in Walks, end.rows \subseteq rows,
           \A r \in end.rows :
              r \in end.seen \/ r \in new.entries \/ Selects(new.prev, r),
           Show(new, start, end)
    PROVE  IInv'
<1>1. /\ page' = new
      /\ fromStart' = Walked(start, new, new.prev = NoCursor)
      /\ fromEnd' = Walked(end, new, new.next = NoCursor)
      /\ rows' = rows
      /\ inserted' = inserted
  BY DEF Show
<1>2. /\ rows \subseteq Row
      /\ IsFiniteSet(rows)
  BY DEF IInv, PaginationTypeOK, Staying
<1>3. /\ new.entries \subseteq rows
      /\ \A r \in rows : \/ r \in new.entries
                         \/ Selects(new.next, r)
                         \/ Selects(new.prev, r)
  BY DEF Sound
<1>4. \A r : ~Selects(NoCursor, r)
  BY DEF Selects
<1>5. /\ fromStart' \in Walks
      /\ fromStart'.rows \subseteq rows
      /\ \A r \in fromStart'.rows : r \in fromStart'.seen \/ Selects(new.next, r)
  <2>1. CASE new.prev = NoCursor
    <3>1. fromStart' = [rows |-> rows, seen |-> new.entries]
      BY <1>1, <2>1 DEF Walked
    <3>2. fromStart'.rows = rows /\ fromStart'.seen = new.entries
      BY <3>1
    <3>3. fromStart' \in Walks
      BY <3>1, <1>2, <1>3 DEF Walks
    <3> QED
      BY <3>2, <3>3, <2>1, <1>3, <1>4
  <2>2. CASE new.prev # NoCursor
    <3>1. fromStart' = [rows |-> start.rows, seen |-> start.seen \union new.entries]
      BY <1>1, <2>2 DEF Walked, Walks
    <3>2. fromStart'.rows = start.rows /\ fromStart'.seen = start.seen \union new.entries
      BY <3>1
    <3>3. fromStart' \in Walks
      BY <3>1, <1>2, <1>3 DEF Walks
    <3> QED
      BY <3>2, <3>3
  <2> QED
    BY <2>1, <2>2
<1>6. /\ fromEnd' \in Walks
      /\ fromEnd'.rows \subseteq rows
      /\ \A r \in fromEnd'.rows : r \in fromEnd'.seen \/ Selects(new.prev, r)
  <2>1. CASE new.next = NoCursor
    <3>1. fromEnd' = [rows |-> rows, seen |-> new.entries]
      BY <1>1, <2>1 DEF Walked
    <3>2. fromEnd'.rows = rows /\ fromEnd'.seen = new.entries
      BY <3>1
    <3>3. fromEnd' \in Walks
      BY <3>1, <1>2, <1>3 DEF Walks
    <3> QED
      BY <3>2, <3>3, <2>1, <1>3, <1>4
  <2>2. CASE new.next # NoCursor
    <3>1. fromEnd' = [rows |-> end.rows, seen |-> end.seen \union new.entries]
      BY <1>1, <2>2 DEF Walked, Walks
    <3>2. fromEnd'.rows = end.rows /\ fromEnd'.seen = end.seen \union new.entries
      BY <3>1
    <3>3. fromEnd' \in Walks
      BY <3>1, <1>2, <1>3 DEF Walks
    <3> QED
      BY <3>2, <3>3
  <2> QED
    BY <2>1, <2>2
<1>7. PaginationTypeOK'
  BY <1>1, <1>5, <1>6 DEF IInv, PaginationTypeOK, Sound, Pages, Walks
<1>8. Apart(page)' /\ Directed(page)'
  <2>1. Apart(new) /\ Directed(new)
    BY DEF Sound
  <2> QED
    BY <2>1, <1>1 DEF Apart, Directed, Selects, apply_cursor, apply_order
<1>9. ToCome'
  <2>1. page'.next = new.next /\ page'.prev = new.prev
    BY <1>1
  <2>2. /\ \A r \in fromStart'.rows : r \in fromStart'.seen \/ Selects(page'.next, r)
        /\ \A r \in fromEnd'.rows : r \in fromEnd'.seen \/ Selects(page'.prev, r)
    BY <2>1, <1>5, <1>6
  <2> QED
    BY <2>2 DEF ToCome, Selects, apply_cursor
<1>10. Staying'
  BY <1>1, <1>2, <1>5, <1>6 DEF Staying
<1> QED
  BY <1>7, <1>8, <1>9, <1>10 DEF IInv

\* What the invariant says to a step that follows a link.
LEMMA State ==
    ASSUME IInv, NEW limit \in 0..MaxLimit
    PROVE  /\ rows \in SUBSET Row /\ IsFiniteSet(rows) /\ limit \in Nat
           /\ page \in Pages /\ fromStart \in Walks /\ fromEnd \in Walks
           /\ fromStart.rows \subseteq rows /\ fromEnd.rows \subseteq rows
           /\ page.next # NoCursor =>
                page.next \in DatetimeIdCursor /\ ~page.next.previous
           /\ page.prev # NoCursor =>
                page.prev \in DatetimeIdCursor /\ page.prev.previous
<1>1. page \in Pages /\ fromStart \in Walks /\ fromEnd \in Walks
  BY DEF IInv, PaginationTypeOK, Pages, Walks
<1>2. /\ page.next \in DatetimeIdCursor \union {NoCursor}
      /\ page.prev \in DatetimeIdCursor \union {NoCursor}
  BY <1>1 DEF Pages
<1> QED
  BY <1>1, <1>2, BoundAssumption DEF IInv, PaginationTypeOK, Directed, Staying

\* Each step keeps the invariant; those that show a page show a sound one.
LEMMA FirstUrlKeeps ==
    ASSUME IInv, NEW limit \in 0..MaxLimit, first_url(limit)
    PROVE  IInv' /\ Sound(page')
<1> DEFINE new == query_object(NoCursor, limit)
<1>1. Sound(new)
  BY State, ForwardSound
<1>2. NoWalk \in Walks /\ NoWalk.rows = {}
  BY DEF NoWalk, Walks
<1>3. Show(new, NoWalk, NoWalk)
  BY DEF first_url
<1> HIDE DEF new
<1>4. IInv'
  BY <1>1, <1>2, <1>3, PageShown
<1> QED
  BY <1>1, <1>3, <1>4 DEF Show

LEMMA NextUrlKeeps ==
    ASSUME IInv, NEW limit \in 0..MaxLimit, next_url(limit)
    PROVE  /\ IInv' /\ Sound(page')
           /\ \A r \in page'.entries : Selects(page.next, r)
<1> DEFINE new == query_object(page.next, limit)
<1>1. /\ page.next \in DatetimeIdCursor /\ ~page.next.previous
      /\ page.next # NoCursor
  BY State DEF next_url
<1>2. /\ Sound(new)
      /\ new.prev = invert(page.next)
      /\ \A r \in rows : Selects(page.next, r)
                           => r \in new.entries \/ Selects(new.next, r)
      /\ \A r \in new.entries : Selects(page.next, r)
  BY State, <1>1, ForwardSound
<1>3. Show(new, fromStart, fromEnd)
  BY DEF next_url
<1> HIDE DEF new
<1>4. \A r \in fromStart.rows :
         r \in fromStart.seen \/ r \in new.entries \/ Selects(new.next, r)
  BY <1>2 DEF IInv, ToCome, Staying
<1>5. \A r \in fromEnd.rows :
         r \in fromEnd.seen \/ r \in new.entries \/ Selects(new.prev, r)
  <2> SUFFICES ASSUME NEW r \in fromEnd.rows, Selects(page.prev, r)
               PROVE  Selects(new.prev, r)
    BY DEF IInv, ToCome
  <2>1. r \in Row
    BY State
  <2>2. ~Selects(page.next, r)
    BY <2>1 DEF IInv, Apart
  <2> QED
    BY <1>1, <1>2, <2>1, <2>2, InverseSelects DEF Selects
<1>6. IInv'
  BY <1>2, <1>3, <1>4, <1>5, State, PageShown
<1> QED
  BY <1>2, <1>3, <1>6 DEF Show

LEMMA PrevUrlKeeps ==
    ASSUME IInv, NEW limit \in 0..MaxLimit, prev_url(limit)
    PROVE  /\ IInv' /\ Sound(page')
           /\ \A r \in page'.entries : Selects(page.prev, r)
<1> DEFINE new == query_object(page.prev, limit)
<1>1. /\ page.prev \in DatetimeIdCursor /\ page.prev.previous
      /\ page.prev # NoCursor
  BY State DEF prev_url
<1>2. /\ Sound(new)
      /\ new.next = invert(page.prev)
      /\ \A r \in rows : Selects(page.prev, r)
                           => r \in new.entries \/ Selects(new.prev, r)
      /\ \A r \in new.entries : Selects(page.prev, r)
  BY State, <1>1, BackwardSound
<1>3. Show(new, fromStart, fromEnd)
  BY DEF prev_url
<1> HIDE DEF new
<1>4. \A r \in fromEnd.rows :
         r \in fromEnd.seen \/ r \in new.entries \/ Selects(new.prev, r)
  BY <1>2 DEF IInv, ToCome, Staying
<1>5. \A r \in fromStart.rows :
         r \in fromStart.seen \/ r \in new.entries \/ Selects(new.next, r)
  <2> SUFFICES ASSUME NEW r \in fromStart.rows, Selects(page.next, r)
               PROVE  Selects(new.next, r)
    BY DEF IInv, ToCome
  <2>1. r \in Row
    BY State
  <2>2. ~Selects(page.prev, r)
    BY <2>1 DEF IInv, Apart
  <2> QED
    BY <1>1, <1>2, <2>1, <2>2, InverseSelects, DatetimeIdCursorInverts DEF Selects
<1>6. IInv'
  BY <1>2, <1>3, <1>4, <1>5, State, PageShown
<1> QED
  BY <1>2, <1>3, <1>6 DEF Show

LEMMA InsertKeeps ==
    ASSUME IInv, NEW time \in Times, Insert(time)
    PROVE  IInv'
<1> DEFINE row == [time |-> time, id |-> inserted + 1]
<1>1. /\ inserted < MaxId
      /\ inserted' = inserted + 1
      /\ rows' = rows \union {row}
      /\ page' = page /\ fromStart' = fromStart /\ fromEnd' = fromEnd
  BY DEF Insert
<1>2. inserted \in 0..MaxId /\ inserted' \in 1..MaxId
  BY <1>1, BoundAssumption DEF IInv, PaginationTypeOK
<1>3. row \in Row /\ row.id = inserted'
  BY <1>1, <1>2 DEF Row
<1> HIDE DEF row
<1>4. \A r \in rows' : r.id <= inserted'
  <2> SUFFICES ASSUME NEW r \in rows
               PROVE  r.id <= inserted'
    BY <1>1, <1>2, <1>3
  <2>1. r.id <= inserted /\ r \in Row
    BY DEF IInv, PaginationTypeOK
  <2> QED
    BY <1>1, <1>2, <2>1, RowType
<1>5. PaginationTypeOK'
  BY <1>1, <1>2, <1>3, <1>4 DEF IInv, PaginationTypeOK
<1>6. Apart(page)' /\ Directed(page)'
  BY <1>1 DEF IInv, Apart, Directed, Selects, apply_cursor, apply_order
<1>7. ToCome'
  BY <1>1 DEF IInv, ToCome, Selects, apply_cursor
<1>8. Staying'
  BY <1>1, FS_AddElement DEF IInv, Staying
<1> QED
  BY <1>5, <1>6, <1>7, <1>8 DEF IInv

LEMMA DeleteKeeps ==
    ASSUME IInv, NEW row \in rows, Delete(row)
    PROVE  IInv'
<1>1. /\ fromStart \in Walks /\ fromEnd \in Walks
  BY DEF IInv, PaginationTypeOK, Walks
<1>2. /\ rows' = rows \ {row}
      /\ inserted' = inserted
      /\ page' = page
      /\ fromStart' = [rows |-> fromStart.rows \ {row}, seen |-> fromStart.seen]
      /\ fromEnd' = [rows |-> fromEnd.rows \ {row}, seen |-> fromEnd.seen]
  BY <1>1 DEF Delete, Walks
<1>3. /\ fromStart'.rows = fromStart.rows \ {row}
      /\ fromStart'.seen = fromStart.seen
      /\ fromEnd'.rows = fromEnd.rows \ {row}
      /\ fromEnd'.seen = fromEnd.seen
  BY <1>2
<1>4. fromStart' \in Walks /\ fromEnd' \in Walks
  BY <1>1, <1>2 DEF Walks
<1>5. PaginationTypeOK'
  BY <1>2, <1>4 DEF IInv, PaginationTypeOK, Walks
<1>6. Apart(page)' /\ Directed(page)'
  BY <1>2 DEF IInv, Apart, Directed, Selects, apply_cursor, apply_order
<1>7. ToCome'
  BY <1>2, <1>3 DEF IInv, ToCome, Selects, apply_cursor
<1>8. Staying'
  <2>1. rows' \in SUBSET rows
    BY <1>2
  <2>2. IsFiniteSet(rows')
    BY <2>1, FS_Subset DEF IInv, Staying
  <2> QED
    BY <1>2, <1>3, <2>2 DEF IInv, Staying
<1> QED
  BY <1>5, <1>6, <1>7, <1>8 DEF IInv

LEMMA InitIInv == PaginationInit => IInv
<1> SUFFICES ASSUME PaginationInit PROVE IInv
  OBVIOUS
<1>1. /\ rows = {} /\ inserted = 0
      /\ page = [entries |-> {}, next |-> NoCursor, prev |-> NoCursor]
      /\ fromStart = [rows |-> {}, seen |-> {}]
      /\ fromEnd = [rows |-> {}, seen |-> {}]
  BY DEF PaginationInit, Page, NoWalk
<1>2. PaginationTypeOK
  BY <1>1, BoundAssumption DEF PaginationTypeOK
<1>3. Apart(page) /\ Directed(page) /\ ToCome /\ Staying
  BY <1>1, FS_EmptySet DEF Apart, Directed, ToCome, Staying, Selects
<1> QED
  BY <1>2, <1>3 DEF IInv

LEMMA NextKeeps == IInv /\ [PaginationNext]_pagination_vars => IInv'
<1> SUFFICES ASSUME IInv, [PaginationNext]_pagination_vars
             PROVE  IInv'
  OBVIOUS
<1>1. ASSUME NEW limit \in 0..MaxLimit, first_url(limit)
      PROVE  IInv'
  BY <1>1, FirstUrlKeeps
<1>2. ASSUME NEW limit \in 0..MaxLimit, next_url(limit)
      PROVE  IInv'
  BY <1>2, NextUrlKeeps
<1>3. ASSUME NEW limit \in 0..MaxLimit, prev_url(limit)
      PROVE  IInv'
  BY <1>3, PrevUrlKeeps
<1>4. ASSUME NEW time \in Times, Insert(time)
      PROVE  IInv'
  BY <1>4, InsertKeeps
<1>5. ASSUME NEW row \in rows, Delete(row)
      PROVE  IInv'
  BY <1>5, DeleteKeeps
<1>6. CASE UNCHANGED pagination_vars
  BY <1>6 DEF pagination_vars, IInv, PaginationTypeOK, Apart, Directed, ToCome, Staying, Selects,
              apply_cursor, apply_order
<1> QED
  BY <1>1, <1>2, <1>3, <1>4, <1>5, <1>6 DEF PaginationNext

\* The inductive invariant holds of every behaviour.
THEOREM Invariance == PaginationSpec => []IInv
<1>1. PaginationInit => IInv
  BY InitIInv
<1>2. IInv /\ [PaginationNext]_pagination_vars => IInv'
  BY NextKeeps
<1> QED
  BY <1>1, <1>2, PTL DEF PaginationSpec

-----------------------------------------------------------------------------
\* Every page that is shown has rows and cursors of the right kinds, and so have
\* the histories of the two walks.
THEOREM TypeCorrect == PaginationSpec => []PaginationTypeOK
<1>1. IInv => PaginationTypeOK
  BY DEF IInv
<1> QED
  BY <1>1, Invariance, PTL

\* Following the links until query_object returns no next cursor misses no row
\* that was there from the first page on, for any limits and any changes.
THEOREM WalksToTheEnd == PaginationSpec => []WalkToEndIsComplete
<1>1. IInv => WalkToEndIsComplete
  BY DEF IInv, ToCome, WalkToEndIsComplete, Selects
<1> QED
  BY <1>1, Invariance, PTL

\* Nor does going back from a last page until there is no previous cursor.
THEOREM WalksToTheStart == PaginationSpec => []WalkToStartIsComplete
<1>1. IInv => WalkToStartIsComplete
  BY DEF IInv, ToCome, WalkToStartIsComplete, Selects
<1> QED
  BY <1>1, Invariance, PTL

\* The page after a page shows only what comes after it, and the page before
\* only what comes before it: the rows that _paginated_query adds to find out
\* whether there is more are never shown twice.
THEOREM NoOverlap == PaginationSpec => PagesDoNotOverlap
<1> DEFINE Step == \A limit \in 0..MaxLimit :
             /\ next_url(limit) =>
                  \A r \in page.entries, s \in page'.entries : apply_order(r, s, FALSE)
             /\ prev_url(limit) =>
                  \A r \in page.entries, s \in page'.entries : apply_order(s, r, FALSE)
<1>1. IInv /\ [PaginationNext]_pagination_vars => [Step]_pagination_vars
  <2> SUFFICES ASSUME IInv, NEW limit \in 0..MaxLimit,
                      NEW r \in page.entries, NEW s \in page'.entries
               PROVE  /\ next_url(limit) => apply_order(r, s, FALSE)
                      /\ prev_url(limit) => apply_order(s, r, FALSE)
    OBVIOUS
  <2>1. ASSUME next_url(limit)
        PROVE  apply_order(r, s, FALSE)
    <3>1. s \in Row /\ Selects(page.next, s)
      BY <2>1, NextUrlKeeps DEF Sound, Pages
    <3> QED
      BY <3>1 DEF IInv, Apart
  <2>2. ASSUME prev_url(limit)
        PROVE  apply_order(s, r, FALSE)
    <3>1. s \in Row /\ Selects(page.prev, s)
      BY <2>2, PrevUrlKeeps DEF Sound, Pages
    <3> QED
      BY <3>1 DEF IInv, Apart
  <2> QED
    BY <2>1, <2>2
<1> QED
  BY <1>1, Invariance, PTL DEF PaginationSpec, PagesDoNotOverlap

\* The entries that query_object returns and the rows that its two cursors
\* select are a partition of the rows.
THEOREM Splits == PaginationSpec => PageSplitsRows
<1> DEFINE places(r) == {p \in {"here", "next", "prev"} :
                            \/ p = "here" /\ r \in page'.entries
                            \/ p = "next" /\ Selects(page'.next, r)
                            \/ p = "prev" /\ Selects(page'.prev, r)}
           Step == page' # page => \A r \in rows : Cardinality(places(r)) = 1
<1>1. IInv /\ [PaginationNext]_pagination_vars => [Step]_pagination_vars
  <2> SUFFICES ASSUME IInv, PaginationNext, page' # page, NEW r \in rows
               PROVE  Cardinality(places(r)) = 1
    OBVIOUS
  <2>1. Sound(page')
    BY FirstUrlKeeps, NextUrlKeeps, PrevUrlKeeps DEF PaginationNext, Insert, Delete
  <2>2. r \in Row
    BY DEF IInv, PaginationTypeOK
  <2>3. ~apply_order(r, r, FALSE)
    BY <2>2, Strict
  <2>4. /\ r \in page'.entries \/ Selects(page'.next, r) \/ Selects(page'.prev, r)
        /\ ~(Selects(page'.next, r) /\ Selects(page'.prev, r))
        /\ ~(r \in page'.entries /\ Selects(page'.next, r))
        /\ ~(r \in page'.entries /\ Selects(page'.prev, r))
    BY <2>1, <2>2, <2>3 DEF Sound, Apart
  <2>5. \E p \in {"here", "next", "prev"} : places(r) = {p}
    <3>1. CASE r \in page'.entries
      <4>1. places(r) = {"here"}
        BY <2>4, <3>1
      <4> QED
        BY <4>1
    <3>2. CASE Selects(page'.next, r)
      <4>1. places(r) = {"next"}
        BY <2>4, <3>2
      <4> QED
        BY <4>1
    <3>3. CASE Selects(page'.prev, r)
      <4>1. places(r) = {"prev"}
        BY <2>4, <3>3
      <4> QED
        BY <4>1
    <3> QED
      BY <2>4, <3>1, <3>2, <3>3
  <2> HIDE DEF places
  <2> QED
    BY <2>5, FS_Singleton
<1> QED
  BY <1>1, Invariance, PTL DEF PaginationSpec, PageSplitsRows
=============================================================================
