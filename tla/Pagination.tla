----------------------------- MODULE Pagination -----------------------------
(***************************************************************************)
(* Keyset pagination (src/safir/database/_pagination.py): a query returns  *)
(* a page of the rows that match a statement, with cursors for the page    *)
(* after it and the page before it.  A client follows the links of a page  *)
(* while rows are inserted and deleted between its requests.               *)
(*                                                                         *)
(* A row is its time and its identifier, the columns of DatetimeIdCursor.  *)
(* A page is the set of its rows: they are shown newest first, whichever   *)
(* way they were found.  The count of all rows is left out, and so is the  *)
(* text of cursors in URLs, from which each is read back as it was.        *)
(***************************************************************************)
EXTENDS Integers, FiniteSets

CONSTANTS
    Times,      \* creation times
    NoCursor,   \* stands for None
    MaxId,      \* bound: rows inserted
    MaxLimit    \* bound: largest limit of a request; 0 stands for none

ASSUME TimeAssumption == Times \subseteq Int
ASSUME BoundAssumption == MaxId \in Nat /\ MaxLimit \in Nat

Row == [time : Times, id : 1..MaxId]
DatetimeIdCursor == [time : Times, id : 1..MaxId, previous : BOOLEAN]

ASSUME CursorAssumption == NoCursor \notin DatetimeIdCursor

VARIABLES
    rows,       \* what matches the statement
    inserted,   \* identifiers given out
    page,       \* the page that the client has: a PaginatedList
    fromStart,  \* history of the walk since a page with none before it
    fromEnd     \* history of the walk since a page with none after it

pagination_vars == <<rows, inserted, page, fromStart, fromEnd>>

-----------------------------------------------------------------------------
\* Cursors

from_entry(row, reverse) ==
    [time |-> row.time, id |-> row.id, previous |-> reverse]

\* Mutant: the direction is not changed.
InvertNothing(cursor) == cursor

invert(cursor) == [cursor EXCEPT !.previous = ~@]

\* Mutant: rows of the cursor's time are not told apart.
SelectByTime(cursor, row) ==
    IF cursor.previous THEN row.time > cursor.time ELSE row.time <= cursor.time

\* Mutant: a forward cursor does not select the row it was made from.
SelectAfter(cursor, row) ==
    IF cursor.previous
      THEN row.time > cursor.time \/ (row.time = cursor.time /\ row.id > cursor.id)
      ELSE row.time < cursor.time \/ (row.time = cursor.time /\ row.id < cursor.id)

\* The rows a cursor selects: those before it, or from it on.
apply_cursor(cursor, row) ==
    IF cursor.previous
      THEN \/ row.time > cursor.time
           \/ row.time = cursor.time /\ row.id > cursor.id
      ELSE \/ row.time < cursor.time
           \/ row.time = cursor.time /\ row.id <= cursor.id

\* The order of rows: newest first, or the reverse.
apply_order(a, b, reverse) ==
    LET newer(r, s) == r.time > s.time \/ (r.time = s.time /\ r.id > s.id)
    IN  IF reverse THEN newer(b, a) ELSE newer(a, b)

\* The first n rows of a set in this order.
First(S, n, reverse) ==
    {r \in S : Cardinality({s \in S : apply_order(s, r, reverse)}) < n}

\* The last row of a set in this order.
Last(S, reverse) ==
    CHOOSE r \in S : \A s \in S : s = r \/ apply_order(s, r, reverse)

-----------------------------------------------------------------------------
\* Queries

Page(entries, next, prev) == [entries |-> entries, next |-> next, prev |-> prev]

_full_query == Page(rows, NoCursor, NoCursor)

\* One row more than the limit is asked for.  If there is one, it is not shown,
\* but there is another page: from that row on, or before the last row shown if
\* the cursor goes back.  The other way, the cursor is inverted.
_paginated_query(cursor, limit) ==
    LET reverse == cursor # NoCursor /\ cursor.previous
        matching == IF cursor = NoCursor THEN rows
                    ELSE {r \in rows : apply_cursor(cursor, r)}
        found == IF limit = 0 THEN matching ELSE First(matching, limit + 1, reverse)
        more == limit # 0 /\ Cardinality(found) > limit
        entries == IF more THEN First(found, limit, reverse) ELSE found
    IN
    IF reverse
      THEN Page(entries, invert(cursor),
                IF more THEN from_entry(Last(entries, TRUE), TRUE) ELSE NoCursor)
      ELSE Page(entries,
                IF more THEN from_entry(Last(found, FALSE), FALSE) ELSE NoCursor,
                IF cursor = NoCursor THEN NoCursor ELSE invert(cursor))

query_object(cursor, limit) ==
    IF cursor # NoCursor \/ limit # 0 THEN _paginated_query(cursor, limit)
                                      ELSE _full_query

NoWalk == [rows |-> {}, seen |-> {}]

\* A walk goes on with the rows of a page, or begins with them at an edge.
Walked(walk, new, edge) ==
    IF edge THEN [rows |-> rows, seen |-> new.entries]
            ELSE [walk EXCEPT !.seen = @ \union new.entries]

Show(new, start, end) ==
    /\ page' = new
    /\ fromStart' = Walked(start, new, new.prev = NoCursor)
    /\ fromEnd' = Walked(end, new, new.next = NoCursor)
    /\ UNCHANGED <<rows, inserted>>

-----------------------------------------------------------------------------
\* What the client and other users do

PaginationInit ==
    /\ rows = {}
    /\ inserted = 0
    /\ page = Page({}, NoCursor, NoCursor)
    /\ fromStart = NoWalk
    /\ fromEnd = NoWalk

\* The client follows a link, with the limit it likes.  The link to the first
\* page ends its walks.
first_url(limit) == Show(query_object(NoCursor, limit), NoWalk, NoWalk)

next_url(limit) ==
    /\ page.next # NoCursor
    /\ Show(query_object(page.next, limit), fromStart, fromEnd)

prev_url(limit) ==
    /\ page.prev # NoCursor
    /\ Show(query_object(page.prev, limit), fromStart, fromEnd)

\* A row is inserted with a new identifier, at a time that need not be later
\* than those of other rows.
Insert(time) ==
    /\ inserted < MaxId
    /\ inserted' = inserted + 1
    /\ rows' = rows \union {[time |-> time, id |-> inserted + 1]}
    /\ UNCHANGED <<page, fromStart, fromEnd>>

Delete(row) ==
    /\ rows' = rows \ {row}
    /\ fromStart' = [fromStart EXCEPT !.rows = @ \ {row}]
    /\ fromEnd' = [fromEnd EXCEPT !.rows = @ \ {row}]
    /\ UNCHANGED <<inserted, page>>

PaginationNext ==
    \/ \E limit \in 0..MaxLimit :
          first_url(limit) \/ next_url(limit) \/ prev_url(limit)
    \/ \E time \in Times : Insert(time)
    \/ \E row \in rows : Delete(row)

PaginationSpec == PaginationInit /\ [][PaginationNext]_pagination_vars

-----------------------------------------------------------------------------
\* Properties

PaginationTypeOK ==
    /\ rows \subseteq Row
    /\ inserted \in 0..MaxId
    /\ \A r \in rows : r.id <= inserted
    /\ page \in [entries : SUBSET Row, next : DatetimeIdCursor \union {NoCursor},
                 prev : DatetimeIdCursor \union {NoCursor}]
    /\ fromStart \in [rows : SUBSET Row, seen : SUBSET Row]
    /\ fromEnd \in [rows : SUBSET Row, seen : SUBSET Row]

Selects(cursor, row) == cursor # NoCursor /\ apply_cursor(cursor, row)

\* A client that comes to the last page has been shown every row that was there
\* when it began at the first page and is still there, whatever was inserted or
\* deleted on its way, whatever the limits, and however often it turned round.
WalkToEndIsComplete ==
    page.next = NoCursor => fromStart.rows \subseteq fromStart.seen

\* The same of a client that goes back from the last page to the first.
WalkToStartIsComplete ==
    page.prev = NoCursor => fromEnd.rows \subseteq fromEnd.seen

\* No row is on two pages that follow each other: all that the next page shows
\* comes after what this page shows, and all that the one before shows comes
\* before it, also if rows were inserted or deleted since.
PagesDoNotOverlap ==
    [][\A limit \in 0..MaxLimit :
         /\ next_url(limit) =>
              \A r \in page.entries, s \in page'.entries : apply_order(r, s, FALSE)
         /\ prev_url(limit) =>
              \A r \in page.entries, s \in page'.entries : apply_order(s, r, FALSE)]_pagination_vars

\* The rows of a page that is returned and those that its two cursors select are
\* all that there are, and no row is in two of the three.
PageSplitsRows ==
    [][page' # page =>
         \A r \in rows :
           LET places == {p \in {"here", "next", "prev"} :
                            \/ p = "here" /\ r \in page'.entries
                            \/ p = "next" /\ Selects(page'.next, r)
                            \/ p = "prev" /\ Selects(page'.prev, r)}
           IN  Cardinality(places) = 1]_pagination_vars
=============================================================================
