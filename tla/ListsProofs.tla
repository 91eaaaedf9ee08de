----------------------------- MODULE ListsProofs -----------------------------
(***************************************************************************)
(* Theorems about the lists of the catalogue and the admin list of orders: *)
(* their order, pages and cursors, who may see a row, and what a walk      *)
(* through the pages shows, however many rows there are and whatever       *)
(* becomes of them between two pages.                                      *)
(***************************************************************************)
EXTENDS CatalogueLists, FiniteSetTheorems, SequenceTheorems, TLAPS

-----------------------------------------------------------------------------
(* The order, the cursors and the pages of a list                          *)

Keyed(row) == row.order \in Int /\ row.created \in Int /\ row.id \in Int

\* A list is in an order in which no two rows share a place, and the rows that
\* come after a cursor are those that come after the row it was made from.
THEOREM CursorsCorrect ==
  \A a, b, c : Keyed(a) /\ Keyed(b) /\ Keyed(c) =>
    /\ CursorWhere(NextCursorFrom(a), b) <=> Precedes(a, b)
    /\ ~(Precedes(a, b) /\ Precedes(b, a))
    /\ Precedes(a, b) /\ Precedes(b, c) => Precedes(a, c)
    /\ a.id # b.id => Precedes(a, b) \/ Precedes(b, a)
BY DEF Keyed, CursorWhere, NextCursorFrom, Precedes

\* The same of the orders of the admin list.
THEOREM OrderCursorsCorrect ==
  \A a, b, c : Keyed(a) /\ Keyed(b) /\ Keyed(c) =>
    /\ OrderCursorWhere(NextCursorFrom(a), b) <=> OrderPrecedes(a, b)
    /\ ~(OrderPrecedes(a, b) /\ OrderPrecedes(b, a))
    /\ OrderPrecedes(a, b) /\ OrderPrecedes(b, c) => OrderPrecedes(a, c)
    /\ a.id # b.id => OrderPrecedes(a, b) \/ OrderPrecedes(b, a)
BY DEF Keyed, OrderCursorWhere, NextCursorFrom, OrderPrecedes

\* A page ends where its cursor says: of the rows a query found, in their order,
\* those the cursor asks for next are those the page left out, and there is a
\* cursor exactly when some were.
THEOREM PagesCorrect ==
  ASSUME NEW rows, NEW S, rows \in Seq(S), \A row \in S : Keyed(row),
         \A i, j \in 1 .. Len(rows) : i < j => Precedes(rows[i], rows[j]),
         NEW limit \in Nat \ {0}
  PROVE  LET page == Page(rows, limit)
         IN  /\ page.more <=> Len(rows) > limit
             /\ Len(page.items) = IF page.more THEN limit ELSE Len(rows)
             /\ \A i \in 1 .. Len(page.items) : page.items[i] = rows[i]
             /\ page.more => \A i \in 1 .. Len(rows) : CursorWhere(page.next, rows[i]) <=> i > limit
<1> DEFINE page == Page(rows, limit)
<1> SUFFICES /\ page.more <=> Len(rows) > limit
             /\ Len(page.items) = IF page.more THEN limit ELSE Len(rows)
             /\ \A i \in 1 .. Len(page.items) : page.items[i] = rows[i]
             /\ page.more => \A i \in 1 .. Len(rows) : CursorWhere(page.next, rows[i]) <=> i > limit
  OBVIOUS
<1>1. CASE Len(rows) > limit
  <2>1. /\ page.items = SubSeq(rows, 1, limit) /\ page.more
        /\ page.next = NextCursorFrom(SubSeq(rows, 1, limit)[limit])
    BY <1>1 DEF Page
  <2>2. /\ Len(SubSeq(rows, 1, limit)) = limit
        /\ \A i \in 1 .. limit : SubSeq(rows, 1, limit)[i] = rows[i]
    BY <1>1
  <2>3. page.next = NextCursorFrom(rows[limit])
    BY <2>1, <2>2
  <2>4. ASSUME NEW i \in 1 .. Len(rows)
        PROVE  CursorWhere(page.next, rows[i]) <=> i > limit
    <3>1. Keyed(rows[i]) /\ Keyed(rows[limit])
      BY <1>1
    <3>2. CursorWhere(page.next, rows[i]) <=> Precedes(rows[limit], rows[i])
      BY <2>3, <3>1, CursorsCorrect
    <3>3. ~Precedes(rows[limit], rows[limit])
      BY <3>1, CursorsCorrect
    <3>4. i < limit => ~Precedes(rows[limit], rows[i])
      BY <1>1, <3>1, CursorsCorrect
    <3> QED
      BY <1>1, <3>2, <3>3, <3>4
  <2> HIDE DEF page
  <2> QED
    BY <1>1, <2>1, <2>2, <2>4
<1>2. CASE ~(Len(rows) > limit)
  <2>1. page.items = rows /\ ~page.more
    BY <1>2 DEF Page
  <2> HIDE DEF page
  <2> QED
    BY <1>2, <2>1
<1> QED
  BY <1>1, <1>2

-----------------------------------------------------------------------------
(* Who sees a row                                                          *)

\* A row of a catalogue table.
Instants == Int \cup {NULL}

IsRow(row) ==
  \E id, order, created \in Int, stamps \in BOOLEAN \X BOOLEAN, window \in Instants \X Instants :
    \E terms, cats, charity :
      row = Row(id, order, created, stamps, window, terms, cats, charity)

LEMMA RowFields ==
  ASSUME NEW row, IsRow(row)
  PROVE  /\ Keyed(row)
         /\ row.archived \in BOOLEAN /\ row.deleted \in BOOLEAN
         /\ row.start \in Instants /\ row.end \in Instants
         /\ LET open == [row EXCEPT !.archived = FALSE, !.deleted = FALSE]
            IN  /\ open.archived = FALSE /\ open.deleted = FALSE
                /\ open.start = row.start /\ open.end = row.end
<1>1. PICK id, order, created \in Int, stamps \in BOOLEAN \X BOOLEAN,
           window \in Instants \X Instants :
        \E terms, cats, charity :
          row = Row(id, order, created, stamps, window, terms, cats, charity)
  BY DEF IsRow
<1>2. PICK terms, cats, charity :
        row = Row(id, order, created, stamps, window, terms, cats, charity)
  BY <1>1
<1>3. /\ stamps[1] \in BOOLEAN /\ stamps[2] \in BOOLEAN
      /\ window[1] \in Instants /\ window[2] \in Instants
  OBVIOUS
<1> QED
  BY <1>2, <1>3 DEF Row, Keyed

\* The public lists and the admin's cannot disagree on visibility: a child is
\* public exactly when the admin's default list has it, its publish window is
\* open and its charity is public; and when such a child is not public, a stamp
\* of its charity or the charity's own window is the reason.
THEOREM VisibilityCorrect ==
  \A child, parent : IsRow(child) /\ IsRow(parent) =>
    \A now \in Int :
      /\ WhereLiveWithParent(child, parent, now)
           <=> WhereForAdmin(child, AnyInput) /\ WindowOpen(child, now) /\ WhereLive(parent, now)
      /\ WhereForAdmin(child, AnyInput) /\ WindowOpen(child, now)
           /\ ~WhereLiveWithParent(child, parent, now)
           => parent.archived \/ parent.deleted \/ ~WindowOpen(parent, now)
<1>1. ASSUME NEW row, IsRow(row), NEW now \in Int
      PROVE  WhereLive(row, now) <=> ~row.deleted /\ ~row.archived /\ WindowOpen(row, now)
  BY <1>1, RowFields DEF WhereLive, WindowOpen
<1>2. ASSUME NEW row, IsRow(row)
      PROVE  WhereForAdmin(row, AnyInput) <=> ~row.deleted /\ ~row.archived
  BY <1>2, RowFields DEF WhereForAdmin, AnyInput
<1> QED
  BY <1>1, <1>2 DEF WhereLiveWithParent

-----------------------------------------------------------------------------
(* The rows of a query in its order                                        *)

\* An injection between sets of one size is onto.
LEMMA OntoBySize ==
  ASSUME NEW A, NEW B, IsFiniteSet(A), IsFiniteSet(B), Cardinality(A) = Cardinality(B),
         NEW f \in [A -> B], \A x, y \in A : f[x] = f[y] => x = y
  PROVE  \A b \in B : \E x \in A : f[x] = b
<1> DEFINE image == {f[x] : x \in A}
           g == [x \in A |-> f[x]]
<1>1. g \in [A -> image] /\ \A x \in A : g[x] = f[x]
  OBVIOUS
<1>2. g \in Bijection(A, image)
  BY <1>1 DEF Bijection, Injection, Surjection, IsInjective
<1>3. Cardinality(image) = Cardinality(A)
  BY <1>2, FS_Bijection DEF ExistsBijection
<1>4. image \in SUBSET B
  OBVIOUS
<1>5. image = B
  BY <1>3, <1>4, FS_Subset
<1> QED
  BY <1>5

Below(S, R, x) == {y \in S : <<y, x>> \in R}

\* A relation that orders a finite set orders it as a sequence: the place of a
\* member is the number of those before it.
LEMMA SortedExists ==
  ASSUME NEW S, IsFiniteSet(S), NEW R,
         \A x \in S : <<x, x>> \notin R,
         \A x, y, z \in S : <<x, y>> \in R /\ <<y, z>> \in R => <<x, z>> \in R,
         \A x, y \in S : x # y => <<x, y>> \in R \/ <<y, x>> \in R
  PROVE  \E s \in SetToSeqs(S) : \A i, j \in DOMAIN s : i < j => <<s[i], s[j]>> \in R
<1> DEFINE n == Cardinality(S)
           rank == [x \in S |-> Cardinality(Below(S, R, x)) + 1]
<1>1. n \in Nat
  BY FS_CardinalityType
<1>2. ASSUME NEW x \in S
      PROVE  IsFiniteSet(Below(S, R, x)) /\ Cardinality(Below(S, R, x)) \in 0 .. n - 1
  <2>1. IsFiniteSet(S \ {x}) /\ Cardinality(S \ {x}) = n - 1
    BY FS_RemoveElement
  <2>2. Below(S, R, x) \in SUBSET (S \ {x})
    BY DEF Below
  <2>3. IsFiniteSet(Below(S, R, x)) /\ Cardinality(Below(S, R, x)) <= n - 1
    BY <2>1, <2>2, FS_Subset
  <2> QED
    BY <1>1, <2>3, FS_CardinalityType
<1>3. ASSUME NEW x \in S, NEW y \in S, <<x, y>> \in R
      PROVE  Cardinality(Below(S, R, x)) < Cardinality(Below(S, R, y))
  <2>1. Below(S, R, x) \cup {x} \in SUBSET Below(S, R, y) /\ x \notin Below(S, R, x)
    BY <1>3 DEF Below
  <2>2. Cardinality(Below(S, R, x) \cup {x}) = Cardinality(Below(S, R, x)) + 1
    BY <1>2, <2>1, FS_AddElement
  <2>3. Cardinality(Below(S, R, x) \cup {x}) <= Cardinality(Below(S, R, y))
    BY <1>2, <2>1, FS_Subset
  <2> QED
    BY <1>2, <2>2, <2>3
<1>4. rank \in [S -> 1 .. n]
  BY <1>1, <1>2
<1>5. \A x, y \in S : <<x, y>> \in R => rank[x] < rank[y]
  BY <1>2, <1>3
<1> HIDE DEF rank
<1>6. \A x, y \in S : rank[x] = rank[y] => x = y
  <2>1. ASSUME NEW x \in S, NEW y \in S, x # y
        PROVE  rank[x] # rank[y]
    <3>1. rank[x] \in Int /\ rank[y] \in Int
      BY <1>1, <1>4
    <3>2. <<x, y>> \in R => rank[x] < rank[y]
      BY <1>5
    <3>3. <<y, x>> \in R => rank[y] < rank[x]
      BY <1>5
    <3>4. <<x, y>> \in R \/ <<y, x>> \in R
      BY <2>1
    <3> QED
      BY <3>1, <3>2, <3>3, <3>4
  <2> QED
    BY <2>1
<1>7. IsFiniteSet(1 .. n) /\ Cardinality(1 .. n) = n
  BY <1>1, FS_Interval
<1>8. \A i \in 1 .. n : \E x \in S : rank[x] = i
  <2> DEFINE spots == 1 .. n
  <2>1. /\ IsFiniteSet(spots) /\ Cardinality(S) = Cardinality(spots)
        /\ rank \in [S -> spots]
    BY <1>4, <1>7
  <2> HIDE DEF spots
  <2>2. \A i \in spots : \E x \in S : rank[x] = i
    BY <1>6, <2>1, OntoBySize
  <2> QED
    BY <2>2 DEF spots
<1> DEFINE s == [i \in 1 .. n |-> CHOOSE x \in S : rank[x] = i]
<1>9. s \in [1 .. n -> S] /\ \A i \in 1 .. n : rank[s[i]] = i
  BY <1>8
<1> HIDE DEF s, n
<1>10. s \in SetToSeqs(S)
  <2>1. \A i, j \in 1 .. n : i # j => s[i] # s[j]
    BY <1>9
  <2> QED
    BY <1>9, <2>1 DEF SetToSeqs, n
<1>11. ASSUME NEW i \in DOMAIN s, NEW j \in DOMAIN s, i < j
       PROVE  <<s[i], s[j]>> \in R
  <2>1. i \in 1 .. n /\ j \in 1 .. n /\ s[i] \in S /\ s[j] \in S
    BY <1>9
  <2>2. rank[s[i]] = i /\ rank[s[j]] = j
    BY <1>9, <2>1
  <2>3. s[i] # s[j] /\ ~(<<s[j], s[i]>> \in R)
    BY <1>1, <1>5, <1>11, <2>1, <2>2
  <2> QED
    BY <2>1, <2>3
<1> QED
  BY <1>10, <1>11

\* What a query may find: finitely many rows, each with an id of its own.
Queried(S) ==
  IsFiniteSet(S) /\ (\A x \in S : Keyed(x)) /\ (\A x, y \in S : x.id = y.id => x = y)

\* The orders of the catalogue's lists and of the list of orders, on places.
ListOrder == {p \in Cursor \X Cursor : Precedes(p[1], p[2])}

OrdersOrder == {p \in Cursor \X Cursor : OrderPrecedes(p[1], p[2])}

StrictOrder(R) ==
  /\ \A a \in Cursor : <<a, a>> \notin R
  /\ \A a, b, c \in Cursor : <<a, b>> \in R /\ <<b, c>> \in R => <<a, c>> \in R

LEMMA ListOrderStrict == StrictOrder(ListOrder)
BY DEF StrictOrder, ListOrder, Cursor, Precedes

LEMMA OrdersOrderStrict == StrictOrder(OrdersOrder)
BY DEF StrictOrder, OrdersOrder, Cursor, OrderPrecedes

\* The place of a row.
LEMMA PlaceOf ==
  ASSUME NEW row, Keyed(row)
  PROVE  NextCursorFrom(row) \in Cursor
BY DEF Keyed, NextCursorFrom, Cursor

\* rows is the set S in the order R of the places.
Listed(rows, S, R) ==
  /\ rows \in Seq(S)
  /\ \A x \in S : \E i \in 1 .. Len(rows) : rows[i] = x
  /\ \A i, j \in 1 .. Len(rows) :
       i < j => <<NextCursorFrom(rows[i]), NextCursorFrom(rows[j])>> \in R

LEMMA EnumerationOnto ==
  ASSUME NEW S, IsFiniteSet(S), NEW s \in SetToSeqs(S)
  PROVE  /\ s \in Seq(S) /\ DOMAIN s = 1 .. Len(s)
         /\ Len(s) = Cardinality(S)
         /\ \A x \in S : \E i \in 1 .. Len(s) : s[i] = x
<1> DEFINE n == Cardinality(S)
<1>1. n \in Nat
  BY FS_CardinalityType
<1>2. s \in [1 .. n -> S] /\ \A i, j \in 1 .. n : i # j => s[i] # s[j]
  BY DEF SetToSeqs
<1> HIDE DEF n
<1>3. s \in Seq(S) /\ Len(s) = n
  BY <1>1, <1>2, SeqDef
<1> DEFINE spots == 1 .. n
<1>4. IsFiniteSet(spots) /\ Cardinality(spots) = Cardinality(S)
  BY <1>1, FS_Interval DEF n
<1>5. s \in [spots -> S] /\ \A i, j \in spots : s[i] = s[j] => i = j
  BY <1>2
<1> HIDE DEF spots
<1>6. \A x \in S : \E i \in spots : s[i] = x
  BY <1>4, <1>5, OntoBySize
<1> QED
  BY <1>1, <1>2, <1>3, <1>6 DEF spots, n

\* What a query of the catalogue finds is listed in the order of the lists.
LEMMA InListOrder ==
  ASSUME NEW S, Queried(S)
  PROVE  /\ Listed(InOrder(S, Precedes), S, ListOrder)
         /\ Len(InOrder(S, Precedes)) = Cardinality(S)
<1> DEFINE R == {p \in S \X S : Precedes(p[1], p[2])}
           rows == InOrder(S, Precedes)
<1>1. \A x, y \in S : <<x, y>> \in R <=> Precedes(x, y)
  OBVIOUS
<1>2. \A x \in S : Keyed(x)
  BY DEF Queried
<1> HIDE DEF R
<1>3. \A x \in S : <<x, x>> \notin R
  BY <1>1, <1>2, CursorsCorrect
<1>4. \A x, y, z \in S : <<x, y>> \in R /\ <<y, z>> \in R => <<x, z>> \in R
  BY <1>1, <1>2, CursorsCorrect
<1>5. \A x, y \in S : x # y => <<x, y>> \in R \/ <<y, x>> \in R
  <2>1. \A x, y \in S : x # y => x.id # y.id
    BY DEF Queried
  <2> QED
    BY <1>1, <1>2, <2>1, CursorsCorrect
<1>6. \E s \in SetToSeqs(S) : \A i, j \in DOMAIN s : i < j => <<s[i], s[j]>> \in R
  BY <1>3, <1>4, <1>5, SortedExists DEF Queried
<1>7. PICK s \in SetToSeqs(S) : \A i, j \in DOMAIN s : i < j => <<s[i], s[j]>> \in R
  BY <1>6
<1>8. \A i, j \in DOMAIN s : i < j => Precedes(s[i], s[j])
  <2>1. \A i \in DOMAIN s : s[i] \in S
    BY DEF SetToSeqs
  <2> QED
    BY <1>1, <1>7, <2>1
<1>9. /\ rows \in SetToSeqs(S)
      /\ \A i, j \in DOMAIN rows : i < j => Precedes(rows[i], rows[j])
  BY <1>8 DEF InOrder
<1> HIDE DEF rows
<1>10. /\ rows \in Seq(S) /\ DOMAIN rows = 1 .. Len(rows)
       /\ Len(rows) = Cardinality(S)
       /\ \A x \in S : \E i \in 1 .. Len(rows) : rows[i] = x
  BY <1>9, EnumerationOnto DEF Queried
<1>11. ASSUME NEW i \in 1 .. Len(rows), NEW j \in 1 .. Len(rows), i < j
       PROVE  <<NextCursorFrom(rows[i]), NextCursorFrom(rows[j])>> \in ListOrder
  <2>1. Keyed(rows[i]) /\ Keyed(rows[j]) /\ Precedes(rows[i], rows[j])
    BY <1>2, <1>9, <1>10, <1>11
  <2> QED
    BY <2>1, PlaceOf DEF ListOrder, Precedes, NextCursorFrom
<1>12. Listed(rows, S, ListOrder)
  BY <1>10, <1>11 DEF Listed
<1> QED
  BY <1>10, <1>12 DEF rows

\* The same of the list of orders.
LEMMA InOrdersOrder ==
  ASSUME NEW S, Queried(S)
  PROVE  /\ Listed(InOrder(S, OrderPrecedes), S, OrdersOrder)
         /\ Len(InOrder(S, OrderPrecedes)) = Cardinality(S)
<1> DEFINE R == {p \in S \X S : OrderPrecedes(p[1], p[2])}
           rows == InOrder(S, OrderPrecedes)
<1>1. \A x, y \in S : <<x, y>> \in R <=> OrderPrecedes(x, y)
  OBVIOUS
<1>2. \A x \in S : Keyed(x)
  BY DEF Queried
<1> HIDE DEF R
<1>3. \A x \in S : <<x, x>> \notin R
  BY <1>1, <1>2, OrderCursorsCorrect
<1>4. \A x, y, z \in S : <<x, y>> \in R /\ <<y, z>> \in R => <<x, z>> \in R
  BY <1>1, <1>2, OrderCursorsCorrect
<1>5. \A x, y \in S : x # y => <<x, y>> \in R \/ <<y, x>> \in R
  <2>1. \A x, y \in S : x # y => x.id # y.id
    BY DEF Queried
  <2> QED
    BY <1>1, <1>2, <2>1, OrderCursorsCorrect
<1>6. \E s \in SetToSeqs(S) : \A i, j \in DOMAIN s : i < j => <<s[i], s[j]>> \in R
  BY <1>3, <1>4, <1>5, SortedExists DEF Queried
<1>7. PICK s \in SetToSeqs(S) : \A i, j \in DOMAIN s : i < j => <<s[i], s[j]>> \in R
  BY <1>6
<1>8. \A i, j \in DOMAIN s : i < j => OrderPrecedes(s[i], s[j])
  <2>1. \A i \in DOMAIN s : s[i] \in S
    BY DEF SetToSeqs
  <2> QED
    BY <1>1, <1>7, <2>1
<1>9. /\ rows \in SetToSeqs(S)
      /\ \A i, j \in DOMAIN rows : i < j => OrderPrecedes(rows[i], rows[j])
  BY <1>8 DEF InOrder
<1> HIDE DEF rows
<1>10. /\ rows \in Seq(S) /\ DOMAIN rows = 1 .. Len(rows)
       /\ Len(rows) = Cardinality(S)
       /\ \A x \in S : \E i \in 1 .. Len(rows) : rows[i] = x
  BY <1>9, EnumerationOnto DEF Queried
<1>11. ASSUME NEW i \in 1 .. Len(rows), NEW j \in 1 .. Len(rows), i < j
       PROVE  <<NextCursorFrom(rows[i]), NextCursorFrom(rows[j])>> \in OrdersOrder
  <2>1. Keyed(rows[i]) /\ Keyed(rows[j]) /\ OrderPrecedes(rows[i], rows[j])
    BY <1>2, <1>9, <1>10, <1>11
  <2> QED
    BY <2>1, PlaceOf DEF OrdersOrder, OrderPrecedes, NextCursorFrom
<1>12. Listed(rows, S, OrdersOrder)
  BY <1>10, <1>11 DEF Listed
<1> QED
  BY <1>10, <1>12 DEF rows

-----------------------------------------------------------------------------
(* The lists of the catalogue agree                                        *)

\* What each list selects, before it is ordered and cut into pages.
PublicCharities(tables, now, input) ==
  {c \in tables.charities : WhereLive(c, now) /\ Filtered(c, c, input)}

PublicChildren(tables, rows, now, input) ==
  {p \in rows : LET c == ParentIn(tables, p)
                IN  /\ WhereLiveWithParent(p, c, now) /\ CharityFilter(p, input)
                    /\ Filtered(p, c, input)}

AdminCharities(tables, input) ==
  {c \in tables.charities : WhereForAdmin(c, input) /\ Filtered(c, c, input)}

AdminChildren(tables, rows, input) ==
  {p \in rows : /\ WhereForAdmin(p, input) /\ CharityFilter(p, input)
                /\ Filtered(p, ParentIn(tables, p), input)}

LEMMA ListsSelect ==
  ASSUME NEW tables, NEW now, NEW input
  PROVE  /\ ListCharities(tables, now, input) =
              Page(InOrder(PublicCharities(tables, now, input), Precedes), input.limit)
         /\ ListDonationProjects(tables, now, input) =
              Page(InOrder(PublicChildren(tables, tables.projects, now, input), Precedes),
                   input.limit)
         /\ ListSaleItems(tables, now, input) =
              Page(InOrder(PublicChildren(tables, tables.sales, now, input), Precedes),
                   input.limit)
         /\ ListCharitiesForAdmin(tables, input) =
              Page(InOrder(AdminCharities(tables, input), Precedes), input.limit)
         /\ ListDonationProjectsForAdmin(tables, input) =
              Page(InOrder(AdminChildren(tables, tables.projects, input), Precedes), input.limit)
         /\ ListSaleItemsForAdmin(tables, input) =
              Page(InOrder(AdminChildren(tables, tables.sales, input), Precedes), input.limit)
BY DEF ListCharities, ListDonationProjects, ListSaleItems, ListCharitiesForAdmin,
       ListDonationProjectsForAdmin, ListSaleItemsForAdmin, PublicCharities, PublicChildren,
       AdminCharities, AdminChildren

LEMMA QueriedPart ==
  ASSUME NEW S, Queried(S), NEW T \in SUBSET S
  PROVE  Queried(T) /\ Cardinality(T) <= Cardinality(S)
BY FS_Subset DEF Queried

\* A page long enough has every row.
LEMMA IdsOfPage ==
  ASSUME NEW S, Queried(S), NEW T \in SUBSET S, NEW limit \in Nat, Cardinality(S) <= limit
  PROVE  \A id : id \in Ids(Page(InOrder(T, Precedes), limit)) <=> \E x \in T : x.id = id
<1> DEFINE rows == InOrder(T, Precedes)
<1>1. Queried(T) /\ Cardinality(T) <= Cardinality(S)
  BY QueriedPart
<1>2. Listed(rows, T, ListOrder) /\ Len(rows) = Cardinality(T)
  BY <1>1, InListOrder
<1> HIDE DEF rows
<1>3. Cardinality(S) \in Nat /\ Cardinality(T) \in Nat
  BY <1>1, FS_CardinalityType DEF Queried
<1>4. ~(Len(rows) > limit)
  BY <1>1, <1>2, <1>3
<1>5. Page(rows, limit).items = rows
  BY <1>4 DEF Page
<1>6. /\ DOMAIN rows = 1 .. Len(rows) /\ \A i \in 1 .. Len(rows) : rows[i] \in T
      /\ \A x \in T : \E i \in 1 .. Len(rows) : rows[i] = x
  BY <1>2 DEF Listed
<1>7. Ids(Page(rows, limit)) = {rows[i].id : i \in 1 .. Len(rows)}
  BY <1>5, <1>6 DEF Ids
<1>8. \A id : id \in Ids(Page(rows, limit)) <=> \E x \in T : x.id = id
  BY <1>6, <1>7
<1> QED
  BY <1>8 DEF rows

\* The tables of a catalogue: ids are unique, and a child has a charity.
IsCatalogue(tables) ==
  /\ Queried(tables.charities) /\ Queried(tables.projects) /\ Queried(tables.sales)
  /\ \A row \in tables.charities \cup ChildRows(tables) : IsRow(row)
  /\ \A p \in tables.projects, s \in tables.sales : p.id # s.id
  /\ \A child \in ChildRows(tables) : \E c \in tables.charities : c.id = child.charity

LEMMA ParentFound ==
  ASSUME NEW tables, IsCatalogue(tables), NEW child \in ChildRows(tables)
  PROVE  /\ ParentIn(tables, child) \in tables.charities
         /\ ParentIn(tables, child).id = child.charity
         /\ \A c \in tables.charities : c.id = child.charity => c = ParentIn(tables, child)
BY DEF IsCatalogue, Queried, ParentIn

\* The lists agree on every catalogue, with any filters, wherever a page has room
\* for all rows; paging is the subject of the next section.
THEOREM ListsAgreeOnAll ==
  ASSUME NEW tables, IsCatalogue(tables), NEW now \in Int,
         NEW Texts, NEW Locales, NEW Keys, NEW Parents,
         NEW input \in [q : Texts, locale : Locales, category : Keys, charityId : Parents,
                        cursor : {NULL}, limit : Nat,
                        includeArchived : {FALSE}, includeDeleted : {FALSE}],
         \A rows \in {tables.charities, tables.projects, tables.sales} :
           Cardinality(rows) <= input.limit
  PROVE  AgreeOn(tables, now, input)
<1> DEFINE any       == [input EXCEPT !.q = NULL]
           charities == Ids(ListCharities(tables, now, any))
           filtered  == Ids(ListCharities(tables, now, input))
           stored    == Ids(ListCharitiesForAdmin(tables, input))
           projects  == Ids(ListDonationProjects(tables, now, input))
           sales     == Ids(ListSaleItems(tables, now, input))
           projectsA == Ids(ListDonationProjectsForAdmin(tables, input))
           salesA    == Ids(ListSaleItemsForAdmin(tables, input))
           Parent(p) == ParentIn(tables, p)
           Picked(p) == CharityFilter(p, input) /\ Filtered(p, Parent(p), input)
<1>1. /\ Queried(tables.charities) /\ Queried(tables.projects) /\ Queried(tables.sales)
      /\ Cardinality(tables.charities) <= input.limit
      /\ Cardinality(tables.projects) <= input.limit
      /\ Cardinality(tables.sales) <= input.limit
  BY DEF IsCatalogue
<1>2. /\ any.category = input.category /\ any.cursor = NULL /\ any.q = NULL
      /\ any.limit = input.limit /\ input.limit \in Nat /\ input.cursor = NULL
      /\ input.includeArchived = FALSE /\ input.includeDeleted = FALSE
  OBVIOUS
<1>3. \A id : id \in charities <=>
        \E c \in tables.charities : WhereLive(c, now) /\ CategoryFilter(c, input) /\ c.id = id
  <2>1. \A id : id \in charities <=> \E c \in PublicCharities(tables, now, any) : c.id = id
    <3>1. PublicCharities(tables, now, any) \in SUBSET tables.charities
      BY DEF PublicCharities
    <3> QED
      BY <1>1, <1>2, <3>1, IdsOfPage, ListsSelect
  <2>2. \A c : Filtered(c, c, any) <=> CategoryFilter(c, input)
    BY <1>2 DEF Filtered, LocaleFieldFilter, CategoryFilter, CursorFilter
  <2> HIDE DEF charities, any
  <2> QED
    BY <2>1, <2>2 DEF PublicCharities
<1>4. \A id : id \in filtered <=>
        \E c \in tables.charities : WhereLive(c, now) /\ Filtered(c, c, input) /\ c.id = id
  <2>1. \A id : id \in filtered <=> \E c \in PublicCharities(tables, now, input) : c.id = id
    <3>1. PublicCharities(tables, now, input) \in SUBSET tables.charities
      BY DEF PublicCharities
    <3> QED
      BY <1>1, <1>2, <3>1, IdsOfPage, ListsSelect
  <2> HIDE DEF filtered
  <2> QED
    BY <2>1 DEF PublicCharities
<1>5. \A id : id \in stored <=>
        \E c \in tables.charities : WhereForAdmin(c, input) /\ Filtered(c, c, input) /\ c.id = id
  <2>1. \A id : id \in stored <=> \E c \in AdminCharities(tables, input) : c.id = id
    <3>1. AdminCharities(tables, input) \in SUBSET tables.charities
      BY DEF AdminCharities
    <3>2. stored = Ids(Page(InOrder(AdminCharities(tables, input), Precedes), input.limit))
      BY ListsSelect
    <3> HIDE DEF stored
    <3> QED
      BY <1>1, <1>2, <3>1, <3>2, IdsOfPage
  <2> HIDE DEF stored
  <2> QED
    BY <2>1 DEF AdminCharities
<1>6. \A id : id \in projects <=> \E p \in tables.projects :
        WhereLiveWithParent(p, Parent(p), now) /\ Picked(p) /\ p.id = id
  <2>1. \A id : id \in projects <=>
          \E p \in PublicChildren(tables, tables.projects, now, input) : p.id = id
    <3>1. PublicChildren(tables, tables.projects, now, input) \in SUBSET tables.projects
      BY DEF PublicChildren
    <3> QED
      BY <1>1, <1>2, <3>1, IdsOfPage, ListsSelect
  <2> HIDE DEF projects
  <2> QED
    BY <2>1 DEF PublicChildren
<1>7. \A id : id \in sales <=> \E p \in tables.sales :
        WhereLiveWithParent(p, Parent(p), now) /\ Picked(p) /\ p.id = id
  <2>1. \A id : id \in sales <=>
          \E p \in PublicChildren(tables, tables.sales, now, input) : p.id = id
    <3>1. PublicChildren(tables, tables.sales, now, input) \in SUBSET tables.sales
      BY DEF PublicChildren
    <3> QED
      BY <1>1, <1>2, <3>1, IdsOfPage, ListsSelect
  <2> HIDE DEF sales
  <2> QED
    BY <2>1 DEF PublicChildren
<1>8. \A id : id \in projectsA <=> \E p \in tables.projects :
        WhereForAdmin(p, input) /\ Picked(p) /\ p.id = id
  <2>1. \A id : id \in projectsA <=>
          \E p \in AdminChildren(tables, tables.projects, input) : p.id = id
    <3>1. AdminChildren(tables, tables.projects, input) \in SUBSET tables.projects
      BY DEF AdminChildren
    <3>2. projectsA = Ids(Page(InOrder(AdminChildren(tables, tables.projects, input), Precedes),
                               input.limit))
      BY ListsSelect
    <3> HIDE DEF projectsA
    <3> QED
      BY <1>1, <1>2, <3>1, <3>2, IdsOfPage
  <2> HIDE DEF projectsA
  <2> QED
    BY <2>1 DEF AdminChildren
<1>9. \A id : id \in salesA <=> \E p \in tables.sales :
        WhereForAdmin(p, input) /\ Picked(p) /\ p.id = id
  <2>1. \A id : id \in salesA <=>
          \E p \in AdminChildren(tables, tables.sales, input) : p.id = id
    <3>1. AdminChildren(tables, tables.sales, input) \in SUBSET tables.sales
      BY DEF AdminChildren
    <3>2. salesA = Ids(Page(InOrder(AdminChildren(tables, tables.sales, input), Precedes),
                            input.limit))
      BY ListsSelect
    <3> HIDE DEF salesA
    <3> QED
      BY <1>1, <1>2, <3>1, <3>2, IdsOfPage
  <2> HIDE DEF salesA
  <2> QED
    BY <2>1 DEF AdminChildren
<1>10. \A row : WhereForAdmin(row, input) <=> WhereForAdmin(row, AnyInput)
  BY <1>2 DEF WhereForAdmin, AnyInput
<1>11. \A row : WhereForAdmin(row, input) <=> (row.archived => FALSE) /\ (row.deleted => FALSE)
  BY <1>2 DEF WhereForAdmin
<1>12. filtered \subseteq stored
  <2>1. \A c : WhereLive(c, now) => WhereForAdmin(c, input)
    BY <1>11 DEF WhereLive
  <2> HIDE DEF filtered, stored
  <2> QED
    BY <1>4, <1>5, <2>1
<1>13. \A id \in charities : GetCharityById(tables, now, id) # {}
  <2> HIDE DEF charities
  <2> QED
    BY <1>3 DEF GetCharityById
<1> HIDE DEF any, charities, filtered, stored, projects, sales, projectsA, salesA
<1>14. ASSUME NEW child \in ChildRows(tables)
       PROVE  /\ child.id \in projects \cup sales
                   <=> WhereLiveWithParent(child, Parent(child), now) /\ Picked(child)
              /\ child.id \in projectsA \cup salesA <=> WhereForAdmin(child, input) /\ Picked(child)
  <2>1. CASE child \in tables.projects
    <3>1. /\ \A p \in tables.projects : p.id = child.id => p = child
          /\ \A p \in tables.sales : p.id # child.id
      BY <2>1 DEF IsCatalogue, Queried
    <3> HIDE DEF Picked
    <3> QED
      BY <1>6, <1>7, <1>8, <1>9, <2>1, <3>1
  <2>2. CASE child \in tables.sales
    <3>1. /\ \A p \in tables.sales : p.id = child.id => p = child
          /\ \A p \in tables.projects : p.id # child.id
      BY <2>2 DEF IsCatalogue, Queried
    <3> HIDE DEF Picked
    <3> QED
      BY <1>6, <1>7, <1>8, <1>9, <2>2, <3>1
  <2> QED
    BY <2>1, <2>2 DEF ChildRows
<1>15. ASSUME NEW child \in ChildRows(tables)
       PROVE  /\ child.id \in projects \cup sales
                   <=> /\ child.id \in projectsA \cup salesA /\ WindowOpen(child, now)
                       /\ child.charity \in charities
              /\ child.id \in (projectsA \cup salesA) \ (projects \cup sales)
                 /\ WindowOpen(child, now) =>
                   \/ ParentHints(tables, child).archived
                   \/ ParentHints(tables, child).deleted
                   \/ ~WindowOpen(ParentIn(tables, child), now)
  <2>1. /\ Parent(child) \in tables.charities /\ Parent(child).id = child.charity
        /\ \A c \in tables.charities : c.id = child.charity => c = Parent(child)
    BY ParentFound
  <2>2. IsRow(child) /\ IsRow(Parent(child))
    BY <2>1 DEF IsCatalogue
  <2>3. Picked(child) => CategoryFilter(Parent(child), input)
    BY DEF Filtered
  <2>4. child.charity \in charities <=>
          WhereLive(Parent(child), now) /\ CategoryFilter(Parent(child), input)
    BY <1>3, <2>1
  <2>5. /\ WhereLiveWithParent(child, Parent(child), now) <=>
             /\ WhereForAdmin(child, input) /\ WindowOpen(child, now)
             /\ WhereLive(Parent(child), now)
        /\ WhereForAdmin(child, input) /\ WindowOpen(child, now)
             /\ ~WhereLiveWithParent(child, Parent(child), now)
             => Parent(child).archived \/ Parent(child).deleted \/ ~WindowOpen(Parent(child), now)
    BY <1>10, <2>2, VisibilityCorrect
  <2>6. /\ ParentHints(tables, child).archived = Parent(child).archived
        /\ ParentHints(tables, child).deleted = Parent(child).deleted
    BY DEF ParentHints
  <2> HIDE DEF Picked, Parent
  <2>7. child.id \in projects \cup sales
          <=> /\ child.id \in projectsA \cup salesA /\ WindowOpen(child, now)
              /\ child.charity \in charities
    BY <1>14, <2>3, <2>4, <2>5
  <2>8. child.id \in (projectsA \cup salesA) \ (projects \cup sales) /\ WindowOpen(child, now) =>
          Parent(child).archived \/ Parent(child).deleted \/ ~WindowOpen(Parent(child), now)
    BY <1>14, <2>5
  <2> QED
    BY <2>6, <2>7, <2>8 DEF Parent
<1>16. ASSUME NEW child \in ChildRows(tables), child.id \in projects \cup sales
       PROVE  GetDonationProjectById(tables, now, child.id)
                \cup GetSaleItemById(tables, now, child.id) # {}
  <2>1. WhereLiveWithParent(child, Parent(child), now)
    BY <1>14, <1>16
  <2> QED
    BY <2>1 DEF GetDonationProjectById, GetSaleItemById, ChildRows
<1>17. \A child \in ChildRows(tables) : child \in AdminDetails(tables, child.id)
  BY DEF AdminDetails, ChildRows, GetDonationProjectByIdForAdmin, GetSaleItemByIdForAdmin
<1> QED
  BY <1>12, <1>13, <1>15, <1>16, <1>17
     DEF AgreeOn, any, charities, filtered, stored, projects, sales, projectsA, salesA

-----------------------------------------------------------------------------
(* A walk through the pages of a list.  Page k is cut from T[k], the rows  *)
(* the list has when it is asked for; R is the order of their places.      *)

\* The rows of S that come after what was shown.
After(seen, S, R) ==
  IF seen = <<>> THEN S
  ELSE {x \in S : <<NextCursorFrom(seen[Len(seen)]), NextCursorFrom(x)>> \in R}

\* v is the walk w after one more page.
Turned(w, v, S, R, limit) ==
  IF w.done THEN v = w
  ELSE \E rows : /\ Listed(rows, After(w.seen, S, R), R)
                 /\ v.seen = w.seen \o (IF Len(rows) > limit THEN SubSeq(rows, 1, limit) ELSE rows)
                 /\ v.done = ~(Len(rows) > limit)

\* What the walk has shown after k pages: rows in order, each in the list at some
\* page; a place that was in the list all the time was shown, or lies ahead.
Kept(w, T, k, U, R) ==
  /\ w.seen \in Seq(U)
  /\ \A i, j \in 1 .. Len(w.seen) :
       i < j => <<NextCursorFrom(w.seen[i]), NextCursorFrom(w.seen[j])>> \in R
  /\ \A i \in 1 .. Len(w.seen) : \E j \in 1 .. k : w.seen[i] \in T[j]
  /\ \A c \in Cursor : (\A j \in 1 .. k : c \in PlacesOf(T[j])) =>
       \/ \E i \in 1 .. Len(w.seen) : NextCursorFrom(w.seen[i]) = c
       \/ ~w.done /\ (w.seen # <<>> => <<NextCursorFrom(w.seen[Len(w.seen)]), c>> \in R)

LEMMA Joined ==
  ASSUME NEW U, NEW s \in Seq(U), NEW t \in Seq(U)
  PROVE  /\ s \o t \in Seq(U) /\ Len(s \o t) = Len(s) + Len(t)
         /\ \A i \in 1 .. Len(s) : (s \o t)[i] = s[i]
         /\ \A i \in 1 .. Len(t) : (s \o t)[Len(s) + i] = t[i]
OBVIOUS

\* t is s followed by the first m of rows, the ones a page has room for.
Grown(s, t, m, rows) ==
  /\ m \in 0 .. Len(rows) /\ Len(t) = Len(s) + m
  /\ \A i \in 1 .. Len(s) : t[i] = s[i]
  /\ \A i \in 1 .. m : t[Len(s) + i] = rows[i]

\* What a page adds.
LEMMA PageAdds ==
  ASSUME NEW S, NEW R, NEW w, NEW v, NEW limit \in Nat \ {0}, NEW U,
         w.seen \in Seq(U), S \subseteq U, ~w.done, Turned(w, v, S, R, limit)
  PROVE  \E rows, m :
           /\ Listed(rows, After(w.seen, S, R), R) /\ After(w.seen, S, R) \subseteq S
           /\ rows \in Seq(U) /\ v.seen \in Seq(U) /\ Grown(w.seen, v.seen, m, rows)
           /\ v.done = ~(Len(rows) > limit)
           /\ m = IF Len(rows) > limit THEN limit ELSE Len(rows)
<1>1. PICK rows :
        /\ Listed(rows, After(w.seen, S, R), R)
        /\ v.seen = w.seen \o (IF Len(rows) > limit THEN SubSeq(rows, 1, limit) ELSE rows)
        /\ v.done = ~(Len(rows) > limit)
  BY DEF Turned
<1> DEFINE m == IF Len(rows) > limit THEN limit ELSE Len(rows)
           items == IF Len(rows) > limit THEN SubSeq(rows, 1, limit) ELSE rows
           s == w.seen
           t == v.seen
<1>2. After(s, S, R) \subseteq S
  BY DEF After
<1>3. rows \in Seq(U) /\ Len(rows) \in Nat
  <2>1. After(s, S, R) \subseteq U
    BY <1>2
  <2>2. rows \in Seq(After(s, S, R))
    BY <1>1 DEF Listed
  <2> HIDE DEF s
  <2> QED
    BY <2>1, <2>2
<1>4. /\ items \in Seq(U) /\ Len(items) = m /\ m \in 0 .. Len(rows)
      /\ \A i \in 1 .. m : items[i] = rows[i]
  <2>1. CASE Len(rows) > limit
    BY <1>3, <2>1
  <2>2. CASE ~(Len(rows) > limit)
    BY <1>3, <2>2
  <2> QED
    BY <2>1, <2>2
<1>5. t = s \o items /\ s \in Seq(U)
  BY <1>1
<1>6. m = IF Len(rows) > limit THEN limit ELSE Len(rows)
  OBVIOUS
<1> HIDE DEF items, m, s, t
<1>7. t \in Seq(U) /\ Grown(s, t, m, rows)
  BY <1>4, <1>5, Joined DEF Grown
<1> QED
  BY <1>1, <1>2, <1>3, <1>6, <1>7 DEF s, t

\* A page keeps it.
LEMMA TurnKeeps ==
  ASSUME NEW R, StrictOrder(R), NEW limit \in Nat \ {0}, NEW U, \A x \in U : Keyed(x),
         NEW T, NEW k \in Nat \ {0}, T[k] \subseteq U, NEW w, NEW v,
         Turned(w, v, T[k], R, limit), Kept(w, T, k - 1, U, R)
  PROVE  Kept(v, T, k, U, R)
<1> DEFINE l == Len(w.seen)
           At(i) == NextCursorFrom(w.seen[i])
<1>1. CASE w.done
  <2>1. v = w
    BY <1>1 DEF Turned
  <2>2. \A j \in 1 .. k - 1 : j \in 1 .. k
    OBVIOUS
  <2> QED
    BY <2>1, <2>2 DEF Kept
<1>2. CASE ~w.done
  <2>1. w.seen \in Seq(U) /\ l \in Nat
    BY DEF Kept
  <2>2. PICK rows, m :
          /\ Listed(rows, After(w.seen, T[k], R), R) /\ After(w.seen, T[k], R) \subseteq T[k]
          /\ rows \in Seq(U) /\ v.seen \in Seq(U) /\ Grown(w.seen, v.seen, m, rows)
          /\ v.done = ~(Len(rows) > limit)
          /\ m = IF Len(rows) > limit THEN limit ELSE Len(rows)
    BY <1>2, <2>1, PageAdds, Zenon
  <2>3. /\ m \in 0 .. Len(rows) /\ Len(rows) \in Nat /\ Len(v.seen) = l + m
        /\ \A i \in 1 .. l : v.seen[i] = w.seen[i]
        /\ \A i \in 1 .. m : v.seen[l + i] = rows[i]
    BY <2>2 DEF Grown
  <2>4. ASSUME NEW i \in 1 .. l + m, i > l
         PROVE  i - l \in 1 .. m /\ i - l \in 1 .. Len(rows) /\ v.seen[i] = rows[i - l]
    <3>1. i - l \in 1 .. m /\ i - l \in 1 .. Len(rows) /\ l + (i - l) = i
      BY <2>1, <2>3, <2>4
    <3> QED
      BY <2>3, <3>1
  <2>5. /\ \A i \in 1 .. Len(rows) : rows[i] \in After(w.seen, T[k], R) /\ rows[i] \in U
        /\ \A x \in After(w.seen, T[k], R) : \E i \in 1 .. Len(rows) : rows[i] = x
        /\ \A i, j \in 1 .. Len(rows) :
             i < j => <<NextCursorFrom(rows[i]), NextCursorFrom(rows[j])>> \in R
    <3> DEFINE A == After(w.seen, T[k], R)
    <3>1. Listed(rows, A, R) /\ rows \in Seq(U)
      BY <2>2
    <3> HIDE DEF A
    <3>2. /\ \A i \in 1 .. Len(rows) : rows[i] \in A /\ rows[i] \in U
          /\ \A x \in A : \E i \in 1 .. Len(rows) : rows[i] = x
          /\ \A i, j \in 1 .. Len(rows) :
               i < j => <<NextCursorFrom(rows[i]), NextCursorFrom(rows[j])>> \in R
      BY <3>1 DEF Listed
    <3> QED
      BY <3>2 DEF A
  <2>6. v.done = ~(Len(rows) > limit) /\ v.seen \in Seq(U)
    BY <2>2
  <2>7. m = IF Len(rows) > limit THEN limit ELSE Len(rows)
    BY <2>2
  <2>8. l > 0 => \A i \in 1 .. Len(rows) : <<At(l), NextCursorFrom(rows[i])>> \in R
    <3>1. l > 0 => w.seen # <<>>
      BY <2>1
    <3>2. l > 0 => \A x \in After(w.seen, T[k], R) : <<At(l), NextCursorFrom(x)>> \in R
      BY <3>1 DEF After
    <3> QED
      BY <2>5, <3>2
  <2>9. \A i \in 1 .. l : At(i) \in Cursor
    BY <2>1, PlaceOf
  <2>10. \A i \in 1 .. Len(rows) : NextCursorFrom(rows[i]) \in Cursor
    BY <2>5, PlaceOf
  <2>11. \A i \in 1 .. l : i = l \/ <<At(i), At(l)>> \in R
    <3>1. \A i, j \in 1 .. l : i < j => <<At(i), At(j)>> \in R
      BY DEF Kept
    <3> HIDE DEF At, l
    <3> QED
      BY <2>1, <3>1
  <2>12. \A i \in 1 .. l, j \in 1 .. Len(rows) : <<At(i), NextCursorFrom(rows[j])>> \in R
    <3> SUFFICES ASSUME NEW i \in 1 .. l, NEW j \in 1 .. Len(rows)
                 PROVE  <<At(i), NextCursorFrom(rows[j])>> \in R
      OBVIOUS
    <3>1. <<At(l), NextCursorFrom(rows[j])>> \in R /\ l \in 1 .. l
      BY <2>1, <2>8
    <3>2. At(i) \in Cursor /\ At(l) \in Cursor /\ NextCursorFrom(rows[j]) \in Cursor
      BY <2>9, <2>10, <3>1
    <3> HIDE DEF At, l
    <3> QED
      BY <2>11, <3>1, <3>2 DEF StrictOrder
  <2>13. ASSUME NEW i \in 1 .. l + m, NEW j \in 1 .. l + m, i < j
         PROVE  <<NextCursorFrom(v.seen[i]), NextCursorFrom(v.seen[j])>> \in R
    <3>1. CASE j <= l
      <4>1. i \in 1 .. l /\ j \in 1 .. l
        BY <2>1, <2>13, <3>1
      <4>2. <<At(i), At(j)>> \in R
        BY <2>13, <4>1 DEF Kept
      <4> QED
        BY <2>3, <4>1, <4>2
    <3>2. CASE i <= l /\ j > l
      <4>1. /\ i \in 1 .. l /\ v.seen[i] = w.seen[i]
            /\ j - l \in 1 .. Len(rows) /\ v.seen[j] = rows[j - l]
        BY <2>1, <2>3, <2>4, <3>2
      <4> QED
        BY <2>12, <4>1
    <3>3. CASE i > l
      <4>1. /\ i - l \in 1 .. Len(rows) /\ j - l \in 1 .. Len(rows) /\ i - l < j - l
            /\ v.seen[i] = rows[i - l] /\ v.seen[j] = rows[j - l]
        <5>1. j > l /\ i - l < j - l
          BY <2>1, <2>3, <2>13, <3>3
        <5>2. i - l \in 1 .. Len(rows) /\ v.seen[i] = rows[i - l]
          BY <2>4, <3>3
        <5>3. j - l \in 1 .. Len(rows) /\ v.seen[j] = rows[j - l]
          BY <2>4, <5>1
        <5> QED
          BY <5>1, <5>2, <5>3
      <4> QED
        BY <2>5, <4>1
    <3> QED
      BY <2>1, <2>13, <3>1, <3>2, <3>3
  <2>14. ASSUME NEW i \in 1 .. l + m
         PROVE  \E j \in 1 .. k : v.seen[i] \in T[j]
    <3>1. CASE i <= l
      <4>1. i \in 1 .. l /\ v.seen[i] = w.seen[i]
        BY <2>1, <2>3, <3>1
      <4>2. PICK j \in 1 .. k - 1 : w.seen[i] \in T[j]
        BY <4>1 DEF Kept
      <4> QED
        BY <4>1, <4>2
    <3>2. CASE i > l
      <4>1. i - l \in 1 .. Len(rows) /\ v.seen[i] = rows[i - l]
        BY <2>4, <3>2
      <4>2. v.seen[i] \in T[k]
        BY <2>2, <2>5, <4>1
      <4> QED
        BY <4>2
    <3> QED
      BY <2>1, <2>3, <3>1, <3>2
  <2>15. ASSUME NEW c \in Cursor, \A j \in 1 .. k : c \in PlacesOf(T[j])
         PROVE  \/ \E i \in 1 .. l + m : NextCursorFrom(v.seen[i]) = c
                \/ ~v.done /\ (v.seen # <<>> => <<NextCursorFrom(v.seen[Len(v.seen)]), c>> \in R)
    <3>1. \A j \in 1 .. k - 1 : c \in PlacesOf(T[j])
      BY <2>15
    <3>2. \/ \E i \in 1 .. l : At(i) = c
          \/ w.seen # <<>> => <<At(l), c>> \in R
      BY <3>1 DEF Kept
    <3>3. CASE \E i \in 1 .. l : At(i) = c
      <4>1. PICK i \in 1 .. l : At(i) = c
        BY <3>3
      <4>2. i \in 1 .. l + m /\ v.seen[i] = w.seen[i]
        BY <2>1, <2>3
      <4> QED
        BY <4>1, <4>2
    <3>4. CASE w.seen # <<>> => <<At(l), c>> \in R
      <4>1. PICK x \in T[k] : NextCursorFrom(x) = c
        <5>1. k \in 1 .. k
          OBVIOUS
        <5> QED
          BY <2>15, <5>1 DEF PlacesOf
      <4>2. x \in After(w.seen, T[k], R)
        BY <3>4, <4>1 DEF After
      <4>3. PICK i \in 1 .. Len(rows) : rows[i] = x
        BY <2>5, <4>2
      <4>4. CASE i <= m
        <5>1. i \in 1 .. m /\ l + i \in 1 .. l + m /\ v.seen[l + i] = x
          BY <2>1, <2>3, <4>3, <4>4
        <5> QED
          BY <4>1, <5>1
      <4>5. CASE i > m
        <5>1. m < Len(rows) /\ m < i
          BY <2>3, <4>3, <4>5
        <5>2. Len(rows) > limit /\ m = limit
          BY <2>3, <2>7, <5>1
        <5>3. ~v.done /\ m \in 1 .. m /\ m \in 1 .. Len(rows)
          <6>1. v.done = FALSE
            BY <2>6, <5>2
          <6>2. m \in 1 .. m /\ m \in 1 .. Len(rows)
            BY <2>3, <5>1, <5>2
          <6> QED
            BY <6>1, <6>2
        <5>4. <<NextCursorFrom(rows[m]), c>> \in R
          BY <2>5, <4>1, <4>3, <5>1, <5>3
        <5>5. v.seen[Len(v.seen)] = rows[m]
          BY <2>3, <5>3
        <5> QED
          BY <5>3, <5>4, <5>5
      <4> QED
        BY <2>3, <4>4, <4>5
    <3> QED
      BY <3>2, <3>3, <3>4
  <2> QED
    BY <2>3, <2>6, <2>13, <2>14, <2>15 DEF Kept
<1> QED
  BY <1>1, <1>2

\* A walk of n pages: w[k] is the walk after k of them.
Walked(w, T, n, R, limit) ==
  /\ w[0].seen = <<>> /\ w[0].done = FALSE
  /\ \A k \in 1 .. n : Turned(w[k - 1], w[k], T[k], R, limit)

\* A set of natural numbers has a least one.
LEMMA LeastNatural ==
  ASSUME NEW N, N \subseteq Nat, N # {}
  PROVE  \E n \in N : \A m \in N : n <= m
<1>1. PICK n \in N : \A m \in N : ~(<<m, n>> \in OpToRel(<, Nat))
  BY NatLessThanWellFounded, WFMin
<1>2. OpToRel(<, Nat) = {ss \in Nat \X Nat : ss[1] < ss[2]}
  BY DEF OpToRel
<1>3. \A m \in N : ~(m < n)
  BY <1>1, <1>2
<1> QED
  BY <1>3

LEMMA WalkKeeps ==
  ASSUME NEW R, StrictOrder(R), NEW limit \in Nat \ {0}, NEW n \in Nat, NEW U,
         \A x \in U : Keyed(x), NEW T, \A k \in 1 .. n : T[k] \subseteq U,
         NEW w, Walked(w, T, n, R, limit)
  PROVE  \A k \in 0 .. n : Kept(w[k], T, k, U, R)
<1> DEFINE bad == {k \in 0 .. n : ~Kept(w[k], T, k, U, R)}
<1>1. CASE bad = {}
  BY <1>1
<1>2. CASE bad # {}
  <2>1. PICK k \in bad : \A m \in bad : k <= m
    <3>1. bad \subseteq Nat
      OBVIOUS
    <3> HIDE DEF bad
    <3> QED
      BY <1>2, <3>1, LeastNatural
  <2>2. CASE k = 0
    <3>1. /\ w[0].seen \in Seq(U) /\ w[0].seen = <<>> /\ Len(w[0].seen) = 0 /\ ~w[0].done
      BY DEF Walked
    <3>2. Kept(w[0], T, 0, U, R)
      BY <3>1 DEF Kept
    <3> QED
      BY <2>1, <2>2, <3>2
  <2>3. CASE k # 0
    <3>1. k \in Nat \ {0} /\ k \in 1 .. n /\ k - 1 \in 0 .. n /\ k - 1 \notin bad
      BY <2>1, <2>3
    <3>2. Kept(w[k - 1], T, k - 1, U, R) /\ Turned(w[k - 1], w[k], T[k], R, limit)
      BY <3>1 DEF Walked
    <3>3. Kept(w[k], T, k, U, R)
      <4> DEFINE p == w[k - 1]
                 q == w[k]
      <4>1. Kept(p, T, k - 1, U, R) /\ Turned(p, q, T[k], R, limit) /\ T[k] \subseteq U
        BY <3>1, <3>2
      <4> HIDE DEF p, q, bad
      <4>2. Kept(q, T, k, U, R)
        BY <3>1, <4>1, TurnKeeps
      <4> QED
        BY <4>2 DEF q
    <3> QED
      BY <2>1, <3>3
  <2> QED
    BY <2>2, <2>3
<1> QED
  BY <1>1, <1>2

\* Once the list stands still, after page j, each page shows one place more of
\* those it has, and has another ahead, or is the last.
Ahead(w, j, k, P, R) ==
  ~w[k].done =>
    /\ Len(w[k].seen) \in Nat /\ Len(w[j].seen) \in Nat
    /\ Len(w[k].seen) >= Len(w[j].seen) + (k - j)
    /\ \A i \in 1 .. Len(w[k].seen) : i > Len(w[j].seen) => NextCursorFrom(w[k].seen[i]) \in P
    /\ k > j => /\ Len(w[k].seen) > 0
                /\ \E c \in P : <<NextCursorFrom(w[k].seen[Len(w[k].seen)]), c>> \in R

LEMMA TurnAhead ==
  ASSUME NEW R, NEW limit \in Nat \ {0}, NEW U, NEW T, NEW j \in Nat, NEW k \in Nat, j < k,
         T[k] \subseteq U, NEW w, w[j].seen \in Seq(U), w[k - 1].seen \in Seq(U),
         Turned(w[k - 1], w[k], T[k], R, limit), Ahead(w, j, k - 1, PlacesOf(T[k]), R)
  PROVE  Ahead(w, j, k, PlacesOf(T[k]), R)
<1> DEFINE p == w[k - 1]
           q == w[k]
           start == Len(w[j].seen)
           P == PlacesOf(T[k])
           Place(x) == NextCursorFrom(x)
<1> SUFFICES ASSUME ~q.done
             PROVE  /\ Len(q.seen) \in Nat /\ start \in Nat
                    /\ Len(q.seen) >= start + (k - j)
                    /\ \A i \in 1 .. Len(q.seen) : i > start => Place(q.seen[i]) \in P
                    /\ Len(q.seen) > 0
                    /\ \E c \in P : <<Place(q.seen[Len(q.seen)]), c>> \in R
  BY DEF Ahead
<1>1. ~p.done
  BY DEF Turned
<1>2. p.seen \in Seq(U) /\ start \in Nat /\ Len(p.seen) \in Nat
  OBVIOUS
<1>3. /\ Len(p.seen) >= start + (k - 1 - j)
      /\ \A i \in 1 .. Len(p.seen) : i > start => Place(p.seen[i]) \in P
  BY <1>1 DEF Ahead
<1>4. Turned(p, q, T[k], R, limit)
  OBVIOUS
<1> HIDE DEF p, q
<1>5. PICK rows, m :
        /\ Listed(rows, After(p.seen, T[k], R), R) /\ After(p.seen, T[k], R) \subseteq T[k]
        /\ rows \in Seq(U) /\ q.seen \in Seq(U) /\ Grown(p.seen, q.seen, m, rows)
        /\ q.done = ~(Len(rows) > limit)
        /\ m = IF Len(rows) > limit THEN limit ELSE Len(rows)
  BY <1>1, <1>2, <1>4, PageAdds, Zenon
<1>6. Len(rows) > limit
  BY <1>5
<1>7. /\ m = limit /\ Len(rows) \in Nat /\ m \in 1 .. Len(rows) /\ m + 1 \in 1 .. Len(rows)
  BY <1>5, <1>6
<1>8. /\ Len(q.seen) = Len(p.seen) + m
      /\ \A i \in 1 .. Len(p.seen) : q.seen[i] = p.seen[i]
      /\ \A i \in 1 .. m : q.seen[Len(p.seen) + i] = rows[i]
  BY <1>5 DEF Grown
<1>9. \A i \in 1 .. Len(rows) : Place(rows[i]) \in P
  <2>1. rows \in Seq(After(p.seen, T[k], R))
    BY <1>5 DEF Listed
  <2>2. \A i \in 1 .. Len(rows) : rows[i] \in T[k]
    BY <1>5, <2>1
  <2> QED
    BY <2>2 DEF PlacesOf
<1>10. <<Place(rows[m]), Place(rows[m + 1])>> \in R
  <2>1. \A a, b \in 1 .. Len(rows) : a < b => <<Place(rows[a]), Place(rows[b])>> \in R
    BY <1>5 DEF Listed
  <2>2. m < m + 1
    BY <1>7
  <2> HIDE DEF Place
  <2> QED
    BY <1>7, <2>1, <2>2
<1>11. q.seen[Len(q.seen)] = rows[m]
  <2>1. m \in 1 .. m
    BY <1>7
  <2> QED
    BY <1>8, <2>1
<1>12. ASSUME NEW i \in 1 .. Len(q.seen), i > start
       PROVE  Place(q.seen[i]) \in P
  <2>1. CASE i <= Len(p.seen)
    <3>1. i \in 1 .. Len(p.seen) /\ q.seen[i] = p.seen[i]
      BY <1>2, <1>8, <2>1
    <3> QED
      BY <1>3, <1>12, <3>1
  <2>2. CASE i > Len(p.seen)
    <3>1. i - Len(p.seen) \in 1 .. m /\ Len(p.seen) + (i - Len(p.seen)) = i
      BY <1>2, <1>7, <1>8, <2>2
    <3>2. i - Len(p.seen) \in 1 .. Len(rows) /\ q.seen[i] = rows[i - Len(p.seen)]
      BY <1>7, <1>8, <3>1
    <3> QED
      BY <1>9, <3>2
  <2> QED
    BY <1>2, <2>1, <2>2
<1>13. \E c \in P : <<Place(q.seen[Len(q.seen)]), c>> \in R
  BY <1>7, <1>9, <1>10, <1>11
<1>14. Len(q.seen) \in Nat /\ Len(q.seen) >= start + (k - j) /\ Len(q.seen) > 0
  <2> HIDE DEF start
  <2> QED
    BY <1>2, <1>3, <1>7, <1>8
<1> QED
  BY <1>2, <1>12, <1>13, <1>14

LEMMA PlacesFinite ==
  ASSUME NEW S, IsFiniteSet(S)
  PROVE  IsFiniteSet(PlacesOf(S))
<1> DEFINE f == [x \in S |-> NextCursorFrom(x)]
<1>1. f \in Surjection(S, PlacesOf(S))
  BY DEF PlacesOf, Surjection
<1> QED
  BY <1>1, FS_Surjection

\* A list that stands still has as many pages at most as places.
LEMMA WalkEnds ==
  ASSUME NEW R, StrictOrder(R), NEW limit \in Nat \ {0}, NEW n \in Nat, NEW U,
         \A x \in U : Keyed(x), NEW T, \A k \in 1 .. n : T[k] \subseteq U,
         NEW w, Walked(w, T, n, R, limit), NEW j \in 0 .. n - 1, IsFiniteSet(T[n]),
         \A k \in j + 1 .. n : PlacesOf(T[k]) = PlacesOf(T[n]),
         n - j >= Cardinality(PlacesOf(T[n]))
  PROVE  w[n].done
<1> DEFINE P == PlacesOf(T[n])
           bad == {k \in 0 .. n : k >= j /\ ~Ahead(w, j, k, P, R)}
<1>1. \A k \in 0 .. n : Kept(w[k], T, k, U, R) /\ w[k].seen \in Seq(U)
  BY WalkKeeps DEF Kept
<1>2. \A k \in 0 .. n : k >= j => Ahead(w, j, k, P, R)
  <2>1. CASE bad = {}
    BY <2>1
  <2>2. CASE bad # {}
    <3>1. PICK k \in bad : \A m \in bad : k <= m
      <4>1. bad \subseteq Nat
        OBVIOUS
      <4> HIDE DEF bad
      <4> QED
        BY <2>2, <4>1, LeastNatural
    <3>2. CASE k = j
      <4>1. w[j].seen \in Seq(U) /\ Len(w[j].seen) \in Nat
        BY <1>1
      <4>2. Ahead(w, j, j, P, R)
        BY <4>1 DEF Ahead
      <4> QED
        BY <3>1, <3>2, <4>2
    <3>3. CASE k # j
      <4>1. /\ k \in Nat /\ j \in Nat /\ j < k /\ k \in 1 .. n /\ k \in j + 1 .. n
            /\ k - 1 \in 0 .. n /\ j \in 0 .. n /\ k - 1 >= j /\ k - 1 \notin bad
        BY <3>1, <3>3
      <4>2. Ahead(w, j, k - 1, P, R) /\ P = PlacesOf(T[k]) /\ T[k] \subseteq U
        BY <4>1
      <4>3. w[j].seen \in Seq(U) /\ w[k - 1].seen \in Seq(U)
        BY <1>1, <4>1
      <4>4. Turned(w[k - 1], w[k], T[k], R, limit)
        BY <4>1 DEF Walked
      <4> HIDE DEF P, bad
      <4>5. Ahead(w, j, k, P, R)
        BY <4>1, <4>2, <4>3, <4>4, TurnAhead
      <4> QED
        BY <3>1, <4>5 DEF bad
    <3> QED
      BY <3>2, <3>3
  <2> QED
    BY <2>1, <2>2
<1> SUFFICES ASSUME ~w[n].done
             PROVE  FALSE
  OBVIOUS
<1> DEFINE s == w[n].seen
           L == Len(w[j].seen)
           M == Len(s)
           Place(x) == NextCursorFrom(x)
<1>3. /\ M \in Nat /\ L \in Nat /\ M >= L + (n - j) /\ M > 0
      /\ \A i \in 1 .. M : i > L => Place(s[i]) \in P
      /\ \E c \in P : <<Place(s[M]), c>> \in R
  <2>1. Ahead(w, j, n, P, R) /\ n > j /\ ~w[n].done
    BY <1>2
  <2> HIDE DEF P
  <2> QED
    BY <2>1 DEF Ahead
<1>4. PICK c \in P : <<Place(s[M]), c>> \in R
  BY <1>3
<1>5. /\ s \in Seq(U)
      /\ \A a, b \in 1 .. M : a < b => <<Place(s[a]), Place(s[b])>> \in R
  <2>1. Kept(w[n], T, n, U, R)
    BY <1>1
  <2> QED
    BY <2>1 DEF Kept
<1>6. \A i \in 1 .. M : Place(s[i]) \in Cursor
  BY <1>5, PlaceOf
<1>7. c \in Cursor
  <2>1. PICK x \in T[n] : c = NextCursorFrom(x)
    BY DEF PlacesOf
  <2>2. x \in U
    <3>1. n \in 1 .. n
      OBVIOUS
    <3> QED
      BY <3>1
  <2> QED
    BY <2>1, <2>2, PlaceOf
<1> HIDE DEF s, L, M, P, Place
<1>8. \A a \in 1 .. M : <<Place(s[a]), c>> \in R
  <2> SUFFICES ASSUME NEW a \in 1 .. M
               PROVE  <<Place(s[a]), c>> \in R
    OBVIOUS
  <2>1. M \in 1 .. M /\ (a = M \/ a < M)
    BY <1>3
  <2>2. a < M => <<Place(s[a]), Place(s[M])>> \in R
    BY <1>5, <2>1
  <2> QED
    BY <1>4, <1>6, <1>7, <2>1, <2>2 DEF StrictOrder
<1>9. \A a \in 1 .. M : Place(s[a]) # c
  BY <1>6, <1>8 DEF StrictOrder
<1>10. \A a, b \in 1 .. M : a # b => Place(s[a]) # Place(s[b])
  <2> SUFFICES ASSUME NEW a \in 1 .. M, NEW b \in 1 .. M, a # b
               PROVE  Place(s[a]) # Place(s[b])
    OBVIOUS
  <2>1. <<Place(s[a]), Place(s[b])>> \in R \/ <<Place(s[b]), Place(s[a])>> \in R
    BY <1>5
  <2> QED
    BY <1>6, <2>1 DEF StrictOrder
<1> DEFINE spots == 1 .. M - L + 1
           f == [i \in spots |-> IF i = M - L + 1 THEN c ELSE Place(s[L + i])]
<1>11. \A i \in spots : i # M - L + 1 => L + i \in 1 .. M /\ L + i > L
  BY <1>3
<1>12. f \in [spots -> P]
  BY <1>3, <1>4, <1>11
<1>13. ASSUME NEW a \in spots, NEW b \in spots, a # b
       PROVE  f[a] # f[b]
  <2>1. CASE a = M - L + 1
    BY <1>9, <1>11, <1>13, <2>1
  <2>2. CASE b = M - L + 1
    BY <1>9, <1>11, <1>13, <2>2
  <2>3. CASE a # M - L + 1 /\ b # M - L + 1
    <3>1. L + a \in 1 .. M /\ L + b \in 1 .. M /\ L + a # L + b
      BY <1>3, <1>11, <1>13, <2>3
    <3>2. f[a] = Place(s[L + a]) /\ f[b] = Place(s[L + b])
      BY <2>3
    <3> QED
      BY <1>10, <3>1, <3>2
  <2> QED
    BY <2>1, <2>2, <2>3
<1>14. f \in Injection(spots, P)
  BY <1>12, <1>13 DEF Injection, IsInjective
<1>15. IsFiniteSet(P)
  BY PlacesFinite DEF P
<1>16. Cardinality(spots) <= Cardinality(P)
  <2> HIDE DEF f, spots
  <2> QED
    BY <1>14, <1>15, FS_Injection
<1>17. M - L + 1 \in Nat /\ Cardinality(spots) = M - L + 1
  <2>1. M - L + 1 \in Nat /\ M - L + 1 >= 1
    BY <1>3
  <2> QED
    BY <2>1, FS_Interval
<1>18. Cardinality(P) \in Nat /\ Cardinality(P) <= n - j
  BY <1>15, FS_CardinalityType DEF P
<1> QED
  BY <1>3, <1>16, <1>17, <1>18

\* What a walk promises, with the order of the places as a relation.
Promised(w, T, n, R) ==
  LET seen == w[n].seen
  IN  /\ DOMAIN seen = 1 .. Len(seen)
      /\ \A i, j \in 1 .. Len(seen) :
           i < j => <<NextCursorFrom(seen[i]), NextCursorFrom(seen[j])>> \in R
      /\ \A i \in 1 .. Len(seen) : \E k \in 1 .. n : NextCursorFrom(seen[i]) \in PlacesOf(T[k])
      /\ w[n].done =>
           \A place \in PlacesOf(T[1]) :
             (\A k \in 2 .. n : place \in PlacesOf(T[k])) =>
               \E i \in 1 .. Len(seen) : NextCursorFrom(seen[i]) = place
      /\ \A j \in 0 .. n - 1 :
           /\ \A k \in j + 1 .. n : PlacesOf(T[k]) = PlacesOf(T[n])
           /\ n - j >= Cardinality(PlacesOf(T[n]))
           => w[n].done

\* Every walk keeps it.
LEMMA WalkedLikeOneList ==
  ASSUME NEW R, StrictOrder(R), NEW limit \in Nat \ {0}, NEW n \in Nat,
         NEW T, \A k \in 1 .. n : Queried(T[k]), NEW w, Walked(w, T, n, R, limit)
  PROVE  Promised(w, T, n, R)
<1> DEFINE U == UNION {T[k] : k \in 1 .. n}
           seen == w[n].seen
           Place(x) == NextCursorFrom(x)
<1>1. \A x \in U : Keyed(x)
  BY DEF Queried
<1>2. \A k \in 1 .. n : T[k] \subseteq U
  OBVIOUS
<1> HIDE DEF U
<1>3. Kept(w[n], T, n, U, R)
  <2>1. \A k \in 0 .. n : Kept(w[k], T, k, U, R)
    BY <1>1, <1>2, WalkKeeps
  <2>2. n \in 0 .. n
    OBVIOUS
  <2> QED
    BY <2>1, <2>2
<1>4. /\ seen \in Seq(U)
      /\ \A i, j \in 1 .. Len(seen) : i < j => <<Place(seen[i]), Place(seen[j])>> \in R
      /\ \A i \in 1 .. Len(seen) : \E k \in 1 .. n : seen[i] \in T[k]
      /\ w[n].done => \A c \in Cursor : (\A k \in 1 .. n : c \in PlacesOf(T[k])) =>
                        \E i \in 1 .. Len(seen) : Place(seen[i]) = c
  BY <1>3 DEF Kept
<1>5. \A i \in 1 .. Len(seen) : \E k \in 1 .. n : Place(seen[i]) \in PlacesOf(T[k])
  BY <1>4 DEF PlacesOf
<1>6. ASSUME w[n].done, NEW place \in PlacesOf(T[1]), \A k \in 2 .. n : place \in PlacesOf(T[k])
      PROVE  \E i \in 1 .. Len(seen) : Place(seen[i]) = place
  <2>1. n # 0
    BY <1>6 DEF Walked
  <2>2. \A k \in 1 .. n : place \in PlacesOf(T[k])
    BY <1>6
  <2>3. place \in Cursor
    <3>1. PICK x \in T[1] : place = NextCursorFrom(x)
      BY DEF PlacesOf
    <3>2. Keyed(x)
      BY <1>1, <1>2, <2>1
    <3> QED
      BY <3>1, <3>2, PlaceOf
  <2> QED
    BY <1>4, <1>6, <2>2, <2>3
<1>7. ASSUME NEW j \in 0 .. n - 1, \A k \in j + 1 .. n : PlacesOf(T[k]) = PlacesOf(T[n]),
             n - j >= Cardinality(PlacesOf(T[n]))
      PROVE  w[n].done
  <2>1. IsFiniteSet(T[n])
    BY DEF Queried
  <2> QED
    BY <1>1, <1>2, <1>7, <2>1, WalkEnds
<1>8. DOMAIN seen = 1 .. Len(seen)
  BY <1>4
<1> QED
  BY <1>4, <1>5, <1>6, <1>7, <1>8 DEF Promised

-----------------------------------------------------------------------------
(* The walks of the program.  A list is cut from S, the rows it has, by    *)
(* the cursor; o: is it the list of orders?                                *)

OrderOf(o) == IF o THEN OrdersOrder ELSE ListOrder

PageFrom(o, next, S, limit) ==
  IF o
  THEN Page(InOrder({x \in S : next = NULL \/ OrderCursorWhere(next, x)}, OrderPrecedes), limit)
  ELSE Page(InOrder({x \in S : next = NULL \/ CursorWhere(next, x)}, Precedes), limit)

Outset == [seen |-> <<>>, next |-> NULL, done |-> FALSE]

\* The walk after one more page.
With(walk, page) ==
  IF walk.done THEN walk
  ELSE [seen |-> walk.seen \o page.items, next |-> page.next, done |-> ~page.more]

\* The k-th state of the walk f.
Then(o, T, limit, f, k) ==
  IF k = 0 THEN Outset ELSE With(f[k - 1], PageFrom(o, f[k - 1].next, T[k], limit))

\* f is the walk of n pages.
Follows(f, o, T, limit, n) == f = [k \in 0 .. n |-> Then(o, T, limit, f, k)]

\* There is a walk of any length.
LEMMA WalkExists ==
  ASSUME NEW o, NEW T, NEW limit, NEW n \in Nat
  PROVE  \E f : Follows(f, o, T, limit, n)
<1> DEFINE Long(m) == \E f : Follows(f, o, T, limit, m)
           bad == {m \in Nat : ~Long(m)}
<1>1. CASE bad = {}
  BY <1>1
<1>2. CASE bad # {}
  <2>1. PICK m \in bad : \A b \in bad : m <= b
    BY <1>2, LeastNatural
  <2>2. CASE m = 0
    <3> DEFINE f == [k \in 0 .. 0 |-> Then(o, T, limit, <<>>, 0)]
    <3>1. f = [k \in 0 .. 0 |-> Then(o, T, limit, f, k)]
      BY DEF Then
    <3> QED
      BY <2>1, <2>2, <3>1 DEF Follows
  <2>3. CASE m # 0
    <3>1. m - 1 \in Nat /\ m - 1 \notin bad
      BY <2>1, <2>3
    <3>2. PICK f : f = [k \in 0 .. m - 1 |-> Then(o, T, limit, f, k)]
      BY <3>1 DEF Follows
    <3> DEFINE g == [k \in 0 .. m |-> IF k = m THEN Then(o, T, limit, f, m) ELSE f[k]]
    <3>3. ASSUME NEW k \in 0 .. m
          PROVE  g[k] = Then(o, T, limit, g, k)
      <4>1. CASE k = 0
        <5>1. 0 \in 0 .. m /\ 0 \in 0 .. m - 1 /\ 0 # m
          BY <2>3, <3>1
        <5>2. g[0] = f[0] /\ f[0] = Then(o, T, limit, f, 0)
          BY <3>2, <5>1
        <5> QED
          BY <4>1, <5>2 DEF Then
      <4>2. CASE k # 0
        <5>1. g[k - 1] = f[k - 1]
          BY <4>2
        <5>2. Then(o, T, limit, f, k) = Then(o, T, limit, g, k)
          BY <4>2, <5>1 DEF Then
        <5>3. k # m => f[k] = Then(o, T, limit, f, k)
          BY <3>2
        <5> QED
          BY <5>2, <5>3
      <4> QED
        BY <4>1, <4>2
    <3>4. g = [k \in 0 .. m |-> Then(o, T, limit, g, k)]
      BY <3>3
    <3> QED
      BY <2>1, <3>4 DEF Follows
  <2> QED
    BY <2>2, <2>3
<1> QED
  BY <1>1, <1>2

\* As long as it goes on, a walk asks for what comes after the row it showed last.
Linked(w, U) ==
  /\ w.seen \in Seq(U)
  /\ ~w.done => w.next = IF w.seen = <<>> THEN NULL ELSE NextCursorFrom(w.seen[Len(w.seen)])

\* So the cursor finds the rows after that one.
LEMMA CursorFinds ==
  ASSUME NEW o, NEW w, NEW U, \A x \in U : Keyed(x), Linked(w, U), ~w.done,
         NEW S, S \subseteq U
  PROVE  After(w.seen, S, OrderOf(o)) =
           {x \in S : w.next = NULL \/ IF o THEN OrderCursorWhere(w.next, x)
                                         ELSE CursorWhere(w.next, x)}
<1>1. CASE w.seen = <<>>
  BY <1>1 DEF After, Linked
<1>2. CASE w.seen # <<>>
  <2> DEFINE last == w.seen[Len(w.seen)]
             Place(x) == NextCursorFrom(x)
  <2>1. w.next = Place(last) /\ last \in U
    BY <1>2 DEF Linked
  <2>2. Keyed(last) /\ Place(last) \in Cursor /\ w.next # NULL
    BY <2>1, PlaceOf, NullAssumption
  <2>3. ASSUME NEW x \in S
        PROVE  <<Place(last), Place(x)>> \in OrderOf(o)
                 <=> IF o THEN OrderCursorWhere(w.next, x) ELSE CursorWhere(w.next, x)
    <3>1. Keyed(x) /\ Place(x) \in Cursor
      BY PlaceOf
    <3>2. /\ <<Place(last), Place(x)>> \in ListOrder <=> CursorWhere(Place(last), x)
          /\ <<Place(last), Place(x)>> \in OrdersOrder <=> OrderCursorWhere(Place(last), x)
      BY <2>2, <3>1
         DEF ListOrder, OrdersOrder, Precedes, OrderPrecedes, CursorWhere, OrderCursorWhere,
             NextCursorFrom, Keyed
    <3> QED
      BY <2>1, <3>2 DEF OrderOf
  <2>4. After(w.seen, S, OrderOf(o)) = {x \in S : <<Place(last), Place(x)>> \in OrderOf(o)}
    BY <1>2 DEF After
  <2> QED
    BY <2>2, <2>3, <2>4
<1> QED
  BY <1>1, <1>2

\* One more page of the list is one more turn of the walk.
LEMMA PageTurns ==
  ASSUME NEW o \in BOOLEAN, NEW limit \in Nat \ {0}, NEW U, \A x \in U : Keyed(x),
         NEW S, S \subseteq U, Queried(S), NEW w, Linked(w, U)
  PROVE  LET v == With(w, PageFrom(o, w.next, S, limit))
         IN  Turned(w, v, S, OrderOf(o), limit) /\ Linked(v, U)
<1> DEFINE v == With(w, PageFrom(o, w.next, S, limit))
           found == {x \in S : w.next = NULL \/ IF o THEN OrderCursorWhere(w.next, x)
                                                     ELSE CursorWhere(w.next, x)}
           rows == IF o THEN InOrder(found, OrderPrecedes) ELSE InOrder(found, Precedes)
           many == Len(rows) > limit
           items == IF many THEN SubSeq(rows, 1, limit) ELSE rows
<1>1. CASE w.done
  BY <1>1 DEF With, Turned
<1>2. CASE ~w.done
  <2>1. After(w.seen, S, OrderOf(o)) = found
    BY <1>2, CursorFinds
  <2>2. Queried(found)
    <3>1. found \in SUBSET S
      OBVIOUS
    <3> HIDE DEF found
    <3> QED
      BY <3>1, QueriedPart
  <2>3. Listed(rows, found, OrderOf(o))
    <3> HIDE DEF found
    <3>1. /\ Listed(InOrder(found, Precedes), found, ListOrder)
          /\ Listed(InOrder(found, OrderPrecedes), found, OrdersOrder)
      BY <2>2, InListOrder, InOrdersOrder
    <3> QED
      BY <3>1 DEF OrderOf
  <2>4. PageFrom(o, w.next, S, limit) = Page(rows, limit)
    <3>1. CASE o
      BY <3>1 DEF PageFrom
    <3>2. CASE ~o
      BY <3>2 DEF PageFrom
    <3> QED
      BY <3>1, <3>2
  <2> HIDE DEF rows
  <2> DEFINE page == Page(rows, limit)
  <2>5. /\ page.items = items /\ page.more = many
        /\ page.next = IF many THEN NextCursorFrom(items[limit]) ELSE NULL
    BY DEF Page
  <2> HIDE DEF page, items, many
  <2>6. /\ v.seen = w.seen \o items /\ v.done = ~many
        /\ v.next = IF many THEN NextCursorFrom(items[limit]) ELSE NULL
    BY <1>2, <2>4, <2>5 DEF With, page
  <2> HIDE DEF v
  <2>7. Turned(w, v, S, OrderOf(o), limit)
    <3>1. Listed(rows, After(w.seen, S, OrderOf(o)), OrderOf(o))
      BY <2>1, <2>3
    <3> HIDE DEF found
    <3> QED
      BY <1>2, <2>6, <3>1 DEF Turned, items, many
  <2>8. rows \in Seq(U)
    <3>1. rows \in Seq(found) /\ found \subseteq U
      BY <2>3 DEF Listed
    <3> HIDE DEF found
    <3> QED
      BY <3>1
  <2>9. /\ items \in Seq(U)
        /\ many => Len(items) = limit
    BY <2>8 DEF items, many
  <2>10. w.seen \in Seq(U)
    BY DEF Linked
  <2> HIDE DEF found
  <2>11. /\ w.seen \o items \in Seq(U)
         /\ Len(w.seen \o items) = Len(w.seen) + Len(items)
         /\ \A i \in 1 .. Len(items) : (w.seen \o items)[Len(w.seen) + i] = items[i]
    BY <2>9, <2>10, Joined
  <2>12. ASSUME many
         PROVE  /\ w.seen \o items # <<>>
                /\ (w.seen \o items)[Len(w.seen \o items)] = items[limit]
    <3>1. Len(items) = limit /\ limit \in 1 .. Len(items)
      BY <2>9, <2>12
    <3>2. Len(w.seen) \in Nat
      BY <2>10
    <3>3. Len(w.seen \o items) # 0
      BY <2>11, <3>1, <3>2
    <3> QED
      BY <2>11, <3>1, <3>3
  <2>13. Linked(v, U)
    BY <2>6, <2>11, <2>12 DEF Linked
  <2> QED
    BY <2>7, <2>13 DEF v
<1> QED
  BY <1>1, <1>2

\* So a walk of the program is one the theorems above are about.
LEMMA WalkIsWalked ==
  ASSUME NEW o \in BOOLEAN, NEW limit \in Nat \ {0}, NEW n \in Nat,
         NEW T, \A k \in 1 .. n : Queried(T[k]),
         NEW f, Follows(f, o, T, limit, n)
  PROVE  Walked(f, T, n, OrderOf(o), limit)
<1> DEFINE U == UNION {T[k] : k \in 1 .. n}
           bad == {k \in 0 .. n : ~Linked(f[k], U)}
<1>1. \A x \in U : Keyed(x)
  BY DEF Queried
<1>2. \A k \in 1 .. n : T[k] \subseteq U
  OBVIOUS
<1> HIDE DEF U
<1>3. \A k \in 0 .. n : f[k] = Then(o, T, limit, f, k)
  BY DEF Follows
<1>4. f[0] = Outset
  <2>1. 0 \in 0 .. n
    OBVIOUS
  <2> QED
    BY <1>3, <2>1 DEF Then
<1>5. ASSUME NEW k \in 1 .. n
      PROVE  f[k] = With(f[k - 1], PageFrom(o, f[k - 1].next, T[k], limit)) /\ k - 1 \in 0 .. n
  <2>1. k \in 0 .. n /\ k # 0
    OBVIOUS
  <2> QED
    BY <1>3, <2>1 DEF Then
<1>6. ASSUME NEW k \in 1 .. n, Linked(f[k - 1], U)
      PROVE  Turned(f[k - 1], f[k], T[k], OrderOf(o), limit) /\ Linked(f[k], U)
  <2> DEFINE v == With(f[k - 1], PageFrom(o, f[k - 1].next, T[k], limit))
  <2>1. T[k] \subseteq U /\ Queried(T[k])
    BY <1>2
  <2>2. Turned(f[k - 1], v, T[k], OrderOf(o), limit) /\ Linked(v, U)
    BY <1>1, <1>6, <2>1, PageTurns
  <2>3. f[k] = v
    BY <1>5
  <2> QED
    BY <2>2, <2>3
<1>7. bad = {}
  <2> SUFFICES ASSUME bad # {}
               PROVE  FALSE
    OBVIOUS
  <2>1. PICK k \in bad : \A m \in bad : k <= m
    <3>1. bad \subseteq Nat
      OBVIOUS
    <3> HIDE DEF bad
    <3> QED
      BY <3>1, LeastNatural
  <2>2. k # 0
    <3>1. Outset.seen = <<>> /\ Outset.next = NULL /\ <<>> \in Seq(U)
      BY DEF Outset
    <3>2. Linked(f[0], U)
      BY <1>4, <3>1 DEF Linked
    <3> QED
      BY <2>1, <3>2
  <2>3. k \in 1 .. n /\ k - 1 \in 0 .. n /\ ~(k <= k - 1)
    BY <2>1, <2>2
  <2>4. k - 1 \notin bad
    BY <2>1, <2>3
  <2> QED
    BY <1>6, <2>1, <2>3, <2>4
<1>8. \A k \in 1 .. n : Turned(f[k - 1], f[k], T[k], OrderOf(o), limit)
  BY <1>5, <1>6, <1>7
<1>9. f[0].seen = <<>> /\ f[0].done = FALSE
  BY <1>4 DEF Outset
<1> QED
  BY <1>8, <1>9 DEF Walked

\* What a walk of the program promises.
LEMMA WalkLikeOneList ==
  ASSUME NEW o \in BOOLEAN, NEW limit \in Nat \ {0}, NEW n \in Nat,
         NEW T, \A k \in 1 .. n : Queried(T[k]),
         NEW f, Follows(f, o, T, limit, n),
         NEW lists, Len(lists) = n, \A k \in 1 .. n : lists[k] = PlacesOf(T[k])
  PROVE  IF o THEN LikeOneList(f, lists, OrderPrecedes) ELSE LikeOneList(f, lists, Precedes)
<1> DEFINE R == OrderOf(o)
           rows == f[n].seen
           places == [i \in DOMAIN rows |-> NextCursorFrom(rows[i])]
<1>1. StrictOrder(R)
  BY ListOrderStrict, OrdersOrderStrict DEF OrderOf
<1>2. Walked(f, T, n, R, limit)
  BY WalkIsWalked
<1> HIDE DEF R
<1>3. Promised(f, T, n, R)
  BY <1>1, <1>2, WalkedLikeOneList
<1>4. /\ DOMAIN rows = 1 .. Len(rows)
      /\ \A i, j \in 1 .. Len(rows) :
           i < j => <<NextCursorFrom(rows[i]), NextCursorFrom(rows[j])>> \in R
      /\ \A i \in 1 .. Len(rows) : \E k \in 1 .. n : NextCursorFrom(rows[i]) \in PlacesOf(T[k])
      /\ f[n].done =>
           \A place \in PlacesOf(T[1]) :
             (\A k \in 2 .. n : place \in PlacesOf(T[k])) =>
               \E i \in 1 .. Len(rows) : NextCursorFrom(rows[i]) = place
      /\ \A j \in 0 .. n - 1 :
           /\ \A k \in j + 1 .. n : PlacesOf(T[k]) = PlacesOf(T[n])
           /\ n - j >= Cardinality(PlacesOf(T[n]))
           => f[n].done
  BY <1>3 DEF Promised
<1>5. n = 0 => f[n].done = FALSE
  BY <1>2 DEF Walked
<1> HIDE DEF rows
<1>6. /\ DOMAIN places = 1 .. Len(rows)
      /\ \A i \in 1 .. Len(rows) : places[i] = NextCursorFrom(rows[i])
  BY <1>4
<1> HIDE DEF places
<1>7. \A i, j \in DOMAIN places : i < j => <<places[i], places[j]>> \in R
  BY <1>4, <1>6
<1>8. \A i \in DOMAIN places : \E k \in 1 .. n : places[i] \in lists[k]
  BY <1>4, <1>6
<1>9. ASSUME f[n].done, NEW place \in lists[1], \A k \in 2 .. n : place \in lists[k]
      PROVE  \E i \in DOMAIN places : places[i] = place
  <2>1. n # 0 /\ 1 \in 1 .. n
    BY <1>5, <1>9
  <2>2. place \in PlacesOf(T[1])
    BY <2>1
  <2>3. \A k \in 2 .. n : place \in PlacesOf(T[k])
    <3> SUFFICES ASSUME NEW k \in 2 .. n
                 PROVE  place \in PlacesOf(T[k])
      OBVIOUS
    <3>1. k \in 1 .. n
      OBVIOUS
    <3> QED
      BY <1>9, <3>1
  <2> QED
    BY <1>4, <1>6, <1>9, <2>2, <2>3
<1>10. ASSUME NEW j \in 0 .. n - 1, \A k \in j + 1 .. n : lists[k] = lists[n],
             n - j >= Cardinality(lists[n])
      PROVE  f[n].done
  <2>1. n \in 1 .. n
    OBVIOUS
  <2>2. lists[n] = PlacesOf(T[n])
    BY <2>1
  <2>3. \A k \in j + 1 .. n : PlacesOf(T[k]) = PlacesOf(T[n])
    <3> SUFFICES ASSUME NEW k \in j + 1 .. n
                 PROVE  PlacesOf(T[k]) = PlacesOf(T[n])
      OBVIOUS
    <3>1. k \in 1 .. n
      OBVIOUS
    <3> QED
      BY <1>10, <2>2, <3>1
  <2> QED
    BY <1>4, <1>10, <2>2, <2>3
<1>11. CASE o
  <2>1. \A i, j \in DOMAIN places : i < j => OrderPrecedes(places[i], places[j])
    BY <1>7, <1>11 DEF R, OrderOf, OrdersOrder
  <2> QED
    BY <1>8, <1>9, <1>10, <1>11, <2>1 DEF LikeOneList, places, rows
<1>12. CASE ~o
  <2>1. \A i, j \in DOMAIN places : i < j => Precedes(places[i], places[j])
    BY <1>7, <1>12 DEF R, OrderOf, ListOrder
  <2> QED
    BY <1>8, <1>9, <1>10, <1>12, <2>1 DEF LikeOneList, places, rows
<1> QED
  BY <1>11, <1>12

-----------------------------------------------------------------------------
(* The seven lists of the program                                          *)

\* What a request may ask of a list.  The limit of the list of orders is
\* clamped, the others' is checked before.
IsInput(list, input) ==
  IF list = "orders"
  THEN /\ input = [status |-> input.status, from |-> input.from, to |-> input.to,
                   cursor |-> input.cursor, limit |-> input.limit]
       /\ input.limit \in Int
  ELSE /\ input = [q |-> input.q, locale |-> input.locale, category |-> input.category,
                   charityId |-> input.charityId, cursor |-> input.cursor, limit |-> input.limit,
                   includeArchived |-> input.includeArchived,
                   includeDeleted |-> input.includeDeleted]
       /\ input.limit \in Nat \ {0}

LimitOf(list, input) ==
  IF list = "orders"
  THEN IF input.limit > 50 THEN 50 ELSE IF input.limit < 1 THEN 1 ELSE input.limit
  ELSE input.limit

OrdersFound(orders, input) ==
  {o \in orders : /\ input.status = NULL \/ o.status = input.status
                  /\ input.from = NULL \/ o.created >= input.from
                  /\ input.to = NULL \/ o.created < input.to}

\* The rows of the whole list at a moment.
RowsOf(moment, input) ==
  LET tables == moment.tables
      all    == [input EXCEPT !.cursor = NULL]
  IN  CASE moment.list = "charities" -> PublicCharities(tables, moment.now, all)
        [] moment.list = "projects" -> PublicChildren(tables, tables.projects, moment.now, all)
        [] moment.list = "sales" -> PublicChildren(tables, tables.sales, moment.now, all)
        [] moment.list = "charitiesForAdmin" -> AdminCharities(tables, all)
        [] moment.list = "projectsForAdmin" -> AdminChildren(tables, tables.projects, all)
        [] moment.list = "salesForAdmin" -> AdminChildren(tables, tables.sales, all)
        [] moment.list = "orders" -> OrdersFound(tables.orders, input)

\* Of an input only the cursor changes from page to page.
LEMMA AskedFields ==
  ASSUME NEW list \in CatalogueListNames, NEW input, IsInput(list, input), NEW c
  PROVE  LET asked == [input EXCEPT !.cursor = c]
             all   == [input EXCEPT !.cursor = NULL]
         IN  /\ asked.cursor = c /\ asked.limit = input.limit /\ all.cursor = NULL
             /\ asked.q = all.q /\ asked.locale = all.locale /\ asked.category = all.category
             /\ asked.charityId = all.charityId
             /\ asked.includeArchived = all.includeArchived
             /\ asked.includeDeleted = all.includeDeleted
<1> DEFINE made == [q |-> input.q, locale |-> input.locale, category |-> input.category,
                    charityId |-> input.charityId, cursor |-> input.cursor, limit |-> input.limit,
                    includeArchived |-> input.includeArchived,
                    includeDeleted |-> input.includeDeleted]
<1>1. input = made
  BY DEF IsInput, CatalogueListNames
<1>2. \A d : [made EXCEPT !.cursor = d] =
               [q |-> input.q, locale |-> input.locale, category |-> input.category,
                charityId |-> input.charityId, cursor |-> d, limit |-> input.limit,
                includeArchived |-> input.includeArchived,
                includeDeleted |-> input.includeDeleted]
  OBVIOUS
<1>3. \A d : [input EXCEPT !.cursor = d] =
               [q |-> input.q, locale |-> input.locale, category |-> input.category,
                charityId |-> input.charityId, cursor |-> d, limit |-> input.limit,
                includeArchived |-> input.includeArchived,
                includeDeleted |-> input.includeDeleted]
  BY <1>1, <1>2
<1> QED
  BY <1>3

\* A page of a catalogue list is cut from its rows by the cursor.
LEMMA CatalogueTurn ==
  ASSUME NEW moment, moment.list \in CatalogueListNames,
         NEW input, IsInput(moment.list, input), NEW c
  PROVE  Served(moment, [input EXCEPT !.cursor = c]) =
           PageFrom(FALSE, c, RowsOf(moment, input), input.limit)
<1> DEFINE tables == moment.tables
           now == moment.now
           asked == [input EXCEPT !.cursor = c]
           all == [input EXCEPT !.cursor = NULL]
           Cut(S) == {x \in S : c = NULL \/ CursorWhere(c, x)}
<1>1. /\ asked.cursor = c /\ asked.limit = input.limit /\ all.cursor = NULL
      /\ asked.q = all.q /\ asked.locale = all.locale /\ asked.category = all.category
      /\ asked.charityId = all.charityId
      /\ asked.includeArchived = all.includeArchived
      /\ asked.includeDeleted = all.includeDeleted
  BY AskedFields
<1> HIDE DEF asked, all
<1>2. /\ \A row, charity : Filtered(row, charity, asked) <=>
           Filtered(row, charity, all) /\ (c = NULL \/ CursorWhere(c, row))
      /\ \A row : CharityFilter(row, asked) <=> CharityFilter(row, all)
      /\ \A row : WhereForAdmin(row, asked) <=> WhereForAdmin(row, all)
  BY <1>1 DEF Filtered, LocaleFieldFilter, CategoryFilter, CursorFilter, CharityFilter,
              WhereForAdmin
<1>3. /\ PublicCharities(tables, now, asked) = Cut(PublicCharities(tables, now, all))
      /\ AdminCharities(tables, asked) = Cut(AdminCharities(tables, all))
  BY <1>2 DEF PublicCharities, AdminCharities
<1>4. ASSUME NEW rows
      PROVE  /\ PublicChildren(tables, rows, now, asked) =
                  Cut(PublicChildren(tables, rows, now, all))
             /\ AdminChildren(tables, rows, asked) = Cut(AdminChildren(tables, rows, all))
  BY <1>2 DEF PublicChildren, AdminChildren
<1>5. ASSUME NEW S
      PROVE  PageFrom(FALSE, c, S, input.limit) = Page(InOrder(Cut(S), Precedes), asked.limit)
  BY <1>1 DEF PageFrom
<1>6. PageFrom(FALSE, c, RowsOf(moment, input), input.limit) =
        Page(InOrder(Cut(RowsOf(moment, input)), Precedes), asked.limit)
  BY <1>5
<1> HIDE DEF tables, now, Cut
<1>7. CASE moment.list = "charities"
  <2>1. /\ Served(moment, asked) = ListCharities(tables, now, asked)
        /\ RowsOf(moment, input) = PublicCharities(tables, now, all)
    BY <1>7 DEF Served, RowsOf, all, tables, now
  <2>2. ListCharities(tables, now, asked) =
          Page(InOrder(PublicCharities(tables, now, asked), Precedes), asked.limit)
    BY ListsSelect
  <2>3. PublicCharities(tables, now, asked) = Cut(PublicCharities(tables, now, all))
    BY <1>3
  <2>4. Served(moment, asked) = PageFrom(FALSE, c, RowsOf(moment, input), input.limit)
    BY <1>6, <2>1, <2>2, <2>3
  <2> QED
    BY <2>4 DEF asked
<1>8. CASE moment.list = "projects"
  <2>1. /\ Served(moment, asked) = ListDonationProjects(tables, now, asked)
        /\ RowsOf(moment, input) = PublicChildren(tables, tables.projects, now, all)
    BY <1>8 DEF Served, RowsOf, all, tables, now
  <2>2. ListDonationProjects(tables, now, asked) =
          Page(InOrder(PublicChildren(tables, tables.projects, now, asked), Precedes), asked.limit)
    BY ListsSelect
  <2>3. PublicChildren(tables, tables.projects, now, asked) =
          Cut(PublicChildren(tables, tables.projects, now, all))
    BY <1>4
  <2>4. Served(moment, asked) = PageFrom(FALSE, c, RowsOf(moment, input), input.limit)
    BY <1>6, <2>1, <2>2, <2>3
  <2> QED
    BY <2>4 DEF asked
<1>9. CASE moment.list = "sales"
  <2>1. /\ Served(moment, asked) = ListSaleItems(tables, now, asked)
        /\ RowsOf(moment, input) = PublicChildren(tables, tables.sales, now, all)
    BY <1>9 DEF Served, RowsOf, all, tables, now
  <2>2. ListSaleItems(tables, now, asked) =
          Page(InOrder(PublicChildren(tables, tables.sales, now, asked), Precedes), asked.limit)
    BY ListsSelect
  <2>3. PublicChildren(tables, tables.sales, now, asked) =
          Cut(PublicChildren(tables, tables.sales, now, all))
    BY <1>4
  <2>4. Served(moment, asked) = PageFrom(FALSE, c, RowsOf(moment, input), input.limit)
    BY <1>6, <2>1, <2>2, <2>3
  <2> QED
    BY <2>4 DEF asked
<1>10. CASE moment.list = "charitiesForAdmin"
  <2>1. /\ Served(moment, asked) = ListCharitiesForAdmin(tables, asked)
        /\ RowsOf(moment, input) = AdminCharities(tables, all)
    BY <1>10 DEF Served, RowsOf, all, tables, now
  <2>2. ListCharitiesForAdmin(tables, asked) =
          Page(InOrder(AdminCharities(tables, asked), Precedes), asked.limit)
    BY ListsSelect
  <2>3. AdminCharities(tables, asked) = Cut(AdminCharities(tables, all))
    BY <1>3
  <2>4. Served(moment, asked) = PageFrom(FALSE, c, RowsOf(moment, input), input.limit)
    BY <1>6, <2>1, <2>2, <2>3
  <2> QED
    BY <2>4 DEF asked
<1>11. CASE moment.list = "projectsForAdmin"
  <2>1. /\ Served(moment, asked) = ListDonationProjectsForAdmin(tables, asked)
        /\ RowsOf(moment, input) = AdminChildren(tables, tables.projects, all)
    BY <1>11 DEF Served, RowsOf, all, tables, now
  <2>2. ListDonationProjectsForAdmin(tables, asked) =
          Page(InOrder(AdminChildren(tables, tables.projects, asked), Precedes), asked.limit)
    BY ListsSelect
  <2>3. AdminChildren(tables, tables.projects, asked) =
          Cut(AdminChildren(tables, tables.projects, all))
    BY <1>4
  <2>4. Served(moment, asked) = PageFrom(FALSE, c, RowsOf(moment, input), input.limit)
    BY <1>6, <2>1, <2>2, <2>3
  <2> QED
    BY <2>4 DEF asked
<1>12. CASE moment.list = "salesForAdmin"
  <2>1. /\ Served(moment, asked) = ListSaleItemsForAdmin(tables, asked)
        /\ RowsOf(moment, input) = AdminChildren(tables, tables.sales, all)
    BY <1>12 DEF Served, RowsOf, all, tables, now
  <2>2. ListSaleItemsForAdmin(tables, asked) =
          Page(InOrder(AdminChildren(tables, tables.sales, asked), Precedes), asked.limit)
    BY ListsSelect
  <2>3. AdminChildren(tables, tables.sales, asked) = Cut(AdminChildren(tables, tables.sales, all))
    BY <1>4
  <2>4. Served(moment, asked) = PageFrom(FALSE, c, RowsOf(moment, input), input.limit)
    BY <1>6, <2>1, <2>2, <2>3
  <2> QED
    BY <2>4 DEF asked
<1> QED
  BY <1>7, <1>8, <1>9, <1>10, <1>11, <1>12 DEF CatalogueListNames

\* So is a page of the list of orders.
LEMMA OrdersTurn ==
  ASSUME NEW moment, moment.list = "orders",
         NEW input, IsInput(moment.list, input), NEW c
  PROVE  Served(moment, [input EXCEPT !.cursor = c]) =
           PageFrom(TRUE, c, RowsOf(moment, input), LimitOf("orders", input))
<1> DEFINE orders == moment.tables.orders
           asked == [input EXCEPT !.cursor = c]
           made == [status |-> input.status, from |-> input.from, to |-> input.to,
                    cursor |-> input.cursor, limit |-> input.limit]
           Cut(S) == {x \in S : c = NULL \/ OrderCursorWhere(c, x)}
<1>1. input = made
  BY DEF IsInput
<1>2. [made EXCEPT !.cursor = c] = [status |-> input.status, from |-> input.from,
                                    to |-> input.to, cursor |-> c, limit |-> input.limit]
  OBVIOUS
<1>3. asked = [status |-> input.status, from |-> input.from,
               to |-> input.to, cursor |-> c, limit |-> input.limit]
  BY <1>1, <1>2
<1> HIDE DEF asked, made
<1>4. /\ asked.cursor = c /\ asked.limit = input.limit /\ asked.status = input.status
      /\ asked.from = input.from /\ asked.to = input.to
  BY <1>3
<1>5. /\ Served(moment, asked) = ListOrdersForAdmin(orders, asked)
      /\ RowsOf(moment, input) = OrdersFound(orders, input)
  BY DEF Served, RowsOf
<1> HIDE DEF orders
<1> DEFINE found == {o \in orders :
                      /\ asked.status = NULL \/ o.status = asked.status
                      /\ asked.from = NULL \/ o.created >= asked.from
                      /\ asked.to = NULL \/ o.created < asked.to
                      /\ asked.cursor = NULL \/ OrderCursorWhere(asked.cursor, o)}
<1>6. found = Cut(OrdersFound(orders, input))
  BY <1>4 DEF OrdersFound
<1>7. ListOrdersForAdmin(orders, asked) =
        Page(InOrder(found, OrderPrecedes), IF asked.limit > 50 THEN 50
                                            ELSE IF asked.limit < 1 THEN 1 ELSE asked.limit)
  BY DEF ListOrdersForAdmin
<1> HIDE DEF found
<1>8. ListOrdersForAdmin(orders, asked) =
        Page(InOrder(found, OrderPrecedes), LimitOf("orders", input))
  BY <1>4, <1>7 DEF LimitOf
<1>9. PageFrom(TRUE, c, OrdersFound(orders, input), LimitOf("orders", input)) =
        Page(InOrder(Cut(OrdersFound(orders, input)), OrderPrecedes), LimitOf("orders", input))
  BY DEF PageFrom
<1>10. Served(moment, asked) =
         PageFrom(TRUE, c, RowsOf(moment, input), LimitOf("orders", input))
  BY <1>5, <1>6, <1>8, <1>9
<1> QED
  BY <1>10 DEF asked

\* Every walk of the program goes on as the walks above do.
LEMMA WalkFollows ==
  ASSUME NEW list \in ListNames, NEW input, IsInput(list, input), NEW moments,
         NEW n \in Nat, Len(moments) = n, \A k \in 1 .. n : moments[k].list = list,
         NEW T, \A k \in 1 .. n : T[k] = RowsOf(moments[k], input)
  PROVE  Follows(Walk(moments, input), list = "orders", T, LimitOf(list, input), n)
<1> DEFINE o == list = "orders"
           limit == LimitOf(list, input)
           Step(g, k) == IF k = 0 THEN [seen |-> <<>>, next |-> NULL, done |-> FALSE]
                         ELSE NextPage(g[k - 1], moments[k], input)
           f == Walk(moments, input)
<1>1. ASSUME NEW k \in 1 .. n, NEW c
      PROVE  Served(moments[k], [input EXCEPT !.cursor = c]) = PageFrom(o, c, T[k], limit)
  <2>1. moments[k].list = list /\ T[k] = RowsOf(moments[k], input)
    OBVIOUS
  <2>2. CASE list = "orders"
    <3>1. Served(moments[k], [input EXCEPT !.cursor = c]) =
            PageFrom(TRUE, c, RowsOf(moments[k], input), LimitOf("orders", input))
      BY <2>1, <2>2, OrdersTurn
    <3> QED
      BY <2>1, <2>2, <3>1
  <2>3. CASE list # "orders"
    <3>1. list \in CatalogueListNames
      BY <2>3 DEF ListNames
    <3>2. Served(moments[k], [input EXCEPT !.cursor = c]) =
            PageFrom(FALSE, c, RowsOf(moments[k], input), input.limit)
      BY <2>1, <3>1, CatalogueTurn
    <3>3. limit = input.limit /\ o = FALSE
      BY <2>3 DEF LimitOf
    <3> QED
      BY <2>1, <3>2, <3>3
  <2> QED
    BY <2>2, <2>3
<1> HIDE DEF o, limit
<1>2. ASSUME NEW g, NEW k \in 0 .. n
      PROVE  Step(g, k) = Then(o, T, limit, g, k)
  <2>1. CASE k = 0
    BY <2>1 DEF Then, Outset
  <2>2. CASE k # 0
    <3>1. k \in 1 .. n
      BY <2>2
    <3>2. Served(moments[k], [input EXCEPT !.cursor = g[k - 1].next]) =
            PageFrom(o, g[k - 1].next, T[k], limit)
      BY <1>1, <3>1
    <3>3. NextPage(g[k - 1], moments[k], input) =
            With(g[k - 1], PageFrom(o, g[k - 1].next, T[k], limit))
      BY <3>2 DEF NextPage, With
    <3> QED
      BY <2>2, <3>3 DEF Then
  <2> QED
    BY <2>1, <2>2
<1>3. \A g : [k \in 0 .. n |-> Step(g, k)] = [k \in 0 .. n |-> Then(o, T, limit, g, k)]
  <2> HIDE DEF Step
  <2> QED
    BY <1>2
<1>4. \E g : Follows(g, o, T, limit, n)
  BY WalkExists
<1>5. \E g : g = [k \in 0 .. n |-> Step(g, k)]
  <2> HIDE DEF Step
  <2> QED
    BY <1>3, <1>4 DEF Follows
<1>6. f = CHOOSE g : g = [k \in 0 .. n |-> Step(g, k)]
  BY DEF Walk
<1> HIDE DEF f, Step
<1>7. f = [k \in 0 .. n |-> Step(f, k)]
  BY <1>5, <1>6
<1>8. Follows(f, o, T, limit, n)
  BY <1>3, <1>7 DEF Follows
<1> QED
  BY <1>8 DEF f, o, limit

\* Whatever becomes of the tables, and of the clock, between its pages, a walk
\* through a list of the program is like one list: however many pages and rows
\* there are, whatever is filtered, and with the limit of any request.
THEOREM WalksCorrect ==
  ASSUME NEW list \in ListNames, NEW input, IsInput(list, input), NEW moments,
         Len(moments) \in Nat,
         \A k \in 1 .. Len(moments) :
           moments[k].list = list /\ Queried(RowsOf(moments[k], input))
  PROVE  LET lists == [k \in 1 .. Len(moments) |-> PlacesOf(RowsOf(moments[k], input))]
         IN  /\ list = "orders" => LikeOneList(Walk(moments, input), lists, OrderPrecedes)
             /\ list # "orders" => LikeOneList(Walk(moments, input), lists, Precedes)
<1> DEFINE n == Len(moments)
           o == list = "orders"
           limit == LimitOf(list, input)
           T == [k \in 1 .. n |-> RowsOf(moments[k], input)]
           lists == [k \in 1 .. n |-> PlacesOf(RowsOf(moments[k], input))]
           f == Walk(moments, input)
<1>1. limit \in Nat \ {0}
  BY DEF IsInput, LimitOf
<1>2. \A k \in 1 .. n : T[k] = RowsOf(moments[k], input) /\ Queried(T[k])
  OBVIOUS
<1>3. Len(lists) = n /\ \A k \in 1 .. n : lists[k] = PlacesOf(T[k])
  <2>1. \A k \in 1 .. n : lists[k] = PlacesOf(T[k])
    OBVIOUS
  <2>2. DOMAIN lists = 1 .. n /\ lists \in Seq({lists[k] : k \in 1 .. n})
    BY SeqDef
  <2> QED
    BY <2>1, <2>2
<1>4. \A k \in 1 .. n : moments[k].list = list
  OBVIOUS
<1> HIDE DEF n, T, lists
<1>5. n \in Nat /\ Len(moments) = n
  BY DEF n
<1>6. Follows(f, o, T, limit, n)
  BY <1>2, <1>4, <1>5, WalkFollows
<1> HIDE DEF f, limit
<1>7. o \in BOOLEAN
  OBVIOUS
<1> HIDE DEF o
<1>8. IF o THEN LikeOneList(f, lists, OrderPrecedes) ELSE LikeOneList(f, lists, Precedes)
  BY <1>1, <1>2, <1>3, <1>5, <1>6, <1>7, WalkLikeOneList
<1> QED
  BY <1>8 DEF f, o, lists, n

-----------------------------------------------------------------------------
(* The walks that are model-checked                                        *)

\* Lists of four moments.
LEMMA FourMoments ==
  ASSUME NEW before, NEW after
  PROVE  /\ Len(Steady(before, after)) = 4
         /\ Steady(before, after)[1] = before
         /\ \A k \in 2 .. 4 : Steady(before, after)[k] = after
BY DEF Steady

LEMMA SteadyLists ==
  ASSUME NEW b, NEW a
  PROVE  \A f : DOMAIN f = 1 .. 4 /\ f[1] = b /\ (\A k \in 2 .. 4 : f[k] = a)
                /\ f = [k \in 1 .. 4 |-> f[k]] => f = Steady(b, a)
<1> SUFFICES ASSUME NEW f, DOMAIN f = 1 .. 4, f[1] = b, \A k \in 2 .. 4 : f[k] = a,
                    f = [k \in 1 .. 4 |-> f[k]]
             PROVE  f = Steady(b, a)
  OBVIOUS
<1>1. DOMAIN Steady(b, a) = 1 .. 4 /\ Steady(b, a) = [k \in 1 .. 4 |-> Steady(b, a)[k]]
  BY DEF Steady
<1>2. \A k \in 1 .. 4 : f[k] = Steady(b, a)[k]
  BY FourMoments
<1> QED
  BY <1>1, <1>2

\* The charities of three spots.
CharityAt(spots, id) ==
  Row(id, spots[id].order, spots[id].created, <<~spots[id].shown, FALSE>>, <<NULL, NULL>>,
      {}, {}, NULL)

LEMMA CharityOfSpot ==
  ASSUME NEW spots \in [1 .. 3 -> Spots], NEW id \in 1 .. 3, NEW limit \in 1 .. 2
  PROVE  LET c   == CharityAt(spots, id)
             all == [[AnyInput EXCEPT !.limit = limit] EXCEPT !.cursor = NULL]
         IN  /\ Keyed(c) /\ c.id = id
             /\ NextCursorFrom(c) =
                  [order |-> spots[id].order, created |-> spots[id].created, id |-> id]
             /\ WhereLive(c, 1) /\ Filtered(c, c, all) <=> spots[id].shown
<1> DEFINE c == CharityAt(spots, id)
           all == [[AnyInput EXCEPT !.limit = limit] EXCEPT !.cursor = NULL]
<1>1. spots[id].order \in Int /\ spots[id].created \in Int /\ spots[id].shown \in BOOLEAN
  BY DEF Spots
<1>2. /\ c.id = id /\ c.order = spots[id].order /\ c.created = spots[id].created
      /\ c.archived = ~spots[id].shown /\ c.deleted = FALSE /\ c.start = NULL /\ c.end = NULL
  BY DEF CharityAt, Row
<1>3. all.q = NULL /\ all.category = NULL /\ all.cursor = NULL
  BY DEF AnyInput
<1> HIDE DEF c, all
<1>4. Filtered(c, c, all)
  BY <1>3 DEF Filtered, LocaleFieldFilter, CategoryFilter, CursorFilter
<1>5. WhereLive(c, 1) <=> spots[id].shown
  BY <1>1, <1>2 DEF WhereLive
<1>6. Keyed(c)
  BY <1>1, <1>2 DEF Keyed
<1>7. NextCursorFrom(c) =
        [order |-> spots[id].order, created |-> spots[id].created, id |-> id]
  BY <1>2 DEF NextCursorFrom
<1> QED
  BY <1>2, <1>4, <1>5, <1>6, <1>7 DEF c, all

LEMMA CharitiesOfSpots ==
  ASSUME NEW spots \in [1 .. 3 -> Spots], NEW limit \in 1 .. 2
  PROVE  LET rows == RowsOf(Charities3(spots), [AnyInput EXCEPT !.limit = limit])
         IN  /\ Charities3(spots).list = "charities"
             /\ Queried(rows) /\ PlacesOf(rows) = Shown3(spots)
<1> DEFINE all == [[AnyInput EXCEPT !.limit = limit] EXCEPT !.cursor = NULL]
           shown == {CharityAt(spots, id) : id \in {i \in 1 .. 3 : spots[i].shown}}
<1>1. /\ Charities3(spots).list = "charities" /\ Charities3(spots).now = 1
      /\ Charities3(spots).tables.charities = {CharityAt(spots, id) : id \in 1 .. 3}
  BY DEF Charities3, Moment, CharityAt
<1> HIDE DEF all
<1>2. RowsOf(Charities3(spots), [AnyInput EXCEPT !.limit = limit]) =
        PublicCharities(Charities3(spots).tables, 1, all)
  BY <1>1 DEF RowsOf, all
<1>3. \A id \in 1 .. 3 :
        /\ Keyed(CharityAt(spots, id)) /\ CharityAt(spots, id).id = id
        /\ NextCursorFrom(CharityAt(spots, id)) =
             [order |-> spots[id].order, created |-> spots[id].created, id |-> id]
        /\ WhereLive(CharityAt(spots, id), 1)
             /\ Filtered(CharityAt(spots, id), CharityAt(spots, id), all) <=> spots[id].shown
  BY CharityOfSpot DEF all
<1>4. PublicCharities(Charities3(spots).tables, 1, all) = shown
  BY <1>1, <1>3 DEF PublicCharities
<1>5. IsFiniteSet(shown)
  <2> DEFINE every == {CharityAt(spots, 1)} \cup {CharityAt(spots, 2)} \cup {CharityAt(spots, 3)}
  <2>1. IsFiniteSet(every)
    BY FS_Singleton, FS_Union
  <2>2. shown \in SUBSET every
    OBVIOUS
  <2> HIDE DEF shown, every
  <2> QED
    BY <2>1, <2>2, FS_Subset
<1>6. Queried(shown)
  BY <1>3, <1>5 DEF Queried
<1>7. PlacesOf(shown) = Shown3(spots)
  BY <1>3 DEF PlacesOf, Shown3
<1> QED
  BY <1>1, <1>2, <1>4, <1>6, <1>7

\* The orders of three spots.
OrderAt(spots, id) ==
  [id |-> id, created |-> spots[id].created, order |-> spots[id].order,
   status |-> IF spots[id].shown THEN "PAID" ELSE "CREATED"]

PaidOrders(limit) == [[AnyOrders EXCEPT !.status = "PAID"] EXCEPT !.limit = limit]

LEMMA OrdersOfSpots ==
  ASSUME NEW spots \in [1 .. 3 -> Spots], NEW limit \in 1 .. 2
  PROVE  LET rows == RowsOf(Orders3(spots), PaidOrders(limit))
         IN  /\ Orders3(spots).list = "orders"
             /\ Queried(rows) /\ PlacesOf(rows) = Shown3(spots)
<1> DEFINE shown == {OrderAt(spots, id) : id \in {i \in 1 .. 3 : spots[i].shown}}
<1>1. /\ Orders3(spots).list = "orders"
      /\ Orders3(spots).tables.orders = {OrderAt(spots, id) : id \in 1 .. 3}
  BY DEF Orders3, Moment, OrderAt
<1>2. RowsOf(Orders3(spots), PaidOrders(limit)) =
        OrdersFound({OrderAt(spots, id) : id \in 1 .. 3}, PaidOrders(limit))
  BY <1>1 DEF RowsOf
<1>3. /\ PaidOrders(limit).status = "PAID" /\ PaidOrders(limit).from = NULL
      /\ PaidOrders(limit).to = NULL
  BY DEF PaidOrders, AnyOrders
<1>4. ASSUME NEW id \in 1 .. 3
      PROVE  LET o == OrderAt(spots, id)
             IN  /\ Keyed(o) /\ o.id = id
                 /\ NextCursorFrom(o) =
                      [order |-> spots[id].order, created |-> spots[id].created, id |-> id]
                 /\ o.status = "PAID" <=> spots[id].shown
  <2>1. spots[id].order \in Int /\ spots[id].created \in Int /\ spots[id].shown \in BOOLEAN
    BY DEF Spots
  <2> QED
    BY <2>1 DEF OrderAt, Keyed, NextCursorFrom
<1>5. OrdersFound({OrderAt(spots, id) : id \in 1 .. 3}, PaidOrders(limit)) = shown
  <2>1. "PAID" # NULL
    BY NullAssumption
  <2>2. \A id \in 1 .. 3 : (OrderAt(spots, id).status = "PAID") <=> spots[id].shown
    BY <1>4
  <2>3. OrdersFound({OrderAt(spots, id) : id \in 1 .. 3}, PaidOrders(limit)) =
          {o \in {OrderAt(spots, id) : id \in 1 .. 3} : o.status = "PAID"}
    BY <1>3, <2>1 DEF OrdersFound
  <2> QED
    BY <2>2, <2>3
<1>6. IsFiniteSet(shown)
  <2> DEFINE every == {OrderAt(spots, 1)} \cup {OrderAt(spots, 2)} \cup {OrderAt(spots, 3)}
  <2>1. IsFiniteSet(every)
    BY FS_Singleton, FS_Union
  <2>2. shown \in SUBSET every
    OBVIOUS
  <2> HIDE DEF shown, every
  <2> QED
    BY <2>1, <2>2, FS_Subset
<1>7. Queried(shown)
  <2>1. \A id \in 1 .. 3 : Keyed(OrderAt(spots, id)) /\ OrderAt(spots, id).id = id
    BY <1>4
  <2> QED
    BY <1>6, <2>1 DEF Queried
<1>8. PlacesOf(shown) = Shown3(spots)
  <2>1. \A id \in 1 .. 3 :
          NextCursorFrom(OrderAt(spots, id)) =
            [order |-> spots[id].order, created |-> spots[id].created, id |-> id]
    BY <1>4
  <2> QED
    BY <2>1 DEF PlacesOf, Shown3
<1> QED
  BY <1>1, <1>2, <1>5, <1>7, <1>8

\* A walk through four moments of a list.
LEMMA SteadyWalk ==
  ASSUME NEW list \in ListNames, NEW input, IsInput(list, input), NEW b, NEW a,
         b.list = list, a.list = list,
         Queried(RowsOf(b, input)), Queried(RowsOf(a, input))
  PROVE  LET walk  == Walk(Steady(b, a), input)
             lists == Steady(PlacesOf(RowsOf(b, input)), PlacesOf(RowsOf(a, input)))
         IN  /\ list = "orders" => LikeOneList(walk, lists, OrderPrecedes)
             /\ list # "orders" => LikeOneList(walk, lists, Precedes)
<1> DEFINE moments == Steady(b, a)
           Places(k) == PlacesOf(RowsOf(moments[k], input))
           lists == [k \in 1 .. Len(moments) |-> Places(k)]
           steady == Steady(PlacesOf(RowsOf(b, input)), PlacesOf(RowsOf(a, input)))
<1>1. Len(moments) = 4 /\ moments[1] = b /\ \A k \in 2 .. 4 : moments[k] = a
  BY FourMoments
<1> HIDE DEF moments
<1>2. \A k \in 1 .. 4 : moments[k] = b \/ moments[k] = a
  BY <1>1
<1>3. \A k \in 1 .. Len(moments) : moments[k].list = list /\ Queried(RowsOf(moments[k], input))
  BY <1>1, <1>2
<1>4. Len(moments) \in Nat
  BY <1>1
<1>5. /\ list = "orders" => LikeOneList(Walk(moments, input), lists, OrderPrecedes)
      /\ list # "orders" => LikeOneList(Walk(moments, input), lists, Precedes)
  BY <1>3, <1>4, WalksCorrect
<1>6. lists = steady
  <2>1. Places(1) = PlacesOf(RowsOf(b, input))
        /\ \A k \in 2 .. 4 : Places(k) = PlacesOf(RowsOf(a, input))
    BY <1>1
  <2> HIDE DEF Places
  <2>2. /\ DOMAIN lists = 1 .. 4 /\ lists = [k \in 1 .. 4 |-> lists[k]]
        /\ \A k \in 1 .. 4 : lists[k] = Places(k)
    BY <1>1
  <2>3. lists[1] = PlacesOf(RowsOf(b, input))
        /\ \A k \in 2 .. 4 : lists[k] = PlacesOf(RowsOf(a, input))
    BY <2>1, <2>2
  <2> HIDE DEF lists
  <2> QED
    BY <2>2, <2>3, SteadyLists
<1> HIDE DEF lists, steady
<1>7. /\ list = "orders" => LikeOneList(Walk(moments, input), steady, OrderPrecedes)
      /\ list # "orders" => LikeOneList(Walk(moments, input), steady, Precedes)
  BY <1>5, <1>6
<1> QED
  BY <1>7 DEF moments, steady

\* The inputs of these walks.
LEMMA InputWith ==
  ASSUME NEW d \in Nat \ {0}
  PROVE  IsInput("charities", [AnyInput EXCEPT !.limit = d])
<1> DEFINE Made(locale, limit, flag) ==
             [q |-> NULL, locale |-> locale, category |-> NULL, charityId |-> NULL,
              cursor |-> NULL, limit |-> limit, includeArchived |-> flag, includeDeleted |-> flag]
           i == [AnyInput EXCEPT !.limit = d]
<1>1. \E locale, limit, flag : AnyInput = Made(locale, limit, flag)
  BY Zenon DEF AnyInput
<1>2. PICK locale, limit, flag : AnyInput = Made(locale, limit, flag)
  BY <1>1, Zenon
<1>3. [Made(locale, limit, flag) EXCEPT !.limit = d] = Made(locale, d, flag)
  OBVIOUS
<1>4. i = Made(locale, d, flag)
  BY <1>2, <1>3
<1> HIDE DEF i
<1>5. i = [q |-> i.q, locale |-> i.locale, category |-> i.category, charityId |-> i.charityId,
           cursor |-> i.cursor, limit |-> i.limit, includeArchived |-> i.includeArchived,
           includeDeleted |-> i.includeDeleted]
  BY <1>4
<1>6. i.limit \in Nat \ {0}
  BY <1>4
<1>7. IsInput("charities", i)
  BY <1>5, <1>6 DEF IsInput
<1> QED
  BY <1>7 DEF i

LEMMA OrdersInputWith ==
  ASSUME NEW d
  PROVE  PaidOrders(d) =
           [status |-> "PAID", from |-> NULL, to |-> NULL, cursor |-> NULL, limit |-> d]
<1>1. AnyOrders = [status |-> NULL, from |-> NULL, to |-> NULL, cursor |-> NULL, limit |-> 10]
  BY DEF AnyOrders
<1>2. [[status |-> NULL, from |-> NULL, to |-> NULL, cursor |-> NULL, limit |-> 10]
       EXCEPT !.status = "PAID"] =
        [status |-> "PAID", from |-> NULL, to |-> NULL, cursor |-> NULL, limit |-> 10]
  OBVIOUS
<1>3. [AnyOrders EXCEPT !.status = "PAID"] =
        [status |-> "PAID", from |-> NULL, to |-> NULL, cursor |-> NULL, limit |-> 10]
  BY <1>1, <1>2
<1>4. [[status |-> "PAID", from |-> NULL, to |-> NULL, cursor |-> NULL, limit |-> 10]
       EXCEPT !.limit = d] =
        [status |-> "PAID", from |-> NULL, to |-> NULL, cursor |-> NULL, limit |-> d]
  OBVIOUS
<1> QED
  BY <1>3, <1>4 DEF PaidOrders

\* The walks that are model-checked are among those the theorem is about.
LEMMA EveryWalkOnceHolds == EveryWalkOnce
<1>1. ASSUME NEW before \in [1 .. 3 -> Spots], NEW after \in [1 .. 3 -> Spots],
             NEW limit \in 1 .. 2
      PROVE  LikeOneList(Walk(Steady(Charities3(before), Charities3(after)),
                              [AnyInput EXCEPT !.limit = limit]),
                         Steady(Shown3(before), Shown3(after)), Precedes)
  <2> DEFINE input == [AnyInput EXCEPT !.limit = limit]
  <2>1. IsInput("charities", input) /\ "charities" \in ListNames /\ "charities" # "orders"
    <3>1. limit \in Nat \ {0}
      OBVIOUS
    <3>2. IsInput("charities", input)
      BY <3>1, InputWith
    <3> QED
      BY <3>2 DEF ListNames, CatalogueListNames
  <2> HIDE DEF input
  <2>2. /\ Charities3(before).list = "charities" /\ Charities3(after).list = "charities"
        /\ Queried(RowsOf(Charities3(before), input))
        /\ Queried(RowsOf(Charities3(after), input))
        /\ PlacesOf(RowsOf(Charities3(before), input)) = Shown3(before)
        /\ PlacesOf(RowsOf(Charities3(after), input)) = Shown3(after)
    BY CharitiesOfSpots DEF input
  <2>3. LikeOneList(Walk(Steady(Charities3(before), Charities3(after)), input),
                    Steady(PlacesOf(RowsOf(Charities3(before), input)),
                           PlacesOf(RowsOf(Charities3(after), input))), Precedes)
    BY <2>1, <2>2, SteadyWalk
  <2>4. LikeOneList(Walk(Steady(Charities3(before), Charities3(after)), input),
                    Steady(Shown3(before), Shown3(after)), Precedes)
    BY <2>2, <2>3
  <2> QED
    BY <2>4 DEF input
<1>2. ASSUME NEW before \in [1 .. 3 -> Spots], NEW after \in [1 .. 3 -> Spots],
             NEW limit \in 1 .. 2
      PROVE  LikeOneList(Walk(Steady(Orders3(before), Orders3(after)), PaidOrders(limit)),
                         Steady(Shown3(before), Shown3(after)), OrderPrecedes)
  <2>1. IsInput("orders", PaidOrders(limit)) /\ "orders" \in ListNames
    <3> DEFINE input == PaidOrders(limit)
    <3>1. input = [status |-> "PAID", from |-> NULL, to |-> NULL, cursor |-> NULL,
                   limit |-> limit]
      BY OrdersInputWith
    <3> HIDE DEF input
    <3>2. /\ input.status = "PAID" /\ input.from = NULL /\ input.to = NULL
          /\ input.cursor = NULL /\ input.limit = limit
      BY <3>1
    <3>3. input = [status |-> input.status, from |-> input.from, to |-> input.to,
                   cursor |-> input.cursor, limit |-> input.limit]
      BY <3>1
    <3>4. input.limit \in Int
      BY <3>2
    <3>5. IsInput("orders", input)
      BY <3>3, <3>4 DEF IsInput
    <3> QED
      BY <3>5 DEF input, ListNames
  <2>2. /\ Orders3(before).list = "orders" /\ Orders3(after).list = "orders"
        /\ Queried(RowsOf(Orders3(before), PaidOrders(limit)))
        /\ Queried(RowsOf(Orders3(after), PaidOrders(limit)))
        /\ PlacesOf(RowsOf(Orders3(before), PaidOrders(limit))) = Shown3(before)
        /\ PlacesOf(RowsOf(Orders3(after), PaidOrders(limit))) = Shown3(after)
    BY OrdersOfSpots
  <2>3. LikeOneList(Walk(Steady(Orders3(before), Orders3(after)), PaidOrders(limit)),
                    Steady(PlacesOf(RowsOf(Orders3(before), PaidOrders(limit))),
                           PlacesOf(RowsOf(Orders3(after), PaidOrders(limit)))), OrderPrecedes)
    BY <2>1, <2>2, SteadyWalk
  <2> QED
    BY <2>2, <2>3
<1>3. WalksOnce(AnyInput, {p \in Spots : p.shown \/ p.order + p.created = 2},
                Charities3, Precedes)
  <2>1. \A q \in [1 .. 3 -> {p \in Spots : p.shown \/ p.order + p.created = 2}] :
          q \in [1 .. 3 -> Spots]
    OBVIOUS
  <2> QED
    BY <1>1, <2>1 DEF WalksOnce
<1>4. WalksOnce([AnyOrders EXCEPT !.status = "PAID"], {p \in Spots : p.order = 0},
                Orders3, OrderPrecedes)
  <2>1. \A q \in [1 .. 3 -> {p \in Spots : p.order = 0}] : q \in [1 .. 3 -> Spots]
    OBVIOUS
  <2> QED
    BY <1>2, <2>1 DEF WalksOnce, PaidOrders
<1> QED
  BY <1>3, <1>4 DEF EveryWalkOnce

\* The inputs the lists are compared for.
LEMMA AgreeInput ==
  ASSUME NEW category, NEW q
  PROVE  LET i == [AnyInput EXCEPT !.category = category, !.q = q, !.locale = "en"]
         IN  i \in [q : {i.q}, locale : {i.locale}, category : {i.category},
                    charityId : {i.charityId}, cursor : {NULL}, limit : Nat,
                    includeArchived : {FALSE}, includeDeleted : {FALSE}] /\ i.limit = 10
<1> DEFINE Made(text, locale, key, limit, flag) ==
             [q |-> text, locale |-> locale, category |-> key, charityId |-> NULL,
              cursor |-> NULL, limit |-> limit, includeArchived |-> flag, includeDeleted |-> flag]
           i == [AnyInput EXCEPT !.category = category, !.q = q, !.locale = "en"]
<1>1. \E locale, limit, flag, en :
        /\ AnyInput = Made(NULL, locale, NULL, limit, flag) /\ limit = 10 /\ flag = FALSE
        /\ i = [AnyInput EXCEPT !.category = category, !.q = q, !.locale = en]
  BY Zenon DEF AnyInput
<1>2. PICK locale, limit, flag, en :
        /\ AnyInput = Made(NULL, locale, NULL, limit, flag) /\ limit = 10 /\ flag = FALSE
        /\ i = [AnyInput EXCEPT !.category = category, !.q = q, !.locale = en]
  BY <1>1, Zenon
<1>3. [Made(NULL, locale, NULL, limit, flag) EXCEPT !.category = category, !.q = q, !.locale = en] =
        Made(q, en, category, limit, flag)
  <2>1. [Made(NULL, locale, NULL, limit, flag) EXCEPT !.category = category] =
          Made(NULL, locale, category, limit, flag)
    OBVIOUS
  <2>2. [Made(NULL, locale, category, limit, flag) EXCEPT !.q = q] =
          Made(q, locale, category, limit, flag)
    OBVIOUS
  <2>3. [Made(q, locale, category, limit, flag) EXCEPT !.locale = en] =
          Made(q, en, category, limit, flag)
    OBVIOUS
  <2> QED
    BY <2>1, <2>2, <2>3
<1> HIDE DEF i
<1>4. i = Made(q, en, category, limit, flag)
  BY <1>2, <1>3
<1>5. limit \in Nat /\ limit = 10 /\ flag \in {FALSE}
  BY <1>2
<1>6. i \in [q : {i.q}, locale : {i.locale}, category : {i.category},
             charityId : {i.charityId}, cursor : {NULL}, limit : Nat,
             includeArchived : {FALSE}, includeDeleted : {FALSE}] /\ i.limit = 10
  BY <1>4, <1>5
<1> QED
  BY <1>6 DEF i

\* The catalogues they are compared on.
LEMMA CataloguesFit ==
  ASSUME NEW tables \in Catalogues
  PROVE  /\ IsCatalogue(tables)
         /\ \A rows \in {tables.charities, tables.projects, tables.sales} : Cardinality(rows) <= 10
<1>1. PICK s \in [1 .. 3 -> StampPairs], w \in [1 .. 3 -> Windows], live \in {{}, {"arts"}} :
        tables = [charities |-> {Row(1, 0, 1, s[1], w[1], {"en"}, {"arts"}, NULL)},
                  projects |-> {Row(2, 0, 1, s[2], w[2], {"zh-TW"}, {}, 1)},
                  sales |-> {Row(3, 0, 1, s[3], w[3], {"en", "zh-TW"}, {}, 1)},
                  live |-> live]
  BY DEF Catalogues
<1>2. PICK c, p, t :
        /\ c = Row(1, 0, 1, s[1], w[1], {"en"}, {"arts"}, NULL)
        /\ p = Row(2, 0, 1, s[2], w[2], {"zh-TW"}, {}, 1)
        /\ t = Row(3, 0, 1, s[3], w[3], {"en", "zh-TW"}, {}, 1)
        /\ tables.charities = {c} /\ tables.projects = {p} /\ tables.sales = {t}
  BY <1>1, Zenon
<1>3. ASSUME NEW i \in 1 .. 3
      PROVE  s[i] \in BOOLEAN \X BOOLEAN /\ w[i] \in Instants \X Instants
  <2>1. s[i] \in StampPairs /\ w[i] \in Windows
    OBVIOUS
  <2>2. Windows \subseteq Instants \X Instants
    BY DEF Windows, Instants
  <2> QED
    BY <2>1, <2>2 DEF StampPairs
<1>4. ASSUME NEW i \in 1 .. 3, NEW terms, NEW cats, NEW charity
      PROVE  LET row == Row(i, 0, 1, s[i], w[i], terms, cats, charity)
             IN  IsRow(row) /\ row.id = i /\ row.charity = charity
  <2> DEFINE row == Row(i, 0, 1, s[i], w[i], terms, cats, charity)
  <2>1. i \in Int /\ 0 \in Int /\ 1 \in Int
    OBVIOUS
  <2>2. IsRow(row)
    <3> HIDE DEF Row
    <3> QED
      BY <1>3, <2>1 DEF IsRow
  <2>3. row.id = i /\ row.charity = charity
    BY DEF Row
  <2> QED
    BY <2>2, <2>3
<1>5. /\ IsRow(c) /\ c.id = 1
      /\ IsRow(p) /\ p.id = 2 /\ p.charity = 1
      /\ IsRow(t) /\ t.id = 3 /\ t.charity = 1
  BY <1>2, <1>4
<1>6. ASSUME NEW x, IsRow(x)
      PROVE  Queried({x}) /\ Cardinality({x}) <= 10
  <2>1. Keyed(x)
    BY <1>6, RowFields
  <2>2. IsFiniteSet({x}) /\ Cardinality({x}) = 1
    BY FS_Singleton
  <2> QED
    BY <2>1, <2>2 DEF Queried
<1>7. /\ Queried(tables.charities) /\ Queried(tables.projects) /\ Queried(tables.sales)
      /\ \A rows \in {tables.charities, tables.projects, tables.sales} : Cardinality(rows) <= 10
  BY <1>2, <1>5, <1>6
<1>8. /\ \A row \in tables.charities \cup ChildRows(tables) : IsRow(row)
      /\ \A q \in tables.projects, u \in tables.sales : q.id # u.id
      /\ \A child \in ChildRows(tables) : \E d \in tables.charities : d.id = child.charity
  BY <1>2, <1>5 DEF ChildRows
<1> QED
  BY <1>7, <1>8 DEF IsCatalogue

\* The catalogues that are model-checked are among those the theorem is about.
LEMMA EveryListAgreesHolds == EveryListAgrees
<1> SUFFICES ASSUME NEW tables \in Catalogues, NEW now \in 1 .. 3,
                    NEW category \in {NULL, "arts"}, NEW q \in {NULL, "text"}
             PROVE  AgreeOn(tables, now,
                            [AnyInput EXCEPT !.category = category, !.q = q, !.locale = "en"])
  BY DEF EveryListAgrees
<1> DEFINE input == [AnyInput EXCEPT !.category = category, !.q = q, !.locale = "en"]
<1>1. input \in [q : {input.q}, locale : {input.locale}, category : {input.category},
                 charityId : {input.charityId}, cursor : {NULL}, limit : Nat,
                 includeArchived : {FALSE}, includeDeleted : {FALSE}] /\ input.limit = 10
  BY AgreeInput
<1> HIDE DEF input
<1>2. /\ IsCatalogue(tables)
      /\ \A rows \in {tables.charities, tables.projects, tables.sales} :
           Cardinality(rows) <= input.limit
  BY <1>1, CataloguesFit
<1>3. now \in Int
  OBVIOUS
<1>4. AgreeOn(tables, now, input)
  BY <1>1, <1>2, <1>3, ListsAgreeOnAll
<1> QED
  BY <1>4 DEF input

=============================================================================
