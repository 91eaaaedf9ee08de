--------------------------- MODULE CatalogueLists ---------------------------
(***************************************************************************)
(* What the list and detail endpoints of the catalogue and the admin order *)
(* list select from the tables, and in which pages: list-services.ts,      *)
(* admin-read-services.ts, lifecycle/where.ts, order/admin-services.ts.    *)
(*                                                                         *)
(* The first SELECT of a read decides what it shows, so a read is a        *)
(* function of the tables at one moment, and a walk through the pages a    *)
(* function of the tables at each page.  Of a text only the locales whose  *)
(* text matches the query count; of an answer its rows, their categories   *)
(* and the lifecycle columns.  A category is its key.                      *)
(***************************************************************************)
EXTENDS Cursors, FiniteSets, SequencesExt

CONSTANT NULL   \* a publish date, a parent, a cursor or a filter that is not there

\* A cursor that is not there is none of those there are, and a status that is
\* not asked for is no status.
ASSUME NullAssumption == NULL \notin Cursor \cup {"CREATED", "PAID"}

\* Columns every catalogue row has; cats is a charity's, charity a child's.
Row(id, order, created, stamps, window, terms, cats, charity) ==
  [id |-> id, order |-> order, created |-> created, archived |-> stamps[1],
   deleted |-> stamps[2], start |-> window[1], end |-> window[2], terms |-> terms,
   cats |-> cats, charity |-> charity]

\* tables: charities, projects and sales (sets of rows) and the live category keys.
ParentIn(tables, child) == CHOOSE c \in tables.charities : c.id = child.charity

-----------------------------------------------------------------------------
(* lifecycle/where.ts                                                      *)

WhereLive(row, now) ==
  /\ ~row.deleted /\ ~row.archived
  /\ row.start = NULL \/ row.start <= now
  /\ row.end = NULL \/ row.end > now

\* Faulty variant: the child's own columns decide alone.
WhereLiveAlone(row, parent, now) == WhereLive(row, now)

WhereLiveWithParent(row, parent, now) == WhereLive(row, now) /\ WhereLive(parent, now)

\* Neither the publish window nor the parent counts for an admin.
WhereForAdmin(row, input) ==
  /\ row.archived => input.includeArchived
  /\ row.deleted => input.includeDeleted

-----------------------------------------------------------------------------
(* Filters.  An input's q is NULL (absent or blank) or a text, its locale  *)
(* the one the text is looked for in.                                      *)

LocaleFieldFilter(row, input) == input.q = NULL \/ input.locale \in row.terms

\* The key must be linked; whether the category is live is not asked.
CategoryFilter(charity, input) == input.category = NULL \/ input.category \in charity.cats

CharityFilter(row, input) == input.charityId = NULL \/ row.charity = input.charityId

CursorFilter(row, input) == input.cursor = NULL \/ CursorWhere(input.cursor, row)

Filtered(row, charity, input) ==
  LocaleFieldFilter(row, input) /\ CategoryFilter(charity, input) /\ CursorFilter(row, input)

\* ORDER BY
InOrder(S, before(_, _)) ==
  CHOOSE rows \in SetToSeqs(S) : \A i, j \in DOMAIN rows : i < j => before(rows[i], rows[j])

\* rows: what the query finds, in its order.  take: limit + 1, and the row too
\* many only says that there is a next page.
Page(rows, limit) ==
  LET more  == Len(rows) > limit
      items == IF more THEN SubSeq(rows, 1, limit) ELSE rows
  IN  [items |-> items, more |-> more,
       next |-> IF more THEN NextCursorFrom(items[limit]) ELSE NULL]

Ids(page) == {page.items[i].id : i \in DOMAIN page.items}

\* inflateCategories: only live ones are shown.
ShownCategories(tables, charity) == charity.cats \cap tables.live

-----------------------------------------------------------------------------
(* Public reads                                                            *)

ListCharities(tables, now, input) ==
  Page(InOrder({c \in tables.charities : WhereLive(c, now) /\ Filtered(c, c, input)},
       Precedes), input.limit)

ListDonationProjects(tables, now, input) ==
  Page(InOrder({p \in tables.projects :
          LET c == ParentIn(tables, p)
          IN  WhereLiveWithParent(p, c, now) /\ CharityFilter(p, input) /\ Filtered(p, c, input)},
       Precedes), input.limit)

ListSaleItems(tables, now, input) ==
  Page(InOrder({s \in tables.sales :
          LET c == ParentIn(tables, s)
          IN  WhereLiveWithParent(s, c, now) /\ CharityFilter(s, input) /\ Filtered(s, c, input)},
       Precedes), input.limit)

\* Details answer 404 when the set is empty.
GetCharityById(tables, now, id) == {c \in tables.charities : c.id = id /\ WhereLive(c, now)}

GetDonationProjectById(tables, now, id) ==
  {p \in tables.projects : p.id = id /\ WhereLiveWithParent(p, ParentIn(tables, p), now)}

GetSaleItemById(tables, now, id) ==
  {s \in tables.sales : s.id = id /\ WhereLiveWithParent(s, ParentIn(tables, s), now)}

-----------------------------------------------------------------------------
(* Admin reads                                                             *)

ListCharitiesForAdmin(tables, input) ==
  Page(InOrder({c \in tables.charities : WhereForAdmin(c, input) /\ Filtered(c, c, input)},
       Precedes), input.limit)

ListDonationProjectsForAdmin(tables, input) ==
  Page(InOrder({p \in tables.projects : /\ WhereForAdmin(p, input) /\ CharityFilter(p, input)
                                /\ Filtered(p, ParentIn(tables, p), input)},
       Precedes), input.limit)

ListSaleItemsForAdmin(tables, input) ==
  Page(InOrder({s \in tables.sales : /\ WhereForAdmin(s, input) /\ CharityFilter(s, input)
                             /\ Filtered(s, ParentIn(tables, s), input)},
       Precedes), input.limit)

\* By id nothing is filtered.
GetCharityByIdForAdmin(tables, id) == {c \in tables.charities : c.id = id}

GetDonationProjectByIdForAdmin(tables, id) == {p \in tables.projects : p.id = id}

GetSaleItemByIdForAdmin(tables, id) == {s \in tables.sales : s.id = id}

\* Only a child's detail carries hints, on its charity's stamps.
ParentHints(tables, child) ==
  LET c == ParentIn(tables, child) IN [archived |-> c.archived, deleted |-> c.deleted]

\* GET /cms/orders: limit clamped to 1 .. 50, dates in a half-open range.
ListOrdersForAdmin(orders, input) ==
  Page(InOrder({o \in orders :
          /\ input.status = NULL \/ o.status = input.status
          /\ input.from = NULL \/ o.created >= input.from
          /\ input.to = NULL \/ o.created < input.to
          /\ input.cursor = NULL \/ OrderCursorWhere(input.cursor, o)},
       OrderPrecedes), IF input.limit > 50 THEN 50 ELSE IF input.limit < 1 THEN 1 ELSE input.limit)

-----------------------------------------------------------------------------
(* Properties                                                              *)

AnyInput == [q |-> NULL, locale |-> "zh-TW", category |-> NULL, charityId |-> NULL,
             cursor |-> NULL, limit |-> 10, includeArchived |-> FALSE, includeDeleted |-> FALSE]

AnyOrders == [status |-> NULL, from |-> NULL, to |-> NULL, cursor |-> NULL, limit |-> 10]

\* The lists that are paged through, and the page one of them answers with at a
\* moment: the tables and the clock as they are by then.
CatalogueListNames == {"charities", "projects", "sales",
                       "charitiesForAdmin", "projectsForAdmin", "salesForAdmin"}
ListNames == CatalogueListNames \cup {"orders"}

Served(moment, input) ==
  LET tables == moment.tables
  IN  CASE moment.list = "charities" -> ListCharities(tables, moment.now, input)
        [] moment.list = "projects" -> ListDonationProjects(tables, moment.now, input)
        [] moment.list = "sales" -> ListSaleItems(tables, moment.now, input)
        [] moment.list = "charitiesForAdmin" -> ListCharitiesForAdmin(tables, input)
        [] moment.list = "projectsForAdmin" -> ListDonationProjectsForAdmin(tables, input)
        [] moment.list = "salesForAdmin" -> ListSaleItemsForAdmin(tables, input)
        [] moment.list = "orders" -> ListOrdersForAdmin(tables.orders, input)

\* The next page of a walk: the list is asked for the cursor the page before gave.
NextPage(walk, moment, input) ==
  IF walk.done THEN walk
  ELSE LET page == Served(moment, [input EXCEPT !.cursor = walk.next])
       IN  [seen |-> walk.seen \o page.items, next |-> page.next, done |-> ~page.more]

\* The walk after k pages, each at a moment of its own.
Walk(moments, input) ==
  LET walk[k \in 0 .. Len(moments)] ==
        IF k = 0 THEN [seen |-> <<>>, next |-> NULL, done |-> FALSE]
        ELSE NextPage(walk[k - 1], moments[k], input)
  IN  walk

\* The places of rows in the order of a list are the cursors made from them.
PlacesOf(rows) == {NextCursorFrom(row) : row \in rows}

\* Whatever becomes of the tables between its pages, an infinite scroll is like
\* one list.  lists: the places the list had at each page.  What is shown is in
\* order, so a row comes round again only when it was moved to a later place;
\* it was in the list at some page; a scroll that is over has shown every place
\* that was in the list all the time; and once the list stands still the scroll
\* is over within as many pages as there are rows.
LikeOneList(walk, lists, before(_, _)) ==
  LET n    == Len(lists)
      rows == walk[n].seen
      seen == [i \in DOMAIN rows |-> NextCursorFrom(rows[i])]
  IN  /\ \A i, j \in DOMAIN seen : i < j => before(seen[i], seen[j])
      /\ \A i \in DOMAIN seen : \E k \in 1 .. n : seen[i] \in lists[k]
      /\ walk[n].done =>
           \A place \in lists[1] : (\A k \in 2 .. n : place \in lists[k]) =>
             \E i \in DOMAIN seen : seen[i] = place
      /\ \A j \in 0 .. n - 1 :
           /\ \A k \in j + 1 .. n : lists[k] = lists[n]
           /\ n - j >= Cardinality(lists[n])
           => walk[n].done

\* Where each of three rows is: a place in the order, that of another row too
\* perhaps, and whether a list of live rows, of paid orders, has it at all.
Spots == [order : 0 .. 1, created : 1 .. 2, shown : BOOLEAN]

Moment(list, tables) == [list |-> list, tables |-> tables, now |-> 1]

Charities3(spots) ==
  Moment("charities", [charities |-> {Row(id, spots[id].order, spots[id].created,
      <<~spots[id].shown, FALSE>>, <<NULL, NULL>>, {}, {}, NULL) : id \in 1 .. 3}])

Orders3(spots) ==
  Moment("orders", [orders |-> {[id |-> id, created |-> spots[id].created,
      order |-> spots[id].order,
      status |-> IF spots[id].shown THEN "PAID" ELSE "CREATED"] : id \in 1 .. 3}])

Shown3(spots) ==
  {[order |-> spots[id].order, created |-> spots[id].created, id |-> id] :
     id \in {i \in 1 .. 3 : spots[i].shown}}

\* Rows move, appear and vanish after the first page; three more must do.
Steady(before, after) == <<before, after, after, after>>

WalksOnce(input, spots, ListAt(_), precedes(_, _)) ==
  \A before, after \in [1 .. 3 -> spots], limit \in 1 .. 2 :
    LikeOneList(Walk(Steady(ListAt(before), ListAt(after)), [input EXCEPT !.limit = limit]),
                Steady(Shown3(before), Shown3(after)), precedes)

EveryWalkOnce ==
  /\ WalksOnce(AnyInput, {p \in Spots : p.shown \/ p.order + p.created = 2},
               Charities3, Precedes)
  /\ WalksOnce([AnyOrders EXCEPT !.status = "PAID"], {p \in Spots : p.order = 0},
               Orders3, OrderPrecedes)

\* A charity, a project of it and a sale item of it, with every combination of
\* stamps and with publish windows that begin, end, or do both.
StampPairs == BOOLEAN \X BOOLEAN
Windows == {<<NULL, NULL>>, <<2, NULL>>, <<NULL, 2>>, <<1, 3>>}
Catalogues ==
  {[charities |-> {Row(1, 0, 1, s[1], w[1], {"en"}, {"arts"}, NULL)},
    projects |-> {Row(2, 0, 1, s[2], w[2], {"zh-TW"}, {}, 1)},
    sales |-> {Row(3, 0, 1, s[3], w[3], {"en", "zh-TW"}, {}, 1)},
    live |-> live] :
     s \in [1 .. 3 -> StampPairs], w \in [1 .. 3 -> Windows], live \in {{}, {"arts"}}}

WindowOpen(row, now) == WhereLive([row EXCEPT !.archived = FALSE, !.deleted = FALSE], now)

AdminDetails(tables, id) ==
  GetDonationProjectByIdForAdmin(tables, id) \cup GetSaleItemByIdForAdmin(tables, id)

ChildRows(tables) == tables.projects \cup tables.sales

\* The lists cannot disagree on visibility.  What the public sees is in the
\* admin's default list and has a detail page; a child is public exactly when
\* the admin's list has it, its window is open and its charity is public; and
\* when it is not, its admin detail says so by a stamp of the charity, unless
\* it is the charity's publish window that hides it (no hint covers that).
AgreeOn(tables, now, input) ==
  LET charities == Ids(ListCharities(tables, now, [input EXCEPT !.q = NULL]))
      public    == Ids(ListDonationProjects(tables, now, input))
                   \cup Ids(ListSaleItems(tables, now, input))
      admin     == Ids(ListDonationProjectsForAdmin(tables, input))
                   \cup Ids(ListSaleItemsForAdmin(tables, input))
  IN  /\ Ids(ListCharities(tables, now, input)) \subseteq Ids(ListCharitiesForAdmin(tables, input))
      /\ \A id \in charities : GetCharityById(tables, now, id) # {}
      /\ \A child \in ChildRows(tables) :
           /\ child.id \in public
                <=> child.id \in admin /\ WindowOpen(child, now) /\ child.charity \in charities
           /\ child.id \in public =>
                GetDonationProjectById(tables, now, child.id)
                  \cup GetSaleItemById(tables, now, child.id) # {}
           /\ child \in AdminDetails(tables, child.id)
           /\ child.id \in admin \ public /\ WindowOpen(child, now) =>
                \/ ParentHints(tables, child).archived
                \/ ParentHints(tables, child).deleted
                \/ ~WindowOpen(ParentIn(tables, child), now)

EveryListAgrees ==
  \A tables \in Catalogues, now \in 1 .. 3, category \in {NULL, "arts"}, q \in {NULL, "text"} :
    AgreeOn(tables, now, [AnyInput EXCEPT !.category = category, !.q = q, !.locale = "en"])

=============================================================================
