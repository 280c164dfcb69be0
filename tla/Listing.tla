------------------------------- MODULE Listing -------------------------------
(***************************************************************************)
(* The listings of transformers: the filter a request asks for, the query  *)
(* that answers it when a group is named, the cached network filtered in   *)
(* memory that answers it otherwise, and the pages.  The transformers and  *)
(* their latest balances are those of Reports.  Searching by text, where   *)
(* ILIKE and strings.Contains differ in wildcards, is left out.            *)
(***************************************************************************)
EXTENDS Reports

CONSTANTS MaxPage,      \* rows of a page at most (500)
          DefaultPage   \* rows of a page when none is asked for (20)

Absent == Nil   \* a parameter that is not given

(* A request's parameters; absent integers are 0.  Those of a page are set *)
(* where pages are asked for (PagesCover).                                 *)
Query == [status : {Absent, "WARNING", "NO_DATA"}, sub : Subs \cup {Absent},
          active : {FALSE, Absent}, order : {"code", "loss_pct", "updated_at"},
          limit : {0}, offset : {0}, page : {0}]

(* Mutant of FilterFromQuery: pages are counted from zero.                 *)
FilterFromZero(q) ==
    LET limit == Min({q.limit, MaxPage})
    IN  [q EXCEPT !.limit = limit,
                  !.offset = IF q.page > 0 /\ limit > 0 THEN q.page * limit ELSE @]
FilterFromQuery(q) ==
    LET limit == Min({q.limit, MaxPage})
    IN  [q EXCEPT !.limit = limit,
                  !.offset = IF q.page > 0 /\ limit > 0 THEN (q.page - 1) * limit
                             ELSE @]

(* ORDER BY, every order ending in the code; NULLS LAST.                   *)
OrderBy(order, t, u) ==
    LET a == Latest(t)  b == Latest(u) IN
    CASE order = "loss_pct" ->
             \/ HasBalance(t) /\ ~HasBalance(u)
             \/ /\ HasBalance(t) /\ HasBalance(u)
                /\ \/ LossPct(a) > LossPct(b)
                   \/ LossPct(a) = LossPct(b) /\ t < u
             \/ ~HasBalance(t) /\ ~HasBalance(u) /\ t < u
      [] order = "power_kva" ->
             \/ net[t].kva > net[u].kva
             \/ net[t].kva = net[u].kva /\ t < u
      [] order = "updated_at" ->
             \/ net[t].updated > net[u].updated
             \/ net[t].updated = net[u].updated /\ t < u
      [] OTHER -> t < u

PageOf(seq, limit, offset) ==
    IF limit = 0 THEN seq
    ELSE SubSeq(seq, offset + 1, Min({offset + limit, Len(seq)}))

(* listSummariesSQL: conditions on t and b, the sum of all rows and a page.*)
ListSummariesSQL(f) ==
    LET where == {t \in Live :
            /\ f.sub # Absent => net[t].sub = f.sub
            /\ f.active # Absent => net[t].active = f.active
            /\ f.status \in {"NORMAL", "WARNING", "CRITICAL"} =>
                   HasBalance(t) /\ Latest(t).status = f.status
            /\ f.status = "NO_DATA" => ~HasBalance(t)}
        rows == SetToSortSeq(where, LAMBDA t, u : OrderBy(f.order, t, u))
    IN  [items |-> PageOf(rows, f.limit, f.offset), total |-> Len(rows)]

Everything == [status |-> Absent, sub |-> Absent, active |-> Absent, order |-> "code",
               limit |-> 0, offset |-> 0, page |-> 0]

(* filterSummaries: the cached network, in the order of the codes.         *)
FilterSummaries(all, f) ==
    LET kept == SelectSeq(all, LAMBDA t :
            /\ f.sub # Absent => net[t].sub = f.sub
            /\ f.active # Absent => net[t].active = f.active
            /\ f.status # Absent => f.status = Latest(t).status)
        sorted == SortSeq(kept, LAMBDA t, u : OrderBy(f.order, t, u))
    IN  [items |-> PageOf(sorted, f.limit, Min({f.offset, Len(kept)})),
         total |-> Len(kept)]

ListSummaries(f) == FilterSummaries(ListSummariesSQL(Everything).items, f)

List(q) == ListSummaries(FilterFromQuery(q))

(* Without limit and page the page is the one the offset falls in.         *)
GetWithPagination(q) ==
    LET f == FilterFromQuery(q)
        limit == IF f.limit = 0 THEN DefaultPage ELSE f.limit
        page == IF q.page = 0 THEN f.offset \div limit + 1 ELSE q.page
        offset == IF q.page = 0 THEN (page - 1) * limit ELSE f.offset
        r == ListSummaries([f EXCEPT !.limit = limit, !.offset = offset])
    IN  [data |-> r.items, total |-> r.total, page |-> page, limit |-> limit,
         totalPages |-> (r.total + limit - 1) \div limit]

GetAllWithCount(q) ==
    LET r == ListSummaries(FilterFromQuery(q))
    IN  [transformers |-> r.items, count |-> r.total]

(* SubstationRepository.List: the transformers of each substation.         *)
SubstationTotals(s) ==
    LET of == {t \in Live : net[t].sub = s}
    IN  [count |-> Cardinality(of), kva |-> Sum(LAMBDA t : net[t].kva, of),
         critical |-> Cardinality({t \in of : Latest(t).status = "CRITICAL"}),
         warning |-> Cardinality({t \in of : Latest(t).status = "WARNING"})]

(* GET /transformers/substation/{substation_id}, a query of its own.       *)
ListBySubstation(s) ==
    SetToSortSeq({t \in Live : net[t].sub = s}, LAMBDA t, u : t < u)

(* GET /consuming-units: units ordered by code; units are the numbers      *)
(* 1 .. n here.                                                            *)
ListPage(n, limit, offset) ==
    LET size == Min({Max({limit, 1}), 1000})
        all == [i \in 1 .. n |-> i]
    IN  [items |-> PageOf(all, size, offset), total |-> n]

-----------------------------------------------------------------------------
(* A listing does not depend on the path that answers it: the same rows in *)
(* the same order, and the same total, from the query and from the cache.  *)
PathsAgree ==
    \A q \in Query :
        LET f == FilterFromQuery(q) IN
        /\ ListSummaries(f) = ListSummariesSQL(f)
        /\ List(q).items = GetAllWithCount(q).transformers

(* Nothing is shown twice or skipped on the way from the first page to the *)
(* last, when the request says how long a page is.                         *)
PagesCover ==
    /\ \A q \in Query, limit \in 1 .. 2 :
           LET page(p) == GetWithPagination([q EXCEPT !.limit = limit, !.page = p])
               first == page(1)
               pages == [p \in 1 .. first.totalPages |-> page(p).data]
               rows == List(q).items
           IN  /\ FlattenSeq(pages) = rows /\ first.total = Len(rows)
               /\ \A p \in DOMAIN pages : pages[p] # << >>
    /\ \A n \in 0 .. 2 * Cardinality(Trafos), limit \in 1 .. 2 :
           LET units == [i \in 1 .. n |-> ListPage(n, limit, (i - 1) * limit).items]
           IN  FlattenSeq(units) = [i \in 1 .. n |-> i]

(* The substations of the map say what the listings of each of them say.   *)
SubstationsAgree ==
    \A s \in Subs :
        LET of(status) == List([Everything EXCEPT !.sub = s, !.status = status])
        IN  /\ SubstationTotals(s).count = of(Absent).total
            /\ SubstationTotals(s).warning = of("WARNING").total
            /\ ListBySubstation(s) = of(Absent).items

=============================================================================
