----------------------------- MODULE DataTable -----------------------------
(***************************************************************************)
(* A table whose filters and page are kept in the address                  *)
(* (hooks/use-table-url-state.ts), with the components that change them    *)
(* (components/data-table): the toolbar, a faceted filter, the pager, the  *)
(* headers of the columns and the choice of columns.  The table library    *)
(* and the router are external: a setter of the table calls the hook's     *)
(* function, and navigate replaces what the address says.                  *)
(***************************************************************************)
EXTENDS Naturals, Sequences, SequencesExt, FiniteSets

CONSTANTS Kinds,      \* options of the faceted filter
          Texts,      \* texts that can be typed, "" and a blank among them
          Blank,      \* the blank text
          PageCounts, \* numbers of pages that filters can leave
          Sizes       \* page sizes, the default one 0

\* The text of a filter that is not set; the address has no parameter for it.
NoText == ""

TableParameters == /\ {NoText, Blank} \subseteq Texts /\ Blank # NoText /\ 0 \in Sizes
                   /\ PageCounts \subseteq Nat /\ Sizes \subseteq Nat

VARIABLES url,    \* the search parameters, page 0 and size 0 when absent
          before, \* the address Back returns to
          table,  \* the filters the hook keeps as state
          pages,  \* the number of pages of what the filters leave
          view,   \* sorting of a column and the columns that are hidden
          apart   \* history: filters that Back changed in the address only

vars == <<url, before, table, pages, view, apart>>

NoUrl == [page |-> 0, size |-> 0, search |-> NoText, title |-> NoText, kinds |-> {}]

\* value.trim()
Trim(text) == IF text = Blank THEN NoText ELSE text

\* initialColumnFilters and the initial global filter.
Opened(u) == [search |-> u.search, title |-> Trim(u.title), kinds |-> u.kinds]

Init ==
    /\ url \in {NoUrl, [NoUrl EXCEPT !.page = 2]}
    /\ before = {}
    /\ table = Opened(url)
    /\ pages \in PageCounts
    /\ view = [sort |-> "none", hidden |-> FALSE]
    /\ apart = {}

\* pagination: the page of the address, the first one when it has none.
CurrentPage == IF url.page = 0 THEN 1 ELSE url.page

\* navigate without replace: an entry of the history.
Navigate(u) == url' = u /\ before' = {url}

-----------------------------------------------------------------------------
(* The hook's functions *)

OnPaginationChange(page, size) ==
    /\ Navigate([url EXCEPT !.page = IF page <= 1 THEN 0 ELSE page, !.size = size])
    /\ UNCHANGED <<table, pages, view, apart>>

\* Mutant of OnGlobalFilterChange: the parameter keeps its value when the text
\* is erased.
GlobalFilterStays(text) ==
    /\ table' = [table EXCEPT !.search = Trim(text)]
    /\ Navigate([url EXCEPT !.page = 0,
                            !.search = IF Trim(text) = NoText THEN @ ELSE Trim(text)])
    /\ pages' \in PageCounts /\ apart' = apart \ {"search"} /\ UNCHANGED view

\* Typing in the global filter, which is trimmed: back to the first page.
OnGlobalFilterChange(text) ==
    /\ table' = [table EXCEPT !.search = Trim(text)]
    /\ Navigate([url EXCEPT !.page = 0, !.search = Trim(text)])
    /\ pages' \in PageCounts /\ apart' = apart \ {"search"} /\ UNCHANGED view

\* All the column filters go to the address, a blank one as none.
OnColumnFiltersChange(title, kinds) ==
    /\ table' = [table EXCEPT !.title = title, !.kinds = kinds]
    /\ Navigate([url EXCEPT !.page = 0, !.title = Trim(title), !.kinds = kinds])
    /\ pages' \in PageCounts /\ apart' = apart \ {"title", "kinds"} /\ UNCHANGED view

\* A page beyond the last one is replaced in the address, once there are rows.
EnsurePageInRange ==
    /\ pages > 0 /\ CurrentPage > pages
    /\ \E page \in {0, pages} : url' = [url EXCEPT !.page = page]
    /\ UNCHANGED <<before, table, pages, view, apart>>

-----------------------------------------------------------------------------
(* The components *)

DataTableFacetedFilter ==
    \/ \E k \in Kinds :
         OnColumnFiltersChange(table.title, IF k \in table.kinds THEN table.kinds \ {k}
                                            ELSE table.kinds \cup {k})
    \/ table.kinds # {} /\ OnColumnFiltersChange(table.title, {})

\* The button is there while a filter is set: both are reset, one after the
\* other.
ResetFilters ==
    /\ table.search # NoText \/ table.title # NoText \/ table.kinds # {}
    /\ table' = [table EXCEPT !.search = NoText, !.title = NoText, !.kinds = {}]
    /\ Navigate([url EXCEPT !.page = 0, !.search = NoText, !.title = NoText, !.kinds = {}])
    /\ pages' \in PageCounts /\ apart' = {} /\ UNCHANGED view

DataTableToolbar ==
    \/ \E text \in Texts : OnGlobalFilterChange(text)
    \/ \E text \in Texts : OnColumnFiltersChange(text, table.kinds)
    \/ DataTableFacetedFilter
    \/ ResetFilters

\* Sorting and hiding touch neither the filters nor the address.
DataTableColumnHeader ==
    /\ \/ \E sort \in {"asc", "desc"} : view' = [view EXCEPT !.sort = sort]
       \/ view' = [view EXCEPT !.hidden = TRUE]
    /\ UNCHANGED <<url, before, table, pages, apart>>

DataTableViewOptions ==
    /\ view' = [view EXCEPT !.hidden = ~@]
    /\ UNCHANGED <<url, before, table, pages, apart>>

\* Mutant of PageNumbers: "near the beginning" reaches one page further.
PageNumbersLate(page, total) ==
    CASE total <= 5 -> [i \in 1 .. total |-> i]
      [] total > 5 /\ page <= 4 -> <<1, 2, 3, 4, total>>
      [] total > 5 /\ page > 4 /\ page >= total - 2 ->
           <<1, total - 3, total - 2, total - 1, total>>
      [] OTHER -> <<1, page - 1, page, page + 1, total>>

\* getPageNumbers, without the dots between the buttons.
PageNumbers(page, total) ==
    CASE total <= 5 -> [i \in 1 .. total |-> i]
      [] total > 5 /\ page <= 3 -> <<1, 2, 3, 4, total>>
      [] total > 5 /\ page > 3 /\ page >= total - 2 ->
           <<1, total - 3, total - 2, total - 1, total>>
      [] OTHER -> <<1, page - 1, page, page + 1, total>>

\* defaultPageSize
DefaultPageSize == 10

RowsPerPage(size) == IF size = 0 THEN DefaultPageSize ELSE size

\* setPageSize of the library: the page of another size that has the first row
\* of the current one.
PageWithTopRow(size) ==
    ((CurrentPage - 1) * RowsPerPage(url.size)) \div RowsPerPage(size) + 1

\* First, previous, the numbers, next and last; and the size of a page.
DataTablePagination ==
    \/ CurrentPage > 1 /\ \E page \in {1, CurrentPage - 1} : OnPaginationChange(page, url.size)
    \/ CurrentPage < pages /\ \E page \in {CurrentPage + 1, pages} :
                                OnPaginationChange(page, url.size)
    \/ \E page \in ToSet(PageNumbers(CurrentPage, pages)) : OnPaginationChange(page, url.size)
    \/ \E size \in Sizes \ {url.size} : OnPaginationChange(PageWithTopRow(size), size)

-----------------------------------------------------------------------------
(* The rows and the browser *)

\* The rows arrive, or are loaded again.
RowsChange ==
    /\ pages' \in PageCounts
    /\ UNCHANGED <<url, before, table, view, apart>>

Differ(u, t) == {f \in {"search", "title", "kinds"} : Opened(u)[f] # Opened(t)[f]}

\* Back: the page follows the address, the filters are states and stay.
Back ==
    /\ before # {}
    /\ url' \in before /\ before' = {}
    /\ apart' = Differ(url', table)
    /\ UNCHANGED <<table, pages, view>>

Next ==
    \/ DataTableToolbar \/ DataTablePagination \/ DataTableColumnHeader
    \/ DataTableViewOptions \/ EnsurePageInRange \/ RowsChange \/ Back

Spec == Init /\ [][Next]_vars

-----------------------------------------------------------------------------
(* Properties *)

\* An address that is copied opens the table with the filters it has, after any
\* use of the toolbar and the pager; only Back leaves them apart, and only the
\* filters that it changed in the address.
UrlKeepsTable == Differ(url, table) \subseteq apart

\* From a page of the table the pager offers the first, the last and the
\* neighbouring pages, every button once, in order and in range.
PagerReaches ==
    CurrentPage <= pages =>
        LET numbers == PageNumbers(CurrentPage, pages)
        IN /\ {1, CurrentPage, pages} \subseteq ToSet(numbers)
           /\ {CurrentPage - 1, CurrentPage + 1} \cap (1 .. pages) \subseteq ToSet(numbers)
           /\ \A i \in DOMAIN numbers : numbers[i] \in 1 .. pages
           /\ \A i, j \in DOMAIN numbers : i < j => numbers[i] < numbers[j]
=============================================================================
