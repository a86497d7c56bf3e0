----------------------------- MODULE ChainLists -----------------------------
(***************************************************************************)
(* Lists that are longer than one call to the chain returns, and how three *)
(* readers put them together: a template's contract_list, which asks for   *)
(* one index after the other until a call throws (zweb/renderer); the      *)
(* explorer's tables of identities and of zApps, which fetch a page when   *)
(* the user scrolls (pages/Identities.jsx, Zapps.jsx); and a contract's    *)
(* events by pages of blocks, newest first (ContractController).           *)
(*                                                                         *)
(* The chain goes on between two calls: an array gets an entry or loses    *)
(* one (the later ones move up), a block is mined.  An entry is known by   *)
(* the order it was added in.  Bounds: MaxEntries added, MaxRemovals,      *)
(* MaxBlocks, MaxFetches of the table, MaxListFaults failing calls.        *)
(***************************************************************************)
EXTENDS Naturals, Sequences, FiniteSets, SequencesExt

CONSTANTS TablePage,      \* PAGE_SIZE of the tables
          BlockPage,      \* network.event_block_page_size
          Latest, NoCursor,
          MaxEntries, MaxRemovals, MaxBlocks, MaxFetches, MaxListFaults

ASSUME ChainListsAssumption ==
    /\ TablePage \in Nat \ {0} /\ BlockPage \in Nat \ {0}
    /\ \A b \in {MaxEntries, MaxRemovals, MaxBlocks, MaxFetches, MaxListFaults} : b \in Nat
    /\ Latest # NoCursor /\ Latest \notin Nat /\ NoCursor \notin Nat

VARIABLES reader,         \* which of the three is at work
          array,          \* the chain: an array of a contract
          added, removals, head, listFaults,
          listing,        \* one run of contract_list
          table,          \* what the component and the scroll component hold
          fetches,        \* calls of fetchIdentities
          paging          \* a client that asks for event pages

arrayVars == <<array, added, removals>>
listsVars == <<reader, arrayVars, head, listFaults, listing, table, fetches, paging>>
-----------------------------------------------------------------------------
Fetches == 1..MaxFetches
NoFetch == [at |-> "none", cursor |-> 0, rows |-> <<>>, length |-> 0]

ListsInit ==
    /\ reader \in {"template", "table", "client"}
    /\ \E n \in 0..MaxEntries : added = n /\ array = [i \in 1..n |-> i]
    /\ removals = 0 /\ listFaults = 0
    /\ head \in 0..MaxBlocks
    /\ listing = [at |-> "none", results |-> <<>>, before |-> {}, broken |-> FALSE]
    /\ table = [rows |-> <<>>, cursor |-> 0, hasMore |-> TRUE, triggered |-> FALSE,
                before |-> {}, overlapped |-> FALSE]
    /\ fetches = [f \in Fetches |-> NoFetch]
    /\ paging = [cursor |-> Latest, blocks |-> {}, head |-> 0, blind |-> FALSE]

\* The contract: an entry is added, or one is removed.  The registry only adds; the arrays of
\* zApps lose entries too.
AddToArray ==
    /\ reader # "client" /\ added < MaxEntries
    /\ added' = added + 1
    /\ array' = Append(array, added')
    /\ UNCHANGED <<reader, removals, head, listFaults, listing, table, fetches, paging>>

RemoveFromArray(i) ==
    /\ removals < MaxRemovals /\ i \in DOMAIN array
    /\ reader = "template"
    /\ removals' = removals + 1
    /\ array' = RemoveAt(array, i)
    /\ listing' = [listing EXCEPT !.broken = @ \/ listing.at = "running"]
    /\ UNCHANGED <<reader, added, head, listFaults, table, fetches, paging>>

MineBlock ==
    /\ reader = "client" /\ head < MaxBlocks
    /\ head' = head + 1
    /\ UNCHANGED <<reader, arrayVars, listFaults, listing, table, fetches, paging>>

ListFault == listFaults < MaxListFaults /\ listFaults' = listFaults + 1
-----------------------------------------------------------------------------
(* contract_list: any error ends it, as if the array ended there. *)

ContractList ==
    /\ reader = "template" /\ listing.at = "none"
    /\ listing' = [listing EXCEPT !.at = "running", !.before = ToSet(array)]
    /\ UNCHANGED <<reader, arrayVars, head, listFaults, table, fetches, paging>>

CallNextIndex ==
    /\ listing.at = "running"
    /\ listing' = LET i == Len(listing.results) + 1 IN
          IF i \in DOMAIN array THEN [listing EXCEPT !.results = Append(@, array[i])]
                                ELSE [listing EXCEPT !.at = "answered"]
    /\ UNCHANGED <<reader, arrayVars, head, listFaults, table, fetches, paging>>

CallFails ==
    /\ listing.at = "running" /\ ListFault
    /\ listing' = [listing EXCEPT !.at = "answered", !.broken = TRUE]
    /\ UNCHANGED <<reader, arrayVars, head, table, fetches, paging>>
-----------------------------------------------------------------------------
(* The table.  A fetch works on the cursor and the rows of the render that started it. *)

InFlight == {f \in Fetches : fetches[f].at \in {"length", "page"}}
NextFetch(f) == fetches[f].at = "none" /\ \A g \in 1..(f - 1) : fetches[g].at # "none"
BeginFetch(f) ==
    fetches' = [fetches EXCEPT ![f] = [NoFetch EXCEPT !.at = "length", !.cursor = table.cursor,
                                                      !.rows = table.rows]]

\* The component is mounted.
Mount ==
    /\ reader = "table" /\ MaxFetches > 0
    /\ NextFetch(1) /\ BeginFetch(1)
    /\ table' = [table EXCEPT !.before = ToSet(array)]
    /\ UNCHANGED <<reader, arrayVars, head, listFaults, listing, paging>>

\* The scroll component asks for more, once until the number of rows has changed; it does not
\* know of the fetch of the mount.
Scroll(f) ==
    /\ f > 1 /\ NextFetch(f) /\ table.hasMore /\ ~table.triggered
    /\ BeginFetch(f)
    /\ table' = [table EXCEPT !.triggered = TRUE, !.overlapped = @ \/ InFlight # {}]
    /\ UNCHANGED <<reader, arrayVars, head, listFaults, listing, paging>>

GetLength(f) ==
    /\ fetches[f].at = "length"
    /\ fetches' = [fetches EXCEPT ![f].at = "page", ![f].length = Len(array)]
    /\ UNCHANGED <<reader, arrayVars, head, listFaults, listing, table, paging>>

\* The cursor counts what was fetched, and the rows of the closure are extended.
GetPage(f) ==
    LET c == fetches[f].cursor
        page == SubSeq(array, c + 1, Min({c + TablePage, Len(array)}))
        rows == fetches[f].rows \o page
    IN  /\ fetches[f].at = "page"
        /\ fetches' = [fetches EXCEPT ![f].at = "done"]
        /\ table' = [table EXCEPT !.cursor = c + Len(page), !.rows = rows,
                                  !.hasMore = @ /\ Len(rows) < fetches[f].length,
                                  !.triggered = @ /\ Len(rows) = Len(table.rows)]
        /\ UNCHANGED <<reader, arrayVars, head, listFaults, listing, paging>>

FetchFails(f) ==
    /\ f \in InFlight /\ ListFault
    /\ fetches' = [fetches EXCEPT ![f].at = "threw"]
    /\ UNCHANGED <<reader, arrayVars, head, listing, table, paging>>
-----------------------------------------------------------------------------
(* Event pages. *)

\* Mutant: a page may begin at 1, and the cursor after it is 0.
FromOne(cursor) == IF cursor <= BlockPage THEN 0 ELSE cursor - BlockPage

\* handlePaginatedEvents: from 0 where the page would begin at 0 or 1.
From(cursor) == IF cursor <= BlockPage + 1 THEN 0 ELSE cursor - BlockPage

\* A cursor of 0 counts as none: all events are fetched at once, then filtered by a field named
\* cursor that no event has.
AnswerPage(cursor, h) ==
    IF cursor = 0
    THEN paging' = [paging EXCEPT !.cursor = NoCursor, !.head = h]
    ELSE paging' = [paging EXCEPT !.blocks = @ \cup From(cursor)..cursor, !.head = h,
                                  !.cursor = IF From(cursor) > 0 THEN From(cursor) - 1 ELSE NoCursor]

FirstEvents ==
    /\ reader = "client" /\ paging.cursor = Latest
    /\ IF head = 0
       THEN paging' = [paging EXCEPT !.blocks = {0}, !.cursor = NoCursor]
       ELSE AnswerPage(head, head)
    /\ UNCHANGED <<reader, arrayVars, head, listFaults, listing, table, fetches>>

MoreEvents ==
    /\ paging.cursor \in Nat
    /\ AnswerPage(paging.cursor, paging.head)
    /\ UNCHANGED <<reader, arrayVars, head, listFaults, listing, table, fetches>>

\* The block number is unreadable: the page is of blocks NaN to undefined, and the last one.
BlindEvents ==
    /\ reader = "client" /\ paging.cursor = Latest /\ ListFault
    /\ paging' = [paging EXCEPT !.cursor = NoCursor, !.blind = TRUE]
    /\ UNCHANGED <<reader, arrayVars, head, listing, table, fetches>>
-----------------------------------------------------------------------------
ListsNext ==
    \/ AddToArray \/ MineBlock \/ \E i \in 1..MaxEntries : RemoveFromArray(i)
    \/ ContractList \/ CallNextIndex \/ CallFails
    \/ Mount
    \/ \E f \in Fetches : Scroll(f) \/ GetLength(f) \/ GetPage(f) \/ FetchFails(f)
    \/ FirstEvents \/ MoreEvents \/ BlindEvents

ListsSpec == ListsInit /\ [][ListsNext]_listsVars
-----------------------------------------------------------------------------
(* Properties. *)

\* A list that is given out as the whole list has every entry that was there when the reader
\* began, and none twice.  Excepted are the cases the code tells from the end of the list in no
\* way: a call that failed, an entry removed under contract_list, an unreadable block number,
\* and a scroll while the table's first fetch is under way.
ListsAreWhole ==
    /\ (listing.at = "answered" /\ ~listing.broken) =>
          listing.before \subseteq ToSet(listing.results) /\ IsInjective(listing.results)
    /\ (fetches[1].at # "none" /\ ~table.hasMore /\ InFlight = {} /\ ~table.overlapped) =>
          table.before \subseteq ToSet(table.rows) /\ IsInjective(table.rows)
    /\ (paging.cursor = NoCursor /\ ~paging.blind) => paging.blocks = 0..paging.head
=============================================================================
