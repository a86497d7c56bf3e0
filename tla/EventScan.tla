----------------------------- MODULE EventScan ------------------------------
(***************************************************************************)
(* The cache of contract events in ethereum.js.  A query for the events of *)
(* a contract between two blocks first renews the cache: it reads the rows *)
(* of EventScan, the ranges scanned before, asks the chain page by page    *)
(* for the blocks between them, and collapses the rows into one.  Then it  *)
(* answers from the Event table.                                           *)
(*                                                                         *)
(* Queries come from clients, with any blocks, and from the background job *)
(* that scans the Identity contract.  They overlap at every await.  Every  *)
(* block is taken to hold an event of every contract, so that a block left *)
(* out is an event missed.                                                 *)
(***************************************************************************)
EXTENDS Naturals

CONSTANTS
    Contracts, Identity,
    Requests, Job,    \* activities: requests of clients, the background job
    PageSize,         \* network.event_block_page_size
    Queries,          \* from and to of the requests
    Latest,
    MaxBlock,         \* bounds the chain
    MaxRequests,      \* bounds the queries of clients
    MaxDisturbances   \* bounds failed calls of the chain and crashes

ASSUME EventScanAssumption ==
    /\ Identity \in Contracts
    /\ Job \notin Requests
    /\ PageSize \in Nat \ {0}
    /\ MaxBlock \in Nat /\ Latest \notin Nat
    /\ Queries \subseteq Nat \X (Nat \cup {Latest})

VARIABLES
    head,      \* the latest block
    saved,     \* saved[c]: the blocks whose events of c are in Event
    rows,      \* the table EventScan
    task,      \* the activities
    running,   \* isRunning of the scheduler
    requests, disturbances,
    early,     \* history: blocks recorded as scanned before they were mined
    bridged    \* history: blocks that came into a row only by collapsing

history == <<early, bridged>>
vars == <<head, saved, rows, task, running, requests, disturbances, history>>

Tasks == Requests \cup {Job}

Lower(a, b) == IF a <= b THEN a ELSE b
Upper(a, b) == IF a <= b THEN b ELSE a

\* The id of a row, contract_from_to, is made when it is created and then kept; rowid is
\* the order of creation.
Row == [contract : Contracts, idFrom : Nat, idTo : Nat, from : Nat, to : Nat, rowid : Nat]
SameId(r, s) == r.contract = s.contract /\ r.idFrom = s.idFrom /\ r.idTo = s.idTo

Range == [from : Nat, to : Nat]

NoRow == [contract |-> Identity, idFrom |-> 0, idTo |-> 0, from |-> 0, to |-> 0, rowid |-> 0]

\* ranges, cursor and max are the variables of the loop, ranges without those it has
\* passed; end and upTo are the last block of the page and the head when it was asked
\* for, events what of the answer is still to be saved; first is first_range.
Task == [pc : {"idle", "ranges", "loop", "store", "check", "save", "destroy", "fetch"},
         contract : Contracts, from : Nat, to : Nat, ranges : SUBSET Range, cursor : Nat, max : Nat,
         end : Nat, upTo : Nat, events : SUBSET Nat, first : Row]

Idle == [pc |-> "idle", contract |-> Identity, from |-> 0, to |-> 0, ranges |-> {}, cursor |-> 0, max |-> 0,
         end |-> 0, upTo |-> 0, events |-> {}, first |-> NoRow]

TypeOK ==
    /\ head \in Nat
    /\ saved \in [Contracts -> SUBSET Nat]
    /\ rows \subseteq Row
    /\ task \in [Tasks -> Task]
    /\ running \in BOOLEAN
    /\ requests \in Nat /\ disturbances \in Nat
    /\ early \in [Contracts -> SUBSET Nat]
    /\ bridged \in [Contracts -> SUBSET Nat]

Init ==
    /\ head = 0
    /\ saved = [c \in Contracts |-> {}]
    /\ rows = {}
    /\ task = [p \in Tasks |-> Idle]
    /\ running = FALSE
    /\ requests = 0 /\ disturbances = 0
    /\ early = [c \in Contracts |-> {}]
    /\ bridged = [c \in Contracts |-> {}]

-----------------------------------------------------------------------------
Mine ==
    /\ head < MaxBlock
    /\ head' = head + 1
    /\ UNCHANGED <<saved, rows, task, running, requests, disturbances, history>>

\* The blocks in order, 'latest' replaced; the caller swaps them like the renewal does.
Query(c, a, b) ==
    [Idle EXCEPT !.pc = "ranges", !.contract = c, !.from = Lower(a, b), !.to = Upper(a, b)]

Request(p) ==
    /\ task[p].pc = "idle" /\ requests < MaxRequests
    /\ \E c \in Contracts, q \in Queries :
          task' = [task EXCEPT ![p] = Query(c, q[1], IF q[2] = Latest THEN head ELSE q[2])]
    /\ requests' = requests + 1
    /\ UNCHANGED <<head, saved, rows, running, disturbances, history>>

\* runJob every thirty seconds, unless it is running.
RunJob ==
    /\ ~running
    /\ running' = TRUE
    /\ task' = [task EXCEPT ![Job] = Query(Identity, 0, head)]
    /\ UNCHANGED <<head, saved, rows, requests, disturbances, history>>

\* Mutant: the contract is not asked for.
NearOfAny(r, t) == r.to \in t.from..t.to \/ r.from \in t.from..t.to

\* The where clause of the query; its last alternative compares from_block twice and
\* adds nothing.
Near(r, t) == r.contract = t.contract /\ (r.to \in t.from..t.to \/ r.from \in t.from..t.to)

FindRanges(p) ==
    LET t == task[p]
        near == {r \in rows : Near(r, t)}
    IN  /\ t.pc = "ranges"
        /\ task' = [task EXCEPT ![p] = [t EXCEPT !.pc = "loop", !.cursor = t.from,
                                                 !.ranges = {[from |-> r.from, to |-> r.to] : r \in near}]]
        /\ UNCHANGED <<head, saved, rows, running, requests, disturbances, history>>

\* Mutant: the gap before a range is passed with it.
PassRangeAndGap(p) ==
    LET t == task[p]
    IN  /\ t.pc = "loop" /\ t.cursor <= t.to
        /\ \E r \in t.ranges :
              /\ \A s \in t.ranges : r.from <= s.from
              /\ task' = [task EXCEPT ![p] = [t EXCEPT !.ranges = @ \ {r}, !.cursor = Upper(@, r.to + 1),
                                                       !.max = Upper(@, r.to)]]
        /\ UNCHANGED <<head, saved, rows, running, requests, disturbances, history>>

\* The loop passes the next range by from_block if it begins at the cursor or before.
PassRange(p) ==
    LET t == task[p]
    IN  /\ t.pc = "loop" /\ t.cursor <= t.to
        /\ \E r \in t.ranges :
              /\ r.from <= t.cursor
              /\ \A s \in t.ranges : r.from <= s.from
              /\ task' = [task EXCEPT ![p] = [t EXCEPT !.ranges = @ \ {r}, !.cursor = Upper(@, r.to + 1),
                                                       !.max = Upper(@, r.to)]]
        /\ UNCHANGED <<head, saved, rows, running, requests, disturbances, history>>

\* Else it scans a page from the cursor on, up to the next range or, before the fake one,
\* to the end of the query.  No range that is left begins at the cursor or before.
Page(t) == {b \in t.cursor..Lower(t.to, t.cursor + PageSize - 1) : \A r \in t.ranges : b < r.from}

\* getPastEvents: the blocks of the page that are there.
Ask(p) ==
    LET t == task[p]
    IN  /\ t.pc = "loop"
        /\ \E e \in Page(t) :
              /\ e + 1 \notin Page(t)
              /\ task' = [task EXCEPT ![p] = [t EXCEPT !.pc = "store", !.end = e, !.upTo = head,
                                                       !.events = {b \in t.cursor..e : b <= head}]]
        /\ UNCHANGED <<head, saved, rows, running, requests, disturbances, history>>

\* Or the call fails, and with it the query; the job stays marked as running.
AskFails(p) ==
    /\ task[p].pc = "loop" /\ Page(task[p]) # {} /\ disturbances < MaxDisturbances
    /\ task' = [task EXCEPT ![p] = Idle]
    /\ disturbances' = disturbances + 1
    /\ UNCHANGED <<head, saved, rows, running, requests, history>>

Store(p) ==
    LET t == task[p]
    IN  /\ t.pc = "store"
        /\ \E b \in t.events :
              /\ \A a \in t.events : b <= a
              /\ saved' = [saved EXCEPT ![t.contract] = @ \cup {b}]
              /\ task' = [task EXCEPT ![p].events = @ \ {b}]
        /\ UNCHANGED <<head, rows, running, requests, disturbances, history>>

\* The rowid of SQLite: one more than the greatest.
NewRowId ==
    LET ids == {r.rowid : r \in rows}
    IN  IF \E m \in ids : \A i \in ids : i <= m THEN 1 + CHOOSE m \in ids : \A i \in ids : i <= m ELSE 1

\* INSERT, or UPDATE of all columns of the row that has the id.
Upsert(c, a, b) ==
    LET new(i) == [contract |-> c, idFrom |-> a, idTo |-> b, from |-> a, to |-> b, rowid |-> i]
        old == {r \in rows : SameId(r, new(0))}
    IN  rows' = (rows \ old) \cup (IF old = {} THEN {new(NewRowId)} ELSE {new(r.rowid) : r \in old})

\* Mutant: the row is there before the events.
RecordFirst(p) ==
    LET t == task[p]
    IN  /\ t.pc = "store"
        /\ Upsert(t.contract, t.cursor, t.end)
        /\ task' = [task EXCEPT ![p] = [@ EXCEPT !.pc = IF t.events = {} THEN "check" ELSE "store"]]
        /\ early' = [early EXCEPT ![t.contract] = @ \cup {b \in t.cursor..t.end : t.upTo < b}]
        /\ UNCHANGED <<head, saved, running, requests, disturbances, bridged>>

\* The row of the page, once all of its events are saved.
Record(p) ==
    LET t == task[p]
    IN  /\ t.pc = "store" /\ t.events = {}
        /\ Upsert(t.contract, t.cursor, t.end)
        /\ task' = [task EXCEPT ![p].pc = "check"]
        /\ early' = [early EXCEPT ![t.contract] = @ \cup {b \in t.cursor..t.end : t.upTo < b}]
        /\ UNCHANGED <<head, saved, running, requests, disturbances, bridged>>

\* findOrFail throws if another renewal has destroyed the row meanwhile.
CheckRow(p) ==
    LET t == task[p]
        recorded == \E r \in rows : r.contract = t.contract /\ r.idFrom = t.cursor /\ r.idTo = t.end
    IN  /\ t.pc = "check"
        /\ task' = [task EXCEPT ![p] = IF recorded
                                       THEN [t EXCEPT !.pc = "loop", !.cursor = t.end + 1, !.end = 0, !.upTo = 0]
                                       ELSE Idle]
        /\ UNCHANGED <<head, saved, rows, running, requests, disturbances, history>>

-----------------------------------------------------------------------------
(* Collapsing the ranges *)

\* findOne without a condition: the oldest row of the table, of any contract.
FindFirst(p) ==
    LET t == task[p]
    IN  /\ t.pc = "loop" /\ t.to < t.cursor
        /\ \/ rows = {} /\ task' = [task EXCEPT ![p].pc = "fetch"]
           \/ \E r \in rows :
                 /\ \A s \in rows : r.rowid <= s.rowid
                 /\ task' = [task EXCEPT ![p] = IF r.from = t.from /\ r.to = t.max
                                                THEN [t EXCEPT !.pc = "fetch"]
                                                ELSE [t EXCEPT !.pc = "save", !.first = r]]
        /\ UNCHANGED <<head, saved, rows, running, requests, disturbances, history>>

\* save writes the columns that differ from those read; a row that is gone stays so.
Extend(r, t) ==
    [r EXCEPT !.from = IF t.from < t.first.from THEN t.from ELSE @,
              !.to = IF t.first.to < t.max THEN t.max ELSE @]

\* What neither the row nor the query had covered.
Bridge(t) ==
    {b \in Lower(t.from, t.first.from)..Upper(t.max, t.first.to) :
        /\ b \notin t.first.from..t.first.to
        /\ t.first.contract = t.contract => b \notin t.from..t.to}

SaveFirst(p) ==
    LET t == task[p]
        it == {r \in rows : SameId(r, t.first)}
    IN  /\ t.pc = "save"
        /\ rows' = (rows \ it) \cup {Extend(r, t) : r \in it}
        /\ bridged' = [bridged EXCEPT ![t.first.contract] = @ \cup (IF it = {} THEN {} ELSE Bridge(t))]
        /\ task' = [task EXCEPT ![p].pc = "destroy"]
        /\ UNCHANGED <<head, saved, running, requests, disturbances, early>>

DestroyOthers(p) ==
    LET t == task[p]
    IN  /\ t.pc = "destroy"
        /\ rows' = {r \in rows : Near(r, t) => SameId(r, t.first)}
        /\ task' = [task EXCEPT ![p].pc = "fetch"]
        /\ UNCHANGED <<head, saved, running, requests, disturbances, history>>

\* fetchCachedEvents answers what is saved between the two blocks.
Fetch(p) ==
    /\ task[p].pc = "fetch"
    /\ task' = [task EXCEPT ![p] = Idle]
    /\ running' = (running /\ p # Job)
    /\ UNCHANGED <<head, saved, rows, requests, disturbances, history>>

\* A restart finds the tables as they were.
Crash ==
    /\ disturbances < MaxDisturbances
    /\ task' = [p \in Tasks |-> Idle]
    /\ running' = FALSE
    /\ disturbances' = disturbances + 1
    /\ UNCHANGED <<head, saved, rows, requests, history>>

-----------------------------------------------------------------------------
Step(p) == \/ FindRanges(p) \/ PassRange(p) \/ Ask(p) \/ Store(p) \/ Record(p) \/ CheckRow(p)
           \/ FindFirst(p) \/ SaveFirst(p) \/ DestroyOthers(p) \/ Fetch(p)

Next == Mine \/ RunJob \/ Crash \/ (\E p \in Requests : Request(p)) \/ (\E p \in Tasks : Step(p) \/ AskFails(p))

Spec == Init /\ [][Next]_vars

(* Every call is answered or fails, and setInterval keeps starting the job. *)
FairSpec == Spec /\ WF_vars(RunJob) /\ \A p \in Tasks : WF_vars(Step(p))

-----------------------------------------------------------------------------
(* Properties *)

Covered(c) == saved[c] \cup early[c] \cup bridged[c]

\* A row of EventScan covers only blocks whose events are saved, whatever the order of
\* overlapping renewals, failures and crashes.  Two ways round it are known: a page past
\* the head, and a collapse that bridges what was not scanned.
RowsAreScanned ==
    \A r \in rows : r.from..r.to \subseteq Covered(r.contract)

\* What a query answers is complete: the pages and the rows found leave no block out.
AnswersAreComplete ==
    \A p \in Tasks : task[p].pc = "fetch" => task[p].from..task[p].to \subseteq Covered(task[p].contract)

\* The job keeps the events of the Identity contract up to date, unless it threw: it is
\* then marked as running for ever.
JobStalled == running /\ task[Job].pc = "idle"

IdentityEventsArrive ==
    \A b \in 1..MaxBlock : (b <= head) ~> (b \in Covered(Identity) \/ JobStalled)

\* The ranges that are collapsed into first_range have been scanned.
CollapsedRangesAreScanned ==
    \A r \in rows : r.from..r.to \subseteq saved[r.contract] \cup early[r.contract]
=============================================================================
