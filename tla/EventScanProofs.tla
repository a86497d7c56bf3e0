-------------------------- MODULE EventScanProofs ---------------------------
(***************************************************************************)
(* Proofs about EventScan, for all contracts, requests, page sizes and     *)
(* queries, and without the bounds.                                        *)
(***************************************************************************)
EXTENDS EventScan, TLAPS

USE EventScanAssumption

LEMMA Activities == Job \in Tasks /\ Requests \subseteq Tasks
BY DEF Tasks

-----------------------------------------------------------------------------
(* Types *)

LEMMA BoundsAreNat ==
    ASSUME NEW a \in Nat, NEW b \in Nat
    PROVE  /\ Lower(a, b) \in Nat /\ Lower(a, b) <= a /\ Lower(a, b) <= b
           /\ Upper(a, b) \in Nat /\ a <= Upper(a, b) /\ b <= Upper(a, b)
           /\ Lower(a, b) <= Upper(a, b)
BY DEF Lower, Upper

LEMMA IdleIsTask == Idle \in Task
BY DEF Idle, Task, NoRow, Row

LEMMA AllIdle == [p \in Tasks |-> Idle] \in [Tasks -> Task]
BY IdleIsTask

LEMMA QueryIsTask ==
    ASSUME NEW c \in Contracts, NEW a \in Nat, NEW b \in Nat
    PROVE  Query(c, a, b) \in Task
BY IdleIsTask, BoundsAreNat DEF Query, Idle, Task

LEMMA NewRowIdIsNat ==
    ASSUME rows \subseteq Row
    PROVE  NewRowId \in Nat
<1> DEFINE ids == {r.rowid : r \in rows}
           Greatest(m) == \A i \in ids : i <= m
<1>1. ids \subseteq Nat
  BY DEF Row
<1>2. CASE \E m \in ids : Greatest(m)
  <2>1. (CHOOSE m \in ids : Greatest(m)) \in ids
    BY <1>2
  <2> QED
    BY <1>1, <1>2, <2>1 DEF NewRowId
<1>3. CASE ~ \E m \in ids : Greatest(m)
  BY <1>3 DEF NewRowId
<1> QED
  BY <1>2, <1>3

LEMMA UpsertKeepsRows ==
    ASSUME rows \subseteq Row, NEW c \in Contracts, NEW a \in Nat, NEW b \in Nat, Upsert(c, a, b)
    PROVE  rows' \subseteq Row
<1> DEFINE new(i) == [contract |-> c, idFrom |-> a, idTo |-> b, from |-> a, to |-> b, rowid |-> i]
<1>1. \A i \in Nat : new(i) \in Row
  BY DEF Row
<1>2. \A r \in rows : r.rowid \in Nat
  BY DEF Row
<1>3. \A s \in rows' : s \in rows \/ s = new(NewRowId) \/ \E r \in rows : s = new(r.rowid)
  BY DEF Upsert
<1> QED
  BY <1>1, <1>2, <1>3, NewRowIdIsNat

\* The frame of most steps: one activity moves, and only EventScan may change besides.
LEMMA TypeOfMove ==
    ASSUME TypeOK, NEW p \in Tasks, NEW t \in Task, task' = [task EXCEPT ![p] = t],
           rows' \subseteq Row,
           UNCHANGED <<head, saved, running, requests, disturbances, history>>
    PROVE  TypeOK'
BY DEF TypeOK, history

LEMMA TypeInit == Init => TypeOK
<1> SUFFICES ASSUME Init PROVE TypeOK
  OBVIOUS
<1>1. task \in [Tasks -> Task]
  BY AllIdle DEF Init
<1>2. saved \in [Contracts -> SUBSET Nat]
  BY DEF Init
<1>3. early \in [Contracts -> SUBSET Nat]
  BY DEF Init
<1>4. bridged \in [Contracts -> SUBSET Nat]
  BY DEF Init
<1>5. head \in Nat /\ rows \subseteq Row /\ requests \in Nat /\ disturbances \in Nat
  BY DEF Init
<1>6. running \in BOOLEAN
  BY DEF Init
<1> QED
  BY <1>1, <1>2, <1>3, <1>4, <1>5, <1>6 DEF TypeOK

LEMMA TypeStep == TypeOK /\ [Next]_vars => TypeOK'
<1> SUFFICES ASSUME TypeOK, [Next]_vars PROVE TypeOK'
  OBVIOUS
<1>1. CASE Mine
  BY <1>1 DEF Mine, TypeOK, history
<1>2. CASE RunJob
  <2>1. Query(Identity, 0, head) \in Task
    BY QueryIsTask DEF TypeOK
  <2> QED
    BY <1>2, <2>1, Activities DEF RunJob, TypeOK, history
<1>3. CASE Crash
  <2>1. task' \in [Tasks -> Task]
    BY <1>3, AllIdle DEF Crash
  <2>2. running' \in BOOLEAN
    BY <1>3 DEF Crash
  <2>3. disturbances' \in Nat
    BY <1>3 DEF Crash, TypeOK
  <2> QED
    BY <1>3, <2>1, <2>2, <2>3 DEF Crash, TypeOK, history
<1>4. ASSUME NEW p \in Requests, Request(p)
      PROVE  TypeOK'
  <2>1. PICK c \in Contracts, q \in Queries :
          task' = [task EXCEPT ![p] = Query(c, q[1], IF q[2] = Latest THEN head ELSE q[2])]
    BY <1>4 DEF Request
  <2>2. q[1] \in Nat /\ (IF q[2] = Latest THEN head ELSE q[2]) \in Nat
    BY DEF TypeOK
  <2>3. Query(c, q[1], IF q[2] = Latest THEN head ELSE q[2]) \in Task
    BY <2>2, QueryIsTask
  <2> QED
    BY <1>4, <2>1, <2>3, Activities DEF Request, TypeOK, history
<1>5. ASSUME NEW p \in Tasks, Step(p) \/ AskFails(p)
      PROVE  TypeOK'
  <2> DEFINE t == task[p]
  <2>t. t \in Task /\ rows \subseteq Row /\ head \in Nat
    BY DEF TypeOK
  <2>1. CASE FindRanges(p)
    <3>1. {[from |-> r.from, to |-> r.to] : r \in {r \in rows : Near(r, t)}} \in SUBSET Range
      BY <2>t DEF Range, Row
    <3>2. [t EXCEPT !.pc = "loop", !.cursor = t.from,
                    !.ranges = {[from |-> r.from, to |-> r.to] : r \in {r \in rows : Near(r, t)}}] \in Task
      BY <2>t, <3>1 DEF Task
    <3> QED
      BY <2>1, <2>t, <3>2, TypeOfMove DEF FindRanges
  <2>2. CASE PassRange(p)
    <3>1. PICK r \in t.ranges :
            task' = [task EXCEPT ![p] = [t EXCEPT !.ranges = @ \ {r}, !.cursor = Upper(@, r.to + 1),
                                                  !.max = Upper(@, r.to)]]
      BY <2>2 DEF PassRange
    <3>2. r.to \in Nat /\ t.cursor \in Nat /\ t.max \in Nat
      BY <2>t DEF Task, Range
    <3>n. r.to + 1 \in Nat
      BY <3>2
    <3>u. Upper(t.cursor, r.to + 1) \in Nat /\ Upper(t.max, r.to) \in Nat
      BY <3>2, <3>n, BoundsAreNat
    <3>3. [t EXCEPT !.ranges = @ \ {r}, !.cursor = Upper(@, r.to + 1), !.max = Upper(@, r.to)] \in Task
      BY <2>t, <3>u DEF Task
    <3> QED
      BY <2>2, <2>t, <3>1, <3>3, TypeOfMove DEF PassRange
  <2>3. CASE Ask(p)
    <3>1. PICK e \in Page(t) :
            task' = [task EXCEPT ![p] = [t EXCEPT !.pc = "store", !.end = e, !.upTo = head,
                                                  !.events = {b \in t.cursor..e : b <= head}]]
      BY <2>3 DEF Ask
    <3>n. t.cursor \in Nat /\ t.to \in Nat /\ t.cursor + PageSize - 1 \in Nat
      BY <2>t DEF Task
    <3>l. Lower(t.to, t.cursor + PageSize - 1) \in Nat
      BY <3>n, BoundsAreNat
    <3>2. e \in Nat /\ {b \in t.cursor..e : b <= head} \in SUBSET Nat
      BY <3>n, <3>l DEF Page
    <3>3. [t EXCEPT !.pc = "store", !.end = e, !.upTo = head,
                    !.events = {b \in t.cursor..e : b <= head}] \in Task
      BY <2>t, <3>2 DEF Task
    <3> QED
      BY <2>3, <2>t, <3>1, <3>3, TypeOfMove DEF Ask
  <2>4. CASE Store(p)
    <3>1. PICK b \in t.events :
            /\ saved' = [saved EXCEPT ![t.contract] = @ \cup {b}]
            /\ task' = [task EXCEPT ![p].events = @ \ {b}]
      BY <2>4 DEF Store
    <3>2. b \in Nat /\ [t EXCEPT !.events = @ \ {b}] \in Task
      BY <2>t DEF Task
    <3>3. saved' \in [Contracts -> SUBSET Nat]
      BY <2>t, <3>1, <3>2 DEF TypeOK, Task
    <3>4. task' \in [Tasks -> Task]
      BY <3>1, <3>2 DEF TypeOK
    <3> QED
      BY <2>4, <3>3, <3>4 DEF Store, TypeOK, history
  <2>5. CASE Record(p)
    <3>1. rows' \subseteq Row
      BY <2>5, <2>t, UpsertKeepsRows DEF Record, Task
    <3>2. [t EXCEPT !.pc = "check"] \in Task
      BY <2>t DEF Task
    <3>3. task' \in [Tasks -> Task]
      BY <2>5, <3>2 DEF Record, TypeOK
    <3>4. {b \in t.cursor..t.end : t.upTo < b} \subseteq Nat
      BY <2>t DEF Task
    <3>5. early' \in [Contracts -> SUBSET Nat]
      BY <2>5, <2>t, <3>4 DEF Record, TypeOK, Task
    <3> QED
      BY <2>5, <3>1, <3>3, <3>5 DEF Record, TypeOK, history
  <2>6. CASE CheckRow(p)
    <3>n. t.end + 1 \in Nat
      BY <2>t DEF Task
    <3>1. [t EXCEPT !.pc = "loop", !.cursor = t.end + 1, !.end = 0, !.upTo = 0] \in Task
      BY <2>t, <3>n DEF Task
    <3>2. \E u \in Task : task' = [task EXCEPT ![p] = u]
      BY <2>6, <3>1, IdleIsTask DEF CheckRow
    <3> QED
      BY <2>6, <2>t, <3>2, TypeOfMove DEF CheckRow
  <2>7. CASE FindFirst(p)
    <3>1. [t EXCEPT !.pc = "fetch"] \in Task /\ \A r \in rows : [t EXCEPT !.pc = "save", !.first = r] \in Task
      BY <2>t DEF Task
    <3> QED
      BY <2>7, <2>t, <3>1, TypeOfMove DEF FindFirst
  <2>8. CASE SaveFirst(p)
    <3>1. \A r \in rows : Extend(r, t) \in Row
      BY <2>t DEF Extend, Row, Task
    <3>2. rows' \subseteq Row
      BY <2>8, <2>t, <3>1 DEF SaveFirst
    <3>3. [t EXCEPT !.pc = "destroy"] \in Task /\ t.first \in Row
      BY <2>t DEF Task
    <3>4. task' \in [Tasks -> Task]
      BY <2>8, <3>3 DEF SaveFirst, TypeOK
    <3>5. Bridge(t) \subseteq Nat
      BY <2>t, <3>3, BoundsAreNat DEF Bridge, Task, Row
    <3>6. bridged' \in [Contracts -> SUBSET Nat]
      BY <2>8, <3>3, <3>5 DEF SaveFirst, TypeOK, Row
    <3> QED
      BY <2>8, <3>2, <3>4, <3>6 DEF SaveFirst, TypeOK, history
  <2>9. CASE DestroyOthers(p)
    <3>1. [t EXCEPT !.pc = "fetch"] \in Task /\ rows' \subseteq Row
      BY <2>9, <2>t DEF Task, DestroyOthers
    <3> QED
      BY <2>9, <3>1, TypeOfMove DEF DestroyOthers
  <2>10. CASE Fetch(p)
    BY <2>10, IdleIsTask DEF Fetch, TypeOK, history
  <2>11. CASE AskFails(p)
    BY <2>11, IdleIsTask DEF AskFails, TypeOK, history
  <2> QED
    BY <1>5, <2>1, <2>2, <2>3, <2>4, <2>5, <2>6, <2>7, <2>8, <2>9, <2>10, <2>11 DEF Step
<1>6. CASE UNCHANGED vars
  BY <1>6 DEF vars, TypeOK, history
<1> QED
  BY <1>1, <1>2, <1>3, <1>4, <1>5, <1>6 DEF Next

\* Every reachable state has the types of TypeOK; the table keeps only rows of the
\* shape that renewals create.
THEOREM TypeCorrect == Spec => []TypeOK
BY TypeInit, TypeStep, PTL DEF Spec

-----------------------------------------------------------------------------
(* Nothing is left out *)

\* A row has grown around the page of its id, and covers what is scanned.
RowInv(r) ==
    /\ r.from <= r.idFrom /\ r.idFrom <= r.idTo /\ r.idTo <= r.to
    /\ \A b \in Nat : r.from <= b /\ b <= r.to => b \in Covered(r.contract)

Looping == {"loop", "store", "check"}
Collapsing == {"save", "destroy", "fetch"}

\* Behind the cursor everything is scanned, and so is what an activity remembers of the
\* rows, however old.
TaskInv(t) ==
    /\ t.from <= t.to
    /\ t.pc = "ranges" => t.max = 0
    /\ t.pc \in Looping \cup Collapsing =>
          /\ \A b \in Nat : t.from <= b /\ b < t.cursor => b \in Covered(t.contract)
          /\ t.max = 0 \/ t.max < t.cursor
    /\ t.pc \in Looping =>
          \A r \in t.ranges : \A b \in Nat : r.from <= b /\ b <= r.to => b \in Covered(t.contract)
    /\ t.pc \in {"store", "check"} =>
          /\ t.cursor <= t.end
          /\ \A b \in t.events : t.cursor <= b /\ b <= t.end
          /\ \A b \in Nat : t.cursor <= b /\ b <= t.end /\ b <= t.upTo => b \in saved[t.contract] \cup t.events
    /\ t.pc = "check" =>
          \A b \in Nat : t.cursor <= b /\ b <= t.end => b \in Covered(t.contract)
    /\ t.pc \in Collapsing => t.to < t.cursor
    /\ t.pc = "save" => RowInv(t.first)

ScanInv ==
    /\ \A r \in rows : RowInv(r)
    /\ \A p \in Tasks : TaskInv(task[p])

\* The tables only grow.
Grows == \A c \in Contracts : saved[c] \subseteq saved'[c] /\ Covered(c) \subseteq Covered(c)'

LEMMA StepsGrow == TypeOK /\ [Next]_vars => Grows
<1> SUFFICES ASSUME TypeOK, [Next]_vars, NEW c \in Contracts
             PROVE  saved[c] \subseteq saved'[c] /\ Covered(c) \subseteq Covered(c)'
  BY DEF Grows
<1>1. \/ UNCHANGED <<saved, early, bridged>>
      \/ \E p \in Tasks : Store(p) \/ Record(p) \/ SaveFirst(p)
  BY DEF Next, Step, vars, history, Mine, RunJob, Crash, Request, FindRanges, PassRange, Ask, AskFails,
         CheckRow, FindFirst, DestroyOthers, Fetch
<1>2. CASE UNCHANGED <<saved, early, bridged>>
  BY <1>2 DEF Covered
<1>3. ASSUME NEW p \in Tasks, Store(p)
      PROVE  saved[c] \subseteq saved'[c] /\ Covered(c) \subseteq Covered(c)'
  BY <1>3 DEF Store, Covered, TypeOK, history
<1>4. ASSUME NEW p \in Tasks, Record(p)
      PROVE  saved[c] \subseteq saved'[c] /\ Covered(c) \subseteq Covered(c)'
  BY <1>4 DEF Record, Covered, TypeOK
<1>5. ASSUME NEW p \in Tasks, SaveFirst(p)
      PROVE  saved[c] \subseteq saved'[c] /\ Covered(c) \subseteq Covered(c)'
  BY <1>5 DEF SaveFirst, Covered, TypeOK
<1> QED
  BY <1>1, <1>2, <1>3, <1>4, <1>5

LEMMA RowInvKept ==
    ASSUME Grows, NEW r \in Row, RowInv(r)
    PROVE  RowInv(r)'
<1>1. r.contract \in Contracts
  BY DEF Row
<1> QED
  BY <1>1 DEF RowInv, Grows

LEMMA TaskInvKept ==
    ASSUME Grows, NEW t \in Task, TaskInv(t)
    PROVE  TaskInv(t)'
<1>1. t.contract \in Contracts /\ t.first \in Row
  BY DEF Task
<1>2. t.pc = "save" => RowInv(t.first)'
  BY <1>1, RowInvKept DEF TaskInv
<1> QED
  BY <1>1, <1>2 DEF TaskInv, Grows

LEMMA IdleInv == TaskInv(Idle) /\ TaskInv(Idle)'
BY DEF TaskInv, Idle, Looping, Collapsing

LEMMA RowsKept ==
    ASSUME TypeOK, ScanInv, Grows, rows' \subseteq rows
    PROVE  \A r \in rows' : RowInv(r)'
<1> SUFFICES ASSUME NEW r \in rows' PROVE RowInv(r)'
  OBVIOUS
<1>1. r \in Row /\ RowInv(r)
  BY DEF TypeOK, ScanInv
<1> QED
  BY <1>1, RowInvKept

LEMMA InvOfMove ==
    ASSUME TypeOK, ScanInv, Grows, NEW p \in Tasks, NEW t \in Task,
           task' = [task EXCEPT ![p] = t], TaskInv(t)', \A r \in rows' : RowInv(r)'
    PROVE  ScanInv'
<1> SUFFICES ASSUME NEW q \in Tasks PROVE TaskInv(task[q])'
  BY DEF ScanInv
<1>1. PICK u \in Task : u = task'[q] /\ TaskInv(u)'
  <2>1. CASE q = p
    BY <2>1 DEF TypeOK
  <2>2. CASE q # p
    <3>1. PICK u \in Task : u = task[q] /\ TaskInv(u)
      BY DEF TypeOK, ScanInv
    <3>2. TaskInv(u)'
      BY <3>1, TaskInvKept
    <3>3. task'[q] = u
      BY <2>2, <3>1 DEF TypeOK
    <3> QED
      BY <3>2, <3>3
  <2> QED
    BY <2>1, <2>2
<1> QED
  BY <1>1 DEF TaskInv, RowInv, Covered

LEMMA QueryInv ==
    ASSUME NEW c \in Contracts, NEW a \in Nat, NEW b \in Nat
    PROVE  TaskInv(Query(c, a, b))'
<1> DEFINE t == Query(c, a, b)
<1>1. t.from <= t.to /\ t.pc = "ranges" /\ t.max = 0
  BY BoundsAreNat DEF Query, Idle
<1> QED
  BY <1>1 DEF TaskInv, Looping, Collapsing

\* In the following lemmas t is the activity before the step, a constant: what it
\* remembers stays true when the tables have grown.
LEMMA FindRangesInv ==
    ASSUME TypeOK, ScanInv, Grows, NEW p \in Tasks, NEW t \in Task, t = task[p], TaskInv(t), FindRanges(p)
    PROVE  ScanInv'
<1> DEFINE R == {[from |-> r.from, to |-> r.to] : r \in {r \in rows : Near(r, t)}}
<1>1. R \in SUBSET Range
  BY DEF TypeOK, Range, Row
<1>u. PICK u \in Task : u = [t EXCEPT !.pc = "loop", !.cursor = t.from, !.ranges = R]
  BY <1>1 DEF Task
<1>2. task' = [task EXCEPT ![p] = u] /\ rows' = rows
  BY <1>u DEF FindRanges
<1>3. \A r \in rows' : RowInv(r)'
  BY <1>2, RowsKept
<1>4. \A r \in u.ranges : \A b \in Nat : r.from <= b /\ b <= r.to => b \in Covered(u.contract)'
  <2>1. TAKE r \in u.ranges
  <2>2. PICK s \in rows : Near(s, t) /\ r = [from |-> s.from, to |-> s.to]
    BY <1>u DEF Task
  <2>3. RowInv(s)' /\ s.contract = t.contract
    BY <1>2, <1>3, <2>2 DEF Near
  <2> QED
    BY <1>u, <2>2, <2>3 DEF RowInv, Task
<1>5. u.pc = "loop" /\ u.cursor = u.from /\ u.max = 0 /\ u.from <= u.to
  BY <1>u DEF TaskInv, FindRanges, Task
<1>6. TaskInv(u)'
  <2>1. u.from \in Nat
    BY DEF Task
  <2> QED
    BY <1>4, <1>5, <2>1 DEF TaskInv, Looping, Collapsing
<1> QED
  BY <1>2, <1>3, <1>6, InvOfMove

LEMMA PassRangeInv ==
    ASSUME TypeOK, ScanInv, Grows, NEW p \in Tasks, NEW t \in Task, t = task[p], TaskInv(t)', PassRange(p)
    PROVE  ScanInv'
<1>1. PICK r \in t.ranges :
        /\ r.from <= t.cursor
        /\ task' = [task EXCEPT ![p] = [t EXCEPT !.ranges = @ \ {r}, !.cursor = Upper(@, r.to + 1),
                                                 !.max = Upper(@, r.to)]]
  BY DEF PassRange
<1> DEFINE u == [t EXCEPT !.ranges = @ \ {r}, !.cursor = Upper(@, r.to + 1), !.max = Upper(@, r.to)]
<1>2. r.from \in Nat /\ r.to \in Nat /\ t.cursor \in Nat /\ t.max \in Nat
  BY DEF Task, Range
<1>3. u.cursor = Upper(t.cursor, r.to + 1) /\ u.max = Upper(t.max, r.to) /\ u.ranges \subseteq t.ranges
      /\ u.pc = "loop" /\ u.from = t.from /\ u.to = t.to /\ u.contract = t.contract /\ t.pc = "loop"
  BY DEF Task, PassRange
<1>4. u.cursor \in Nat /\ u.max \in Nat
  <2>1. r.to + 1 \in Nat
    BY <1>2
  <2>2. Upper(t.cursor, r.to + 1) \in Nat /\ Upper(t.max, r.to) \in Nat
    BY <1>2, <2>1, BoundsAreNat
  <2> QED
    BY <1>3, <2>2
<1>5. u \in Task
  BY <1>3, <1>4 DEF Task
<1> HIDE DEF u
<1>6. \A b \in Nat : u.from <= b /\ b < u.cursor => b \in Covered(u.contract)'
  <2>1. SUFFICES ASSUME NEW b \in Nat, u.from <= b, b < u.cursor PROVE b \in Covered(t.contract)'
    BY <1>3
  <2>2. CASE b < t.cursor
    BY <1>3, <2>1, <2>2 DEF TaskInv, Looping
  <2>3. CASE t.cursor <= b
    <3>1. r.from <= b /\ b <= r.to
      BY <1>1, <1>2, <1>3, <2>1, <2>3 DEF Upper
    <3> QED
      BY <1>3, <3>1 DEF TaskInv, Looping
  <2> QED
    BY <1>2, <2>2, <2>3
<1>7. u.max = 0 \/ u.max < u.cursor
  <2>1. t.max = 0 \/ t.max < t.cursor
    BY <1>3 DEF TaskInv, Looping
  <2> QED
    BY <1>2, <1>3, <2>1 DEF Upper
<1>8. TaskInv(u)'
  BY <1>3, <1>6, <1>7 DEF TaskInv, Looping, Collapsing
<1>9. \A r1 \in rows' : RowInv(r1)'
  BY RowsKept DEF PassRange
<1> QED
  BY <1>1, <1>5, <1>8, <1>9, InvOfMove DEF u

LEMMA AskInv ==
    ASSUME TypeOK, ScanInv, Grows, NEW p \in Tasks, NEW t \in Task, t = task[p], TaskInv(t)', Ask(p)
    PROVE  ScanInv'
<1>1. PICK e \in Page(t) :
        task' = [task EXCEPT ![p] = [t EXCEPT !.pc = "store", !.end = e, !.upTo = head,
                                              !.events = {b \in t.cursor..e : b <= head}]]
  BY DEF Ask
<1>2. t.cursor \in Nat /\ t.to \in Nat /\ head \in Nat /\ t.pc = "loop"
  BY DEF Task, TypeOK, Ask
<1>3. e \in Nat /\ t.cursor <= e
  <2>1. t.cursor + PageSize - 1 \in Nat
    BY <1>2
  <2>2. Lower(t.to, t.cursor + PageSize - 1) \in Nat
    BY <1>2, <2>1, BoundsAreNat
  <2> QED
    BY <1>2, <2>2 DEF Page
<1>4. {b \in t.cursor..e : b <= head} \in SUBSET Nat
  BY <1>2, <1>3
<1>5. PICK u \in Task : u = [t EXCEPT !.pc = "store", !.end = e, !.upTo = head,
                                      !.events = {b \in t.cursor..e : b <= head}]
  BY <1>2, <1>3, <1>4 DEF Task
<1>6. /\ u.pc = "store" /\ u.end = e /\ u.upTo = head /\ u.events = {b \in t.cursor..e : b <= head}
      /\ u.from = t.from /\ u.to = t.to /\ u.cursor = t.cursor /\ u.max = t.max
      /\ u.ranges = t.ranges /\ u.contract = t.contract
  BY <1>5 DEF Task
<1>7. \A b \in Nat : u.cursor <= b /\ b <= u.end /\ b <= u.upTo => b \in u.events
  <2>1. \A b \in Nat : t.cursor <= b /\ b <= e /\ b <= head => b \in {x \in t.cursor..e : x <= head}
    BY <1>2, <1>3
  <2> QED
    BY <1>6, <2>1
<1>8. u.cursor <= u.end /\ \A b \in u.events : u.cursor <= b /\ b <= u.end
  <2>1. \A b \in {x \in t.cursor..e : x <= head} : t.cursor <= b /\ b <= e
    BY <1>2, <1>3
  <2> QED
    BY <1>3, <1>6, <2>1
<1>9. TaskInv(u)'
  BY <1>2, <1>6, <1>7, <1>8 DEF TaskInv, Looping, Collapsing
<1>10. \A r \in rows' : RowInv(r)'
  BY RowsKept DEF Ask
<1> QED
  BY <1>1, <1>5, <1>9, <1>10, InvOfMove

LEMMA StoreInv ==
    ASSUME TypeOK, ScanInv, Grows, NEW p \in Tasks, NEW t \in Task, t = task[p], TaskInv(t), TaskInv(t)', Store(p)
    PROVE  ScanInv'
<1>1. PICK b \in t.events :
        /\ saved' = [saved EXCEPT ![t.contract] = @ \cup {b}]
        /\ task' = [task EXCEPT ![p].events = @ \ {b}]
  BY DEF Store
<1>2. PICK u \in Task : u = [t EXCEPT !.events = @ \ {b}]
  BY DEF Task
<1>3. /\ u.pc = "store" /\ t.pc = "store" /\ u.events = t.events \ {b}
      /\ u.end = t.end /\ u.upTo = t.upTo /\ u.from = t.from /\ u.to = t.to /\ u.cursor = t.cursor
      /\ u.max = t.max /\ u.ranges = t.ranges /\ u.contract = t.contract
  BY <1>2 DEF Task, Store
<1>4. b \in saved'[t.contract] /\ saved[t.contract] \subseteq saved'[t.contract]
  BY <1>1 DEF Task, TypeOK
<1>5. \A a \in Nat : u.cursor <= a /\ a <= u.end /\ a <= u.upTo => a \in saved'[u.contract] \cup u.events
  BY <1>3, <1>4 DEF TaskInv
<1>6. TaskInv(u)'
  BY <1>3, <1>5 DEF TaskInv, Looping, Collapsing
<1>7. \A r \in rows' : RowInv(r)'
  BY RowsKept DEF Store
<1>8. task' = [task EXCEPT ![p] = u]
  BY <1>1, <1>2
<1> QED
  BY <1>6, <1>7, <1>8, InvOfMove

\* A page that is recorded is scanned, as far as there were blocks.
LEMMA RecordInv ==
    ASSUME TypeOK, ScanInv, Grows, NEW p \in Tasks, NEW t \in Task, t = task[p], TaskInv(t), TaskInv(t)', Record(p)
    PROVE  ScanInv'
<1> DEFINE new(i) == [contract |-> t.contract, idFrom |-> t.cursor, idTo |-> t.end,
                      from |-> t.cursor, to |-> t.end, rowid |-> i]
<1>1. PICK u \in Task : u = [t EXCEPT !.pc = "check"]
  BY DEF Task
<1>2. /\ u.pc = "check" /\ t.pc = "store" /\ u.events = t.events /\ t.events = {} /\ u.end = t.end
      /\ u.upTo = t.upTo /\ u.from = t.from /\ u.to = t.to /\ u.cursor = t.cursor
      /\ u.max = t.max /\ u.ranges = t.ranges /\ u.contract = t.contract
  BY <1>1 DEF Task, Record
<1>3. \A b \in Nat : t.cursor <= b /\ b <= t.end => b \in Covered(t.contract)'
  <2>1. SUFFICES ASSUME NEW b \in Nat, t.cursor <= b, b <= t.end PROVE b \in Covered(t.contract)'
    OBVIOUS
  <2>2. t.upTo \in Nat /\ t.cursor \in Nat /\ t.end \in Nat /\ t.contract \in Contracts
    BY DEF Task
  <2>3. CASE b <= t.upTo
    <3>1. b \in saved[t.contract]
      BY <1>2, <2>1, <2>3 DEF TaskInv
    <3> QED
      BY <2>2, <3>1 DEF Grows, Covered
  <2>4. CASE t.upTo < b
    <3>1. b \in {x \in t.cursor..t.end : t.upTo < x}
      BY <2>1, <2>2, <2>4
    <3>2. b \in early'[t.contract]
      BY <2>2, <3>1 DEF Record, TypeOK
    <3> QED
      BY <3>2 DEF Covered
  <2> QED
    BY <2>2, <2>3, <2>4
<1>4. \A r \in rows' : RowInv(r)'
  <2>1. SUFFICES ASSUME NEW r \in rows' PROVE RowInv(r)'
    OBVIOUS
  <2>2. CASE r \in rows
    BY <2>2, RowInvKept DEF TypeOK, ScanInv
  <2>3. ASSUME NEW i, r = new(i) PROVE RowInv(r)'
    <3>1. r.from = t.cursor /\ r.idFrom = t.cursor /\ r.idTo = t.end /\ r.to = t.end /\ r.contract = t.contract
      BY <2>3
    <3>2. t.cursor <= t.end /\ t.cursor \in Nat /\ t.end \in Nat
      BY <1>2 DEF TaskInv, Task
    <3> QED
      BY <1>3, <3>1, <3>2 DEF RowInv
  <2>4. r \in rows \/ r = new(NewRowId) \/ \E q \in rows : r = new(q.rowid)
    BY DEF Record, Upsert
  <2> QED
    BY <2>2, <2>3, <2>4
<1>5. TaskInv(u)'
  BY <1>2, <1>3 DEF TaskInv, Looping, Collapsing
<1>6. task' = [task EXCEPT ![p] = u]
  BY <1>1 DEF Record
<1> QED
  BY <1>4, <1>5, <1>6, InvOfMove

LEMMA CheckRowInv ==
    ASSUME TypeOK, ScanInv, Grows, NEW p \in Tasks, NEW t \in Task, t = task[p], TaskInv(t), TaskInv(t)', CheckRow(p)
    PROVE  ScanInv'
<1>1. PICK u \in Task : u = [t EXCEPT !.pc = "loop", !.cursor = t.end + 1, !.end = 0, !.upTo = 0]
  <2>1. t.end + 1 \in Nat
    BY DEF Task
  <2> QED
    BY <2>1 DEF Task
<1>2. /\ u.pc = "loop" /\ t.pc = "check" /\ u.from = t.from /\ u.to = t.to /\ u.cursor = t.end + 1
      /\ u.max = t.max /\ u.ranges = t.ranges /\ u.contract = t.contract
  BY <1>1 DEF Task, CheckRow
<1>3. t.end \in Nat /\ t.cursor \in Nat /\ t.max \in Nat /\ t.from \in Nat /\ t.cursor <= t.end
  BY <1>2 DEF Task, TaskInv
<1>4. \A b \in Nat : u.from <= b /\ b < u.cursor => b \in Covered(u.contract)'
  <2>1. SUFFICES ASSUME NEW b \in Nat, t.from <= b, b <= t.end PROVE b \in Covered(t.contract)'
    BY <1>2, <1>3
  <2>2. CASE b < t.cursor
    BY <1>2, <2>1, <2>2 DEF TaskInv, Looping
  <2>3. CASE t.cursor <= b
    BY <1>2, <2>1, <2>3 DEF TaskInv
  <2> QED
    BY <1>3, <2>2, <2>3
<1>5. u.max = 0 \/ u.max < u.cursor
  <2>1. t.max = 0 \/ t.max < t.cursor
    BY <1>2 DEF TaskInv, Looping
  <2> QED
    BY <1>2, <1>3, <2>1
<1>6. TaskInv(u)'
  BY <1>2, <1>4, <1>5 DEF TaskInv, Looping, Collapsing
<1>7. task' = [task EXCEPT ![p] = u] \/ task' = [task EXCEPT ![p] = Idle]
  BY <1>1 DEF CheckRow
<1>8. \A r \in rows' : RowInv(r)'
  BY RowsKept DEF CheckRow
<1> QED
  BY <1>6, <1>7, <1>8, IdleInv, IdleIsTask, InvOfMove

LEMMA FindFirstInv ==
    ASSUME TypeOK, ScanInv, Grows, NEW p \in Tasks, NEW t \in Task, t = task[p], TaskInv(t)', FindFirst(p)
    PROVE  ScanInv'
<1>1. t.pc = "loop" /\ t.to < t.cursor
  BY DEF FindFirst
<1>2. \A r \in rows' : RowInv(r)'
  BY RowsKept DEF FindFirst
<1>3. PICK u \in Task : u = [t EXCEPT !.pc = "fetch"]
  BY DEF Task
<1>4. TaskInv(u)'
  BY <1>1, <1>3 DEF TaskInv, Looping, Collapsing, Task
<1>5. CASE task' = [task EXCEPT ![p] = u]
  BY <1>2, <1>4, <1>5, InvOfMove
<1>6. ASSUME NEW r \in rows, task' = [task EXCEPT ![p] = [t EXCEPT !.pc = "save", !.first = r]]
      PROVE  ScanInv'
  <2>1. r \in Row /\ RowInv(r)'
    BY <1>2 DEF TypeOK, FindFirst
  <2>2. PICK v \in Task : v = [t EXCEPT !.pc = "save", !.first = r]
    BY <2>1 DEF Task
  <2>3. /\ v.pc = "save" /\ v.first = r /\ v.from = t.from /\ v.to = t.to /\ v.cursor = t.cursor
        /\ v.max = t.max /\ v.contract = t.contract
    BY <2>2 DEF Task
  <2>4. TaskInv(v)'
    BY <1>1, <2>1, <2>3 DEF TaskInv, Looping, Collapsing
  <2> QED
    BY <1>2, <1>6, <2>2, <2>4, InvOfMove
<1> QED
  BY <1>3, <1>5, <1>6 DEF FindFirst

\* The row that is extended covers what it did, what the query has scanned, and the
\* bridge; first_range may have been reset meanwhile but still contains its page.
LEMMA SaveFirstInv ==
    ASSUME TypeOK, ScanInv, Grows, NEW p \in Tasks, NEW t \in Task, t = task[p], TaskInv(t)', SaveFirst(p)
    PROVE  ScanInv'
<1>0. t.pc = "save"
  BY DEF SaveFirst
<1>1. PICK u \in Task : u = [t EXCEPT !.pc = "destroy"]
  BY DEF Task
<1>2. task' = [task EXCEPT ![p] = u]
  BY <1>1 DEF SaveFirst
<1>3. TaskInv(u)'
  BY <1>0, <1>1 DEF TaskInv, Looping, Collapsing, Task
<1>4. ASSUME NEW r \in rows, SameId(r, t.first)
      PROVE  RowInv(Extend(r, t))'
  <2> DEFINE first == t.first
  <2>1. r \in Row /\ first \in Row /\ t.from \in Nat /\ t.to \in Nat /\ t.max \in Nat /\ t.cursor \in Nat
    BY DEF TypeOK, Task
  <2>2. RowInv(r)' /\ RowInv(first)'
    <3>1. RowInv(r)
      BY DEF ScanInv
    <3> QED
      BY <1>0, <2>1, <3>1, RowInvKept DEF TaskInv
  <2>3. PICK e \in Row : e = Extend(r, t)
    BY <2>1 DEF Extend, Row
  <2>4. /\ e.idFrom = r.idFrom /\ e.idTo = r.idTo /\ e.contract = r.contract
        /\ e.from = IF t.from < first.from THEN t.from ELSE r.from
        /\ e.to = IF first.to < t.max THEN t.max ELSE r.to
    BY <2>1, <2>3 DEF Extend, Row
  <2>5. r.contract = first.contract /\ r.idFrom = first.idFrom /\ r.idTo = first.idTo
    BY <1>4 DEF SameId
  <2>6. /\ r.from \in Nat /\ r.to \in Nat /\ r.idFrom \in Nat /\ r.idTo \in Nat
        /\ first.from \in Nat /\ first.to \in Nat
    BY <2>1 DEF Row
  <2>7. /\ r.from <= r.idFrom /\ r.idFrom <= r.idTo /\ r.idTo <= r.to
        /\ first.from <= r.idFrom /\ r.idTo <= first.to
    BY <2>2, <2>5 DEF RowInv
  <2>8. e.from <= e.idFrom /\ e.idFrom <= e.idTo /\ e.idTo <= e.to
    BY <2>1, <2>4, <2>6, <2>7
  <2>9. ASSUME NEW b \in Nat, e.from <= b, b <= e.to
        PROVE  b \in Covered(r.contract)'
    <3>1. CASE r.from <= b /\ b <= r.to
      BY <2>2, <3>1 DEF RowInv
    <3>2. CASE first.from <= b /\ b <= first.to
      BY <2>2, <2>5, <3>2 DEF RowInv
    <3>3. CASE ~(r.from <= b /\ b <= r.to) /\ ~(first.from <= b /\ b <= first.to)
      <4>1. t.from <= b \/ first.from <= b
        BY <2>1, <2>4, <2>6, <2>7, <2>9, <3>3
      <4>2. b <= t.max \/ b <= first.to
        BY <2>1, <2>4, <2>6, <2>7, <2>9, <3>3
      <4>3. CASE first.contract = t.contract /\ b \in t.from..t.to
        BY <1>0, <2>1, <2>5, <4>3 DEF TaskInv, Collapsing
      <4>4. CASE ~(first.contract = t.contract /\ b \in t.from..t.to)
        <5>1. Lower(t.from, first.from) <= b /\ b <= Upper(t.max, first.to)
          BY <2>1, <2>6, <4>1, <4>2 DEF Lower, Upper
        <5>2. Lower(t.from, first.from) \in Nat /\ Upper(t.max, first.to) \in Nat
          BY <2>1, <2>6, BoundsAreNat
        <5>3. b \in Lower(t.from, first.from)..Upper(t.max, first.to)
          BY <5>1, <5>2
        <5>4. b \in Bridge(t)
          BY <2>6, <3>3, <4>4, <5>3 DEF Bridge
        <5>5. b \in bridged'[first.contract]
          BY <1>4, <2>1, <5>4 DEF SaveFirst, TypeOK, Row
        <5> QED
          BY <2>5, <5>5 DEF Covered
      <4> QED
        BY <4>3, <4>4
    <3> QED
      BY <3>1, <3>2, <3>3
  <2>10. RowInv(e)'
    BY <2>4, <2>8, <2>9 DEF RowInv
  <2> QED
    BY <2>3, <2>10 DEF RowInv, Covered, Extend
<1>5. \A r \in rows' : RowInv(r)'
  <2>1. SUFFICES ASSUME NEW r \in rows' PROVE RowInv(r)'
    OBVIOUS
  <2>2. CASE r \in rows
    BY <2>2, RowInvKept DEF TypeOK, ScanInv
  <2>3. CASE r \notin rows
    BY <1>4, <2>3 DEF SaveFirst
  <2> QED
    BY <2>2, <2>3
<1> QED
  BY <1>2, <1>3, <1>5, InvOfMove

LEMMA DestroyOthersInv ==
    ASSUME TypeOK, ScanInv, Grows, NEW p \in Tasks, NEW t \in Task, t = task[p], TaskInv(t)', DestroyOthers(p)
    PROVE  ScanInv'
<1>1. PICK u \in Task : u = [t EXCEPT !.pc = "fetch"]
  BY DEF Task
<1>2. TaskInv(u)'
  BY <1>1 DEF TaskInv, Looping, Collapsing, Task, DestroyOthers
<1>3. \A r \in rows' : RowInv(r)'
  BY RowsKept DEF DestroyOthers
<1>4. task' = [task EXCEPT ![p] = u]
  BY <1>1 DEF DestroyOthers
<1> QED
  BY <1>2, <1>3, <1>4, InvOfMove

LEMMA ScanStep == TypeOK /\ ScanInv /\ [Next]_vars => ScanInv'
<1> SUFFICES ASSUME TypeOK, ScanInv, [Next]_vars PROVE ScanInv'
  OBVIOUS
<1>g. Grows
  BY StepsGrow
<1>1. CASE Mine \/ UNCHANGED vars
  <2>1. rows' = rows /\ task' = task
    BY <1>1 DEF Mine, vars
  <2>2. \A r \in rows' : RowInv(r)'
    BY <1>g, <2>1, RowsKept
  <2>3. PICK t \in Task : t = task[Job] /\ TaskInv(t)
    BY Activities DEF TypeOK, ScanInv
  <2>4. TaskInv(t)'
    BY <1>g, <2>3, TaskInvKept
  <2>5. task' = [task EXCEPT ![Job] = t]
    BY <2>1, <2>3 DEF TypeOK
  <2> QED
    BY <1>g, <2>2, <2>4, <2>5, Activities, InvOfMove
<1>2. CASE RunJob
  <2>1. \A r \in rows' : RowInv(r)'
    BY <1>g, <1>2, RowsKept DEF RunJob
  <2>2. PICK h \in Nat : h = head
    BY DEF TypeOK
  <2>3. PICK t \in Task : t = Query(Identity, 0, h) /\ TaskInv(t)'
    BY QueryIsTask, QueryInv
  <2> QED
    BY <1>g, <1>2, <2>1, <2>2, <2>3, Activities, InvOfMove DEF RunJob
<1>3. CASE Crash
  <2>1. \A r \in rows' : RowInv(r)'
    BY <1>g, <1>3, RowsKept DEF Crash
  <2>2. \A p \in Tasks : TaskInv(task[p])'
    BY <1>3, IdleInv DEF Crash, TaskInv, Idle, Looping, Collapsing
  <2> QED
    BY <2>1, <2>2 DEF ScanInv
<1>4. ASSUME NEW p \in Requests, Request(p)
      PROVE  ScanInv'
  <2>1. \A r \in rows' : RowInv(r)'
    BY <1>g, <1>4, RowsKept DEF Request
  <2>2. PICK c \in Contracts, q \in Queries :
          task' = [task EXCEPT ![p] = Query(c, q[1], IF q[2] = Latest THEN head ELSE q[2])]
    BY <1>4 DEF Request
  <2>3. PICK a \in Nat, b \in Nat : a = q[1] /\ b = IF q[2] = Latest THEN head ELSE q[2]
    BY DEF TypeOK
  <2>4. PICK t \in Task : t = Query(c, a, b) /\ TaskInv(t)'
    BY QueryIsTask, QueryInv
  <2> QED
    BY <1>g, <2>1, <2>2, <2>3, <2>4, Activities, InvOfMove
<1>5. ASSUME NEW p \in Tasks, Step(p) \/ AskFails(p)
      PROVE  ScanInv'
  <2>t. PICK t \in Task : t = task[p] /\ TaskInv(t)
    BY DEF TypeOK, ScanInv
  <2>k. TaskInv(t)'
    BY <1>g, <2>t, TaskInvKept
  <2>1. CASE FindRanges(p)
    BY <1>g, <2>t, <2>1, FindRangesInv
  <2>2. CASE PassRange(p)
    BY <1>g, <2>t, <2>k, <2>2, PassRangeInv
  <2>3. CASE Ask(p)
    BY <1>g, <2>t, <2>k, <2>3, AskInv
  <2>4. CASE Store(p)
    BY <1>g, <2>t, <2>k, <2>4, StoreInv
  <2>5. CASE Record(p)
    BY <1>g, <2>t, <2>k, <2>5, RecordInv
  <2>6. CASE CheckRow(p)
    BY <1>g, <2>t, <2>k, <2>6, CheckRowInv
  <2>7. CASE FindFirst(p)
    BY <1>g, <2>t, <2>k, <2>7, FindFirstInv
  <2>8. CASE SaveFirst(p)
    BY <1>g, <2>t, <2>k, <2>8, SaveFirstInv
  <2>9. CASE DestroyOthers(p)
    BY <1>g, <2>t, <2>k, <2>9, DestroyOthersInv
  <2>10. CASE Fetch(p) \/ AskFails(p)
    <3>1. task' = [task EXCEPT ![p] = Idle] /\ rows' \subseteq rows
      BY <2>10 DEF Fetch, AskFails
    <3>2. \A r \in rows' : RowInv(r)'
      BY <1>g, <3>1, RowsKept
    <3> QED
      BY <1>g, <3>1, <3>2, IdleInv, IdleIsTask, InvOfMove
  <2> QED
    BY <1>5, <2>1, <2>2, <2>3, <2>4, <2>5, <2>6, <2>7, <2>8, <2>9, <2>10 DEF Step
<1> QED
  BY <1>1, <1>2, <1>3, <1>4, <1>5 DEF Next

LEMMA ScanInit == Init => ScanInv
BY IdleInv DEF Init, ScanInv

LEMMA InvReachable == Spec => [](TypeOK /\ ScanInv)
<1>1. Init => TypeOK /\ ScanInv
  BY TypeInit, ScanInit
<1>2. TypeOK /\ ScanInv /\ [Next]_vars => TypeOK' /\ ScanInv'
  BY TypeStep, ScanStep
<1> QED
  BY <1>1, <1>2, PTL DEF Spec

\* However renewals overlap, fail and crash, a row of EventScan covers only blocks whose
\* events are saved, unless the page reached past the head or a collapse bridged them.
THEOREM RowsCoverWhatIsScanned == Spec => []RowsAreScanned
<1>1. TypeOK /\ ScanInv => RowsAreScanned
  BY DEF TypeOK, ScanInv, RowInv, RowsAreScanned, Row
<1> QED
  BY <1>1, InvReachable, PTL

\* The loop of _renewContractEventsCache leaves no block of the query out, whatever rows
\* it found and whatever happened to them since.
THEOREM RenewalsAreComplete == Spec => []AnswersAreComplete
<1>1. TypeOK /\ ScanInv => AnswersAreComplete
  <2> SUFFICES ASSUME TypeOK, ScanInv, NEW p \in Tasks, task[p].pc = "fetch",
                      NEW b \in task[p].from..task[p].to
               PROVE  b \in Covered(task[p].contract)
    BY DEF AnswersAreComplete
  <2>1. task[p] \in Task /\ TaskInv(task[p])
    BY DEF TypeOK, ScanInv
  <2>2. b \in Nat /\ task[p].from <= b /\ b < task[p].cursor
    BY <2>1 DEF Task, TaskInv, Collapsing
  <2> QED
    BY <2>1, <2>2 DEF TaskInv, Collapsing
<1> QED
  BY <1>1, InvReachable, PTL
=============================================================================
