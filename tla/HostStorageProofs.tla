------------------------- MODULE HostStorageProofs --------------------------
(***************************************************************************)
(* Proofs about HostStorage for every set of hosts, keys, values and       *)
(* requests, any number of calls and any number of failures and restarts.  *)
(***************************************************************************)
EXTENDS HostStorage, TLAPS

-----------------------------------------------------------------------------
(* Lemmas about trees *)

\* Every tracker of the tree has been uploaded in its present state.
WholeTree(tree) == \A h \in DOMAIN tree : IsTracker(tree, h) => tree[h].encFile = tree[h].items

LEMMA PartialFunctionsDef ==
    ASSUME NEW D, NEW R, NEW f
    PROVE  f \in PartialFunctions(D, R)
             <=> f = [x \in DOMAIN f |-> f[x]] /\ DOMAIN f \subseteq D
                 /\ \A x \in DOMAIN f : f[x] \in R
  BY DEF PartialFunctions

LEMMA WithType ==
    ASSUME NEW D, NEW R, NEW f \in PartialFunctions(D, R), NEW k \in D, NEW v \in R
    PROVE  With(f, k, v) \in PartialFunctions(D, R)
  <1> DEFINE g == With(f, k, v)
  <1>1. DOMAIN f \subseteq D /\ \A x \in DOMAIN f : f[x] \in R
    BY PartialFunctionsDef
  <1>2. g \in [DOMAIN f \cup {k} -> R]
    BY <1>1 DEF With
  <1>3. DOMAIN f \cup {k} \in SUBSET D
    BY <1>1
  <1>4. QED
    BY <1>2, <1>3 DEF PartialFunctions

LEMMA NewRootType ==
    /\ NewRoot \in Trees
    /\ NewRoot \in Objects
    /\ WholeTree(NewRoot)
  <1>1. \A D, R : NewRoot \in PartialFunctions(D, R)
    BY DEF NewRoot, PartialFunctions
  <1>2. QED
    BY <1>1 DEF Trees, Objects, WholeTree, NewRoot

\* An item of a tree is a literal or a tracker.
LEMMA TreeItem ==
    ASSUME NEW tree \in Trees, NEW h \in DOMAIN tree
    PROVE  /\ h \in Hosts
           /\ tree[h].t = "literal" => tree[h] \in LeafItem
           /\ tree[h].t # "literal" => tree[h] \in Tracker
  BY PartialFunctionsDef DEF Trees, LeafItem, Tracker

LEMMA LoadedType ==
    ASSUME NEW root \in Roots
    PROVE  Loaded(root) \in Trees /\ WholeTree(Loaded(root))
  <1> DEFINE Stub == [t : {"object", "array"}, items : Objects]
  <1>1. /\ DOMAIN root \subseteq Hosts
        /\ \A h \in DOMAIN root : root[h] \in LeafItem \cup Stub
    BY PartialFunctionsDef DEF Roots
  <1>2. \A h \in DOMAIN root : /\ root[h].t = "literal" => root[h] \in LeafItem
                               /\ root[h].t # "literal" => root[h] \in Stub
    BY <1>1 DEF LeafItem
  <1>3. Loaded(root) \in [DOMAIN root -> LeafItem \cup Tracker]
    BY <1>2 DEF Loaded, Tracker
  <1>4. Loaded(root) \in Trees
    BY <1>1, <1>3 DEF Trees, PartialFunctions
  <1>5. WholeTree(Loaded(root))
    BY <1>2 DEF WholeTree, Loaded, IsTracker
  <1>6. QED
    BY <1>4, <1>5

LEMMA StoredType ==
    ASSUME NEW tree \in Trees
    PROVE  Stored(tree) \in Roots
  <1> DEFINE Stub == [t : {"object", "array"}, items : Objects]
  <1>1. DOMAIN tree \subseteq Hosts
    BY PartialFunctionsDef DEF Trees
  <1>2. Stored(tree) \in [DOMAIN tree -> LeafItem \cup Stub]
    BY TreeItem DEF Stored, Tracker
  <1>3. QED
    BY <1>1, <1>2 DEF Roots, PartialFunctions

LEMMA UploadedType ==
    ASSUME NEW t \in {"object", "array"}, NEW items \in Objects
    PROVE  /\ Uploaded(t, items) \in Tracker
           /\ Uploaded(t, items).encFile = Uploaded(t, items).items
  BY DEF Uploaded, Tracker

LEMMA LiteralType ==
    ASSUME NEW v \in Leaf
    PROVE  Literal(v) \in LeafItem /\ Literal(v).t = "literal"
  BY DEF Literal, LeafItem

\* A tree stays a tree, and whole, when one of its items is replaced by a literal or by a
\* tracker that was uploaded.
LEMMA WithItem ==
    ASSUME NEW tree \in Trees, WholeTree(tree), NEW h \in Hosts,
           NEW item \in LeafItem \cup Tracker,
           item.t = "literal" \/ item.encFile = item.items
    PROVE  With(tree, h, item) \in Trees /\ WholeTree(With(tree, h, item))
  <1>1. With(tree, h, item) \in Trees
    BY WithType DEF Trees
  <1>2. WholeTree(With(tree, h, item))
    BY DEF WholeTree, With, IsTracker
  <1>3. QED
    BY <1>1, <1>2

LEMMA SetBelowType ==
    ASSUME NEW tree \in Trees, WholeTree(tree), NEW h, IsTracker(tree, h),
           NEW k \in Keys, NEW v \in Leaf
    PROVE  SetBelow(tree, h, k, v) \in Trees /\ WholeTree(SetBelow(tree, h, k, v))
  <1>1. h \in Hosts /\ tree[h] \in Tracker
    BY TreeItem DEF IsTracker
  <1>2. tree[h].t \in {"object", "array"} /\ tree[h].items \in Objects
    BY <1>1 DEF Tracker
  <1>3. With(tree[h].items, k, v) \in Objects
    BY <1>2, WithType DEF Objects
  <1>4. QED
    BY <1>1, <1>2, <1>3, UploadedType, WithItem DEF SetBelow

\* The kinds of requests and their arguments.
LEMMA RequestKinds ==
    ASSUME NEW r \in Requests, Modifies(r)
    PROVE  /\ r.host \in Hosts
           /\ r.type \in {"set", "unset", "append", "removeAt", "insertAt", "replaceAt"}
           /\ r.type \in {"set", "unset"} => r.key \in Keys \cup {Whole}
           /\ r.type = "set" /\ r.key = Whole => r.value \in Leaf \cup Objects
           /\ r.type = "set" /\ r.key # Whole => r.value \in Leaf
           /\ r.type = "replaceAt" => r.index \in Keys /\ r.value \in Leaf
  BY HostStorageAssumption DEF Requests, Modifies, Leaf

\* What a method that returns leaves behind is a tree, and whole.
LEMMA AfterType ==
    ASSUME NEW r \in Requests, Modifies(r), NEW tree \in Trees, WholeTree(tree), Returns(r, tree)
    PROVE  After(r, tree) \in Trees /\ WholeTree(After(r, tree))
  <1> USE RequestKinds
  <1>1. CASE r.type = "set" /\ r.key # Whole
    <2>1. IsTracker(tree, r.host)
      BY <1>1 DEF Returns
    <2>2. After(r, tree) = SetBelow(tree, r.host, r.key, r.value)
      BY <1>1 DEF After
    <2>3. QED
      BY <1>1, <2>1, <2>2, SetBelowType
  <1>2. CASE r.type = "set" /\ r.key = Whole
    <2>1. After(r, tree) = With(tree, r.host,
             IF r.value \in Leaf THEN Literal(r.value) ELSE Uploaded("object", r.value))
      BY <1>2 DEF After
    <2>2. QED
      BY <1>2, <2>1, LiteralType, UploadedType, WithItem
  <1>3. CASE r.type = "unset" /\ r.key # Whole
    <2>1. IsTracker(tree, r.host)
      BY <1>3 DEF Returns
    <2>2. After(r, tree) = SetBelow(tree, r.host, r.key, Undefined)
      BY <1>3 DEF After
    <2>3. QED
      BY <1>3, <2>1, <2>2, SetBelowType DEF Leaf
  <1>4. CASE r.type = "unset" /\ r.key = Whole
    <2>1. After(r, tree) = With(tree, r.host, Literal(Undefined))
      BY <1>4 DEF After
    <2>2. QED
      BY <2>1, LiteralType, WithItem DEF Leaf
  <1>5. CASE r.type \in {"append", "removeAt", "insertAt"}
    <2> DEFINE list == With(NewRoot, Zero, tree[r.host].v)
    <2>1. r.host \in DOMAIN tree /\ tree[r.host].v \in Leaf
      <3>1. CASE r.type = "insertAt"
        BY <3>1 DEF Returns, Literal, Leaf
      <3>2. CASE r.type \in {"append", "removeAt"}
        BY <3>2 DEF Returns, IsList, Leaf
      <3>3. QED
        BY <1>5, <3>1, <3>2
    <2>2. list \in Objects
      BY <2>1, NewRootType, WithType, HostStorageAssumption DEF Objects
    <2>3. After(r, tree) = With(tree, r.host, Uploaded("array", list))
      BY <1>5 DEF After
    <2>4. QED
      BY <2>2, <2>3, UploadedType, WithItem
  <1>6. CASE r.type = "replaceAt"
    <2>1. IsTracker(tree, r.host)
      BY <1>6 DEF Returns
    <2>2. After(r, tree) = SetBelow(tree, r.host, r.index, r.value)
      BY <1>6 DEF After
    <2>3. QED
      BY <1>6, <2>1, <2>2, SetBelowType
  <1>7. QED
    BY <1>1, <1>2, <1>3, <1>4, <1>5, <1>6

-----------------------------------------------------------------------------
(* The inductive invariant *)

\* The queue holds each waiting call once, and only waiting calls; a call runs only while
\* sequentialInProgress is set, and no other runs then.
QueueInvOf(queue, cs, inProgress) ==
    /\ \A i \in 1..Len(queue) : cs[queue[i]].pc = "queued"
    /\ \A i, j \in 1..Len(queue) : queue[i] = queue[j] => i = j
    /\ \A c \in Ids : cs[c].pc \in Running => inProgress
    /\ \A c, d \in Ids : cs[c].pc \in Running /\ cs[d].pc \in Running => c = d

QueueInv == QueueInvOf(sequentialCallbacks, calls, sequentialInProgress)

\* A call that has not settled has a request; trees in memory are whole.
TreeInvOf(rec) ==
    /\ rec.pc \in {"queued"} \cup Running => rec.req \in Requests
    /\ WholeTree(rec.tree)
    /\ rec.pc = "write" => Modifies(rec.req)

TreeInv == \A c \in Ids : TreeInvOf(calls[c])

\* The tree a call has to work on.
CurrentTree ==
    LET current == IF localRoot # NoRoot THEN localRoot ELSE remoteRoot
    IN IF current = NoRoot THEN NewRoot ELSE Loaded(current)

\* A call works on the current root.
RootInvOf(rec) ==
    /\ rec.pc = "remote" => rec.id = localRoot
    /\ rec.pc = "load" => rec.id = RootId(localRoot, remoteRoot)
    /\ rec.pc = "apply" /\ ~rec.emptied => rec.tree = CurrentTree
    /\ rec.pc = "write" /\ ~rec.emptied => /\ Returns(rec.req, CurrentTree)
                                           /\ rec.tree = After(rec.req, CurrentTree)

\* The sync, which alone changes the registry, runs only when there is a root file, and then
\* the registry does not count.
RootInv ==
    /\ sync # Idle \/ timers > 0 => localRoot # NoRoot
    /\ \A c \in Ids : RootInvOf(calls[c])

-----------------------------------------------------------------------------
(* Type correctness *)

LEMMA CallType ==
    ASSUME NEW pc \in {"unused", "queued"} \cup Running \cup Settled,
           NEW req \in Requests \cup {NoRequest}, NEW id \in Roots \cup {NoRoot},
           NEW tree \in Trees, NEW emptied \in BOOLEAN
    PROVE  Call(pc, req, id, tree, emptied) \in CallRecord
  BY DEF Call, CallRecord

LEMMA NoCallType ==
    ASSUME NEW pc \in {"unused"} \cup Settled
    PROVE  NoCall(pc) \in CallRecord
  BY CallType, NewRootType DEF NoCall

\* The fields of a call.
LEMMA CallFields ==
    ASSUME TypeOK, NEW c \in Ids
    PROVE  /\ calls[c].pc \in {"unused", "queued"} \cup Running \cup Settled
           /\ calls[c].req \in Requests \cup {NoRequest}
           /\ calls[c].id \in Roots \cup {NoRoot}
           /\ calls[c].tree \in Trees
           /\ calls[c].emptied \in BOOLEAN
  BY DEF TypeOK, CallRecord

LEMMA TypeInit == Init => TypeOK
  <1> SUFFICES ASSUME Init PROVE TypeOK
    OBVIOUS
  <1>1. calls \in [Ids -> CallRecord]
    BY NoCallType DEF Init, Unused
  <1>2. sync \in SyncRecord
    BY DEF Init, Idle, SyncRecord
  <1>3. sequentialCallbacks \in Seq(Ids)
    BY DEF Init
  <1>4. QED
    BY <1>1, <1>2, <1>3, HostStorageAssumption DEF Init, TypeOK

\* What ProcessSequential does to the calls it is given: it may start the head of the queue.
LEMMA ProcessType ==
    ASSUME TypeOK, NEW queue \in Seq(Ids), NEW cs \in [Ids -> CallRecord],
           ProcessSequential(queue, cs)
    PROVE  /\ sequentialCallbacks' \in Seq(Ids)
           /\ sequentialInProgress' \in BOOLEAN
           /\ calls' \in [Ids -> CallRecord]
  <1>1. CASE sequentialInProgress \/ queue = <<>>
    BY <1>1 DEF ProcessSequential, TypeOK
  <1>2. CASE ~sequentialInProgress /\ queue # <<>>
    <2> DEFINE h == Head(queue)
               started == Call("remote", cs[h].req, localRoot, NewRoot, FALSE)
    <2>1. h \in Ids /\ Tail(queue) \in Seq(Ids)
      BY <1>2
    <2>2. cs[h].req \in Requests \cup {NoRequest}
      BY <2>1 DEF CallRecord
    <2>3. started \in CallRecord
      BY <2>2, CallType, NewRootType DEF TypeOK, Running
    <2> HIDE DEF started
    <2>4. /\ sequentialCallbacks' = Tail(queue)
          /\ sequentialInProgress' = TRUE
          /\ calls' = [cs EXCEPT ![h] = started]
      BY <1>2 DEF ProcessSequential, started
    <2>5. QED
      BY <2>1, <2>3, <2>4
  <1>3. QED
    BY <1>1, <1>2

LEMMA SettleType ==
    ASSUME TypeOK, NEW c \in Ids, NEW pc \in Settled, Settle(c, pc)
    PROVE  /\ sequentialCallbacks' \in Seq(Ids)
           /\ sequentialInProgress' \in BOOLEAN
           /\ immediates' \in Nat
           /\ calls' \in [Ids -> CallRecord]
  <1>1. NoCall(pc) \in CallRecord
    BY NoCallType
  <1>2. calls' \in [Ids -> CallRecord]
    BY <1>1 DEF Settle, TypeOK
  <1>3. immediates' \in Nat
    BY DEF Settle, TypeOK
  <1>4. QED
    BY <1>2, <1>3 DEF Settle, TypeOK

LEMMA DisturbType == ASSUME TypeOK, Disturb PROVE disturbances' \in Nat
  BY DEF TypeOK, Disturb

LEMMA SyncType ==
    ASSUME TypeOK, NEW fileId \in Roots \cup {NoRoot}, NEW t \in Nat, SyncHostStorage(fileId, t)
    PROVE  /\ sync' \in SyncRecord
           /\ syncAgain' \in BOOLEAN
           /\ recent' \in BOOLEAN
           /\ timers' \in Nat
  <1>1. [pc |-> "remote", id |-> fileId] \in SyncRecord
    BY DEF SyncRecord
  <1>2. timers' \in Nat
    BY DEF SyncHostStorage
  <1>3. QED
    BY <1>1, <1>2 DEF SyncHostStorage, TypeOK

LEMMA TypeStep == TypeOK /\ TreeInv /\ [Next]_vars => TypeOK'
  <1> SUFFICES ASSUME TypeOK, TreeInv, [Next]_vars PROVE TypeOK'
    OBVIOUS
  <1> USE HostStorageAssumption
  <1>1. ASSUME NEW c \in Ids, NEW r \in SomeRequests, Request(c, r) PROVE TypeOK'
    <2> DEFINE cs == [calls EXCEPT ![c] = Call("queued", r, NoRoot, NewRoot, FALSE)]
    <2>1. cs \in [Ids -> CallRecord]
      BY CallType, NewRootType DEF TypeOK
    <2>2. Append(sequentialCallbacks, c) \in Seq(Ids)
      BY DEF TypeOK
    <2>3. ProcessSequential(Append(sequentialCallbacks, c), cs)
      BY <1>1 DEF Request
    <2> HIDE DEF cs
    <2>4. QED
      BY <1>1, <2>1, <2>2, <2>3, ProcessType DEF Request, TypeOK, syncVars
  <1>2. CASE Immediate
    BY <1>2, ProcessType DEF Immediate, TypeOK, syncVars
  <1>3. ASSUME NEW c \in Ids, CallStep(c) PROVE TypeOK'
    <2>0. ASSUME NEW rec \in CallRecord, calls' = [calls EXCEPT ![c] = rec]
          PROVE  calls' \in [Ids -> CallRecord]
      BY <2>0 DEF TypeOK
    <2>1. CASE ReadRemote(c)
      <3>1. Call("load", calls[c].req, RootId(calls[c].id, remoteRoot), NewRoot, FALSE)
              \in CallRecord
        BY CallFields, CallType, NewRootType DEF RootId, TypeOK, Running
      <3>2. QED
        BY <2>0, <2>1, <3>1 DEF ReadRemote, TypeOK, queueVars, syncVars
    <2>2. CASE LoadRoot(c)
      <3> DEFINE tree == IF calls[c].id = NoRoot THEN NewRoot ELSE Loaded(calls[c].id)
      <3>1. tree \in Trees
        BY CallFields, NewRootType, LoadedType
      <3>2. Call("apply", calls[c].req, NoRoot, tree, FALSE) \in CallRecord
        BY <3>1, CallFields, CallType DEF Running
      <3>3. QED
        BY <2>0, <2>2, <3>2 DEF LoadRoot, TypeOK, queueVars, syncVars
    <2>3. CASE LoadEmptyRoot(c)
      <3>1. Call("apply", calls[c].req, NoRoot, NewRoot, TRUE) \in CallRecord
        BY CallFields, CallType, NewRootType DEF Running
      <3>2. QED
        BY <2>0, <2>3, <3>1, DisturbType DEF LoadEmptyRoot, TypeOK, queueVars, syncVars
    <2>4. CASE Apply(c)
      <3>1. CASE ~Modifies(calls[c].req)
        BY <2>4, <3>1, SettleType DEF Apply, Settled, TypeOK, syncVars
      <3>2. CASE Modifies(calls[c].req)
        <4>1. calls[c].tree \in Trees /\ calls[c].req \in Requests /\ WholeTree(calls[c].tree)
          BY <2>4, CallFields DEF Apply, At, TreeInv, TreeInvOf, Running
        <4>2. After(calls[c].req, calls[c].tree) \in Trees
          BY <2>4, <3>2, <4>1, AfterType DEF Apply
        <4>3. Call("write", calls[c].req, NoRoot, After(calls[c].req, calls[c].tree),
                   calls[c].emptied) \in CallRecord
          BY <4>2, CallFields, CallType DEF Running
        <4>4. QED
          BY <2>0, <2>4, <3>2, <4>3 DEF Apply, TypeOK, queueVars, syncVars
      <3>3. QED
        BY <3>1, <3>2
    <2>5. CASE Refuse(c)
      BY <2>5, SettleType DEF Refuse, Settled, TypeOK, syncVars
    <2>6. CASE CallFails(c)
      BY <2>6, SettleType DEF CallFails, Disturb, Settled, TypeOK, syncVars
    <2>7. CASE WriteRoot(c)
      <3>1. localRoot' \in Roots
        BY <2>7, StoredType, CallFields DEF WriteRoot
      <3>2. timers \in Nat /\ SyncHostStorage(localRoot', timers)
        BY <2>7 DEF WriteRoot, TypeOK
      <3>3. Settle(c, "done") /\ "done" \in Settled
        BY <2>7 DEF WriteRoot, Settled
      <3>4. QED
        BY <2>7, <3>1, <3>2, <3>3, SettleType, SyncType DEF WriteRoot, TypeOK
    <2>8. QED
      BY <1>3, <2>1, <2>2, <2>3, <2>4, <2>5, <2>6, <2>7 DEF CallStep
  <1>4. CASE Timer
    <2>1. timers - 1 \in Nat
      BY <1>4 DEF Timer, TypeOK
    <2>2. localRoot \in Roots \cup {NoRoot}
      BY DEF TypeOK
    <2>3. QED
      BY <1>4, <2>1, <2>2, SyncType DEF Timer, TypeOK, queueVars
  <1>5. CASE IntervalPasses
    BY <1>5 DEF IntervalPasses, TypeOK, queueVars
  <1>6. CASE SyncStep
    <2>1. sync.id \in Roots \cup {NoRoot}
      BY DEF TypeOK, SyncRecord
    <2>2. Idle \in SyncRecord
      BY DEF Idle, SyncRecord
    <2>3. CASE SyncReadRemote
      <3>1. [pc |-> "load", id |-> RootId(sync.id, remoteRoot)] \in SyncRecord
        BY <2>1 DEF SyncRecord, RootId, TypeOK
      <3>2. QED
        BY <2>3, <3>1 DEF SyncReadRemote, TypeOK, queueVars
    <2>4. CASE SyncLoadRoot
      <3>1. [sync EXCEPT !.pc = "put"] \in SyncRecord
        BY DEF SyncRecord, TypeOK
      <3>2. QED
        BY <2>4, <3>1 DEF SyncLoadRoot, TypeOK, queueVars
    <2>5. CASE SyncLoadEmptyRoot
      <3>1. [pc |-> "put", id |-> NoRoot] \in SyncRecord
        BY DEF SyncRecord
      <3>2. QED
        BY <2>5, <3>1 DEF SyncLoadEmptyRoot, Disturb, TypeOK, queueVars
    <2>6. CASE PutKeyValue
      BY <2>1, <2>2, <2>6 DEF PutKeyValue, TypeOK, queueVars
    <2>7. CASE SyncFails
      BY <2>1, <2>2, <2>7 DEF SyncFails, Disturb, TypeOK, queueVars
    <2>8. QED
      BY <1>6, <2>3, <2>4, <2>5, <2>6, <2>7 DEF SyncStep
  <1>7. CASE Crash
    <2>1. NoCall("lost") \in CallRecord
      BY NoCallType DEF Settled
    <2>2. Idle \in SyncRecord
      BY DEF Idle, SyncRecord
    <2>3. calls' \in [Ids -> CallRecord]
      BY <1>7, <2>1 DEF Crash, TypeOK
    <2>4. sequentialCallbacks' \in Seq(Ids)
      BY <1>7 DEF Crash
    <2>5. localRoot' \in Roots \cup {NoRoot}
      BY <1>7 DEF Crash, TypeOK
    <2>6. QED
      BY <1>7, <2>2, <2>3, <2>4, <2>5, DisturbType DEF Crash, TypeOK
  <1>8. CASE UNCHANGED vars
    BY <1>8 DEF vars, queueVars, syncVars, TypeOK
  <1>9. QED
    BY <1>1, <1>2, <1>3, <1>4, <1>5, <1>6, <1>7, <1>8 DEF Next

-----------------------------------------------------------------------------
(* The queue *)

LEMMA ProcessQueue ==
    ASSUME TypeOK, NEW queue \in Seq(Ids), NEW cs \in [Ids -> CallRecord],
           QueueInvOf(queue, cs, sequentialInProgress), ProcessSequential(queue, cs)
    PROVE  QueueInv'
  <1>1. CASE sequentialInProgress \/ queue = <<>>
    BY <1>1 DEF ProcessSequential, QueueInv, QueueInvOf
  <1>2. CASE ~sequentialInProgress /\ queue # <<>>
    <2> DEFINE h == Head(queue)
               q == Tail(queue)
    <2>1. h \in Ids /\ h = queue[1] /\ Len(q) = Len(queue) - 1 /\ Len(queue) \in Nat \ {0}
      BY <1>2
    <2>2. \A i \in 1..Len(q) : q[i] = queue[i + 1] /\ i + 1 \in 1..Len(queue) /\ q[i] \in Ids
      BY <1>2, <2>1
    <2>3. \A i \in 1..Len(q) : q[i] # h
      BY <2>1, <2>2 DEF QueueInvOf
    <2>4. \A i, j \in 1..Len(q) : q[i] = q[j] => i = j
      BY <2>1, <2>2 DEF QueueInvOf
    <2>5. /\ sequentialCallbacks' = q
          /\ sequentialInProgress' = TRUE
          /\ calls' = [cs EXCEPT ![h] = Call("remote", cs[h].req, localRoot, NewRoot, FALSE)]
      BY <1>2 DEF ProcessSequential
    <2> HIDE DEF q, h
    <2>6. calls'[h].pc = "remote" /\ \A c \in Ids \ {h} : calls'[c] = cs[c]
      BY <2>1, <2>5 DEF Call
    <2>7. \A i \in 1..Len(q) : calls'[q[i]].pc = "queued"
      BY <2>2, <2>3, <2>6 DEF QueueInvOf
    <2>8. \A c \in Ids : cs[c].pc \notin Running
      BY <1>2 DEF QueueInvOf
    <2>9. \A c \in Ids : calls'[c].pc \in Running => c = h
      BY <2>6, <2>8
    <2>10. QED
      BY <2>4, <2>5, <2>7, <2>9 DEF QueueInv, QueueInvOf
  <1>3. QED
    BY <1>1, <1>2

\* A running call that moves on or ends.
LEMMA MoveQueue ==
    ASSUME TypeOK, QueueInv, NEW c \in Ids, calls[c].pc \in Running,
           NEW rec \in CallRecord, rec.pc \in Running,
           calls' = [calls EXCEPT ![c] = rec],
           UNCHANGED <<sequentialCallbacks, sequentialInProgress>>
    PROVE  QueueInv'
  <1>1. \A d \in Ids : calls'[d] = IF d = c THEN rec ELSE calls[d]
    BY DEF TypeOK
  <1>2. \A i \in 1..Len(sequentialCallbacks) : sequentialCallbacks[i] \in Ids \ {c}
    BY DEF TypeOK, QueueInv, QueueInvOf, Running
  <1>3. QED
    BY <1>1, <1>2 DEF QueueInv, QueueInvOf

LEMMA SettleQueue ==
    ASSUME TypeOK, QueueInv, NEW c \in Ids, calls[c].pc \in Running,
           NEW pc \in Settled, Settle(c, pc)
    PROVE  QueueInv'
  <1>1. \A d \in Ids : calls'[d] = IF d = c THEN NoCall(pc) ELSE calls[d]
    BY DEF TypeOK, Settle
  <1>2. \A i \in 1..Len(sequentialCallbacks) : sequentialCallbacks[i] \in Ids \ {c}
    BY DEF TypeOK, QueueInv, QueueInvOf, Running
  <1>3. NoCall(pc).pc \notin Running
    BY DEF NoCall, Call, Settled, Running
  <1>4. \A d \in Ids : calls'[d].pc \notin Running
    BY <1>1, <1>3 DEF QueueInv, QueueInvOf
  <1>5. QED
    BY <1>1, <1>2, <1>4 DEF Settle, QueueInv, QueueInvOf

\* What a request puts in the queue keeps the invariant of the queue.
LEMMA RequestQueue ==
    ASSUME TypeOK, QueueInv, NEW c \in Ids, NEW r \in SomeRequests, Request(c, r),
           NEW q, q = Append(sequentialCallbacks, c),
           NEW cs, cs = [calls EXCEPT ![c] = Call("queued", r, NoRoot, NewRoot, FALSE)]
    PROVE  /\ q \in Seq(Ids)
           /\ cs \in [Ids -> CallRecord]
           /\ QueueInvOf(q, cs, sequentialInProgress)
           /\ ProcessSequential(q, cs)
  <1>1. cs \in [Ids -> CallRecord]
    BY CallType, NewRootType, HostStorageAssumption DEF TypeOK
  <1>2. q \in Seq(Ids) /\ Len(q) = Len(sequentialCallbacks) + 1
        /\ Len(sequentialCallbacks) \in Nat
    BY DEF TypeOK
  <1>3. \A i \in 1..Len(q) : q[i] = IF i = Len(q) THEN c ELSE sequentialCallbacks[i]
    BY <1>2 DEF TypeOK
  <1>4. calls[c].pc = "unused"
    BY DEF Request, Unused, NoCall, Call
  <1>5. \A i \in 1..Len(sequentialCallbacks) : sequentialCallbacks[i] \in Ids \ {c}
    BY <1>4 DEF TypeOK, QueueInv, QueueInvOf
  <1>6. cs[c].pc = "queued" /\ \A d \in Ids \ {c} : cs[d] = calls[d]
    BY DEF Call, TypeOK
  <1>7. ProcessSequential(q, cs)
    BY DEF Request
  <1>8. ASSUME NEW i \in 1..Len(q) PROVE cs[q[i]].pc = "queued"
    <2>1. CASE i = Len(q)
      BY <1>3, <1>6, <2>1
    <2>2. CASE i # Len(q)
      <3>1. i \in 1..Len(sequentialCallbacks) /\ q[i] = sequentialCallbacks[i]
        BY <1>2, <1>3, <2>2
      <3>2. cs[q[i]] = calls[sequentialCallbacks[i]]
        BY <1>5, <1>6, <3>1
      <3>3. QED
        BY <3>1, <3>2 DEF QueueInv, QueueInvOf
    <2>3. QED
      BY <2>1, <2>2
  <1>9. \A i, j \in 1..Len(q) : q[i] = q[j] => i = j
    BY <1>2, <1>3, <1>5 DEF QueueInv, QueueInvOf
  <1>10. \A d \in Ids : cs[d].pc \in Running => d # c /\ cs[d] = calls[d]
    BY <1>6 DEF Running
  <1>11. QueueInvOf(q, cs, sequentialInProgress)
    BY <1>8, <1>9, <1>10 DEF QueueInv, QueueInvOf
  <1>12. QED
    BY <1>1, <1>2, <1>7, <1>11

\* ProcessSequential starts a call that was queued, or none.
LEMMA ProcessStarts ==
    ASSUME NEW queue \in Seq(Ids), NEW cs \in [Ids -> CallRecord],
           QueueInvOf(queue, cs, sequentialInProgress), ProcessSequential(queue, cs),
           NEW d \in Ids
    PROVE  \/ calls'[d] = cs[d]
           \/ cs[d].pc = "queued" /\ calls'[d] = Call("remote", cs[d].req, localRoot, NewRoot, FALSE)
  <1>1. CASE queue # <<>> /\ d = Head(queue)
    <2>1. cs[d].pc = "queued"
      BY <1>1 DEF QueueInvOf
    <2>2. QED
      BY <1>1, <2>1 DEF ProcessSequential
  <1>2. CASE ~(queue # <<>> /\ d = Head(queue))
    BY <1>2 DEF ProcessSequential
  <1>3. QED
    BY <1>1, <1>2

\* So a request, or an immediate, leaves a call as it is, queues it or starts it.
LEMMA Poked ==
    ASSUME TypeOK, QueueInv, NEW d \in Ids,
           Immediate \/ \E c \in Ids, r \in SomeRequests : Request(c, r)
    PROVE  \/ calls'[d] = calls[d]
           \/ \E r \in SomeRequests : calls'[d] = Call("queued", r, NoRoot, NewRoot, FALSE)
           \/ \E r \in SomeRequests \cup {calls[d].req} :
                /\ r \in SomeRequests \/ calls[d].pc = "queued"
                /\ calls'[d] = Call("remote", r, localRoot, NewRoot, FALSE)
  <1>1. CASE Immediate
    BY <1>1, ProcessStarts DEF Immediate, TypeOK, QueueInv
  <1>2. ASSUME NEW c \in Ids, NEW r \in SomeRequests, Request(c, r)
        PROVE  \/ calls'[d] = calls[d]
               \/ calls'[d] = Call("queued", r, NoRoot, NewRoot, FALSE)
               \/ calls'[d] = Call("remote", r, localRoot, NewRoot, FALSE)
               \/ /\ calls[d].pc = "queued"
                  /\ calls'[d] = Call("remote", calls[d].req, localRoot, NewRoot, FALSE)
    <2> DEFINE q == Append(sequentialCallbacks, c)
               cs == [calls EXCEPT ![c] = Call("queued", r, NoRoot, NewRoot, FALSE)]
    <2>1. cs[d] = IF d = c THEN Call("queued", r, NoRoot, NewRoot, FALSE) ELSE calls[d]
      BY DEF TypeOK
    <2>2. \/ calls'[d] = cs[d]
          \/ cs[d].pc = "queued" /\ calls'[d] = Call("remote", cs[d].req, localRoot, NewRoot, FALSE)
      <3> HIDE DEF q, cs
      <3>1. /\ q \in Seq(Ids) /\ cs \in [Ids -> CallRecord]
            /\ QueueInvOf(q, cs, sequentialInProgress) /\ ProcessSequential(q, cs)
        BY <1>2, RequestQueue DEF q, cs
      <3>2. QED
        BY <3>1, ProcessStarts
    <2>3. Call("queued", r, NoRoot, NewRoot, FALSE).req = r
      BY DEF Call
    <2> HIDE DEF q, cs
    <2>4. QED
      BY <2>1, <2>2, <2>3
  <1>3. QED
    BY <1>1, <1>2

LEMMA QueueStep == TypeOK /\ TypeOK' /\ QueueInv /\ [Next]_vars => QueueInv'
  <1> SUFFICES ASSUME TypeOK, TypeOK', QueueInv, [Next]_vars PROVE QueueInv'
    OBVIOUS
  <1>1. ASSUME NEW c \in Ids, NEW r \in SomeRequests, Request(c, r) PROVE QueueInv'
    BY <1>1, RequestQueue, ProcessQueue
  <1>2. CASE Immediate
    BY <1>2, ProcessQueue DEF Immediate, TypeOK, QueueInv
  <1>3. ASSUME NEW c \in Ids, CallStep(c) PROVE QueueInv'
    <2>0. calls'[c] \in CallRecord
      BY DEF TypeOK
    <2>1. CASE ReadRemote(c) \/ LoadRoot(c) \/ LoadEmptyRoot(c)
                \/ (Apply(c) /\ Modifies(calls[c].req))
      <3>1. calls' = [calls EXCEPT ![c] = calls'[c]] /\ calls'[c].pc \in Running
        BY <2>1 DEF ReadRemote, LoadRoot, LoadEmptyRoot, Apply, Call, Running, TypeOK
      <3>2. calls[c].pc \in Running
        BY <2>1 DEF ReadRemote, LoadRoot, LoadEmptyRoot, Apply, At, Running
      <3>3. UNCHANGED <<sequentialCallbacks, sequentialInProgress>>
        BY <2>1 DEF ReadRemote, LoadRoot, LoadEmptyRoot, Apply, queueVars
      <3>4. QED
        BY <2>0, <3>1, <3>2, <3>3, MoveQueue
    <2>2. CASE Refuse(c) \/ CallFails(c) \/ WriteRoot(c) \/ (Apply(c) /\ ~Modifies(calls[c].req))
      <3>1. calls[c].pc \in Running
        BY <2>2 DEF Refuse, CallFails, WriteRoot, Apply, At, Running
      <3>2. \E pc \in Settled : Settle(c, pc)
        BY <2>2 DEF Refuse, CallFails, WriteRoot, Apply, Settled
      <3>3. QED
        BY <3>1, <3>2, SettleQueue
    <2>3. QED
      BY <1>3, <2>1, <2>2 DEF CallStep
  <1>4. CASE Timer \/ IntervalPasses \/ SyncStep \/ UNCHANGED vars
    BY <1>4 DEF Timer, IntervalPasses, SyncStep, SyncReadRemote, SyncLoadRoot, SyncLoadEmptyRoot,
                PutKeyValue, SyncFails, vars, queueVars, QueueInv, QueueInvOf
  <1>5. CASE Crash
    <2>1. \A c \in Ids : calls'[c].pc \notin Running
      BY <1>5 DEF Crash, NoCall, Call, Running
    <2>2. Len(sequentialCallbacks') = 0
      BY <1>5 DEF Crash
    <2>3. QED
      BY <2>1, <2>2 DEF QueueInv, QueueInvOf
  <1>6. QED
    BY <1>1, <1>2, <1>3, <1>4, <1>5 DEF Next

-----------------------------------------------------------------------------
(* Trees *)

LEMMA NoCallTree == ASSUME NEW pc \in {"unused"} \cup Settled PROVE TreeInvOf(NoCall(pc))
  BY NewRootType DEF NoCall, Call, TreeInvOf, Running, Settled

LEMMA TreeStep == TypeOK /\ QueueInv /\ TreeInv /\ [Next]_vars => TreeInv'
  <1> SUFFICES ASSUME TypeOK, QueueInv, TreeInv, [Next]_vars, NEW d \in Ids
               PROVE  TreeInvOf(calls'[d])
    BY DEF TreeInv, TreeInvOf, WholeTree, IsTracker
  <1>0. ASSUME calls'[d] = calls[d] PROVE TreeInvOf(calls'[d])
    BY <1>0 DEF TreeInv
  <1>1. CASE Immediate \/ \E c \in Ids, r \in SomeRequests : Request(c, r)
    <2>1. TreeInvOf(calls[d])
      BY DEF TreeInv
    <2>2. ASSUME NEW r \in Requests, NEW pc \in {"queued", "remote"}, NEW id
          PROVE  TreeInvOf(Call(pc, r, id, NewRoot, FALSE))
      BY NewRootType DEF TreeInvOf, Call
    <2>3. calls[d].pc = "queued" => calls[d].req \in Requests
      BY <2>1 DEF TreeInvOf
    <2>4. \/ calls'[d] = calls[d]
          \/ \E r \in SomeRequests : calls'[d] = Call("queued", r, NoRoot, NewRoot, FALSE)
          \/ \E r \in SomeRequests \cup {calls[d].req} :
               /\ r \in SomeRequests \/ calls[d].pc = "queued"
               /\ calls'[d] = Call("remote", r, localRoot, NewRoot, FALSE)
      BY <1>1, Poked
    <2>5. \A r \in SomeRequests : r \in Requests
      BY HostStorageAssumption
    <2>6. QED
      BY <1>0, <2>2, <2>3, <2>4, <2>5
  <1>2. ASSUME NEW c \in Ids, CallStep(c) PROVE TreeInvOf(calls'[d])
    <2>1. CASE d # c
      <3>1. calls'[d] = calls[d]
        BY <1>2, <2>1 DEF CallStep, ReadRemote, LoadRoot, LoadEmptyRoot, Apply, Refuse, CallFails,
                          WriteRoot, Settle, TypeOK
      <3>2. QED
        BY <1>0, <3>1
    <2>2. CASE d = c
      <3>1. TreeInvOf(calls[c])
        BY DEF TreeInv
      <3>2. CASE ReadRemote(c) \/ LoadEmptyRoot(c)
        <4>1. calls[c].req \in Requests
          BY <3>1, <3>2 DEF ReadRemote, LoadEmptyRoot, At, TreeInvOf, Running
        <4>2. calls'[c].req = calls[c].req /\ calls'[c].tree = NewRoot /\ calls'[c].pc # "write"
          BY <3>2 DEF ReadRemote, LoadEmptyRoot, Call, TypeOK
        <4>3. QED
          BY <2>2, <4>1, <4>2, NewRootType DEF TreeInvOf
      <3>3. CASE LoadRoot(c)
        <4>1. calls[c].req \in Requests
          BY <3>1, <3>3 DEF LoadRoot, At, TreeInvOf, Running
        <4>2. /\ calls'[c].req = calls[c].req
              /\ calls'[c].tree = (IF calls[c].id = NoRoot THEN NewRoot ELSE Loaded(calls[c].id))
              /\ calls'[c].pc # "write"
          BY <3>3 DEF LoadRoot, Call, TypeOK
        <4>3. WholeTree(calls'[c].tree)
          BY <4>2, CallFields, NewRootType, LoadedType
        <4>4. QED
          BY <2>2, <4>1, <4>2, <4>3 DEF TreeInvOf
      <3>4. CASE Apply(c) /\ Modifies(calls[c].req)
        <4>1. calls[c].req \in Requests /\ calls[c].tree \in Trees /\ WholeTree(calls[c].tree)
          BY <3>1, <3>4, CallFields DEF Apply, At, TreeInvOf, Running
        <4>2. calls'[c].req = calls[c].req
              /\ calls'[c].tree = After(calls[c].req, calls[c].tree)
          BY <3>4 DEF Apply, Call, TypeOK
        <4>3. WholeTree(calls'[c].tree)
          BY <3>4, <4>1, <4>2, AfterType DEF Apply
        <4>4. QED
          BY <2>2, <3>4, <4>1, <4>2, <4>3 DEF TreeInvOf
      <3>5. CASE Refuse(c) \/ CallFails(c) \/ WriteRoot(c) \/ (Apply(c) /\ ~Modifies(calls[c].req))
        <4>1. \E pc \in Settled : Settle(c, pc)
          BY <3>5 DEF Refuse, CallFails, WriteRoot, Apply, Settled
        <4>2. QED
          BY <2>2, <4>1, NoCallTree DEF Settle, TypeOK
      <3>6. QED
        BY <1>2, <3>2, <3>3, <3>4, <3>5 DEF CallStep
    <2>3. QED
      BY <2>1, <2>2
  <1>3. CASE Timer \/ IntervalPasses \/ SyncStep \/ UNCHANGED vars
    BY <1>0, <1>3 DEF Timer, IntervalPasses, SyncStep, SyncReadRemote, SyncLoadRoot,
                      SyncLoadEmptyRoot, PutKeyValue, SyncFails, vars
  <1>4. CASE Crash
    <2>1. calls'[d] = calls[d] \/ calls'[d] = NoCall("lost")
      BY <1>4 DEF Crash
    <2>2. QED
      BY <1>0, <2>1, NoCallTree DEF Settled
  <1>5. QED
    BY <1>1, <1>2, <1>3, <1>4 DEF Next

-----------------------------------------------------------------------------
(* The current root *)

\* The tree a call loads is that of the id RootId chooses.
LEMMA CurrentId ==
    CurrentTree = IF RootId(localRoot, remoteRoot) = NoRoot THEN NewRoot
                  ELSE Loaded(RootId(localRoot, remoteRoot))
  BY DEF CurrentTree, RootId

\* A call that stays as it is keeps its invariant while the current root stays.
LEMMA SameRoot ==
    ASSUME NEW rec, RootInvOf(rec), localRoot' = localRoot,
           remoteRoot' = remoteRoot \/ localRoot # NoRoot
    PROVE  RootInvOf(rec)'
  <1>1. CurrentTree' = CurrentTree /\ RootId(localRoot, remoteRoot)' = RootId(localRoot, remoteRoot)
    BY DEF CurrentTree, RootId
  <1>2. QED
    BY <1>1 DEF RootInvOf

LEMMA NoCallResting == ASSUME NEW pc \in Settled PROVE NoCall(pc).pc \notin Running
  BY DEF NoCall, Call, Settled, Running

LEMMA RootStep ==
    TypeOK /\ QueueInv /\ TreeInv /\ RootInv /\ [Next]_vars => RootInv'
  <1> SUFFICES ASSUME TypeOK, QueueInv, TreeInv, RootInv, [Next]_vars PROVE RootInv'
    OBVIOUS
  <1>0. \A d \in Ids : RootInvOf(calls[d])
    BY DEF RootInv
  <1>1. CASE Immediate \/ \E c \in Ids, r \in SomeRequests : Request(c, r)
    <2>1. UNCHANGED <<localRoot, remoteRoot, sync, timers>>
      BY <1>1 DEF Immediate, Request, syncVars
    <2>2. ASSUME NEW d \in Ids PROVE RootInvOf(calls[d])'
      <3>1. CASE calls'[d] = calls[d]
        BY <1>0, <2>1, <3>1, SameRoot
      <3>2. ASSUME NEW r, calls'[d] = Call("queued", r, NoRoot, NewRoot, FALSE)
            PROVE  RootInvOf(calls[d])'
        BY <3>2 DEF RootInvOf, Call
      <3>3. ASSUME NEW r, calls'[d] = Call("remote", r, localRoot, NewRoot, FALSE)
            PROVE  RootInvOf(calls[d])'
        BY <2>1, <3>3 DEF RootInvOf, Call
      <3>4. QED
        BY <1>1, <3>1, <3>2, <3>3, Poked
    <2>3. QED
      BY <2>1, <2>2 DEF RootInv
  <1>2. ASSUME NEW c \in Ids,
               ReadRemote(c) \/ LoadRoot(c) \/ LoadEmptyRoot(c)
                 \/ (Apply(c) /\ Modifies(calls[c].req))
        PROVE  RootInv'
    <2>1. UNCHANGED <<localRoot, remoteRoot, sync, timers>>
      BY <1>2 DEF ReadRemote, LoadRoot, LoadEmptyRoot, Apply, syncVars
    <2>2. ASSUME NEW d \in Ids \ {c} PROVE RootInvOf(calls[d])'
      <3>1. calls'[d] = calls[d]
        BY <1>2 DEF ReadRemote, LoadRoot, LoadEmptyRoot, Apply, TypeOK
      <3>2. QED
        BY <1>0, <2>1, <3>1, SameRoot
    <2>3. RootInvOf(calls[c])'
      <3>0. CurrentTree' = CurrentTree
            /\ RootId(localRoot, remoteRoot)' = RootId(localRoot, remoteRoot)
        BY <2>1 DEF CurrentTree, RootId
      <3>1. RootInvOf(calls[c])
        BY <1>0
      <3>2. CASE ReadRemote(c)
        <4>1. calls'[c].pc = "load" /\ calls'[c].id = RootId(calls[c].id, remoteRoot)
          BY <3>2 DEF ReadRemote, Call, TypeOK
        <4>2. calls[c].id = localRoot
          BY <3>1, <3>2 DEF ReadRemote, At, RootInvOf
        <4>3. QED
          BY <3>0, <4>1, <4>2 DEF RootInvOf
      <3>3. CASE LoadRoot(c)
        <4>1. calls'[c].pc = "apply"
              /\ calls'[c].tree = IF calls[c].id = NoRoot THEN NewRoot ELSE Loaded(calls[c].id)
          BY <3>3 DEF LoadRoot, Call, TypeOK
        <4>2. calls[c].id = RootId(localRoot, remoteRoot)
          BY <3>1, <3>3 DEF LoadRoot, At, RootInvOf
        <4>3. calls'[c].tree = CurrentTree
          BY <4>1, <4>2, CurrentId
        <4>4. QED
          BY <3>0, <4>1, <4>3 DEF RootInvOf
      <3>4. CASE LoadEmptyRoot(c)
        <4>1. calls'[c].pc = "apply" /\ calls'[c].emptied = TRUE
          BY <3>4 DEF LoadEmptyRoot, Call, TypeOK
        <4>2. QED
          BY <4>1 DEF RootInvOf
      <3>5. CASE Apply(c) /\ Modifies(calls[c].req)
        <4>1. /\ calls'[c].pc = "write"
              /\ calls'[c].req = calls[c].req
              /\ calls'[c].tree = After(calls[c].req, calls[c].tree)
              /\ calls'[c].emptied = calls[c].emptied
          BY <3>5 DEF Apply, Call, TypeOK
        <4>2. /\ ~calls[c].emptied => calls[c].tree = CurrentTree
              /\ Returns(calls[c].req, calls[c].tree)
          BY <3>1, <3>5 DEF Apply, At, RootInvOf
        <4>3. QED
          BY <3>0, <4>1, <4>2 DEF RootInvOf
      <3>6. QED
        BY <1>2, <3>2, <3>3, <3>4, <3>5
    <2>4. QED
      BY <2>1, <2>2, <2>3 DEF RootInv
  <1>3. ASSUME NEW c \in Ids,
               Refuse(c) \/ CallFails(c) \/ WriteRoot(c) \/ (Apply(c) /\ ~Modifies(calls[c].req))
        PROVE  RootInv'
    <2>1. calls[c].pc \in Running
      BY <1>3 DEF Refuse, CallFails, WriteRoot, Apply, At, Running
    <2>2. \E pc \in Settled : Settle(c, pc)
      BY <1>3 DEF Refuse, CallFails, WriteRoot, Apply, Settled
    <2>3. ASSUME NEW d \in Ids PROVE calls'[d].pc \notin Running
      <3>1. CASE d = c
        BY <2>2, <3>1, NoCallResting DEF Settle, TypeOK
      <3>2. CASE d # c
        BY <2>1, <2>2, <3>2 DEF Settle, TypeOK, QueueInv, QueueInvOf
      <3>3. QED
        BY <3>1, <3>2
    <2>4. \A d \in Ids : RootInvOf(calls[d])'
      BY <2>3 DEF RootInvOf, Running
    <2>5. sync' # Idle \/ timers' > 0 => localRoot' # NoRoot
      <3>1. CASE WriteRoot(c)
        <4>1. localRoot' \in Roots
          BY <3>1, StoredType, CallFields DEF WriteRoot
        <4>2. QED
          BY <4>1, HostStorageAssumption
      <3>2. CASE ~WriteRoot(c)
        BY <1>3, <3>2 DEF Refuse, CallFails, Apply, syncVars, RootInv
      <3>3. QED
        BY <3>1, <3>2
    <2>6. QED
      BY <2>4, <2>5 DEF RootInv
  <1>4. CASE Timer \/ IntervalPasses \/ SyncStep \/ UNCHANGED vars
    <2>1. UNCHANGED <<localRoot, calls>> /\ (remoteRoot' = remoteRoot \/ localRoot # NoRoot)
      <3>1. CASE SyncStep
        <4>1. sync # Idle
          BY <3>1 DEF SyncStep, SyncReadRemote, SyncLoadRoot, SyncLoadEmptyRoot, PutKeyValue,
                      SyncFails, Idle
        <4>2. QED
          BY <3>1, <4>1 DEF RootInv, SyncStep, SyncReadRemote, SyncLoadRoot, SyncLoadEmptyRoot,
                            PutKeyValue, SyncFails
      <3>2. CASE Timer \/ IntervalPasses \/ UNCHANGED vars
        BY <3>2 DEF Timer, IntervalPasses, vars
      <3>3. QED
        BY <1>4, <3>1, <3>2
    <2>2. \A d \in Ids : RootInvOf(calls[d])'
      BY <1>0, <2>1, SameRoot
    <2>3. sync' # Idle \/ timers' > 0 => sync # Idle \/ timers > 0
      <3>1. CASE Timer
        BY <3>1 DEF Timer
      <3>2. CASE SyncStep
        BY <3>2 DEF SyncStep, SyncReadRemote, SyncLoadRoot, SyncLoadEmptyRoot, PutKeyValue,
                    SyncFails, Idle
      <3>3. CASE IntervalPasses \/ UNCHANGED vars
        BY <3>3 DEF IntervalPasses, vars, syncVars
      <3>4. QED
        BY <1>4, <3>1, <3>2, <3>3
    <2>4. QED
      BY <2>1, <2>2, <2>3 DEF RootInv
  <1>5. CASE Crash
    <2>1. \A d \in Ids : calls'[d].pc \notin Running
      BY <1>5 DEF Crash, NoCall, Call, Running
    <2>2. sync' = Idle /\ timers' = 0
      BY <1>5 DEF Crash
    <2>3. \A d \in Ids : RootInvOf(calls[d])'
      BY <2>1 DEF RootInvOf, Running
    <2>4. QED
      BY <2>2, <2>3 DEF RootInv
  <1>6. QED
    BY <1>1, <1>2, <1>3, <1>4, <1>5 DEF Next, CallStep

-----------------------------------------------------------------------------
(* Theorems *)

IInv == TypeOK /\ QueueInv /\ TreeInv /\ RootInv

LEMMA InvInit == Init => IInv
  <1> SUFFICES ASSUME Init PROVE IInv
    OBVIOUS
  <1>1. \A c \in Ids : calls[c] = Unused
    BY DEF Init
  <1>2. Unused.pc = "unused" /\ TreeInvOf(Unused)
    BY NoCallTree DEF Unused, NoCall, Call
  <1>3. QueueInv
    BY <1>1, <1>2 DEF Init, QueueInv, QueueInvOf, Running
  <1>4. RootInv
    BY <1>1, <1>2 DEF Init, RootInv, RootInvOf
  <1>5. QED
    BY <1>1, <1>2, <1>3, <1>4, TypeInit DEF IInv, TreeInv

LEMMA InvStep == IInv /\ [Next]_vars => IInv'
  BY TypeStep, QueueStep, TreeStep, RootStep DEF IInv

LEMMA InvAlways == Spec => []IInv
  BY InvInit, InvStep, PTL DEF Spec

\* Files, the registry, the queue and the calls keep their types: a tree that is written is
\* a tree of file ids and literals.
THEOREM TypeCorrect == Spec => []TypeOK
  <1>1. IInv => TypeOK
    BY DEF IInv
  <1>2. QED
    BY <1>1, InvAlways, PTL

\* ensureSequential runs one call at a time, however requests, ends of calls, immediates and
\* restarts interleave.
THEOREM CallsRunOneAtATime == Spec => []OneCallAtATime
  <1>1. IInv => OneCallAtATime
    BY DEF IInv, QueueInv, QueueInvOf, OneCallAtATime
  <1>2. QED
    BY <1>1, InvAlways, PTL

\* The methods of the tracker leave no tracker behind whose file is out of date.
THEOREM WrittenTreesAreWhole == Spec => []WrittenTreeIsWhole
  <1>1. IInv => WrittenTreeIsWhole
    BY DEF IInv, TreeInv, TreeInvOf, WholeTree, WrittenTreeIsWhole
  <1>2. QED
    BY <1>1, InvAlways, PTL

\* A call that was about to write the root and has returned has written it.
LEMMA DoneIsWritten ==
    ASSUME TypeOK, QueueInv, [Next]_vars, NEW c \in Ids, At(c, "write"), calls'[c].pc = "done"
    PROVE  WriteRoot(c)
  <1>0. calls[c].pc = "write" /\ calls' # calls
    BY DEF At
  <1>1. CASE Immediate \/ \E d \in Ids, r \in SomeRequests : Request(d, r)
    <2>1. \A r, id : Call("queued", r, id, NewRoot, FALSE).pc = "queued"
                     /\ Call("remote", r, id, NewRoot, FALSE).pc = "remote"
      BY DEF Call
    <2>2. QED
      BY <1>0, <1>1, <2>1, Poked
  <1>2. ASSUME NEW d \in Ids, CallStep(d), d # c PROVE FALSE
    BY <1>0, <1>2 DEF CallStep, ReadRemote, LoadRoot, LoadEmptyRoot, Apply, Refuse, CallFails,
                      WriteRoot, Settle, TypeOK
  <1>3. CASE CallStep(c)
    <2>1. ~CallFails(c)
      <3>1. NoCall("threw").pc = "threw"
        BY DEF NoCall, Call
      <3>2. QED
        BY <3>1 DEF CallFails, Settle, TypeOK
    <2>2. QED
      BY <1>0, <1>3, <2>1 DEF CallStep, ReadRemote, LoadRoot, LoadEmptyRoot, Apply, Refuse, At
  <1>4. CASE Timer \/ IntervalPasses \/ SyncStep \/ UNCHANGED vars
    BY <1>0, <1>4 DEF Timer, IntervalPasses, SyncStep, SyncReadRemote, SyncLoadRoot,
                      SyncLoadEmptyRoot, PutKeyValue, SyncFails, vars
  <1>5. CASE Crash
    <2>1. calls'[c] = NoCall("lost")
      BY <1>0, <1>5 DEF Crash, Running
    <2>2. QED
      BY <2>1 DEF NoCall, Call
  <1>6. QED
    BY <1>1, <1>2, <1>3, <1>4, <1>5 DEF Next

\* hostStorageModify changes the root that is in the file when it writes it, although it
\* read the file many awaits earlier and a sync may run beside it.
THEOREM NoUpdateIsLost == Spec => NoLostUpdate
  <1> DEFINE Kept == \A c \in Ids :
                       At(c, "write") /\ calls'[c].pc = "done" /\ ~calls[c].emptied =>
                         LET current == IF localRoot # NoRoot THEN localRoot ELSE remoteRoot
                             tree == IF current = NoRoot THEN NewRoot ELSE Loaded(current)
                         IN /\ Returns(calls[c].req, tree)
                            /\ localRoot' = Stored(After(calls[c].req, tree))
  <1>1. ASSUME IInv, [Next]_vars PROVE [Kept]_vars
    <2> SUFFICES ASSUME NEW c \in Ids, At(c, "write"), calls'[c].pc = "done", ~calls[c].emptied
                 PROVE  /\ Returns(calls[c].req, CurrentTree)
                        /\ localRoot' = Stored(After(calls[c].req, CurrentTree))
      BY DEF CurrentTree
    <2>1. WriteRoot(c)
      BY <1>1, DoneIsWritten DEF IInv
    <2>2. QED
      BY <1>1, <2>1 DEF IInv, RootInv, RootInvOf, At, WriteRoot
  <1>2. QED
    BY <1>1, InvAlways, PTL DEF Spec, NoLostUpdate
=============================================================================
