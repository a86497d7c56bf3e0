---------------------------- MODULE HostStorage -----------------------------
(***************************************************************************)
(* The private storage a page keeps per host (client/hostStorage.ts).  Its *)
(* data is a tree of encrypted files below one root; the id of the root is *)
(* kept in a local file and, by a background sync, in the key-value        *)
(* registry of the chain.  Calls are queued and run one at a time; the     *)
(* sync runs beside them.                                                  *)
(*                                                                         *)
(* A file id stands for the content of its file: files never change and    *)
(* are looked up by their id.  The tree has two levels below the root, a   *)
(* host and a key of the object or array stored for it; the methods are    *)
(* recursive in the path and do the same on every level.                   *)
(***************************************************************************)
EXTENDS Naturals, Sequences, FiniteSets

CONSTANTS
    MaxCalls,         \* bound: calls of hostStorageGet, Dir, Len and Modify
    Hosts,
    Keys,             \* keys of objects and indices of arrays
    Zero,             \* the first index
    Whole,            \* in place of a key: the path ends at the host
    Values,           \* strings, buffers, numbers and booleans
    Undefined,
    EmptyList,
    NoRoot,           \* no file id: the file is missing or empty, the registry has no value
    SomeRequests,     \* bound: the calls pages make
    SomeRoots,        \* bound: what the registry may hold at first
    MaxDisturbances   \* bound: failed calls and crashes

-----------------------------------------------------------------------------
(* The tree in files (Roots) and in memory (Trees). *)

PartialFunctions(D, R) == UNION {[S -> R] : S \in SUBSET D}

Leaf == Values \cup {Undefined, EmptyList}
LeafItem == [t : {"literal"}, v : Leaf]
Objects == PartialFunctions(Keys, Leaf)
Roots == PartialFunctions(Hosts, LeafItem \cup [t : {"object", "array"}, items : Objects])

\* A HostStorageTracker: its items, and the items of its encFile.
Tracker == [t : {"object", "array"}, items : Objects, encFile : Objects]
Trees == PartialFunctions(Hosts, LeafItem \cup Tracker)

NewRoot == [h \in {} |-> Undefined]

Requests ==
    [type : {"get", "dir", "len", "unset"}, host : Hosts, key : Keys \cup {Whole}]
    \cup [type : {"append", "removeAt"}, host : Hosts]
    \cup [type : {"insertAt"}, host : Hosts, value : Leaf]
    \cup [type : {"set"}, host : Hosts, key : {Whole}, value : Leaf \cup (Objects \ {NewRoot})]
    \cup [type : {"set"}, host : Hosts, key : Keys, value : Values \cup {Undefined}]
    \cup [type : {"replaceAt"}, host : Hosts, index : Keys, value : Values \cup {Undefined}]

ASSUME HostStorageAssumption ==
    /\ MaxCalls \in Nat
    /\ Zero \in Keys
    /\ Whole \notin Keys
    /\ NoRoot \notin Roots
    /\ SomeRequests \subseteq Requests
    /\ SomeRoots \subseteq Roots \cup {NoRoot}

VARIABLES
    localRoot,    \* the file hostStorageRoot: the id of the root, survives a restart
    remoteRoot,   \* the value of the key in the registry of the chain
    sequentialCallbacks,
    sequentialInProgress,
    immediates,   \* calls of _processSequential given to setImmediate
    calls,        \* what each call was asked and where it stands
    sync,         \* the locals of syncHostStorage; syncing iff not at "idle"
    syncAgain,
    recent,       \* the last sync began less than SYNC_INTERVAL ago
    timers,       \* calls of syncHostStorage given to setTimeout
    disturbances, \* how much of the bound is used up
    dropped       \* history: no sync is to come for the last change

queueVars == <<sequentialCallbacks, sequentialInProgress, immediates>>
syncVars == <<sync, syncAgain, recent, timers>>
vars == <<localRoot, remoteRoot, queueVars, calls, syncVars, disturbances, dropped>>

Ids == 1..MaxCalls
Running == {"remote", "load", "apply", "write"}
Settled == {"done", "threw", "lost"}
NoRequest == [type |-> "none"]
CallRecord == [pc : {"unused", "queued"} \cup Running \cup Settled,
               req : Requests \cup {NoRequest},
               id : Roots \cup {NoRoot},
               tree : Trees,
               emptied : BOOLEAN]
Call(pc, req, id, tree, emptied) ==
    [pc |-> pc, req |-> req, id |-> id, tree |-> tree, emptied |-> emptied]
NoCall(pc) == Call(pc, NoRequest, NoRoot, NewRoot, FALSE)
Unused == NoCall("unused")
SyncRecord == [pc : {"idle", "remote", "load", "put"}, id : Roots \cup {NoRoot}]
Idle == [pc |-> "idle", id |-> NoRoot]

Init ==
    /\ localRoot = NoRoot
    /\ remoteRoot \in SomeRoots
    /\ sequentialCallbacks = <<>>
    /\ sequentialInProgress = FALSE
    /\ immediates = 0
    /\ calls = [c \in Ids |-> Unused]
    /\ sync = Idle
    /\ syncAgain = FALSE
    /\ recent = FALSE
    /\ timers = 0
    /\ disturbances = 0
    /\ dropped = TRUE

Disturb == /\ disturbances < MaxDisturbances
           /\ disturbances' = disturbances + 1

-----------------------------------------------------------------------------
(* Files and trackers. *)

\* fromDownload: a tracker's encFile is the file it was read from.
Loaded(root) ==
    [h \in DOMAIN root |->
        IF root[h].t = "literal"
        THEN root[h]
        ELSE [t |-> root[h].t, items |-> root[h].items, encFile |-> root[h].items]]

\* serialize and upload: a tracker is written as the id of its encFile.
Stored(tree) ==
    [h \in DOMAIN tree |->
        IF tree[h].t = "literal"
        THEN tree[h]
        ELSE [t |-> tree[h].t, items |-> tree[h].encFile]]

With(f, k, v) == [x \in DOMAIN f \cup {k} |-> IF x = k THEN v ELSE f[x]]

IsTracker(tree, h) == h \in DOMAIN tree /\ tree[h].t # "literal"
IsList(tree, h) == h \in DOMAIN tree /\ tree[h].t = "literal" /\ tree[h].v = EmptyList

\* new HostStorageTracker filled by set and uploaded.
Uploaded(t, items) == [t |-> t, items |-> items, encFile |-> items]

\* Mutant: The tracker is changed and not uploaded.
SetInMemory(tree, h, k, v) ==
    With(tree, h, [tree[h] EXCEPT !.items = With(@, k, v)])

\* set([k], v) of a tracker below the root, which uploads it.
SetBelow(tree, h, k, v) ==
    With(tree, h, Uploaded(tree[h].t, With(tree[h].items, k, v)))

Literal(v) == [t |-> "literal", v |-> v]

\* When a method returns; otherwise it throws and changes nothing that is kept.
Returns(r, tree) ==
    CASE r.type = "get" -> r.key = Whole \/ r.host \notin DOMAIN tree \/ IsTracker(tree, r.host)
      [] r.type = "dir" -> \/ r.host \notin DOMAIN tree
                           \/ /\ IsTracker(tree, r.host)
                              /\ r.key = Whole \/ r.key \notin DOMAIN tree[r.host].items
      [] r.type = "len" -> \/ r.host \notin DOMAIN tree
                           \/ r.key = Whole /\ IsList(tree, r.host)
                           \/ /\ IsTracker(tree, r.host)
                              /\ \/ r.key = Whole
                                 \/ r.key \notin DOMAIN tree[r.host].items
                                 \/ tree[r.host].items[r.key] = EmptyList
      [] r.type = "set" -> /\ r.value # Undefined
                           /\ r.key = Whole \/ IsTracker(tree, r.host)
      [] r.type = "unset" -> /\ r.host \in DOMAIN tree
                             /\ \/ r.key = Whole
                                \/ /\ IsTracker(tree, r.host)
                                   /\ r.key \in DOMAIN tree[r.host].items
      [] r.type \in {"append", "removeAt"} -> IsList(tree, r.host)
      [] r.type = "insertAt" -> /\ r.value # Undefined
                                /\ r.host \in DOMAIN tree
                                /\ tree[r.host] \in {Literal(EmptyList), Literal(Undefined)}
      [] r.type = "replaceAt" -> r.value # Undefined /\ IsTracker(tree, r.host)

Modifies(r) == r.type \notin {"get", "dir", "len"}

\* The tree after a method that changes it has returned.  _newEncArray makes an array whose
\* only item is the value that was there, whatever it was asked to append or to remove.
After(r, tree) ==
    CASE r.type = "set" /\ r.key # Whole -> SetBelow(tree, r.host, r.key, r.value)
      [] r.type = "set" /\ r.key = Whole ->
            With(tree, r.host,
                 IF r.value \in Leaf THEN Literal(r.value) ELSE Uploaded("object", r.value))
      [] r.type = "unset" /\ r.key # Whole -> SetBelow(tree, r.host, r.key, Undefined)
      [] r.type = "unset" /\ r.key = Whole -> With(tree, r.host, Literal(Undefined))
      [] r.type \in {"append", "removeAt", "insertAt"} ->
            With(tree, r.host, Uploaded("array", With(NewRoot, Zero, tree[r.host].v)))
      [] r.type = "replaceAt" -> SetBelow(tree, r.host, r.index, r.value)

-----------------------------------------------------------------------------
(* The queue. *)

\* Mutant: Whoever pokes the queue runs its head.
ProcessAtOnce(queue, cs) ==
    /\ queue # <<>>
    /\ sequentialCallbacks' = Tail(queue)
    /\ calls' = [cs EXCEPT ![Head(queue)] = Call("remote", @.req, localRoot, NewRoot, FALSE)]
    /\ sequentialInProgress' = TRUE

\* _processSequential with the given queue and calls: the next call runs up to its first
\* await, when it has read the root file (or found none).
ProcessSequential(queue, cs) ==
    IF sequentialInProgress \/ queue = <<>>
    THEN /\ sequentialCallbacks' = queue
         /\ calls' = cs
         /\ UNCHANGED sequentialInProgress
    ELSE /\ sequentialCallbacks' = Tail(queue)
         /\ calls' = [cs EXCEPT ![Head(queue)] = Call("remote", @.req, localRoot, NewRoot, FALSE)]
         /\ sequentialInProgress' = TRUE

\* A page calls hostStorageGet, hostStorageDir, hostStorageLen or hostStorageModify.
Request(c, r) ==
    /\ calls[c] = Unused
    /\ \A d \in Ids : d < c => calls[d] # Unused
    /\ ProcessSequential(Append(sequentialCallbacks, c),
                         [calls EXCEPT ![c] = Call("queued", r, NoRoot, NewRoot, FALSE)])
    /\ UNCHANGED <<localRoot, remoteRoot, immediates, syncVars, disturbances, dropped>>

Immediate ==
    /\ immediates > 0
    /\ immediates' = immediates - 1
    /\ ProcessSequential(sequentialCallbacks, calls)
    /\ UNCHANGED <<localRoot, remoteRoot, syncVars, disturbances, dropped>>

\* Mutant: Nobody is left to run the next call.
SettleLast(c, pc) ==
    /\ calls' = [calls EXCEPT ![c] = NoCall(pc)]
    /\ sequentialInProgress' = FALSE
    /\ UNCHANGED <<immediates, sequentialCallbacks>>

\* The call at the head settles its promise; the next one is left to setImmediate.
Settle(c, pc) ==
    /\ calls' = [calls EXCEPT ![c] = NoCall(pc)]
    /\ sequentialInProgress' = FALSE
    /\ immediates' = immediates + 1
    /\ UNCHANGED sequentialCallbacks

-----------------------------------------------------------------------------
(* One call: _getRoot, the method of the tracker, and the new root. *)

\* Mutant: The registry is preferred to the file.
RemoteFirst(localId, remoteId) == IF remoteId # NoRoot THEN remoteId ELSE localId

\* Which of the two ids _getRoot loads.
RootId(localId, remoteId) == IF localId # NoRoot THEN localId ELSE remoteId

At(c, pc) == c \in Ids /\ calls[c].pc = pc

\* The chain, or the cache of its values, answers getKeyValue.  The cache is emptied by
\* putKeyValue and by a restart; it can only be behind while there is a root file.
ReadRemote(c) ==
    /\ At(c, "remote")
    /\ calls' = [calls EXCEPT ![c] = Call("load", @.req, RootId(@.id, remoteRoot), NewRoot, FALSE)]
    /\ UNCHANGED <<localRoot, remoteRoot, queueVars, syncVars, disturbances, dropped>>

\* The root is downloaded; without an id a new one is made.
LoadRoot(c) ==
    /\ At(c, "load")
    /\ calls' = [calls EXCEPT ![c] =
                    Call("apply", @.req, NoRoot,
                         IF @.id = NoRoot THEN NewRoot ELSE Loaded(@.id), FALSE)]
    /\ UNCHANGED <<localRoot, remoteRoot, queueVars, syncVars, disturbances, dropped>>

\* The download fails, and the call goes on with a new root.
LoadEmptyRoot(c) ==
    /\ At(c, "load")
    /\ calls[c].id # NoRoot
    /\ Disturb
    /\ calls' = [calls EXCEPT ![c] = Call("apply", @.req, NoRoot, NewRoot, TRUE)]
    /\ UNCHANGED <<localRoot, remoteRoot, queueVars, syncVars, dropped>>

\* A method that reads answers; one that changes the tree is followed by the upload of the
\* root.
Apply(c) ==
    /\ At(c, "apply")
    /\ Returns(calls[c].req, calls[c].tree)
    /\ \/ /\ ~Modifies(calls[c].req)
          /\ Settle(c, "done")
       \/ /\ Modifies(calls[c].req)
          /\ calls' = [calls EXCEPT ![c] =
                          Call("write", @.req, NoRoot, After(@.req, @.tree), @.emptied)]
          /\ UNCHANGED queueVars
    /\ UNCHANGED <<localRoot, remoteRoot, syncVars, disturbances, dropped>>

Refuse(c) ==
    /\ At(c, "apply")
    /\ ~Returns(calls[c].req, calls[c].tree)
    /\ Settle(c, "threw")
    /\ UNCHANGED <<localRoot, remoteRoot, syncVars, disturbances, dropped>>

\* The chain, a download or an upload fails below a call.
CallFails(c) ==
    /\ c \in Ids
    /\ calls[c].pc \in {"remote", "apply", "write"}
    /\ Disturb
    /\ Settle(c, "threw")
    /\ UNCHANGED <<localRoot, remoteRoot, syncVars, dropped>>

-----------------------------------------------------------------------------
(* syncHostStorage. *)

\* syncHostStorage up to its first await, when it has read the root file; t timers remain.
SyncHostStorage(fileId, t) ==
    \/ /\ sync # Idle
       /\ syncAgain' = TRUE
       /\ timers' = t
       /\ UNCHANGED <<sync, recent>>
    \/ /\ sync = Idle /\ recent
       /\ timers' = t + 1
       /\ UNCHANGED <<sync, syncAgain, recent>>
    \/ /\ sync = Idle /\ ~recent
       /\ sync' = [pc |-> "remote", id |-> fileId]
       /\ syncAgain' = FALSE
       /\ recent' = TRUE
       /\ timers' = t

\* The root is uploaded: its id is written to the file, a sync is called, and the call
\* returns.
WriteRoot(c) ==
    /\ At(c, "write")
    /\ localRoot' = Stored(calls[c].tree)
    /\ SyncHostStorage(localRoot', timers)
    /\ Settle(c, "done")
    /\ dropped' = FALSE
    /\ UNCHANGED <<remoteRoot, disturbances>>

Timer ==
    /\ timers > 0
    /\ SyncHostStorage(localRoot, timers - 1)
    /\ UNCHANGED <<localRoot, remoteRoot, queueVars, calls, disturbances, dropped>>

\* SYNC_INTERVAL has passed since the last sync began.
IntervalPasses ==
    /\ recent
    /\ recent' = FALSE
    /\ UNCHANGED <<localRoot, remoteRoot, queueVars, calls, sync, syncAgain, timers,
                   disturbances, dropped>>

SyncReadRemote ==
    /\ sync.pc = "remote"
    /\ sync' = [pc |-> "load", id |-> RootId(sync.id, remoteRoot)]
    /\ UNCHANGED <<localRoot, remoteRoot, queueVars, calls, syncAgain, recent, timers,
                   disturbances, dropped>>

\* The root is downloaded; the id of its file is what will be sent.
SyncLoadRoot ==
    /\ sync.pc = "load"
    /\ sync' = [sync EXCEPT !.pc = "put"]
    /\ UNCHANGED <<localRoot, remoteRoot, queueVars, calls, syncAgain, recent, timers,
                   disturbances, dropped>>

\* The download fails: a new root has no encFile.
SyncLoadEmptyRoot ==
    /\ sync.pc = "load"
    /\ sync.id # NoRoot
    /\ Disturb
    /\ sync' = [pc |-> "put", id |-> NoRoot]
    /\ UNCHANGED <<localRoot, remoteRoot, queueVars, calls, syncAgain, recent, timers, dropped>>

\* Mutant: A sync that was asked for meanwhile is forgotten.
PutOnce ==
    /\ sync.pc = "put"
    /\ remoteRoot' = sync.id
    /\ sync' = Idle
    /\ dropped' = (dropped \/ (sync.id = NoRoot /\ timers = 0))
    /\ UNCHANGED <<localRoot, queueVars, calls, syncAgain, recent, timers, disturbances>>

\* The transaction is mined.
PutKeyValue ==
    /\ sync.pc = "put"
    /\ remoteRoot' = sync.id
    /\ sync' = Idle
    /\ timers' = IF syncAgain THEN timers + 1 ELSE timers
    /\ dropped' = (dropped \/ (sync.id = NoRoot /\ timers' = 0))
    /\ UNCHANGED <<localRoot, queueVars, calls, syncAgain, recent, disturbances>>

\* The chain cannot be read, or the transaction fails, whether or not it was sent: the sync
\* throws, and does not look at syncAgain.
SyncFails ==
    /\ sync.pc \in {"remote", "put"}
    /\ Disturb
    /\ remoteRoot' \in {remoteRoot} \cup (IF sync.pc = "put" THEN {sync.id} ELSE {})
    /\ sync' = Idle
    /\ dropped' = (dropped \/ timers = 0)
    /\ UNCHANGED <<localRoot, queueVars, calls, syncAgain, recent, timers>>

-----------------------------------------------------------------------------
(* The node is stopped and started: the queue and the timers are gone, and no sync is       *)
(* called until the next change.                                                            *)
Crash ==
    /\ Disturb
    /\ calls' = [c \in Ids |-> IF calls[c].pc \in Running \cup {"queued"}
                               THEN NoCall("lost") ELSE calls[c]]
    /\ localRoot' \in {localRoot} \cup
          (IF \E c \in Ids : At(c, "write") THEN {NoRoot} ELSE {})   \* stopped in writeFileSync
    /\ sequentialCallbacks' = <<>>
    /\ sequentialInProgress' = FALSE
    /\ immediates' = 0
    /\ sync' = Idle
    /\ syncAgain' = FALSE
    /\ recent' = FALSE
    /\ timers' = 0
    /\ dropped' = TRUE
    /\ UNCHANGED remoteRoot

CallStep(c) == \/ ReadRemote(c)
               \/ LoadRoot(c)
               \/ LoadEmptyRoot(c)
               \/ Apply(c)
               \/ Refuse(c)
               \/ CallFails(c)
               \/ WriteRoot(c)

SyncStep == \/ SyncReadRemote
            \/ SyncLoadRoot
            \/ SyncLoadEmptyRoot
            \/ PutKeyValue
            \/ SyncFails

Next == \/ \E c \in Ids, r \in SomeRequests : Request(c, r)
        \/ Immediate
        \/ \E c \in Ids : CallStep(c)
        \/ Timer
        \/ IntervalPasses
        \/ SyncStep
        \/ Crash

Spec == Init /\ [][Next]_vars

(* Promises settle, timers and immediates fire, and time passes. *)
Fairness == /\ WF_vars(Immediate)
            /\ WF_vars(Timer)
            /\ WF_vars(IntervalPasses)
            /\ WF_vars(SyncStep)
            /\ \A c \in Ids : WF_vars(CallStep(c))

FairSpec == Spec /\ Fairness

-----------------------------------------------------------------------------
(* Every variable has its type; ids of files are roots, and queued ids wait. *)
TypeOK ==
    /\ localRoot \in Roots \cup {NoRoot}
    /\ remoteRoot \in Roots \cup {NoRoot}
    /\ sequentialCallbacks \in Seq(Ids)
    /\ sequentialInProgress \in BOOLEAN
    /\ immediates \in Nat
    /\ calls \in [Ids -> CallRecord]
    /\ sync \in SyncRecord
    /\ syncAgain \in BOOLEAN
    /\ recent \in BOOLEAN
    /\ timers \in Nat
    /\ disturbances \in Nat
    /\ dropped \in BOOLEAN

(* ensureSequential: at most one call is between its first await and its end, although each *)
(* call, each end of a call and each immediate pokes the queue.                             *)
OneCallAtATime ==
    \A c, d \in Ids : calls[c].pc \in Running /\ calls[d].pc \in Running => c = d

(* A change of the root is the method's effect on the root that is in the file at that      *)
(* moment, so no change made by another call is lost, unless the root could not be          *)
(* downloaded and the call went on with a new one.  Without a file the registry counts.     *)
NoLostUpdate ==
    [][\A c \in Ids :
          At(c, "write") /\ calls'[c].pc = "done" /\ ~calls[c].emptied =>
            LET current == IF localRoot # NoRoot THEN localRoot ELSE remoteRoot
                tree == IF current = NoRoot THEN NewRoot ELSE Loaded(current)
            IN /\ Returns(calls[c].req, tree)
               /\ localRoot' = Stored(After(calls[c].req, tree))]_vars

(* What a method changed in memory is what the root it is about to write leads to: no       *)
(* tracker is left with an encFile of an earlier state.                                     *)
WrittenTreeIsWhole ==
    \A c \in Ids : At(c, "write") =>
      \A h \in DOMAIN calls[c].tree :
        IsTracker(calls[c].tree, h) => calls[c].tree[h].encFile = calls[c].tree[h].items

(* Every queued call settles, however calls, their ends and immediates meet. *)
CallsSettle ==
    \A c \in Ids : (calls[c].pc = "queued") ~> (calls[c].pc \in Settled)

(* A change reaches the registry, except when a sync failed with no other to come, or the   *)
(* node was stopped: syncAgain and the timers never lose one.                               *)
RemoteFollows ==
    (localRoot \notin {NoRoot, remoteRoot} /\ ~dropped) ~> (localRoot = remoteRoot \/ dropped)
=============================================================================
