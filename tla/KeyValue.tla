------------------------------ MODULE KeyValue ------------------------------
(***************************************************************************)
(* The key-value registry as one node reads and writes it:                 *)
(* getKeyValue, getZRecord, putKeyValue and web3send of                    *)
(* network/providers/ethereum.js, the cache of util/cache.ts, and the      *)
(* memory of network/keyvalue.js that templates read.                      *)
(*                                                                         *)
(* An entry is an identity and a key.  The chain is the sequence of the    *)
(* values put so far; a value stands for its place in that sequence, 0 for *)
(* an entry that was never put.  A value is plain, or an instruction to    *)
(* copy another entry.  Values are read without a version: module Versions *)
(* has the look-up by version.                                             *)
(***************************************************************************)
EXTENDS Naturals, Sequences, FiniteSets

CONSTANTS
    Entries,
    Routes,           \* the entries with key zdns/routes
    Plain,            \* in place of the entry to copy: a plain value
    SomePuts,         \* bound: the values put, each an entry and the entry it copies
    OtherPuts,        \* bound: those of them another deployer may put
    MaxCalls,         \* bound: reads
    MaxWrites,        \* bound: calls of putKeyValue on this node
    MaxPuts,          \* bound: values on the chain
    RetryLimit,       \* network.web3_call_retry_limit
    MaxExpiries       \* bound: entries the caches drop after their 20 seconds

ASSUME KeyValueAssumption ==
    /\ IsFiniteSet(Entries)
    /\ Plain \notin Entries
    /\ Routes \subseteq Entries
    /\ SomePuts \subseteq [entry : Entries, to : Entries \cup {Plain}]
    /\ OtherPuts \subseteq SomePuts
    /\ MaxCalls \in Nat /\ MaxWrites \in Nat /\ MaxPuts \in Nat /\ MaxExpiries \in Nat
    /\ RetryLimit \in Nat \ {0}

VARIABLES
    puts,             \* the chain
    fills,            \* promises made for keyValueCache
    keyValueCache,    \* the promise cached for an entry, 0 for none
    zRecordCache,     \* the call whose promise is cached for an entry, 0 for none
    data,             \* the memory of class KeyValue, never dropped
    calls,
    writes,
    acked,            \* history: the newest value whose putKeyValue has returned
    expiries

vars == <<puts, fills, keyValueCache, zRecordCache, data, calls, writes, acked, expiries>>

Calls == 1..MaxCalls
Writes == 1..MaxWrites
Fills == 1..(Cardinality(Entries) + MaxCalls)

Newest(e) ==
    LET of == {n \in DOMAIN puts : puts[n].entry = e}
    IN  IF of = {} THEN 0 ELSE CHOOSE n \in of : \A k \in of : k <= n

NoFill == [entry |-> Plain, state |-> "none", value |-> 0]
NoCall == [kind |-> "none", pc |-> "unused", entry |-> Plain, fill |-> 0, copied |-> FALSE, of |-> 0,
           acked |-> [e \in Entries |-> 0]]
NoWrite == [pc |-> "unused", entry |-> Plain, to |-> Plain, attempt |-> 0, sent |-> 0]

Init ==
    /\ puts = <<>>
    /\ fills = [f \in Fills |-> NoFill]
    /\ keyValueCache = [e \in Entries |-> 0]
    /\ zRecordCache = [e \in Entries |-> 0]
    /\ data = [e \in Entries |-> 0]
    /\ calls = [c \in Calls |-> NoCall]
    /\ writes = [w \in Writes |-> NoWrite]
    /\ acked = [e \in Entries |-> 0]
    /\ expiries = 0

-----------------------------------------------------------------------------
(* Reads. *)

\* A promise that no cache holds and nobody waits for is gone.
Held(cache, cs) == {cache[e] : e \in Entries} \cup {cs[c].fill : c \in Calls}
Collect(fs, cache, cs) == [f \in Fills |-> IF f \in Held(cache, cs) THEN fs[f] ELSE NoFill]

\* Look-ups of one entry: the cached promise, or a new one.
Promise(e) ==
    IF keyValueCache[e] # 0 THEN keyValueCache[e]
    ELSE CHOOSE f \in Fills : f \notin Held(keyValueCache, calls)
Waits(c, e, call) ==
    [calls EXCEPT ![c] = [call EXCEPT !.pc = "wait", !.entry = e, !.fill = Promise(e)]]
Asked(e) == IF keyValueCache[e] # 0 THEN fills
            ELSE [fills EXCEPT ![Promise(e)] = [NoFill EXCEPT !.entry = e, !.state = "pending"]]

\* createCache().get around ikvGet: the promise itself is cached, before it is answered.
Get(c, e, call) ==
    /\ calls' = Waits(c, e, call)
    /\ keyValueCache' = [keyValueCache EXCEPT ![e] = Promise(e)]
    /\ fills' = Collect(Asked(e), keyValueCache', calls')

Ended(pc) == [NoCall EXCEPT !.pc = pc]
Begun(kind) == [NoCall EXCEPT !.kind = kind, !.acked = acked]

Unused(c) == calls[c].pc = "unused" /\ \A b \in 1..(c - 1) : calls[b].pc # "unused"

\* getKeyValue(identity, key, 'latest', 'exact', true).
GetKeyValue(c, e) ==
    /\ Unused(c)
    /\ Get(c, e, Begun("follow"))
    /\ UNCHANGED <<puts, zRecordCache, data, writes, acked, expiries>>

\* getZRecord: the promise of the whole look-up is cached; a hit waits for that call.
GetZRecord(c, e) ==
    /\ Unused(c)
    /\ IF zRecordCache[e] = 0
       THEN /\ zRecordCache' = [zRecordCache EXCEPT ![e] = c]
            /\ Get(c, e, Begun("routes"))
       ELSE /\ calls' = [calls EXCEPT ![c] = [Begun("routes") EXCEPT
                             !.pc = "share", !.of = zRecordCache[e]]]
            /\ UNCHANGED <<zRecordCache, fills, keyValueCache>>
    /\ UNCHANGED <<puts, data, writes, acked, expiries>>

\* KeyValue.get: what is in memory is returned without a question.
KeyValueGet(c, e) ==
    /\ Unused(c)
    /\ IF data[e] # 0
       THEN /\ calls' = [calls EXCEPT ![c] = Ended("done")]
            /\ UNCHANGED <<fills, keyValueCache>>
       ELSE Get(c, e, Begun("memory"))
    /\ UNCHANGED <<puts, zRecordCache, data, writes, acked, expiries>>

\* The chain answers ikvGet, or the call of it fails: the failed promise stays cached.
Answer(f) ==
    /\ fills[f].state = "pending"
    /\ \/ fills' = [fills EXCEPT ![f].state = "answered", ![f].value = Newest(fills[f].entry)]
       \/ fills' = [fills EXCEPT ![f].state = "failed"]
    /\ UNCHANGED <<puts, keyValueCache, zRecordCache, data, calls, writes, acked, expiries>>

State(c) == fills[calls[c].fill].state
Got(c) == fills[calls[c].fill].value
Answered(c) == calls[c].pc = "wait" /\ State(c) # "pending"
Copies(c) == /\ calls[c].kind \in {"follow", "routes"}
             /\ State(c) = "answered" /\ Got(c) # 0
             /\ puts[Got(c)].to # Plain

\* @@copy_from_ikv: the entry named by the value is looked up, and so on.
Follow(c) ==
    /\ Answered(c) /\ Copies(c)
    /\ Get(c, puts[Got(c)].to, [calls[c] EXCEPT !.copied = TRUE])
    /\ UNCHANGED <<puts, zRecordCache, data, writes, acked, expiries>>

\* Mutant: a failure of the promise is not passed on.
ReturnAnswers(c) ==
    /\ Answered(c) /\ ~Copies(c) /\ State(c) # "failed"
    /\ calls' = [calls EXCEPT ![c] = Ended(IF calls[c].copied /\ Got(c) = 0 THEN "threw" ELSE "done")]
    /\ fills' = Collect(fills, keyValueCache, calls')
    /\ data' = IF calls[c].kind = "memory" /\ Got(c) # 0
               THEN [data EXCEPT ![calls[c].entry] = Got(c)] ELSE data
    /\ UNCHANGED <<puts, keyValueCache, zRecordCache, writes, acked, expiries>>

\* The awaits that follow: a copy of nothing throws; class KeyValue remembers the value.
Return(c) ==
    /\ Answered(c) /\ ~Copies(c)
    /\ LET threw == State(c) = "failed" \/ (calls[c].copied /\ Got(c) = 0)
       IN  /\ calls' = [calls EXCEPT ![c] = Ended(IF threw THEN "threw" ELSE "done")]
           /\ fills' = Collect(fills, keyValueCache, calls')
           /\ data' = IF calls[c].kind = "memory" /\ ~threw /\ Got(c) # 0
                      THEN [data EXCEPT ![calls[c].entry] = Got(c)] ELSE data
    /\ UNCHANGED <<puts, keyValueCache, zRecordCache, writes, acked, expiries>>

\* A call that shares the promise of another ends as that one does.
ReturnShared(c) ==
    /\ calls[c].pc = "share"
    /\ calls[calls[c].of].pc \in {"done", "threw"}
    /\ calls' = [calls EXCEPT ![c] = Ended(calls[calls[c].of].pc)]
    /\ UNCHANGED <<puts, fills, keyValueCache, zRecordCache, data, writes, acked, expiries>>

\* node-cache drops an entry 20 seconds after it was set.
Expire(e) ==
    /\ expiries < MaxExpiries
    /\ expiries' = expiries + 1
    /\ \/ /\ keyValueCache[e] # 0
          /\ keyValueCache' = [keyValueCache EXCEPT ![e] = 0]
          /\ fills' = Collect(fills, keyValueCache', calls)
          /\ UNCHANGED zRecordCache
       \/ /\ zRecordCache[e] # 0
          /\ zRecordCache' = [zRecordCache EXCEPT ![e] = 0]
          /\ UNCHANGED <<keyValueCache, fills>>
    /\ UNCHANGED <<puts, data, calls, writes, acked>>

-----------------------------------------------------------------------------
(* Writes. *)

KeepsReads == UNCHANGED <<zRecordCache, data, calls, expiries>>

\* putKeyValue up to web3send.
PutKeyValue(w, put) ==
    /\ writes[w].pc = "unused"
    /\ writes' = [writes EXCEPT ![w] = [NoWrite EXCEPT !.pc = "estimate", !.entry = put.entry, !.to = put.to]]
    /\ UNCHANGED <<puts, keyValueCache, fills, acked>> /\ KeepsReads

\* web3send: the gas price and the estimate are there, the transaction is sent.
Send(w) ==
    /\ writes[w].pc = "estimate"
    /\ writes' = [writes EXCEPT ![w].pc = "send", ![w].sent = @ + 1]
    /\ UNCHANGED <<puts, keyValueCache, fills, acked>> /\ KeepsReads

\* A transaction that was sent gets on the chain, whether or not anyone still waits for it.
Mine(w) ==
    /\ writes[w].sent > 0
    /\ Len(puts) < MaxPuts
    /\ puts' = Append(puts, [entry |-> writes[w].entry, to |-> writes[w].to, by |-> w])
    /\ writes' = [writes EXCEPT ![w].sent = @ - 1]
    /\ UNCHANGED <<keyValueCache, fills, acked>> /\ KeepsReads

\* Another deployer of the identity puts a value.
PutElsewhere(put) ==
    /\ Len(puts) < MaxPuts
    /\ puts' = Append(puts, [entry |-> put.entry, to |-> put.to, by |-> 0])
    /\ UNCHANGED <<keyValueCache, fills, writes, acked>> /\ KeepsReads

PlaceOf(w) ==
    LET own == {n \in DOMAIN puts : puts[n].by = w} IN CHOOSE n \in own : \A k \in own : k <= n

\* Mutant: the cache is left to its 20 seconds.
ConfirmOnly(w) ==
    /\ writes[w].pc = "send" /\ writes[w].sent = 0
    /\ writes' = [writes EXCEPT ![w].pc = "done"]
    /\ acked' = [acked EXCEPT ![writes[w].entry] = IF PlaceOf(w) > @ THEN PlaceOf(w) ELSE @]
    /\ UNCHANGED <<puts, keyValueCache, fills>> /\ KeepsReads

\* The receipt arrives (transactions of one account are mined in their order), and
\* putKeyValue drops the entry from keyValueCache: not from zRecordCache, and not if it threw.
Confirm(w) ==
    /\ writes[w].pc = "send" /\ writes[w].sent = 0
    /\ writes' = [writes EXCEPT ![w].pc = "done"]
    /\ keyValueCache' = [keyValueCache EXCEPT ![writes[w].entry] = 0]
    /\ fills' = Collect(fills, keyValueCache', calls)
    /\ acked' = [acked EXCEPT ![writes[w].entry] = IF PlaceOf(w) > @ THEN PlaceOf(w) ELSE @]
    /\ UNCHANGED puts /\ KeepsReads

\* Mutant: one attempt too many.
RetryOnceMore(w) ==
    IF writes[w].attempt + 1 <= RetryLimit
    THEN [writes EXCEPT ![w].pc = "estimate", ![w].attempt = @ + 1]
    ELSE [writes EXCEPT ![w].pc = "threw"]

\* isRetryableError(error) && web3CallRetryLimit - ++attempt > 0.
Retry(w) ==
    IF writes[w].attempt + 1 < RetryLimit
    THEN [writes EXCEPT ![w].pc = "estimate", ![w].attempt = @ + 1]
    ELSE [writes EXCEPT ![w].pc = "threw"]

\* ESOCKETTIMEDOUT, of the estimate or of the send: what was sent may still be mined.
TimeOut(w) ==
    /\ writes[w].pc \in {"estimate", "send"}
    /\ writes' = Retry(w)
    /\ UNCHANGED <<puts, keyValueCache, fills, acked>> /\ KeepsReads

\* Any other error: the estimate fails, the node refuses the transaction, or web3 stops
\* waiting for it.
Fail(w) ==
    /\ writes[w].pc \in {"estimate", "send"}
    /\ \E left \in {writes[w].sent} \cup (IF writes[w].pc = "send" /\ writes[w].sent > 0
                                         THEN {writes[w].sent - 1} ELSE {}) :
          writes' = [writes EXCEPT ![w].pc = "threw", ![w].sent = left]
    /\ UNCHANGED <<puts, keyValueCache, fills, acked>> /\ KeepsReads

-----------------------------------------------------------------------------
ReadStep ==
    \/ \E c \in Calls, e \in Entries : GetKeyValue(c, e)
    \/ \E c \in Calls, e \in Routes : GetZRecord(c, e)
    \/ \E c \in Calls, e \in Entries \ Routes : KeyValueGet(c, e)
    \/ \E c \in Calls : Follow(c) \/ Return(c) \/ ReturnShared(c)
    \/ \E f \in Fills : Answer(f)
    \/ \E e \in Entries : Expire(e)

WriteStep ==
    \/ \E w \in Writes, put \in SomePuts : PutKeyValue(w, put)
    \/ \E put \in OtherPuts : PutElsewhere(put)
    \/ \E w \in Writes : Send(w) \/ Mine(w) \/ Confirm(w) \/ TimeOut(w) \/ Fail(w)

Next == ReadStep \/ WriteStep

Fairness ==
    /\ \A c \in Calls : WF_vars(Follow(c)) /\ WF_vars(Return(c)) /\ WF_vars(ReturnShared(c))
    /\ \A f \in Fills : WF_vars(Answer(f))

Spec == Init /\ [][Next]_vars /\ Fairness

-----------------------------------------------------------------------------
(* Properties. *)

\* A look-up that is not served from zRecordCache or from the memory of class KeyValue never
\* gives a value older than the last one whose putKeyValue had returned when it began, also
\* when a look-up begun before that put is answered after it.
FreshAfterPut ==
    \A c \in Calls :
        calls[c].pc = "wait" /\ State(c) = "answered"
            => Got(c) >= calls[c].acked[calls[c].entry]

\* A put that returned is on the chain, and no put gets there more often than web3send may
\* try it, however many attempts were given up and mined all the same.
PutsAreOnTheChain ==
    \A w \in Writes :
        LET mined == Cardinality({n \in DOMAIN puts : puts[n].by = w}) IN
        /\ writes[w].pc = "done" => mined > 0
        /\ mined + writes[w].sent <= RetryLimit

\* A look-up that never ends follows copy instructions in a circle: values that were put at
\* some time and each name an entry of the circle.
Circle(S) == \A e \in S : \E n \in DOMAIN puts : puts[n].entry = e /\ puts[n].to \in S
OnlyCirclesHang ==
    \A c \in Calls :
        <>[](calls[c].pc \in {"wait", "share"}) => <>(\E S \in SUBSET Entries \ {{}} : Circle(S))
=============================================================================
