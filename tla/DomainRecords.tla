---------------------------- MODULE DomainRecords ----------------------------
(***************************************************************************)
(* The record a .sol or .eth domain keeps about Point: resolveDomain and    *)
(* setDomainContent of network/providers/solana.ts and ethereum.js,          *)
(* setPointReference, and the deployer's ensureIsDomainOwner and             *)
(* editDomainRegistry with the merge of util/cookieString.ts.                *)
(*                                                                         *)
(* A Solana record is one value that every writer replaces in full: a       *)
(* writer merges its keys into the content it read when it began, minutes    *)
(* earlier for a deployment, perhaps from the cache.  Transactions are sent  *)
(* and not waited for.  One domain; a tick of the clock is the 2 minutes     *)
(* that a cached record lives.                                              *)
(***************************************************************************)
EXTENDS Integers

CONSTANTS Deployments,   \* deployments to the domain
          References,    \* calls of setPointReference
          Visitors       \* requests for a page of the domain

Writers == Deployments \cup References

\* pn_key; pn_root with pn_routes; pn_alias.
RecordKeys == {"key", "root", "alias"}
Missing == {"missing"}
NoEntry == [content |-> {}, misread |-> FALSE, age |-> 2]

VARIABLES
  service,       \* "SNS" or "ENS"
  record,        \* the keys on the chain, or Missing
  domainCache,   \* the cached content, its age in ticks (2: no entry)
  writer,        \* every writer: where it stands, what it read, its transaction
  visitor,       \* every visitor: where it stands and what it was told
  sinceMined     \* ticks since a transaction changed the record, up to 2

domainVars == <<service, record, domainCache, writer, visitor, sinceMined>>

Readings == [content : SUBSET RecordKeys, misread : BOOLEAN]

DomainTypeOK ==
  /\ service \in {"SNS", "ENS"}
  /\ record \in (SUBSET RecordKeys) \cup {Missing}
  /\ domainCache.age \in 0..2
  /\ sinceMined \in 0..2
  /\ \A w \in Writers : /\ writer[w].reading \in Readings
                        /\ writer[w].tx \in {"none", "create", "update"}
  /\ \A v \in Visitors : visitor[v].reading \in Readings

NothingRead == [content |-> {}, misread |-> FALSE]

DomainInit ==
  /\ service \in {"SNS", "ENS"}
  /\ record \in IF service = "SNS" THEN {Missing, {"key"}, {"key", "root"}, {"alias"}}
                                   ELSE {{}, {"root"}, {"alias"}}
  /\ domainCache = NoEntry
  /\ writer = [w \in Writers |->
       [at |-> "idle", data |-> {}, reading |-> NothingRead,
        tx |-> "none", retried |-> FALSE, calm |-> FALSE]]
  /\ visitor = [v \in Visitors |-> [at |-> "idle", reading |-> NothingRead]]
  /\ sinceMined = 2

-----------------------------------------------------------------------------
(* resolveDomain                                                            *)

Cached == domainCache.age < 2
CachedReading == [content |-> domainCache.content, misread |-> domainCache.misread]

\* What the chain tells of the record.  A record that cannot be read, for
\* whatever reason, is taken for one without content on Solana; on Ethereum the
\* failure ends the call.
ChainReadings ==
  {[content |-> IF record = Missing THEN {} ELSE record, misread |-> FALSE]}
    \cup IF service = "SNS" THEN {[content |-> {}, misread |-> TRUE]} ELSE {}

\* domainCache.add.
AddEntryOf(reading) ==
  domainCache' = [content |-> reading.content, misread |-> reading.misread, age |-> 0]

\* A page of the domain is asked for: the middleware and the proxy resolve it.
VisitDomain(v) ==
  /\ visitor[v].at = "idle"
  /\ ~Cached
  /\ visitor' = [visitor EXCEPT ![v].at = "asking"]
  /\ UNCHANGED <<service, record, domainCache, writer, sinceMined>>

VisitorIsTold(v) ==
  /\ visitor[v].at = "asking"
  /\ \/ \E reading \in ChainReadings :
          visitor' = [visitor EXCEPT ![v] = [at |-> "told", reading |-> reading]]
     \/ visitor' = [visitor EXCEPT ![v] = [at |-> "idle", reading |-> NothingRead]]
  /\ UNCHANGED <<service, record, domainCache, writer, sinceMined>>

VisitorCaches(v) ==
  /\ visitor[v].at = "told"
  /\ AddEntryOf(visitor[v].reading)
  /\ visitor' = [visitor EXCEPT ![v] = [at |-> "idle", reading |-> NothingRead]]
  /\ UNCHANGED <<service, record, writer, sinceMined>>

-----------------------------------------------------------------------------
(* Deployments and references                                               *)

\* parseCookieString and mergeAndResolveConflicts: an alias excludes a root.
MergeAndResolveConflicts(old, data) ==
  data \cup (old \ (IF "alias" \in data THEN {"root"}
                    ELSE IF "root" \in data THEN {"alias"} ELSE {}))

\* editDomainRegistry: the text record of ENS is the deployer's own and is
\* overwritten.
WrittenKeys(w) ==
  IF service = "SNS"
  THEN MergeAndResolveConflicts(writer[w].reading.content, writer[w].data)
  ELSE writer[w].data

Settled(wr) == sinceMined = 2 /\ \A w \in Writers : wr[w].tx = "none"

\* ensureIsDomainOwner or setPointReference resolves the domain.
BeginWrite(w, data) ==
  /\ writer[w].at = "idle"
  /\ w \in References <=> data = {"key"}
  /\ w \in References => service = "SNS"
  /\ writer' = [writer EXCEPT ![w].data = data,
       ![w].at = IF Cached THEN "owner" ELSE "asking",
       ![w].reading = IF Cached THEN CachedReading ELSE NothingRead,
       ![w].calm = Settled(writer) /\ (Cached => ~domainCache.misread)]
  /\ UNCHANGED <<service, record, domainCache, visitor, sinceMined>>

WriterIsTold(w) ==
  /\ writer[w].at = "asking"
  /\ \/ \E reading \in ChainReadings :
          writer' = [writer EXCEPT ![w].at = "told", ![w].reading = reading,
                                   ![w].calm = @ /\ ~reading.misread]
     \/ writer' = [writer EXCEPT ![w].at = "failed"]
  /\ UNCHANGED <<service, record, domainCache, visitor, sinceMined>>

WriterCaches(w) ==
  /\ writer[w].at = "told"
  /\ AddEntryOf(writer[w].reading)
  /\ writer' = [writer EXCEPT ![w].at = "owner"]
  /\ UNCHANGED <<service, record, visitor, sinceMined>>

\* The domain belongs to the wallet or it does not; a deployment then uploads
\* and puts its key values, and may fail.
Prepare(w) ==
  /\ writer[w].at = "owner"
  /\ \E to \in {"writing", "failed"} : writer' = [writer EXCEPT ![w].at = to]
  /\ UNCHANGED <<service, record, domainCache, visitor, sinceMined>>

\* setDomainContent: a Solana record that does not exist is created first, and
\* the creation is given 5 seconds.
SetDomainContent(w) ==
  /\ writer[w].at = "writing"
  /\ \/ /\ service = "SNS" /\ record = Missing
        /\ \/ writer' = [writer EXCEPT ![w].at = "sleeping", ![w].tx = "create"]
           \/ writer' = [writer EXCEPT ![w].at = "failed"]
     \/ /\ record # Missing
        /\ writer' = [writer EXCEPT ![w].at = "sending"]
  /\ UNCHANGED <<service, record, domainCache, visitor, sinceMined>>

Slept(w) ==
  /\ writer[w].at = "sleeping"
  /\ writer' = [writer EXCEPT ![w].at = "sending"]
  /\ UNCHANGED <<service, record, domainCache, visitor, sinceMined>>

\* updatePointRecord sends the new content; a node that simulates it refuses
\* it while the record does not exist.  A failure is retried once on Solana.
SendContent(w) ==
  /\ writer[w].at = "sending"
  /\ \/ /\ record # Missing
        /\ writer' = [writer EXCEPT ![w].at = "sent", ![w].tx = "update"]
     \/ writer' = [writer EXCEPT
          ![w].retried = TRUE,
          ![w].at = IF service = "SNS" /\ ~writer[w].retried THEN "sleeping" ELSE "failed"]
  /\ UNCHANGED <<service, record, domainCache, visitor, sinceMined>>

\* The transaction is sent, not mined: the cached record is removed now.
RemoveCached(w) ==
  /\ writer[w].at = "sent"
  /\ domainCache' = NoEntry
  /\ writer' = [writer EXCEPT ![w].at = "done"]
  /\ UNCHANGED <<service, record, visitor, sinceMined>>

-----------------------------------------------------------------------------
(* The chain and the clock                                                  *)

\* Nothing a writer began before this change of the record was calm.
Changed(w) ==
  /\ writer' = [v \in Writers |-> [writer[v] EXCEPT
                  !.tx = IF v = w THEN "none" ELSE @,
                  !.calm = @ /\ v = w]]
  /\ sinceMined' = 0

MineContent(w) ==
  /\ \/ writer[w].tx = "create" /\ record = Missing /\ record' = {}
     \/ writer[w].tx = "create" /\ record # Missing /\ UNCHANGED record
     \/ writer[w].tx = "update" /\ record' = WrittenKeys(w)
  /\ Changed(w)
  /\ UNCHANGED <<service, domainCache, visitor>>

DropContent(w) ==
  /\ writer[w].tx # "none"
  /\ writer' = [writer EXCEPT ![w].tx = "none"]
  /\ UNCHANGED <<service, record, domainCache, visitor, sinceMined>>

\* A cached record is older than 2 minutes.
ExpireDomain ==
  /\ domainCache.age = 1
  /\ domainCache' = NoEntry
  /\ UNCHANGED <<service, record, writer, visitor, sinceMined>>

\* Mutant: as DomainTick, with entries that outlive their 2 minutes.
DomainTickKeeps ==
  /\ \A v \in Visitors : visitor[v].at = "idle"
  /\ \A w \in Writers : writer[w].tx = "none"
  /\ \A w \in Writers : writer[w].at \in {"idle", "owner", "done", "failed"}
  /\ sinceMined < 2
  /\ sinceMined' = sinceMined + 1
  /\ UNCHANGED <<service, record, domainCache, writer, visitor>>

\* Two minutes pass: longer than any single call or unmined transaction lasts,
\* shorter than a deployment.
DomainTick ==
  /\ \A v \in Visitors : visitor[v].at = "idle"
  /\ \A w \in Writers : writer[w].tx = "none"
  /\ \A w \in Writers : writer[w].at \in {"idle", "owner", "done", "failed"}
  /\ sinceMined < 2 \/ domainCache.age < 2
  /\ sinceMined' = IF sinceMined < 2 THEN sinceMined + 1 ELSE 2
  /\ domainCache' = IF domainCache.age = 0 THEN [domainCache EXCEPT !.age = 1] ELSE NoEntry
  /\ UNCHANGED <<service, record, writer, visitor>>

DomainNext ==
  \/ \E v \in Visitors : VisitDomain(v) \/ VisitorIsTold(v) \/ VisitorCaches(v)
  \/ \E w \in Writers :
       \/ \E data \in {{"key"}, {"root"}, {"alias"}} : BeginWrite(w, data)
       \/ WriterIsTold(w) \/ WriterCaches(w) \/ Prepare(w)
       \/ SetDomainContent(w) \/ Slept(w) \/ SendContent(w) \/ RemoveCached(w)
       \/ MineContent(w) \/ DropContent(w)
  \/ ExpireDomain \/ DomainTick

DomainSpec == DomainInit /\ [][DomainNext]_domainVars

-----------------------------------------------------------------------------
(* "Preserve any existing content" (setPointReference), "We will preserve    *)
(* any pre-existing content" (deploy): the write of a calm writer keeps the  *)
(* keys its own do not exclude.  Calm is a writer that began two minutes or  *)
(* more after the last change, with no transaction on the way, that was not  *)
(* told of an empty record by a failed read, and in whose time nobody else   *)
(* wrote.  It may well have read the record from the cache.                  *)
KeysSurvive ==
  [][\A w \in Writers :
       writer[w].tx = "update" /\ record' # record /\ writer'[w].calm =>
         record \subseteq record' \cup
           (IF writer[w].data = {"alias"} THEN {"root"}
            ELSE IF writer[w].data = {"root"} THEN {"alias"} ELSE {})]_domainVars

=============================================================================
