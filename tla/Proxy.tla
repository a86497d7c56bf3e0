------------------------------- MODULE Proxy --------------------------------
(***************************************************************************)
(* What of a zApp lies in two entries of the registry, put by two          *)
(* transactions of a deployment and read one after the other: a page       *)
(* (client/proxy/handlers/common.ts) is made of the site's root directory  *)
(* and its routes, a contract (loadWebsiteContract and callContract of     *)
(* network/providers/ethereum.js) of an address and an ABI.  Reads go      *)
(* through caches of 20 seconds, for the routes through two, one over the  *)
(* other (zRecordCache over keyValueCache).                                *)
(*                                                                         *)
(* "first" and "second" are the entries in the order they are put: root    *)
(* directory and routes, or address and ABI.  A value is the number of the *)
(* deployment that put it.  A look-up is one step here (KeyValue has what  *)
(* happens inside it).  A tick of the clock is the 20 seconds a cached     *)
(* value lives; it is set in one tick and is gone by the end of the next.  *)
(***************************************************************************)
EXTENDS Integers

CONSTANTS PageRequests,   \* requests (an answered one is reused)
          MaxDeployments  \* bound

ASSUME ProxyAssumption == MaxDeployments \in Nat

\* A .point domain, an alias (.sol or .eth) of one, a domain with its own record; a contract.
PageKinds == {"point", "alias"}
SiteKinds == PageKinds \cup {"record", "contract"}
\* Ticks after which no cache holds what the registry held before.
CacheTicks == 3

VARIABLES
  site,        \* the registry: what it is, deployments of its two entries
  deploying,   \* a deployment between its two transactions, and who runs it
  firstCache,  \* keyValueCache, entry ::rootDir or zweb/contracts/address
  secondCache, \* keyValueCache, entry zdns/routes or zweb/contracts/abi
  zCache,      \* zRecordCache
  page,        \* every request
  quiet        \* ticks since the registry changed, up to CacheTicks

proxyVars == <<site, deploying, firstCache, secondCache, zCache, page, quiet>>

NotCached == [value |-> 0, age |-> 2]
Fresh(v) == [value |-> v, age |-> 0]
Hit(entry) == entry.age < 2

ProxyInit ==
  /\ site \in [kind : SiteKinds, first : {1}, second : {1}]
  /\ deploying = "nobody"
  /\ firstCache = NotCached /\ secondCache = NotCached /\ zCache = NotCached
  /\ page = [r \in PageRequests |->
               [at |-> "idle", second |-> 0, first |-> 0, calm |-> FALSE, reply |-> "none"]]
  /\ quiet = CacheTicks

-----------------------------------------------------------------------------
(* The deployment of a new version, by this node or by another.             *)

\* A change of the registry: no request that has begun is calm any more.
RegistryChanges ==
  /\ quiet' = 0
  /\ page' = [r \in PageRequests |-> [page[r] EXCEPT !.calm = FALSE]]

\* putKeyValue of ::rootDir, or of the address of a contract: the node that puts drops its cached
\* values of this entry, those of the other entry stay.  Both ids of a domain record are one
\* transaction.
PutFirst ==
  /\ deploying = "nobody"
  /\ site.first < MaxDeployments
  /\ LET v == site.first + 1
     IN  IF site.kind = "record"
         THEN /\ site' = [site EXCEPT !.first = v, !.second = v]
              /\ UNCHANGED <<deploying, firstCache, secondCache>>
         ELSE \E who \in {"node", "other"} :
                /\ site' = [site EXCEPT !.first = v]
                /\ deploying' = who
                /\ firstCache' = IF who = "node" THEN NotCached ELSE firstCache
                /\ UNCHANGED secondCache
  /\ RegistryChanges
  /\ UNCHANGED zCache

\* putZRecord, or putKeyValue of the ABI: the node that puts drops the routes or the ABI from
\* keyValueCache, and leaves zRecordCache and the cached first entry.
PutSecond ==
  /\ deploying # "nobody"
  /\ site' = [site EXCEPT !.second = site.first]
  /\ secondCache' = IF deploying = "node" THEN NotCached ELSE secondCache
  /\ deploying' = "nobody"
  /\ RegistryChanges
  /\ UNCHANGED <<firstCache, zCache>>

\* The deployment fails between its transactions.
AbandonDeployment ==
  /\ deploying # "nobody"
  /\ deploying' = "nobody"
  /\ UNCHANGED <<site, firstCache, secondCache, zCache, page, quiet>>

-----------------------------------------------------------------------------
(* The clock.                                                               *)

Older(entry) == IF entry.age = 0 THEN [entry EXCEPT !.age = 1] ELSE NotCached

\* Twenty seconds pass: more than a request takes from one look-up to the next.
ProxyTick ==
  /\ \A r \in PageRequests : page[r].at \notin {"routes", "address"}
  /\ firstCache' = Older(firstCache)
  /\ secondCache' = Older(secondCache)
  /\ zCache' = Older(zCache)
  /\ quiet' = IF quiet < CacheTicks THEN quiet + 1 ELSE quiet
  /\ UNCHANGED <<site, deploying, page>>

\* An entry is dropped within its second tick.
ExpireEntry ==
  /\ \/ firstCache.age = 1 /\ firstCache' = NotCached /\ UNCHANGED <<secondCache, zCache>>
     \/ secondCache.age = 1 /\ secondCache' = NotCached /\ UNCHANGED <<firstCache, zCache>>
     \/ zCache.age = 1 /\ zCache' = NotCached /\ UNCHANGED <<firstCache, secondCache>>
  /\ UNCHANGED <<site, deploying, page, quiet>>

-----------------------------------------------------------------------------
(* A request                                                                *)

\* Mutant: as GetRoutes, with a cache whose entries live on when they are read.
GetRoutesRenews(r) ==
  /\ page[r].at \in {"idle", "replied"}
  /\ site.kind \in PageKinds
  /\ \E v \in {IF Hit(zCache) THEN zCache.value
               ELSE IF Hit(secondCache) THEN secondCache.value ELSE site.second} :
       /\ zCache' = Fresh(v)
       /\ secondCache' = IF Hit(zCache) \/ Hit(secondCache) THEN secondCache ELSE Fresh(v)
       /\ page' = [page EXCEPT ![r] =
            [at |-> "routes", second |-> v, first |-> 0, calm |-> quiet = CacheTicks, reply |-> "none"]]
  /\ UNCHANGED <<site, deploying, firstCache, quiet>>

\* getZRecord, then the routes file it names (it is addressed by its content).
GetRoutes(r) ==
  /\ page[r].at \in {"idle", "replied"}
  /\ site.kind \in PageKinds
  /\ \E v \in {IF Hit(zCache) THEN zCache.value
               ELSE IF Hit(secondCache) THEN secondCache.value ELSE site.second} :
       /\ zCache' = IF Hit(zCache) THEN zCache ELSE Fresh(v)
       /\ secondCache' = IF Hit(zCache) \/ Hit(secondCache) THEN secondCache ELSE Fresh(v)
       /\ page' = [page EXCEPT ![r] =
            [at |-> "routes", second |-> v, first |-> 0, calm |-> quiet = CacheTicks, reply |-> "none"]]
  /\ UNCHANGED <<site, deploying, firstCache, quiet>>

\* queryExtDomain, for a record that is no alias: both ids in one answer (module
\* DomainRecords has what may be wrong with it).
GetBoth(r) ==
  /\ page[r].at \in {"idle", "replied"}
  /\ site.kind = "record"
  /\ page' = [page EXCEPT ![r] =
       [at |-> "root", second |-> site.second, first |-> site.first, calm |-> quiet = CacheTicks,
        reply |-> "none"]]
  /\ UNCHANGED <<site, deploying, firstCache, secondCache, zCache, quiet>>

\* getKeyValue('::rootDir').
GetRootDir(r) ==
  /\ page[r].at = "routes"
  /\ \E v \in {IF Hit(firstCache) THEN firstCache.value ELSE site.first} :
       /\ firstCache' = IF Hit(firstCache) THEN firstCache ELSE Fresh(v)
       /\ page' = [page EXCEPT ![r].at = "root", ![r].first = v]
  /\ UNCHANGED <<site, deploying, secondCache, zCache, quiet>>

\* The routes or the ABI cannot be had, the page is answered 404 or 500, the call throws.
PageFails(r) ==
  /\ page[r].at \in {"routes", "root", "static", "address", "abi"}
  /\ page' = [page EXCEPT ![r].at = "replied", ![r].reply = "error"]
  /\ UNCHANGED <<site, deploying, firstCache, secondCache, zCache, quiet>>

\* fulfillRequest: a file of the root directory, possibly under the path the routes
\* rewrite it to; else, when the file is not there, the template the routes name.
FulfillRequest(r) ==
  /\ \/ /\ page[r].at = "root"
        /\ \/ page' = [page EXCEPT ![r].at = "replied", ![r].reply = "file"]
           \/ page' = [page EXCEPT ![r].at = "static"]
     \/ /\ page[r].at = "static"
        /\ page' = [page EXCEPT ![r].at = "replied", ![r].reply = "template"]
  /\ UNCHANGED <<site, deploying, firstCache, secondCache, zCache, quiet>>

(* A call of a contract.                                                    *)

LoadAddress(r) ==
  /\ page[r].at \in {"idle", "replied"}
  /\ site.kind = "contract"
  /\ \E v \in {IF Hit(firstCache) THEN firstCache.value ELSE site.first} :
       /\ firstCache' = IF Hit(firstCache) THEN firstCache ELSE Fresh(v)
       /\ page' = [page EXCEPT ![r] =
            [at |-> "address", second |-> 0, first |-> v, calm |-> quiet = CacheTicks, reply |-> "none"]]
  /\ UNCHANGED <<site, deploying, secondCache, zCache, quiet>>

LoadAbi(r) ==
  /\ page[r].at = "address"
  /\ \E v \in {IF Hit(secondCache) THEN secondCache.value ELSE site.second} :
       /\ secondCache' = IF Hit(secondCache) THEN secondCache ELSE Fresh(v)
       /\ page' = [page EXCEPT ![r].at = "abi", ![r].second = v]
  /\ UNCHANGED <<site, deploying, firstCache, zCache, quiet>>

\* The call is answered; or it fails with an error that is retried, a second or more later,
\* from the first look-up on.
CallContract(r) ==
  /\ page[r].at = "abi"
  /\ \/ page' = [page EXCEPT ![r].at = "replied", ![r].reply = "result"]
     \/ page' = [page EXCEPT ![r].at = "idle"]
  /\ UNCHANGED <<site, deploying, firstCache, secondCache, zCache, quiet>>

-----------------------------------------------------------------------------
ProxyNext ==
  \/ PutFirst \/ PutSecond \/ AbandonDeployment
  \/ ProxyTick \/ ExpireEntry
  \/ \E r \in PageRequests : \/ GetRoutes(r) \/ GetBoth(r) \/ GetRootDir(r)
                             \/ PageFails(r) \/ FulfillRequest(r)
                             \/ LoadAddress(r) \/ LoadAbi(r) \/ CallContract(r)

ProxySpec == ProxyInit /\ [][ProxyNext]_proxyVars

-----------------------------------------------------------------------------
\* The routes and the root directory a page is made of, and the address and the ABI a call is
\* made with, are the ones the registry holds, and of one deployment when the registry is, unless
\* the registry changed while the page was served or up to one minute (three ticks, for two
\* caches of 20 seconds, one over the other) before.
PartsAreOfOneVersion ==
  [][\A r \in PageRequests :
       page'[r].reply \in {"file", "template", "result"} /\ page[r].reply = "none"
         /\ page[r].calm =>
         page[r].second = site.second /\ page[r].first = site.first]_proxyVars

=============================================================================
