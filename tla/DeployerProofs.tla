--------------------------- MODULE DeployerProofs ---------------------------
(***************************************************************************)
(* Proofs about module Deployer, for any number of contracts, of           *)
(* deployments at once and of failures.                                    *)
(***************************************************************************)
EXTENDS Deployer, SequenceTheorems, TLAPS

-----------------------------------------------------------------------------
(* Types, and what is known of the code behind every address and proxy.    *)

Impls == [contract : Contracts, live : BOOLEAN, revision : Revisions]
Entries == [contract : Contracts, revision : Revisions, address : Nat, all : SUBSET Nat]
Manifests == {None} \cup SUBSET Entries
Sources == [Contracts -> Revisions]

DeploymentRecords ==
  [phase : Phases, mode : Modes \cup {"site"}, force : BOOLEAN, alone : BOOLEAN,
   metadata : Manifests, source : Sources \cup {None}]

TaskRecords ==
  [at : Steps, proxy : Nat, metadata : Manifests, revision : Revisions \cup {None}, impl : Nat,
   checked : Revisions \cup {None}, seen : SUBSET Entries, attempt : {"first", "unbound", "imported"}]

Keepers == Deployments \cup {None}
RegistryRecords ==
  [root : Keepers, zdns : Keepers, keys : Keepers, metadata : Manifests, described : Keepers,
   address : [Contracts -> Nat], abi : [Contracts -> [by : Keepers, revision : Revisions \cup {None}]]]

WorldOK ==
  /\ chain \in Seq(Impls) /\ proxies \in Seq(Nat) /\ imported \subseteq Contracts
  /\ \A p \in DOMAIN proxies : proxies[p] \in DOMAIN chain

\* At address a is contract c, and in revision r unless c was imported by force.
IsCodeOf(c, r, a) ==
  /\ a \in DOMAIN chain /\ Code(a).contract = c
  /\ c \in imported \/ Code(a).revision = r

EntriesOK(m) ==
  m \subseteq Entries /\ \A e \in m : \A a \in {e.address} \cup e.all : IsCodeOf(e.contract, e.revision, a)
ManifestOK(m) == m = None \/ EntriesOK(m)

\* p is a proxy of contract c, whichever revision it runs.
IsProxyOf(c, p) == p \in DOMAIN proxies /\ Code(proxies[p]).contract = c

HasRevision == {"restore", "check", "fetch", "store", "validate", "point", "discard", "import", "publish", "abi"}

TaskOK(t, c) ==
  /\ t \in TaskRecords /\ ManifestOK(t.metadata) /\ EntriesOK(t.seen)
  /\ t.proxy # 0 => IsProxyOf(c, t.proxy)
  /\ t.at \in HasRevision => t.revision \in Revisions
  /\ t.at \in {"validate", "point"} => IsCodeOf(c, t.revision, t.impl)
  /\ t.at = "point" => Code(t.impl).live
  /\ t.at \in {"restore", "check", "discard", "import"} => t.proxy # 0 /\ t.metadata # None
  /\ t.at \in {"publish", "abi"} => t.proxy # 0

RegistryOK ==
  /\ registry \in RegistryRecords /\ ManifestOK(registry.metadata)
  /\ \A c \in Contracts : registry.address[c] # 0 => IsProxyOf(c, registry.address[c])

DeploymentOK(r) == r \in DeploymentRecords /\ ManifestOK(r.metadata)

FilesOK ==
  /\ ManifestOK(manifest)
  /\ build \in [Contracts -> Revisions \cup {None}] /\ linked \in Sources \cup {None}
  /\ latest \in Keepers

BaseInv ==
  /\ WorldOK /\ RegistryOK /\ FilesOK
  /\ deps \in [Deployments -> DeploymentRecords] /\ \A d \in Deployments : DeploymentOK(deps[d])
  /\ tasks \in [Deployments -> [Contracts -> TaskRecords]]
  /\ \A d \in Deployments, c \in Contracts : TaskOK(tasks[d][c], c)

-----------------------------------------------------------------------------
(* Implementations and proxies are never taken away, and a proxy is never  *)
(* pointed to the code of another contract.                                *)

Grows ==
  /\ WorldOK'
  /\ \A a \in DOMAIN chain : a \in DOMAIN chain' /\ chain'[a] = chain[a]
  /\ imported \subseteq imported'
  /\ \A c \in Contracts, p \in DOMAIN proxies : IsProxyOf(c, p) => IsProxyOf(c, p)'

LEMMA GrownCode ==
  ASSUME Grows, NEW c, NEW r, NEW a, IsCodeOf(c, r, a)
  PROVE  IsCodeOf(c, r, a)' /\ Code(a)' = Code(a)
  BY DEF Grows, IsCodeOf, Code

LEMMA GrownEntries ==
  ASSUME Grows, NEW m, EntriesOK(m)
  PROVE  EntriesOK(m)'
  BY GrownCode DEF EntriesOK

LEMMA GrownManifest ==
  ASSUME Grows, NEW m, ManifestOK(m)
  PROVE  ManifestOK(m)'
  BY GrownEntries DEF ManifestOK

LEMMA GrownTask ==
  ASSUME Grows, NEW c \in Contracts, NEW t, TaskOK(t, c)
  PROVE  TaskOK(t, c)'
  <1>1. ManifestOK(t.metadata)' /\ EntriesOK(t.seen)'
    BY GrownManifest, GrownEntries DEF TaskOK
  <1>2. t.proxy # 0 => IsProxyOf(c, t.proxy)'
    BY DEF TaskOK, Grows, IsProxyOf
  <1>3. t.at \in {"validate", "point"} => IsCodeOf(c, t.revision, t.impl)' /\ Code(t.impl)' = Code(t.impl)
    BY GrownCode DEF TaskOK
  <1>4. QED
    BY <1>1, <1>2, <1>3 DEF TaskOK

\* The world as it is.
LEMMA GrowsNot ==
  ASSUME WorldOK, UNCHANGED <<chain, proxies, imported>>
  PROVE  Grows
  BY DEF Grows, WorldOK, IsProxyOf, Code

LEMMA GrowsByImpl ==
  ASSUME WorldOK, NEW i \in Impls, chain' = Append(chain, i), UNCHANGED <<proxies, imported>>
  PROVE  /\ Grows /\ Len(chain') \in DOMAIN chain' /\ chain'[Len(chain')] = i /\ Len(chain') \in Nat
  <1>1. /\ chain' \in Seq(Impls) /\ Len(chain) \in Nat /\ Len(chain') = Len(chain) + 1
        /\ DOMAIN chain = 1..Len(chain) /\ DOMAIN chain' = 1..Len(chain')
        /\ chain'[Len(chain) + 1] = i /\ \A a \in 1..Len(chain) : chain'[a] = chain[a]
    BY DEF WorldOK
  <1>2. \A a \in DOMAIN chain : a \in DOMAIN chain' /\ chain'[a] = chain[a]
    BY <1>1
  <1>3. WorldOK'
    BY <1>1, <1>2 DEF WorldOK
  <1>4. \A c \in Contracts, p \in DOMAIN proxies : IsProxyOf(c, p) => IsProxyOf(c, p)'
    BY <1>2 DEF IsProxyOf, Code, WorldOK
  <1>5. QED
    BY <1>1, <1>2, <1>3, <1>4 DEF Grows

LEMMA GrowsByProxy ==
  ASSUME WorldOK, NEW a \in DOMAIN chain, proxies' = Append(proxies, a), UNCHANGED <<chain, imported>>
  PROVE  /\ Grows /\ Len(proxies') \in DOMAIN proxies' /\ proxies'[Len(proxies')] = a
         /\ Len(proxies') \in Nat \ {0}
         /\ \A p \in DOMAIN proxies : proxies'[p] = proxies[p]
  <1>0. a \in Nat
    BY DEF WorldOK
  <1>1. /\ proxies' \in Seq(Nat) /\ Len(proxies) \in Nat /\ Len(proxies') = Len(proxies) + 1
        /\ DOMAIN proxies = 1..Len(proxies) /\ DOMAIN proxies' = 1..Len(proxies')
        /\ proxies'[Len(proxies) + 1] = a /\ \A p \in 1..Len(proxies) : proxies'[p] = proxies[p]
    BY <1>0 DEF WorldOK
  <1>2. \A p \in DOMAIN proxies : p \in DOMAIN proxies' /\ proxies'[p] = proxies[p]
    BY <1>1
  <1>3. \A p \in DOMAIN proxies' : p \in DOMAIN proxies \/ p = Len(proxies')
    BY <1>1
  <1>4. WorldOK'
    BY <1>1, <1>2, <1>3 DEF WorldOK
  <1>5. \A c \in Contracts, p \in DOMAIN proxies : IsProxyOf(c, p) => IsProxyOf(c, p)'
    BY <1>2 DEF IsProxyOf, Code
  <1>6. QED
    BY <1>1, <1>2, <1>4, <1>5 DEF Grows

LEMMA GrowsByUpgrade ==
  ASSUME WorldOK, NEW c \in Contracts, NEW p, IsProxyOf(c, p), NEW a \in DOMAIN chain, Code(a).contract = c,
         proxies' = [proxies EXCEPT ![p] = a], UNCHANGED <<chain, imported>>
  PROVE  Grows
  <1>0. a \in Nat
    BY DEF WorldOK
  <1>1. /\ proxies' \in Seq(Nat) /\ DOMAIN proxies' = DOMAIN proxies /\ proxies'[p] = a
        /\ \A q \in DOMAIN proxies : q # p => proxies'[q] = proxies[q]
    BY <1>0 DEF WorldOK, IsProxyOf
  <1>2. WorldOK'
    BY <1>1 DEF WorldOK
  <1>3. \A b \in Contracts, q \in DOMAIN proxies : IsProxyOf(b, q) => IsProxyOf(b, q)'
    BY <1>1 DEF IsProxyOf, Code
  <1>4. QED
    BY <1>2, <1>3 DEF Grows

LEMMA GrowsByImport ==
  ASSUME WorldOK, NEW c \in Contracts, imported' = imported \cup {c}, UNCHANGED <<chain, proxies>>
  PROVE  Grows
  BY DEF Grows, WorldOK, IsProxyOf, Code

-----------------------------------------------------------------------------
(* The invariant of a step: what a task becomes, and what it leaves.        *)

LEMMA GrownRegistry ==
  ASSUME RegistryOK, Grows, UNCHANGED registry
  PROVE  RegistryOK'
  <1>1. ManifestOK(registry.metadata)'
    BY GrownManifest DEF RegistryOK
  <1>2. QED
    BY <1>1 DEF RegistryOK, Grows, IsProxyOf

LEMMA GrownDeployments ==
  ASSUME BaseInv, Grows, NEW d \in Deployments
  PROVE  deps[d] \in DeploymentRecords /\ \A m : m = deps[d].metadata => ManifestOK(m)'
  BY GrownManifest DEF BaseInv, DeploymentOK

\* The phase and what was read of the manifest are what changes of a deployment once it began.
LEMMA DeploymentMoves ==
  ASSUME NEW r \in DeploymentRecords, NEW p \in Phases
  PROVE  /\ [r EXCEPT !.phase = p] \in DeploymentRecords
         /\ [r EXCEPT !.phase = p].metadata = r.metadata
         /\ \A m \in Manifests : /\ [r EXCEPT !.phase = p, !.metadata = m] \in DeploymentRecords
                                 /\ [r EXCEPT !.phase = p, !.metadata = m].metadata = m
  BY DEF DeploymentRecords

LEMMA TaskTurns ==
  ASSUME BaseInv, Grows, NEW d \in Deployments, NEW c \in Contracts, NEW x, TaskOK(x, c)', Become(d, c, x),
         deps' \in {deps, [deps EXCEPT ![d].phase = "failed"]},
         ManifestOK(manifest)', RegistryOK', UNCHANGED <<build, linked, latest>>
  PROVE  BaseInv'
  <1>1. /\ tasks \in [Deployments -> [Contracts -> TaskRecords]] /\ x \in TaskRecords
        /\ tasks' = [tasks EXCEPT ![d][c] = x]
    BY DEF BaseInv, TaskOK, Become
  <1>2. /\ tasks' \in [Deployments -> [Contracts -> TaskRecords]] /\ tasks'[d][c] = x
        /\ \A e \in Deployments, b \in Contracts : <<e, b>> = <<d, c>> \/ tasks'[e][b] = tasks[e][b]
    BY <1>1
  <1>3. ASSUME NEW e \in Deployments, NEW b \in Contracts  PROVE TaskOK(tasks[e][b], b)'
    <2>1. CASE <<e, b>> = <<d, c>>
      BY <1>2, <2>1
    <2>2. CASE <<e, b>> # <<d, c>>
      <3>1. PICK t : t = tasks[e][b] /\ t = tasks'[e][b]
        BY <1>2, <2>2
      <3>2. TaskOK(t, b)
        BY <3>1 DEF BaseInv
      <3>3. TaskOK(t, b)'
        BY <3>2, GrownTask
      <3>4. QED
        BY <3>1, <3>3
    <2>3. QED
      BY <2>1, <2>2
  <1>4. deps' \in [Deployments -> DeploymentRecords] /\ \A e \in Deployments : DeploymentOK(deps[e])'
    <2>1. "failed" \in Phases
      BY DEF Phases
    <2>2. deps \in [Deployments -> DeploymentRecords]
      BY DEF BaseInv
    <2>3. ASSUME NEW e \in Deployments
          PROVE  deps'[e] \in DeploymentRecords /\ deps'[e].metadata = deps[e].metadata
      <3>1. deps'[e] \in {deps[e], [deps[e] EXCEPT !.phase = "failed"]}
        BY <2>2
      <3>2. deps[e] \in DeploymentRecords
        BY <2>2
      <3>3. /\ [deps[e] EXCEPT !.phase = "failed"] \in DeploymentRecords
            /\ [deps[e] EXCEPT !.phase = "failed"].metadata = deps[e].metadata
        BY <2>1, <3>2, DeploymentMoves
      <3>4. QED
        BY <3>1, <3>2, <3>3
    <2>4. deps' \in [Deployments -> DeploymentRecords]
      BY <2>2, <2>3
    <2>5. ASSUME NEW e \in Deployments  PROVE DeploymentOK(deps[e])'
      <3>1. PICK m : m = deps[e].metadata /\ m = deps'[e].metadata
        BY <2>3
      <3>2. ManifestOK(m)'
        BY <3>1, GrownDeployments
      <3>3. QED
        BY <3>1, <3>2, <2>3 DEF DeploymentOK
    <2>6. QED
      BY <2>4, <2>5
  <1>5. FilesOK'
    BY DEF BaseInv, FilesOK
  <1>6. QED
    BY <1>2, <1>3, <1>4, <1>5 DEF BaseInv, Grows

LEMMA TrivialTaskOK ==
  ASSUME NEW c \in Contracts, NEW s \in {"idle", "address", "done", "failed"}
  PROVE  TaskOK([IdleTask EXCEPT !.at = s], c)
  <1>1. IdleTask \in TaskRecords /\ s \in Steps
    BY DEF IdleTask, TaskRecords, Manifests, Steps
  <1>2. PICK t : t = [IdleTask EXCEPT !.at = s]
    OBVIOUS
  <1>3. /\ t \in TaskRecords /\ t.at = s /\ t.proxy = 0 /\ t.metadata = None /\ t.seen = {}
    BY <1>1, <1>2 DEF IdleTask, TaskRecords
  <1>4. EntriesOK({}) /\ ManifestOK(None)
    BY DEF EntriesOK, ManifestOK
  <1>5. TaskOK(t, c)
    BY <1>3, <1>4 DEF TaskOK, HasRevision
  <1>6. QED
    BY <1>2, <1>5

\* An exception: caught by the code for a proxy, or the end of the deployment.
LEMMA ThrownTask ==
  ASSUME BaseInv, NEW d \in Deployments, NEW c \in Contracts, Throw(d, c)
  PROVE  \E x : /\ TaskOK(x, c) /\ Become(d, c, x)
                /\ deps' \in {deps, [deps EXCEPT ![d].phase = "failed"]}
                /\ UNCHANGED <<build, linked, latest>>
  <1> DEFINE t == tasks[d][c]
  <1>1. TaskOK(t, c) /\ t \in TaskRecords
    BY DEF BaseInv, TaskOK
  <1>2. CASE Caught(d, c)
    <2> DEFINE a == IF Fresh(d, c) THEN "fetch" ELSE "discard"
               b == IF Fresh(d, c) THEN "unbound" ELSE "imported"
               x == [t EXCEPT !.at = a, !.attempt = b, !.seen = {}]
    <2>1. /\ a \in {"fetch", "discard"} /\ b \in {"unbound", "imported"}
          /\ a = "discard" => t.proxy # 0 /\ t.metadata # None
      BY DEF Fresh
    <2>2. Become(d, c, x) /\ UNCHANGED <<deps, build, linked, latest>>
      BY <1>2 DEF Throw
    <2>3. t.revision \in Revisions
      BY <1>1, <1>2 DEF Caught, TaskOK, HasRevision
    <2> HIDE DEF a, b, t
    <2>4. \A y \in TaskRecords : [y EXCEPT !.at = a, !.attempt = b, !.seen = {}] \in TaskRecords
      BY ZenonT(60), <2>1 DEF TaskRecords, Steps
    <2>5. /\ x \in TaskRecords /\ x.at = a /\ x.seen = {} /\ x.proxy = t.proxy
          /\ x.metadata = t.metadata /\ x.revision = t.revision
      BY <1>1, <2>4 DEF TaskRecords
    <2> HIDE DEF x
    <2>6. TaskOK(x, c)
      <3>1. EntriesOK({})
        BY DEF EntriesOK
      <3>2. QED
        BY <1>1, <2>1, <2>3, <2>5, <3>1 DEF TaskOK
    <2>7. QED
      BY <2>2, <2>6
  <1>3. CASE ~Caught(d, c)
    <2>1. /\ Become(d, c, [IdleTask EXCEPT !.at = "failed"]) /\ UNCHANGED <<build, linked, latest>>
          /\ deps' = [deps EXCEPT ![d].phase = "failed"]
      BY <1>3 DEF Throw
    <2>2. TaskOK([IdleTask EXCEPT !.at = "failed"], c)
      BY TrivialTaskOK
    <2>3. QED
      BY <2>1, <2>2
  <1>4. QED
    BY <1>2, <1>3

LEMMA ThrowKeeps ==
  ASSUME BaseInv, Grows, NEW d \in Deployments, NEW c \in Contracts, Throw(d, c),
         ManifestOK(manifest)', UNCHANGED registry
  PROVE  BaseInv'
  <1>1. PICK x : /\ TaskOK(x, c) /\ Become(d, c, x)
                 /\ deps' \in {deps, [deps EXCEPT ![d].phase = "failed"]}
                 /\ UNCHANGED <<build, linked, latest>>
    BY ThrownTask
  <1>2. TaskOK(x, c)' /\ RegistryOK'
    BY <1>1, GrownTask, GrownRegistry DEF BaseInv
  <1>3. QED
    BY <1>1, <1>2, TaskTurns

\* A task goes on and leaves the manifest, the registry and the chain.
LEMMA TaskGoesOn ==
  ASSUME BaseInv, NEW d \in Deployments, NEW c \in Contracts, NEW x, TaskOK(x, c), Become(d, c, x),
         UNCHANGED <<deps, registry, chain, proxies, imported, build, linked, latest>>, ManifestOK(manifest')
  PROVE  BaseInv'
  <1>1. Grows
    BY GrowsNot DEF BaseInv
  <1>2. PICK m : m = manifest'
    OBVIOUS
  <1>3. ManifestOK(manifest)'
    BY <1>1, <1>2, GrownManifest
  <1>4. TaskOK(x, c)' /\ RegistryOK'
    BY <1>1, GrownTask, GrownRegistry DEF BaseInv
  <1>5. QED
    BY <1>1, <1>3, <1>4, TaskTurns

LEMMA ContentOK ==
  ASSUME BaseInv  PROVE ManifestOK(manifest) /\ EntriesOK(Content) /\ ManifestOK(Content)
  BY DEF BaseInv, FilesOK, Content, ManifestOK, EntriesOK

-----------------------------------------------------------------------------
(* The steps of a task keep the invariant.                                 *)

LEMMA ReadingKeeps ==
  ASSUME BaseInv, NEW d \in Deployments, NEW c \in Contracts,
         GetAddress(d, c) \/ GetMetadata(d, c) \/ RestoreManifest(d, c) \/ Fetch(d, c) \/ DiscardManifest(d, c)
  PROVE  BaseInv'
  <1> DEFINE t == tasks[d][c]
  <1>1. TaskOK(t, c) /\ t \in TaskRecords /\ RegistryOK
    BY DEF BaseInv, TaskOK
  <1>2. CASE GetAddress(d, c)
    <2> DEFINE p == registry.address[c]
               x == [t EXCEPT !.at = "describe", !.proxy = p]
    <2>1. p \in Nat /\ (p # 0 => IsProxyOf(c, p))
      BY <1>1 DEF RegistryOK, RegistryRecords
    <2>2. Become(d, c, x) /\ UNCHANGED <<deps, registry, chain, proxies, imported, build, linked, latest, manifest>>
      BY <1>2 DEF GetAddress, KeepsShared
    <2> HIDE DEF p
    <2>3. /\ x \in TaskRecords /\ x.at = "describe" /\ x.proxy = p /\ x.metadata = t.metadata
          /\ x.seen = t.seen
      <3>1. \A y \in TaskRecords : [y EXCEPT !.at = "describe", !.proxy = p] \in TaskRecords
        BY ZenonT(60), <2>1 DEF TaskRecords, Steps
      <3>2. QED
        BY <1>1, <3>1 DEF TaskRecords
    <2> HIDE DEF x, t
    <2>4. TaskOK(x, c)
      BY <1>1, <2>1, <2>3 DEF TaskOK, HasRevision
    <2>5. QED
      BY <2>2, <2>4, ContentOK, TaskGoesOn
  <1>3. CASE GetMetadata(d, c)
    <2> DEFINE m == registry.metadata
               x == [t EXCEPT !.at = "factory", !.metadata = m]
    <2>1. m \in Manifests /\ ManifestOK(m)
      BY <1>1 DEF RegistryOK, RegistryRecords
    <2>2. Become(d, c, x) /\ UNCHANGED <<deps, registry, chain, proxies, imported, build, linked, latest, manifest>>
      BY <1>3 DEF GetMetadata, KeepsShared
    <2> HIDE DEF m
    <2>3. /\ x \in TaskRecords /\ x.at = "factory" /\ x.proxy = t.proxy /\ x.metadata = m
          /\ x.seen = t.seen
      <3>1. \A y \in TaskRecords : [y EXCEPT !.at = "factory", !.metadata = m] \in TaskRecords
        BY ZenonT(60), <2>1 DEF TaskRecords, Steps
      <3>2. QED
        BY <1>1, <3>1 DEF TaskRecords
    <2> HIDE DEF x, t
    <2>4. TaskOK(x, c)
      BY <1>1, <2>1, <2>3 DEF TaskOK, HasRevision
    <2>5. QED
      BY <2>2, <2>4, ContentOK, TaskGoesOn
  <1>4. CASE RestoreManifest(d, c)
    <2> DEFINE x == [t EXCEPT !.at = "check"]
    <2>1. /\ Become(d, c, x) /\ UNCHANGED <<deps, registry, chain, proxies, imported, build, linked, latest>>
          /\ manifest' = t.metadata /\ t.at = "restore"
      BY <1>4 DEF RestoreManifest, At
    <2>2. /\ x \in TaskRecords /\ x.at = "check" /\ x.proxy = t.proxy /\ x.metadata = t.metadata
          /\ x.seen = t.seen /\ x.revision = t.revision
      BY <1>1 DEF TaskRecords, Steps
    <2> HIDE DEF x, t
    <2>3. TaskOK(x, c) /\ ManifestOK(manifest')
      BY <1>1, <2>1, <2>2 DEF TaskOK, HasRevision
    <2>4. QED
      BY <2>1, <2>3, TaskGoesOn
  <1>5. CASE Fetch(d, c)
    <2> DEFINE m == Content
               x == [t EXCEPT !.at = "store", !.seen = m]
    <2>1. EntriesOK(m) /\ m \in SUBSET Entries /\ ManifestOK(manifest)
      BY ContentOK DEF EntriesOK
    <2>2. /\ Become(d, c, x) /\ t.at = "fetch"
          /\ UNCHANGED <<deps, registry, chain, proxies, imported, build, linked, latest, manifest>>
      BY <1>5 DEF Fetch, At
    <2> HIDE DEF m
    <2>3. /\ x \in TaskRecords /\ x.at = "store" /\ x.proxy = t.proxy /\ x.metadata = t.metadata
          /\ x.seen = m /\ x.revision = t.revision
      <3>1. \A y \in TaskRecords : [y EXCEPT !.at = "store", !.seen = m] \in TaskRecords
        BY ZenonT(60), <2>1 DEF TaskRecords, Steps
      <3>2. QED
        BY <1>1, <3>1 DEF TaskRecords
    <2> HIDE DEF x, t
    <2>4. TaskOK(x, c)
      BY <1>1, <2>1, <2>2, <2>3 DEF TaskOK, HasRevision
    <2>5. QED
      BY <2>1, <2>2, <2>4, TaskGoesOn
  <1>6. CASE DiscardManifest(d, c)
    <2> DEFINE x == [t EXCEPT !.at = "import"]
    <2>1. /\ Become(d, c, x) /\ UNCHANGED <<deps, registry, chain, proxies, imported, build, linked, latest>>
          /\ manifest' = None /\ t.at = "discard"
      BY <1>6 DEF DiscardManifest, At
    <2>2. /\ x \in TaskRecords /\ x.at = "import" /\ x.proxy = t.proxy /\ x.metadata = t.metadata
          /\ x.seen = t.seen /\ x.revision = t.revision
      BY <1>1 DEF TaskRecords, Steps
    <2> HIDE DEF x, t
    <2>3. TaskOK(x, c) /\ ManifestOK(manifest')
      BY <1>1, <2>1, <2>2 DEF TaskOK, HasRevision, ManifestOK
    <2>4. QED
      BY <2>1, <2>3, TaskGoesOn
  <1>7. QED
    BY <1>2, <1>3, <1>4, <1>5, <1>6

LEMMA FactoryKeeps ==
  ASSUME BaseInv, NEW d \in Deployments, NEW c \in Contracts,
         GetFactory(d, c) \/ CheckLayout(d, c) \/ TaskFails(d, c) \/ LockTimeout(d, c)
  PROVE  BaseInv'
  <1> DEFINE t == tasks[d][c]
  <1>1. TaskOK(t, c) /\ t \in TaskRecords /\ RegistryOK
    BY DEF BaseInv, TaskOK
  <1>2. UNCHANGED <<registry, chain, proxies, manifest, imported>>
    BY DEF GetFactory, CheckLayout, TaskFails, LockTimeout, KeepsShared
  <1>3. CASE Throw(d, c)
    <2>1. Grows
      BY <1>2, GrowsNot DEF BaseInv
    <2>2. PICK m : m = manifest /\ m = manifest'
      BY <1>2
    <2>3. ManifestOK(m)'
      BY <2>1, <2>2, ContentOK, GrownManifest
    <2>4. QED
      BY <1>2, <1>3, <2>1, <2>2, <2>3, ThrowKeeps
  <1>4. CASE GetFactory(d, c) /\ ~Throw(d, c)
    <2> DEFINE a == IF Fresh(d, c) THEN "fetch" ELSE "restore"
               r == build[c]
               x == [t EXCEPT !.at = a, !.revision = r]
    <2>1. /\ a \in {"fetch", "restore"} /\ (a = "restore" => t.proxy # 0 /\ t.metadata # None)
          /\ r # None /\ r \in Revisions \cup {None}
      BY <1>4 DEF Fresh, GetFactory, BaseInv, FilesOK
    <2>2. Become(d, c, x) /\ UNCHANGED <<deps, build, linked, latest>>
      BY <1>4 DEF GetFactory, KeepsShared
    <2> HIDE DEF a, r
    <2>3. /\ x \in TaskRecords /\ x.at = a /\ x.proxy = t.proxy /\ x.metadata = t.metadata
          /\ x.seen = t.seen /\ x.revision = r
      <3>1. \A y \in TaskRecords : [y EXCEPT !.at = a, !.revision = r] \in TaskRecords
        BY ZenonT(60), <2>1 DEF TaskRecords, Steps
      <3>2. QED
        BY <1>1, <3>1 DEF TaskRecords
    <2> HIDE DEF x, t
    <2>4. TaskOK(x, c)
      BY <1>1, <2>1, <2>3 DEF TaskOK
    <2>5. QED
      BY <1>2, <2>2, <2>4, ContentOK, TaskGoesOn
  <1>5. CASE CheckLayout(d, c) /\ ~Throw(d, c)
    <2>1. PICK e \in EntryAt(Content, proxies[t.proxy]) :
            Become(d, c, [t EXCEPT !.at = "fetch", !.checked = e.revision])
      BY <1>5 DEF CheckLayout
    <2>2. /\ UNCHANGED <<deps, build, linked, latest>> /\ t.at = "check" /\ e.revision \in Revisions
      BY <1>5, ContentOK DEF CheckLayout, At, EntryAt, EntriesOK, Entries
    <2> DEFINE x == [t EXCEPT !.at = "fetch", !.checked = e.revision]
    <2>3. /\ x \in TaskRecords /\ x.at = "fetch" /\ x.proxy = t.proxy /\ x.metadata = t.metadata
          /\ x.seen = t.seen /\ x.revision = t.revision
      <3>1. \A y \in TaskRecords : [y EXCEPT !.at = "fetch", !.checked = e.revision] \in TaskRecords
        BY ZenonT(60), <2>2 DEF TaskRecords, Steps
      <3>2. QED
        BY <1>1, <3>1 DEF TaskRecords
    <2>4. Become(d, c, x)
      BY <2>1
    <2> HIDE DEF x, t
    <2>5. TaskOK(x, c)
      BY <1>1, <2>2, <2>3 DEF TaskOK, HasRevision
    <2>6. QED
      BY <1>2, <2>2, <2>4, <2>5, ContentOK, TaskGoesOn
  <1>6. QED
    BY <1>3, <1>4, <1>5 DEF TaskFails, LockTimeout

\* fetchOrDeploy gives back the lock, with the address a that it found or deployed.
LEMMA ReleaseKeeps ==
  ASSUME BaseInv, Grows, NEW d \in Deployments, NEW c \in Contracts, tasks[d][c].at = "store",
         NEW a, NEW r, r = tasks[d][c].revision, IsCodeOf(c, r, a)',
         ManifestOK(manifest)', UNCHANGED registry,
         \/ /\ Become(d, c, [tasks[d][c] EXCEPT !.at = "validate", !.seen = {}, !.impl = a])
            /\ UNCHANGED <<deps, build, linked, latest>>
         \/ Throw(d, c)
  PROVE  BaseInv'
  <1>1. CASE Throw(d, c)
    BY <1>1, ThrowKeeps
  <1>2. CASE /\ Become(d, c, [tasks[d][c] EXCEPT !.at = "validate", !.seen = {}, !.impl = a])
             /\ UNCHANGED <<deps, build, linked, latest>>
    <2> DEFINE t == tasks[d][c]
    <2>1. TaskOK(t, c) /\ t \in TaskRecords
      BY DEF BaseInv, TaskOK
    <2>2. a \in Nat
      <3>1. a \in DOMAIN chain' /\ chain' \in Seq(Impls)
        BY DEF IsCodeOf, Grows, WorldOK
      <3>2. QED
        BY <3>1
    <2>3. PICK x : x = [t EXCEPT !.at = "validate", !.seen = {}, !.impl = a]
      OBVIOUS
    <2>4. /\ x \in TaskRecords /\ x.at = "validate" /\ x.proxy = t.proxy /\ x.metadata = t.metadata
          /\ x.seen = {} /\ x.revision = t.revision /\ x.impl = a
      <3>1. \A y \in TaskRecords : [y EXCEPT !.at = "validate", !.seen = {}, !.impl = a] \in TaskRecords
        BY ZenonT(60), <2>2 DEF TaskRecords, Steps
      <3>2. QED
        BY <2>1, <2>3, <3>1 DEF TaskRecords
    <2>5. Become(d, c, x) /\ r = t.revision
      BY <1>2, <2>3
    <2> HIDE DEF t
    <2>6. PICK z : z = t
      OBVIOUS
    <2>7. TaskOK(z, c)' /\ z.at = "store"
      BY <2>1, <2>6, GrownTask DEF t
    <2>8. TaskOK(x, c)'
      <3>1. EntriesOK({})'
        BY DEF EntriesOK
      <3>2. ManifestOK(x.metadata)' /\ (x.proxy # 0 => IsProxyOf(c, x.proxy)') /\ x.revision \in Revisions
        BY <2>4, <2>6, <2>7 DEF TaskOK, HasRevision
      <3>3. IsCodeOf(c, x.revision, x.impl)'
        BY <2>4, <2>5
      <3>4. QED
        BY <2>4, <3>1, <3>2, <3>3 DEF TaskOK
    <2>9. RegistryOK'
      BY GrownRegistry DEF BaseInv
    <2>10. QED
      BY <1>2, <2>5, <2>8, <2>9, TaskTurns
  <1>3. QED
    BY <1>1, <1>2

LEMMA StoreKeeps ==
  ASSUME BaseInv, NEW d \in Deployments, NEW c \in Contracts, Store(d, c)
  PROVE  BaseInv'
  <1> DEFINE t == tasks[d][c]
             known == EntryOf(t.seen, c, t.revision)
  <1>1. TaskOK(t, c) /\ t \in TaskRecords /\ t.at = "store" /\ WorldOK
    BY DEF BaseInv, TaskOK, Store, At
  <1>2. t.revision \in Revisions /\ EntriesOK(t.seen)
    BY <1>1 DEF TaskOK, HasRevision
  <1>3. PICK r : r = t.revision
    OBVIOUS
  <1>4. UNCHANGED <<registry, proxies, imported>>
    BY DEF Store
  <1>5. ASSUME NEW e \in known, UNCHANGED <<chain, manifest>>,
               \/ /\ Become(d, c, [t EXCEPT !.at = "validate", !.seen = {}, !.impl = e.address])
                  /\ UNCHANGED <<deps, build, linked, latest>>
               \/ Throw(d, c)
        PROVE  BaseInv'
    <2>1. Grows
      BY <1>1, <1>4, <1>5, GrowsNot
    <2>2. PICK a : a = e.address
      OBVIOUS
    <2>3. IsCodeOf(c, r, a)
      BY <1>2, <1>3, <1>5, <2>2 DEF EntryOf, EntriesOK
    <2>4. IsCodeOf(c, r, a)'
      BY <2>1, <2>3, GrownCode
    <2>5. ManifestOK(manifest)'
      <3>1. PICK m : m = manifest /\ m = manifest'
        BY <1>5
      <3>2. QED
        BY <2>1, <3>1, ContentOK, GrownManifest
    <2>6. QED
      BY <1>1, <1>3, <1>4, <1>5, <2>1, <2>2, <2>4, <2>5, ReleaseKeeps
  <1>6. ASSUME NEW live \in BOOLEAN,
               chain' = Append(chain, [contract |-> c, live |-> live, revision |-> t.revision]),
               manifest' = t.seen \cup {[contract |-> c, revision |-> t.revision,
                                         address |-> Len(chain'), all |-> {Len(chain')}]},
               \/ /\ Become(d, c, [t EXCEPT !.at = "validate", !.seen = {}, !.impl = Len(chain')])
                  /\ UNCHANGED <<deps, build, linked, latest>>
               \/ Throw(d, c)
        PROVE  BaseInv'
    <2>1. PICK i \in Impls : i = [contract |-> c, live |-> live, revision |-> t.revision]
      BY <1>2 DEF Impls
    <2>2. PICK a : a = Len(chain')
      OBVIOUS
    <2>3. Grows /\ a \in DOMAIN chain' /\ chain'[a] = i /\ a \in Nat
      BY <1>1, <1>4, <1>6, <2>1, <2>2, GrowsByImpl
    <2>4. i.contract = c /\ i.revision = r
      BY <1>3, <2>1
    <2>5. IsCodeOf(c, r, a)'
      BY <2>3, <2>4 DEF IsCodeOf, Code
    <2>6. ManifestOK(manifest)'
      <3>1. PICK s : s = t.seen
        OBVIOUS
      <3>2. EntriesOK(s)'
        BY <1>2, <2>3, <3>1, GrownEntries
      <3>3. PICK n : n = [contract |-> c, revision |-> r, address |-> a, all |-> {a}]
        OBVIOUS
      <3>4. n \in Entries /\ n.contract = c /\ n.revision = r /\ n.address = a /\ n.all = {a}
        BY <1>2, <1>3, <2>3, <3>3 DEF Entries
      <3>5. manifest' = s \cup {n}
        BY <1>3, <1>6, <2>2, <3>1, <3>3
      <3>6. EntriesOK(manifest)'
        BY <2>5, <3>2, <3>4, <3>5 DEF EntriesOK
      <3>7. QED
        BY <3>6 DEF ManifestOK
    <2>7. QED
      BY <1>1, <1>3, <1>4, <1>6, <2>2, <2>3, <2>5, <2>6, ReleaseKeeps
  <1>7. QED
    BY <1>5, <1>6 DEF Store

LEMMA ValidateKeeps ==
  ASSUME BaseInv, NEW d \in Deployments, NEW c \in Contracts, Validate(d, c)
  PROVE  BaseInv'
  <1> DEFINE t == tasks[d][c]
  <1>1. TaskOK(t, c) /\ t \in TaskRecords /\ t.at = "validate" /\ WorldOK
    BY DEF BaseInv, TaskOK, Validate, At
  <1>2. UNCHANGED <<registry, chain, proxies, imported>>
    BY DEF Validate
  <1>3. CASE Code(t.impl).live
    <2> DEFINE x == [t EXCEPT !.at = "point"]
    <2>1. Become(d, c, x) /\ UNCHANGED <<deps, manifest, build, linked, latest>>
      BY <1>3 DEF Validate
    <2>2. /\ x \in TaskRecords /\ x.at = "point" /\ x.proxy = t.proxy /\ x.metadata = t.metadata
          /\ x.seen = t.seen /\ x.revision = t.revision /\ x.impl = t.impl
      BY <1>1 DEF TaskRecords, Steps
    <2> HIDE DEF x, t
    <2>3. TaskOK(x, c)
      BY <1>1, <1>3, <2>2 DEF TaskOK, HasRevision
    <2>4. QED
      BY <1>2, <2>1, <2>3, ContentOK, TaskGoesOn
  <1>4. CASE ~Code(t.impl).live
    <2>1. /\ Throw(d, c)
          /\ manifest' = IF manifest = None THEN None
                         ELSE {e \in manifest : ~(e.contract = c /\ e.address = t.impl)}
      BY <1>4 DEF Validate
    <2>2. Grows
      BY <1>1, <1>2, GrowsNot
    <2>3. PICK m : m = manifest'
      OBVIOUS
    <2>4. ManifestOK(m)
      BY <2>1, <2>3, ContentOK DEF ManifestOK, EntriesOK
    <2>5. ManifestOK(manifest)'
      BY <2>2, <2>3, <2>4, GrownManifest
    <2>6. QED
      BY <1>2, <2>1, <2>2, <2>5, ThrowKeeps
  <1>5. QED
    BY <1>3, <1>4

LEMMA UpgradeKeeps ==
  ASSUME BaseInv, NEW d \in Deployments, NEW c \in Contracts, UpgradeTo(d, c)
  PROVE  BaseInv'
  <1>1. PICK t : t = tasks[d][c]
    OBVIOUS
  <1>2. TaskOK(t, c) /\ t \in TaskRecords /\ t.at = "point" /\ t.proxy # 0 /\ WorldOK
    BY <1>1 DEF BaseInv, TaskOK, UpgradeTo, At, Fresh
  <1>3. IsProxyOf(c, t.proxy) /\ t.impl \in DOMAIN chain /\ Code(t.impl).contract = c
    BY <1>2 DEF TaskOK, IsCodeOf
  <1>4. PICK x : x = [t EXCEPT !.at = "publish"]
    OBVIOUS
  <1>5. /\ Become(d, c, x) /\ proxies' = [proxies EXCEPT ![t.proxy] = t.impl]
        /\ UNCHANGED <<deps, registry, chain, imported, build, linked, latest, manifest>>
    BY <1>1, <1>4 DEF UpgradeTo
  <1>6. Grows
    BY <1>2, <1>3, <1>5, GrowsByUpgrade
  <1>7. /\ x \in TaskRecords /\ x.at = "publish" /\ x.proxy = t.proxy /\ x.metadata = t.metadata
        /\ x.seen = t.seen /\ x.revision = t.revision
    BY <1>2, <1>4 DEF TaskRecords, Steps
  <1>8. TaskOK(x, c)
    BY <1>2, <1>7 DEF TaskOK, HasRevision
  <1>9. TaskOK(x, c)' /\ RegistryOK'
    BY <1>5, <1>6, <1>8, GrownTask, GrownRegistry DEF BaseInv
  <1>10. ManifestOK(manifest)'
    <2>1. PICK m : m = manifest /\ m = manifest'
      BY <1>5
    <2>2. QED
      BY <1>6, <2>1, ContentOK, GrownManifest
  <1>11. QED
    BY <1>5, <1>6, <1>9, <1>10, TaskTurns

LEMMA DeployProxyKeeps ==
  ASSUME BaseInv, NEW d \in Deployments, NEW c \in Contracts, DeployProxy(d, c)
  PROVE  BaseInv'
  <1>1. PICK t : t = tasks[d][c]
    OBVIOUS
  <1>2. TaskOK(t, c) /\ t \in TaskRecords /\ t.at = "point" /\ WorldOK
    BY <1>1 DEF BaseInv, TaskOK, DeployProxy, At
  <1>3. t.impl \in DOMAIN chain /\ Code(t.impl).contract = c /\ t.revision \in Revisions
    BY <1>2 DEF TaskOK, IsCodeOf, HasRevision
  <1>4. proxies' = Append(proxies, t.impl) /\ UNCHANGED <<chain, imported, registry>>
    BY <1>1 DEF DeployProxy
  <1>5. PICK n : n = Len(proxies')
    OBVIOUS
  <1>6. Grows /\ n \in DOMAIN proxies' /\ proxies'[n] = t.impl /\ n \in Nat \ {0}
    BY <1>2, <1>3, <1>4, <1>5, GrowsByProxy
  <1>7. IsProxyOf(c, n)'
    BY <1>3, <1>4, <1>6 DEF IsProxyOf, Code
  <1>8. CASE /\ manifest' = Content
             /\ Become(d, c, [t EXCEPT !.at = "publish", !.proxy = Len(proxies')])
             /\ UNCHANGED <<deps, lock, build, linked, failures, latest>>
    <2>1. PICK x : x = [t EXCEPT !.at = "publish", !.proxy = n]
      OBVIOUS
    <2>2. Become(d, c, x)
      BY <1>5, <1>8, <2>1
    <2>3. /\ x \in TaskRecords /\ x.at = "publish" /\ x.proxy = n /\ x.metadata = t.metadata
          /\ x.seen = t.seen /\ x.revision = t.revision
      <3>1. \A y \in TaskRecords : [y EXCEPT !.at = "publish", !.proxy = n] \in TaskRecords
        BY ZenonT(60), <1>6 DEF TaskRecords, Steps
      <3>2. QED
        BY <1>2, <2>1, <3>1 DEF TaskRecords
    <2>4. TaskOK(t, c)' /\ RegistryOK'
      BY <1>2, <1>4, <1>6, GrownTask, GrownRegistry DEF BaseInv
    <2>5. TaskOK(x, c)'
      BY <1>3, <1>6, <1>7, <2>3, <2>4 DEF TaskOK, HasRevision
    <2>6. ManifestOK(manifest)'
      <3>1. PICK m : m = Content /\ m = manifest'
        BY <1>8
      <3>2. QED
        BY <1>6, <3>1, ContentOK, GrownManifest
    <2>7. QED
      BY <1>6, <1>8, <2>2, <2>4, <2>5, <2>6, TaskTurns
  <1>9. CASE Throw(d, c) /\ UNCHANGED manifest
    <2>1. PICK m : m = manifest /\ m = manifest'
      BY <1>9
    <2>2. ManifestOK(manifest)'
      BY <1>6, <2>1, ContentOK, GrownManifest
    <2>3. QED
      BY <1>4, <1>6, <1>9, <2>2, ThrowKeeps
  <1>10. QED
    BY <1>1, <1>8, <1>9 DEF DeployProxy

LEMMA ImportKeeps ==
  ASSUME BaseInv, NEW d \in Deployments, NEW c \in Contracts, ForceImport(d, c)
  PROVE  BaseInv'
  <1>1. PICK t : t = tasks[d][c]
    OBVIOUS
  <1>2. TaskOK(t, c) /\ t \in TaskRecords /\ t.at = "import" /\ t.proxy # 0 /\ WorldOK
    BY <1>1 DEF BaseInv, TaskOK, ForceImport, At
  <1>3. IsProxyOf(c, t.proxy) /\ t.revision \in Revisions
    BY <1>2 DEF TaskOK, HasRevision
  <1>4. PICK a : a = proxies[t.proxy]
    OBVIOUS
  <1>5. a \in Nat /\ a \in DOMAIN chain /\ Code(a).contract = c
    BY <1>2, <1>3, <1>4 DEF IsProxyOf, WorldOK
  <1>6. UNCHANGED <<registry, chain, proxies>>
    BY DEF ForceImport
  <1>7. CASE Throw(d, c) /\ UNCHANGED <<manifest, imported>>
    <2>1. Grows
      BY <1>2, <1>6, <1>7, GrowsNot
    <2>2. PICK m : m = manifest /\ m = manifest'
      BY <1>7
    <2>3. ManifestOK(manifest)'
      BY <2>1, <2>2, ContentOK, GrownManifest
    <2>4. QED
      BY <1>6, <1>7, <2>1, <2>3, ThrowKeeps
  <1> DEFINE known == EntryOf(Content, c, t.revision)
             merged == IF known = {}
                       THEN {[contract |-> c, revision |-> t.revision, address |-> a, all |-> {a}]}
                       ELSE {[e EXCEPT !.all = @ \cup {a}] : e \in known}
  <1>8. CASE /\ manifest' = (Content \ known) \cup merged
             /\ imported' = imported \cup {c}
             /\ Become(d, c, [t EXCEPT !.at = "check"])
             /\ UNCHANGED <<deps, lock, build, linked, latest>>
    <2>1. Grows /\ c \in imported'
      BY <1>2, <1>6, <1>8, GrowsByImport
    <2>2. IsCodeOf(c, t.revision, a)'
      BY <1>5, <1>6, <2>1 DEF IsCodeOf, Code
    <2>3. PICK old : old = Content \ known
      OBVIOUS
    <2>4. EntriesOK(old)'
      <3>1. EntriesOK(old)
        BY <2>3, ContentOK DEF EntriesOK
      <3>2. QED
        BY <2>1, <3>1, GrownEntries
    <2>5. PICK k : k = known
      OBVIOUS
    <2>6. k \subseteq Entries /\ \A e \in k : e.contract = c /\ e.revision = t.revision
      BY <2>5, ContentOK DEF EntryOf, EntriesOK
    <2>7. EntriesOK(k)'
      <3>1. EntriesOK(k)
        BY <2>5, ContentOK DEF EntriesOK, EntryOf
      <3>2. QED
        BY <2>1, <3>1, GrownEntries
    <2>8. PICK new : new = merged
      OBVIOUS
    <2>9. EntriesOK(new)'
      <3>1. CASE k = {}
        <4>1. PICK n : n = [contract |-> c, revision |-> t.revision, address |-> a, all |-> {a}]
          OBVIOUS
        <4>2. new = {n} /\ n \in Entries /\ n.contract = c /\ n.revision = t.revision
              /\ n.address = a /\ n.all = {a}
          BY <1>3, <1>5, <2>5, <2>8, <3>1, <4>1 DEF Entries
        <4>3. QED
          BY <2>2, <4>2 DEF EntriesOK
      <3>2. CASE k # {}
        <4>1. ASSUME NEW n \in new
              PROVE  n \in Entries /\ \A b \in {n.address} \cup n.all : IsCodeOf(n.contract, n.revision, b)'
          <5>1. PICK e \in k : n = [e EXCEPT !.all = @ \cup {a}]
            BY <2>5, <2>8, <3>2
          <5>2. /\ n \in Entries /\ n.contract = c /\ n.revision = t.revision /\ n.address = e.address
                /\ n.all = e.all \cup {a}
            BY <1>5, <2>6, <5>1 DEF Entries
          <5>3. \A b \in {e.address} \cup e.all : IsCodeOf(e.contract, e.revision, b)'
            BY <2>7 DEF EntriesOK
          <5>4. QED
            BY <2>2, <2>6, <5>2, <5>3
        <4>2. QED
          BY <4>1 DEF EntriesOK
      <3>3. QED
        BY <3>1, <3>2
    <2>10. ManifestOK(manifest)'
      <3>1. manifest' = old \cup new
        BY <1>8, <2>3, <2>8
      <3>2. EntriesOK(manifest)'
        BY <2>4, <2>9, <3>1 DEF EntriesOK
      <3>3. QED
        BY <3>2 DEF ManifestOK
    <2>11. PICK x : x = [t EXCEPT !.at = "check"]
      OBVIOUS
    <2>12. /\ x \in TaskRecords /\ x.at = "check" /\ x.proxy = t.proxy /\ x.metadata = t.metadata
           /\ x.seen = t.seen /\ x.revision = t.revision
      BY <1>2, <2>11 DEF TaskRecords, Steps
    <2>13. TaskOK(x, c)
      BY <1>2, <2>12 DEF TaskOK, HasRevision
    <2>14. TaskOK(x, c)' /\ RegistryOK'
      BY <1>6, <2>1, <2>13, GrownTask, GrownRegistry DEF BaseInv
    <2>15. Become(d, c, x)
      BY <1>8, <2>11
    <2>16. QED
      BY <1>8, <2>1, <2>10, <2>14, <2>15, TaskTurns
  <1>9. QED
    BY <1>1, <1>4, <1>7, <1>8 DEF ForceImport

-----------------------------------------------------------------------------
(* The steps of a deployment: code, proxies and imports stay.              *)

LEMMA SameWorldKeeps ==
  ASSUME BaseInv, UNCHANGED <<chain, proxies, imported>>,
         deps' = [e \in Deployments |-> deps'[e]], \A e \in Deployments : DeploymentOK(deps'[e]),
         tasks' = [e \in Deployments |-> [b \in Contracts |-> tasks'[e][b]]],
         \A e \in Deployments, b \in Contracts : TaskOK(tasks'[e][b], b),
         registry' \in RegistryRecords, ManifestOK(registry'.metadata),
         \A b \in Contracts : registry'.address[b] # 0 => IsProxyOf(b, registry'.address[b]),
         ManifestOK(manifest'), build' \in [Contracts -> Revisions \cup {None}],
         linked' \in Sources \cup {None}, latest' \in Keepers
  PROVE  BaseInv'
  <1>1. Grows
    BY GrowsNot DEF BaseInv
  <1>2. \A e \in Deployments : DeploymentOK(deps[e])'
    <2>1. TAKE e \in Deployments
    <2>2. PICK r : r = deps'[e]
      OBVIOUS
    <2>3. PICK m : m = r.metadata
      OBVIOUS
    <2>4. DeploymentOK(r) /\ ManifestOK(m)'
      BY <1>1, <2>2, <2>3, GrownManifest DEF DeploymentOK
    <2>5. QED
      BY <2>2, <2>3, <2>4 DEF DeploymentOK
  <1>3. \A e \in Deployments, b \in Contracts : TaskOK(tasks[e][b], b)'
    <2>1. TAKE e \in Deployments, b \in Contracts
    <2>2. PICK t : t = tasks'[e][b]
      OBVIOUS
    <2>3. TaskOK(t, b)'
      BY <1>1, <2>2, GrownTask
    <2>4. QED
      BY <2>2, <2>3
  <1>4. /\ deps' \in [Deployments -> DeploymentRecords]
        /\ tasks' \in [Deployments -> [Contracts -> TaskRecords]]
    BY DEF DeploymentOK, TaskOK
  <1>5. FilesOK'
    <2>1. PICK m : m = manifest'
      OBVIOUS
    <2>2. ManifestOK(m)'
      BY <1>1, <2>1, GrownManifest
    <2>3. QED
      BY <2>1, <2>2 DEF FilesOK
  <1>6. RegistryOK'
    <2>1. PICK m : m = registry'.metadata
      OBVIOUS
    <2>2. ManifestOK(m)'
      BY <1>1, <2>1, GrownManifest
    <2>3. \A b \in Contracts : registry'.address[b] # 0 => IsProxyOf(b, registry.address[b])'
      BY DEF IsProxyOf, Code
    <2>4. QED
      BY <2>1, <2>2, <2>3 DEF RegistryOK
  <1>7. QED
    BY <1>1, <1>2, <1>3, <1>4, <1>5, <1>6 DEF BaseInv, Grows

\* What SameWorldKeeps needs to know of a part that a step leaves.
LEMMA PartsOK ==
  ASSUME BaseInv
  PROVE  /\ deps = [e \in Deployments |-> deps[e]] /\ \A e \in Deployments : DeploymentOK(deps[e])
         /\ tasks = [e \in Deployments |-> [b \in Contracts |-> tasks[e][b]]]
         /\ \A e \in Deployments, b \in Contracts : TaskOK(tasks[e][b], b)
         /\ registry \in RegistryRecords /\ ManifestOK(registry.metadata)
         /\ \A b \in Contracts : registry.address[b] # 0 => IsProxyOf(b, registry.address[b])
         /\ ManifestOK(manifest) /\ build \in [Contracts -> Revisions \cup {None}]
         /\ linked \in Sources \cup {None} /\ latest \in Keepers
  BY DEF BaseInv, RegistryOK, FilesOK

LEMMA PublishKeeps ==
  ASSUME BaseInv, NEW d \in Deployments, NEW c \in Contracts, PutAddress(d, c) \/ PutAbi(d, c)
  PROVE  BaseInv'
  <1>1. PICK t : t = tasks[d][c]
    OBVIOUS
  <1>2. TaskOK(t, c) /\ t \in TaskRecords
    BY <1>1 DEF BaseInv, TaskOK
  <1>3. UNCHANGED <<chain, proxies, manifest, imported>>
    BY DEF PutAddress, PutAbi
  <1>4. Grows
    BY <1>3, GrowsNot DEF BaseInv
  <1>5. ManifestOK(manifest)'
    <2>1. PICK m : m = manifest /\ m = manifest'
      BY <1>3
    <2>2. QED
      BY <1>4, <2>1, ContentOK, GrownManifest
  <1>6. CASE Throw(d, c) /\ UNCHANGED registry
    BY <1>4, <1>5, <1>6, ThrowKeeps
  <1>7. CASE /\ PutAddress(d, c) /\ build[c] # None
    <2>1. PICK r : r = build[c]
      OBVIOUS
    <2>2. r \in Revisions /\ t.at = "publish"
      BY <1>1, <1>7, <2>1 DEF BaseInv, FilesOK, PutAddress, At
    <2>3. PICK x : x = [t EXCEPT !.at = "abi", !.revision = r]
      OBVIOUS
    <2>4. /\ x \in TaskRecords /\ x.at = "abi" /\ x.proxy = t.proxy /\ x.metadata = t.metadata
          /\ x.seen = t.seen /\ x.revision = r
      <3>1. \A y \in TaskRecords : [y EXCEPT !.at = "abi", !.revision = r] \in TaskRecords
        BY ZenonT(60), <2>2 DEF TaskRecords, Steps
      <3>2. QED
        BY <1>2, <2>3, <3>1 DEF TaskRecords
    <2>5. TaskOK(x, c)
      BY <1>2, <2>2, <2>4 DEF TaskOK, HasRevision
    <2>6. /\ Become(d, c, x) /\ registry' = [registry EXCEPT !.address[c] = t.proxy]
          /\ UNCHANGED <<deps, build, linked, latest>>
      BY <1>1, <1>7, <2>1, <2>3 DEF PutAddress
    <2>7. TaskOK(x, c)'
      BY <1>4, <2>5, GrownTask
    <2>8. RegistryOK'
      <3>1. /\ registry' \in RegistryRecords /\ registry'.metadata = registry.metadata
            /\ registry'.address[c] = t.proxy
            /\ \A b \in Contracts : b # c => registry'.address[b] = registry.address[b]
        <4>1. t.proxy \in Nat /\ registry \in RegistryRecords
          BY <1>2 DEF TaskRecords, BaseInv, RegistryOK
        <4>2. \A y \in RegistryRecords : [y EXCEPT !.address[c] = t.proxy] \in RegistryRecords
          BY ZenonT(60), <4>1 DEF RegistryRecords
        <4>3. QED
          BY <2>6, <4>1, <4>2 DEF RegistryRecords
      <3>2. PICK m : m = registry.metadata /\ m = registry'.metadata
        BY <3>1
      <3>3. ManifestOK(m)'
        BY <1>4, <3>2, GrownManifest DEF BaseInv, RegistryOK
      <3>4. \A b \in Contracts : registry'.address[b] # 0 => IsProxyOf(b, registry.address[b])'
        <4>1. TAKE b \in Contracts
        <4>2. registry'.address[b] # 0 => IsProxyOf(b, registry'.address[b])
          BY <1>2, <3>1 DEF TaskOK, BaseInv, RegistryOK
        <4>3. QED
          BY <1>3, <4>2 DEF IsProxyOf, Code
      <3>5. QED
        BY <3>1, <3>2, <3>3, <3>4 DEF RegistryOK
    <2>9. QED
      BY <1>4, <1>5, <2>6, <2>7, <2>8, TaskTurns
  <1>8. CASE PutAbi(d, c)
    <2>1. /\ registry' = [registry EXCEPT !.abi[c] = [by |-> d, revision |-> t.revision]]
          /\ tasks' = [tasks EXCEPT ![d] = [o \in Contracts |->
               CASE o = c -> [IdleTask EXCEPT !.at = "done"]
                 [] o = c + 1 /\ deps[d].mode = "site" -> [IdleTask EXCEPT !.at = "address"]
                 [] OTHER -> tasks[d][o]]]
          /\ UNCHANGED <<deps, build, linked, latest>>
      BY <1>1, <1>8 DEF PutAbi
    <2>2. /\ registry' \in RegistryRecords /\ registry'.metadata = registry.metadata
          /\ registry'.address = registry.address
      <3>1. PICK v : v = [by |-> d, revision |-> t.revision]
        OBVIOUS
      <3>2. v \in [by : Keepers, revision : Revisions \cup {None}]
        BY <1>2, <3>1 DEF TaskRecords, Keepers
      <3>3. \A y \in RegistryRecords : [y EXCEPT !.abi[c] = v] \in RegistryRecords
        BY ZenonT(60), <3>2 DEF RegistryRecords
      <3>4. QED
        BY <2>1, <3>1, <3>3, PartsOK DEF RegistryRecords
    <2>3. tasks \in [Deployments -> [Contracts -> TaskRecords]]
      BY DEF BaseInv
    <2>4. tasks' = [e \in Deployments |-> [b \in Contracts |-> tasks'[e][b]]]
      <3>1. PICK f : f = [o \in Contracts |->
               CASE o = c -> [IdleTask EXCEPT !.at = "done"]
                 [] o = c + 1 /\ deps[d].mode = "site" -> [IdleTask EXCEPT !.at = "address"]
                 [] OTHER -> tasks[d][o]]
        OBVIOUS
      <3>2. f = [b \in Contracts |-> f[b]] /\ tasks' = [tasks EXCEPT ![d] = f]
        BY <2>1, <3>1
      <3>3. \A e \in Deployments : tasks'[e] = [b \in Contracts |-> tasks'[e][b]]
        BY <2>3, <3>2
      <3>4. tasks' = [e \in Deployments |-> tasks'[e]]
        BY <2>3, <3>2
      <3>5. QED
        BY <3>3, <3>4
    <2>5. \A e \in Deployments, b \in Contracts : TaskOK(tasks'[e][b], b)
      <3>1. TAKE e \in Deployments, b \in Contracts
      <3>2. \/ tasks'[e][b] = tasks[e][b] \/ tasks'[e][b] = [IdleTask EXCEPT !.at = "done"]
            \/ tasks'[e][b] = [IdleTask EXCEPT !.at = "address"]
        <4>1. CASE e = d
          <5>1. tasks'[d][b] = CASE b = c -> [IdleTask EXCEPT !.at = "done"]
                  [] b = c + 1 /\ deps[d].mode = "site" -> [IdleTask EXCEPT !.at = "address"]
                  [] OTHER -> tasks[d][b]
            BY <2>1, <2>3
          <5>2. CASE b = c
            BY <4>1, <5>1, <5>2 DEF Contracts
          <5>3. CASE b # c
            BY <4>1, <5>1, <5>3
          <5>4. QED
            BY <5>2, <5>3
        <4>2. CASE e # d
          BY <2>1, <2>3, <4>2
        <4>3. QED
          BY <4>1, <4>2
      <3>3. QED
        BY <3>2, TrivialTaskOK, PartsOK
    <2>6. QED
      BY <1>3, <2>1, <2>2, <2>4, <2>5, PartsOK, SameWorldKeeps
  <1>9. QED
    BY <1>6, <1>7, <1>8 DEF PutAddress

LEMMA MovesOK ==
  ASSUME BaseInv, NEW d \in Deployments, NEW p \in Phases, NEW m, ManifestOK(m),
         deps' \in {[deps EXCEPT ![d].phase = p], [deps EXCEPT ![d].phase = p, ![d].metadata = m]}
  PROVE  /\ deps' = [e \in Deployments |-> deps'[e]] /\ \A e \in Deployments : DeploymentOK(deps'[e])
  <1>1. deps \in [Deployments -> DeploymentRecords] /\ m \in Manifests
    BY DEF BaseInv, ManifestOK, EntriesOK, Manifests
  <1>2. deps' = [e \in Deployments |-> deps'[e]]
    BY <1>1
  <1>3. ASSUME NEW e \in Deployments  PROVE DeploymentOK(deps'[e])
    <2>1. PICK r : r = deps[e]
      OBVIOUS
    <2>2. r \in DeploymentRecords /\ DeploymentOK(r)
      BY <1>1, <2>1 DEF BaseInv
    <2>3. deps'[e] \in {r, [r EXCEPT !.phase = p], [r EXCEPT !.phase = p, !.metadata = m]}
      BY <1>1, <2>1
    <2>4. DeploymentOK([r EXCEPT !.phase = p]) /\ DeploymentOK([r EXCEPT !.phase = p, !.metadata = m])
      <3>1. /\ [r EXCEPT !.phase = p] \in DeploymentRecords
            /\ [r EXCEPT !.phase = p].metadata = r.metadata
            /\ [r EXCEPT !.phase = p, !.metadata = m] \in DeploymentRecords
            /\ [r EXCEPT !.phase = p, !.metadata = m].metadata = m
        <4>1. /\ [r EXCEPT !.phase = p] \in DeploymentRecords
              /\ [r EXCEPT !.phase = p].metadata = r.metadata
          BY <2>2, DeploymentMoves
        <4>2. /\ [r EXCEPT !.phase = p, !.metadata = m] \in DeploymentRecords
              /\ [r EXCEPT !.phase = p, !.metadata = m].metadata = m
          BY <1>1, <2>2 DEF DeploymentRecords
        <4>3. QED
          BY <4>1, <4>2
      <3>2. QED
        BY <2>2, <3>1 DEF DeploymentOK
    <2>5. QED
      BY <2>2, <2>3, <2>4
  <1>4. QED
    BY <1>2, <1>3

LEMMA SettingUpKeeps ==
  ASSUME BaseInv, NEW d \in Deployments, Start(d) \/ LinkSources(d) \/ Compile(d)
  PROVE  BaseInv'
  <1>1. deps \in [Deployments -> DeploymentRecords]
    BY DEF BaseInv
  <1>2. CASE Start(d)
    <2>1. PICK mode \in Modes, force \in BOOLEAN, source \in [Contracts -> Revisions] \cup {None} :
            /\ source = None => mode = "site" /\ ~force
            /\ deps' = [e \in Deployments |->
                 CASE e = d ->
                      [IdleDeployment EXCEPT
                         !.phase = IF source = None THEN "root" ELSE "linking",
                         !.mode = mode, !.force = force, !.source = source,
                         !.alone = \A o \in Deployments : ~Busy(o)]
                   [] e # d /\ Busy(e) -> [deps[e] EXCEPT !.alone = FALSE]
                   [] OTHER -> [IdleDeployment EXCEPT !.phase = deps[e].phase]]
      BY <1>2 DEF Start
    <2>2. IdleDeployment \in DeploymentRecords /\ DeploymentOK(IdleDeployment)
      BY DEF IdleDeployment, DeploymentRecords, DeploymentOK, ManifestOK, Phases, Manifests
    <2>3. ASSUME NEW e \in Deployments  PROVE DeploymentOK(deps'[e])
      <3>1. CASE e = d
        <4>1. PICK a \in BOOLEAN : a = (\A o \in Deployments : ~Busy(o))
          OBVIOUS
        <4>2. PICK p : p = IF source = None THEN "root" ELSE "linking"
          OBVIOUS
        <4>3. p \in Phases
          BY <4>2 DEF Phases
        <4>4. PICK r : r = [IdleDeployment EXCEPT !.phase = p, !.mode = mode, !.force = force,
                                                  !.source = source, !.alone = a]
          OBVIOUS
        <4>5. r \in DeploymentRecords /\ r.metadata = IdleDeployment.metadata
          <5>1. \A y \in DeploymentRecords :
                  [y EXCEPT !.phase = p, !.mode = mode, !.force = force, !.source = source, !.alone = a]
                    \in DeploymentRecords
            BY ZenonT(60), <4>3 DEF DeploymentRecords, Sources
          <5>2. QED
            BY <2>2, <4>4, <5>1 DEF DeploymentRecords
        <4>6. deps'[e] = r
          BY <2>1, <3>1, <4>1, <4>2, <4>4
        <4>7. QED
          BY <2>2, <4>5, <4>6 DEF DeploymentOK
      <3>2. CASE e # d
        <4>1. PICK r : r = deps[e]
          OBVIOUS
        <4>2. r \in DeploymentRecords /\ DeploymentOK(r) /\ r.phase \in Phases
          BY <1>1, <4>1 DEF BaseInv, DeploymentRecords
        <4>3. deps'[e] \in {[r EXCEPT !.alone = FALSE], [IdleDeployment EXCEPT !.phase = r.phase]}
          BY <2>1, <3>2, <4>1
        <4>4. DeploymentOK([r EXCEPT !.alone = FALSE])
          BY <4>2 DEF DeploymentOK, DeploymentRecords
        <4>5. DeploymentOK([IdleDeployment EXCEPT !.phase = r.phase])
          BY <2>2, <4>2, DeploymentMoves DEF DeploymentOK
        <4>6. QED
          BY <4>3, <4>4, <4>5
      <3>3. QED
        BY <3>1, <3>2
    <2>4. deps' = [e \in Deployments |-> deps'[e]]
      BY <2>1
    <2>5. /\ latest' \in Keepers
          /\ UNCHANGED <<tasks, registry, chain, proxies, manifest, build, linked, imported>>
      BY <1>2 DEF Start, Keepers
    <2>6. QED
      BY <2>3, <2>4, <2>5, PartsOK, SameWorldKeeps
  <1>3. CASE LinkSources(d)
    <2>1. linked' \in Sources \cup {None}
      BY <1>1, <1>3 DEF LinkSources, DeploymentRecords
    <2>2. "compiling" \in Phases /\ deps' = [deps EXCEPT ![d].phase = "compiling"] /\ ManifestOK(None)
      BY <1>3 DEF LinkSources, Phases, ManifestOK
    <2>3. deps' = [e \in Deployments |-> deps'[e]] /\ \A e \in Deployments : DeploymentOK(deps'[e])
      BY <2>2, MovesOK
    <2>4. UNCHANGED <<tasks, registry, chain, proxies, manifest, build, latest, imported>>
      BY <1>3 DEF LinkSources
    <2>5. QED
      BY <2>1, <2>3, <2>4, PartsOK, SameWorldKeeps
  <1>4. CASE Compile(d)
    <2>1. build' \in [Contracts -> Revisions \cup {None}] /\ linked' \in Sources \cup {None}
      BY <1>4, PartsOK DEF Compile, NoBuild, Sources
    <2>2. deps' = [e \in Deployments |-> deps'[e]] /\ \A e \in Deployments : DeploymentOK(deps'[e])
      <3>1. "failed" \in Phases /\ "contracts" \in Phases /\ ManifestOK(None)
        BY DEF Phases, ManifestOK
      <3>2. deps' = [deps EXCEPT ![d].phase = "failed"] \/ deps' = [deps EXCEPT ![d].phase = "contracts"]
        BY <1>4 DEF Compile
      <3>3. QED
        BY <3>1, <3>2, MovesOK
    <2>3. UNCHANGED <<registry, chain, proxies, manifest, latest, imported>>
      BY <1>4 DEF Compile
    <2>4. CASE UNCHANGED tasks
      BY <2>1, <2>2, <2>3, <2>4, PartsOK, SameWorldKeeps
    <2>5. CASE tasks' = [tasks EXCEPT ![d] = [c \in Contracts |->
                  IF deps[d].mode = "contracts" \/ c = 1
                  THEN [IdleTask EXCEPT !.at = "address"] ELSE IdleTask]]
      <3>1. PICK f : f = [c \in Contracts |-> IF deps[d].mode = "contracts" \/ c = 1
                            THEN [IdleTask EXCEPT !.at = "address"] ELSE IdleTask]
        OBVIOUS
      <3>2. /\ f = [b \in Contracts |-> f[b]] /\ tasks' = [tasks EXCEPT ![d] = f]
            /\ \A b \in Contracts : f[b] \in {[IdleTask EXCEPT !.at = "address"], IdleTask}
        BY <2>5, <3>1
      <3>3. tasks \in [Deployments -> [Contracts -> TaskRecords]]
        BY DEF BaseInv
      <3>4. tasks' = [e \in Deployments |-> [b \in Contracts |-> tasks'[e][b]]]
        <4>1. \A e \in Deployments : tasks'[e] = [b \in Contracts |-> tasks'[e][b]]
          BY <3>2, <3>3
        <4>2. tasks' = [e \in Deployments |-> tasks'[e]]
          BY <3>2, <3>3
        <4>3. QED
          BY <4>1, <4>2
      <3>5. \A e \in Deployments, b \in Contracts : TaskOK(tasks'[e][b], b)
        <4>1. TAKE e \in Deployments, b \in Contracts
        <4>2. [IdleTask EXCEPT !.at = "idle"] = IdleTask
          BY DEF IdleTask
        <4>3. TaskOK([IdleTask EXCEPT !.at = "address"], b) /\ TaskOK(IdleTask, b)
          BY <4>2, TrivialTaskOK
        <4>4. tasks'[e][b] \in {tasks[e][b], [IdleTask EXCEPT !.at = "address"], IdleTask}
          BY <3>2, <3>3
        <4>5. QED
          BY <4>3, <4>4, PartsOK
      <3>6. QED
        BY <2>1, <2>2, <2>3, <3>4, <3>5, PartsOK, SameWorldKeeps
    <2>6. QED
      BY <1>4, <2>4, <2>5 DEF Compile
  <1>5. QED
    BY <1>2, <1>3, <1>4

LEMMA EndingKeeps ==
  ASSUME BaseInv, NEW d \in Deployments,
         \/ ReadManifest(d) \/ PutMetadata(d) \/ Clean(d)
         \/ PutRoot(d) \/ PutZdns(d) \/ PutKeys(d) \/ DeploymentFails(d)
  PROVE  BaseInv'
  <1>1. UNCHANGED <<chain, proxies, imported, tasks, linked>> /\ ManifestOK(None)
    BY DEF ReadManifest, PutMetadata, Clean, PutRoot, PutZdns, PutKeys, DeploymentFails, KeepsShared, ManifestOK
  <1>2. deps' = [e \in Deployments |-> deps'[e]] /\ \A e \in Deployments : DeploymentOK(deps'[e])
    <2>1. CASE ReadManifest(d)
      <3>1. PICK p \in Phases : /\ p = IF manifest = None THEN "failed" ELSE "metadata"
        BY DEF Phases
      <3>2. deps' = [deps EXCEPT ![d].phase = p, ![d].metadata = manifest]
        BY <2>1, <3>1 DEF ReadManifest
      <3>3. QED
        BY <3>2, ContentOK, MovesOK
    <2>2. CASE ~ReadManifest(d)
      <3>1. PICK p \in Phases : deps' = [deps EXCEPT ![d].phase = p, ![d].metadata = None]
        BY <2>2 DEF PutMetadata, Clean, PutRoot, PutZdns, PutKeys, DeploymentFails, To, Phases
      <3>2. QED
        BY <1>1, <3>1, MovesOK
    <2>3. QED
      BY <2>1, <2>2
  <1>3. latest' \in Keepers
    BY PartsOK DEF ReadManifest, PutMetadata, Clean, PutRoot, PutZdns, PutKeys, DeploymentFails, To, Keepers
  <1>4. ManifestOK(manifest') /\ build' \in [Contracts -> Revisions \cup {None}]
    BY <1>1, PartsOK
    DEF ReadManifest, PutMetadata, Clean, PutRoot, PutZdns, PutKeys, DeploymentFails, KeepsShared, NoBuild
  <1>5. /\ registry' \in RegistryRecords /\ ManifestOK(registry'.metadata)
        /\ registry'.address = registry.address
    <2>1. registry \in RegistryRecords /\ ManifestOK(registry.metadata) /\ d \in Keepers
      BY PartsOK DEF Keepers
    <2>2. CASE PutMetadata(d)
      <3>1. PICK m : m = deps[d].metadata
        OBVIOUS
      <3>2. m \in Manifests /\ ManifestOK(m)
        BY <3>1, PartsOK DEF DeploymentOK, ManifestOK, EntriesOK, Manifests
      <3>3. registry' = [registry EXCEPT !.metadata = m, !.described = d]
        BY <2>2, <3>1 DEF PutMetadata
      <3>4. \A y \in RegistryRecords : [y EXCEPT !.metadata = m, !.described = d] \in RegistryRecords
        BY ZenonT(60), <2>1, <3>2 DEF RegistryRecords
      <3>5. QED
        BY <2>1, <3>2, <3>3, <3>4 DEF RegistryRecords
    <2>3. CASE PutRoot(d)
      BY <2>1, <2>3 DEF PutRoot, Put, RegistryRecords
    <2>4. CASE PutZdns(d)
      BY <2>1, <2>4 DEF PutZdns, Put, RegistryRecords
    <2>5. CASE PutKeys(d)
      BY <2>1, <2>5 DEF PutKeys, Put, RegistryRecords
    <2>6. CASE UNCHANGED registry
      BY <2>1, <2>6
    <2>7. QED
      BY <2>2, <2>3, <2>4, <2>5, <2>6 DEF ReadManifest, Clean, DeploymentFails, KeepsShared
  <1>6. QED
    BY <1>1, <1>2, <1>3, <1>4, <1>5, PartsOK, SameWorldKeeps

LEMMA CrashKeeps ==
  ASSUME BaseInv, Crash
  PROVE  BaseInv'
  <1>1. /\ deps' = [d \in Deployments |->
             IF Busy(d) THEN [deps[d] EXCEPT !.phase = "failed", !.metadata = None] ELSE deps[d]]
        /\ tasks' = [d \in Deployments |-> [c \in Contracts |->
             IF Busy(d) THEN [IdleTask EXCEPT !.at = "failed"] ELSE tasks[d][c]]]
        /\ UNCHANGED <<registry, chain, proxies, manifest, build, linked, latest, imported>>
    BY DEF Crash
  <1>2. \A e \in Deployments : DeploymentOK(deps'[e])
    <2>1. TAKE e \in Deployments
    <2>2. PICK r : r = deps[e]
      OBVIOUS
    <2>3. r \in DeploymentRecords /\ DeploymentOK(r)
      BY <2>2, PartsOK DEF DeploymentOK
    <2>4. "failed" \in Phases /\ None \in Manifests /\ ManifestOK(None)
      BY DEF Phases, Manifests, ManifestOK
    <2>5. DeploymentOK([r EXCEPT !.phase = "failed", !.metadata = None])
      <3>1. /\ [r EXCEPT !.phase = "failed", !.metadata = None] \in DeploymentRecords
            /\ [r EXCEPT !.phase = "failed", !.metadata = None].metadata = None
        BY <2>3, <2>4 DEF DeploymentRecords
      <3>2. QED
        BY <2>4, <3>1 DEF DeploymentOK
    <2>6. QED
      BY <1>1, <2>2, <2>3, <2>5
  <1>3. \A e \in Deployments, b \in Contracts : TaskOK(tasks'[e][b], b)
    BY <1>1, PartsOK, TrivialTaskOK
  <1>4. /\ deps' = [e \in Deployments |-> deps'[e]]
        /\ tasks' = [e \in Deployments |-> [b \in Contracts |-> tasks'[e][b]]]
    BY <1>1
  <1>5. QED
    BY <1>1, <1>2, <1>3, <1>4, PartsOK, SameWorldKeeps

LEMMA BaseInvInit == Init => BaseInv
  <1> SUFFICES ASSUME Init  PROVE BaseInv
    OBVIOUS
  <1>1. EntriesOK({}) /\ ManifestOK(None) /\ None \in Manifests
    BY DEF EntriesOK, ManifestOK, Manifests
  <1>2. WorldOK
    BY DEF Init, WorldOK
  <1>3. RegistryOK
    BY <1>1 DEF Init, RegistryOK, RegistryRecords, Keepers
  <1>4. FilesOK
    BY <1>1 DEF Init, FilesOK, NoBuild, Keepers
  <1>5. IdleDeployment \in DeploymentRecords /\ DeploymentOK(IdleDeployment)
    BY <1>1 DEF IdleDeployment, DeploymentRecords, DeploymentOK, Phases
  <1>6. IdleTask \in TaskRecords /\ \A c \in Contracts : TaskOK(IdleTask, c)
    <2>1. IdleTask \in TaskRecords
      BY <1>1 DEF IdleTask, TaskRecords, Steps
    <2>2. [IdleTask EXCEPT !.at = "idle"] = IdleTask
      BY DEF IdleTask
    <2>3. QED
      BY <2>1, <2>2, TrivialTaskOK
  <1>7. QED
    BY <1>2, <1>3, <1>4, <1>5, <1>6 DEF Init, BaseInv

LEMMA BaseInvNext == BaseInv /\ [Next]_vars => BaseInv'
  <1> SUFFICES ASSUME BaseInv, [Next]_vars  PROVE BaseInv'
    OBVIOUS
  <1>1. CASE UNCHANGED vars
    BY <1>1, PartsOK, SameWorldKeeps DEF vars
  <1>2. CASE \E d \in Deployments : Step(d)
    BY <1>2, SettingUpKeeps, EndingKeeps DEF Step
  <1>3. CASE \E d \in Deployments, c \in Contracts : TaskStep(d, c)
    BY <1>3, ReadingKeeps, FactoryKeeps, StoreKeeps, ValidateKeeps, UpgradeKeeps, DeployProxyKeeps, ImportKeeps,
       PublishKeeps
    DEF TaskStep
  <1>4. CASE Crash
    BY <1>4, CrashKeeps
  <1>5. QED
    BY <1>1, <1>2, <1>3, <1>4 DEF Next, Finished

-----------------------------------------------------------------------------
(* The life of a deployment.                                               *)

PhasesOK(d) ==
  /\ deps[d].phase \in {"idle", "linking", "compiling"} => \A c \in Contracts : At(d, c, "idle")
  /\ \A c \in Contracts : TaskBusy(d, c) => deps[d].phase \in {"contracts", "failed"}
  /\ deps[d].phase \in {"linking", "compiling"} => deps[d].source # None
  /\ deps[d].phase = "metadata" => deps[d].metadata # None
  /\ deps[d].mode = "site" =>
       \A c \in Contracts : TaskBusy(d, c) => \A o \in Contracts : o > c => At(d, o, "idle")

AloneOK == \A d \in Deployments : Busy(d) /\ deps[d].alone => \A e \in Deployments \ {d} : ~Busy(e)

LatestOK == latest # None => deps[latest].phase = "done" /\ \A e \in Deployments : ~Busy(e)

HasPut(e, c) == \/ deps[e].phase \in {"failed", "metadata"}
                \/ deps[e].phase = "contracts" /\ tasks[e][c].at \in {"abi", "done"}

AddressesOK ==
  \A c \in Contracts : registry.address[c] # 0 /\ registry.metadata = None => \E e \in Deployments : HasPut(e, c)

LifeInv == (\A d \in Deployments : PhasesOK(d)) /\ AloneOK /\ LatestOK /\ AddressesOK

Runs(d, c, p) == /\ Code(proxies[p]).live
                 /\ c \in imported \/ Code(proxies[p]).revision = deps[d].source[c]

Published(d, c) ==
  /\ registry.address[c] # 0 /\ Runs(d, c, registry.address[c])
  /\ registry.abi[c] = [by |-> d, revision |-> deps[d].source[c]]

NeedsNew(d, t) == t.proxy = 0 \/ t.metadata = None \/ deps[d].force

KnowsAddress == {"describe", "factory", "restore", "check", "fetch", "store", "validate", "point", "discard", "import"}

TaskCurrent(d, c, t) ==
  /\ t.at \in KnowsAddress => t.proxy = registry.address[c]
  /\ t.at \in KnowsAddress \ {"describe"} => t.metadata = registry.metadata
  /\ t.at \in HasRevision => t.revision = deps[d].source[c]
  /\ t.at \in {"fetch", "store", "validate", "point"} /\ ~NeedsNew(d, t) =>
       c \in imported \/ t.checked = Code(proxies[t.proxy]).revision
  /\ t.at \in {"publish", "abi"} => Runs(d, c, t.proxy)
  /\ t.at = "publish" => deps[d].force \/ registry.address[c] \in {0, t.proxy} \/ registry.metadata = None
  /\ t.at = "abi" => registry.address[c] = t.proxy
  /\ t.at = "done" => Published(d, c)

Progress(d) ==
  /\ deps[d].phase = "compiling" => linked = deps[d].source
  /\ deps[d].phase = "contracts" \/ (\E c \in Contracts : TaskBusy(d, c)) => build = deps[d].source
  /\ \A c \in Contracts : TaskCurrent(d, c, tasks[d][c])
  /\ deps[d].phase \in {"metadata", "cleaning", "root", "zdns", "keys"} /\ deps[d].source # None =>
       \A c \in Contracts : Published(d, c)
  /\ deps[d].phase \in {"cleaning", "root", "zdns", "keys"} /\ deps[d].source # None => registry.described = d
  /\ deps[d].phase \in {"zdns", "keys"} => registry.root = d
  /\ deps[d].phase = "keys" => registry.zdns = d

ProgressInv == \A d \in Deployments : Busy(d) /\ deps[d].alone => Progress(d)

LEMMA LifeInvInit == Init => LifeInv /\ ProgressInv
  <1> SUFFICES ASSUME Init  PROVE LifeInv /\ ProgressInv
    OBVIOUS
  <1>1. \A d \in Deployments : deps[d] = IdleDeployment /\ \A c \in Contracts : tasks[d][c] = IdleTask
    BY DEF Init
  <1>2. /\ latest = None /\ \A d \in Deployments : deps[d].phase = "idle"
        /\ \A d \in Deployments, c \in Contracts : tasks[d][c].at = "idle"
        /\ \A c \in Contracts : registry.address[c] = 0
    BY <1>1 DEF Init, IdleDeployment, IdleTask
  <1>3. \A d \in Deployments : ~Busy(d) /\ PhasesOK(d)
    BY <1>2 DEF Busy, TaskBusy, PhasesOK, At
  <1>4. QED
    BY <1>2, <1>3 DEF LifeInv, AloneOK, LatestOK, AddressesOK, ProgressInv

-----------------------------------------------------------------------------
(* What a step may not touch for what is known of a contract to stay true.  *)

Leaves(c) ==
  /\ registry'.address[c] = registry.address[c] /\ registry'.abi[c] = registry.abi[c]
  /\ registry'.metadata = registry.metadata
  /\ \A p \in DOMAIN proxies : IsProxyOf(c, p) => p \in DOMAIN proxies' /\ proxies'[p] = proxies[p]

SameChoices(d) == deps'[d].source = deps[d].source /\ deps'[d].force = deps[d].force

LEMMA RunsStill ==
  ASSUME BaseInv, Grows, NEW d \in Deployments, NEW c \in Contracts, NEW p, IsProxyOf(c, p),
         Leaves(c), SameChoices(d), Runs(d, c, p)
  PROVE  Runs(d, c, p)'
  <1>1. p \in DOMAIN proxies /\ proxies[p] \in DOMAIN chain /\ proxies'[p] = proxies[p]
    BY DEF IsProxyOf, Leaves, BaseInv, WorldOK
  <1>2. chain'[proxies'[p]] = chain[proxies[p]] /\ imported \subseteq imported'
    BY <1>1 DEF Grows
  <1>3. QED
    BY <1>2 DEF Runs, Code, SameChoices

LEMMA PublishedStill ==
  ASSUME BaseInv, Grows, NEW d \in Deployments, NEW c \in Contracts, Leaves(c), SameChoices(d), Published(d, c)
  PROVE  Published(d, c)'
  <1>1. PICK p : p = registry.address[c] /\ p = registry'.address[c]
    BY DEF Leaves
  <1>2. p # 0 /\ IsProxyOf(c, p) /\ Runs(d, c, p)
    BY <1>1 DEF Published, BaseInv, RegistryOK
  <1>3. Runs(d, c, p)'
    BY <1>2, RunsStill
  <1>4. QED
    BY <1>1, <1>2, <1>3 DEF Published, Leaves, SameChoices

LEMMA CurrentStill ==
  ASSUME BaseInv, Grows, NEW d \in Deployments, NEW c \in Contracts, Leaves(c), SameChoices(d),
         NEW t, t.proxy # 0 => IsProxyOf(c, t.proxy), t.at \in {"publish", "abi"} => t.proxy # 0,
         TaskCurrent(d, c, t)
  PROVE  TaskCurrent(d, c, t)'
  <1>1. t.at \in KnowsAddress => t.proxy = registry'.address[c]
    BY DEF TaskCurrent, Leaves
  <1>2. t.at \in KnowsAddress \ {"describe"} => t.metadata = registry'.metadata
    BY DEF TaskCurrent, Leaves
  <1>3. t.at \in HasRevision => t.revision = deps'[d].source[c]
    BY DEF TaskCurrent, SameChoices
  <1>4. ASSUME t.at \in {"fetch", "store", "validate", "point"}, ~NeedsNew(d, t)'
        PROVE  c \in imported' \/ t.checked = Code(proxies[t.proxy])'.revision
    <2>1. ~NeedsNew(d, t) /\ t.proxy # 0
      BY <1>4 DEF NeedsNew, SameChoices
    <2>2. c \in imported \/ t.checked = Code(proxies[t.proxy]).revision
      BY <1>4, <2>1 DEF TaskCurrent
    <2>3. t.proxy \in DOMAIN proxies /\ proxies[t.proxy] \in DOMAIN chain /\ proxies'[t.proxy] = proxies[t.proxy]
      BY <2>1 DEF IsProxyOf, Leaves, BaseInv, WorldOK
    <2>4. QED
      BY <2>2, <2>3 DEF Grows, Code
  <1>5. t.at \in {"publish", "abi"} => Runs(d, c, t.proxy)'
    <2>1. PICK p : p = t.proxy
      OBVIOUS
    <2>2. t.at \in {"publish", "abi"} => Runs(d, c, p) /\ IsProxyOf(c, p)
      BY <2>1 DEF TaskCurrent
    <2>3. QED
      BY <2>1, <2>2, RunsStill
  <1>6. t.at = "publish" =>
          deps'[d].force \/ registry'.address[c] \in {0, t.proxy} \/ registry'.metadata = None
    BY DEF TaskCurrent, SameChoices, Leaves
  <1>7. t.at = "abi" => registry'.address[c] = t.proxy
    BY DEF TaskCurrent, Leaves
  <1>8. t.at = "done" => Published(d, c)'
    BY PublishedStill DEF TaskCurrent
  <1>9. QED
    BY <1>1, <1>2, <1>3, <1>4, <1>5, <1>6, <1>7, <1>8 DEF TaskCurrent

-----------------------------------------------------------------------------
(* The step of a task is one on what it knows: x is what the task becomes.  *)

Acts(d, c, x) ==
  /\ Become(d, c, x) /\ x.at \notin {"idle", "done"}
  /\ deps' \in {deps, [deps EXCEPT ![d].phase = "failed"]}
  /\ x.at = "failed" => deps' = [deps EXCEPT ![d].phase = "failed"]
  /\ UNCHANGED <<build, linked, latest>>
  /\ tasks[d][c].at = "abi" => x.at = "failed"
  /\ \/ UNCHANGED registry
     \/ registry' = [registry EXCEPT !.address[c] = tasks[d][c].proxy] /\ x.at = "abi"
  /\ TaskCurrent(d, c, tasks[d][c]) /\ build = deps[d].source => TaskCurrent(d, c, x)'

LEMMA ChoicesStay ==
  ASSUME BaseInv, NEW d \in Deployments, deps' \in {deps, [deps EXCEPT ![d].phase = "failed"]}
  PROVE  \A e \in Deployments : /\ SameChoices(e) /\ deps'[e].mode = deps[e].mode
                                /\ deps'[e].alone = deps[e].alone /\ (e # d => deps'[e] = deps[e])
                                /\ deps'[e].metadata = deps[e].metadata
                                /\ deps'[e].phase \in {deps[e].phase, "failed"}
  BY PartsOK DEF BaseInv, DeploymentRecords, SameChoices

LEMMA GoesOnActs ==
  ASSUME BaseInv, Grows, NEW d \in Deployments, NEW c \in Contracts, NEW x, Become(d, c, x),
         x.at \notin {"idle", "done", "failed"}, tasks[d][c].at # "abi",
         UNCHANGED <<deps, build, linked, latest, registry>>, Leaves(c),
         x.proxy # 0 => IsProxyOf(c, x.proxy), x.at \notin {"publish", "abi"},
         TaskCurrent(d, c, tasks[d][c]) /\ build = deps[d].source => TaskCurrent(d, c, x)
  PROVE  Acts(d, c, x)
  <1>1. SameChoices(d)
    BY DEF SameChoices
  <1>2. TaskCurrent(d, c, tasks[d][c]) /\ build = deps[d].source => TaskCurrent(d, c, x)'
    BY <1>1, CurrentStill
  <1>3. QED
    BY <1>2 DEF Acts

LEMMA ThrowActs ==
  ASSUME BaseInv, Grows, NEW d \in Deployments, NEW c \in Contracts, Throw(d, c),
         Leaves(c), UNCHANGED registry
  PROVE  \E x : Acts(d, c, x)
  <1>1. PICK t : t = tasks[d][c]
    OBVIOUS
  <1>2. TaskOK(t, c) /\ t \in TaskRecords
    BY <1>1 DEF BaseInv, TaskOK
  <1>3. CASE Caught(d, c)
    <2>1. PICK a : a = IF Fresh(d, c) THEN "fetch" ELSE "discard"
      OBVIOUS
    <2>2. PICK b : b = IF Fresh(d, c) THEN "unbound" ELSE "imported"
      OBVIOUS
    <2>3. PICK x : x = [t EXCEPT !.at = a, !.attempt = b, !.seen = {}]
      OBVIOUS
    <2>4. Become(d, c, x) /\ UNCHANGED <<deps, build, linked, latest>>
      BY <1>1, <1>3, <2>1, <2>2, <2>3 DEF Throw
    <2>5. /\ x.at = a /\ x.proxy = t.proxy /\ x.metadata = t.metadata /\ x.revision = t.revision
      BY <1>2, <2>3 DEF TaskRecords
    <2>6. t.at \in {"check", "fetch", "store", "validate", "point"}
      BY <1>1, <1>3 DEF Caught
    <2>7. TaskCurrent(d, c, t) => TaskCurrent(d, c, x)
      <3>1. a \in {"fetch", "discard"} /\ (a = "fetch" => NeedsNew(d, x))
        BY <1>1, <2>1, <2>5 DEF Fresh, NeedsNew
      <3>2. QED
        BY <2>5, <2>6, <3>1 DEF TaskCurrent, KnowsAddress, HasRevision
    <2>8. /\ x.at \notin {"idle", "done", "failed", "publish", "abi"} /\ t.at # "abi"
          /\ x.proxy # 0 => IsProxyOf(c, x.proxy)
      BY <1>2, <2>1, <2>5, <2>6 DEF TaskOK
    <2>9. Acts(d, c, x)
      BY <1>1, <2>4, <2>7, <2>8, GoesOnActs
    <2>10. QED
      BY <2>9
  <1>4. CASE ~Caught(d, c)
    <2>1. PICK x : x = [IdleTask EXCEPT !.at = "failed"]
      OBVIOUS
    <2>2. /\ Become(d, c, x) /\ UNCHANGED <<build, linked, latest>>
          /\ deps' = [deps EXCEPT ![d].phase = "failed"]
      BY <1>4, <2>1 DEF Throw
    <2>3. x.at = "failed"
      BY <2>1 DEF IdleTask
    <2>4. TaskCurrent(d, c, x)'
      BY <2>3 DEF TaskCurrent, KnowsAddress, HasRevision
    <2>5. Acts(d, c, x)
      BY <2>2, <2>3, <2>4 DEF Acts
    <2>6. QED
      BY <2>5
  <1>5. QED
    BY <1>3, <1>4

LEMMA LeavesAll ==
  ASSUME NEW c \in Contracts, UNCHANGED <<registry, proxies>>
  PROVE  Leaves(c)
  BY DEF Leaves

LEMMA ReadingActs ==
  ASSUME BaseInv, NEW d \in Deployments, NEW c \in Contracts,
         GetAddress(d, c) \/ GetMetadata(d, c) \/ RestoreManifest(d, c) \/ Fetch(d, c) \/ DiscardManifest(d, c)
  PROVE  \E x : Acts(d, c, x)
  <1>1. PICK t : t = tasks[d][c]
    OBVIOUS
  <1>2. TaskOK(t, c) /\ t \in TaskRecords /\ RegistryOK
    BY <1>1 DEF BaseInv, TaskOK
  <1>3. /\ UNCHANGED <<deps, registry, chain, proxies, imported, build, linked, latest>>
        /\ t.at \in {"address", "describe", "restore", "fetch", "discard"}
    BY <1>1 DEF GetAddress, GetMetadata, RestoreManifest, Fetch, DiscardManifest, KeepsShared, At
  <1>4. Grows /\ Leaves(c)
    BY <1>3, GrowsNot, LeavesAll DEF BaseInv
  <1>5. ASSUME NEW x, Become(d, c, x), x.at \in {"describe", "factory", "check", "store", "import"},
               x.proxy # 0 => IsProxyOf(c, x.proxy), TaskCurrent(d, c, t) => TaskCurrent(d, c, x)
        PROVE  Acts(d, c, x)
    BY <1>1, <1>3, <1>4, <1>5, GoesOnActs
  <1>6. CASE GetAddress(d, c)
    <2>1. PICK x : x = [t EXCEPT !.at = "describe", !.proxy = registry.address[c]]
      OBVIOUS
    <2>2. Become(d, c, x) /\ x.at = "describe" /\ x.proxy = registry.address[c]
      BY <1>1, <1>2, <1>6, <2>1 DEF GetAddress, TaskRecords
    <2>3. TaskCurrent(d, c, x) /\ (x.proxy # 0 => IsProxyOf(c, x.proxy))
      BY <1>2, <2>2 DEF TaskCurrent, HasRevision, RegistryOK
    <2>4. QED
      BY <1>5, <2>2, <2>3
  <1>7. CASE GetMetadata(d, c)
    <2>1. PICK x : x = [t EXCEPT !.at = "factory", !.metadata = registry.metadata]
      OBVIOUS
    <2>2. /\ Become(d, c, x) /\ x.at = "factory" /\ x.proxy = t.proxy /\ x.metadata = registry.metadata
          /\ t.at = "describe"
      BY <1>1, <1>2, <1>7, <2>1 DEF GetMetadata, TaskRecords, At
    <2>3. (TaskCurrent(d, c, t) => TaskCurrent(d, c, x)) /\ (x.proxy # 0 => IsProxyOf(c, x.proxy))
      BY <1>2, <2>2 DEF TaskCurrent, HasRevision, KnowsAddress, TaskOK
    <2>4. QED
      BY <1>5, <2>2, <2>3
  <1>8. CASE RestoreManifest(d, c)
    <2>1. PICK x : x = [t EXCEPT !.at = "check"]
      OBVIOUS
    <2>2. /\ Become(d, c, x) /\ x.at = "check" /\ x.proxy = t.proxy /\ x.metadata = t.metadata
          /\ x.revision = t.revision /\ t.at = "restore"
      BY <1>1, <1>2, <1>8, <2>1 DEF RestoreManifest, TaskRecords, At
    <2>3. (TaskCurrent(d, c, t) => TaskCurrent(d, c, x)) /\ (x.proxy # 0 => IsProxyOf(c, x.proxy))
      BY <1>2, <2>2 DEF TaskCurrent, HasRevision, KnowsAddress, TaskOK
    <2>4. QED
      BY <1>5, <2>2, <2>3
  <1>9. CASE Fetch(d, c)
    <2>1. PICK x : x = [t EXCEPT !.at = "store", !.seen = Content]
      OBVIOUS
    <2>2. /\ Become(d, c, x) /\ x.at = "store" /\ x.proxy = t.proxy /\ x.metadata = t.metadata
          /\ x.revision = t.revision /\ x.checked = t.checked /\ t.at = "fetch"
      BY <1>1, <1>2, <1>9, <2>1 DEF Fetch, TaskRecords, At
    <2>3. (TaskCurrent(d, c, t) => TaskCurrent(d, c, x)) /\ (x.proxy # 0 => IsProxyOf(c, x.proxy))
      BY <1>2, <2>2 DEF TaskCurrent, HasRevision, KnowsAddress, TaskOK, NeedsNew
    <2>4. QED
      BY <1>5, <2>2, <2>3
  <1>10. CASE DiscardManifest(d, c)
    <2>1. PICK x : x = [t EXCEPT !.at = "import"]
      OBVIOUS
    <2>2. /\ Become(d, c, x) /\ x.at = "import" /\ x.proxy = t.proxy /\ x.metadata = t.metadata
          /\ x.revision = t.revision /\ t.at = "discard"
      BY <1>1, <1>2, <1>10, <2>1 DEF DiscardManifest, TaskRecords, At
    <2>3. (TaskCurrent(d, c, t) => TaskCurrent(d, c, x)) /\ (x.proxy # 0 => IsProxyOf(c, x.proxy))
      BY <1>2, <2>2 DEF TaskCurrent, HasRevision, KnowsAddress, TaskOK
    <2>4. QED
      BY <1>5, <2>2, <2>3
  <1>11. QED
    BY <1>6, <1>7, <1>8, <1>9, <1>10

LEMMA FactoryActs ==
  ASSUME BaseInv, NEW d \in Deployments, NEW c \in Contracts,
         \/ GetFactory(d, c) \/ CheckLayout(d, c) \/ Validate(d, c) \/ ForceImport(d, c)
         \/ TaskFails(d, c) \/ LockTimeout(d, c)
  PROVE  \E x : Acts(d, c, x)
  <1>1. PICK t : t = tasks[d][c]
    OBVIOUS
  <1>2. TaskOK(t, c) /\ t \in TaskRecords /\ RegistryOK
    BY <1>1 DEF BaseInv, TaskOK
  <1>3. /\ UNCHANGED <<registry, chain, proxies>> /\ Leaves(c)
    BY LeavesAll DEF GetFactory, CheckLayout, Validate, ForceImport, TaskFails, LockTimeout, KeepsShared
  <1>4. Grows
    <2>1. imported' = imported \/ imported' = imported \cup {c}
      BY DEF GetFactory, CheckLayout, Validate, ForceImport, TaskFails, LockTimeout
    <2>2. QED
      BY <1>3, <2>1, GrowsNot, GrowsByImport DEF BaseInv
  <1>5. CASE Throw(d, c)
    BY <1>3, <1>4, <1>5, ThrowActs
  <1>6. ASSUME NEW x, Become(d, c, x), x.at \in {"fetch", "restore", "point", "check"}, x.proxy = t.proxy,
               UNCHANGED <<deps, build, linked, latest>>, t.at # "abi",
               TaskCurrent(d, c, t) /\ build = deps[d].source => TaskCurrent(d, c, x)
        PROVE  Acts(d, c, x)
    BY <1>1, <1>2, <1>3, <1>4, <1>6, GoesOnActs DEF TaskOK
  <1>7. CASE GetFactory(d, c) /\ ~Throw(d, c)
    <2>1. PICK a : a = IF Fresh(d, c) THEN "fetch" ELSE "restore"
      OBVIOUS
    <2>2. PICK x : x = [t EXCEPT !.at = a, !.revision = build[c]]
      OBVIOUS
    <2>3. /\ Become(d, c, x) /\ UNCHANGED <<deps, build, linked, latest>> /\ t.at = "factory"
      BY <1>1, <1>7, <2>1, <2>2 DEF GetFactory, KeepsShared, At
    <2>4. x.at = a /\ x.proxy = t.proxy /\ x.metadata = t.metadata /\ x.revision = build[c]
      BY <1>2, <2>2 DEF TaskRecords
    <2>5. a \in {"fetch", "restore"} /\ (a = "fetch" => NeedsNew(d, x))
      BY <1>1, <2>1, <2>4 DEF Fresh, NeedsNew
    <2>6. TaskCurrent(d, c, t) /\ build = deps[d].source => TaskCurrent(d, c, x)
      BY <2>3, <2>4, <2>5 DEF TaskCurrent, KnowsAddress, HasRevision
    <2>7. QED
      BY <1>6, <2>3, <2>4, <2>5, <2>6
  <1>8. CASE CheckLayout(d, c) /\ ~Throw(d, c)
    <2>1. PICK e \in EntryAt(Content, proxies[t.proxy]) :
            Become(d, c, [t EXCEPT !.at = "fetch", !.checked = e.revision])
      BY <1>1, <1>8 DEF CheckLayout
    <2>2. PICK x : x = [t EXCEPT !.at = "fetch", !.checked = e.revision]
      OBVIOUS
    <2>3. Become(d, c, x) /\ UNCHANGED <<deps, build, linked, latest>> /\ t.at = "check"
      BY <1>1, <1>8, <2>1, <2>2 DEF CheckLayout, At
    <2>4. /\ x.at = "fetch" /\ x.proxy = t.proxy /\ x.metadata = t.metadata /\ x.revision = t.revision
          /\ x.checked = e.revision
      BY <1>2, <2>2 DEF TaskRecords
    <2>5. c \in imported \/ x.checked = Code(proxies[t.proxy]).revision
      <3>1. IsProxyOf(c, t.proxy)
        BY <1>2, <2>3 DEF TaskOK
      <3>2. e \in Content /\ proxies[t.proxy] \in {e.address} \cup e.all
        BY <2>1 DEF EntryAt
      <3>3. IsCodeOf(e.contract, e.revision, proxies[t.proxy])
        BY <3>2, ContentOK DEF EntriesOK
      <3>4. QED
        BY <2>4, <3>1, <3>3 DEF IsCodeOf, IsProxyOf
    <2>6. TaskCurrent(d, c, t) => TaskCurrent(d, c, x)
      BY <2>3, <2>4, <2>5 DEF TaskCurrent, KnowsAddress, HasRevision
    <2>7. QED
      BY <1>6, <2>3, <2>4, <2>6
  <1>9. CASE Validate(d, c) /\ ~Throw(d, c)
    <2>1. PICK x : x = [t EXCEPT !.at = "point"]
      OBVIOUS
    <2>2. Become(d, c, x) /\ UNCHANGED <<deps, build, linked, latest>> /\ t.at = "validate"
      BY <1>1, <1>9, <2>1 DEF Validate, At
    <2>3. /\ x.at = "point" /\ x.proxy = t.proxy /\ x.metadata = t.metadata /\ x.revision = t.revision
          /\ x.checked = t.checked
      BY <1>2, <2>1 DEF TaskRecords
    <2>4. TaskCurrent(d, c, t) => TaskCurrent(d, c, x)
      BY <2>2, <2>3 DEF TaskCurrent, KnowsAddress, HasRevision, NeedsNew
    <2>5. QED
      BY <1>6, <2>2, <2>3, <2>4
  <1>10. CASE ForceImport(d, c) /\ ~Throw(d, c)
    <2>1. PICK x : x = [t EXCEPT !.at = "check"]
      OBVIOUS
    <2>2. Become(d, c, x) /\ UNCHANGED <<deps, build, linked, latest>> /\ t.at = "import"
      BY <1>1, <1>10, <2>1 DEF ForceImport, At
    <2>3. /\ x.at = "check" /\ x.proxy = t.proxy /\ x.metadata = t.metadata /\ x.revision = t.revision
      BY <1>2, <2>1 DEF TaskRecords
    <2>4. TaskCurrent(d, c, t) => TaskCurrent(d, c, x)
      BY <2>2, <2>3 DEF TaskCurrent, KnowsAddress, HasRevision
    <2>5. QED
      BY <1>6, <2>2, <2>3, <2>4
  <1>11. QED
    BY <1>5, <1>7, <1>8, <1>9, <1>10 DEF TaskFails, LockTimeout

LEMMA StoreActs ==
  ASSUME BaseInv, NEW d \in Deployments, NEW c \in Contracts, Store(d, c)
  PROVE  Grows /\ UNCHANGED <<registry, proxies>> /\ \E x : Acts(d, c, x)
  <1>1. PICK t : t = tasks[d][c]
    OBVIOUS
  <1>2. TaskOK(t, c) /\ t \in TaskRecords /\ t.at = "store" /\ t.revision \in Revisions
    BY <1>1 DEF BaseInv, TaskOK, Store, At, HasRevision
  <1>3. UNCHANGED <<registry, proxies, imported>> /\ Leaves(c)
    BY LeavesAll DEF Store
  <1>4. Grows
    <2>1. CASE UNCHANGED chain
      BY <1>3, <2>1, GrowsNot DEF BaseInv
    <2>2. ASSUME NEW live \in BOOLEAN,
                 chain' = Append(chain, [contract |-> c, live |-> live, revision |-> t.revision])
          PROVE  Grows
      <3>1. PICK i \in Impls : i = [contract |-> c, live |-> live, revision |-> t.revision]
        BY <1>2 DEF Impls
      <3>2. QED
        BY <1>3, <2>2, <3>1, GrowsByImpl DEF BaseInv
    <2>3. QED
      BY <1>1, <2>1, <2>2 DEF Store
  <1>5. CASE Throw(d, c)
    BY <1>3, <1>4, <1>5, ThrowActs
  <1>6. ASSUME NEW a, Become(d, c, [t EXCEPT !.at = "validate", !.seen = {}, !.impl = a]),
               UNCHANGED <<deps, build, linked, latest>>
        PROVE  \E x : Acts(d, c, x)
    <2>1. PICK x : x = [t EXCEPT !.at = "validate", !.seen = {}, !.impl = a]
      OBVIOUS
    <2>2. /\ x.at = "validate" /\ x.proxy = t.proxy /\ x.metadata = t.metadata /\ x.revision = t.revision
          /\ x.checked = t.checked /\ Become(d, c, x)
      BY <1>2, <1>6, <2>1 DEF TaskRecords
    <2>3. TaskCurrent(d, c, t) => TaskCurrent(d, c, x)
      BY <1>2, <2>2 DEF TaskCurrent, KnowsAddress, HasRevision, NeedsNew
    <2>4. Acts(d, c, x)
      BY <1>1, <1>2, <1>3, <1>4, <1>6, <2>2, <2>3, GoesOnActs DEF TaskOK
    <2>5. QED
      BY <2>4
  <1>7. QED
    <2>1. Throw(d, c) \/ \E a : /\ Become(d, c, [t EXCEPT !.at = "validate", !.seen = {}, !.impl = a])
                                /\ UNCHANGED <<deps, build, linked, latest>>
      BY <1>1 DEF Store
    <2>2. QED
      BY <1>3, <1>4, <1>5, <1>6, <2>1

\* UpgradeTo and DeployProxy: what the proxy runs after it is the checked, live source.
LEMMA PointActs ==
  ASSUME BaseInv, NEW d \in Deployments, NEW c \in Contracts, UpgradeTo(d, c) \/ DeployProxy(d, c)
  PROVE  /\ Grows /\ UNCHANGED registry /\ \E x : Acts(d, c, x)
         /\ \A b \in Contracts \ {c} : Leaves(b)
  <1>1. PICK t : t = tasks[d][c]
    OBVIOUS
  <1>2. TaskOK(t, c) /\ t \in TaskRecords /\ t.at = "point" /\ WorldOK /\ UNCHANGED <<registry, chain, imported>>
    BY <1>1 DEF BaseInv, TaskOK, UpgradeTo, DeployProxy, At
  <1>3. /\ t.impl \in DOMAIN chain /\ Code(t.impl).contract = c /\ Code(t.impl).live
        /\ c \in imported \/ Code(t.impl).revision = t.revision
        /\ t.proxy # 0 => IsProxyOf(c, t.proxy)
    BY <1>2 DEF TaskOK, IsCodeOf
  <1>4. CASE UpgradeTo(d, c)
    <2>1. PICK x : x = [t EXCEPT !.at = "publish"]
      OBVIOUS
    <2>2. /\ Become(d, c, x) /\ proxies' = [proxies EXCEPT ![t.proxy] = t.impl] /\ t.proxy # 0
          /\ UNCHANGED <<deps, build, linked, latest>>
      BY <1>1, <1>4, <2>1 DEF UpgradeTo, Fresh
    <2>3. x.at = "publish" /\ x.proxy = t.proxy /\ x.revision = t.revision
      BY <1>2, <2>1 DEF TaskRecords
    <2>4. Grows
      BY <1>2, <1>3, <2>2, GrowsByUpgrade
    <2>5. /\ DOMAIN proxies' = DOMAIN proxies /\ proxies'[t.proxy] = t.impl
          /\ \A p \in DOMAIN proxies : p # t.proxy => proxies'[p] = proxies[p]
      BY <1>2, <1>3, <2>2 DEF WorldOK, IsProxyOf
    <2>6. \A b \in Contracts \ {c} : Leaves(b)
      BY <1>2, <1>3, <2>2, <2>5 DEF Leaves, IsProxyOf
    <2>7. TaskCurrent(d, c, t) => TaskCurrent(d, c, x)'
      <3>1. HAVE TaskCurrent(d, c, t)
      <3>2. t.revision = deps'[d].source[c] /\ t.proxy = registry'.address[c]
        BY <1>2, <2>2, <3>1 DEF TaskCurrent, KnowsAddress, HasRevision
      <3>3. Runs(d, c, x.proxy)'
        BY <1>2, <1>3, <2>3, <2>5, <3>2 DEF Runs, Code
      <3>4. QED
        BY <2>3, <3>2, <3>3 DEF TaskCurrent, KnowsAddress, HasRevision
    <2>8. Acts(d, c, x)
      BY <1>1, <1>2, <2>2, <2>3, <2>7 DEF Acts
    <2>9. QED
      BY <1>2, <2>4, <2>6, <2>8
  <1>5. CASE DeployProxy(d, c)
    <2>1. proxies' = Append(proxies, t.impl) /\ Fresh(d, c)
      BY <1>1, <1>5 DEF DeployProxy
    <2>2. PICK n : n = Len(proxies')
      OBVIOUS
    <2>3. /\ Grows /\ n \in DOMAIN proxies' /\ proxies'[n] = t.impl
          /\ \A p \in DOMAIN proxies : proxies'[p] = proxies[p]
      BY <1>2, <1>3, <2>1, <2>2, GrowsByProxy
    <2>4. \A b \in Contracts : Leaves(b)
      BY <1>2, <2>3 DEF Leaves, Grows, IsProxyOf
    <2>5. CASE Throw(d, c)
      BY <1>2, <2>3, <2>4, <2>5, ThrowActs
    <2>6. CASE ~Throw(d, c)
      <3>1. PICK x : x = [t EXCEPT !.at = "publish", !.proxy = n]
        OBVIOUS
      <3>2. Become(d, c, x) /\ UNCHANGED <<deps, build, linked, latest>>
        BY <1>1, <1>5, <2>2, <2>6, <3>1 DEF DeployProxy
      <3>3. x.at = "publish" /\ x.proxy = n /\ x.revision = t.revision
        BY <1>2, <3>1 DEF TaskRecords
      <3>4. TaskCurrent(d, c, t) => TaskCurrent(d, c, x)'
        <4>1. HAVE TaskCurrent(d, c, t)
        <4>2. /\ t.revision = deps'[d].source[c] /\ t.proxy = registry'.address[c]
              /\ t.metadata = registry'.metadata
          BY <1>2, <3>2, <4>1 DEF TaskCurrent, KnowsAddress, HasRevision
        <4>3. Runs(d, c, x.proxy)'
          BY <1>2, <1>3, <2>3, <3>3, <4>2 DEF Runs, Code
        <4>4. deps'[d].force \/ registry'.address[c] = 0 \/ registry'.metadata = None
          BY <1>1, <2>1, <3>2, <4>2 DEF Fresh
        <4>5. QED
          BY <3>3, <4>2, <4>3, <4>4 DEF TaskCurrent, KnowsAddress, HasRevision
      <3>5. Acts(d, c, x)
        BY <1>1, <1>2, <3>2, <3>3, <3>4 DEF Acts
      <3>6. QED
        BY <1>2, <2>3, <2>4, <3>5
    <2>7. QED
      BY <1>2, <2>3, <2>4, <2>5, <2>6
  <1>6. QED
    BY <1>4, <1>5

LEMMA PutAddressActs ==
  ASSUME BaseInv, NEW d \in Deployments, NEW c \in Contracts, PutAddress(d, c)
  PROVE  Grows /\ (\E x : Acts(d, c, x)) /\ \A b \in Contracts \ {c} : Leaves(b)
  <1>1. PICK t : t = tasks[d][c]
    OBVIOUS
  <1>2. TaskOK(t, c) /\ t \in TaskRecords /\ t.at = "publish" /\ UNCHANGED <<chain, proxies, imported>>
    BY <1>1 DEF BaseInv, TaskOK, PutAddress, At
  <1>3. Grows
    BY <1>2, GrowsNot DEF BaseInv
  <1>4. CASE Throw(d, c) /\ UNCHANGED registry
    <2>1. \A b \in Contracts : Leaves(b)
      BY <1>2, <1>4, LeavesAll
    <2>2. QED
      BY <1>3, <1>4, <2>1, ThrowActs
  <1>5. CASE build[c] # None
    <2>1. PICK x : x = [t EXCEPT !.at = "abi", !.revision = build[c]]
      OBVIOUS
    <2>2. /\ Become(d, c, x) /\ registry' = [registry EXCEPT !.address[c] = t.proxy]
          /\ UNCHANGED <<deps, build, linked, latest>>
      BY <1>1, <1>5, <2>1 DEF PutAddress
    <2>3. x.at = "abi" /\ x.proxy = t.proxy /\ x.revision = build[c]
      BY <1>2, <2>1 DEF TaskRecords
    <2>4. registry \in RegistryRecords
      BY PartsOK
    <2>5. /\ registry'.address[c] = t.proxy /\ registry'.abi = registry.abi /\ registry'.metadata = registry.metadata
          /\ \A b \in Contracts \ {c} : registry'.address[b] = registry.address[b]
      BY <2>2, <2>4 DEF RegistryRecords
    <2>6. \A b \in Contracts \ {c} : Leaves(b)
      BY <1>2, <2>5 DEF Leaves
    <2>7. TaskCurrent(d, c, t) /\ build = deps[d].source => TaskCurrent(d, c, x)'
      <3>1. HAVE TaskCurrent(d, c, t) /\ build = deps[d].source
      <3>2. Runs(d, c, t.proxy)'
        BY <1>2, <2>2, <3>1 DEF TaskCurrent, Runs, Code
      <3>3. x.revision = deps'[d].source[c]
        BY <2>2, <2>3, <3>1
      <3>4. QED
        BY <2>3, <2>5, <3>2, <3>3 DEF TaskCurrent, KnowsAddress, HasRevision
    <2>8. Acts(d, c, x)
      BY <1>1, <1>2, <2>2, <2>3, <2>7 DEF Acts
    <2>9. QED
      BY <1>3, <2>6, <2>8
  <1>6. QED
    BY <1>4, <1>5 DEF PutAddress

\* Every step of a task but the last, and what every step of it leaves to the other contracts.
LEMMA TaskActs ==
  ASSUME BaseInv, NEW d \in Deployments, NEW c \in Contracts, TaskStep(d, c)
  PROVE  /\ Grows /\ TaskBusy(d, c) /\ (PutAbi(d, c) \/ \E x : Acts(d, c, x))
         /\ \A b \in Contracts \ {c} : Leaves(b)
  <1>1. TaskBusy(d, c)
    BY DEF TaskStep, TaskBusy, At, GetAddress, GetMetadata, GetFactory, RestoreManifest, CheckLayout, Fetch, Store,
       Validate, UpgradeTo, DeployProxy, DiscardManifest, ForceImport, PutAddress, PutAbi, TaskFails, LockTimeout
  <1>2. CASE GetAddress(d, c) \/ GetMetadata(d, c) \/ RestoreManifest(d, c) \/ Fetch(d, c) \/ DiscardManifest(d, c)
    <2>1. UNCHANGED <<registry, chain, proxies, imported>>
      BY <1>2 DEF GetAddress, GetMetadata, RestoreManifest, Fetch, DiscardManifest, KeepsShared
    <2>2. Grows /\ \A b \in Contracts : Leaves(b)
      BY <2>1, GrowsNot, LeavesAll DEF BaseInv
    <2>3. QED
      BY <1>1, <1>2, <2>2, ReadingActs
  <1>3. CASE \/ GetFactory(d, c) \/ CheckLayout(d, c) \/ Validate(d, c) \/ ForceImport(d, c)
             \/ TaskFails(d, c) \/ LockTimeout(d, c)
    <2>1. UNCHANGED <<registry, chain, proxies>> /\ imported' \in {imported, imported \cup {c}}
      BY <1>3 DEF GetFactory, CheckLayout, Validate, ForceImport, TaskFails, LockTimeout, KeepsShared
    <2>2. Grows /\ \A b \in Contracts : Leaves(b)
      BY <2>1, GrowsNot, GrowsByImport, LeavesAll DEF BaseInv
    <2>3. QED
      BY <1>1, <1>3, <2>2, FactoryActs
  <1>4. CASE Store(d, c)
    BY <1>1, <1>4, StoreActs, LeavesAll
  <1>5. CASE UpgradeTo(d, c) \/ DeployProxy(d, c)
    BY <1>1, <1>5, PointActs
  <1>6. CASE PutAddress(d, c)
    BY <1>1, <1>6, PutAddressActs
  <1>7. CASE PutAbi(d, c)
    <2>1. UNCHANGED <<chain, proxies, imported>>
      BY <1>7 DEF PutAbi
    <2>2. Grows
      BY <2>1, GrowsNot DEF BaseInv
    <2>3. PICK v : registry' = [registry EXCEPT !.abi[c] = v]
      BY <1>7 DEF PutAbi
    <2>4. \A b \in Contracts \ {c} : Leaves(b)
      BY <2>1, <2>3, PartsOK DEF Leaves, RegistryRecords
    <2>5. QED
      BY <1>1, <1>7, <2>2, <2>4
  <1>8. QED
    BY <1>2, <1>3, <1>4, <1>5, <1>6, <1>7 DEF TaskStep

-----------------------------------------------------------------------------
(* While d acts the other deployments stay as they are.                    *)

LEMMA OnlyOneActs ==
  ASSUME BaseInv, LifeInv, ProgressInv, NEW d \in Deployments, Busy(d),
         \A e \in Deployments \ {d} : deps'[e] = deps[e] /\ \A c \in Contracts : tasks'[e][c] = tasks[e][c],
         deps'[d].alone = deps[d].alone, PhasesOK(d)', AddressesOK',
         \/ latest' = latest
         \/ latest' = d /\ deps[d].alone /\ deps'[d].phase = "done" /\ ~Busy(d)',
         deps[d].alone /\ Busy(d)' => Progress(d)'
  PROVE  LifeInv' /\ ProgressInv'
  <1>1. \A e \in Deployments \ {d} : (Busy(e)' <=> Busy(e)) /\ (PhasesOK(e)' <=> PhasesOK(e))
    BY DEF Busy, TaskBusy, PhasesOK, At
  <1>2. \A e \in Deployments : PhasesOK(e)'
    BY <1>1 DEF LifeInv
  <1>3. AloneOK'
    BY <1>1 DEF AloneOK, LifeInv
  <1>4. LatestOK'
    <2>1. latest = None
      BY DEF LifeInv, LatestOK
    <2>2. deps[d].alone => \A e \in Deployments \ {d} : ~Busy(e)
      BY DEF LifeInv, AloneOK
    <2>3. QED
      BY <1>1, <2>1, <2>2 DEF LatestOK
  <1>5. ProgressInv'
    <2>1. SUFFICES ASSUME NEW e \in Deployments, Busy(e)', deps'[e].alone  PROVE Progress(e)'
      BY DEF ProgressInv
    <2>2. e = d
      BY <1>1, <2>1 DEF LifeInv, AloneOK
    <2>3. QED
      BY <2>1, <2>2
  <1>6. QED
    BY <1>2, <1>3, <1>4, <1>5 DEF LifeInv

LEMMA TaskEffects ==
  ASSUME BaseInv, NEW d \in Deployments, NEW c \in Contracts, TaskStep(d, c)
  PROVE  /\ deps' \in {deps, [deps EXCEPT ![d].phase = "failed"]} /\ UNCHANGED <<build, linked, latest>>
         /\ \A e \in Deployments \ {d}, b \in Contracts : tasks'[e][b] = tasks[e][b]
         /\ tasks'[d][c].at # "idle"
         /\ \A b \in Contracts \ {c} : \/ tasks'[d][b] = tasks[d][b]
                                       \/ /\ deps[d].mode = "site" /\ b = c + 1 /\ tasks'[d][c].at = "done"
                                          /\ tasks'[d][b] = [IdleTask EXCEPT !.at = "address"]
         /\ tasks'[d][c].at = "failed" => deps'[d].phase = "failed"
         /\ tasks[d][c].at = "abi" => tasks'[d][c].at \in {"done", "failed"}
         /\ \A b \in Contracts : registry'.address[b] = registry.address[b] \/ (b = c /\ tasks'[d][c].at = "abi")
         /\ registry'.metadata = registry.metadata
  <1>1. /\ tasks \in [Deployments -> [Contracts -> TaskRecords]]
        /\ deps \in [Deployments -> DeploymentRecords] /\ registry \in RegistryRecords
    BY PartsOK DEF BaseInv
  <1>2. CASE PutAbi(d, c)
    <2>1. PICK f : f = [o \in Contracts |->
             CASE o = c -> [IdleTask EXCEPT !.at = "done"]
               [] o = c + 1 /\ deps[d].mode = "site" -> [IdleTask EXCEPT !.at = "address"]
               [] OTHER -> tasks[d][o]]
      OBVIOUS
    <2>2. tasks' = [tasks EXCEPT ![d] = f] /\ UNCHANGED <<deps, build, linked, latest>>
      BY <1>2, <2>1 DEF PutAbi
    <2>3. f[c] = [IdleTask EXCEPT !.at = "done"]
      BY <2>1 DEF Contracts
    <2>4. \A b \in Contracts \ {c} :
            \/ f[b] = tasks[d][b]
            \/ b = c + 1 /\ deps[d].mode = "site" /\ f[b] = [IdleTask EXCEPT !.at = "address"]
      <3>1. TAKE b \in Contracts \ {c}
      <3>2. CASE b = c + 1 /\ deps[d].mode = "site"
        BY <2>1, <3>2
      <3>3. CASE ~(b = c + 1 /\ deps[d].mode = "site")
        BY <2>1, <3>3
      <3>4. QED
        BY <3>2, <3>3
    <2>5. f[c].at = "done"
      BY <2>3 DEF IdleTask
    <2>6. tasks'[d] = f /\ \A e \in Deployments \ {d} : tasks'[e] = tasks[e]
      BY <1>1, <2>2
    <2>7. PICK v : registry' = [registry EXCEPT !.abi[c] = v]
      BY <1>2 DEF PutAbi
    <2>8. registry'.address = registry.address /\ registry'.metadata = registry.metadata
      BY <1>1, <2>7 DEF RegistryRecords
    <2>9. QED
      BY <2>2, <2>4, <2>5, <2>6, <2>8
  <1>3. ASSUME NEW x, Acts(d, c, x)
        PROVE  /\ tasks'[d][c] = x /\ \A e \in Deployments, b \in Contracts : <<e, b>> = <<d, c>> \/ tasks'[e][b] = tasks[e][b]
               /\ \A b \in Contracts : registry'.address[b] = registry.address[b] \/ (b = c /\ x.at = "abi")
               /\ registry'.metadata = registry.metadata
               /\ x.at = "failed" => deps'[d].phase = "failed"
    <2>1. tasks' = [tasks EXCEPT ![d][c] = x]
      BY <1>3 DEF Acts, Become
    <2>2. tasks'[d][c] = x /\ \A e \in Deployments, b \in Contracts : <<e, b>> = <<d, c>> \/ tasks'[e][b] = tasks[e][b]
      BY <1>1, <2>1
    <2>3. \/ UNCHANGED registry
          \/ registry' = [registry EXCEPT !.address[c] = tasks[d][c].proxy] /\ x.at = "abi"
      BY <1>3 DEF Acts
    <2>4. /\ \A b \in Contracts : registry'.address[b] = registry.address[b] \/ (b = c /\ x.at = "abi")
          /\ registry'.metadata = registry.metadata
      BY <1>1, <2>3 DEF RegistryRecords
    <2>5. x.at = "failed" => deps'[d].phase = "failed"
      BY <1>1, <1>3 DEF Acts, DeploymentRecords
    <2>6. QED
      BY <2>2, <2>4, <2>5
  <1>4. CASE \E x : Acts(d, c, x)
    <2>1. PICK x : Acts(d, c, x)
      BY <1>4
    <2>2. /\ deps' \in {deps, [deps EXCEPT ![d].phase = "failed"]} /\ UNCHANGED <<build, linked, latest>>
          /\ x.at # "idle" /\ (tasks[d][c].at = "abi" => x.at = "failed")
      BY <2>1 DEF Acts
    <2>3. QED
      BY <1>3, <2>1, <2>2
  <1>5. QED
    BY <1>2, <1>4, TaskActs

LEMMA TaskStepKeepsLife ==
  ASSUME BaseInv, LifeInv, NEW d \in Deployments, NEW c \in Contracts, TaskStep(d, c)
  PROVE  PhasesOK(d)' /\ AddressesOK' /\ deps'[d].phase \in {"contracts", "failed"}
  <1>1. TaskBusy(d, c) /\ PhasesOK(d) /\ deps[d].phase \in {"contracts", "failed"}
    BY TaskActs DEF LifeInv, PhasesOK
  <1>2. /\ deps'[d].phase \in {deps[d].phase, "failed"} /\ deps'[d].mode = deps[d].mode
        /\ \A e \in Deployments \ {d} : deps'[e] = deps[e]
    BY TaskEffects, ChoicesStay
  <1>3. ASSUME deps[d].mode = "site", NEW b \in Contracts, TaskBusy(d, b)', NEW o \in Contracts, o > b
        PROVE  tasks'[d][o].at = "idle"
    <2>1. \A i \in Contracts : i > c => At(d, i, "idle")
      BY <1>1, <1>3 DEF PhasesOK
    <2>2. c \in Int /\ b \in Int /\ o \in Int
      BY DEF Contracts
    <2>3. b >= c
      <3>1. SUFFICES ASSUME b < c  PROVE FALSE
        BY <2>2
      <3>2. tasks'[d][b] = tasks[d][b]
        BY <2>2, <3>1, TaskEffects
      <3>3. TaskBusy(d, b)
        BY <1>3, <3>2 DEF TaskBusy
      <3>4. At(d, c, "idle")
        BY <1>1, <1>3, <2>2, <3>1, <3>3 DEF PhasesOK
      <3>5. QED
        BY <1>1, <3>4 DEF TaskBusy, At
    <2>4. At(d, o, "idle") /\ o # c
      BY <1>3, <2>1, <2>2, <2>3
    <2>5. ~(o = c + 1 /\ tasks'[d][c].at = "done")
      <3>1. SUFFICES ASSUME o = c + 1, tasks'[d][c].at = "done"  PROVE FALSE
        OBVIOUS
      <3>2. b = c
        BY <1>3, <2>2, <2>3, <3>1
      <3>3. QED
        BY <1>3, <3>1, <3>2 DEF TaskBusy
    <2>6. tasks'[d][o] = tasks[d][o]
      BY <2>4, <2>5, TaskEffects
    <2>7. QED
      BY <2>4, <2>6 DEF At
  <1>4. PhasesOK(d)'
    BY <1>1, <1>2, <1>3 DEF PhasesOK, At
  <1>5. AddressesOK'
    <2>1. SUFFICES ASSUME NEW b \in Contracts, registry'.address[b] # 0, registry'.metadata = None
                   PROVE  \E e \in Deployments : HasPut(e, b)'
      BY DEF AddressesOK
    <2>2. CASE b = c /\ tasks'[d][c].at = "abi"
      <3>1. HasPut(d, b)'
        BY <1>1, <1>2, <2>2 DEF HasPut
      <3>2. QED
        BY <3>1
    <2>3. CASE registry'.address[b] = registry.address[b]
      <3>1. PICK e \in Deployments : HasPut(e, b)
        BY <2>1, <2>3, TaskEffects DEF LifeInv, AddressesOK
      <3>2. CASE e # d
        <4>1. HasPut(e, b)'
          BY <1>2, <3>1, <3>2, TaskEffects DEF HasPut
        <4>2. QED
          BY <4>1
      <3>3. CASE e = d /\ deps'[d].phase = "failed"
        <4>1. HasPut(d, b)'
          BY <3>3 DEF HasPut
        <4>2. QED
          BY <4>1
      <3>4. CASE e = d /\ deps'[d].phase # "failed"
        <4>1. deps'[d].phase = "contracts" /\ tasks[d][b].at \in {"abi", "done"}
          BY <1>1, <1>2, <3>1, <3>4 DEF HasPut
        <4>2. tasks'[d][b].at \in {"abi", "done"}
          <5>1. CASE b = c
            BY <1>1, <3>4, <4>1, <5>1, TaskEffects DEF TaskBusy
          <5>2. CASE b # c
            <6>1. deps[d].mode = "site" => b # c + 1
              <7>1. SUFFICES ASSUME deps[d].mode = "site", b = c + 1  PROVE FALSE
                OBVIOUS
              <7>2. At(d, b, "idle")
                BY <1>1, <7>1 DEF PhasesOK, Contracts
              <7>3. QED
                BY <4>1, <7>2 DEF At
            <6>2. tasks'[d][b] = tasks[d][b]
              BY <5>2, <6>1, TaskEffects
            <6>3. QED
              BY <4>1, <6>2
          <5>3. QED
            BY <5>1, <5>2
        <4>3. HasPut(d, b)'
          BY <4>1, <4>2 DEF HasPut
        <4>4. QED
          BY <4>3
      <3>5. QED
        BY <3>2, <3>3, <3>4
    <2>4. QED
      BY <2>2, <2>3, TaskEffects
  <1>6. QED
    BY <1>1, <1>2, <1>4, <1>5

LEMMA TaskStepKeepsProgress ==
  ASSUME BaseInv, BaseInv', LifeInv, NEW d \in Deployments, NEW c \in Contracts, TaskStep(d, c), Progress(d)
  PROVE  Progress(d)'
  <1>1. TaskBusy(d, c) /\ deps'[d].phase \in {"contracts", "failed"} /\ Grows
    BY TaskStepKeepsLife, TaskActs
  <1>2. build = deps[d].source /\ \A b \in Contracts : TaskCurrent(d, b, tasks[d][b])
    BY <1>1 DEF Progress
  <1>3. SameChoices(d) /\ build' = build
    BY ChoicesStay, TaskEffects
  <1>4. ASSUME NEW b \in Contracts, b # c  PROVE TaskCurrent(d, b, tasks[d][b])'
    <2>1. CASE tasks'[d][b] = tasks[d][b]
      <3>1. PICK t : t = tasks[d][b] /\ t = tasks'[d][b]
        BY <2>1
      <3>2. /\ t.proxy # 0 => IsProxyOf(b, t.proxy)
            /\ t.at \in {"publish", "abi"} => t.proxy # 0
        BY <3>1 DEF BaseInv, TaskOK
      <3>3. Leaves(b)
        BY <1>4, TaskActs
      <3>4. TaskCurrent(d, b, t)'
        BY <1>1, <1>2, <1>3, <3>1, <3>2, <3>3, CurrentStill
      <3>5. QED
        BY <3>1, <3>4
    <2>2. CASE tasks'[d][b] = [IdleTask EXCEPT !.at = "address"]
      <3>1. tasks'[d][b].at = "address"
        BY <2>2 DEF IdleTask
      <3>2. QED
        BY <3>1 DEF TaskCurrent, KnowsAddress, HasRevision
    <2>3. QED
      BY <1>4, <2>1, <2>2, TaskEffects
  <1>5. TaskCurrent(d, c, tasks[d][c])'
    <2>1. CASE \E x : Acts(d, c, x)
      <3>1. PICK x : Acts(d, c, x)
        BY <2>1
      <3>2. TaskCurrent(d, c, x)'
        BY <1>2, <3>1 DEF Acts
      <3>3. tasks' = [tasks EXCEPT ![d][c] = x]
        BY <3>1 DEF Acts, Become
      <3>4. tasks'[d][c] = x
        BY <3>3 DEF BaseInv
      <3>5. QED
        BY <3>2, <3>4
    <2>2. CASE PutAbi(d, c)
      <3>1. PICK t : t = tasks[d][c]
        OBVIOUS
      <3>2. /\ t.at = "abi" /\ TaskCurrent(d, c, t) /\ UNCHANGED <<deps, chain, proxies, imported>>
            /\ registry' = [registry EXCEPT !.abi[c] = [by |-> d, revision |-> t.revision]]
        BY <1>2, <2>2, <3>1 DEF PutAbi, At
      <3>3. /\ registry'.address = registry.address
            /\ registry'.abi[c] = [by |-> d, revision |-> t.revision]
        BY <3>2, PartsOK DEF RegistryRecords
      <3>4. /\ registry.address[c] = t.proxy /\ t.proxy # 0 /\ t.revision = deps[d].source[c]
            /\ Runs(d, c, t.proxy)
        BY <3>1, <3>2 DEF TaskCurrent, HasRevision, BaseInv, TaskOK
      <3>5. Runs(d, c, t.proxy)'
        BY <3>2, <3>4 DEF Runs, Code
      <3>6. Published(d, c)'
        BY <3>2, <3>3, <3>4, <3>5 DEF Published
      <3>7. tasks'[d][c].at = "done"
        <4>1. tasks'[d][c] = [IdleTask EXCEPT !.at = "done"]
          BY <2>2 DEF PutAbi, BaseInv, Contracts
        <4>2. QED
          BY <4>1 DEF IdleTask
      <3>8. QED
        BY <3>6, <3>7 DEF TaskCurrent, KnowsAddress, HasRevision
    <2>3. QED
      BY <2>1, <2>2, TaskActs
  <1>6. build' = deps'[d].source
    BY <1>2, <1>3 DEF SameChoices
  <1>7. QED
    BY <1>1, <1>4, <1>5, <1>6 DEF Progress

LEMMA TaskStepKeeps ==
  ASSUME BaseInv, BaseInv', LifeInv, ProgressInv, NEW d \in Deployments, NEW c \in Contracts, TaskStep(d, c)
  PROVE  LifeInv' /\ ProgressInv'
  <1>1. Busy(d)
    BY TaskActs DEF Busy
  <1>2. \A e \in Deployments \ {d} : deps'[e] = deps[e] /\ \A b \in Contracts : tasks'[e][b] = tasks[e][b]
    BY TaskEffects, ChoicesStay
  <1>3. deps'[d].alone = deps[d].alone /\ latest' = latest
    BY TaskEffects, ChoicesStay
  <1>4. PhasesOK(d)' /\ AddressesOK'
    BY TaskStepKeepsLife
  <1>5. deps[d].alone => Progress(d)'
    BY <1>1, TaskStepKeepsProgress DEF ProgressInv
  <1>6. QED
    BY <1>1, <1>2, <1>3, <1>4, <1>5, OnlyOneActs

-----------------------------------------------------------------------------
(* The steps of a deployment itself.                                       *)

LEMMA PhaseMoves ==
  ASSUME BaseInv, NEW d \in Deployments, NEW p \in Phases, deps' = [deps EXCEPT ![d].phase = p]
  PROVE  /\ deps'[d].phase = p /\ SameChoices(d) /\ deps'[d].alone = deps[d].alone
         /\ deps'[d].mode = deps[d].mode
         /\ \A e \in Deployments \ {d} : deps'[e] = deps[e]
  BY DEF BaseInv, DeploymentRecords, SameChoices

LEMMA EndMoves ==
  ASSUME BaseInv, NEW d \in Deployments, NEW p, NEW m, deps' = [deps EXCEPT ![d].phase = p, ![d].metadata = m]
  PROVE  /\ deps'[d].phase = p /\ SameChoices(d) /\ deps'[d].alone = deps[d].alone
         /\ deps'[d].mode = deps[d].mode
         /\ \A e \in Deployments \ {d} : deps'[e] = deps[e]
  BY DEF BaseInv, DeploymentRecords, SameChoices

LEMMA EndMovesTo ==
  ASSUME BaseInv, NEW d \in Deployments, NEW p, To(d, p)
  PROVE  deps'[d].phase = p
  BY DEF To, BaseInv, DeploymentRecords

LEMMA PublishedInPlace ==
  ASSUME BaseInv, NEW d \in Deployments, UNCHANGED <<chain, proxies, imported>>, SameChoices(d),
         registry'.address = registry.address, registry'.abi = registry.abi
  PROVE  \A c \in Contracts : Published(d, c) => Published(d, c)'
  BY DEF Published, Runs, Code, SameChoices

LEMMA SettingUpKeepsLife ==
  ASSUME BaseInv, LifeInv, ProgressInv, NEW d \in Deployments, LinkSources(d) \/ Compile(d)
  PROVE  LifeInv' /\ ProgressInv'
  <1>1. /\ deps[d].phase \in {"linking", "compiling"} /\ UNCHANGED <<registry, latest>>
        /\ Busy(d) /\ PhasesOK(d) /\ deps[d].source # None
    BY DEF LinkSources, Compile, Busy, LifeInv, PhasesOK
  <1>2. \A c \in Contracts : tasks[d][c].at = "idle"
    BY <1>1 DEF PhasesOK, At
  <1>3. \A e \in Deployments, c \in Contracts : HasPut(e, c) => e # d
    BY <1>1 DEF HasPut
  <1>4. ASSUME \A e \in Deployments \ {d} :
                 deps'[e] = deps[e] /\ \A c \in Contracts : tasks'[e][c] = tasks[e][c]
        PROVE  AddressesOK'
    <2>1. SUFFICES ASSUME NEW c \in Contracts, registry'.address[c] # 0, registry'.metadata = None
                   PROVE  \E e \in Deployments : HasPut(e, c)'
      BY DEF AddressesOK
    <2>2. PICK e \in Deployments : HasPut(e, c)
      BY <1>1, <2>1 DEF LifeInv, AddressesOK
    <2>3. HasPut(e, c)'
      BY <1>3, <1>4, <2>2 DEF HasPut
    <2>4. QED
      BY <2>3
  <1>5. CASE LinkSources(d)
    <2>1. deps' = [deps EXCEPT ![d].phase = "compiling"] /\ linked' = deps[d].source /\ UNCHANGED tasks
      BY <1>5 DEF LinkSources
    <2>2. /\ deps'[d].phase = "compiling" /\ SameChoices(d) /\ deps'[d].alone = deps[d].alone
          /\ \A e \in Deployments \ {d} : deps'[e] = deps[e]
      BY <2>1, PhaseMoves DEF Phases
    <2>3. AddressesOK' /\ PhasesOK(d)'
      BY <1>1, <1>2, <1>4, <2>1, <2>2 DEF PhasesOK, TaskBusy, At, SameChoices
    <2>4. Progress(d)'
      BY <1>2, <2>1, <2>2 DEF Progress, TaskBusy, TaskCurrent, KnowsAddress, HasRevision, SameChoices
    <2>5. QED
      BY <1>1, <2>1, <2>2, <2>3, <2>4, OnlyOneActs
  <1>6. CASE Compile(d) /\ deps'[d].phase = "failed"
    <2>1. deps' = [deps EXCEPT ![d].phase = "failed"] \/ deps' = [deps EXCEPT ![d].phase = "contracts"]
      BY <1>6 DEF Compile
    <2>2. deps' = [deps EXCEPT ![d].phase = "failed"]
      <3>1. deps' = [deps EXCEPT ![d].phase = "contracts"] => deps'[d].phase = "contracts"
        BY PhaseMoves DEF Phases
      <3>2. QED
        BY <1>6, <2>1, <3>1
    <2>3. UNCHANGED tasks
      BY <1>6, <2>2 DEF Compile, BaseInv, DeploymentRecords
    <2>4. /\ deps'[d].alone = deps[d].alone
          /\ \A e \in Deployments \ {d} : deps'[e] = deps[e]
      BY <2>2, PhaseMoves DEF Phases
    <2>5. AddressesOK' /\ PhasesOK(d)' /\ ~Busy(d)'
      BY <1>2, <1>4, <1>6, <2>3, <2>4 DEF PhasesOK, TaskBusy, At, Busy
    <2>6. QED
      BY <1>1, <2>3, <2>4, <2>5, OnlyOneActs
  <1>7. CASE Compile(d) /\ deps'[d].phase # "failed"
    <2>1. deps' = [deps EXCEPT ![d].phase = "contracts"]
      <3>1. deps' = [deps EXCEPT ![d].phase = "failed"] => deps'[d].phase = "failed"
        BY PhaseMoves DEF Phases
      <3>2. QED
        BY <1>7, <3>1 DEF Compile
    <2>2. /\ deps'[d].phase = "contracts" /\ SameChoices(d) /\ deps'[d].alone = deps[d].alone
          /\ deps'[d].mode = deps[d].mode
          /\ \A e \in Deployments \ {d} : deps'[e] = deps[e]
      BY <2>1, PhaseMoves DEF Phases
    <2>3. PICK f : /\ f = [c \in Contracts |-> IF deps[d].mode = "contracts" \/ c = 1
                                               THEN [IdleTask EXCEPT !.at = "address"] ELSE IdleTask]
                   /\ tasks' = [tasks EXCEPT ![d] = f]
      <3>1. deps' # [deps EXCEPT ![d].phase = "failed"]
        BY <1>7, PhaseMoves DEF Phases
      <3>2. QED
        BY <1>7, <3>1 DEF Compile
    <2>4. tasks'[d] = f /\ \A e \in Deployments \ {d}, c \in Contracts : tasks'[e][c] = tasks[e][c]
      BY <2>3 DEF BaseInv
    <2>5. \A c \in Contracts : /\ f[c].at \in {"address", "idle"}
                               /\ deps[d].mode # "contracts" => c = 1 \/ f[c].at = "idle"
      BY <2>3 DEF IdleTask
    <2>6. PhasesOK(d)'
      <3>1. ASSUME deps[d].mode = "site", NEW b \in Contracts, TaskBusy(d, b)', NEW o \in Contracts, o > b
            PROVE  tasks'[d][o].at = "idle"
        BY <2>4, <2>5, <3>1 DEF TaskBusy, Contracts
      <3>2. QED
        BY <2>2, <2>4, <2>5, <3>1 DEF PhasesOK, TaskBusy, At
    <2>7. AddressesOK'
      BY <1>4, <2>2, <2>4
    <2>8. deps[d].alone => Progress(d)'
      <3>1. SUFFICES ASSUME deps[d].alone  PROVE Progress(d)'
        OBVIOUS
      <3>2. linked = deps[d].source
        BY <1>1, <1>7, <3>1 DEF Compile, ProgressInv, Progress
      <3>3. build' = deps'[d].source
        BY <1>1, <1>7, <2>2, <3>2 DEF Compile, SameChoices
      <3>4. \A c \in Contracts : TaskCurrent(d, c, tasks[d][c])'
        BY <2>4, <2>5 DEF TaskCurrent, KnowsAddress, HasRevision
      <3>5. QED
        BY <2>2, <3>3, <3>4 DEF Progress
    <2>9. QED
      BY <1>1, <2>2, <2>4, <2>6, <2>7, <2>8, OnlyOneActs
  <1>8. QED
    BY <1>5, <1>6, <1>7

\* Once its contracts are done a deployment has no busy task left.
LEMMA EndingEffects ==
  ASSUME BaseInv, LifeInv, NEW d \in Deployments,
         \/ ReadManifest(d) \/ PutMetadata(d) \/ Clean(d)
         \/ PutRoot(d) \/ PutZdns(d) \/ PutKeys(d) \/ DeploymentFails(d)
  PROVE  /\ UNCHANGED <<chain, proxies, imported, tasks>> /\ Busy(d) /\ \A c \in Contracts : ~TaskBusy(d, c)
         /\ registry'.address = registry.address /\ registry'.abi = registry.abi
         /\ deps'[d].phase \in Phases \ {"idle", "linking", "compiling", "contracts"}
         /\ SameChoices(d) /\ deps'[d].alone = deps[d].alone
         /\ \A e \in Deployments \ {d} : deps'[e] = deps[e]
         /\ latest' = IF deps'[d].phase = "done" /\ deps[d].alone THEN d ELSE latest
         /\ deps'[d].phase = "metadata" => ReadManifest(d) /\ deps'[d].metadata # None
         /\ deps'[d].phase = "failed" \/ registry'.metadata # None \/ deps'[d].phase = "metadata"
              \/ deps[d].phase \notin {"contracts", "metadata", "failed"}
  <1>1. UNCHANGED <<chain, proxies, imported, tasks>>
    BY DEF ReadManifest, PutMetadata, Clean, PutRoot, PutZdns, PutKeys, DeploymentFails, KeepsShared
  <1>2. deps[d].phase \notin {"idle", "done", "failed"} /\ (deps[d].phase = "contracts" => ReadManifest(d))
    BY DEF ReadManifest, PutMetadata, Clean, PutRoot, PutZdns, PutKeys, DeploymentFails
  <1>3. \A c \in Contracts : ~TaskBusy(d, c)
    <2>1. CASE ReadManifest(d)
      BY <2>1 DEF ReadManifest, At, TaskBusy
    <2>2. CASE ~ReadManifest(d)
      BY <1>2, <2>2 DEF LifeInv, PhasesOK
    <2>3. QED
      BY <2>1, <2>2
  <1>4. registry'.address = registry.address /\ registry'.abi = registry.abi
    <2>1. registry \in RegistryRecords
      BY PartsOK
    <2>2. UNCHANGED registry => registry'.address = registry.address /\ registry'.abi = registry.abi
      OBVIOUS
    <2>3. CASE PutMetadata(d)
      BY <2>1, <2>3 DEF PutMetadata, RegistryRecords
    <2>4. CASE PutRoot(d) \/ PutZdns(d) \/ PutKeys(d)
      BY <2>1, <2>4 DEF PutRoot, PutZdns, PutKeys, Put, RegistryRecords
    <2>5. QED
      BY <2>2, <2>3, <2>4 DEF ReadManifest, Clean, DeploymentFails, KeepsShared
  <1>5. PICK p, m : /\ p \in Phases \ {"idle", "linking", "compiling", "contracts"}
                    /\ deps' = [deps EXCEPT ![d].phase = p, ![d].metadata = m]
    BY DEF ReadManifest, PutMetadata, Clean, PutRoot, PutZdns, PutKeys, DeploymentFails, To, Phases
  <1>6. /\ deps'[d].phase = p /\ SameChoices(d) /\ deps'[d].alone = deps[d].alone
        /\ \A e \in Deployments \ {d} : deps'[e] = deps[e]
    BY <1>5, EndMoves
  <1>7. CASE ReadManifest(d)
    <2>1. /\ deps' = [deps EXCEPT ![d].phase = IF manifest = None THEN "failed" ELSE "metadata",
                                  ![d].metadata = manifest]
          /\ UNCHANGED latest
      BY <1>7 DEF ReadManifest
    <2>2. deps'[d].phase = (IF manifest = None THEN "failed" ELSE "metadata") /\ deps'[d].metadata = manifest
      BY <2>1 DEF BaseInv, DeploymentRecords
    <2>3. QED
      BY <1>1, <1>2, <1>3, <1>4, <1>5, <1>6, <1>7, <2>1, <2>2 DEF Busy
  <1>8. CASE ~ReadManifest(d)
    <2>1. PICK q \in Phases : /\ To(d, q) /\ q # "metadata"
                              /\ DeploymentFails(d) => q = "failed"
      BY <1>8 DEF PutMetadata, Clean, PutRoot, PutZdns, PutKeys, DeploymentFails, Phases
    <2>2. deps'[d].phase = q
      BY <2>1, EndMoves DEF To
    <2>3. latest' = IF deps'[d].phase = "done" /\ deps[d].alone THEN d ELSE latest
      BY <2>1, <2>2 DEF To
    <2>4. PutMetadata(d) => registry'.metadata # None
      <3>1. HAVE PutMetadata(d)
      <3>2. deps[d].metadata # None /\ registry' = [registry EXCEPT !.metadata = deps[d].metadata, !.described = d]
        BY <3>1 DEF PutMetadata, LifeInv, PhasesOK
      <3>3. QED
        BY <3>2, PartsOK DEF RegistryRecords
    <2>5. PutMetadata(d) \/ DeploymentFails(d) \/ deps[d].phase \notin {"contracts", "metadata", "failed"}
      BY <1>8 DEF Clean, PutRoot, PutZdns, PutKeys
    <2>6. deps'[d].phase = "failed" \/ registry'.metadata # None \/ deps[d].phase \notin {"contracts", "metadata", "failed"}
      BY <2>1, <2>2, <2>4, <2>5
    <2>7. QED
      BY <1>1, <1>2, <1>3, <1>4, <1>5, <1>6, <2>1, <2>2, <2>3, <2>6 DEF Busy
  <1>9. QED
    BY <1>7, <1>8

LEMMA EndingKeepsProgress ==
  ASSUME BaseInv, LifeInv, NEW d \in Deployments, Progress(d), deps'[d].phase \notin {"done", "failed"},
         \/ ReadManifest(d) \/ PutMetadata(d) \/ Clean(d)
         \/ PutRoot(d) \/ PutZdns(d) \/ PutKeys(d) \/ DeploymentFails(d)
  PROVE  Progress(d)'
  <1>1. /\ UNCHANGED <<chain, proxies, imported, tasks>> /\ \A c \in Contracts : ~TaskBusy(d, c)
        /\ registry'.address = registry.address /\ registry'.abi = registry.abi
        /\ deps'[d].phase \in Phases \ {"idle", "linking", "compiling", "contracts", "done", "failed"}
        /\ SameChoices(d)
    BY EndingEffects
  <1>2. \A c \in Contracts : Published(d, c) => Published(d, c)'
    BY <1>1, PublishedInPlace
  <1>3. ASSUME NEW c \in Contracts  PROVE TaskCurrent(d, c, tasks[d][c])'
    <2>1. tasks'[d][c] = tasks[d][c] /\ tasks[d][c].at \in {"idle", "done", "failed"}
      BY <1>1 DEF TaskBusy
    <2>2. tasks[d][c].at = "done" => Published(d, c)'
      BY <1>2 DEF Progress, TaskCurrent
    <2>3. QED
      BY <2>1, <2>2 DEF TaskCurrent, KnowsAddress, HasRevision
  <1>4. registry \in RegistryRecords
    BY PartsOK
  <1>5. PICK p : p = deps[d].phase
    OBVIOUS
  <1>6. PICK q : q = deps'[d].phase
    OBVIOUS
  <1>7. \/ ReadManifest(d) /\ p = "contracts" /\ q = "metadata"
        \/ PutMetadata(d) /\ p = "metadata" /\ q = "cleaning" /\ registry'.described = d
        \/ Clean(d) /\ p = "cleaning" /\ q = "root" /\ UNCHANGED registry
        \/ PutRoot(d) /\ p = "root" /\ q = "zdns" /\ registry' = [registry EXCEPT !.root = d]
        \/ PutZdns(d) /\ p = "zdns" /\ q = "keys" /\ registry' = [registry EXCEPT !.zdns = d]
    <2>0. \A r \in Phases : To(d, r) => deps'[d].phase = r
      BY EndMovesTo
    <2>1. CASE ReadManifest(d)
      <3>1. deps' = [deps EXCEPT ![d].phase = IF manifest = None THEN "failed" ELSE "metadata",
                                 ![d].metadata = manifest]
        BY <2>1 DEF ReadManifest
      <3>2. deps'[d].phase = (IF manifest = None THEN "failed" ELSE "metadata")
        BY <3>1 DEF BaseInv, DeploymentRecords
      <3>3. QED
        BY <1>5, <1>6, <2>1, <3>2 DEF ReadManifest
    <2>2. CASE PutMetadata(d)
      <3>1. deps'[d].phase = (IF deps[d].mode = "site" THEN "cleaning" ELSE "done")
        BY <2>0, <2>2 DEF PutMetadata, Phases
      <3>2. registry'.described = d
        BY <1>4, <2>2 DEF PutMetadata, RegistryRecords
      <3>3. QED
        BY <1>5, <1>6, <2>2, <3>1, <3>2 DEF PutMetadata
    <2>3. CASE Clean(d)
      BY <1>5, <1>6, <2>0, <2>3 DEF Clean, Phases
    <2>4. CASE PutRoot(d)
      BY <1>5, <1>6, <2>0, <2>4 DEF PutRoot, Put, Phases
    <2>5. CASE PutZdns(d)
      BY <1>5, <1>6, <2>0, <2>5 DEF PutZdns, Put, Phases
    <2>6. CASE PutKeys(d)
      BY <2>0, <2>6 DEF PutKeys, Phases
    <2>7. CASE DeploymentFails(d)
      BY <2>0, <2>7 DEF DeploymentFails, Phases
    <2>8. QED
      BY <2>1, <2>2, <2>3, <2>4, <2>5, <2>6, <2>7
  <1>8. q \in {"metadata", "cleaning", "root", "zdns", "keys"} /\ deps[d].source # None =>
          \A c \in Contracts : Published(d, c)'
    <2>1. SUFFICES ASSUME deps[d].source # None, NEW c \in Contracts  PROVE Published(d, c)
      BY <1>2
    <2>2. CASE ReadManifest(d)
      BY <2>2 DEF ReadManifest, At, Progress, TaskCurrent
    <2>3. CASE ~ReadManifest(d)
      BY <1>5, <1>7, <2>1, <2>3 DEF Progress
    <2>4. QED
      BY <2>2, <2>3
  <1>9. q \in {"cleaning", "root", "zdns", "keys"} /\ deps[d].source # None => registry'.described = d
    BY <1>4, <1>5, <1>7 DEF Progress, RegistryRecords
  <1>10. /\ q \in {"zdns", "keys"} => registry'.root = d
         /\ q = "keys" => registry'.zdns = d
    BY <1>4, <1>5, <1>7 DEF Progress, RegistryRecords
  <1>11. deps'[d].source = deps[d].source
    BY <1>1 DEF SameChoices
  <1>12. ~(\E c \in Contracts : TaskBusy(d, c)')
    BY <1>1 DEF TaskBusy
  <1>13. QED
    BY <1>1, <1>3, <1>6, <1>8, <1>9, <1>10, <1>11, <1>12 DEF Progress

LEMMA EndingKeepsLife ==
  ASSUME BaseInv, LifeInv, ProgressInv, NEW d \in Deployments,
         \/ ReadManifest(d) \/ PutMetadata(d) \/ Clean(d)
         \/ PutRoot(d) \/ PutZdns(d) \/ PutKeys(d) \/ DeploymentFails(d)
  PROVE  LifeInv' /\ ProgressInv'
  <1>1. \A c \in Contracts : ~TaskBusy(d, c) /\ ~TaskBusy(d, c)'
    BY EndingEffects DEF TaskBusy
  <1>2. PhasesOK(d)'
    BY <1>1, EndingEffects DEF PhasesOK
  <1>3. AddressesOK'
    <2>1. SUFFICES ASSUME NEW c \in Contracts, registry'.address[c] # 0, registry'.metadata = None
                   PROVE  \E e \in Deployments : HasPut(e, c)'
      BY DEF AddressesOK
    <2>2. PICK e \in Deployments : HasPut(e, c)
      <3>1. registry.metadata = None
        <4>1. CASE PutMetadata(d)
          BY <2>1, <4>1, PartsOK DEF PutMetadata, RegistryRecords, LifeInv, PhasesOK
        <4>2. CASE ~PutMetadata(d)
          BY <2>1, <4>2, PartsOK
          DEF ReadManifest, Clean, PutRoot, PutZdns, PutKeys, DeploymentFails, KeepsShared, Put, RegistryRecords
        <4>3. QED
          BY <4>1, <4>2
      <3>2. QED
        BY <2>1, <3>1, EndingEffects DEF LifeInv, AddressesOK
    <2>3. HasPut(e, c)'
      <3>1. CASE e # d
        BY <2>2, <3>1, EndingEffects DEF HasPut
      <3>2. CASE e = d
        BY <2>1, <2>2, <3>2, EndingEffects DEF HasPut
      <3>3. QED
        BY <3>1, <3>2
    <2>4. QED
      BY <2>3
  <1>4. ASSUME deps[d].alone, Busy(d)'  PROVE Progress(d)'
    <2>1. deps'[d].phase \notin {"done", "failed"}
      BY <1>1, <1>4 DEF Busy
    <2>2. Progress(d)
      BY <1>4, EndingEffects DEF ProgressInv
    <2>3. QED
      BY <2>1, <2>2, EndingKeepsProgress
  <1>5. deps'[d].phase = "done" => ~Busy(d)'
    BY <1>1 DEF Busy
  <1>6. QED
    BY <1>2, <1>3, <1>4, <1>5, EndingEffects, OnlyOneActs

LEMMA StartKeepsLife ==
  ASSUME BaseInv, LifeInv, NEW d \in Deployments, Start(d)
  PROVE  LifeInv' /\ ProgressInv'
  <1>1. PICK mode \in Modes, force \in BOOLEAN, source \in [Contracts -> Revisions] \cup {None} :
          /\ source = None => mode = "site" /\ ~force
          /\ deps' = [e \in Deployments |->
               CASE e = d ->
                    [IdleDeployment EXCEPT
                       !.phase = IF source = None THEN "root" ELSE "linking",
                       !.mode = mode, !.force = force, !.source = source,
                       !.alone = \A o \in Deployments : ~Busy(o)]
                 [] e # d /\ Busy(e) -> [deps[e] EXCEPT !.alone = FALSE]
                 [] OTHER -> [IdleDeployment EXCEPT !.phase = deps[e].phase]]
    BY DEF Start
  <1>2. deps[d].phase = "idle" /\ latest' = None /\ UNCHANGED <<tasks, registry>> /\ PhasesOK(d)
    BY DEF Start, LifeInv
  <1>3. \A c \in Contracts : tasks[d][c].at = "idle"
    BY <1>2 DEF PhasesOK, At
  <1>4. /\ deps'[d].phase \in {"root", "linking"} /\ (deps'[d].phase = "root" <=> source = None)
        /\ deps'[d].source = source /\ deps'[d].alone = \A o \in Deployments : ~Busy(o)
    <2>1. PICK a : a = \A o \in Deployments : ~Busy(o)
      OBVIOUS
    <2>2. PICK p : p = IF source = None THEN "root" ELSE "linking"
      OBVIOUS
    <2>3. deps'[d] = [IdleDeployment EXCEPT !.phase = p, !.mode = mode, !.force = force,
                                            !.source = source, !.alone = a]
      BY <1>1, <2>1, <2>2
    <2>4. deps'[d].phase = p /\ deps'[d].source = source /\ deps'[d].alone = a
      BY <2>3 DEF IdleDeployment
    <2>5. QED
      BY <2>1, <2>2, <2>4
  <1>5. ASSUME NEW e \in Deployments, e # d
        PROVE  /\ deps'[e].phase = deps[e].phase
               /\ Busy(e) => /\ deps'[e].alone = FALSE /\ deps'[e].source = deps[e].source
                             /\ deps'[e].metadata = deps[e].metadata /\ deps'[e].mode = deps[e].mode
    <2>1. deps[e] \in DeploymentRecords
      BY DEF BaseInv
    <2>2. CASE Busy(e)
      <3>1. deps'[e] = [deps[e] EXCEPT !.alone = FALSE]
        BY <1>1, <1>5, <2>2
      <3>2. QED
        BY <2>1, <3>1 DEF DeploymentRecords
    <2>3. CASE ~Busy(e)
      <3>1. deps'[e] = [IdleDeployment EXCEPT !.phase = deps[e].phase]
        BY <1>1, <1>5, <2>3
      <3>2. QED
        BY <2>3, <3>1 DEF IdleDeployment
    <2>4. QED
      BY <2>2, <2>3
  <1>6. \A e \in Deployments \ {d} : Busy(e)' <=> Busy(e)
    BY <1>2, <1>5 DEF Busy, TaskBusy
  <1>7. ASSUME NEW e \in Deployments  PROVE PhasesOK(e)'
    <2>1. PhasesOK(e)
      BY DEF LifeInv
    <2>2. CASE e = d
      BY <1>2, <1>3, <1>4, <2>2 DEF PhasesOK, TaskBusy, At
    <2>3. CASE e # d /\ Busy(e)
      BY <1>2, <1>5, <2>1, <2>3 DEF PhasesOK, TaskBusy, At
    <2>4. CASE e # d /\ ~Busy(e)
      BY <1>2, <1>5, <2>1, <2>4 DEF PhasesOK, TaskBusy, At, Busy
    <2>5. QED
      BY <2>2, <2>3, <2>4
  <1>8. AloneOK'
    <2>1. SUFFICES ASSUME NEW e \in Deployments, Busy(e)', deps'[e].alone, NEW o \in Deployments \ {e}
                   PROVE  ~Busy(o)'
      BY DEF AloneOK
    <2>2. e = d
      BY <1>5, <1>6, <2>1
    <2>3. QED
      BY <1>4, <1>6, <2>1, <2>2
  <1>9. AddressesOK'
    <2>1. SUFFICES ASSUME NEW c \in Contracts, registry'.address[c] # 0, registry'.metadata = None
                   PROVE  \E e \in Deployments : HasPut(e, c)'
      BY DEF AddressesOK
    <2>2. PICK e \in Deployments : HasPut(e, c)
      BY <1>2, <2>1 DEF LifeInv, AddressesOK
    <2>3. HasPut(e, c)'
      BY <1>2, <1>5, <2>2 DEF HasPut
    <2>4. QED
      BY <2>3
  <1>10. ProgressInv'
    <2>1. SUFFICES ASSUME NEW e \in Deployments, Busy(e)', deps'[e].alone  PROVE Progress(e)'
      BY DEF ProgressInv
    <2>2. e = d
      BY <1>5, <1>6, <2>1
    <2>3. Progress(d)'
      BY <1>2, <1>3, <1>4 DEF Progress, TaskBusy, TaskCurrent, KnowsAddress, HasRevision
    <2>4. QED
      BY <2>2, <2>3
  <1>11. QED
    BY <1>2, <1>7, <1>8, <1>9, <1>10 DEF LifeInv, LatestOK

LEMMA CrashKeepsLife ==
  ASSUME BaseInv, LifeInv, Crash
  PROVE  LifeInv' /\ ProgressInv'
  <1>1. /\ deps' = [d \in Deployments |->
             IF Busy(d) THEN [deps[d] EXCEPT !.phase = "failed", !.metadata = None] ELSE deps[d]]
        /\ tasks' = [d \in Deployments |-> [c \in Contracts |->
             IF Busy(d) THEN [IdleTask EXCEPT !.at = "failed"] ELSE tasks[d][c]]]
        /\ UNCHANGED <<registry, latest>>
    BY DEF Crash
  <1>2. latest = None
    BY DEF Crash, LifeInv, LatestOK
  <1>3. ASSUME NEW e \in Deployments
        PROVE  /\ Busy(e) => deps'[e].phase = "failed" /\ \A c \in Contracts : tasks'[e][c].at = "failed"
               /\ ~Busy(e) => deps'[e] = deps[e] /\ \A c \in Contracts : tasks'[e][c] = tasks[e][c]
    <2>1. deps[e] \in DeploymentRecords
      BY DEF BaseInv
    <2>2. Busy(e) => deps'[e].phase = "failed"
      BY <1>1, <2>1 DEF DeploymentRecords
    <2>3. Busy(e) => \A c \in Contracts : tasks'[e][c].at = "failed"
      BY <1>1 DEF IdleTask
    <2>4. QED
      BY <1>1, <2>2, <2>3
  <1>4. \A e \in Deployments : ~Busy(e)'
    BY <1>3 DEF Busy, TaskBusy
  <1>5. ASSUME NEW e \in Deployments  PROVE PhasesOK(e)'
    <2>1. CASE Busy(e)
      BY <1>3, <2>1 DEF PhasesOK, TaskBusy, At
    <2>2. CASE ~Busy(e)
      BY <1>3, <2>2 DEF PhasesOK, TaskBusy, At, LifeInv
    <2>3. QED
      BY <2>1, <2>2
  <1>6. \A e \in Deployments, c \in Contracts : HasPut(e, c) => HasPut(e, c)'
    BY <1>3 DEF HasPut
  <1>7. AddressesOK'
    BY <1>1, <1>6 DEF AddressesOK, LifeInv
  <1>8. QED
    BY <1>1, <1>2, <1>4, <1>5, <1>7 DEF LifeInv, AloneOK, LatestOK, ProgressInv

LEMMA LifeInvNext == BaseInv /\ BaseInv' /\ LifeInv /\ ProgressInv /\ [Next]_vars => LifeInv' /\ ProgressInv'
  <1> SUFFICES ASSUME BaseInv, BaseInv', LifeInv, ProgressInv, [Next]_vars  PROVE LifeInv' /\ ProgressInv'
    OBVIOUS
  <1>1. CASE UNCHANGED vars
    <2>1. \A d \in Deployments : (Busy(d)' <=> Busy(d)) /\ (PhasesOK(d)' <=> PhasesOK(d))
      BY <1>1 DEF vars, Busy, TaskBusy, PhasesOK, At
    <2>2. AddressesOK'
      BY <1>1 DEF vars, AddressesOK, HasPut, LifeInv
    <2>3. LifeInv'
      BY <1>1, <2>1, <2>2 DEF vars, LifeInv, AloneOK, LatestOK
    <2>4. \A d \in Deployments, c \in Contracts :
            /\ Published(d, c)' <=> Published(d, c)
            /\ \A t : TaskCurrent(d, c, t) => TaskCurrent(d, c, t)'
      BY <1>1 DEF vars, Published, Runs, Code, TaskCurrent, NeedsNew
    <2>5. ProgressInv'
      <3>1. SUFFICES ASSUME NEW d \in Deployments, Progress(d)  PROVE Progress(d)'
        BY <1>1, <2>1 DEF vars, ProgressInv
      <3>2. \A c \in Contracts : TaskCurrent(d, c, tasks[d][c])'
        <4>1. TAKE c \in Contracts
        <4>2. PICK t : t = tasks[d][c] /\ t = tasks'[d][c]
          BY <1>1 DEF vars
        <4>3. TaskCurrent(d, c, t)'
          BY <2>4, <3>1, <4>2 DEF Progress
        <4>4. QED
          BY <4>2, <4>3
      <3>3. QED
        BY <1>1, <2>4, <3>1, <3>2 DEF vars, Progress, TaskBusy
    <2>6. QED
      BY <2>3, <2>5
  <1>2. CASE \E d \in Deployments : Step(d)
    BY <1>2, StartKeepsLife, SettingUpKeepsLife, EndingKeepsLife DEF Step
  <1>3. CASE \E d \in Deployments, c \in Contracts : TaskStep(d, c)
    BY <1>3, TaskStepKeeps
  <1>4. CASE Crash
    BY <1>4, CrashKeepsLife
  <1>5. QED
    BY <1>1, <1>2, <1>3, <1>4 DEF Next, Finished

-----------------------------------------------------------------------------
(* A deployment that ends alone has published everything.                  *)

WholeInv == CleanDeploymentIsWhole /\ CodeIsCurrent

LEMMA EndIsWhole ==
  ASSUME BaseInv, LifeInv, ProgressInv, NEW d \in Deployments, PutMetadata(d) \/ PutKeys(d),
         deps[d].alone, deps'[d].phase = "done", latest' = d
  PROVE  WholeInv'
  <1>1. Progress(d) /\ registry \in RegistryRecords /\ SameChoices(d)
        /\ registry'.address = registry.address /\ registry'.abi = registry.abi
        /\ UNCHANGED <<chain, proxies, imported>>
    BY PartsOK, EndingEffects DEF ProgressInv
  <1>2. deps[d].phase \in {"metadata", "keys"} /\ deps'[d].mode = deps[d].mode
    BY EndMoves DEF PutMetadata, PutKeys, To
  <1>3. deps'[d].mode = "site" => registry'.root = d /\ registry'.zdns = d /\ registry'.keys = d
    <2>1. CASE PutMetadata(d)
      <3>1. deps[d].mode = "site" => deps'[d].phase = "cleaning"
        BY <2>1, EndMoves DEF PutMetadata, To
      <3>2. QED
        BY <1>2, <3>1
    <2>2. CASE PutKeys(d)
      BY <1>1, <2>2 DEF PutKeys, Put, Progress, RegistryRecords
    <2>3. QED
      BY <2>1, <2>2
  <1>4. deps[d].source # None => registry'.described = d
    <2>1. CASE PutMetadata(d)
      BY <1>1, <2>1 DEF PutMetadata, RegistryRecords
    <2>2. CASE PutKeys(d)
      BY <1>1, <2>2 DEF PutKeys, Put, Progress, RegistryRecords
    <2>3. QED
      BY <2>1, <2>2
  <1>5. deps[d].source # None => \A c \in Contracts : Published(d, c)'
    BY <1>1, <1>2, PublishedInPlace DEF Progress
  <1>6. deps'[d].source = deps[d].source
    BY <1>1 DEF SameChoices
  <1>7. CleanDeploymentIsWhole'
    <2>1. deps'[d].source # None => registry'.described = d /\ \A c \in Contracts : registry'.abi[c].by = d
      <3>1. SUFFICES ASSUME deps[d].source # None, NEW c \in Contracts  PROVE registry'.abi[c].by = d
        BY <1>4, <1>6
      <3>2. PICK r : r = deps'[d].source[c]
        OBVIOUS
      <3>3. registry'.abi[c] = [by |-> d, revision |-> r]
        BY <1>5, <3>1, <3>2 DEF Published
      <3>4. QED
        BY <3>3
    <2>2. QED
      BY <1>3, <2>1 DEF CleanDeploymentIsWhole
  <1>8. ASSUME NEW c \in Contracts, Published(d, c)'  PROVE UpgradeTookEffect(d, c)' \/ c \in imported'
    BY <1>8 DEF UpgradeTookEffect, Published, Runs, Running
  <1>9. CodeIsCurrent'
    BY <1>5, <1>6, <1>8 DEF CodeIsCurrent
  <1>10. QED
    BY <1>7, <1>9 DEF WholeInv

LEMMA WholeInvNext == BaseInv /\ LifeInv /\ ProgressInv /\ WholeInv /\ [Next]_vars => WholeInv'
  <1> SUFFICES ASSUME BaseInv, LifeInv, ProgressInv, WholeInv, [Next]_vars  PROVE WholeInv'
    OBVIOUS
  <1>1. CASE UNCHANGED vars
    BY <1>1
    DEF vars, WholeInv, CleanDeploymentIsWhole, CodeIsCurrent, UpgradeTookEffect, Running, Code
  <1>2. latest' = None => WholeInv'
    BY DEF WholeInv, CleanDeploymentIsWhole, CodeIsCurrent
  <1>3. \A d \in Deployments : Busy(d) => latest = None
    BY DEF LifeInv, LatestOK
  <1>4. ASSUME NEW d \in Deployments, Step(d)  PROVE WholeInv'
    <2>1. CASE Start(d)
      BY <1>2, <2>1 DEF Start
    <2>2. CASE LinkSources(d) \/ Compile(d)
      BY <1>2, <1>3, <2>2 DEF LinkSources, Compile, Busy
    <2>3. CASE \/ ReadManifest(d) \/ PutMetadata(d) \/ Clean(d)
               \/ PutRoot(d) \/ PutZdns(d) \/ PutKeys(d) \/ DeploymentFails(d)
      <3>1. latest = None /\ latest' = IF deps'[d].phase = "done" /\ deps[d].alone THEN d ELSE latest
        BY <1>3, <2>3, EndingEffects
      <3>2. CASE deps'[d].phase = "done" /\ deps[d].alone
        <4>1. PutMetadata(d) \/ PutKeys(d)
          <5>1. \A q : To(d, q) => deps'[d].phase = q
            BY EndMovesTo
          <5>2. ReadManifest(d) => deps'[d].phase # "done"
            BY DEF ReadManifest, BaseInv, DeploymentRecords
          <5>3. QED
            BY <2>3, <3>2, <5>1, <5>2 DEF Clean, PutRoot, PutZdns, DeploymentFails
        <4>2. QED
          BY <3>1, <3>2, <4>1, EndIsWhole
      <3>3. CASE ~(deps'[d].phase = "done" /\ deps[d].alone)
        BY <1>2, <3>1, <3>3
      <3>4. QED
        BY <3>2, <3>3
    <2>4. QED
      BY <1>4, <2>1, <2>2, <2>3 DEF Step
  <1>5. ASSUME NEW d \in Deployments, NEW c \in Contracts, TaskStep(d, c)  PROVE WholeInv'
    BY <1>2, <1>3, <1>5, TaskActs, TaskEffects DEF Busy
  <1>6. CASE Crash
    BY <1>2, <1>3, <1>6 DEF Crash
  <1>7. QED
    BY <1>1, <1>4, <1>5, <1>6 DEF Next, Finished

LEMMA DeployerInvariant == Spec => [](BaseInv /\ LifeInv /\ ProgressInv /\ WholeInv)
  <1>1. Init => WholeInv
    BY DEF Init, WholeInv, CleanDeploymentIsWhole, CodeIsCurrent
  <1>2. BaseInv /\ LifeInv /\ ProgressInv /\ WholeInv /\ [Next]_vars
          => BaseInv' /\ LifeInv' /\ ProgressInv' /\ WholeInv'
    BY BaseInvNext, LifeInvNext, WholeInvNext
  <1>3. QED
    BY <1>1, <1>2, BaseInvInit, LifeInvInit, PTL DEF Spec

-----------------------------------------------------------------------------
(* The theorems.                                                           *)

(* The variables keep their types; above all a restored, read or imported   *)
(* manifest names addresses that were deployed (restoreManifest,            *)
(* fetchOrDeploy and forceImport of the deployer).                          *)
THEOREM DeployerTypeCorrect == Spec => []TypeOK
  <1>1. BaseInv => TypeOK
    <2>1. SUFFICES ASSUME BaseInv  PROVE TypeOK
      OBVIOUS
    <2>2. \A m : ManifestOK(m) => IsManifest(m)
      <3>1. TAKE m
      <3>2. SUFFICES ASSUME EntriesOK(m)  PROVE IsManifest(m)
        BY DEF ManifestOK, IsManifest
      <3>3. ASSUME NEW e \in m
            PROVE  e \in [contract : Contracts, revision : Revisions,
                          address : DOMAIN chain, all : SUBSET DOMAIN chain]
        <4>1. e \in Entries /\ \A a \in {e.address} \cup e.all : a \in DOMAIN chain
          BY <3>2 DEF EntriesOK, IsCodeOf
        <4>2. QED
          BY <4>1 DEF Entries
      <3>4. QED
        BY <3>3 DEF IsManifest
    <2>3. DOMAIN proxies = 1..Len(proxies) /\ Len(proxies) \in Nat
      BY <2>1 DEF BaseInv, WorldOK
    <2>4. \A c \in Contracts, p \in Nat : (p # 0 => IsProxyOf(c, p)) => p \in 0..Len(proxies)
      BY <2>3 DEF IsProxyOf
    <2>5. ASSUME NEW d \in Deployments
          PROVE  deps[d].phase \in Phases /\ IsManifest(deps[d].metadata)
      BY <2>1, <2>2 DEF BaseInv, DeploymentOK, DeploymentRecords
    <2>6. ASSUME NEW d \in Deployments, NEW c \in Contracts
          PROVE  /\ tasks[d][c].at \in Steps /\ tasks[d][c].proxy \in 0..Len(proxies)
                 /\ tasks[d][c].at \in {"validate", "point"} => tasks[d][c].impl \in DOMAIN chain
                 /\ IsManifest(tasks[d][c].metadata) /\ IsManifest(tasks[d][c].seen)
      <3>1. PICK t : t = tasks[d][c]
        OBVIOUS
      <3>2. TaskOK(t, c) /\ t \in TaskRecords
        BY <2>1, <3>1 DEF BaseInv, TaskOK
      <3>3. t.at \in Steps /\ t.proxy \in Nat
        BY <3>2 DEF TaskRecords
      <3>4. t.proxy \in 0..Len(proxies)
        BY <2>4, <3>2, <3>3 DEF TaskOK
      <3>5. t.at \in {"validate", "point"} => t.impl \in DOMAIN chain
        BY <3>2 DEF TaskOK, IsCodeOf
      <3>6. IsManifest(t.metadata) /\ IsManifest(t.seen)
        BY <2>2, <3>2 DEF TaskOK, ManifestOK
      <3>7. QED
        BY <3>1, <3>3, <3>4, <3>5, <3>6
    <2>7. \A c \in Contracts : registry.address[c] \in 0..Len(proxies)
      BY <2>1, <2>4 DEF BaseInv, RegistryOK, RegistryRecords
    <2>8. IsManifest(manifest) /\ IsManifest(registry.metadata)
          /\ \A p \in DOMAIN proxies : proxies[p] \in DOMAIN chain
      BY <2>1, <2>2 DEF BaseInv, FilesOK, RegistryOK, WorldOK
    <2>9. QED
      BY <2>5, <2>6, <2>7, <2>8 DEF TypeOK
  <1>2. QED
    BY <1>1, DeployerInvariant, PTL

(* Whatever deployments overlap, fail or crash: the manifest file and the   *)
(* one stored under the site's name say of every address which contract     *)
(* was deployed there and, unless it was imported by force, from which      *)
(* revision; and an address published for a contract is a proxy of it.      *)
(* fetchOrDeploy, forceImport and the validation write the manifest.        *)
THEOREM ManifestsTellTheTruth ==
  Spec => [](/\ ManifestOK(manifest) /\ ManifestOK(registry.metadata)
             /\ \A c \in Contracts : registry.address[c] # 0 => IsProxyOf(c, registry.address[c]))
  <1>1. BaseInv => /\ ManifestOK(manifest) /\ ManifestOK(registry.metadata)
                   /\ \A c \in Contracts : registry.address[c] # 0 => IsProxyOf(c, registry.address[c])
    BY DEF BaseInv, FilesOK, RegistryOK
  <1>2. QED
    BY <1>1, DeployerInvariant, PTL

(* A deployment that ran alone to its end has written root, routes, keys,   *)
(* manifest and every ABI itself: deploy puts them one after another, and   *)
(* what another one left half done cannot remain.                           *)
THEOREM CleanDeploymentPublishesAll == Spec => []CleanDeploymentIsWhole
  BY DeployerInvariant, PTL DEF WholeInv

(* After such a deployment every contract runs the source it linked and     *)
(* compiled, behind the published address, unless it was once imported by   *)
(* force (the fallback of deployProxyImpl).                                 *)
THEOREM CodeFollowsItsSource == Spec => []CodeIsCurrent
  BY DeployerInvariant, PTL DEF WholeInv

LEMMA OnlyUpgradesRepoint ==
  ASSUME BaseInv, [Next]_vars, NEW p \in DOMAIN proxies, proxies'[p] # proxies[p]
  PROVE  \E d \in Deployments, c \in Contracts : UpgradeTo(d, c) /\ p = tasks[d][c].proxy
  <1>1. ~UNCHANGED proxies
    OBVIOUS
  <1>2. \A d \in Deployments : ~Step(d)
    BY <1>1 DEF Step, Start, LinkSources, Compile, ReadManifest, PutMetadata, Clean, PutRoot, PutZdns, PutKeys,
                DeploymentFails, KeepsShared
  <1>3. PICK d \in Deployments, c \in Contracts : TaskStep(d, c)
    BY <1>1, <1>2 DEF Next, Crash, Finished, vars
  <1>4. UpgradeTo(d, c) \/ DeployProxy(d, c)
    BY <1>1, <1>3
    DEF TaskStep, GetAddress, GetMetadata, GetFactory, RestoreManifest, CheckLayout, Fetch, Store,
        Validate, DiscardManifest, ForceImport, PutAddress, PutAbi, TaskFails, LockTimeout, KeepsShared
  <1>5. PICK t : t = tasks[d][c]
    OBVIOUS
  <1>6. CASE DeployProxy(d, c)
    <2>1. TaskOK(t, c) /\ t.at = "point"
      BY <1>5, <1>6 DEF BaseInv, DeployProxy, At
    <2>2. t.impl \in DOMAIN chain
      BY <2>1 DEF TaskOK, IsCodeOf
    <2>3. proxies' = Append(proxies, t.impl) /\ UNCHANGED <<chain, imported>>
      BY <1>5, <1>6 DEF DeployProxy
    <2>4. proxies'[p] = proxies[p]
      BY <2>2, <2>3, GrowsByProxy DEF BaseInv
    <2>5. QED
      BY <2>4
  <1>7. CASE UpgradeTo(d, c)
    <2>1. proxies' = [proxies EXCEPT ![t.proxy] = t.impl]
      BY <1>5, <1>7 DEF UpgradeTo
    <2>2. p = t.proxy
      BY <2>1 DEF BaseInv, WorldOK
    <2>3. QED
      BY <1>5, <1>7, <2>2
  <1>8. QED
    BY <1>4, <1>6, <1>7

(* A proxy is pointed to other code only after the layout of the new source *)
(* was compared with that of the code it runs: deployProxyImpl checks with  *)
(* a manifest it restored some awaits earlier, and no other step of the     *)
(* deployment can make what it read stale.                                  *)
THEOREM ChecksPrecedeUpgrades == Spec => UpgradesAreChecked
  <1>1. ASSUME BaseInv, LifeInv, ProgressInv, [Next]_vars, NEW p \in DOMAIN proxies, proxies'[p] # proxies[p]
        PROVE  \E d \in Deployments, c \in Contracts :
                 /\ At(d, c, "point") /\ tasks[d][c].proxy = p
                 /\ \/ tasks[d][c].checked = Code(proxies[p]).revision
                    \/ ~deps[d].alone
                    \/ c \in imported
    <2>1. PICK d \in Deployments, c \in Contracts : UpgradeTo(d, c) /\ p = tasks[d][c].proxy
      BY <1>1, OnlyUpgradesRepoint
    <2>2. At(d, c, "point") /\ ~NeedsNew(d, tasks[d][c])
      BY <2>1 DEF UpgradeTo, Fresh, NeedsNew
    <2>3. Busy(d)
      BY <2>2 DEF Busy, TaskBusy, At
    <2>4. deps[d].alone => TaskCurrent(d, c, tasks[d][c])
      BY <1>1, <2>3 DEF ProgressInv, Progress
    <2>5. deps[d].alone => c \in imported \/ tasks[d][c].checked = Code(proxies[p]).revision
      BY <2>1, <2>2, <2>4 DEF TaskCurrent, At
    <2>6. QED
      BY <2>1, <2>2, <2>5
  <1>2. BaseInv /\ LifeInv /\ ProgressInv /\ [Next]_vars =>
          [\A p \in DOMAIN proxies : proxies'[p] # proxies[p] =>
             \E d \in Deployments, c \in Contracts :
                /\ At(d, c, "point") /\ tasks[d][c].proxy = p
                /\ \/ tasks[d][c].checked = Code(proxies[p]).revision
                   \/ ~deps[d].alone
                   \/ c \in imported]_vars
    BY <1>1
  <1>3. QED
    BY <1>2, DeployerInvariant, PTL DEF Spec, UpgradesAreChecked

LEMMA OnlyPutAddressPublishes ==
  ASSUME BaseInv, LifeInv, [Next]_vars, NEW c \in Contracts, registry'.address[c] # registry.address[c]
  PROVE  \E d \in Deployments : PutAddress(d, c) /\ registry'.address[c] = tasks[d][c].proxy
  <1>1. ~UNCHANGED registry
    OBVIOUS
  <1>2. \A d \in Deployments : ~Step(d)
    BY <1>1, EndingEffects DEF Step, Start, LinkSources, Compile
  <1>3. PICK d \in Deployments, b \in Contracts : TaskStep(d, b)
    BY <1>1, <1>2 DEF Next, Crash, Finished, vars
  <1>4. PutAddress(d, b) \/ PutAbi(d, b)
    BY <1>1, <1>3
    DEF TaskStep, GetAddress, GetMetadata, GetFactory, RestoreManifest, CheckLayout, Fetch, Store, UpgradeTo,
        DeployProxy, Validate, DiscardManifest, ForceImport, TaskFails, LockTimeout, KeepsShared
  <1>5. ~PutAbi(d, b)
    BY PartsOK DEF PutAbi, RegistryRecords
  <1>6. registry' = [registry EXCEPT !.address[b] = tasks[d][b].proxy] /\ PutAddress(d, b)
    BY <1>1, <1>4, <1>5 DEF PutAddress
  <1>7. b = c /\ registry'.address[c] = tasks[d][c].proxy
    BY <1>6, PartsOK DEF RegistryRecords
  <1>8. QED
    BY <1>6, <1>7

(* The proxy published for a contract, and with it the contract's data, is  *)
(* given up only when a new one is forced, when deployments overlap, or     *)
(* when some failed and none has published the manifest yet.                *)
THEOREM ProxiesSurvive == Spec => ProxySurvives
  <1>1. ASSUME BaseInv, LifeInv, ProgressInv, [Next]_vars, NEW c \in Contracts,
               registry.address[c] # 0, registry'.address[c] # registry.address[c]
        PROVE  \E d \in Deployments :
                 /\ At(d, c, "publish")
                 /\ \/ deps[d].force
                    \/ ~deps[d].alone
                    \/ /\ registry.metadata = None
                       /\ \E e \in Deployments : deps[e].phase = "failed"
    <2>1. PICK d \in Deployments : PutAddress(d, c) /\ registry'.address[c] = tasks[d][c].proxy
      BY <1>1, OnlyPutAddressPublishes
    <2>2. At(d, c, "publish") /\ TaskBusy(d, c) /\ Busy(d)
      BY <2>1 DEF PutAddress, At, Busy, TaskBusy
    <2>3. SUFFICES ASSUME deps[d].alone, ~deps[d].force
                   PROVE  registry.metadata = None /\ \E e \in Deployments : deps[e].phase = "failed"
      BY <2>2
    <2>4. TaskCurrent(d, c, tasks[d][c])
      BY <1>1, <2>2, <2>3 DEF ProgressInv, Progress
    <2>5. registry.metadata = None
      BY <1>1, <2>1, <2>2, <2>3, <2>4 DEF TaskCurrent, At
    <2>6. PICK e \in Deployments : HasPut(e, c)
      BY <1>1, <2>5 DEF LifeInv, AddressesOK
    <2>7. CASE e = d
      BY <1>1, <2>2, <2>5, <2>6, <2>7 DEF HasPut, LifeInv, PhasesOK, At
    <2>8. CASE e # d
      <3>1. ~Busy(e)
        BY <1>1, <2>2, <2>3, <2>8 DEF LifeInv, AloneOK
      <3>2. QED
        BY <2>5, <2>6, <3>1 DEF HasPut, Busy
    <2>9. QED
      BY <2>7, <2>8
  <1>2. BaseInv /\ LifeInv /\ ProgressInv /\ [Next]_vars =>
          [\A c \in Contracts :
             registry.address[c] # 0 /\ registry.address'[c] # registry.address[c] =>
                \E d \in Deployments :
                   /\ At(d, c, "publish")
                   /\ \/ deps[d].force
                      \/ ~deps[d].alone
                      \/ /\ registry.metadata = None
                         /\ \E e \in Deployments : deps[e].phase = "failed"]_vars
    BY <1>1
  <1>3. QED
    BY <1>2, DeployerInvariant, PTL DEF Spec, ProxySurvives

=============================================================================
