------------------------------ MODULE Deployer ------------------------------
(***************************************************************************)
(* Deployments of one site with upgradable contracts.  A deployment of     *)
(* mode "site" is Deployer.deploy (client/zweb/deployer/index.js), which   *)
(* takes the contracts one after another and then publishes the site; one  *)
(* of mode "contracts" is deployUpgradableContracts                        *)
(* (network/deployer/index.ts), which takes them all at once.              *)
(*                                                                         *)
(* Deployments share, with nothing but the lock of the manifest between    *)
(* them: the registry of key values, the chain, the manifest file of       *)
(* implementations, the build output of hardhat and the place its sources  *)
(* are linked to.  Every await is a step; any of them can fail.            *)
(*                                                                         *)
(* A contract is its position in the configuration, its source a revision  *)
(* number.  An implementation is an index into chain, a proxy an index     *)
(* into proxies.  Stored files are immutable and stand for their ids.  Of  *)
(* a failed put the two cases, with and without effect, are the failure of *)
(* this step and of the next one.                                          *)
(***************************************************************************)
EXTENDS Integers, Sequences, FiniteSets

CONSTANTS
    Deployments,    \* calls of deploy, each made once; a retry is another
    ContractCount,  \* contracts of the site
    Revisions,      \* revisions of a contract's source
    Modes,          \* the entry points that are used
    MaxAtOnce,      \* bound: deployments that run at the same time
    MaxFailures,    \* bound: awaits that fail and crashes of the node
    None

ASSUME ContractCountAssumption == ContractCount \in Nat \ {0}
ASSUME NoneAssumption == None \notin Deployments \cup Revisions

VARIABLES
    deps,        \* the deployments, with what each has chosen and read
    tasks,       \* for each deployment and contract, how far it got
    registry,    \* the key values of the site, with the writer of each
    chain,       \* implementations: the code at each address
    proxies,     \* for each proxy, the implementation it points to
    manifest,    \* content of the manifest file, or None without the file
    lock,        \* the task that holds the lock of the manifest
    build,       \* hardhat's artifacts: revision of each contract, or None
    linked,      \* the sources hardhat would compile, or None
    failures,    \* failures and crashes so far
    latest,      \* history: the deployment that ended last, if it ran alone
    imported     \* history: contracts that were imported by force

vars == <<deps, tasks, registry, chain, proxies, manifest, lock, build,
          linked, failures, latest, imported>>

Contracts == 1..ContractCount

Phases == {"idle", "linking", "compiling", "contracts", "metadata",
           "cleaning", "root", "zdns", "keys", "done", "failed"}

Steps == {"idle", "address", "describe", "factory", "restore", "check", "fetch",
          "store", "validate", "point", "discard", "import", "publish", "abi",
          "done", "failed"}

(* impls of the manifest: versions of contracts with their addresses; the  *)
(* further addresses of an entry come from imports.                        *)
Code(a) == chain[a]
EntryAt(m, a) == {e \in m : a = e.address \/ a \in e.all}
EntryOf(m, c, r) == {e \in m : e.contract = c /\ e.revision = r}
Content == IF manifest = None THEN {} ELSE manifest

(* A deployment is busy while a step of it is left, also after its call    *)
(* was answered with an error.                                             *)
TaskBusy(d, c) == tasks[d][c].at \notin {"idle", "done", "failed"}
Busy(d) == \/ deps[d].phase \notin {"idle", "done", "failed"}
           \/ \E c \in Contracts : TaskBusy(d, c)

IdleTask == [at |-> "idle", proxy |-> 0, metadata |-> None,
             revision |-> None, impl |-> 0, checked |-> None, seen |-> {}, attempt |-> "first"]

NoBuild == [c \in Contracts |-> None]

IdleDeployment == [phase |-> "idle", mode |-> "site",
                   force |-> FALSE, alone |-> TRUE,
                   metadata |-> None, source |-> None]

Init ==
    /\ deps = [d \in Deployments |-> IdleDeployment]
    /\ tasks = [d \in Deployments |-> [c \in Contracts |-> IdleTask]]
    /\ registry = [root |-> None, zdns |-> None, keys |-> None,
                   metadata |-> None, described |-> None,
                   address |-> [c \in Contracts |-> 0],
                   abi |-> [c \in Contracts |-> [by |-> None, revision |-> None]]]
    /\ chain = << >>
    /\ proxies = << >>
    /\ manifest = None
    /\ lock = None
    /\ build = NoBuild
    /\ linked = None
    /\ failures = 0
    /\ latest = None
    /\ imported = {}

-----------------------------------------------------------------------------
(* Start of a deployment.  The configuration is checked and the version is *)
(* computed by promises nobody awaits, so neither stops a deployment; the  *)
(* owner is checked and the files are uploaded before shared state is      *)
(* touched, and a deployment that ends there is one that never started.    *)
Start(d) ==
    /\ deps[d].phase = "idle"
    /\ Cardinality({e \in Deployments : Busy(e)}) < MaxAtOnce
    /\ \E mode \in Modes, force \in BOOLEAN,
          source \in [Contracts -> Revisions] \cup {None} :
        /\ source = None => mode = "site" /\ ~force
        /\ deps' = [e \in Deployments |->
             CASE e = d ->
                  [IdleDeployment EXCEPT
                     !.phase = IF source = None THEN "root" ELSE "linking",
                     !.mode = mode, !.force = force, !.source = source,
                     !.alone = \A o \in Deployments : ~Busy(o)]
               [] e # d /\ Busy(e) -> [deps[e] EXCEPT !.alone = FALSE]
               [] OTHER -> [IdleDeployment EXCEPT !.phase = deps[e].phase]]
    /\ latest' = None
    /\ UNCHANGED <<tasks, registry, chain, proxies, manifest, lock, build,
                   linked, failures, imported>>

\* Mutant: links that are there already are kept.
LinkUnlessThere(d) ==
    /\ deps[d].phase = "linking"
    /\ linked' = IF linked = None THEN deps[d].source ELSE linked
    /\ deps' = [deps EXCEPT ![d].phase = "compiling"]
    /\ UNCHANGED <<tasks, registry, chain, proxies, manifest, lock, build,
                   failures, latest, imported>>

(* The sources are put where hardhat looks for them, in place of whatever  *)
(* was there.                                                              *)
LinkSources(d) ==
    /\ deps[d].phase = "linking"
    /\ linked' = deps[d].source
    /\ deps' = [deps EXCEPT ![d].phase = "compiling"]
    /\ UNCHANGED <<tasks, registry, chain, proxies, manifest, lock, build,
                   failures, latest, imported>>

(* What is compiled is what is linked now; without sources hardhat may     *)
(* drop its artifacts.  The links are removed after: unlink throws when    *)
(* they are gone, remove does not.                                         *)
Compile(d) ==
    /\ deps[d].phase = "compiling"
    /\ IF linked = None THEN build' \in {build, NoBuild} ELSE build' = linked
    /\ linked' = None
    /\ IF linked = None /\ deps[d].mode = "site"
       THEN /\ deps' = [deps EXCEPT ![d].phase = "failed"]
            /\ UNCHANGED tasks
       ELSE /\ deps' = [deps EXCEPT ![d].phase = "contracts"]
            /\ tasks' = [tasks EXCEPT ![d] = [c \in Contracts |->
                  IF deps[d].mode = "contracts" \/ c = 1
                  THEN [IdleTask EXCEPT !.at = "address"] ELSE IdleTask]]
    /\ UNCHANGED <<registry, chain, proxies, manifest, lock, failures,
                   latest, imported>>

-----------------------------------------------------------------------------
(* One contract.                                                           *)
At(d, c, step) == tasks[d][c].at = step
Fresh(d, c) == \/ tasks[d][c].proxy = 0
               \/ tasks[d][c].metadata = None
               \/ deps[d].force

Become(d, c, task) == tasks' = [tasks EXCEPT ![d][c] = task]
KeepsShared == UNCHANGED <<registry, chain, proxies, manifest, lock, build,
                           linked>>

(* The steps inside the try block of the first attempt.                    *)
Caught(d, c) == /\ tasks[d][c].at \in {"check", "fetch", "store", "validate", "point"}
                /\ tasks[d][c].attempt = "first"

\* Mutant: after a failed upgrade a new proxy is deployed.
ThrowToFresh(d, c) ==
    /\ IF Caught(d, c)
       THEN /\ Become(d, c, [tasks[d][c] EXCEPT !.at = "fetch", !.proxy = 0,
                                               !.attempt = "unbound", !.seen = {}])
            /\ UNCHANGED deps
       ELSE /\ Become(d, c, [IdleTask EXCEPT !.at = "failed"])
            /\ deps' = [deps EXCEPT ![d].phase = "failed"]
    /\ lock' = IF lock = <<d, c>> THEN None ELSE lock
    /\ UNCHANGED <<build, linked, latest>>

(* A failed attempt at the proxy is caught once: a new proxy is tried      *)
(* again without parameters, an upgrade after a forced import.  Any other  *)
(* exception ends the deployment; its other contracts go on.               *)
Throw(d, c) ==
    /\ IF Caught(d, c)
       THEN /\ Become(d, c, [tasks[d][c] EXCEPT
                   !.at = IF Fresh(d, c) THEN "fetch" ELSE "discard",
                   !.attempt = IF Fresh(d, c) THEN "unbound" ELSE "imported",
                   !.seen = {}])
            /\ UNCHANGED deps
       ELSE /\ Become(d, c, [IdleTask EXCEPT !.at = "failed"])
            /\ deps' = [deps EXCEPT ![d].phase = "failed"]
    /\ lock' = IF lock = <<d, c>> THEN None ELSE lock
    /\ UNCHANGED <<build, linked, latest>>

(* The address of the proxy, the stored manifest and hardhat's factory are *)
(* read one after another.                                                 *)
GetAddress(d, c) ==
    /\ At(d, c, "address")
    /\ Become(d, c, [tasks[d][c] EXCEPT !.at = "describe",
                                        !.proxy = registry.address[c]])
    /\ KeepsShared
    /\ UNCHANGED <<deps, failures, latest, imported>>

GetMetadata(d, c) ==
    /\ At(d, c, "describe")
    /\ Become(d, c, [tasks[d][c] EXCEPT !.at = "factory",
                                        !.metadata = registry.metadata])
    /\ KeepsShared
    /\ UNCHANGED <<deps, failures, latest, imported>>

GetFactory(d, c) ==
    /\ At(d, c, "factory")
    /\ IF build[c] = None
       THEN Throw(d, c) /\ UNCHANGED <<registry, chain, proxies, manifest>>
       ELSE /\ Become(d, c, [tasks[d][c] EXCEPT
                   !.at = IF Fresh(d, c) THEN "fetch" ELSE "restore",
                   !.revision = build[c]])
            /\ KeepsShared
            /\ UNCHANGED <<deps, latest>>
    /\ UNCHANGED <<failures, imported>>

(* The manifest file is overwritten with the stored one, for every         *)
(* contract again and without the lock.                                    *)
RestoreManifest(d, c) ==
    /\ At(d, c, "restore")
    /\ manifest' = tasks[d][c].metadata
    /\ Become(d, c, [tasks[d][c] EXCEPT !.at = "check"])
    /\ UNCHANGED <<deps, registry, chain, proxies, lock, build, linked,
                   failures, latest, imported>>

\* Mutant: any known layout of the contract will do.
CheckAnyLayout(d, c) ==
    /\ At(d, c, "check")
    /\ lock = None
    /\ \E e \in Content : e.contract = c
          /\ Become(d, c, [tasks[d][c] EXCEPT !.at = "fetch", !.checked = e.revision])
    /\ UNCHANGED <<deps, registry, chain, proxies, manifest, lock, build, linked,
                   failures, latest, imported>>

(* deployProxyImpl: the new layout is compared with the one the manifest   *)
(* names for the implementation the proxy points to.                       *)
CheckLayout(d, c) ==
    LET current == EntryAt(Content, proxies[tasks[d][c].proxy]) IN
    /\ At(d, c, "check")
    /\ lock = None
    /\ \/ /\ current = {}
          /\ Throw(d, c)
       \/ /\ \E e \in current :
                Become(d, c, [tasks[d][c] EXCEPT !.at = "fetch",
                                                !.checked = e.revision])
          /\ UNCHANGED <<deps, lock, build, linked, latest>>
    /\ UNCHANGED <<registry, chain, proxies, manifest, failures, imported>>

(* fetchOrDeploy: the manifest is read under the lock; an implementation   *)
(* it lacks is deployed, entered and written, and the lock released.  The  *)
(* release takes whatever lock is there, and may fail when that of the     *)
(* task was removed meanwhile.                                             *)
Fetch(d, c) ==
    /\ At(d, c, "fetch")
    /\ lock = None
    /\ lock' = <<d, c>>
    /\ Become(d, c, [tasks[d][c] EXCEPT !.at = "store", !.seen = Content])
    /\ UNCHANGED <<deps, registry, chain, proxies, manifest, build, linked,
                   failures, latest, imported>>

Store(d, c) ==
    LET t == tasks[d][c]
        known == EntryOf(t.seen, c, t.revision)
        Released(a) ==
            \/ /\ lock' = None
               /\ Become(d, c, [t EXCEPT !.at = "validate", !.seen = {}, !.impl = a])
               /\ UNCHANGED <<deps, build, linked, latest>>
            \/ lock # <<d, c>> /\ Throw(d, c)
    IN
    /\ At(d, c, "store")
    /\ \/ /\ \E e \in known : Released(e.address)
          /\ UNCHANGED <<chain, manifest, failures>>
       \/ /\ known = {}
          /\ \E live \in BOOLEAN :
               /\ live \/ failures < MaxFailures
               /\ failures' = failures + (IF live THEN 0 ELSE 1)
               /\ chain' = Append(chain, [contract |-> c, live |-> live,
                                          revision |-> t.revision])
          /\ manifest' = t.seen \cup
               {[contract |-> c, revision |-> t.revision,
                 address |-> Len(chain'), all |-> {Len(chain')}]}
          /\ Released(Len(chain'))
    /\ UNCHANGED <<registry, proxies, imported>>

(* A deployment that turns out invalid is taken from the manifest again.   *)
Validate(d, c) ==
    LET t == tasks[d][c] IN
    /\ At(d, c, "validate")
    /\ \/ /\ Code(t.impl).live
          /\ Become(d, c, [t EXCEPT !.at = "point"])
          /\ UNCHANGED <<deps, manifest, lock, build, linked, latest>>
       \/ /\ ~Code(t.impl).live
          /\ lock = None
          /\ manifest' = IF manifest = None THEN None
                         ELSE {e \in manifest : ~(e.contract = c /\ e.address = t.impl)}
          /\ Throw(d, c)
    /\ UNCHANGED <<registry, chain, proxies, failures, imported>>

(* The proxy is pointed to the implementation, or a new one is deployed    *)
(* and then entered in the manifest, which can fail on its own.            *)
UpgradeTo(d, c) ==
    LET t == tasks[d][c] IN
    /\ At(d, c, "point")
    /\ ~Fresh(d, c)
    /\ proxies' = [proxies EXCEPT ![t.proxy] = t.impl]
    /\ Become(d, c, [t EXCEPT !.at = "publish"])
    /\ UNCHANGED <<deps, registry, chain, manifest, lock, build, linked,
                   failures, latest, imported>>

DeployProxy(d, c) ==
    LET t == tasks[d][c] IN
    /\ At(d, c, "point")
    /\ Fresh(d, c)
    /\ proxies' = Append(proxies, t.impl)
    /\ \/ /\ lock = None
          /\ manifest' = Content
          /\ Become(d, c, [t EXCEPT !.at = "publish", !.proxy = Len(proxies')])
          /\ UNCHANGED <<deps, lock, build, linked, failures, latest>>
       \/ /\ lock # None \/ failures < MaxFailures
          /\ failures' = failures + (IF lock # None THEN 0 ELSE 1)
          /\ Throw(d, c)
          /\ UNCHANGED manifest
    /\ UNCHANGED <<registry, chain, imported>>

(* The fallback of an upgrade: the manifest file is removed and what the   *)
(* proxy points to is entered as if it were the new source.                *)
DiscardManifest(d, c) ==
    /\ At(d, c, "discard")
    /\ manifest' = None
    /\ Become(d, c, [tasks[d][c] EXCEPT !.at = "import"])
    /\ UNCHANGED <<deps, registry, chain, proxies, lock, build, linked,
                   failures, latest, imported>>

ForceImport(d, c) ==
    LET t == tasks[d][c]
        current == proxies[t.proxy]
        known == EntryOf(Content, c, t.revision)
        clash == \E e \in Content : e.address = current
        merged == IF known = {}
                  THEN {[contract |-> c, revision |-> t.revision,
                         address |-> current, all |-> {current}]}
                  ELSE {[e EXCEPT !.all = @ \cup {current}] : e \in known}
    IN
    /\ At(d, c, "import")
    /\ lock = None
    /\ \/ clash /\ Throw(d, c) /\ UNCHANGED <<manifest, imported>>
       \/ /\ ~clash
          /\ manifest' = (Content \ known) \cup merged
          /\ imported' = imported \cup {c}
          /\ Become(d, c, [t EXCEPT !.at = "check"])
          /\ UNCHANGED <<deps, lock, build, linked, latest>>
    /\ UNCHANGED <<registry, chain, proxies, failures>>

(* The artifacts are read again for what is published with the address.    *)
PutAddress(d, c) ==
    LET t == tasks[d][c] IN
    /\ At(d, c, "publish")
    /\ IF build[c] = None
       THEN Throw(d, c) /\ UNCHANGED registry
       ELSE /\ registry' = [registry EXCEPT !.address[c] = t.proxy]
            /\ Become(d, c, [t EXCEPT !.at = "abi", !.revision = build[c]])
            /\ UNCHANGED <<deps, lock, build, linked, latest>>
    /\ UNCHANGED <<chain, proxies, manifest, failures, imported>>

PutAbi(d, c) ==
    LET t == tasks[d][c] IN
    /\ At(d, c, "abi")
    /\ registry' = [registry EXCEPT !.abi[c] = [by |-> d, revision |-> t.revision]]
    /\ tasks' = [tasks EXCEPT ![d] = [o \in Contracts |->
          CASE o = c -> [IdleTask EXCEPT !.at = "done"]
            [] o = c + 1 /\ deps[d].mode = "site" -> [IdleTask EXCEPT !.at = "address"]
            [] OTHER -> tasks[d][o]]]
    /\ UNCHANGED <<deps, chain, proxies, manifest, lock, build, linked, failures,
                   latest, imported>>

-----------------------------------------------------------------------------
(* The end of a deployment.                                                *)
Put(key, d) == registry' = [registry EXCEPT ![key] = d]

To(d, phase) ==
    /\ deps' = [deps EXCEPT ![d].phase = phase, ![d].metadata = None]
    /\ latest' = IF phase = "done" /\ deps[d].alone THEN d ELSE latest

ReadManifest(d) ==
    /\ deps[d].phase = "contracts"
    /\ \A c \in Contracts : At(d, c, "done")
    /\ deps' = [deps EXCEPT ![d].phase = IF manifest = None THEN "failed" ELSE "metadata",
                            ![d].metadata = manifest]
    /\ KeepsShared
    /\ UNCHANGED <<tasks, failures, latest, imported>>

PutMetadata(d) ==
    /\ deps[d].phase = "metadata"
    /\ registry' = [registry EXCEPT !.metadata = deps[d].metadata, !.described = d]
    /\ To(d, IF deps[d].mode = "site" THEN "cleaning" ELSE "done")
    /\ UNCHANGED <<tasks, chain, proxies, manifest, lock, build, linked,
                   failures, imported>>

(* Artifacts, cache, and the directory that holds both the manifest and    *)
(* its lock are emptied.                                                   *)
Clean(d) ==
    /\ deps[d].phase = "cleaning"
    /\ build' = NoBuild
    /\ manifest' = None
    /\ lock' = None
    /\ To(d, "root")
    /\ UNCHANGED <<tasks, registry, chain, proxies, linked, failures, imported>>

PutRoot(d) ==
    /\ deps[d].phase = "root"
    /\ Put("root", d)
    /\ To(d, "zdns")
    /\ UNCHANGED <<tasks, chain, proxies, manifest, lock, build, linked,
                   failures, imported>>

\* Mutant: a failed update of the routes is only logged.
PutZdnsLogged(d) ==
    /\ deps[d].phase = "zdns"
    /\ To(d, "keys")
    /\ \/ Put("zdns", d) /\ UNCHANGED failures
       \/ /\ failures < MaxFailures
          /\ failures' = failures + 1
          /\ UNCHANGED registry
    /\ UNCHANGED <<tasks, chain, proxies, manifest, lock, build, linked,
                   imported>>

PutZdns(d) ==
    /\ deps[d].phase = "zdns"
    /\ Put("zdns", d)
    /\ To(d, "keys")
    /\ UNCHANGED <<tasks, chain, proxies, manifest, lock, build, linked,
                   failures, imported>>

(* The key values of the configuration, the commit and the version tags.   *)
PutKeys(d) ==
    /\ deps[d].phase = "keys"
    /\ Put("keys", d)
    /\ To(d, "done")
    /\ UNCHANGED <<tasks, chain, proxies, manifest, lock, build, linked,
                   failures, imported>>

-----------------------------------------------------------------------------
(* Failures.                                                               *)
TaskFails(d, c) ==
    /\ TaskBusy(d, c)
    /\ failures < MaxFailures
    /\ failures' = failures + 1
    /\ Throw(d, c)
    /\ UNCHANGED <<registry, chain, proxies, manifest, imported>>

(* Another task holds the lock longer than the retries last.               *)
LockTimeout(d, c) ==
    /\ \/ tasks[d][c].at \in {"check", "fetch", "import"}
       \/ At(d, c, "validate") /\ ~Code(tasks[d][c].impl).live
    /\ lock # None
    /\ Throw(d, c)
    /\ UNCHANGED <<registry, chain, proxies, manifest, failures, imported>>

DeploymentFails(d) ==
    /\ deps[d].phase \notin {"idle", "contracts", "done", "failed"}
    /\ failures < MaxFailures
    /\ failures' = failures + 1
    /\ To(d, "failed")
    /\ KeepsShared
    /\ UNCHANGED <<tasks, imported>>

(* The node ends.  The lock file is taken over when it is stale.           *)
Crash ==
    /\ failures < MaxFailures
    /\ \E d \in Deployments : Busy(d)
    /\ failures' = failures + 1
    /\ deps' = [d \in Deployments |->
          IF Busy(d) THEN [deps[d] EXCEPT !.phase = "failed", !.metadata = None]
          ELSE deps[d]]
    /\ tasks' = [d \in Deployments |-> [c \in Contracts |->
          IF Busy(d) THEN [IdleTask EXCEPT !.at = "failed"] ELSE tasks[d][c]]]
    /\ lock' = None
    /\ UNCHANGED <<registry, chain, proxies, manifest, build, linked, latest, imported>>

Finished == (\A d \in Deployments : deps[d].phase # "idle" /\ ~Busy(d)) /\ UNCHANGED vars

TaskStep(d, c) ==
    \/ GetAddress(d, c) \/ GetMetadata(d, c) \/ GetFactory(d, c)
    \/ RestoreManifest(d, c) \/ CheckLayout(d, c)
    \/ Fetch(d, c) \/ Store(d, c) \/ Validate(d, c)
    \/ UpgradeTo(d, c) \/ DeployProxy(d, c)
    \/ DiscardManifest(d, c) \/ ForceImport(d, c)
    \/ PutAddress(d, c) \/ PutAbi(d, c)
    \/ TaskFails(d, c) \/ LockTimeout(d, c)

Step(d) ==
    \/ Start(d) \/ LinkSources(d) \/ Compile(d)
    \/ ReadManifest(d) \/ PutMetadata(d) \/ Clean(d)
    \/ PutRoot(d) \/ PutZdns(d) \/ PutKeys(d)
    \/ DeploymentFails(d)

Next ==
    \/ \E d \in Deployments : Step(d)
    \/ \E d \in Deployments, c \in Contracts : TaskStep(d, c)
    \/ Crash
    \/ Finished

Spec == Init /\ [][Next]_vars

-----------------------------------------------------------------------------
(* Properties.                                                             *)
IsManifest(m) ==
    m = None \/ m \subseteq [contract : Contracts, revision : Revisions,
                             address : DOMAIN chain, all : SUBSET DOMAIN chain]

(* Every variable keeps its type: what is restored from the registry, read *)
(* under the lock or imported is a manifest of deployed implementations.   *)
TypeOK ==
    /\ \A d \in Deployments :
         /\ deps[d].phase \in Phases
         /\ IsManifest(deps[d].metadata)
         /\ \A c \in Contracts :
              /\ tasks[d][c].at \in Steps
              /\ tasks[d][c].proxy \in 0..Len(proxies)
              /\ tasks[d][c].at \in {"validate", "point"} => tasks[d][c].impl \in DOMAIN chain
              /\ IsManifest(tasks[d][c].metadata)
              /\ IsManifest(tasks[d][c].seen)
    /\ IsManifest(manifest)
    /\ IsManifest(registry.metadata)
    /\ \A p \in DOMAIN proxies : proxies[p] \in DOMAIN chain
    /\ \A c \in Contracts : registry.address[c] \in 0..Len(proxies)

Running(c) == Code(proxies[registry.address[c]])

(* A deployment that ran alone to its end has published everything: root   *)
(* directory, routes and key values, and every contract's ABI and the      *)
(* manifest, whatever earlier deployments left half done.                  *)
CleanDeploymentIsWhole ==
    latest # None =>
        /\ deps[latest].mode = "site" =>
              registry.root = latest /\ registry.zdns = latest /\ registry.keys = latest
        /\ deps[latest].source # None =>
              /\ registry.described = latest
              /\ \A c \in Contracts : registry.abi[c].by = latest

(* After such a deployment every contract runs, and its ABI describes, the *)
(* source of that deployment, unless the contract was once imported by     *)
(* force.                                                                  *)
UpgradeTookEffect(d, c) ==
    /\ registry.abi[c].revision = deps[d].source[c]
    /\ Running(c).revision = deps[d].source[c]
    /\ Running(c).live

CodeIsCurrent ==
    latest # None /\ deps[latest].source # None =>
        \A c \in Contracts : UpgradeTookEffect(latest, c) \/ c \in imported

(* A proxy is pointed to other code only after the new layout was compared *)
(* with that of the code it runs at that moment, unless deployments        *)
(* overlap or the contract was once imported by force.                     *)
UpgradesAreChecked ==
    [][\A p \in DOMAIN proxies : proxies'[p] # proxies[p] =>
         \E d \in Deployments, c \in Contracts :
            /\ At(d, c, "point") /\ tasks[d][c].proxy = p
            /\ \/ tasks[d][c].checked = Code(proxies[p]).revision
               \/ ~deps[d].alone
               \/ c \in imported]_vars

(* The proxy of a contract, and with it the contract's data, is given up   *)
(* only when a new one is forced, when deployments overlap, or when        *)
(* deployments failed and none has published the manifest yet.             *)
ProxySurvives ==
    [][\A c \in Contracts :
         registry.address[c] # 0 /\ registry.address'[c] # registry.address[c] =>
            \E d \in Deployments :
               /\ At(d, c, "publish")
               /\ \/ deps[d].force
                  \/ ~deps[d].alone
                  \/ /\ registry.metadata = None
                     /\ \E e \in Deployments : deps[e].phase = "failed"]_vars

(* What the comments of the fallback promise: the upgrade is tried again   *)
(* with a new manifest file, and a deployment that ends has deployed its   *)
(* source.                                                                 *)
UpgradeTakesEffect ==
    latest # None /\ deps[latest].source # None =>
        \A c \in Contracts : UpgradeTookEffect(latest, c)

=============================================================================
