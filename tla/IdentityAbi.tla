----------------------------- MODULE IdentityAbi -----------------------------
(***************************************************************************)
(* How the node gets the interface of the Identity contract:                *)
(* loadIdentityContract, isIdentityAbiRelevant,                             *)
(* fetchAndSaveIdentityAbiFromStorage and loadPointContract of              *)
(* network/providers/ethereum.js.  Every component calls it, at start-up     *)
(* several at once; the result is kept for the life of the process.          *)
(*                                                                         *)
(* "new" is the interface the configuration names (identity_contract_id),    *)
(* "old" one that an earlier version or a local compilation left.            *)
(***************************************************************************)
EXTENDS Naturals

CONSTANTS Loaders,     \* calls of loadIdentityContract (a finished one is reused)
          MaxRestarts  \* bound

VARIABLES
  abiFile,     \* Identity.json: "none", "old", "new", or "torn" while it is written
  abiInMemory, \* abisByContractName.Identity
  contract,    \* _identityContract: the interface it was made of
  loader,      \* where every call stands
  missed,      \* history: a call of this process could not fetch or save
  restarts

abiVars == <<abiFile, abiInMemory, contract, loader, missed, restarts>>

AbiInit ==
  /\ abiFile \in {"none", "old", "new"}
  /\ abiInMemory = "none"
  /\ contract = "none"
  /\ loader = [l \in Loaders |-> "idle"]
  /\ missed = FALSE
  /\ restarts = 0

Goes(l, from, to) ==
  /\ loader[l] = from
  /\ loader' = [loader EXCEPT ![l] = to]

\* The kept contract is returned at once (no step); else the local file is read.
\* In the modes e2e and zappdev the interface is the compiled one: not modelled.
LoadIdentityContract(l) ==
  /\ contract = "none"
  /\ Goes(l, "idle", "checking")
  /\ UNCHANGED <<abiFile, abiInMemory, contract, missed, restarts>>

\* Mutant: as IsIdentityAbiRelevant, content with any file that can be read.
IsIdentityAbiReadable(l) ==
  /\ Goes(l, "checking", IF abiFile \in {"old", "new"} THEN "abi" ELSE "fetching")
  /\ UNCHANGED <<abiFile, abiInMemory, contract, missed, restarts>>

\* The file is relevant when it was fetched under the configured id; one that
\* cannot be read or parsed is not.
IsIdentityAbiRelevant(l) ==
  /\ Goes(l, "checking", IF abiFile = "new" THEN "abi" ELSE "fetching")
  /\ UNCHANGED <<abiFile, abiInMemory, contract, missed, restarts>>

\* getJSON answers and the file is opened for writing, or the call fails, which
\* is logged and not raised.
FetchIdentityAbi(l) ==
  /\ \/ Goes(l, "fetching", "writing") /\ abiFile' = "torn" /\ UNCHANGED missed
     \/ Goes(l, "fetching", "abi") /\ missed' = TRUE /\ UNCHANGED abiFile
  /\ UNCHANGED <<abiInMemory, contract, restarts>>

\* The file is written and the interface kept in memory; the writing may fail.
SaveIdentityAbi(l) ==
  /\ \/ /\ Goes(l, "writing", "abi")
        /\ abiFile' = IF \E k \in Loaders \ {l} : loader[k] = "writing" THEN "torn" ELSE "new"
        /\ abiInMemory' = "new"
        /\ UNCHANGED missed
     \/ /\ Goes(l, "writing", "abi")
        /\ missed' = TRUE
        /\ UNCHANGED <<abiFile, abiInMemory>>
  /\ UNCHANGED <<contract, restarts>>

\* loadPointContract: what is in memory is used; else the file is looked for,
\* compiled when there is none, and read.
LoadPointContract(l) ==
  /\ \/ abiInMemory # "none" /\ Goes(l, "abi", "made")
     \/ abiInMemory = "none" /\ abiFile # "none" /\ Goes(l, "abi", "reading")
     \/ abiInMemory = "none" /\ abiFile = "none" /\ Goes(l, "abi", "compiling")
  /\ UNCHANGED <<abiFile, abiInMemory, contract, missed, restarts>>

\* compileAndSaveContract; the sources may be missing.
CompileIdentity(l) ==
  /\ \/ Goes(l, "compiling", "reading") /\ abiFile' = "old"
     \/ Goes(l, "compiling", "idle") /\ UNCHANGED abiFile
  /\ UNCHANGED <<abiInMemory, contract, missed, restarts>>

\* The file is read and parsed; what it holds goes to memory, whatever another
\* call has put there since.
ReadIdentityAbi(l) ==
  /\ \/ abiFile \in {"old", "new"} /\ Goes(l, "reading", "made") /\ abiInMemory' = abiFile
     \/ abiFile \in {"none", "torn"} /\ Goes(l, "reading", "idle") /\ UNCHANGED abiInMemory
  /\ UNCHANGED <<abiFile, contract, missed, restarts>>

\* The contract object is made from what is in memory, and kept.
MakeContract(l) ==
  /\ Goes(l, "made", "idle")
  /\ contract' = abiInMemory
  /\ UNCHANGED <<abiFile, abiInMemory, missed, restarts>>

\* The node is stopped, or crashes, and is started again: a file that was being
\* written stays as it is.
RestartNode ==
  /\ restarts < MaxRestarts
  /\ restarts' = restarts + 1
  /\ abiInMemory' = "none" /\ contract' = "none" /\ missed' = FALSE
  /\ loader' = [l \in Loaders |-> "idle"]
  /\ UNCHANGED abiFile

AbiNext ==
  \/ \E l \in Loaders :
       \/ LoadIdentityContract(l) \/ IsIdentityAbiRelevant(l) \/ FetchIdentityAbi(l)
       \/ SaveIdentityAbi(l) \/ LoadPointContract(l) \/ CompileIdentity(l)
       \/ ReadIdentityAbi(l) \/ MakeContract(l)
  \/ RestartNode

AbiSpec == AbiInit /\ [][AbiNext]_abiVars

-----------------------------------------------------------------------------
(* The contract object that every component shares is made of the            *)
(* configured interface, unless a call of this process failed to fetch or    *)
(* save it: not because calls at start-up overtook one another, found the    *)
(* file half written, or found what a crash had left.                       *)
OldAbiOnlyAfterMiss == contract = "old" => missed

=============================================================================
