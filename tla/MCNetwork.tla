---- MODULE MCNetwork ----
\* The components that read and write the chain, side by side: a behaviour is one of one
\* of them, chosen at the start, and the others stay as they begin.
EXTENDS KeyValue, Versions, Rpc, Identity, IdentityAbi, ChainLists

CONSTANTS e1, e2, ethChain, solChain, otherChain

\* Two entries: each may hold a value or the instruction to copy the other.
MCEntries == {e1, e2}
MCRoutes == {e1}
MCPuts == {[entry |-> e1, to |-> e2], [entry |-> e2, to |-> e1], [entry |-> e1, to |-> Plain]}
MCOthers == {[entry |-> e2, to |-> e1]}

MCTypedVersions == {<<1, 0, 8>>, <<0, 9, 9>>, <<1, 1, 0>>}
MCBases == {<<0, 9>>, <<1, 0>>, <<1, 1>>, <<1, 10>>}
MCNetworks == ethChain :> "eth" @@ solChain :> "solana" @@ otherChain :> "none"

VARIABLE part
Parts == {"registry", "versions", "rpc", "identity", "abi", "lists"}

MCInit ==
    /\ part \in Parts
    /\ Init /\ VersionsInit /\ RpcInit
    /\ IdentityInit /\ owns = {"ethereum"}
    /\ AbiInit /\ (part = "abi" \/ abiFile = "none")
    /\ ListsInit /\ (part = "lists" \/ (reader = "client" /\ added = 0 /\ head = 0))

MCNext ==
    \/ /\ part = "registry" /\ Next
       /\ UNCHANGED <<versionsVars, rpcVars, identityVars, abiVars, listsVars>>
    \/ /\ part = "versions" /\ VersionsNext
       /\ UNCHANGED <<vars, rpcVars, identityVars, abiVars, listsVars>>
    \/ /\ part = "rpc" /\ RpcNext
       /\ UNCHANGED <<vars, versionsVars, identityVars, abiVars, listsVars>>
    \/ /\ part = "identity" /\ IdentityNext
       /\ UNCHANGED <<vars, versionsVars, rpcVars, abiVars, listsVars>>
    \/ /\ part = "abi" /\ AbiNext
       /\ UNCHANGED <<vars, versionsVars, rpcVars, identityVars, listsVars>>
    \/ /\ part = "lists" /\ ListsNext
       /\ UNCHANGED <<vars, versionsVars, rpcVars, identityVars, abiVars>>

MCSpec ==
    /\ MCInit
    /\ [][MCNext /\ UNCHANGED part]_<<part, vars, versionsVars, rpcVars, identityVars, abiVars,
                                      listsVars>>
    /\ Fairness
====
