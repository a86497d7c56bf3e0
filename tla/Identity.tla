------------------------------ MODULE Identity ------------------------------
(***************************************************************************)
(* The identity of the node's own address: getIdentity                     *)
(* (name_service/identity.ts) with its cache (identity-cache.ts), and the   *)
(* registration of an identity (IdentityController.registerIdentity,        *)
(* ethereum.registerVerified).                                             *)
(*                                                                         *)
(* A look-up visits its target networks in a fixed order.  It goes from one *)
(* network to the next without a pause while the cache answers, and pauses  *)
(* while a chain is asked: what it then puts in the cache is what the chain *)
(* said when it was asked.  Look-ups share no request, so two of them, and  *)
(* a registration, interleave at every pause.                              *)
(***************************************************************************)
EXTENDS Integers

CONSTANTS Lookups,         \* calls of getIdentity (a finished one is reused)
          Registrations,   \* calls of registerIdentity
          Nobody           \* who wrote a cache entry nobody wrote

ASSUME NobodyAssumption == Nobody \notin Lookups \cup Registrations

\* The networks in the order getIdentity visits them.
IdentityNetwork == <<"point", "solana", "ethereum">>
IdentityNetworks == {IdentityNetwork[i] : i \in 1..3}

\* isIdentityRegistered and ownerToIdentity (a Solana, an Ethereum address).
TargetSets == {IdentityNetworks, {"solana"}, {"point", "ethereum"}}

VARIABLES
  lookup,          \* where every look-up stands
  registration,    \* where every registration stands
  identityCache,   \* per network: "none", "null" (asked, no identity), "id"
  cachedBy,        \* who wrote the entry of the Point network
  owns,            \* the networks on which the address has an identity
  acknowledged,    \* a registration of this node has been answered
  raced            \* look-ups that held the old answer when that happened

identityVars ==
  <<lookup, registration, identityCache, cachedBy, owns, acknowledged, raced>>

IdentityEntries == {"none", "null", "id"}
Places == {"idle", "asking", "answered", "returned"}
Stages == {"idle", "confirming", "eligible", "freeing", "sending", "mined",
           "refused", "done"}

IdentityTypeOK ==
  /\ lookup \in [Lookups -> [place : Places, net : 0..3,
                             targets : SUBSET IdentityNetworks,
                             ans : {"none", "null", "id", "error"}]]
  /\ registration \in [Registrations -> Stages]
  /\ identityCache \in [IdentityNetworks -> IdentityEntries]
  /\ cachedBy \in Lookups \cup Registrations \cup {Nobody}
  /\ owns \subseteq IdentityNetworks
  /\ acknowledged \in BOOLEAN
  /\ raced \subseteq Lookups

IdentityInit ==
  /\ lookup = [l \in Lookups |->
                 [place |-> "idle", net |-> 0, targets |-> {}, ans |-> "none"]]
  /\ registration = [r \in Registrations |-> "idle"]
  /\ identityCache = [n \in IdentityNetworks |-> "none"]
  /\ cachedBy = Nobody
  /\ owns \in SUBSET {"solana", "ethereum"}
  /\ acknowledged = FALSE
  /\ raced = {}

-----------------------------------------------------------------------------
(* getIdentity                                                              *)

\* The networks a look-up stops at, from position i on: a cached "null" is
\* passed over without a pause.
Stops(i, targets, cache) ==
  {j \in i..3 : IdentityNetwork[j] \in targets /\ cache[IdentityNetwork[j]] # "null"}

\* The look-up goes on from position i: it returns what it finds cached, asks
\* the chain of the first network that is not cached, or finds nothing.
GoOn(l, i, targets, cache) ==
  LET stops == Stops(i, targets, cache)
  IN  \/ /\ stops = {}
         /\ lookup' = [lookup EXCEPT ![l] =
              [place |-> "returned", net |-> 0, targets |-> targets, ans |-> "null"]]
      \/ \E j \in stops :
           /\ \A k \in stops : j <= k
           /\ lookup' = [lookup EXCEPT ![l] =
                IF cache[IdentityNetwork[j]] = "id"
                THEN [place |-> "returned", net |-> j, targets |-> targets, ans |-> "id"]
                ELSE [place |-> "asking", net |-> j, targets |-> targets, ans |-> "none"]]

GetIdentity(l) ==
  /\ lookup[l].place \in {"idle", "returned"}
  /\ \E targets \in TargetSets : GoOn(l, 1, targets, identityCache)
  /\ UNCHANGED <<registration, identityCache, cachedBy, owns, acknowledged, raced>>

\* The chain reads its state, or the call fails.  The caller learns of it in a
\* later step.
AnswerLookup(l) ==
  /\ lookup[l].place = "asking"
  /\ \E a \in {"error", IF IdentityNetwork[lookup[l].net] \in owns THEN "id" ELSE "null"} :
       lookup' = [lookup EXCEPT ![l].place = "answered", ![l].ans = a]
  /\ UNCHANGED <<registration, identityCache, cachedBy, owns, acknowledged, raced>>

\* An entry of the cache, and for the Point network who wrote it.
Cache(who, n, entry) ==
  /\ identityCache' = [identityCache EXCEPT ![n] = entry]
  /\ cachedBy' = IF n = "point" THEN who ELSE cachedBy

\* The await returns: an identity is cached and returned, "no identity" is
\* cached and the next network visited; an error ends the look-up on the Point
\* network and is passed over on the others.
Receive(l) ==
  LET c == lookup[l]
      n == IdentityNetwork[c.net]
  IN  /\ c.place = "answered"
      /\ \/ /\ c.ans = "id"
            /\ Cache(l, n, "id")
            /\ lookup' = [lookup EXCEPT ![l].place = "returned"]
         \/ /\ c.ans = "null"
            /\ Cache(l, n, "null")
            /\ GoOn(l, c.net + 1, c.targets, identityCache)
         \/ /\ c.ans = "error" /\ n = "point"
            /\ lookup' = [lookup EXCEPT ![l].place = "returned", ![l].ans = "null"]
            /\ UNCHANGED <<identityCache, cachedBy>>
         \/ /\ c.ans = "error" /\ n # "point"
            /\ GoOn(l, c.net + 1, c.targets, identityCache)
            /\ UNCHANGED <<identityCache, cachedBy>>
      /\ UNCHANGED <<registration, owns, acknowledged, raced>>

\* Five minutes pass for the entry of network n.
ExpireIdentity(n) ==
  /\ identityCache[n] # "none"
  /\ Cache(Nobody, n, "none")
  /\ UNCHANGED <<lookup, registration, owns, acknowledged, raced>>

-----------------------------------------------------------------------------
(* registerIdentity                                                         *)

Stage(r, from, to) ==
  /\ registration[r] = from
  /\ registration' = [registration EXCEPT ![r] = to]

\* The body carries an activation code and a tweet, or the oracle is asked
\* whether the identity is free.
RegisterIdentity(r) ==
  /\ \E to \in {"confirming", "eligible"} : Stage(r, "idle", to)
  /\ UNCHANGED <<lookup, identityCache, cachedBy, owns, acknowledged, raced>>

\* The oracle answers: the tweet is confirmed or not; the identity is free, or
\* reserved for a tweet, or not to be had; the free activation succeeds or not.
Oracle(r) ==
  /\ \/ \E to \in {"sending", "done"} : Stage(r, "confirming", to)
     \/ \E to \in {"freeing", "done"} : Stage(r, "eligible", to)
     \/ \E to \in {"sending", "done"} : Stage(r, "freeing", to)
  /\ UNCHANGED <<lookup, identityCache, cachedBy, owns, acknowledged, raced>>

\* The transaction is mined, or it fails (an identity that is taken, a lost
\* connection): only then does the contract know the identity.
MineRegistration(r) ==
  /\ \/ Stage(r, "sending", "mined") /\ owns' = owns \cup {"point"}
     \/ Stage(r, "sending", "refused") /\ UNCHANGED owns
  /\ UNCHANGED <<lookup, identityCache, cachedBy, acknowledged, raced>>

\* The look-ups that carry an answer from before the registration.
Holding == {l \in Lookups : /\ lookup[l].place = "answered"
                            /\ lookup[l].net = 1
                            /\ lookup[l].ans = "null"}

\* Mutant: as Acknowledge, without addToCache.
AcknowledgeOnly(r) ==
  /\ \/ Stage(r, "mined", "done") /\ acknowledged' = TRUE /\ raced' = raced \cup Holding
     \/ Stage(r, "refused", "done") /\ UNCHANGED <<acknowledged, raced>>
  /\ UNCHANGED <<lookup, identityCache, cachedBy, owns>>

\* web3send returns: addToCache puts the new identity in the cache and the
\* browser is answered; a failure is only answered.
Acknowledge(r) ==
  /\ \/ /\ Stage(r, "mined", "done")
        /\ Cache(r, "point", "id")
        /\ acknowledged' = TRUE
        /\ raced' = raced \cup Holding
     \/ /\ Stage(r, "refused", "done")
        /\ UNCHANGED <<identityCache, cachedBy, acknowledged, raced>>
  /\ UNCHANGED <<lookup, owns>>

\* The owner of the address registers from another node.
RegisterElsewhere ==
  /\ "point" \notin owns
  /\ owns' = owns \cup {"point"}
  /\ UNCHANGED <<lookup, registration, identityCache, cachedBy, acknowledged, raced>>

IdentityNext ==
  \/ \E l \in Lookups : GetIdentity(l) \/ AnswerLookup(l) \/ Receive(l)
  \/ \E n \in IdentityNetworks : ExpireIdentity(n)
  \/ \E r \in Registrations : \/ RegisterIdentity(r) \/ Oracle(r)
                              \/ MineRegistration(r) \/ Acknowledge(r)
  \/ RegisterElsewhere

IdentitySpec == IdentityInit /\ [][IdentityNext]_identityVars

-----------------------------------------------------------------------------
(* "Add to cache so that users don't have to wait until expiration to see   *)
(* the updates": once a registration has been answered, the cache denies    *)
(* the identity only if a look-up that had been told so before the answer   *)
(* wrote its "no identity" after it.                                        *)
RegisteredIdentityIsSeen ==
  acknowledged /\ identityCache["point"] = "null" => cachedBy \in raced

=============================================================================
