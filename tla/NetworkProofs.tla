--------------------------- MODULE NetworkProofs ----------------------------
(***************************************************************************)
(* Proofs about the components that read and write the chain: modules Rpc, *)
(* Identity, IdentityAbi, KeyValue, Versions and ChainLists.               *)
(***************************************************************************)
EXTENDS Rpc, Identity, IdentityAbi, KeyValue, Versions, ChainLists, FiniteSetTheorems,
        SequenceTheorems, WellFoundedInduction, TLAPS

(***************************************************************************)
(* Transactions that wait for the user.                                    *)
(***************************************************************************)

RequestStates == {"none", "decoding", "refused", "stored", "gone"}

RpcTypeOK ==
  /\ requests \in [Requests -> [state : RequestStates, network : DOMAIN Networks \cup {UnknownNetwork}]]
  /\ expired \subseteq Requests
  /\ confirms \in [RpcCalls -> [pc : {"idle", "sending", "200", "400", "404", "500"}]]
  /\ sends \in [Requests -> SUBSET RpcCalls]

\* A request is taken away before it is sent, by the one call that sends it; a request that
\* expired or whose network is unsupported never comes to that.
SentByOne(r) ==
  \/ sends[r] = {}
  \/ /\ \E c \in RpcCalls : sends[r] = {c}
     /\ requests[r].state = "gone" /\ r \notin expired
     /\ Networks[requests[r].network] \in {"eth", "solana"}

RpcInv == RpcTypeOK /\ \A r \in Requests : SentByOne(r)

\* A step that sends nothing and takes no request away that had been sent.
LEMMA NothingSent ==
  ASSUME RpcInv, RpcTypeOK', UNCHANGED sends,
         \A r \in Requests : requests[r].state = "gone" => requests'[r] = requests[r],
         \A r \in Requests : requests[r].state = "gone" => (r \in expired' => r \in expired)
  PROVE  RpcInv'
  BY DEF RpcInv, SentByOne

LEMMA ConfirmKeeps ==
  ASSUME RpcInv, NEW c \in RpcCalls, NEW r \in Requests, ConfirmTransaction(c, r)
  PROVE  RpcInv'
  <1> USE DEF RpcInv
  <1>1. expired' = expired  BY DEF ConfirmTransaction
  <1>2. CASE requests[r].state # "stored" \/ r \in expired
    <2>1. /\ confirms' = [confirms EXCEPT ![c].pc = "404"]
          /\ requests' = IF r \in expired /\ requests[r].state = "stored"
                         THEN [requests EXCEPT ![r].state = "gone"] ELSE requests
          /\ UNCHANGED sends
      BY <1>2 DEF ConfirmTransaction
    <2>2. RpcTypeOK'
      BY <1>1, <2>1 DEF RpcTypeOK, RequestStates
    <2>3. \A q \in Requests : requests[q].state = "gone" => requests'[q] = requests[q]
      BY <2>1 DEF RpcTypeOK
    <2>4. QED  BY <1>1, <2>1, <2>2, <2>3, NothingSent
  <1>3. CASE ~(requests[r].state # "stored" \/ r \in expired)
    <2>1. requests' = [requests EXCEPT ![r].state = "gone"]
      BY <1>3 DEF ConfirmTransaction
    <2>2. sends[r] = {}
      BY <1>3 DEF SentByOne
    <2>3. \/ /\ Networks[requests[r].network] \in {"eth", "solana"}
             /\ confirms' = [confirms EXCEPT ![c].pc = "sending"]
             /\ sends' = [sends EXCEPT ![r] = @ \cup {c}]
          \/ confirms' = [confirms EXCEPT ![c].pc = "400"] /\ UNCHANGED sends
      BY <1>3 DEF ConfirmTransaction
    <2>4. RpcTypeOK'
      <3>1. requests' \in [Requests -> [state : RequestStates,
                                        network : DOMAIN Networks \cup {UnknownNetwork}]]
        BY <2>1 DEF RpcTypeOK, RequestStates
      <3>2. confirms' \in [RpcCalls -> [pc : {"idle", "sending", "200", "400", "404", "500"}]]
        BY <2>3 DEF RpcTypeOK
      <3>3. sends' \in [Requests -> SUBSET RpcCalls]
        BY <2>3 DEF RpcTypeOK
      <3>4. QED  BY <1>1, <3>1, <3>2, <3>3 DEF RpcTypeOK
    <2>5. SentByOne(r)'
      BY <1>1, <1>3, <2>1, <2>2, <2>3 DEF SentByOne, RpcTypeOK
    <2>6. ASSUME NEW q \in Requests, q # r  PROVE SentByOne(q)'
      BY <1>1, <2>1, <2>3, <2>6 DEF SentByOne, RpcTypeOK
    <2>7. QED  BY <2>4, <2>5, <2>6
  <1>4. QED  BY <1>2, <1>3

LEMMA RpcInvStep ==
  ASSUME RpcInv, [RpcNext]_rpcVars
  PROVE  RpcInv'
  <1> USE DEF RpcInv
  <1>1. ASSUME NEW r \in Requests, NEW network \in DOMAIN Networks \cup {UnknownNetwork},
               NEW n \in 1..2, StoreTransaction(r, network, n)
        PROVE  RpcInv'
    <2>1. PICK state \in {"refused", "decoding"} :
            requests' = [requests EXCEPT ![r] = [state |-> state, network |-> network]]
      BY <1>1 DEF StoreTransaction
    <2>2. requests[r].state = "none" /\ UNCHANGED <<expired, confirms, sends>>
      BY <1>1 DEF StoreTransaction
    <2>3. RpcTypeOK'
      BY <2>1, <2>2 DEF RpcTypeOK, RequestStates
    <2>4. \A q \in Requests : requests[q].state = "gone" => requests'[q] = requests[q]
      BY <2>1, <2>2 DEF RpcTypeOK
    <2>5. QED  BY <2>2, <2>3, <2>4, NothingSent
  <1>2. ASSUME NEW r \in Requests, Decoded(r)  PROVE RpcInv'
    <2>1. RpcTypeOK'
      BY <1>2 DEF Decoded, RpcTypeOK, RequestStates
    <2>2. \A q \in Requests : requests[q].state = "gone" => requests'[q] = requests[q]
      BY <1>2 DEF Decoded, RpcTypeOK
    <2>3. QED  BY <1>2, <2>1, <2>2, NothingSent DEF Decoded
  <1>3. ASSUME NEW r \in Requests, SnsWriteRequest(r)  PROVE RpcInv'
    <2>1. RpcTypeOK'
      BY <1>3 DEF SnsWriteRequest, RpcTypeOK, RequestStates
    <2>2. \A q \in Requests : requests[q].state = "gone" => requests'[q] = requests[q]
      BY <1>3 DEF SnsWriteRequest, RpcTypeOK
    <2>3. QED  BY <1>3, <2>1, <2>2, NothingSent DEF SnsWriteRequest
  <1>4. ASSUME NEW r \in Requests, RequestExpires(r)  PROVE RpcInv'
    <2>1. RpcTypeOK'
      BY <1>4 DEF RequestExpires, RpcTypeOK
    <2>2. QED  BY <1>4, <2>1, NothingSent DEF RequestExpires
  <1>5. ASSUME NEW c \in RpcCalls, Sent(c)  PROVE RpcInv'
    <2>1. RpcTypeOK'
      BY <1>5 DEF Sent, RpcTypeOK
    <2>2. QED  BY <1>5, <2>1, NothingSent DEF Sent
  <1>6. CASE UNCHANGED rpcVars
    BY <1>6 DEF rpcVars, RpcTypeOK, SentByOne
  <1>7. QED
    BY <1>1, <1>2, <1>3, <1>4, <1>5, <1>6, ConfirmKeeps DEF RpcNext

\* The invariant in the words of the property: a set of at most one call.
LEMMA OneSender ==
  ASSUME RpcInv
  PROVE  SentAtMostOnce
  <1> SUFFICES ASSUME NEW r \in Requests
               PROVE  /\ Cardinality(sends[r]) <= 1
                      /\ sends[r] # {} => /\ requests[r].state = "gone" /\ r \notin expired
                                          /\ Networks[requests[r].network] \in {"eth", "solana"}
    BY DEF SentAtMostOnce
  <1>1. CASE sends[r] = {}
    <2>1. Cardinality(sends[r]) = 0  BY <1>1, FS_EmptySet
    <2>2. QED  BY <1>1, <2>1
  <1>2. CASE sends[r] # {}
    <2>1. PICK c \in RpcCalls : sends[r] = {c}
      BY <1>2 DEF RpcInv, SentByOne
    <2>2. Cardinality(sends[r]) = 1  BY <2>1, FS_Singleton
    <2>3. QED  BY <1>2, <2>2 DEF RpcInv, SentByOne
  <1>3. QED  BY <1>1, <1>2

\* However many confirmations of one request are under way at once, each request reaches the
\* chain at most once: find and rm are not parted by an await.
THEOREM RpcSentAtMostOnce == RpcSpec => []SentAtMostOnce
  <1>1. RpcInit => RpcInv
    BY DEF RpcInit, RpcInv, RpcTypeOK, RequestStates, SentByOne
  <1>2. RpcInv /\ [RpcNext]_rpcVars => RpcInv'
    BY RpcInvStep
  <1>3. RpcInv => SentAtMostOnce
    BY OneSender
  <1>4. QED  BY <1>1, <1>2, <1>3, PTL DEF RpcSpec

(***************************************************************************)
(* Look-ups and registrations of identities.                               *)
(***************************************************************************)

\* The identity of a registration that was answered is on the chain, so that
\* "no identity" in the cache, or on its way there, was asked for before.
OldNews ==
  /\ \A r \in Registrations : registration[r] = "mined" => "point" \in owns
  /\ acknowledged => "point" \in owns
  /\ \A l \in Lookups :
       lookup[l].place = "answered" =>
         /\ lookup[l].net \in 1..3
         /\ acknowledged /\ lookup[l].net = 1 /\ lookup[l].ans = "null" => l \in raced
  /\ \A l \in Lookups : lookup[l].place = "asking" => lookup[l].net \in 1..3

IdentityInv == IdentityTypeOK /\ OldNews /\ RegisteredIdentityIsSeen

\* The steps of GoOn: it is a look-up like any other afterwards, and none that carries an answer.
LEMMA GoOnKept ==
  ASSUME IdentityTypeOK, OldNews, NEW l \in Lookups, NEW i \in Nat, i > 0,
         NEW targets \in SUBSET IdentityNetworks, NEW cache, GoOn(l, i, targets, cache)
  PROVE  /\ lookup' \in [Lookups -> [place : Places, net : 0..3,
                                    targets : SUBSET IdentityNetworks,
                                    ans : {"none", "null", "id", "error"}]]
         /\ \A k \in Lookups : k # l => lookup'[k] = lookup[k]
         /\ lookup'[l].place # "answered"
         /\ lookup'[l].place = "asking" => lookup'[l].net \in 1..3
  <1>1. Stops(i, targets, cache) \subseteq 1..3
    BY DEF Stops
  <1>2. QED  BY <1>1 DEF GoOn, IdentityTypeOK, Places

\* What a step that writes no entry but "id" must keep for the invariant.
LEMMA Disturb ==
  ASSUME IdentityInv, IdentityTypeOK',
         UNCHANGED <<registration, owns, acknowledged, raced>>,
         NEW l \in Lookups, \A k \in Lookups : k # l => lookup'[k] = lookup[k],
         lookup'[l].place # "answered",
         lookup'[l].place = "asking" => lookup'[l].net \in 1..3
  PROVE  OldNews'
  BY DEF IdentityInv, OldNews

\* A look-up begins, or goes on from the cache.
LEMMA GetIdentityKeeps ==
  ASSUME IdentityInv, NEW l \in Lookups, GetIdentity(l)
  PROVE  IdentityInv'
  <1>1. PICK targets \in TargetSets : GoOn(l, 1, targets, identityCache)
    BY DEF GetIdentity
  <1>2. targets \in SUBSET IdentityNetworks
    BY DEF TargetSets, IdentityNetworks, IdentityNetwork
  <1>3. UNCHANGED <<registration, identityCache, cachedBy, owns, acknowledged, raced>>
    BY DEF GetIdentity
  <1>4. /\ lookup' \in [Lookups -> [place : Places, net : 0..3,
                                   targets : SUBSET IdentityNetworks,
                                   ans : {"none", "null", "id", "error"}]]
        /\ \A k \in Lookups : k # l => lookup'[k] = lookup[k]
        /\ lookup'[l].place # "answered"
        /\ lookup'[l].place = "asking" => lookup'[l].net \in 1..3
    <2>1. IdentityTypeOK /\ OldNews /\ 1 \in Nat /\ 1 > 0
      BY DEF IdentityInv
    <2>2. QED  BY ONLY <2>1, <1>1, <1>2, GoOnKept
  <1>5. IdentityTypeOK'
    BY <1>3, <1>4 DEF IdentityInv, IdentityTypeOK
  <1>6. OldNews'
    BY <1>3, <1>4, <1>5, Disturb
  <1>7. QED  BY <1>3, <1>5, <1>6 DEF IdentityInv, RegisteredIdentityIsSeen

\* The chain answers: after the registration it no longer says "no identity" of Point.
LEMMA AnswerLookupKeeps ==
  ASSUME IdentityInv, NEW l \in Lookups, AnswerLookup(l)
  PROVE  IdentityInv'
  <1> USE DEF IdentityInv
  <1>1. PICK a \in {"error", IF IdentityNetwork[lookup[l].net] \in owns THEN "id" ELSE "null"} :
            lookup' = [lookup EXCEPT ![l].place = "answered", ![l].ans = a]
    BY DEF AnswerLookup
  <1>2. /\ UNCHANGED <<registration, identityCache, cachedBy, owns, acknowledged, raced>>
        /\ lookup[l].place = "asking"
    BY DEF AnswerLookup
  <1>3. IdentityTypeOK'
    BY <1>1, <1>2, ZenonT(60) DEF IdentityTypeOK, Places
  <1>4. /\ lookup'[l].net = lookup[l].net /\ lookup'[l].ans = a /\ lookup'[l].place = "answered"
        /\ \A k \in Lookups : k # l => lookup'[k] = lookup[k]
    BY <1>1 DEF IdentityTypeOK
  <1>5. lookup[l].net \in 1..3
    BY <1>2 DEF OldNews
  <1>6. ~(acknowledged /\ lookup[l].net = 1 /\ a = "null")
    BY <1>1 DEF OldNews, IdentityNetwork
  <1>7. OldNews'
    BY <1>2, <1>4, <1>5, <1>6 DEF OldNews
  <1>8. QED  BY <1>2, <1>3, <1>7 DEF RegisteredIdentityIsSeen

\* An answer is put in the cache: a "no identity" by a look-up that raced, if at all.
LEMMA ReceiveKeeps ==
  ASSUME IdentityInv, NEW l \in Lookups, Receive(l)
  PROVE  IdentityInv'
  <1> USE DEF IdentityInv
  <1> DEFINE c == lookup[l]
             n == IdentityNetwork[c.net]
             LookupsOK == lookup' \in [Lookups -> [place : Places, net : 0..3,
                                         targets : SUBSET IdentityNetworks,
                                         ans : {"none", "null", "id", "error"}]]
             Moved == /\ LookupsOK
                      /\ \A k \in Lookups : k # l => lookup'[k] = lookup[k]
                      /\ lookup'[l].place # "answered"
                      /\ lookup'[l].place = "asking" => lookup'[l].net \in 1..3
  <1>1. /\ c.place = "answered" /\ c.net \in 1..3 /\ n \in IdentityNetworks
        /\ c.targets \in SUBSET IdentityNetworks
        /\ UNCHANGED <<registration, owns, acknowledged, raced>>
        /\ acknowledged /\ c.net = 1 /\ c.ans = "null" => l \in raced
        /\ n = "point" => c.net = 1
    BY DEF Receive, OldNews, IdentityTypeOK, IdentityNetworks, IdentityNetwork
  <1>2. c.net + 1 \in Nat /\ c.net + 1 > 0
    BY <1>1
  <1>3. GoOn(l, c.net + 1, c.targets, identityCache) => Moved
    BY <1>1, <1>2, GoOnKept
  <1>4. CASE c.ans = "id" /\ Cache(l, n, "id") /\ lookup' = [lookup EXCEPT ![l].place = "returned"]
    <2>1. Moved  BY <1>4 DEF IdentityTypeOK, Places
    <2>2. IdentityTypeOK'
      BY <1>1, <1>4, <2>1 DEF IdentityTypeOK, Cache, IdentityEntries
    <2>3. OldNews'  BY <1>1, <2>1, <2>2, Disturb
    <2>4. RegisteredIdentityIsSeen'
      BY <1>1, <1>4 DEF Cache, RegisteredIdentityIsSeen, IdentityTypeOK, IdentityNetworks, IdentityNetwork
    <2>5. QED  BY <2>2, <2>3, <2>4
  <1>5. CASE c.ans = "null" /\ Cache(l, n, "null") /\ GoOn(l, c.net + 1, c.targets, identityCache)
    <2>1. Moved  BY <1>3, <1>5
    <2>2. IdentityTypeOK'
      BY <1>1, <1>5, <2>1 DEF IdentityTypeOK, Cache, IdentityEntries
    <2>3. OldNews'  BY <1>1, <2>1, <2>2, Disturb
    <2>4. RegisteredIdentityIsSeen'
      BY <1>1, <1>5 DEF Cache, RegisteredIdentityIsSeen, IdentityTypeOK, IdentityNetworks, IdentityNetwork
    <2>5. QED  BY <2>2, <2>3, <2>4
  <1>6. CASE Moved /\ UNCHANGED <<identityCache, cachedBy>>
    <2>1. IdentityTypeOK'  BY <1>1, <1>6 DEF IdentityTypeOK
    <2>2. OldNews'  BY <1>1, <1>6, <2>1, Disturb
    <2>3. QED  BY <1>1, <1>6, <2>1, <2>2 DEF RegisteredIdentityIsSeen
  <1>7. CASE /\ c.ans = "error" /\ UNCHANGED <<identityCache, cachedBy>>
             /\ lookup' = [lookup EXCEPT ![l].place = "returned", ![l].ans = "null"]
    <2>1. Moved  BY <1>7 DEF IdentityTypeOK, Places
    <2>2. QED  BY <1>6, <1>7, <2>1
  <1>8. QED  BY <1>3, <1>4, <1>5, <1>6, <1>7 DEF Receive

\* A registration goes on without a word to the cache.
LEMMA StageKeeps ==
  ASSUME IdentityInv, registration' \in [Registrations -> Stages],
         \A r \in Registrations :
            registration'[r] = "mined" => registration[r] = "mined" \/ "point" \in owns',
         owns \subseteq owns', owns' \subseteq IdentityNetworks,
         UNCHANGED <<lookup, identityCache, cachedBy, acknowledged, raced>>
  PROVE  IdentityInv'
  <1> USE DEF IdentityInv
  <1>1. IdentityTypeOK'
    BY DEF IdentityTypeOK
  <1>2. OldNews'
    BY DEF OldNews
  <1>3. QED  BY <1>1, <1>2 DEF RegisteredIdentityIsSeen

\* The registration is answered: whoever still carries the old answer is noted in raced.
LEMMA AcknowledgeKeeps ==
  ASSUME IdentityInv, NEW r \in Registrations, Acknowledge(r)
  PROVE  IdentityInv'
  <1> USE DEF IdentityInv
  <1>1. CASE /\ Stage(r, "mined", "done") /\ Cache(r, "point", "id")
             /\ acknowledged' = TRUE /\ raced' = raced \cup Holding /\ UNCHANGED <<lookup, owns>>
    <2>1. IdentityTypeOK'
      BY <1>1 DEF Stage, Cache, Holding, IdentityTypeOK, Stages, IdentityEntries
    <2>2. \A q \in Registrations : registration'[q] = "mined" => registration[q] = "mined"
      BY <1>1 DEF Stage, IdentityTypeOK
    <2>3. "point" \in owns
      BY <1>1 DEF Stage, OldNews
    <2>4. OldNews'
      BY <1>1, <2>2, <2>3 DEF OldNews, Holding
    <2>5. RegisteredIdentityIsSeen'
      BY <1>1 DEF Cache, RegisteredIdentityIsSeen, IdentityTypeOK, IdentityNetworks, IdentityNetwork
    <2>6. QED  BY <2>1, <2>4, <2>5
  <1>2. CASE /\ Stage(r, "refused", "done")
             /\ UNCHANGED <<lookup, owns, identityCache, cachedBy, acknowledged, raced>>
    <2>1. registration' = [registration EXCEPT ![r] = "done"]  BY <1>2 DEF Stage
    <2>2. QED  BY <1>2, <2>1, StageKeeps DEF Stages, IdentityTypeOK
  <1>3. QED  BY <1>1, <1>2 DEF Acknowledge

LEMMA IdentityInvStep ==
  ASSUME IdentityInv, [IdentityNext]_identityVars
  PROVE  IdentityInv'
  <1> USE DEF IdentityInv
  <1>1. ASSUME NEW n \in IdentityNetworks, ExpireIdentity(n)  PROVE IdentityInv'
    <2>1. IdentityTypeOK'
      BY <1>1 DEF ExpireIdentity, Cache, IdentityTypeOK, IdentityEntries
    <2>2. OldNews'  BY <1>1 DEF ExpireIdentity, OldNews
    <2>3. RegisteredIdentityIsSeen'
      BY <1>1 DEF ExpireIdentity, Cache, RegisteredIdentityIsSeen, IdentityTypeOK
    <2>4. QED  BY <2>1, <2>2, <2>3
  <1>2. ASSUME NEW r \in Registrations, RegisterIdentity(r)  PROVE IdentityInv'
    <2>1. PICK to \in Stages \ {"mined"} : registration' = [registration EXCEPT ![r] = to]
      BY <1>2 DEF RegisterIdentity, Stage, Stages
    <2>2. UNCHANGED <<lookup, identityCache, cachedBy, owns, acknowledged, raced>>
      BY <1>2 DEF RegisterIdentity
    <2>3. QED  BY <2>1, <2>2, StageKeeps DEF IdentityTypeOK
  <1>3. ASSUME NEW r \in Registrations, Oracle(r)  PROVE IdentityInv'
    <2>1. PICK to \in Stages \ {"mined"} : registration' = [registration EXCEPT ![r] = to]
      BY <1>3 DEF Oracle, Stage, Stages
    <2>2. UNCHANGED <<lookup, identityCache, cachedBy, owns, acknowledged, raced>>
      BY <1>3 DEF Oracle
    <2>3. QED  BY <2>1, <2>2, StageKeeps DEF IdentityTypeOK
  <1>4. ASSUME NEW r \in Registrations, MineRegistration(r)  PROVE IdentityInv'
    <2>1. PICK to \in {"mined", "refused"} :
            /\ registration' = [registration EXCEPT ![r] = to]
            /\ to = "mined" => "point" \in owns'
      BY <1>4 DEF MineRegistration, Stage
    <2>2. owns \subseteq owns' /\ owns' \subseteq owns \cup {"point"}
      BY <1>4 DEF MineRegistration
    <2>3. "point" \in IdentityNetworks
      BY DEF IdentityNetworks, IdentityNetwork
    <2>4. UNCHANGED <<lookup, identityCache, cachedBy, acknowledged, raced>>
      BY <1>4 DEF MineRegistration
    <2>5. /\ registration' \in [Registrations -> Stages]
          /\ \A q \in Registrations :
                registration'[q] = "mined" => registration[q] = "mined" \/ "point" \in owns'
      BY <2>1 DEF IdentityTypeOK, Stages
    <2>6. owns' \subseteq IdentityNetworks
      BY <2>2, <2>3 DEF IdentityTypeOK
    <2>7. QED  BY <2>2, <2>4, <2>5, <2>6, StageKeeps
  <1>5. CASE RegisterElsewhere
    <2>1. IdentityTypeOK'
      BY <1>5 DEF RegisterElsewhere, IdentityTypeOK, IdentityNetworks, IdentityNetwork
    <2>2. QED  BY <1>5, <2>1 DEF RegisterElsewhere, OldNews, RegisteredIdentityIsSeen
  <1>6. CASE UNCHANGED identityVars
    BY <1>6 DEF identityVars, IdentityTypeOK, OldNews, RegisteredIdentityIsSeen
  <1>7. QED
    BY <1>1, <1>2, <1>3, <1>4, <1>5, <1>6, GetIdentityKeeps, AnswerLookupKeeps, ReceiveKeeps,
       AcknowledgeKeeps DEF IdentityNext

LEMMA IdentityInvHolds == IdentitySpec => []IdentityInv
  <1>1. IdentityInit => IdentityInv
    <2> SUFFICES ASSUME IdentityInit PROVE IdentityInv
      OBVIOUS
    <2>1. {"solana", "ethereum"} \subseteq IdentityNetworks
      BY DEF IdentityNetworks, IdentityNetwork
    <2>2. lookup \in [Lookups -> [place : Places, net : 0..3, targets : SUBSET IdentityNetworks,
                                  ans : {"none", "null", "id", "error"}]]
      BY DEF IdentityInit, Places
    <2>3. IdentityTypeOK
      BY <2>1, <2>2 DEF IdentityInit, IdentityTypeOK, Stages, IdentityEntries
    <2>4. OldNews  BY DEF IdentityInit, OldNews
    <2>5. QED  BY <2>3, <2>4 DEF IdentityInit, IdentityInv, RegisteredIdentityIsSeen
  <1>2. QED  BY <1>1, IdentityInvStep, PTL DEF IdentitySpec

\* The state of the look-ups, of the registrations and of the cache is always well formed.
THEOREM IdentityTypeCorrect == IdentitySpec => []IdentityTypeOK
  <1>1. IdentityInv => IdentityTypeOK  BY DEF IdentityInv
  <1>2. QED  BY <1>1, IdentityInvHolds, PTL

\* addToCache does what its comment says, for any number of look-ups and registrations: a user
\* whose registration was answered is told "no identity" from the cache only through a look-up
\* that had been told so before.
THEOREM RegisteredIdentitySeen == IdentitySpec => []RegisteredIdentityIsSeen
  <1>1. IdentityInv => RegisteredIdentityIsSeen  BY DEF IdentityInv
  <1>2. QED  BY <1>1, IdentityInvHolds, PTL

(***************************************************************************)
(* The interface of the Identity contract.                                 *)
(***************************************************************************)

AbiTypeOK ==
  /\ abiFile \in {"none", "old", "new", "torn"}
  /\ abiInMemory \in {"none", "old", "new"}
  /\ contract \in {"none", "old", "new"}
  /\ loader \in [Loaders -> {"idle", "checking", "fetching", "writing", "abi",
                            "compiling", "reading", "made"}]
  /\ missed \in BOOLEAN

\* While nothing was missed: nothing old is in memory, and a call that is past the check of
\* the file finds there the new interface or what is being written, never an old one.
Untouched ==
  /\ contract # "old" /\ abiInMemory # "old"
  /\ \A l \in Loaders :
       /\ loader[l] # "compiling"
       /\ loader[l] \in {"writing", "abi", "reading"} => abiFile \in {"new", "torn"}

AbiInv == AbiTypeOK /\ (~missed => Untouched)

LEMMA AbiInvStep ==
  ASSUME AbiInv, [AbiNext]_abiVars
  PROVE  AbiInv'
  <1> USE DEF AbiInv, AbiTypeOK, Untouched, Goes
  <1>1. ASSUME NEW l \in Loaders, LoadIdentityContract(l)  PROVE AbiInv'
    BY <1>1 DEF LoadIdentityContract
  <1>2. ASSUME NEW l \in Loaders, IsIdentityAbiRelevant(l)  PROVE AbiInv'
    BY <1>2 DEF IsIdentityAbiRelevant
  <1>3. ASSUME NEW l \in Loaders, FetchIdentityAbi(l)  PROVE AbiInv'
    BY <1>3 DEF FetchIdentityAbi
  <1>4. ASSUME NEW l \in Loaders, SaveIdentityAbi(l)  PROVE AbiInv'
    BY <1>4 DEF SaveIdentityAbi
  <1>5. ASSUME NEW l \in Loaders, LoadPointContract(l)  PROVE AbiInv'
    BY <1>5 DEF LoadPointContract
  <1>6. ASSUME NEW l \in Loaders, CompileIdentity(l)  PROVE AbiInv'
    BY <1>6 DEF CompileIdentity
  <1>7. ASSUME NEW l \in Loaders, ReadIdentityAbi(l)  PROVE AbiInv'
    BY <1>7 DEF ReadIdentityAbi
  <1>8. ASSUME NEW l \in Loaders, MakeContract(l)  PROVE AbiInv'
    BY <1>8 DEF MakeContract
  <1>9. CASE RestartNode
    <2>1. /\ \A l \in Loaders : loader'[l] = "idle"
          /\ loader' \in [Loaders -> {"idle"}]
      BY <1>9 DEF RestartNode
    <2>2. abiFile' = abiFile /\ abiInMemory' = "none" /\ contract' = "none" /\ missed' = FALSE
      BY <1>9 DEF RestartNode
    <2>3. QED  BY <2>1, <2>2
  <1>10. CASE UNCHANGED abiVars
    BY <1>10 DEF abiVars
  <1>11. QED
    BY <1>1, <1>2, <1>3, <1>4, <1>5, <1>6, <1>7, <1>8, <1>9, <1>10 DEF AbiNext

\* For any number of overlapping calls of loadIdentityContract and of restarts: the contract
\* object the node keeps is made of an old interface only after a fetch or a save failed.
THEOREM AbiIsCurrent == AbiSpec => []OldAbiOnlyAfterMiss
  <1>1. AbiInit => AbiInv
    <2> SUFFICES ASSUME AbiInit PROVE AbiInv
      OBVIOUS
    <2>1. /\ \A l \in Loaders : loader[l] = "idle"
          /\ loader \in [Loaders -> {"idle"}]
      BY DEF AbiInit
    <2>2. QED  BY <2>1 DEF AbiInit, AbiInv, AbiTypeOK, Untouched
  <1>2. AbiInv => OldAbiOnlyAfterMiss
    BY DEF AbiInv, AbiTypeOK, Untouched, OldAbiOnlyAfterMiss
  <1>3. QED  BY <1>1, <1>2, AbiInvStep, PTL DEF AbiSpec

(***************************************************************************)
(* The registry of key values and its caches.                              *)
(***************************************************************************)

\* A set of places in a sequence has a largest one.
LEMMA LargestPlace ==
  ASSUME NEW n \in Nat, NEW S \in SUBSET (1..n), S # {}
  PROVE  \E m \in S : \A k \in S : k <= m
  <1> DEFINE T == {n - k : k \in S}
  <1>1. PICK s \in S : TRUE
    OBVIOUS
  <1>2. T \subseteq Nat /\ n - s \in T
    OBVIOUS
  <1>3. \E x \in T : \A y \in T : ~(<<y, x>> \in OpToRel(<, Nat))
    BY <1>2, NatLessThanWellFounded, WFMin
  <1>4. PICK m \in S : \A k \in S : ~(<<n - k, n - m>> \in OpToRel(<, Nat))
    BY <1>3
  <1>5. \A k \in S : ~(n - k < n - m)
    BY <1>4, <1>2 DEF OpToRel
  <1>6. QED
    BY <1>5

Puts == [entry : Entries, to : Entries \cup {Plain}, by : {0} \cup Writes]
FillStates == [entry : Entries \cup {Plain}, state : {"none", "pending", "answered", "failed"}, value : Nat]
CallStates == [kind : {"none", "follow", "routes", "memory"},
               pc : {"unused", "wait", "share", "done", "threw"},
               entry : Entries \cup {Plain}, fill : {0} \cup Fills, copied : BOOLEAN,
               of : {0} \cup Calls, acked : [Entries -> Nat]]
WriteStates == [pc : {"unused", "estimate", "send", "done", "threw"}, entry : Entries \cup {Plain},
                to : Entries \cup {Plain}, attempt : Nat, sent : Nat]

KeyValueTypeOK ==
  /\ puts \in Seq(Puts)
  /\ fills \in [Fills -> FillStates]
  /\ keyValueCache \in [Entries -> {0} \cup Fills]
  /\ zRecordCache \in [Entries -> {0} \cup Calls]
  /\ data \in [Entries -> Nat]
  /\ calls \in [Calls -> CallStates]
  /\ writes \in [Writes -> WriteStates]
  /\ acked \in [Entries -> Nat]
  /\ expiries \in Nat

-----------------------------------------------------------------------------
(* What is on the chain: the writes of this node, and the values that were *)
(* acknowledged.                                                           *)

Mined(w) == {n \in DOMAIN puts : puts[n].by = w}
Sends(w) == Cardinality(Mined(w)) + writes[w].sent

\* Every attempt sends one transaction, which is mined once, under way, or was refused.
WriteOK(w) ==
  /\ \A n \in Mined(w) : puts[n].entry = writes[w].entry
  /\ writes[w].pc # "unused" => writes[w].entry \in Entries
  /\ writes[w].pc = "unused" => Mined(w) = {} /\ writes[w].sent = 0
  /\ writes[w].pc = "estimate" => writes[w].attempt < RetryLimit /\ Sends(w) <= writes[w].attempt
  /\ writes[w].pc = "send" => writes[w].attempt < RetryLimit /\ Sends(w) \in 1..(writes[w].attempt + 1)
  /\ writes[w].pc = "done" => Mined(w) # {}
  /\ Sends(w) <= RetryLimit

WriteInv == \A w \in Writes : WriteOK(w)

\* The newest acknowledged value of an entry is a value of that entry.
AckedInv == \A e \in Entries : acked[e] = 0 \/ (acked[e] \in DOMAIN puts /\ puts[acked[e]].entry = e)

-----------------------------------------------------------------------------
(* Promises: a cached one is for its entry and never older than what was   *)
(* acknowledged; one that a call waits for is never older than what was    *)
(* acknowledged when the call began.                                       *)

FillInv ==
  /\ \A f \in Fills :
        /\ fills[f].state # "none" => fills[f].entry \in Entries
        /\ fills[f].state = "answered" => fills[f].value \in 0..Len(puts)
  /\ \A e \in Entries : keyValueCache[e] # 0 =>
        /\ fills[keyValueCache[e]].entry = e
        /\ fills[keyValueCache[e]].state # "none"
        /\ fills[keyValueCache[e]].state = "answered" => fills[keyValueCache[e]].value >= acked[e]
  /\ \A c \in Calls : calls[c].pc = "wait" =>
        /\ calls[c].fill \in Fills /\ calls[c].entry \in Entries
        /\ fills[calls[c].fill].entry = calls[c].entry
        /\ State(c) # "none"
        /\ State(c) = "answered" => Got(c) >= calls[c].acked[calls[c].entry]
  /\ \A c \in Calls, e \in Entries : calls[c].acked[e] <= acked[e]

KeyValueInv == KeyValueTypeOK /\ WriteInv /\ AckedInv /\ FillInv

-----------------------------------------------------------------------------
(* Lemmas about the operators *)

LEMMA MinedFinite ==
  ASSUME KeyValueTypeOK, NEW w
  PROVE  IsFiniteSet(Mined(w)) /\ Cardinality(Mined(w)) \in Nat /\ Mined(w) \subseteq 1..Len(puts)
         /\ (Cardinality(Mined(w)) = 0 <=> Mined(w) = {})
  <1>1. Len(puts) \in Nat /\ DOMAIN puts = 1..Len(puts)
    BY DEF KeyValueTypeOK
  <1>2. Mined(w) \subseteq 1..Len(puts)
    BY <1>1 DEF Mined
  <1>3. IsFiniteSet(1..Len(puts))
    BY <1>1, FS_Interval
  <1>4. IsFiniteSet(Mined(w))
    BY <1>2, <1>3, FS_Subset
  <1>5. QED
    BY <1>2, <1>4, FS_CardinalityType, FS_EmptySet

\* Newest(e) is a place of e and none is later; it is 0 for an entry never put.
LEMMA NewestIsNewest ==
  ASSUME KeyValueTypeOK, NEW e \in Entries
  PROVE  /\ Newest(e) \in 0..Len(puts)
         /\ \A n \in DOMAIN puts : puts[n].entry = e => n <= Newest(e)
  <1> DEFINE of == {n \in DOMAIN puts : puts[n].entry = e}
  <1>1. Len(puts) \in Nat /\ DOMAIN puts = 1..Len(puts)
    BY DEF KeyValueTypeOK
  <1>2. of \in SUBSET (1..Len(puts))
    BY <1>1
  <1>3. CASE of = {}
    BY <1>1, <1>3 DEF Newest
  <1>4. CASE of # {}
    <2>1. \E m \in of : \A k \in of : k <= m
      BY <1>1, <1>2, <1>4, LargestPlace
    <2>2. Newest(e) = CHOOSE m \in of : \A k \in of : k <= m
      BY <1>4 DEF Newest
    <2>3. Newest(e) \in of /\ \A k \in of : k <= Newest(e)
      BY <2>1, <2>2
    <2>4. QED  BY <2>3, <1>1
  <1>5. QED
    BY <1>3, <1>4

\* The place of a write that is on the chain is one of its own.
LEMMA PlaceOfWrite ==
  ASSUME KeyValueTypeOK, NEW w, Mined(w) # {}
  PROVE  PlaceOf(w) \in Mined(w)
  <1>1. Len(puts) \in Nat /\ Mined(w) \in SUBSET (1..Len(puts))
    BY MinedFinite DEF KeyValueTypeOK
  <1>2. \E m \in Mined(w) : \A k \in Mined(w) : k <= m
    BY <1>1, LargestPlace
  <1>3. PlaceOf(w) = CHOOSE m \in Mined(w) : \A k \in Mined(w) : k <= m
    BY DEF PlaceOf, Mined
  <1>4. QED
    BY <1>2, <1>3

\* There are as many promises as entries and calls, so that one is free whenever an
\* entry has none.
LEMMA PromiseOfEntry ==
  ASSUME KeyValueTypeOK, NEW e \in Entries
  PROVE  /\ Promise(e) \in Fills
         /\ keyValueCache[e] # 0 => Promise(e) = keyValueCache[e]
         /\ keyValueCache[e] = 0 => Promise(e) \notin Held(keyValueCache, calls)
  <1>1. CASE keyValueCache[e] # 0
    BY <1>1 DEF Promise, KeyValueTypeOK
  <1>2. CASE keyValueCache[e] = 0
    <2> DEFINE C == {keyValueCache[x] : x \in Entries}
               F == {calls[c].fill : c \in Calls}
               call == [c \in Calls |-> calls[c].fill]
    <2>1. IsFiniteSet(Entries) /\ Cardinality(Entries) \in Nat /\ MaxCalls \in Nat
      BY KeyValueAssumption, FS_CardinalityType
    <2>2. IsFiniteSet(Calls) /\ Cardinality(Calls) = MaxCalls
      BY <2>1, FS_Interval DEF Calls
    <2>3. IsFiniteSet(Fills) /\ Cardinality(Fills) = Cardinality(Entries) + MaxCalls
      <3> DEFINE N == Cardinality(Entries) + MaxCalls
      <3>1. N \in Nat /\ Fills = 1..N
        BY <2>1 DEF Fills
      <3> HIDE DEF N
      <3>2. IsFiniteSet(Fills) /\ Cardinality(Fills) = N
        BY <3>1, FS_Interval
      <3>3. QED  BY <3>2 DEF N
    <2>4. IsFiniteSet(C) /\ Cardinality(C) <= Cardinality(Entries)
      <3>1. keyValueCache \in Surjection(Entries, C)
        BY DEF KeyValueTypeOK, Surjection
      <3>2. QED  BY <3>1, <2>1, FS_Surjection
    <2>5. IsFiniteSet(F) /\ Cardinality(F) <= MaxCalls
      <3>1. call \in Surjection(Calls, F)
        BY DEF Surjection
      <3>2. QED  BY <3>1, <2>2, FS_Surjection
    <2>6. 0 \in C /\ 0 \notin Fills
      BY <1>2 DEF Fills
    <2>7. IsFiniteSet(C \ {0}) /\ Cardinality(C \ {0}) = Cardinality(C) - 1
      BY <2>4, <2>6, FS_RemoveElement
    <2>8. /\ IsFiniteSet((C \ {0}) \cup F)
          /\ Cardinality((C \ {0}) \cup F) <= Cardinality(C \ {0}) + Cardinality(F)
      <3>1. /\ IsFiniteSet((C \ {0}) \cup F)
            /\ Cardinality((C \ {0}) \cup F)
                 = Cardinality(C \ {0}) + Cardinality(F) - Cardinality((C \ {0}) \cap F)
        BY <2>5, <2>7, FS_Union
      <3>2. Cardinality((C \ {0}) \cap F) \in Nat
        BY <2>7, FS_Intersection, FS_CardinalityType
      <3>3. Cardinality(C \ {0}) \in Nat /\ Cardinality(F) \in Nat
        BY <2>5, <2>7, FS_CardinalityType
      <3>4. QED  BY <3>1, <3>2, <3>3
    <2>9. ~(Fills \subseteq (C \ {0}) \cup F)
      <3>1. SUFFICES ASSUME Fills \subseteq (C \ {0}) \cup F PROVE FALSE
        OBVIOUS
      <3>2. Cardinality(Fills) <= Cardinality((C \ {0}) \cup F)
        BY <3>1, <2>8, FS_Subset
      <3>3. /\ Cardinality(C) \in Nat /\ Cardinality(F) \in Nat /\ Cardinality(C \ {0}) \in Nat
            /\ Cardinality((C \ {0}) \cup F) \in Nat
        BY <2>4, <2>5, <2>7, <2>8, FS_CardinalityType
      <3>4. QED  BY <3>2, <3>3, <2>1, <2>3, <2>4, <2>5, <2>7, <2>8
    <2>10. \E f \in Fills : f \notin Held(keyValueCache, calls)
      BY <2>6, <2>9 DEF Held
    <2>11. Promise(e) = CHOOSE f \in Fills : f \notin Held(keyValueCache, calls)
      BY <1>2 DEF Promise
    <2>12. QED
      BY <1>2, <2>10, <2>11
  <1>3. QED
    BY <1>1, <1>2

-----------------------------------------------------------------------------
(* Steps of the reads *)

\* A step that asks for no promise and has none answered: promises that are still held
\* are kept by Collect, a cached one is dropped when its entry is acknowledged.
LEMMA FillKept ==
  ASSUME KeyValueTypeOK, FillInv, Len(puts') \in Nat, Len(puts) <= Len(puts'),
         acked' \in [Entries -> Nat], \A e \in Entries : acked[e] <= acked'[e],
         keyValueCache' \in [Entries -> {0} \cup Fills],
         \A e \in Entries : \/ keyValueCache'[e] = 0
                            \/ keyValueCache'[e] = keyValueCache[e] /\ acked'[e] = acked[e],
         calls' \in [Calls -> CallStates],
         \A c \in Calls : calls'[c].pc = "wait" => calls'[c] = calls[c],
         \A c \in Calls, e \in Entries : calls'[c].acked[e] <= acked'[e],
         fills' \in {fills, Collect(fills, keyValueCache', calls')}
  PROVE  fills' \in [Fills -> FillStates] /\ FillInv'
  <1>1. NoFill \in FillStates /\ NoFill.state = "none"
    BY DEF NoFill, FillStates
  <1>2. /\ fills' \in [Fills -> FillStates]
        /\ \A f \in Fills : fills'[f] = fills[f] \/ (f \notin Held(keyValueCache', calls') /\ fills'[f] = NoFill)
    BY <1>1 DEF Collect, KeyValueTypeOK
  <1>3. /\ \A e \in Entries : keyValueCache'[e] # 0 => fills'[keyValueCache'[e]] = fills[keyValueCache[e]]
        /\ \A c \in Calls : calls'[c].pc = "wait" => fills'[calls'[c].fill] = fills[calls[c].fill]
    BY <1>2 DEF Held, FillInv
  <1>4. \A f \in Fills :
          /\ fills'[f].state # "none" => fills'[f].entry \in Entries
          /\ fills'[f].state = "answered" => fills'[f].value \in 0..Len(puts')
    BY <1>1, <1>2 DEF FillInv, KeyValueTypeOK
  <1>5. \A e \in Entries : keyValueCache'[e] # 0 =>
          /\ fills'[keyValueCache'[e]].entry = e
          /\ fills'[keyValueCache'[e]].state # "none"
          /\ fills'[keyValueCache'[e]].state = "answered" => fills'[keyValueCache'[e]].value >= acked'[e]
    BY <1>3 DEF FillInv
  <1>6. \A c \in Calls : calls'[c].pc = "wait" =>
          /\ calls'[c].fill \in Fills /\ calls'[c].entry \in Entries
          /\ fills'[calls'[c].fill].entry = calls'[c].entry
          /\ State(c)' # "none"
          /\ State(c)' = "answered" => Got(c)' >= calls'[c].acked[calls'[c].entry]
    BY <1>3 DEF FillInv, State, Got
  <1>7. QED
    BY <1>2, <1>4, <1>5, <1>6 DEF FillInv

\* A call that asks for an entry gets a promise that is new, or is cached and as new as
\* what was acknowledged; what others hold stays as it is.
LEMMA GetKeeps ==
  ASSUME KeyValueTypeOK, AckedInv, FillInv, NEW c \in Calls, NEW e \in Entries,
         NEW call \in CallStates, \A x \in Entries : call.acked[x] <= acked[x],
         Get(c, e, call), UNCHANGED <<puts, acked>>
  PROVE  /\ calls' \in [Calls -> CallStates]
         /\ keyValueCache' \in [Entries -> {0} \cup Fills]
         /\ fills' \in [Fills -> FillStates]
         /\ FillInv'
  <1> DEFINE p == Promise(e)
             new == [call EXCEPT !.pc = "wait", !.entry = e, !.fill = p]
  <1>1. /\ p \in Fills /\ p # 0
        /\ keyValueCache[e] # 0 => p = keyValueCache[e]
        /\ keyValueCache[e] = 0 => p \notin Held(keyValueCache, calls)
    BY PromiseOfEntry DEF Fills
  <1>2. calls' = [calls EXCEPT ![c] = new] /\ keyValueCache' = [keyValueCache EXCEPT ![e] = p]
    BY DEF Get, Waits
  <1>3. /\ new \in CallStates /\ new.pc = "wait" /\ new.entry = e /\ new.fill = p
        /\ new.acked = call.acked
    BY <1>1 DEF CallStates
  <1>4. fills' = Collect(Asked(e), keyValueCache', calls')
    BY DEF Get
  <1> HIDE DEF p, new
  <1>5. calls' \in [Calls -> CallStates] /\ keyValueCache' \in [Entries -> {0} \cup Fills]
    BY <1>1, <1>2, <1>3 DEF KeyValueTypeOK
  <1>6. /\ keyValueCache'[e] = p /\ \A x \in Entries \ {e} : keyValueCache'[x] = keyValueCache[x]
        /\ calls'[c] = new /\ \A d \in Calls \ {c} : calls'[d] = calls[d]
    BY <1>2 DEF KeyValueTypeOK
  <1>7. NoFill \in FillStates /\ NoFill.state = "none"
    BY DEF NoFill, FillStates
  <1>8. /\ Asked(e) \in [Fills -> FillStates]
        /\ keyValueCache[e] # 0 => Asked(e) = fills
        /\ \A f \in Fills : f # p => Asked(e)[f] = fills[f]
        /\ keyValueCache[e] = 0 => Asked(e)[p].entry = e /\ Asked(e)[p].state = "pending"
    BY <1>1 DEF Asked, NoFill, FillStates, KeyValueTypeOK, p
  <1>9. /\ fills' \in [Fills -> FillStates]
        /\ \A f \in Fills : fills'[f] = Asked(e)[f] \/ fills'[f] = NoFill
        /\ \A f \in Fills : f \in Held(keyValueCache', calls') => fills'[f] = Asked(e)[f]
    BY <1>4, <1>7, <1>8 DEF Collect
  <1>10. p \in Held(keyValueCache', calls')
    BY <1>6 DEF Held
  <1>11. /\ fills'[p].entry = e /\ fills'[p].state # "none"
         /\ fills'[p].state = "answered" => fills'[p].value >= acked[e]
    <2>1. CASE keyValueCache[e] # 0
      BY <2>1, <1>1, <1>8, <1>9, <1>10 DEF FillInv
    <2>2. CASE keyValueCache[e] = 0
      BY <2>2, <1>1, <1>8, <1>9, <1>10
    <2>3. QED  BY <2>1, <2>2
  <1>12. \A x \in Entries \ {e} : keyValueCache[x] # 0 => fills'[keyValueCache[x]] = fills[keyValueCache[x]]
    <2>1. SUFFICES ASSUME NEW x \in Entries \ {e}, keyValueCache[x] # 0
                   PROVE  fills'[keyValueCache[x]] = fills[keyValueCache[x]]
      OBVIOUS
    <2>2. keyValueCache[x] \in Held(keyValueCache', calls') /\ keyValueCache[x] \in Held(keyValueCache, calls)
      BY <1>6 DEF Held
    <2>3. keyValueCache[x] \in Fills
      BY <2>1 DEF KeyValueTypeOK
    <2>4. QED  BY <2>2, <2>3, <1>1, <1>8, <1>9
  <1>13. \A d \in Calls \ {c} : calls[d].pc = "wait" => fills'[calls[d].fill] = fills[calls[d].fill]
    <2>1. SUFFICES ASSUME NEW d \in Calls \ {c}, calls[d].pc = "wait"
                   PROVE  fills'[calls[d].fill] = fills[calls[d].fill]
      OBVIOUS
    <2>2. calls[d].fill \in Held(keyValueCache', calls') /\ calls[d].fill \in Held(keyValueCache, calls)
      BY <1>6 DEF Held
    <2>3. calls[d].fill \in Fills
      BY <2>1 DEF FillInv
    <2>4. QED  BY <2>2, <2>3, <1>1, <1>8, <1>9
  <1>14. \A f \in Fills :
          /\ fills'[f].state # "none" => fills'[f].entry \in Entries
          /\ fills'[f].state = "answered" => fills'[f].value \in 0..Len(puts')
    <2>1. \A f \in Fills : \/ fills'[f].state = "none"
                           \/ fills'[f] = fills[f]
                           \/ fills'[f].entry = e /\ fills'[f].state = "pending"
      BY <1>1, <1>7, <1>8, <1>9
    <2>2. QED  BY <2>1 DEF FillInv
  <1>15. \A x \in Entries : keyValueCache'[x] # 0 =>
          /\ fills'[keyValueCache'[x]].entry = x
          /\ fills'[keyValueCache'[x]].state # "none"
          /\ fills'[keyValueCache'[x]].state = "answered" => fills'[keyValueCache'[x]].value >= acked'[x]
    BY <1>6, <1>11, <1>12 DEF FillInv
  <1>16. \A d \in Calls, x \in Entries : calls'[d].acked[x] <= acked'[x]
    BY <1>3, <1>6 DEF FillInv
  <1>17. \A d \in Calls : calls'[d].pc = "wait" =>
          /\ calls'[d].fill \in Fills /\ calls'[d].entry \in Entries
          /\ fills'[calls'[d].fill].entry = calls'[d].entry
          /\ State(d)' # "none"
          /\ State(d)' = "answered" => Got(d)' >= calls'[d].acked[calls'[d].entry]
    <2>1. SUFFICES ASSUME NEW d \in Calls, calls'[d].pc = "wait"
                   PROVE  /\ calls'[d].fill \in Fills /\ calls'[d].entry \in Entries
                          /\ fills'[calls'[d].fill].entry = calls'[d].entry
                          /\ fills'[calls'[d].fill].state # "none"
                          /\ fills'[calls'[d].fill].state = "answered" =>
                                fills'[calls'[d].fill].value >= calls'[d].acked[calls'[d].entry]
      BY DEF State, Got
    <2>2. CASE d = c
      <3>1. call.acked[e] <= acked[e] /\ call.acked[e] \in Nat /\ acked[e] \in Nat
        BY DEF CallStates, KeyValueTypeOK
      <3>2. fills'[p] \in FillStates
        BY <1>1, <1>9
      <3>3. fills'[p].value \in Nat
        BY <3>2 DEF FillStates
      <3>4. QED  BY <2>2, <1>1, <1>3, <1>6, <1>11, <3>1, <3>3
    <2>3. CASE d # c
      BY <2>1, <2>3, <1>6, <1>13 DEF FillInv, State, Got
    <2>4. QED  BY <2>2, <2>3
  <1>18. QED
    BY <1>5, <1>9, <1>14, <1>15, <1>16, <1>17 DEF FillInv

\* A step that changes neither the chain nor a write.
LEMMA ChainKept ==
  ASSUME WriteInv, AckedInv, UNCHANGED <<puts, writes, acked>>
  PROVE  WriteInv' /\ AckedInv'
  <1>1. \A w \in Writes : Mined(w)' = Mined(w)
    BY DEF Mined
  <1>2. QED
    BY <1>1 DEF WriteInv, WriteOK, Sends, AckedInv

\* The records a call is set to.
LEMMA CallRecords ==
  ASSUME KeyValueTypeOK
  PROVE  /\ \A pc \in {"unused", "done", "threw"} : Ended(pc) \in CallStates /\ Ended(pc).pc = pc
         /\ \A kind \in {"follow", "routes", "memory"} :
              Begun(kind) \in CallStates /\ Begun(kind).acked = acked
         /\ \A pc : Ended(pc).acked = [e \in Entries |-> 0]
  BY DEF Ended, Begun, NoCall, CallStates, KeyValueTypeOK

\* A step of a call that does not ask.
LEMMA CallEnds ==
  ASSUME KeyValueInv, NEW c \in Calls, NEW new \in CallStates, new.pc # "wait",
         \A e \in Entries : new.acked[e] <= acked[e],
         calls' = [calls EXCEPT ![c] = new], UNCHANGED <<puts, keyValueCache, acked, writes>>,
         fills' \in {fills, Collect(fills, keyValueCache', calls')},
         zRecordCache' \in [Entries -> {0} \cup Calls], data' \in [Entries -> Nat], expiries' \in Nat
  PROVE  KeyValueInv'
  <1> USE DEF KeyValueInv
  <1>1. calls' \in [Calls -> CallStates]
    BY DEF KeyValueTypeOK
  <1>2. \A d \in Calls : calls'[d].pc = "wait" => calls'[d] = calls[d]
    BY DEF KeyValueTypeOK
  <1>3. \A d \in Calls, e \in Entries : calls'[d].acked[e] <= acked'[e]
    BY DEF KeyValueTypeOK, FillInv
  <1>4. Len(puts') \in Nat /\ Len(puts) <= Len(puts') /\ \A e \in Entries : acked[e] <= acked'[e]
    BY DEF KeyValueTypeOK
  <1>5. fills' \in [Fills -> FillStates] /\ FillInv'
    BY <1>1, <1>2, <1>3, <1>4, FillKept DEF KeyValueTypeOK
  <1>6. WriteInv' /\ AckedInv'
    BY ChainKept
  <1>7. QED
    BY <1>1, <1>5, <1>6 DEF KeyValueTypeOK

\* A step of a call that asks.
LEMMA CallAsks ==
  ASSUME KeyValueInv, NEW c \in Calls, NEW e \in Entries,
         NEW call \in CallStates, \A x \in Entries : call.acked[x] <= acked[x],
         Get(c, e, call), UNCHANGED <<puts, data, writes, acked, expiries>>,
         zRecordCache' \in [Entries -> {0} \cup Calls]
  PROVE  KeyValueInv'
  <1> USE DEF KeyValueInv
  <1>1. /\ calls' \in [Calls -> CallStates]
        /\ keyValueCache' \in [Entries -> {0} \cup Fills]
        /\ fills' \in [Fills -> FillStates]
        /\ FillInv'
    BY GetKeeps
  <1>2. WriteInv' /\ AckedInv'
    BY ChainKept
  <1>3. QED
    BY <1>1, <1>2 DEF KeyValueTypeOK

LEMMA ReadKeeps ==
  ASSUME KeyValueInv, ReadStep
  PROVE  KeyValueInv'
  <1>0. KeyValueTypeOK /\ FillInv /\ AckedInv /\ WriteInv
    BY DEF KeyValueInv
  <1>a. \A e \in Entries : acked[e] <= acked[e]
    BY <1>0 DEF KeyValueTypeOK
  <1>b. /\ zRecordCache \in [Entries -> {0} \cup Calls] /\ data \in [Entries -> Nat] /\ expiries \in Nat
        /\ Routes \subseteq Entries
    BY <1>0, KeyValueAssumption DEF KeyValueTypeOK
  <1>c. \A kind \in {"follow", "routes", "memory"} :
          Begun(kind) \in CallStates /\ \A e \in Entries : Begun(kind).acked[e] <= acked[e]
    BY <1>0, <1>a, CallRecords
  <1>d. \A pc \in {"done", "threw"} :
          /\ Ended(pc) \in CallStates /\ Ended(pc).pc # "wait"
          /\ \A e \in Entries : Ended(pc).acked[e] <= acked[e]
    <2>1. \A e \in Entries : 0 <= acked[e]
      BY <1>0 DEF KeyValueTypeOK
    <2>2. QED  BY <1>0, <2>1, CallRecords
  <1>1. ASSUME NEW c \in Calls, NEW e \in Entries, GetKeyValue(c, e) PROVE KeyValueInv'
    BY <1>1, <1>b, <1>c, CallAsks DEF GetKeyValue
  <1>2. ASSUME NEW c \in Calls, NEW e \in Routes, GetZRecord(c, e) PROVE KeyValueInv'
    <2>1. CASE zRecordCache[e] = 0
      <3>1. /\ zRecordCache' = [zRecordCache EXCEPT ![e] = c] /\ Get(c, e, Begun("routes"))
            /\ UNCHANGED <<puts, data, writes, acked, expiries>>
        BY <1>2, <2>1 DEF GetZRecord
      <3>2. zRecordCache' \in [Entries -> {0} \cup Calls] /\ e \in Entries
        BY <3>1, <1>b
      <3>3. QED  BY <3>1, <3>2, <1>c, CallAsks
    <2>2. CASE zRecordCache[e] # 0
      <3> DEFINE new == [Begun("routes") EXCEPT !.pc = "share", !.of = zRecordCache[e]]
      <3>1. zRecordCache[e] \in Calls
        BY <2>2, <1>b
      <3>2. new \in CallStates /\ new.pc = "share" /\ new.acked = Begun("routes").acked
        BY <3>1, <1>c DEF CallStates
      <3>3. /\ calls' = [calls EXCEPT ![c] = new]
            /\ UNCHANGED <<zRecordCache, fills, keyValueCache, puts, data, writes, acked, expiries>>
        BY <1>2, <2>2 DEF GetZRecord
      <3> HIDE DEF new
      <3>4. new.pc # "wait" /\ \A x \in Entries : new.acked[x] <= acked[x]
        BY <3>2, <1>c
      <3>5. QED  BY <3>2, <3>3, <3>4, <1>b, CallEnds
    <2>3. QED  BY <2>1, <2>2
  <1>3. ASSUME NEW c \in Calls, NEW e \in Entries \ Routes, KeyValueGet(c, e) PROVE KeyValueInv'
    <2>1. CASE data[e] # 0
      BY <1>3, <2>1, <1>b, <1>d, CallEnds DEF KeyValueGet
    <2>2. CASE data[e] = 0
      BY <1>3, <2>2, <1>b, <1>c, CallAsks DEF KeyValueGet
    <2>3. QED  BY <2>1, <2>2
  <1>4. ASSUME NEW c \in Calls, Follow(c) PROVE KeyValueInv'
    <2> DEFINE call == [calls[c] EXCEPT !.copied = TRUE]
               e == puts[Got(c)].to
    <2>1. calls[c].pc = "wait" /\ State(c) = "answered" /\ Got(c) # 0 /\ e # Plain
      BY <1>4 DEF Follow, Answered, Copies
    <2>2. Got(c) \in DOMAIN puts
      BY <2>1, <1>0 DEF FillInv, State, Got, KeyValueTypeOK
    <2>3. e \in Entries
      <3>1. puts[Got(c)] \in Puts
        BY <2>2, <1>0 DEF KeyValueTypeOK
      <3>2. QED  BY <2>1, <3>1 DEF Puts
    <2>4. call \in CallStates /\ call.acked = calls[c].acked
      <3>1. calls[c] \in CallStates
        BY <1>0 DEF KeyValueTypeOK
      <3>2. QED  BY <3>1 DEF CallStates
    <2>5. /\ Get(c, e, call) /\ UNCHANGED <<puts, zRecordCache, data, writes, acked, expiries>>
      BY <1>4 DEF Follow
    <2> HIDE DEF call, e
    <2>6. \A x \in Entries : call.acked[x] <= acked[x]
      BY <2>4, <1>0 DEF FillInv
    <2>7. QED  BY <2>3, <2>4, <2>5, <2>6, <1>b, CallAsks
  <1>5. ASSUME NEW c \in Calls, Return(c) PROVE KeyValueInv'
    <2> DEFINE threw == State(c) = "failed" \/ (calls[c].copied /\ Got(c) = 0)
    <2>1. /\ calls' = [calls EXCEPT ![c] = Ended(IF threw THEN "threw" ELSE "done")]
          /\ fills' = Collect(fills, keyValueCache, calls')
          /\ data' \in {data, [data EXCEPT ![calls[c].entry] = Got(c)]}
          /\ UNCHANGED <<puts, keyValueCache, zRecordCache, writes, acked, expiries>>
      BY <1>5 DEF Return
    <2>2. (IF threw THEN "threw" ELSE "done") \in {"done", "threw"}
      OBVIOUS
    <2>3. calls[c].pc = "wait" => Got(c) \in Nat
      BY <1>0 DEF FillInv, Got, KeyValueTypeOK, FillStates
    <2>4. calls[c].pc = "wait"
      BY <1>5 DEF Return, Answered
    <2>5. data' \in [Entries -> Nat]
      BY <2>1, <2>3, <2>4, <1>b
    <2>6. fills' \in {fills, Collect(fills, keyValueCache', calls')}
      BY <2>1
    <2> HIDE DEF threw
    <2>7. QED  BY <2>1, <2>2, <2>5, <2>6, <1>b, <1>d, CallEnds
  <1>6. ASSUME NEW c \in Calls, ReturnShared(c) PROVE KeyValueInv'
    BY <1>6, <1>b, <1>d, CallEnds DEF ReturnShared
  <1>7. ASSUME NEW f \in Fills, Answer(f) PROVE KeyValueInv'
    <2>1. UNCHANGED <<puts, keyValueCache, zRecordCache, data, calls, writes, acked, expiries>>
      BY <1>7 DEF Answer
    <2>2. fills[f] \in FillStates /\ fills[f].state = "pending"
      BY <1>0, <1>7 DEF KeyValueTypeOK, Answer
    <2>3. \A e \in Entries : Newest(e) \in 0..Len(puts) /\ acked[e] <= Newest(e)
      <3>1. SUFFICES ASSUME NEW e \in Entries PROVE Newest(e) \in 0..Len(puts) /\ acked[e] <= Newest(e)
        OBVIOUS
      <3>2. /\ Newest(e) \in 0..Len(puts)
            /\ \A n \in DOMAIN puts : puts[n].entry = e => n <= Newest(e)
        BY <1>0, NewestIsNewest
      <3>3. Len(puts) \in Nat /\ Newest(e) \in Nat
        BY <3>2, <1>0 DEF KeyValueTypeOK
      <3>4. QED  BY <3>2, <3>3, <1>0 DEF AckedInv
    <2>4. /\ \A g \in Fills : g # f => fills'[g] = fills[g]
          /\ fills'[f].entry = fills[f].entry
          /\ fills'[f].state \in {"answered", "failed"}
          /\ fills'[f].state = "answered" => fills'[f].value = Newest(fills[f].entry)
      BY <1>0, <1>7, <2>2 DEF Answer, KeyValueTypeOK, FillStates
    <2>5. fills[f].entry \in Entries /\ Newest(fills[f].entry) \in 0..Len(puts)
          /\ Newest(fills[f].entry) \in Nat
      <3>1. fills[f].entry \in Entries
        BY <2>2, <1>0 DEF FillInv
      <3>2. QED  BY <3>1, <2>3, <1>0 DEF KeyValueTypeOK
    <2>6. fills' \in [Fills -> FillStates]
      <3>1. \/ fills' = [fills EXCEPT ![f] = [fills[f] EXCEPT !.state = "answered",
                                                           !.value = Newest(fills[f].entry)]]
            \/ fills' = [fills EXCEPT ![f] = [fills[f] EXCEPT !.state = "failed"]]
        BY <1>7, <1>0 DEF Answer, KeyValueTypeOK
      <3>2. /\ [fills[f] EXCEPT !.state = "answered", !.value = Newest(fills[f].entry)] \in FillStates
            /\ [fills[f] EXCEPT !.state = "failed"] \in FillStates
        BY <2>2, <2>5 DEF FillStates
      <3>3. QED  BY <3>1, <3>2, <1>0 DEF KeyValueTypeOK
    <2>7. FillInv'
      <3>1. \A g \in Fills :
              /\ fills'[g].state # "none" => fills'[g].entry \in Entries
              /\ fills'[g].state = "answered" => fills'[g].value \in 0..Len(puts')
        BY <2>1, <2>4, <2>5, <1>0 DEF FillInv
      <3>2. \A e \in Entries : keyValueCache'[e] # 0 =>
          /\ fills'[keyValueCache'[e]].entry = e
          /\ fills'[keyValueCache'[e]].state # "none"
          /\ fills'[keyValueCache'[e]].state = "answered" => fills'[keyValueCache'[e]].value >= acked'[e]
        <4>1. SUFFICES ASSUME NEW e \in Entries, keyValueCache'[e] # 0
                       PROVE  /\ fills'[keyValueCache[e]].entry = e
                              /\ fills'[keyValueCache[e]].state # "none"
                              /\ fills'[keyValueCache[e]].state = "answered" =>
                                   fills'[keyValueCache[e]].value >= acked[e]
          BY <2>1
        <4>2. /\ keyValueCache[e] \in Fills
              /\ fills[keyValueCache[e]].entry = e
              /\ fills[keyValueCache[e]].state # "none"
              /\ fills[keyValueCache[e]].state = "answered" => fills[keyValueCache[e]].value >= acked[e]
          BY <4>1, <2>1, <1>0 DEF FillInv, KeyValueTypeOK
        <4>3. Newest(e) \in Nat /\ acked[e] \in Nat /\ acked[e] <= Newest(e)
          BY <2>3, <1>0 DEF KeyValueTypeOK
        <4>4. QED  BY <4>2, <4>3, <2>4
      <3>3. \A c \in Calls : calls'[c].pc = "wait" =>
          /\ calls'[c].fill \in Fills /\ calls'[c].entry \in Entries
          /\ fills'[calls'[c].fill].entry = calls'[c].entry
          /\ State(c)' # "none"
          /\ State(c)' = "answered" => Got(c)' >= calls'[c].acked[calls'[c].entry]
        <4>1. SUFFICES ASSUME NEW c \in Calls, calls'[c].pc = "wait"
                       PROVE  /\ calls'[c].fill \in Fills /\ calls'[c].entry \in Entries
                              /\ fills'[calls'[c].fill].entry = calls'[c].entry
                              /\ fills'[calls'[c].fill].state # "none"
                              /\ fills'[calls'[c].fill].state = "answered" =>
                                   fills'[calls'[c].fill].value >= calls'[c].acked[calls'[c].entry]
          BY DEF State, Got
        <4>2. /\ calls[c].fill \in Fills /\ calls[c].entry \in Entries
              /\ fills[calls[c].fill].entry = calls[c].entry
              /\ fills[calls[c].fill].state # "none"
              /\ fills[calls[c].fill].state = "answered" =>
                   fills[calls[c].fill].value >= calls[c].acked[calls[c].entry]
              /\ calls[c].acked[calls[c].entry] <= acked[calls[c].entry]
          BY <4>1, <2>1, <1>0 DEF FillInv, State, Got
        <4>3. /\ calls[c].acked[calls[c].entry] \in Nat /\ acked[calls[c].entry] \in Nat
              /\ Newest(calls[c].entry) \in Nat /\ acked[calls[c].entry] <= Newest(calls[c].entry)
          BY <4>2, <2>3, <1>0 DEF KeyValueTypeOK, CallStates
        <4>4. QED  BY <4>2, <4>3, <2>1, <2>4
      <3>4. \A c \in Calls, e \in Entries : calls'[c].acked[e] <= acked'[e]
        BY <2>1, <1>0 DEF FillInv
      <3>5. QED  BY <3>1, <3>2, <3>3, <3>4 DEF FillInv
    <2>8. WriteInv' /\ AckedInv'
      BY <2>1, <1>0, ChainKept
    <2>9. QED  BY <2>1, <2>6, <2>7, <2>8, <1>0 DEF KeyValueInv, KeyValueTypeOK
  <1>8. ASSUME NEW e \in Entries, Expire(e) PROVE KeyValueInv'
    <2>1. UNCHANGED <<puts, data, calls, writes, acked>> /\ expiries' = expiries + 1
      BY <1>8 DEF Expire
    <2>2. /\ keyValueCache' \in {keyValueCache, [keyValueCache EXCEPT ![e] = 0]}
          /\ zRecordCache' \in {zRecordCache, [zRecordCache EXCEPT ![e] = 0]}
          /\ fills' \in {fills, Collect(fills, keyValueCache', calls')}
      BY <1>8, <2>1 DEF Expire
    <2>3. /\ keyValueCache' \in [Entries -> {0} \cup Fills]
          /\ zRecordCache' \in [Entries -> {0} \cup Calls]
          /\ \A x \in Entries : keyValueCache'[x] = 0 \/ keyValueCache'[x] = keyValueCache[x]
      BY <2>2, <1>0 DEF KeyValueTypeOK
    <2>4. /\ Len(puts') \in Nat /\ Len(puts) <= Len(puts') /\ \A x \in Entries : acked[x] <= acked'[x]
          /\ \A d \in Calls, x \in Entries : calls'[d].acked[x] <= acked'[x]
      BY <2>1, <1>0 DEF KeyValueTypeOK, FillInv
    <2>5. fills' \in [Fills -> FillStates] /\ FillInv'
      BY <2>1, <2>2, <2>3, <2>4, <1>0, FillKept DEF KeyValueTypeOK
    <2>6. WriteInv' /\ AckedInv'
      BY <2>1, <1>0, ChainKept
    <2>7. QED  BY <2>1, <2>3, <2>5, <2>6, <1>0 DEF KeyValueInv, KeyValueTypeOK
  <1>9. QED
    BY <1>1, <1>2, <1>3, <1>4, <1>5, <1>6, <1>7, <1>8 DEF ReadStep

-----------------------------------------------------------------------------
(* Steps of the writes *)

\* A write that sends, ends or tries again, while the chain stays as it is.
LEMMA WriteMoves ==
  ASSUME KeyValueTypeOK, WriteInv, NEW w \in Writes, UNCHANGED puts,
         writes' = [writes EXCEPT ![w] = writes'[w]], WriteOK(w)'
  PROVE  WriteInv'
  <1>1. \A v \in Writes : Mined(v)' = Mined(v)
    BY DEF Mined
  <1>2. \A v \in Writes \ {w} : writes'[v] = writes[v]
    BY DEF KeyValueTypeOK
  <1>3. \A v \in Writes \ {w} : WriteOK(v)'
    BY <1>1, <1>2 DEF WriteInv, WriteOK, Sends
  <1>4. QED
    BY <1>3 DEF WriteInv

\* A step that leaves promises, caches and calls alone and only adds to the chain.
LEMMA ReadsKept ==
  ASSUME KeyValueTypeOK, FillInv, AckedInv, Len(puts') \in Nat, Len(puts) <= Len(puts'),
         \A n \in DOMAIN puts : n \in DOMAIN puts' /\ puts'[n] = puts[n],
         UNCHANGED <<fills, keyValueCache, calls, acked>>
  PROVE  FillInv' /\ AckedInv'
  <1>1. AckedInv'
    BY DEF AckedInv
  <1>2. \A e \in Entries : acked[e] <= acked'[e]
    BY DEF KeyValueTypeOK
  <1>3. \A c \in Calls, e \in Entries : calls'[c].acked[e] <= acked'[e]
    BY DEF FillInv
  <1>4. FillInv'
    BY <1>2, <1>3, FillKept DEF KeyValueTypeOK
  <1>5. QED
    BY <1>1, <1>4

\* One more transaction on the chain.
LEMMA Appended ==
  ASSUME KeyValueTypeOK, NEW newPut \in Puts, puts' = Append(puts, newPut)
  PROVE  /\ puts' \in Seq(Puts) /\ Len(puts') = Len(puts) + 1
         /\ \A n \in DOMAIN puts : n \in DOMAIN puts' /\ puts'[n] = puts[n]
         /\ puts'[Len(puts')] = newPut
         /\ \A v \in Writes : Mined(v)' = IF newPut.by = v THEN Mined(v) \cup {Len(puts')} ELSE Mined(v)
         /\ Len(puts') \notin DOMAIN puts
  <1>1. puts \in Seq(Puts) /\ Len(puts) \in Nat /\ DOMAIN puts = 1..Len(puts)
    BY DEF KeyValueTypeOK
  <1>2. /\ puts' \in Seq(Puts) /\ Len(puts') = Len(puts) + 1
        /\ DOMAIN puts' = 1..(Len(puts) + 1)
        /\ \A n \in 1..Len(puts) : puts'[n] = puts[n]
        /\ puts'[Len(puts) + 1] = newPut
    BY <1>1
  <1>3. DOMAIN puts' = DOMAIN puts \cup {Len(puts')} /\ Len(puts') \notin DOMAIN puts
    BY <1>1, <1>2
  <1>4. \A v \in Writes : Mined(v)' = IF newPut.by = v THEN Mined(v) \cup {Len(puts')} ELSE Mined(v)
    BY <1>1, <1>2, <1>3 DEF Mined
  <1>5. QED
    BY <1>1, <1>2, <1>3, <1>4

LEMMA MineKeeps ==
  ASSUME KeyValueInv, NEW w \in Writes, Mine(w)
  PROVE  KeyValueInv'
  <1> DEFINE newPut == [entry |-> writes[w].entry, to |-> writes[w].to, by |-> w]
  <1>0. KeyValueTypeOK /\ FillInv /\ AckedInv /\ WriteInv
    BY DEF KeyValueInv
  <1>1. /\ writes[w] \in WriteStates /\ writes[w].sent > 0 /\ writes[w].pc # "unused"
        /\ writes[w].entry \in Entries /\ writes[w].to \in Entries \cup {Plain}
    BY <1>0 DEF Mine, KeyValueTypeOK, WriteInv, WriteOK, WriteStates
  <1>2. newPut \in Puts /\ newPut.by = w /\ newPut.entry = writes[w].entry
    BY <1>1 DEF Puts
  <1>3. /\ puts' = Append(puts, newPut) /\ writes' = [writes EXCEPT ![w].sent = @ - 1]
        /\ UNCHANGED <<keyValueCache, fills, acked, zRecordCache, data, calls, expiries>>
    BY DEF Mine, KeepsReads
  <1> HIDE DEF newPut
  <1>4. /\ puts' \in Seq(Puts) /\ Len(puts') = Len(puts) + 1
        /\ \A n \in DOMAIN puts : n \in DOMAIN puts' /\ puts'[n] = puts[n]
        /\ puts'[Len(puts')] = newPut
        /\ Mined(w)' = Mined(w) \cup {Len(puts')}
        /\ \A v \in Writes \ {w} : Mined(v)' = Mined(v)
        /\ Len(puts') \notin DOMAIN puts
    BY <1>0, <1>2, <1>3, Appended
  <1>5. /\ writes' \in [Writes -> WriteStates]
        /\ writes'[w] = [writes[w] EXCEPT !.sent = @ - 1]
        /\ \A v \in Writes \ {w} : writes'[v] = writes[v]
    <2>1. [writes[w] EXCEPT !.sent = @ - 1] \in WriteStates
      BY <1>1 DEF WriteStates
    <2>2. writes' = [writes EXCEPT ![w] = [writes[w] EXCEPT !.sent = @ - 1]]
      BY <1>3, <1>0 DEF KeyValueTypeOK
    <2>3. QED  BY <2>1, <2>2, <1>0 DEF KeyValueTypeOK
  <1>6. /\ IsFiniteSet(Mined(w)) /\ Cardinality(Mined(w)) \in Nat
        /\ Cardinality(Mined(w)') = Cardinality(Mined(w)) + 1
    <2>1. IsFiniteSet(Mined(w)) /\ Cardinality(Mined(w)) \in Nat /\ Len(puts') \notin Mined(w)
      BY <1>0, <1>4, MinedFinite DEF Mined
    <2>2. QED  BY <2>1, <1>4, FS_AddElement
  <1>7. Sends(w)' = Sends(w)
    <2>1. writes[w].sent \in Nat /\ writes'[w].sent = writes[w].sent - 1
      BY <1>1, <1>5 DEF WriteStates
    <2>2. QED  BY <2>1, <1>6 DEF Sends
  <1>8. WriteOK(w)'
    <2>1. \A n \in Mined(w)' : puts'[n].entry = writes'[w].entry
      <3>1. \A n \in Mined(w) : puts'[n].entry = writes[w].entry
        BY <1>0, <1>4 DEF WriteInv, WriteOK, Mined
      <3>2. writes'[w].entry = writes[w].entry /\ puts'[Len(puts')].entry = writes[w].entry
        BY <1>1, <1>2, <1>4, <1>5 DEF WriteStates
      <3>3. QED  BY <3>1, <3>2, <1>4
    <2>2. /\ writes'[w].pc = writes[w].pc /\ writes'[w].entry = writes[w].entry
          /\ writes'[w].attempt = writes[w].attempt
      BY <1>1, <1>5 DEF WriteStates
    <2>3. Mined(w)' # {}
      BY <1>4
    <2>4. WriteOK(w)
      BY <1>0 DEF WriteInv
    <2>5. QED  BY <2>1, <2>2, <2>3, <2>4, <1>1, <1>7 DEF WriteOK
  <1>9. \A v \in Writes \ {w} : WriteOK(v)'
    <2>1. \A v \in Writes \ {w} : \A n \in Mined(v) : puts'[n] = puts[n]
      BY <1>4 DEF Mined
    <2>2. QED  BY <2>1, <1>0, <1>4, <1>5 DEF WriteInv, WriteOK, Sends
  <1>10. WriteInv'
    BY <1>8, <1>9 DEF WriteInv
  <1>11. FillInv' /\ AckedInv'
    BY <1>0, <1>3, <1>4, ReadsKept DEF KeyValueTypeOK
  <1>12. QED
    BY <1>0, <1>3, <1>4, <1>5, <1>10, <1>11 DEF KeyValueInv, KeyValueTypeOK

LEMMA PutElsewhereKeeps ==
  ASSUME KeyValueInv, NEW other \in OtherPuts, PutElsewhere(other)
  PROVE  KeyValueInv'
  <1> DEFINE newPut == [entry |-> other.entry, to |-> other.to, by |-> 0]
  <1>0. KeyValueTypeOK /\ FillInv /\ AckedInv /\ WriteInv
    BY DEF KeyValueInv
  <1>1. newPut \in Puts /\ newPut.by = 0 /\ 0 \notin Writes
    BY KeyValueAssumption DEF Puts, Writes
  <1>2. puts' = Append(puts, newPut)
        /\ UNCHANGED <<keyValueCache, fills, writes, acked, zRecordCache, data, calls, expiries>>
    BY DEF PutElsewhere, KeepsReads
  <1> HIDE DEF newPut
  <1>3. /\ puts' \in Seq(Puts) /\ Len(puts') = Len(puts) + 1
        /\ \A n \in DOMAIN puts : n \in DOMAIN puts' /\ puts'[n] = puts[n]
        /\ \A v \in Writes : Mined(v)' = Mined(v)
    BY <1>0, <1>1, <1>2, Appended
  <1>4. WriteInv'
    <2>1. \A v \in Writes : \A n \in Mined(v) : puts'[n] = puts[n]
      BY <1>3 DEF Mined
    <2>2. QED  BY <2>1, <1>0, <1>2, <1>3, ZenonT(60) DEF WriteInv, WriteOK, Sends
  <1>5. FillInv' /\ AckedInv'
    BY <1>0, <1>2, <1>3, ReadsKept DEF KeyValueTypeOK
  <1>6. QED
    BY <1>0, <1>2, <1>3, <1>4, <1>5 DEF KeyValueInv, KeyValueTypeOK

\* The other steps of a write: the chain, the reads and the memory stay as they are.
LEMMA WriteKeeps ==
  ASSUME KeyValueInv, NEW w \in Writes, NEW new \in WriteStates,
         writes' = [writes EXCEPT ![w] = new], WriteOK(w)',
         UNCHANGED <<puts, keyValueCache, fills, acked>>, KeepsReads
  PROVE  KeyValueInv'
  <1>0. KeyValueTypeOK /\ FillInv /\ AckedInv /\ WriteInv
    BY DEF KeyValueInv
  <1>1. writes' = [writes EXCEPT ![w] = writes'[w]] /\ writes' \in [Writes -> WriteStates]
    BY <1>0 DEF KeyValueTypeOK
  <1>2. WriteInv'
    BY <1>0, <1>1, WriteMoves
  <1>3. FillInv' /\ AckedInv'
    BY <1>0, ReadsKept DEF KeyValueTypeOK, KeepsReads
  <1>4. QED
    BY <1>0, <1>1, <1>2, <1>3 DEF KeyValueInv, KeyValueTypeOK, KeepsReads

\* putKeyValue returns: its transactions are mined, and the promise for its entry is dropped.
LEMMA ConfirmWriteKeeps ==
  ASSUME KeyValueInv, NEW w \in Writes, Confirm(w)
  PROVE  KeyValueInv'
  <1> DEFINE e == writes[w].entry
             place == PlaceOf(w)
  <1>0. KeyValueTypeOK /\ FillInv /\ AckedInv /\ WriteInv
    BY DEF KeyValueInv
  <1>1. /\ writes[w] \in WriteStates /\ writes[w].pc = "send" /\ writes[w].sent = 0
        /\ e \in Entries /\ WriteOK(w)
    BY <1>0 DEF Confirm, KeyValueTypeOK, WriteInv, WriteOK
  <1>2. Mined(w) # {}
    <2>1. Sends(w) = Cardinality(Mined(w)) /\ Sends(w) \in 1..(writes[w].attempt + 1)
      BY <1>0, <1>1, MinedFinite DEF Sends, WriteOK
    <2>2. QED  BY <2>1, <1>0, <1>1, MinedFinite DEF WriteStates
  <1>3. place \in Mined(w) /\ place \in Nat /\ place \in DOMAIN puts /\ puts[place].entry = e
    <2>1. place \in Mined(w)
      BY <1>0, <1>2, PlaceOfWrite
    <2>2. QED  BY <2>1, <1>0, <1>1 DEF Mined, WriteOK, KeyValueTypeOK
  <1> HIDE DEF place
  <1>4. /\ writes' = [writes EXCEPT ![w].pc = "done"]
        /\ keyValueCache' = [keyValueCache EXCEPT ![e] = 0]
        /\ fills' = Collect(fills, keyValueCache', calls)
        /\ acked' = [acked EXCEPT ![e] = IF place > @ THEN place ELSE @]
        /\ UNCHANGED <<puts, zRecordCache, data, calls, expiries>>
    BY DEF Confirm, KeepsReads, place
  <1>5. writes' \in [Writes -> WriteStates] /\ writes'[w] = [writes[w] EXCEPT !.pc = "done"]
    BY <1>0, <1>1, <1>4 DEF KeyValueTypeOK, WriteStates
  <1>6. Mined(w)' = Mined(w) /\ Sends(w)' = Sends(w)
    BY <1>1, <1>4, <1>5 DEF Mined, Sends, WriteStates
  <1>7. WriteOK(w)'
    BY <1>1, <1>2, <1>4, <1>5, <1>6 DEF WriteOK, WriteStates
  <1>8. WriteInv'
    <2>1. writes' = [writes EXCEPT ![w] = writes'[w]]
      BY <1>0, <1>4, <1>5 DEF KeyValueTypeOK
    <2>2. QED  BY <2>1, <1>0, <1>4, <1>7, WriteMoves
  <1>9. /\ acked' \in [Entries -> Nat] /\ \A x \in Entries : acked[x] <= acked'[x]
        /\ \A x \in Entries \ {e} : acked'[x] = acked[x]
        /\ acked'[e] \in {place, acked[e]}
    BY <1>0, <1>1, <1>3, <1>4 DEF KeyValueTypeOK
  <1>10. AckedInv'
    BY <1>0, <1>3, <1>4, <1>9 DEF AckedInv
  <1>11. /\ keyValueCache' \in [Entries -> {0} \cup Fills]
         /\ \A x \in Entries : \/ keyValueCache'[x] = 0
                               \/ keyValueCache'[x] = keyValueCache[x] /\ acked'[x] = acked[x]
    BY <1>0, <1>1, <1>4, <1>9 DEF KeyValueTypeOK
  <1>12. \A c \in Calls, x \in Entries : calls'[c].acked[x] <= acked'[x]
    <2>1. SUFFICES ASSUME NEW c \in Calls, NEW x \in Entries
                   PROVE  calls[c].acked[x] <= acked'[x]
      BY <1>4
    <2>2. calls[c].acked[x] \in Nat /\ acked[x] \in Nat /\ acked'[x] \in Nat
      BY <1>0, <1>9 DEF KeyValueTypeOK, CallStates
    <2>3. calls[c].acked[x] <= acked[x] /\ acked[x] <= acked'[x]
      BY <1>0, <1>9 DEF FillInv
    <2>4. QED  BY <2>2, <2>3
  <1>13. fills' \in [Fills -> FillStates] /\ FillInv'
    <2>1. /\ Len(puts') \in Nat /\ Len(puts) <= Len(puts') /\ calls' \in [Calls -> CallStates]
          /\ \A c \in Calls : calls'[c].pc = "wait" => calls'[c] = calls[c]
          /\ fills' \in {fills, Collect(fills, keyValueCache', calls')}
      BY <1>0, <1>4 DEF KeyValueTypeOK
    <2>2. QED  BY <2>1, <1>0, <1>9, <1>11, <1>12, FillKept
  <1>14. QED
    BY <1>0, <1>4, <1>5, <1>8, <1>9, <1>10, <1>11, <1>13 DEF KeyValueInv, KeyValueTypeOK

LEMMA WriteStepKeeps ==
  ASSUME KeyValueInv, WriteStep
  PROVE  KeyValueInv'
  <1>0. KeyValueTypeOK /\ WriteInv /\ RetryLimit \in Nat \ {0}
    BY KeyValueAssumption DEF KeyValueInv
  <1>a. ASSUME NEW w \in Writes
        PROVE  /\ writes[w] \in WriteStates /\ WriteOK(w)
               /\ Cardinality(Mined(w)) \in Nat /\ (Cardinality(Mined(w)) = 0 <=> Mined(w) = {})
               /\ Sends(w) = Cardinality(Mined(w)) + writes[w].sent
    BY <1>0, MinedFinite DEF KeyValueTypeOK, WriteInv, Sends
  <1>b. ASSUME NEW w \in Writes, NEW new \in WriteStates, writes' = [writes EXCEPT ![w] = new],
               UNCHANGED puts
        PROVE  writes'[w] = new /\ Mined(w)' = Mined(w) /\ Sends(w)' = Cardinality(Mined(w)) + new.sent
               /\ \A n \in Mined(w) : puts'[n] = puts[n]
    BY <1>b, <1>0 DEF KeyValueTypeOK, Mined, Sends
  <1>1. ASSUME NEW w \in Writes, NEW newPut \in SomePuts, PutKeyValue(w, newPut) PROVE KeyValueInv'
    <2> DEFINE new == [NoWrite EXCEPT !.pc = "estimate", !.entry = newPut.entry, !.to = newPut.to]
    <2>1. newPut.entry \in Entries /\ newPut.to \in Entries \cup {Plain}
      BY KeyValueAssumption
    <2>2. new \in WriteStates /\ new.pc = "estimate" /\ new.entry \in Entries /\ new.sent = 0 /\ new.attempt = 0
      BY <2>1 DEF NoWrite, WriteStates
    <2>3. /\ writes' = [writes EXCEPT ![w] = new] /\ writes[w].pc = "unused"
          /\ UNCHANGED <<puts, keyValueCache, fills, acked>> /\ KeepsReads
      BY <1>1 DEF PutKeyValue
    <2> HIDE DEF new
    <2>4. Mined(w) = {}
      BY <2>3, <1>a DEF WriteOK
    <2>5. WriteOK(w)'
      <3>1. /\ writes'[w] = new /\ Mined(w)' = Mined(w) /\ Sends(w)' = Cardinality(Mined(w)) + new.sent
            /\ Cardinality(Mined(w)) = 0
        BY <2>2, <2>3, <2>4, <1>a, <1>b
      <3>2. QED  BY <3>1, <2>2, <2>4, <1>0 DEF WriteOK
    <2>6. QED  BY <2>2, <2>3, <2>5, WriteKeeps
  <1>2. ASSUME NEW w \in Writes, Send(w) PROVE KeyValueInv'
    <2> DEFINE new == [writes[w] EXCEPT !.pc = "send", !.sent = @ + 1]
    <2>1. /\ new \in WriteStates /\ new.pc = "send" /\ new.entry = writes[w].entry
          /\ new.sent = writes[w].sent + 1 /\ new.attempt = writes[w].attempt
          /\ writes[w].sent \in Nat /\ writes[w].attempt \in Nat
      <3>1. writes[w] \in WriteStates
        BY <1>a
      <3>2. writes[w].sent \in Nat /\ writes[w].sent + 1 \in Nat /\ writes[w].attempt \in Nat
        BY <3>1 DEF WriteStates
      <3>3. new \in WriteStates
        BY <3>1, <3>2 DEF WriteStates
      <3>4. /\ new.pc = "send" /\ new.entry = writes[w].entry
            /\ new.sent = writes[w].sent + 1 /\ new.attempt = writes[w].attempt
        BY <3>1 DEF WriteStates
      <3>5. QED  BY <3>2, <3>3, <3>4
    <2>2. /\ writes' = [writes EXCEPT ![w] = new] /\ writes[w].pc = "estimate"
          /\ UNCHANGED <<puts, keyValueCache, fills, acked>> /\ KeepsReads
      BY <1>2, <1>0 DEF Send, KeyValueTypeOK
    <2> HIDE DEF new
    <2>3. WriteOK(w)'
      <3>1. /\ writes'[w] = new /\ Mined(w)' = Mined(w) /\ Sends(w)' = Cardinality(Mined(w)) + new.sent
            /\ \A n \in Mined(w) : puts'[n] = puts[n]
        BY <2>1, <2>2, <1>b
      <3>2. WriteOK(w) /\ Cardinality(Mined(w)) \in Nat /\ Sends(w) = Cardinality(Mined(w)) + writes[w].sent
        BY <1>a
      <3>3. QED  BY <3>1, <3>2, <2>1, <2>2, <1>0 DEF WriteOK
    <2>4. QED  BY <2>1, <2>2, <2>3, WriteKeeps
  <1>3. ASSUME NEW w \in Writes, TimeOut(w) PROVE KeyValueInv'
    <2> DEFINE again == [writes[w] EXCEPT !.pc = "estimate", !.attempt = @ + 1]
               threw == [writes[w] EXCEPT !.pc = "threw"]
    <2>1. /\ again \in WriteStates /\ again.pc = "estimate" /\ again.entry = writes[w].entry
          /\ again.sent = writes[w].sent /\ again.attempt = writes[w].attempt + 1
          /\ threw \in WriteStates /\ threw.pc = "threw" /\ threw.entry = writes[w].entry
          /\ threw.sent = writes[w].sent
          /\ writes[w].sent \in Nat /\ writes[w].attempt \in Nat
      <3>1. writes[w] \in WriteStates
        BY <1>a
      <3>2. writes[w].sent \in Nat /\ writes[w].attempt \in Nat /\ writes[w].attempt + 1 \in Nat
        BY <3>1 DEF WriteStates
      <3>3. again \in WriteStates /\ threw \in WriteStates
        BY <3>1, <3>2 DEF WriteStates
      <3>4. /\ again.pc = "estimate" /\ again.entry = writes[w].entry
            /\ again.sent = writes[w].sent /\ again.attempt = writes[w].attempt + 1
            /\ threw.pc = "threw" /\ threw.entry = writes[w].entry /\ threw.sent = writes[w].sent
        BY <3>1 DEF WriteStates
      <3>5. QED  BY <3>2, <3>3, <3>4
    <2>2. /\ \/ writes' = [writes EXCEPT ![w] = again] /\ writes[w].attempt + 1 < RetryLimit
             \/ writes' = [writes EXCEPT ![w] = threw]
          /\ writes[w].pc \in {"estimate", "send"}
          /\ UNCHANGED <<puts, keyValueCache, fills, acked>> /\ KeepsReads
      BY <1>3, <1>0 DEF TimeOut, Retry, KeyValueTypeOK
    <2> HIDE DEF again, threw
    <2>3. WriteOK(w)'
      <3>1. CASE writes' = [writes EXCEPT ![w] = again] /\ writes[w].attempt + 1 < RetryLimit
        <4>1. /\ writes'[w] = again /\ Mined(w)' = Mined(w) /\ Sends(w)' = Cardinality(Mined(w)) + again.sent
              /\ \A n \in Mined(w) : puts'[n] = puts[n]
          BY <3>1, <2>1, <2>2, <1>b
        <4>2. WriteOK(w) /\ Cardinality(Mined(w)) \in Nat /\ Sends(w) = Cardinality(Mined(w)) + writes[w].sent
          BY <1>a
        <4>3. QED  BY <3>1, <4>1, <4>2, <2>1, <2>2, <1>0 DEF WriteOK
      <3>2. CASE writes' = [writes EXCEPT ![w] = threw]
        <4>1. /\ writes'[w] = threw /\ Mined(w)' = Mined(w) /\ Sends(w)' = Cardinality(Mined(w)) + threw.sent
              /\ \A n \in Mined(w) : puts'[n] = puts[n]
          BY <3>2, <2>1, <2>2, <1>b
        <4>2. WriteOK(w) /\ Cardinality(Mined(w)) \in Nat /\ Sends(w) = Cardinality(Mined(w)) + writes[w].sent
          BY <1>a
        <4>3. QED  BY <3>2, <4>1, <4>2, <2>1, <2>2, <1>0 DEF WriteOK
      <3>3. QED  BY <2>2, <3>1, <3>2
    <2>4. QED  BY <2>1, <2>2, <2>3, WriteKeeps
  <1>4. ASSUME NEW w \in Writes, Fail(w) PROVE KeyValueInv'
    <2>1. PICK left \in {writes[w].sent} \cup (IF writes[w].pc = "send" /\ writes[w].sent > 0
                                              THEN {writes[w].sent - 1} ELSE {}) :
            writes' = [writes EXCEPT ![w].pc = "threw", ![w].sent = left]
      BY <1>4 DEF Fail
    <2> DEFINE new == [writes[w] EXCEPT !.pc = "threw", !.sent = left]
    <2>2. left \in Nat /\ left <= writes[w].sent /\ writes[w].sent \in Nat
      BY <2>1, <1>a DEF WriteStates
    <2>3. new \in WriteStates /\ new.pc = "threw" /\ new.entry = writes[w].entry /\ new.sent = left
      BY <2>2, <1>a DEF WriteStates
    <2>4. /\ writes' = [writes EXCEPT ![w] = new] /\ writes[w].pc \in {"estimate", "send"}
          /\ UNCHANGED <<puts, keyValueCache, fills, acked>> /\ KeepsReads
      BY <2>1, <1>4, <1>0 DEF Fail, KeyValueTypeOK
    <2> HIDE DEF new
    <2>5. WriteOK(w)'
      <3>1. /\ writes'[w] = new /\ Mined(w)' = Mined(w) /\ Sends(w)' = Cardinality(Mined(w)) + new.sent
            /\ \A n \in Mined(w) : puts'[n] = puts[n]
        BY <2>3, <2>4, <1>b
      <3>2. WriteOK(w) /\ Cardinality(Mined(w)) \in Nat /\ Sends(w) = Cardinality(Mined(w)) + writes[w].sent
        BY <1>a
      <3>3. QED  BY <3>1, <3>2, <2>2, <2>3, <2>4, <1>0 DEF WriteOK
    <2>6. QED  BY <2>3, <2>4, <2>5, WriteKeeps
  <1>5. QED
    BY <1>1, <1>2, <1>3, <1>4, ConfirmWriteKeeps, MineKeeps, PutElsewhereKeeps DEF WriteStep

-----------------------------------------------------------------------------
LEMMA KeyValueInit == Init => KeyValueInv
  <1> SUFFICES ASSUME Init PROVE KeyValueInv
    OBVIOUS
  <1>1. puts = <<>> /\ puts \in Seq(Puts) /\ \A w : Mined(w) = {}
    BY DEF Init, Mined
  <1>2. \A w \in Writes : Sends(w) = 0
    <2>1. SUFFICES ASSUME NEW w \in Writes PROVE Sends(w) = 0
      OBVIOUS
    <2>2. Mined(w) = {} /\ writes[w].sent = 0
      BY <1>1 DEF Init, NoWrite
    <2>3. QED  BY <2>2, FS_EmptySet DEF Sends
  <1>3. WriteInv
    BY <1>1, <1>2, KeyValueAssumption DEF WriteInv, WriteOK, Init, NoWrite
  <1>4. AckedInv /\ FillInv
    BY DEF Init, AckedInv, FillInv, NoFill, NoCall
  <1>5. KeyValueTypeOK
    BY <1>1 DEF Init, KeyValueTypeOK, NoFill, NoCall, NoWrite, FillStates, CallStates, WriteStates
  <1>6. QED
    BY <1>3, <1>4, <1>5 DEF KeyValueInv

LEMMA KeyValueStep == KeyValueInv /\ [Next]_vars => KeyValueInv'
  <1> SUFFICES ASSUME KeyValueInv, [Next]_vars PROVE KeyValueInv'
    OBVIOUS
  <1>1. CASE UNCHANGED vars
    <2>1. KeyValueTypeOK' /\ FillInv'
      BY <1>1 DEF KeyValueInv, KeyValueTypeOK, FillInv, State, Got, vars
    <2>2. WriteInv' /\ AckedInv'
      BY <1>1, ChainKept DEF KeyValueInv, vars
    <2>3. QED  BY <2>1, <2>2 DEF KeyValueInv
  <1>2. QED
    BY <1>1, ReadKeeps, WriteStepKeeps DEF Next

\* Of getKeyValue, getZRecord, putKeyValue and web3send (ethereum.js): promises in the cache are
\* no older than what putKeyValue has acknowledged, and a write is mined no more often than tried.
THEOREM KeyValueInvariant == Spec => []KeyValueInv
  BY KeyValueInit, KeyValueStep, PTL DEF Spec

\* A look-up is never answered with a value older than the last one whose putKeyValue
\* had returned when it began (ethereum.js:1032), for any reads, writes and expiries.
THEOREM ReadsAreFresh == Spec => []FreshAfterPut
  <1>1. KeyValueInv => FreshAfterPut
    BY DEF KeyValueInv, FillInv, FreshAfterPut
  <1>2. QED
    BY <1>1, KeyValueInvariant, PTL

\* An acknowledged put is on the chain, and web3send puts a value there at most as often
\* as it may try (ethereum.js:354), for any retry limit and any number of writes.
THEOREM PutsReachTheChain == Spec => []PutsAreOnTheChain
  <1>1. ASSUME KeyValueInv PROVE PutsAreOnTheChain
    <2>1. SUFFICES ASSUME NEW w \in Writes
                   PROVE  /\ writes[w].pc = "done" => Cardinality(Mined(w)) > 0
                          /\ Sends(w) <= RetryLimit
      BY DEF PutsAreOnTheChain, Sends, Mined
    <2>2. WriteOK(w) /\ Cardinality(Mined(w)) \in Nat /\ (Cardinality(Mined(w)) = 0 <=> Mined(w) = {})
      BY <1>1, MinedFinite DEF KeyValueInv, WriteInv
    <2>3. QED  BY <2>2 DEF WriteOK
  <1>2. QED
    BY <1>1, KeyValueInvariant, PTL

(***************************************************************************)
(* The versions of an entry of the registry.                               *)
(***************************************************************************)

FullVersions == Nat \X Nat \X Nat
AllVersions == FullVersions \cup {Unversioned}

VersionsInv ==
  /\ put \in Seq(AllVersions)
  /\ shown \in [Editors -> AllVersions]

\* A version as a number, while its parts have one digit.
Rank(v) == IF v = Unversioned THEN 0 ELSE 1 + 100 * v[1] + 10 * v[2] + v[3]

\* A version is a tuple of three parts, a base version one of two.
LEMMA FullVersion ==
  ASSUME NEW v \in FullVersions
  PROVE  /\ v # Unversioned /\ DOMAIN v = 1..3 /\ Len(v) = 3
         /\ v[1] \in Nat /\ v[2] \in Nat /\ v[3] \in Nat /\ v = <<v[1], v[2], v[3]>>
  <1>1. PICK a \in Nat, b \in Nat, c \in Nat : v = <<a, b, c>>
    BY DEF FullVersions
  <1>2. DOMAIN v = 1..3 /\ Len(v) = 3 /\ v[1] = a /\ v[2] = b /\ v[3] = c
    BY <1>1
  <1>3. v # Unversioned
    BY <1>2 DEF Unversioned
  <1>4. QED  BY <1>1, <1>2, <1>3

LEMMA BaseVersion ==
  ASSUME NEW b \in Bases
  PROVE  /\ b # Unversioned /\ DOMAIN b = 1..2 /\ Len(b) = 2
         /\ b[1] \in Nat /\ b[2] \in Nat /\ b = <<b[1], b[2]>>
  <1> DEFINE A == 0..99
  <1>1. b \in A \X A /\ A \subseteq Nat
    BY VersionsAssumption
  <1> HIDE DEF A
  <1>2. DOMAIN b = 1..2 /\ Len(b) = 2 /\ b[1] \in A /\ b[2] \in A /\ b = <<b[1], b[2]>>
    BY <1>1
  <1>3. b # Unversioned
    BY <1>2 DEF Unversioned
  <1>4. QED  BY <1>1, <1>2, <1>3

\* Of digits the order of the texts is the order of the numbers.
LEMMA DigitOrder ==
  ASSUME NEW a \in 0..9, NEW b \in 0..9
  PROVE  StringGreater(a, b) <=> a > b
  <1> DEFINE differ == {i \in DOMAIN <<a>> \cap DOMAIN <<b>> : <<a>>[i] # <<b>>[i]}
  <1>1. Digits(a) = <<a>> /\ Digits(b) = <<b>>
    BY DEF Digits
  <1>2. DOMAIN <<a>> = {1} /\ DOMAIN <<b>> = {1} /\ <<a>>[1] = a /\ <<b>>[1] = b
        /\ Len(<<a>>) = 1 /\ Len(<<b>>) = 1
    OBVIOUS
  <1>3. differ = IF a = b THEN {} ELSE {1}
    BY <1>2
  <1>4. StringGreater(a, b) <=> IF differ = {} THEN Len(<<a>>) > Len(<<b>>)
           ELSE LET i == CHOOSE i \in differ : \A j \in differ : i <= j IN <<a>>[i] > <<b>>[i]
    BY <1>1 DEF StringGreater
  <1>5. CASE a = b
    BY <1>2, <1>3, <1>4, <1>5
  <1>6. CASE a # b
    <2>1. (CHOOSE i \in {1} : \A j \in {1} : i <= j) = 1
      OBVIOUS
    <2>2. StringGreater(a, b) <=> <<a>>[1] > <<b>>[1]
      BY <1>3, <1>4, <1>6, <2>1
    <2>3. QED  BY <1>2, <2>2
  <1>7. QED  BY <1>5, <1>6

\* The look-ups choose the least of the places that differ.
LEMMA FirstOfThree ==
  ASSUME NEW S \in SUBSET (1..3), S # {}
  PROVE  LET i == CHOOSE i \in S : \A j \in S : i <= j IN i \in S /\ \A j \in S : i <= j
  <1>1. \E i \in S : \A j \in S : i <= j
    <2>1. CASE 1 \in S
      BY <2>1
    <2>2. CASE 1 \notin S /\ 2 \in S
      BY <2>2
    <2>3. CASE 1 \notin S /\ 2 \notin S
      <3>1. \A i \in 1..3 : i = 1 \/ i = 2 \/ i = 3
        OBVIOUS
      <3>2. S = {3}
        BY <2>3, <3>1
      <3>3. QED  BY <3>2
    <2>4. QED  BY <2>1, <2>2, <2>3
  <1>2. QED  BY <1>1

\* Two versions with parts, of one digit each, are compared by the first part they differ in.
LEMMA CompareParts ==
  ASSUME NEW u, NEW v, u # Unversioned, v # Unversioned,
         DOMAIN u \subseteq 1..3, DOMAIN v \subseteq 1..3,
         \A i \in DOMAIN u : u[i] \in 0..9, \A i \in DOMAIN v : v[i] \in 0..9
  PROVE  /\ CompareVersions(u, v) \in {-1, 0, 1}
         /\ CompareVersions(u, v) = 0 <=> \A i \in DOMAIN u \cap DOMAIN v : u[i] = v[i]
         /\ CompareVersions(u, v) = 1 <=> \E i \in DOMAIN u \cap DOMAIN v :
                 u[i] > v[i] /\ \A j \in DOMAIN u \cap DOMAIN v : j < i => u[j] = v[j]
  <1> DEFINE differ == {i \in DOMAIN u \cap DOMAIN v : u[i] # v[i]}
             first == CHOOSE i \in differ : \A j \in differ : i <= j
  <1>1. CASE u = v
    <2>1. CompareVersions(u, v) = 0
      BY <1>1 DEF CompareVersions
    <2>2. \A i \in DOMAIN u : ~(u[i] > u[i])
      OBVIOUS
    <2>3. QED  BY <1>1, <2>1, <2>2
  <1>2. CASE u # v /\ differ = {}
    <2>1. CompareVersions(u, v) = 0
      BY <1>2 DEF CompareVersions
    <2>2. \A i \in DOMAIN u \cap DOMAIN v : u[i] = v[i] /\ ~(u[i] > v[i])
      BY <1>2
    <2>3. QED  BY <2>1, <2>2
  <1>3. CASE u # v /\ differ # {}
    <2>1. CompareVersions(u, v) = IF StringGreater(u[first], v[first]) THEN 1 ELSE -1
      BY <1>3 DEF CompareVersions
    <2>2. first \in differ /\ \A j \in differ : first <= j
      BY <1>3, FirstOfThree
    <2> HIDE DEF first
    <2>3. u[first] \in 0..9 /\ v[first] \in 0..9 /\ first \in DOMAIN u \cap DOMAIN v /\ u[first] # v[first]
      BY <2>2
    <2>4. StringGreater(u[first], v[first]) <=> u[first] > v[first]
      BY <2>3, DigitOrder
    <2>5. \A j \in DOMAIN u \cap DOMAIN v : j < first => u[j] = v[j]
      BY <2>2, <2>3
    <2>6. ASSUME NEW i \in DOMAIN u \cap DOMAIN v, u[i] > v[i],
                 \A j \in DOMAIN u \cap DOMAIN v : j < i => u[j] = v[j]
          PROVE  i = first
      <3>1. i \in differ
        BY <2>6
      <3>2. first <= i /\ ~(first < i) /\ first \in 1..3 /\ i \in 1..3
        BY <2>2, <2>3, <2>6, <3>1
      <3>3. QED  BY <3>2
    <2>7. QED  BY <2>1, <2>3, <2>4, <2>5, <2>6
  <1>4. QED  BY <1>1, <1>2, <1>3

\* compareVersions orders whole versions as their ranks do.
LEMMA CompareFull ==
  ASSUME NEW u \in AllVersions, NEW v \in AllVersions, OneDigit(u), OneDigit(v)
  PROVE  /\ CompareVersions(u, v) \in {-1, 0, 1}
         /\ CompareVersions(u, v) = 1 <=> Rank(u) > Rank(v)
         /\ CompareVersions(u, v) = 0 <=> u = v
         /\ u = v <=> Rank(u) = Rank(v)
         /\ Rank(u) \in 0..1000 /\ Rank(u) \in Nat
  <1>1. CASE u \in FullVersions /\ v \in FullVersions
    <2>1. \A i \in 1..3 : u[i] \in 0..9 /\ v[i] \in 0..9
      BY <1>1, FullVersion DEF OneDigit
    <2>2. DOMAIN u = 1..3 /\ DOMAIN v = 1..3 /\ u # Unversioned /\ v # Unversioned
      BY <1>1, FullVersion
    <2>3. u = v <=> u[1] = v[1] /\ u[2] = v[2] /\ u[3] = v[3]
      BY <1>1, FullVersion
    <2>4. u[1] \in 0..9 /\ u[2] \in 0..9 /\ u[3] \in 0..9 /\ v[1] \in 0..9 /\ v[2] \in 0..9 /\ v[3] \in 0..9
      BY <2>1
    <2>5. Rank(u) = 1 + 100 * u[1] + 10 * u[2] + u[3] /\ Rank(v) = 1 + 100 * v[1] + 10 * v[2] + v[3]
      BY <2>2 DEF Rank
    <2>6. /\ CompareVersions(u, v) \in {-1, 0, 1}
          /\ CompareVersions(u, v) = 0 <=> \A i \in 1..3 : u[i] = v[i]
          /\ CompareVersions(u, v) = 1 <=> \E i \in 1..3 : u[i] > v[i] /\ \A j \in 1..3 : j < i => u[j] = v[j]
      BY <2>1, <2>2, CompareParts
    <2>7. CompareVersions(u, v) = 1 <=>
             (u[1] > v[1] \/ (u[1] = v[1] /\ (u[2] > v[2] \/ (u[2] = v[2] /\ u[3] > v[3]))))
      <3>1. 1..3 = {1, 2, 3}
        OBVIOUS
      <3> DEFINE First(i) == u[i] > v[i] /\ \A j \in 1..3 : j < i => u[j] = v[j]
      <3>2. CompareVersions(u, v) = 1 <=> First(1) \/ First(2) \/ First(3)
        BY <2>6, <3>1
      <3>3. First(1) <=> u[1] > v[1]
        BY <2>4
      <3>4. First(2) <=> u[1] = v[1] /\ u[2] > v[2]
        BY <2>4, <3>1
      <3>5. First(3) <=> u[1] = v[1] /\ u[2] = v[2] /\ u[3] > v[3]
        BY <2>4, <3>1
      <3> HIDE DEF First
      <3>6. QED  BY ONLY <3>2, <3>3, <3>4, <3>5, Zenon
    <2>8. CompareVersions(u, v) = 0 <=> u = v
      BY <2>3, <2>6
    <2>9. Rank(u) \in 0..1000 /\ Rank(u) \in Nat
      <3> DEFINE a == u[1]  b == u[2]  c == u[3]  r == 1 + 100 * a + 10 * b + c
      <3>1. a \in 0..9 /\ b \in 0..9 /\ c \in 0..9
        BY ONLY <2>4
      <3> HIDE DEF a, b, c
      <3>2. r \in 0..1000 /\ r \in Nat
        BY ONLY <3>1
      <3>3. Rank(u) = r
        BY ONLY <2>5 DEF a, b, c
      <3> HIDE DEF r
      <3>4. QED  BY ONLY <3>2, <3>3
    <2>10. /\ Rank(u) = Rank(v) <=> u[1] = v[1] /\ u[2] = v[2] /\ u[3] = v[3]
           /\ Rank(u) > Rank(v) <=>
                 (u[1] > v[1] \/ (u[1] = v[1] /\ (u[2] > v[2] \/ (u[2] = v[2] /\ u[3] > v[3]))))
      <3> DEFINE a == u[1]  b == u[2]  c == u[3]  d == v[1]  e == v[2]  f == v[3]
                 r == Rank(u)  s == Rank(v)
      <3>1. /\ a \in 0..9 /\ b \in 0..9 /\ c \in 0..9 /\ d \in 0..9 /\ e \in 0..9 /\ f \in 0..9
            /\ r = 1 + 100 * a + 10 * b + c /\ s = 1 + 100 * d + 10 * e + f
        BY <2>4, <2>5
      <3> HIDE DEF a, b, c, d, e, f, r, s
      <3>2. /\ r = s <=> a = d /\ b = e /\ c = f
            /\ r > s <=> (a > d \/ (a = d /\ (b > e \/ (b = e /\ c > f))))
        <4>1. CASE a = d
          BY <3>1, <4>1
        <4>2. CASE a > d
          BY <3>1, <4>2
        <4>3. CASE a < d
          BY <3>1, <4>3
        <4>4. QED  BY <3>1, <4>1, <4>2, <4>3
      <3>3. QED  BY <3>2 DEF a, b, c, d, e, f, r, s
    <2>12. QED  BY <2>3, <2>6, <2>7, <2>8, <2>9, <2>10
  <1>2. CASE u = Unversioned /\ v = Unversioned
    <2>1. CompareVersions(u, v) = 0
      BY <1>2 DEF CompareVersions
    <2>2. Rank(u) = 0 /\ Rank(v) = 0
      BY <1>2 DEF Rank
    <2>3. QED  BY <1>2, <2>1, <2>2
  <1>3. CASE u = Unversioned /\ v \in FullVersions
    <2>1. v # Unversioned /\ v[1] \in Nat /\ v[2] \in Nat /\ v[3] \in Nat
      BY <1>3, FullVersion
    <2>2. CompareVersions(u, v) = -1
      BY <1>3, <2>1 DEF CompareVersions
    <2>3. QED  BY <1>3, <2>1, <2>2, SMTT(30) DEF Rank
  <1>4. CASE u \in FullVersions /\ v = Unversioned
    <2>1. u # Unversioned /\ u[1] \in 0..9 /\ u[2] \in 0..9 /\ u[3] \in 0..9
      BY <1>4, FullVersion DEF OneDigit
    <2>2. CompareVersions(u, v) = 1
      BY <1>4, <2>1 DEF CompareVersions
    <2>3. QED  BY <1>4, <2>1, <2>2, SMTT(30) DEF Rank
  <1>5. QED  BY <1>1, <1>2, <1>3, <1>4 DEF AllVersions

\* What it is to be before another version, part by part.
LEMMA OlderParts ==
  ASSUME NEW u, NEW v, DOMAIN v \subseteq 1..3, NEW n \in {2, 3}, DOMAIN u \cap DOMAIN v = 1..n,
         u # Unversioned, \A i \in 1..n : u[i] \in Nat /\ v[i] \in Nat
  PROVE  Older(u, v) <=> (u[1] < v[1] \/ (u[1] = v[1] /\ (u[2] < v[2] \/ (n = 3 /\ u[2] = v[2] /\ u[3] < v[3]))))
  <1> DEFINE First(i) == u[i] < v[i] /\ \A j \in 1..(i - 1) : u[j] = v[j]
  <1>1. Older(u, v) <=> \E i \in 1..n : First(i)
    BY DEF Older
  <1>2. 1..n = IF n = 3 THEN {1, 2, 3} ELSE {1, 2}
    <2>1. 1..3 = {1, 2, 3} /\ 1..2 = {1, 2}
      OBVIOUS
    <2>2. QED  BY <2>1
  <1>3. 1..0 = {} /\ 1..1 = {1} /\ 1..2 = {1, 2}
    OBVIOUS
  <1>4. First(1) <=> u[1] < v[1]
    BY <1>3
  <1>5. First(2) <=> u[1] = v[1] /\ u[2] < v[2]
    BY <1>3
  <1>6. First(3) <=> u[1] = v[1] /\ u[2] = v[2] /\ u[3] < v[3]
    BY <1>3
  <1> HIDE DEF First
  <1>7. CASE n = 3
    <2>1. Older(u, v) <=> First(1) \/ First(2) \/ First(3)
      BY <1>1, <1>2, <1>7
    <2>2. QED  BY <1>4, <1>5, <1>6, <1>7, <2>1
  <1>8. CASE n = 2
    <2>1. Older(u, v) <=> First(1) \/ First(2)
      BY <1>1, <1>2, <1>8
    <2>2. QED  BY <1>4, <1>5, <1>8, <2>1
  <1>9. QED  BY <1>7, <1>8

\* So does the order of the numbers.
LEMMA OlderIsLess ==
  ASSUME NEW u \in AllVersions, NEW v \in AllVersions, OneDigit(u), OneDigit(v)
  PROVE  Older(u, v) <=> Rank(u) < Rank(v)
  <1>1. CASE u \in FullVersions /\ v \in FullVersions
    <2>1. DOMAIN u = 1..3 /\ DOMAIN v = 1..3 /\ u # Unversioned /\ v # Unversioned
          /\ \A i \in 1..3 : u[i] \in 0..9 /\ v[i] \in 0..9
      BY <1>1, FullVersion DEF OneDigit
    <2>2. Older(u, v) <=> (u[1] < v[1] \/ (u[1] = v[1] /\ (u[2] < v[2] \/ (u[2] = v[2] /\ u[3] < v[3]))))
      <3>1. DOMAIN u \cap DOMAIN v = 1..3 /\ DOMAIN v \subseteq 1..3 /\ \A i \in 1..3 : u[i] \in Nat /\ v[i] \in Nat
        BY <2>1
      <3>2. Older(u, v) <=> (u[1] < v[1] \/ (u[1] = v[1] /\ (u[2] < v[2] \/ (3 = 3 /\ u[2] = v[2] /\ u[3] < v[3]))))
        BY <2>1, <3>1, OlderParts
      <3>3. QED  BY <3>2
    <2>3. Rank(u) = 1 + 100 * u[1] + 10 * u[2] + u[3] /\ Rank(v) = 1 + 100 * v[1] + 10 * v[2] + v[3]
      BY <2>1 DEF Rank
    <2>4. u[1] \in 0..9 /\ u[2] \in 0..9 /\ u[3] \in 0..9 /\ v[1] \in 0..9 /\ v[2] \in 0..9 /\ v[3] \in 0..9
      BY <2>1
    <2> DEFINE a == u[1]  b == u[2]  c == u[3]  d == v[1]  e == v[2]  f == v[3]
               r == Rank(u)  s == Rank(v)
    <2>5. /\ a \in 0..9 /\ b \in 0..9 /\ c \in 0..9 /\ d \in 0..9 /\ e \in 0..9 /\ f \in 0..9
          /\ r = 1 + 100 * a + 10 * b + c /\ s = 1 + 100 * d + 10 * e + f
      BY <2>3, <2>4
    <2>6. Older(u, v) <=> (a < d \/ (a = d /\ (b < e \/ (b = e /\ c < f))))
      BY <2>2
    <2> HIDE DEF a, b, c, d, e, f, r, s
    <2>7. r < s <=> (a < d \/ (a = d /\ (b < e \/ (b = e /\ c < f))))
      <3>1. CASE a = d
        BY <2>5, <3>1
      <3>2. CASE a > d
        BY <2>5, <3>2
      <3>3. CASE a < d
        BY <2>5, <3>3
      <3>4. QED  BY <2>5, <3>1, <3>2, <3>3
    <2>8. QED  BY <2>6, <2>7 DEF r, s
  <1>2. CASE u = Unversioned
    <2>1. Older(u, v) <=> v # Unversioned
      BY <1>2 DEF Older, Unversioned
    <2>2. v \in FullVersions => v # Unversioned /\ v[1] \in Nat /\ v[2] \in Nat /\ v[3] \in Nat
      BY FullVersion
    <2>3. QED  BY <1>2, <2>1, <2>2 DEF Rank, AllVersions
  <1>3. CASE u \in FullVersions /\ v = Unversioned
    <2>1. u # Unversioned /\ u[1] \in Nat /\ u[2] \in Nat /\ u[3] \in Nat
      BY <1>3, FullVersion
    <2>2. ~Older(u, v)
      BY <1>3, <2>1 DEF Older, Unversioned
    <2>3. QED  BY <1>3, <2>1, <2>2 DEF Rank
  <1>4. QED  BY <1>1, <1>2, <1>3 DEF AllVersions

\* Against a base version only the first two parts count.
LEMMA CompareWithBase ==
  ASSUME NEW v \in AllVersions, NEW b \in Bases, OneDigit(v), OneDigit(b)
  PROVE  CompareVersions(v, b) = 1 <=> Older(b, v)
  <1>1. b # Unversioned /\ DOMAIN b = 1..2 /\ \A i \in 1..2 : b[i] \in 0..9
    BY BaseVersion DEF OneDigit
  <1>2. CASE v = Unversioned
    <2>1. CompareVersions(v, b) = -1
      BY <1>1, <1>2 DEF CompareVersions
    <2>2. ~Older(b, v)
      BY <1>1, <1>2 DEF Older, Unversioned
    <2>3. QED  BY <2>1, <2>2
  <1>3. CASE v \in FullVersions
    <2>1. v # Unversioned /\ DOMAIN v = 1..3 /\ \A i \in 1..3 : v[i] \in 0..9
      BY <1>3, FullVersion DEF OneDigit
    <2>2. DOMAIN v \cap DOMAIN b = 1..2 /\ DOMAIN b \cap DOMAIN v = 1..2
      BY <1>1, <2>1
    <2>3. CompareVersions(v, b) = 1 <=> \E i \in 1..2 : v[i] > b[i] /\ \A j \in 1..2 : j < i => v[j] = b[j]
      <3>1. DOMAIN v \subseteq 1..3 /\ DOMAIN b \subseteq 1..3
        BY <1>1, <2>1
      <3>2. CompareVersions(v, b) = 1 <=> \E i \in DOMAIN v \cap DOMAIN b :
                 v[i] > b[i] /\ \A j \in DOMAIN v \cap DOMAIN b : j < i => v[j] = b[j]
        BY <1>1, <2>1, <3>1, CompareParts
      <3>3. QED  BY <2>2, <3>2
    <2>4. 1..2 = {1, 2} /\ 1 \in 1..3 /\ 2 \in 1..3
      OBVIOUS
    <2>5. v[1] \in 0..9 /\ v[2] \in 0..9 /\ b[1] \in 0..9 /\ b[2] \in 0..9
      BY <1>1, <2>1, <2>4
    <2>6. CompareVersions(v, b) = 1 <=> (b[1] < v[1] \/ (b[1] = v[1] /\ b[2] < v[2]))
      BY <2>3, <2>4, <2>5
    <2>7. Older(b, v) <=> (b[1] < v[1] \/ (b[1] = v[1] /\ (b[2] < v[2] \/ (2 = 3 /\ b[2] = v[2] /\ b[3] < v[3]))))
      <3>1. DOMAIN v \subseteq 1..3 /\ 2 \in {2, 3} /\ \A i \in 1..2 : b[i] \in Nat /\ v[i] \in Nat
        BY <1>1, <2>1
      <3>2. QED  BY <1>1, <2>2, <3>1, OlderParts
    <2>8. QED  BY <2>6, <2>7
  <1>4. QED  BY <1>2, <1>3 DEF AllVersions

\* Some event wins the look-up wherever there is one to look among: of the highest rank, the
\* last one.
LEMMA SomeEventWins ==
  ASSUME put \in Seq(AllVersions), \A n \in DOMAIN put : OneDigit(put[n]),
         NEW before \in SUBSET DOMAIN put, before # {}
  PROVE  \E n \in before : \A k \in before :
            LET c == CompareVersions(put[n], put[k]) IN c = 1 \/ (c = 0 /\ k <= n)
  <1>1. Len(put) \in Nat /\ DOMAIN put = 1..Len(put) /\ \A n \in before : put[n] \in AllVersions /\ OneDigit(put[n])
    OBVIOUS
  <1>2. \A n \in before : Rank(put[n]) \in 0..1000 /\ Rank(put[n]) \in Nat
    <2> TAKE n \in before
    <2>1. put[n] \in AllVersions /\ OneDigit(put[n])
      BY <1>1
    <2>2. QED  BY ONLY <2>1, CompareFull
  <1> DEFINE ranks == {Rank(put[n]) + 1 : n \in before}
  <1>3. ranks \in SUBSET (1..1001) /\ ranks # {}
    <2>1. \A n \in before : Rank(put[n]) + 1 \in 1..1001
      BY ONLY <1>2
    <2>2. QED  BY ONLY <2>1, before # {}
  <1>4. PICK top \in ranks : \A x \in ranks : x <= top
    <2> HIDE DEF ranks
    <2> DEFINE N == 1001
    <2>1. N \in Nat /\ ranks \in SUBSET (1..N) /\ ranks # {}
      BY <1>3
    <2> HIDE DEF N
    <2>2. QED  BY ONLY <2>1, LargestPlace
  <1> DEFINE best == {n \in before : Rank(put[n]) + 1 = top}
  <1>5. best \in SUBSET (1..Len(put)) /\ best # {}
    BY <1>1, <1>4
  <1>6. PICK n \in best : \A k \in best : k <= n
    <2> HIDE DEF best
    <2>1. QED  BY <1>1, <1>5, LargestPlace
  <1>7. ASSUME NEW k \in before
        PROVE  CompareVersions(put[n], put[k]) = 1 \/ (CompareVersions(put[n], put[k]) = 0 /\ k <= n)
    <2>1. n \in before /\ Rank(put[n]) + 1 = top
      BY <1>6
    <2>2. Rank(put[k]) + 1 <= Rank(put[n]) + 1
      BY <1>4, <2>1
    <2>3. Rank(put[k]) \in Nat /\ Rank(put[n]) \in Nat
      BY <1>2, <2>1
    <2>4. CASE Rank(put[k]) = Rank(put[n])
      <3>1. k \in best
        BY <2>1, <2>4
      <3>2. k <= n
        BY <1>6, <3>1
      <3>3. CompareVersions(put[n], put[k]) = 0
        BY <1>1, <2>1, <2>4, CompareFull
      <3>4. QED  BY <3>2, <3>3
    <2>5. CASE Rank(put[k]) # Rank(put[n])
      <3>1. Rank(put[n]) > Rank(put[k])
        <4>1. PICK x \in Nat : x = Rank(put[k])
          BY ONLY <2>3
        <4>2. PICK y \in Nat : y = Rank(put[n])
          BY ONLY <2>3
        <4>3. x + 1 <= y + 1 /\ x # y
          BY ONLY <2>2, <2>5, <4>1, <4>2, ZenonT(60)
        <4>4. y > x
          BY ONLY <4>3
        <4>5. QED  BY ONLY <4>1, <4>2, <4>4, ZenonT(60)
      <3>2. QED  BY <1>1, <2>1, <3>1, CompareFull
    <2>6. QED  BY <2>4, <2>5
  <1>8. QED  BY <1>6, <1>7

\* What the look-up of v answers.
LEMMA LookUpAnswer ==
  ASSUME put \in Seq(AllVersions), \A n \in DOMAIN put : OneDigit(put[n]), NEW v
  PROVE  LET found == GetLastVersionOrBefore(v)
             before == {n \in DOMAIN put : CompareVersions(put[n], v) # 1}
         IN  /\ before = {} => found = 0
             /\ before # {} => /\ found \in before
                               /\ \A k \in before : LET c == CompareVersions(put[found], put[k])
                                                     IN  c = 1 \/ (c = 0 /\ k <= found)
  <1> DEFINE before == {n \in DOMAIN put : CompareVersions(put[n], v) # 1}
             Wins(n) == \A k \in before : LET c == CompareVersions(put[n], put[k]) IN c = 1 \/ (c = 0 /\ k <= n)
  <1>1. GetLastVersionOrBefore(v) = IF before = {} THEN 0 ELSE CHOOSE n \in before : Wins(n)
    BY DEF GetLastVersionOrBefore
  <1>2. ASSUME before # {} PROVE \E n \in before : Wins(n)
    <2>1. before \in SUBSET DOMAIN put
      OBVIOUS
    <2> HIDE DEF before
    <2>2. QED  BY <1>2, <2>1, SomeEventWins
  <1>3. before # {} => LET found == CHOOSE n \in before : Wins(n) IN found \in before /\ Wins(found)
    <2> HIDE DEF before, Wins
    <2>1. QED  BY <1>2
  <1>4. QED  BY <1>1, <1>3

\* The look-up of a version that was put.
LEMMA LookUpOfAVersion ==
  ASSUME put \in Seq(AllVersions), \A n \in DOMAIN put : OneDigit(put[n]), NEW n \in DOMAIN put
  PROVE  LET found == GetLastVersionOrBefore(put[n])
             exact == GetExactVersion(put[n])
         IN  /\ put[found] = put[n]
             /\ \A k \in (found + 1)..Len(put) : put[k] # put[n]
             /\ exact <= n /\ (exact < n => put[exact] = put[n])
  <1> DEFINE found == GetLastVersionOrBefore(put[n])
             exact == GetExactVersion(put[n])
             before == {k \in DOMAIN put : CompareVersions(put[k], put[n]) # 1}
             of == {k \in DOMAIN put : put[k] = put[n]}
  <1>1. Len(put) \in Nat /\ DOMAIN put = 1..Len(put) /\ \A k \in DOMAIN put : put[k] \in AllVersions
    OBVIOUS
  <1>2. \A k \in DOMAIN put : put[k] = put[n] => k \in before
    BY <1>1, CompareFull
  <1>3. n \in before
    BY <1>2
  <1>4. found \in before /\ \A k \in before : LET c == CompareVersions(put[found], put[k])
                                                IN  c = 1 \/ (c = 0 /\ k <= found)
    BY <1>3, LookUpAnswer
  <1> HIDE DEF found
  <1>5. put[found] = put[n]
    <2>1. CompareVersions(put[found], put[n]) # 1 /\ found \in DOMAIN put
      BY <1>4
    <2>2. CompareVersions(put[found], put[n]) = 0
      BY <1>3, <1>4, <2>1
    <2>3. QED  BY <1>1, <2>1, <2>2, CompareFull
  <1>6. ASSUME NEW k \in (found + 1)..Len(put), put[k] = put[n]
        PROVE  FALSE
    <2>1. found \in DOMAIN put /\ k \in DOMAIN put /\ ~(k <= found)
      BY <1>1, <1>4, <1>6
    <2>2. CompareVersions(put[found], put[k]) = 1
      BY <1>2, <1>4, <1>6, <2>1
    <2>3. CompareVersions(put[found], put[k]) = 0
      BY <1>1, <1>5, <1>6, <2>1, CompareFull
    <2>4. QED  BY <2>2, <2>3
  <1>7. \E i \in of : \A k \in of : i <= k
    <2> DEFINE left == {Len(put) + 1 - k : k \in of}
    <2>1. left \in SUBSET (1..Len(put)) /\ left # {}
      BY <1>1
    <2>2. PICK m \in left : \A x \in left : x <= m
      <3> HIDE DEF left
      <3>1. QED  BY <1>1, <2>1, LargestPlace
    <2>3. PICK i \in of : m = Len(put) + 1 - i
      BY <2>2
    <2>4. \A k \in of : Len(put) + 1 - k <= Len(put) + 1 - i
      BY <2>2, <2>3
    <2>5. \A k \in of : i <= k
      <3> TAKE k \in of
      <3>1. k \in Nat /\ i \in Nat /\ Len(put) \in Nat
        BY <1>1, <2>3
      <3>2. Len(put) + 1 - k <= Len(put) + 1 - i
        BY <2>4
      <3> HIDE DEF of
      <3>3. QED  BY ONLY <3>1, <3>2
    <2>6. QED  BY <2>3, <2>5
  <1>8. exact \in of /\ \A k \in of : exact <= k
    <2>1. n \in of
      OBVIOUS
    <2>2. exact = CHOOSE i \in of : \A k \in of : i <= k
      BY <2>1 DEF GetExactVersion
    <2> HIDE DEF of, exact
    <2>3. QED  BY <1>7, <2>2
  <1>9. exact <= n /\ put[exact] = put[n]
    BY <1>8
  <1>10. QED  BY <1>5, <1>6, <1>9 DEF found

\* The look-up of a base version.
LEMMA LookUpOfABase ==
  ASSUME put \in Seq(AllVersions), \A n \in DOMAIN put : OneDigit(put[n]),
         NEW base \in Bases, OneDigit(base), GetLastVersionOrBefore(base) # 0
  PROVE  LET found == GetLastVersionOrBefore(base)
         IN  /\ ~Older(base, put[found])
             /\ \A k \in DOMAIN put : ~Older(base, put[k]) => ~Older(put[found], put[k])
  <1> DEFINE found == GetLastVersionOrBefore(base)
             before == {k \in DOMAIN put : CompareVersions(put[k], base) # 1}
  <1>1. \A k \in DOMAIN put : put[k] \in AllVersions /\ OneDigit(put[k])
    OBVIOUS
  <1>2. found \in before /\ \A k \in before : LET c == CompareVersions(put[found], put[k])
                                                IN  c = 1 \/ (c = 0 /\ k <= found)
    BY LookUpAnswer
  <1> HIDE DEF found
  <1>3. ~Older(base, put[found])
    BY <1>1, <1>2, CompareWithBase
  <1>4. ASSUME NEW k \in DOMAIN put, ~Older(base, put[k])
        PROVE  ~Older(put[found], put[k])
    <2>1. k \in before
      BY <1>1, <1>4, CompareWithBase
    <2>2. CompareVersions(put[found], put[k]) \in {0, 1}
      BY <1>2, <2>1
    <2>3. ~(Rank(put[found]) < Rank(put[k]))
      <3>1. put[found] \in AllVersions /\ OneDigit(put[found]) /\ put[k] \in AllVersions /\ OneDigit(put[k])
        BY <1>1, <1>2
      <3>2. /\ CompareVersions(put[found], put[k]) = 1 => Rank(put[found]) > Rank(put[k])
            /\ CompareVersions(put[found], put[k]) = 0 => put[found] = put[k]
            /\ Rank(put[found]) \in Nat /\ Rank(put[k]) \in Nat
        BY <3>1, CompareFull
      <3>3. Rank(put[found]) > Rank(put[k]) \/ Rank(put[found]) = Rank(put[k])
        BY <2>2, <3>2
      <3>4. PICK x \in Nat : x = Rank(put[found])
        BY ONLY <3>2
      <3>5. PICK y \in Nat : y = Rank(put[k])
        BY ONLY <3>2
      <3>6. ~(x < y)
        BY ONLY <3>3, <3>4, <3>5
      <3>7. QED  BY ONLY <3>4, <3>5, <3>6, ZenonT(60)
    <2>4. Older(put[found], put[k]) <=> Rank(put[found]) < Rank(put[k])
      BY <1>1, <1>2, OlderIsLess
    <2>5. QED  BY <2>3, <2>4
  <1>5. QED  BY <1>3, <1>4 DEF found

\* A base version followed by a patch.
LEMMA WithPatch ==
  ASSUME NEW base, NEW m \in Nat, NEW n \in Nat, base = <<m, n>>, NEW c \in Nat
  PROVE  base \o <<c>> = <<m, n, c>>
  <1> DEFINE b == <<m, n>>  p == <<c>>  v == <<m, n, c>>
  <1>1. b \in Seq(Nat) /\ p \in Seq(Nat) /\ v \in Seq(Nat) /\ Len(b) = 2 /\ Len(p) = 1 /\ Len(v) = 3
        /\ b[1] = m /\ b[2] = n /\ p[1] = c /\ v[1] = m /\ v[2] = n /\ v[3] = c
    OBVIOUS
  <1> HIDE DEF b, p, v
  <1>2. /\ b \o p \in Seq(Nat) /\ Len(b \o p) = Len(b) + Len(p)
        /\ \A i \in 1..(Len(b) + Len(p)) : (b \o p)[i] = IF i <= Len(b) THEN b[i] ELSE p[i - Len(b)]
    BY <1>1, ConcatProperties
  <1>3. \A i \in 1..3 : i = 1 \/ i = 2 \/ i = 3
    OBVIOUS
  <1>4. \A i \in 1..3 : (b \o p)[i] = v[i]
    <2>1. (b \o p)[1] = v[1] /\ (b \o p)[2] = v[2]
      BY <1>1, <1>2
    <2>2. (b \o p)[3] = p[1]
      BY <1>1, <1>2
    <2>3. QED  BY <1>1, <1>3, <2>1, <2>2
  <1>5. b \o p = v
    <2>1. Len(b \o p) = 3 /\ Len(v) = 3 /\ b \o p \in Seq(Nat) /\ v \in Seq(Nat)
      BY <1>1, <1>2
    <2>2. \A i \in 1..Len(b \o p) : (b \o p)[i] = v[i]
      BY <2>1, <1>4
    <2>3. QED  BY ONLY <2>1, <2>2, SeqEqual
  <1>6. QED  BY <1>5 DEF b, p, v

\* The next version of the deployer.
LEMMA NewVersionIsNewer ==
  ASSUME VersionsInv, \A n \in DOMAIN put : OneDigit(put[n]), NEW base \in Bases, OneDigit(base)
  PROVE  /\ IsNewBaseVersionValid(base) <=> LatestVersion = Unversioned \/ ~Older(base, Base(LatestVersion))
         /\ IsNewBaseVersionValid(base) => Older(LatestVersion, GetNewPatchedVersion(base))
  <1> DEFINE last == LatestVersion
  <1>1. base # Unversioned /\ DOMAIN base = 1..2 /\ base[1] \in 0..9 /\ base[2] \in 0..9
        /\ base = <<base[1], base[2]>>
    BY BaseVersion DEF OneDigit
  <1>2. CASE last = Unversioned
    <2>1. IsNewBaseVersionValid(base) /\ GetNewPatchedVersion(base) = base \o <<0>>
      BY <1>2 DEF IsNewBaseVersionValid, GetNewPatchedVersion
    <2>2. base \o <<0>> = <<base[1], base[2], 0>>
      BY <1>1, WithPatch
    <2>3. <<base[1], base[2], 0>> # Unversioned
      BY DEF Unversioned
    <2>4. QED  BY <1>2, <2>1, <2>2, <2>3 DEF Older
  <1>3. CASE last # Unversioned
    <2>1. last \in FullVersions /\ OneDigit(last)
      <3>1. put # <<>> /\ put \in Seq(AllVersions) /\ last = put[Len(put)]
        BY <1>3 DEF LatestVersion, VersionsInv
      <3>2. Len(put) \in DOMAIN put /\ put[Len(put)] \in AllVersions
        BY <3>1
      <3>3. QED  BY <1>3, <3>1, <3>2 DEF AllVersions
    <2>2. last[1] \in 0..9 /\ last[2] \in 0..9 /\ last[3] \in 0..9 /\ DOMAIN last = 1..3
          /\ last = <<last[1], last[2], last[3]>>
      BY <2>1, FullVersion DEF OneDigit
    <2> HIDE DEF last
    <2>3. DOMAIN Base(last) = 1..2 /\ Base(last)[1] = last[1] /\ Base(last)[2] = last[2]
          /\ Base(last) = <<last[1], last[2]>> /\ Base(last) # Unversioned
      BY DEF Base, Unversioned
    <2>4. Base(last) = base <=> last[1] = base[1] /\ last[2] = base[2]
      BY <1>1, <2>3
    <2>5. Older(base, Base(last)) <=> (base[1] < last[1] \/ (base[1] = last[1] /\ base[2] < last[2]))
      <3>1. DOMAIN base \cap DOMAIN Base(last) = 1..2 /\ DOMAIN Base(last) \subseteq 1..3 /\ 2 \in {2, 3}
            /\ \A i \in 1..2 : base[i] \in Nat /\ Base(last)[i] \in Nat
        BY <1>1, <2>2, <2>3
      <3>2. Older(base, Base(last)) <=> (base[1] < Base(last)[1] \/ (base[1] = Base(last)[1] /\
               (base[2] < Base(last)[2] \/ (2 = 3 /\ base[2] = Base(last)[2] /\ base[3] < Base(last)[3]))))
        BY <1>1, <3>1, OlderParts
      <3>3. QED  BY <2>3, <3>2
    <2>6. AsNumber(Base(last)) = 100 * last[1] + 10 * last[2] /\ AsNumber(base) = 100 * base[1] + 10 * base[2]
      BY <1>1, <2>2, <2>3 DEF AsNumber
    <2>7. AsNumber(Base(last)) <= AsNumber(base) <=> ~Older(base, Base(last))
      <3> DEFINE a == last[1]  b == last[2]  c == base[1]  d == base[2]
                 x == AsNumber(Base(last))  y == AsNumber(base)
      <3>1. /\ a \in 0..9 /\ b \in 0..9 /\ c \in 0..9 /\ d \in 0..9
            /\ x = 100 * a + 10 * b /\ y = 100 * c + 10 * d
        BY <1>1, <2>2, <2>6
      <3>2. Older(base, Base(last)) <=> (c < a \/ (c = a /\ d < b))
        BY <2>5
      <3> HIDE DEF a, b, c, d, x, y
      <3>3. x <= y <=> ~(c < a \/ (c = a /\ d < b))
        <4>1. CASE a = c
          BY <3>1, <4>1
        <4>2. CASE a > c
          BY <3>1, <4>2
        <4>3. CASE a < c
          BY <3>1, <4>3
        <4>4. QED  BY <3>1, <4>1, <4>2, <4>3
      <3>4. QED  BY <3>2, <3>3 DEF x, y
    <2>8. IsNewBaseVersionValid(base) <=> ~Older(base, Base(last))
      BY <1>3, <2>7 DEF IsNewBaseVersionValid, last
    <2>9. ASSUME ~Older(base, Base(last))
           PROVE  Older(last, GetNewPatchedVersion(base))
      <3>1. CASE Base(last) = base
        <4> DEFINE p == <<base[1], base[2], last[3] + 1>>
        <4>1. GetNewPatchedVersion(base) = base \o <<last[3] + 1>>
          BY <1>3, <3>1 DEF GetNewPatchedVersion, last
        <4>2. base \o <<last[3] + 1>> = p
          BY <1>1, <2>2, WithPatch
        <4>3. DOMAIN p = 1..3 /\ p[1] = last[1] /\ p[2] = last[2] /\ p[3] = last[3] + 1
          BY <2>4, <3>1
        <4> HIDE DEF p
        <4>4. 3 \in DOMAIN last \cap DOMAIN p /\ last[3] < p[3]
          BY <2>2, <4>3
        <4>5. \A j \in 1..(3 - 1) : last[j] = p[j]
          <5>1. 1..(3 - 1) = {1, 2}
            OBVIOUS
          <5>2. QED  BY <4>3, <5>1
        <4>6. QED  BY <4>1, <4>2, <4>4, <4>5 DEF Older
      <3>2. CASE Base(last) # base
        <4> DEFINE p == <<base[1], base[2], 0>>
        <4>1. GetNewPatchedVersion(base) = base \o <<0>>
          BY <3>2 DEF GetNewPatchedVersion, last
        <4>2. base \o <<0>> = p
          BY <1>1, WithPatch
        <4>3. DOMAIN p = 1..3 /\ p[1] = base[1] /\ p[2] = base[2]
          OBVIOUS
        <4> HIDE DEF p
        <4>4. last[1] < base[1] \/ (last[1] = base[1] /\ last[2] < base[2])
          BY <1>1, <2>2, <2>4, <2>5, <2>9, <3>2
        <4>5. CASE last[1] < base[1]
          <5>1. 1 \in DOMAIN last \cap DOMAIN p /\ last[1] < p[1] /\ \A j \in 1..(1 - 1) : last[j] = p[j]
            BY <2>2, <4>3, <4>5
          <5>2. QED  BY <4>1, <4>2, <5>1 DEF Older
        <4>6. CASE last[1] = base[1] /\ last[2] < base[2]
          <5>1. 2 \in DOMAIN last \cap DOMAIN p /\ last[2] < p[2]
            BY <2>2, <4>3, <4>6
          <5>2. \A j \in 1..(2 - 1) : last[j] = p[j]
            BY <4>3, <4>6
          <5>3. QED  BY <4>1, <4>2, <5>1, <5>2 DEF Older
        <4>7. QED  BY <4>4, <4>5, <4>6
      <3>3. QED  BY <3>1, <3>2
    <2>10. QED  BY <1>3, <2>8, <2>9 DEF last
  <1>4. QED  BY <1>2, <1>3

LEMMA VersionsInvStep ==
  VersionsInv /\ [VersionsNext]_versionsVars => VersionsInv'
  <1> SUFFICES ASSUME VersionsInv, [VersionsNext]_versionsVars PROVE VersionsInv'
    OBVIOUS
  <1> USE DEF VersionsInv
  <1>1. CASE \E v \in TypedVersions : AddEntry(v)
    <2>1. PICK v \in TypedVersions : AddEntry(v)
      BY <1>1
    <2>2. v \in AllVersions
      <3> DEFINE A == 0..99  B == 0..98
      <3>1. v \in A \X A \X B /\ A \subseteq Nat /\ B \subseteq Nat
        BY VersionsAssumption
      <3> HIDE DEF A, B
      <3>2. v[1] \in A /\ v[2] \in A /\ v[3] \in B /\ v = <<v[1], v[2], v[3]>>
        BY <3>1
      <3>3. v[1] \in Nat /\ v[2] \in Nat /\ v[3] \in Nat
        BY <3>1, <3>2
      <3>4. <<v[1], v[2], v[3]>> \in FullVersions
        BY <3>3 DEF FullVersions
      <3>5. QED  BY <3>2, <3>4 DEF AllVersions
    <2>3. QED  BY <2>1, <2>2 DEF AddEntry
  <1>2. ASSUME NEW e \in Editors, FetchIkv(e) PROVE VersionsInv'
    <2>1. LatestVersion \in AllVersions
      BY DEF LatestVersion, AllVersions
    <2>2. QED  BY <1>2, <2>1 DEF FetchIkv
  <1>3. ASSUME NEW e \in Editors, SaveChanges(e) PROVE VersionsInv'
    <2> DEFINE next == <<shown[e][1], shown[e][2], shown[e][3] + 1>>
    <2>1. shown[e] \in FullVersions
      BY <1>3 DEF SaveChanges, AllVersions
    <2>2. next \in AllVersions
      BY <2>1, FullVersion DEF AllVersions, FullVersions
    <2>3. put' = Append(put, next) /\ shown' = [shown EXCEPT ![e] = put'[Len(put')]]
      BY <1>3 DEF SaveChanges
    <2> HIDE DEF next
    <2>4. put' \in Seq(AllVersions) /\ put'[Len(put')] = next
      BY <2>2, <2>3
    <2>5. QED  BY <2>2, <2>3, <2>4
  <1>4. CASE Deploy
    BY <1>4 DEF Deploy, AllVersions
  <1>5. CASE UNCHANGED versionsVars
    BY <1>5 DEF versionsVars
  <1>6. QED  BY <1>1, <1>2, <1>3, <1>4, <1>5 DEF VersionsNext

\* The look-ups of a version and the deployer's next one go by the order of the numbers, while
\* every part has one digit: for every history of puts by any number of pages and deployments.
THEOREM VersionsGoByTheirNumbers ==
  VersionsSpec => []VersionsAreOrdered
  <1>1. VersionsInit => VersionsInv
    BY DEF VersionsInit, VersionsInv, AllVersions
  <1>2. VersionsInv => VersionsAreOrdered
    <2> SUFFICES ASSUME VersionsInv, \A n \in DOMAIN put : OneDigit(put[n])
                 PROVE  VersionsAreOrdered
      BY DEF VersionsAreOrdered
    <2>1. put \in Seq(AllVersions)
      BY DEF VersionsInv
    <2>2. \A n \in {k \in DOMAIN put : put[k] # Unversioned} :
              LET found == GetLastVersionOrBefore(put[n])
                  exact == GetExactVersion(put[n])
              IN  /\ put[found] = put[n]
                  /\ \A k \in (found + 1)..Len(put) : put[k] # put[n]
                  /\ exact <= n /\ (exact < n => put[exact] = put[n])
      BY <2>1, LookUpOfAVersion
    <2>3. \A base \in {b \in Bases : OneDigit(b)} :
              LET found == GetLastVersionOrBefore(base)
              IN  found # 0 => /\ ~Older(base, put[found])
                               /\ \A k \in DOMAIN put :
                                     ~Older(base, put[k]) => ~Older(put[found], put[k])
      BY <2>1, LookUpOfABase
    <2>4. \A base \in {b \in Bases : OneDigit(b)} :
              /\ IsNewBaseVersionValid(base) <=> LatestVersion = Unversioned \/ ~Older(base, Base(LatestVersion))
              /\ IsNewBaseVersionValid(base) => Older(LatestVersion, GetNewPatchedVersion(base))
      BY NewVersionIsNewer
    <2>5. QED  BY <2>2, <2>3, <2>4 DEF VersionsAreOrdered
  <1>3. QED  BY <1>1, <1>2, VersionsInvStep, PTL DEF VersionsSpec

(***************************************************************************)
(* Lists that are longer than one call returns.                            *)
(***************************************************************************)

\* The first n entries of a list that only grew.
UpTo(n) == [i \in 1..n |-> i]

\* The entries of an array are in the order they were added in.
InOrder(s) == \A i, j \in 1..Len(s) : i < j => s[i] < s[j]

ArrayInv ==
  /\ added \in Nat /\ array \in Seq(Nat) /\ InOrder(array)
  /\ \A i \in 1..Len(array) : array[i] <= added
  /\ reader = "table" => array = UpTo(added)

\* While contract_list runs and nothing was removed under it, it has the first entries of the
\* array, and the array has all it had when the run began.
ListingInv ==
  /\ listing \in [at : {"none", "running", "answered"}, results : Seq(Nat), before : SUBSET Nat,
                  broken : BOOLEAN]
  /\ listing.at = "none" => listing.results = <<>> /\ ~listing.broken
  /\ (listing.at = "running" /\ ~listing.broken) =>
        /\ \A i \in 1..Len(listing.results) : i \in 1..Len(array) /\ listing.results[i] = array[i]
        /\ \A x \in listing.before : \E i \in 1..Len(array) : array[i] = x
  /\ (listing.at = "answered" /\ ~listing.broken) =>
        /\ InOrder(listing.results)
        /\ \A x \in listing.before : \E i \in 1..Len(listing.results) : listing.results[i] = x

FetchType == [at : {"none", "length", "page", "done", "threw"}, cursor : Nat, rows : Seq(Nat),
              length : Nat]

FetchOK(f) ==
  /\ fetches[f].rows = UpTo(fetches[f].cursor) /\ fetches[f].cursor <= added
  /\ fetches[f].at # "none" => reader = "table" /\ fetches[1].at # "none"
  /\ fetches[f].at = "page" => table.before \subseteq 1..fetches[f].length

\* The rows of the table and of every fetch are the first entries up to the cursor.  While no
\* two fetches overlapped, the one under way began with the rows of the table and while there
\* were more; and when there are no more, the rows are all there were at the mount.
TableInv ==
  /\ table \in [rows : Seq(Nat), cursor : Nat, hasMore : BOOLEAN, triggered : BOOLEAN,
                before : SUBSET Nat, overlapped : BOOLEAN]
  /\ fetches \in [Fetches -> FetchType]
  /\ table.rows = UpTo(table.cursor) /\ table.cursor <= added
  /\ table.before \subseteq 1..added
  /\ \A f \in Fetches : FetchOK(f)
  /\ ~table.overlapped =>
        /\ \A f, g \in InFlight : f = g
        /\ \A f \in InFlight : fetches[f].cursor = table.cursor /\ table.hasMore
        /\ ~table.hasMore => table.before \subseteq 1..table.cursor
  /\ (\A f \in Fetches : fetches[f].at = "none") => table.hasMore /\ ~table.overlapped /\ table.cursor = 0

\* The blocks that were given out are the ones above the cursor.
PagingInv ==
  /\ head \in Nat
  /\ paging \in [cursor : Nat \cup {Latest, NoCursor}, blocks : SUBSET Nat, head : Nat, blind : BOOLEAN]
  /\ paging.cursor = Latest => paging.blocks = {} /\ paging.head = 0
  /\ paging.cursor \in Nat => /\ paging.cursor > 0 /\ paging.cursor < paging.head
                              /\ paging.blocks = (paging.cursor + 1)..paging.head
  /\ (paging.cursor = NoCursor /\ ~paging.blind) => paging.blocks = 0..paging.head

ReaderOK == reader \in {"template", "table", "client"} /\ listFaults \in Nat

ListsInv == ArrayInv /\ ListingInv /\ TableInv /\ PagingInv /\ ReaderOK

\* A row less in front of a place moves what is behind it up by one.
LEMMA RemovedEntry ==
  ASSUME NEW s \in Seq(Nat), NEW i \in 1..Len(s)
  PROVE  /\ RemoveAt(s, i) \in Seq(Nat)
         /\ Len(RemoveAt(s, i)) = Len(s) - 1
         /\ \A j \in 1..(Len(s) - 1) : RemoveAt(s, i)[j] = IF j < i THEN s[j] ELSE s[j + 1]
  <1> DEFINE a == SubSeq(s, 1, i - 1)
             b == SubSeq(s, i + 1, Len(s))
  <1>1. a \in Seq(Nat) /\ Len(a) = i - 1 /\ \A j \in 1..(i - 1) : a[j] = s[j]
    BY SubSeqProperties
  <1>2. b \in Seq(Nat) /\ Len(b) = Len(s) - i /\ \A j \in 1..(Len(s) - i) : b[j] = s[i + j]
    BY SubSeqProperties
  <1>3. RemoveAt(s, i) = a \o b
    BY DEF RemoveAt
  <1> HIDE DEF a, b
  <1>4. /\ a \o b \in Seq(Nat) /\ Len(a \o b) = Len(a) + Len(b)
        /\ \A j \in 1..(Len(a) + Len(b)) : (a \o b)[j] = IF j <= Len(a) THEN a[j] ELSE b[j - Len(a)]
    <2>1. a \in Seq(Nat) /\ b \in Seq(Nat)
      BY <1>1, <1>2
    <2>2. QED  BY ONLY <2>1, ConcatProperties, Zenon
  <1>a. Len(s) \in Nat /\ i \in Nat /\ Len(a) + Len(b) = Len(s) - 1
    BY <1>1, <1>2
  <1>5. \A j \in 1..(Len(s) - 1) : (a \o b)[j] = IF j < i THEN s[j] ELSE s[j + 1]
    <2> TAKE j \in 1..(Len(s) - 1)
    <2>0. j \in 1..(Len(a) + Len(b))
      BY <1>a
    <2>1. (a \o b)[j] = IF j <= Len(a) THEN a[j] ELSE b[j - Len(a)]
      BY ONLY <1>4, <2>0
    <2>2. CASE j < i
      BY <2>1, <2>2, <1>1
    <2>3. CASE ~(j < i)
      <3>1. (a \o b)[j] = b[j - i + 1]
        BY <2>1, <2>3, <1>1
      <3>2. b[j - i + 1] = s[i + (j - i + 1)]
        BY <2>3, <1>2
      <3>3. i + (j - i + 1) = j + 1
        OBVIOUS
      <3>4. QED  BY <3>1, <3>2, <3>3, <2>3
    <2>4. QED  BY <2>2, <2>3
  <1>6. QED  BY <1>3, <1>4, <1>5, <1>a

\* A page continues the rows it was asked for.
LEMMA PageContinues ==
  ASSUME NEW n \in Nat, NEW c \in Nat, c <= n, NEW m \in Nat, c <= m, m <= n
  PROVE  /\ UpTo(c) \o SubSeq(UpTo(n), c + 1, m) = UpTo(m)
         /\ Len(SubSeq(UpTo(n), c + 1, m)) = m - c
  <1> DEFINE p == SubSeq(UpTo(n), c + 1, m)
  <1>1. UpTo(n) \in Seq(Nat) /\ Len(UpTo(n)) = n /\ UpTo(c) \in Seq(Nat) /\ Len(UpTo(c)) = c
    BY DEF UpTo
  <1>2. p \in Seq(Nat) /\ Len(p) = m - c /\ \A j \in 1..(m - c) : p[j] = UpTo(n)[c + j]
    BY <1>1, SubSeqProperties
  <1>3. \A j \in 1..(m - c) : p[j] = c + j
    BY <1>2 DEF UpTo
  <1> HIDE DEF p
  <1>4. /\ UpTo(c) \o p \in Seq(Nat) /\ Len(UpTo(c) \o p) = Len(UpTo(c)) + Len(p)
        /\ \A j \in 1..(Len(UpTo(c)) + Len(p)) :
              (UpTo(c) \o p)[j] = IF j <= Len(UpTo(c)) THEN UpTo(c)[j] ELSE p[j - Len(UpTo(c))]
    <2>1. UpTo(c) \in Seq(Nat) /\ p \in Seq(Nat)
      BY <1>1, <1>2
    <2>2. QED  BY ONLY <2>1, ConcatProperties, Zenon
  <1>a. Len(UpTo(c)) + Len(p) = m
    BY <1>1, <1>2
  <1>5. \A j \in 1..m : (UpTo(c) \o p)[j] = j
    <2> TAKE j \in 1..m
    <2>1. (UpTo(c) \o p)[j] = IF j <= c THEN UpTo(c)[j] ELSE p[j - c]
      BY <1>1, <1>4, <1>a
    <2>2. CASE j <= c
      BY <2>1, <2>2 DEF UpTo
    <2>3. CASE ~(j <= c)
      BY <2>1, <2>3, <1>3
    <2>4. QED  BY <2>2, <2>3
  <1>6. UpTo(m) \in Seq(Nat) /\ Len(UpTo(m)) = m /\ \A j \in 1..m : UpTo(m)[j] = j
    BY DEF UpTo
  <1>7. UpTo(c) \o p = UpTo(m)
    BY <1>4, <1>a, <1>5, <1>6, SeqEqual
  <1>8. QED  BY <1>7, <1>2 DEF p

\* A page ends at its size or with the array.
LEMMA FromHere ==
  ASSUME NEW c \in Nat, NEW n \in Nat
  PROVE  Min({c, n}) = IF c <= n THEN c ELSE n
  BY DEF Min

LEMMA ListsInitially ==
  ASSUME ListsInit
  PROVE  ListsInv
  <1> USE DEF ListsInit
  <1>1. PICK n \in 0..MaxEntries : added = n /\ array = UpTo(n)
    BY DEF UpTo
  <1>2. ArrayInv
    <2>1. array \in Seq(Nat) /\ Len(array) = n /\ \A i \in 1..n : array[i] = i
      BY <1>1 DEF UpTo
    <2>2. QED  BY <1>1, <2>1 DEF ArrayInv, InOrder
  <1>3. ListingInv
    BY DEF ListingInv
  <1>4. TableInv
    <2>1. UpTo(0) = <<>>
      BY DEF UpTo
    <2>2. QED  BY <1>1, <2>1 DEF TableInv, FetchOK, FetchType, NoFetch, InFlight
  <1>5. PagingInv
    BY ChainListsAssumption DEF PagingInv
  <1>6. QED  BY <1>2, <1>3, <1>4, <1>5 DEF ListsInv, ReaderOK

LEMMA AddToArrayKeeps ==
  ASSUME ListsInv, AddToArray
  PROVE  ListsInv'
  <1> USE DEF ListsInv, AddToArray
  <1>1. /\ array' \in Seq(Nat) /\ Len(array') = Len(array) + 1
        /\ \A i \in 1..Len(array) : array'[i] = array[i]
        /\ array'[Len(array) + 1] = added + 1
    BY DEF ArrayInv
  <1>2. ArrayInv'
    <2>1. added \in Nat /\ added' \in Nat /\ added' = added + 1
      BY DEF ArrayInv
    <2>2. \A i \in 1..Len(array') : array'[i] <= added'
      BY <1>1, <2>1 DEF ArrayInv
    <2>3. InOrder(array')
      <3>1. Len(array) \in Nat
        BY DEF ArrayInv
      <3>2. SUFFICES ASSUME NEW i \in 1..Len(array'), NEW j \in 1..Len(array'), i < j
                     PROVE  array'[i] < array'[j]
        BY DEF InOrder
      <3>3. i \in 1..Len(array) /\ array'[i] = array[i] /\ array[i] <= added /\ array[i] \in Nat
        BY <1>1, <3>1, <3>2 DEF ArrayInv
      <3>4. CASE j \in 1..Len(array)
        BY <1>1, <3>2, <3>3, <3>4 DEF ArrayInv, InOrder
      <3>5. CASE j = Len(array) + 1
        BY <1>1, <2>1, <3>3, <3>5
      <3>6. QED  BY <1>1, <3>1, <3>4, <3>5
    <2>4. ASSUME reader = "table" PROVE array' = UpTo(added')
      <3>1. array = UpTo(added) /\ Len(array) = added /\ \A i \in 1..added : array[i] = i
        BY <2>4 DEF ArrayInv, UpTo
      <3>2. UpTo(added') \in Seq(Nat) /\ Len(UpTo(added')) = added' /\ \A i \in 1..added' : UpTo(added')[i] = i
        BY <2>1 DEF UpTo
      <3>3. \A i \in 1..Len(array') : array'[i] = UpTo(added')[i]
        BY <1>1, <2>1, <3>1, <3>2
      <3>4. QED  BY <1>1, <2>1, <3>1, <3>2, <3>3, SeqEqual
    <2>5. QED  BY <1>1, <2>1, <2>2, <2>3, <2>4 DEF ArrayInv
  <1>3. ListingInv'
    BY <1>1 DEF ListingInv, ArrayInv
  <1>4. TableInv'
    <2>1. UNCHANGED <<reader, table, fetches, InFlight>> /\ added' = added + 1 /\ added \in Nat
      BY DEF InFlight, ArrayInv
    <2>2. 1..added \subseteq 1..added' /\ \A n \in Nat : n <= added => n <= added'
      BY <2>1
    <2>3. QED  BY <2>1, <2>2 DEF TableInv, FetchOK, FetchType
  <1>5. PagingInv' /\ ReaderOK'
    BY DEF PagingInv, ReaderOK
  <1>6. QED  BY <1>2, <1>3, <1>4, <1>5

LEMMA RemoveFromArrayKeeps ==
  ASSUME ListsInv, NEW i \in 1..MaxEntries, RemoveFromArray(i)
  PROVE  ListsInv'
  <1> USE DEF ListsInv, RemoveFromArray
  <1>1. i \in 1..Len(array) /\ array \in Seq(Nat)
    BY DEF ArrayInv
  <1>2. /\ array' \in Seq(Nat) /\ Len(array') = Len(array) - 1
        /\ \A j \in 1..(Len(array) - 1) : array'[j] = IF j < i THEN array[j] ELSE array[j + 1]
    BY <1>1, RemovedEntry
  <1>3. ArrayInv'
    <2> DEFINE at(j) == IF j < i THEN j ELSE j + 1
    <2>a. Len(array) \in Nat /\ i \in Nat
      BY <1>1
    <2>b. \A j \in 1..Len(array') : at(j) \in 1..Len(array) /\ array'[j] = array[at(j)]
      <3> TAKE j \in 1..Len(array')
      <3>1. j \in 1..(Len(array) - 1)
        BY <1>2
      <3>2. j \in Nat /\ j \in 1..Len(array) /\ j + 1 \in 1..Len(array)
        BY <2>a, <3>1
      <3>3. array'[j] = IF j < i THEN array[j] ELSE array[j + 1]
        BY <1>2, <3>1
      <3>4. QED  BY <3>2, <3>3
    <2>c. \A j, k \in 1..Len(array') : j < k => at(j) < at(k)
      BY ONLY <2>a
    <2> HIDE DEF at
    <2>1. InOrder(array')
      BY <2>b, <2>c DEF ArrayInv, InOrder
    <2>2. \A j \in 1..Len(array') : array'[j] <= added
      BY <2>b DEF ArrayInv
    <2>3. QED  BY <1>2, <2>1, <2>2 DEF ArrayInv
  <1>4. ListingInv'
    BY DEF ListingInv
  <1>5. TableInv'
    BY DEF TableInv, FetchOK, InFlight
  <1>6. PagingInv' /\ ReaderOK'
    BY DEF PagingInv, ReaderOK
  <1>7. QED  BY <1>3, <1>4, <1>5, <1>6

\* A step of the template.
LEMMA ListingKeeps ==
  ASSUME ListsInv, ContractList \/ CallNextIndex \/ CallFails
  PROVE  ListsInv'
  <1> USE DEF ListsInv
  <1>1. UNCHANGED <<reader, arrayVars, head, table, fetches, paging>>
    BY DEF ContractList, CallNextIndex, CallFails
  <1>2. ArrayInv' /\ TableInv' /\ PagingInv'
    BY <1>1 DEF ArrayInv, TableInv, FetchOK, InFlight, PagingInv, arrayVars
  <1>3. ReaderOK'
    BY DEF ReaderOK, ContractList, CallNextIndex, CallFails, ListFault
  <1>4. ListingInv'
    <2>1. CASE ContractList
      <3>1. listing' = [listing EXCEPT !.at = "running", !.before = ToSet(array)]
        BY <2>1 DEF ContractList
      <3>2. ToSet(array) \subseteq Nat /\ \A x \in ToSet(array) : \E k \in 1..Len(array) : array[k] = x
        BY DEF ToSet, ArrayInv
      <3>3. listing.results = <<>> /\ ~listing.broken /\ listing'.results = <<>> /\ listing'.at = "running"
            /\ listing'.before = ToSet(array) /\ listing'.broken = listing.broken
            /\ listing' \in [at : {"none", "running", "answered"}, results : Seq(Nat), before : SUBSET Nat,
                              broken : BOOLEAN]
        <4>1. listing.at = "none" /\ listing \in [at : {"none", "running", "answered"}, results : Seq(Nat),
                                                  before : SUBSET Nat, broken : BOOLEAN]
          BY <2>1 DEF ContractList, ListingInv
        <4>2. listing.results = <<>> /\ ~listing.broken
          BY <4>1 DEF ListingInv
        <4>3. QED  BY <3>1, <3>2, <4>1, <4>2
      <3>4. Len(<<>>) = 0 /\ array' = array
        BY <1>1 DEF arrayVars
      <3>5. QED  BY <3>2, <3>3, <3>4 DEF ListingInv
    <2>2. CASE CallNextIndex
      <3> DEFINE n == Len(listing.results) + 1
      <3>1. listing.results \in Seq(Nat) /\ array \in Seq(Nat)
        BY DEF ListingInv, ArrayInv
      <3>2. CASE n \in 1..Len(array)
        <4>1. listing' = [listing EXCEPT !.results = Append(listing.results, array[n])]
          <5>1. n \in DOMAIN array
            BY <3>1, <3>2
          <5>2. QED  BY <2>2, <5>1 DEF CallNextIndex
        <4>2. Append(listing.results, array[n]) \in Seq(Nat)
          BY <3>1, <3>2
        <4>3. \A k \in 1..(n - 1) : Append(listing.results, array[n])[k] = listing.results[k]
          BY <3>1
        <4>4. Len(Append(listing.results, array[n])) = n /\ Append(listing.results, array[n])[n] = array[n]
          BY <3>1
        <4>5. listing.at = "running" /\ listing'.at = "running" /\ listing'.broken = listing.broken
              /\ listing'.before = listing.before /\ listing'.results = Append(listing.results, array[n])
              /\ listing' \in [at : {"none", "running", "answered"}, results : Seq(Nat), before : SUBSET Nat,
                                broken : BOOLEAN]
          <5>1. listing.at = "running" /\ listing \in [at : {"none", "running", "answered"}, results : Seq(Nat),
                                                         before : SUBSET Nat, broken : BOOLEAN]
            BY <2>2 DEF CallNextIndex, ListingInv
          <5> HIDE DEF n
          <5>2. QED  BY <4>1, <4>2, <5>1
        <4>6. n - 1 = Len(listing.results) /\ n \in Nat
          BY <3>1
        <4>7. QED  BY <1>1, <3>2, <4>3, <4>4, <4>5, <4>6 DEF ListingInv, arrayVars
      <3>3. CASE n \notin 1..Len(array)
        <4>1. listing' = [listing EXCEPT !.at = "answered"] /\ listing.at = "running"
          BY <2>2, <3>1, <3>3 DEF CallNextIndex
        <4>2. Len(listing.results) \in Nat /\ Len(array) \in Nat /\ Len(array) <= Len(listing.results)
          BY <3>1, <3>3
        <4>3. ASSUME ~listing.broken
              PROVE  /\ InOrder(listing.results)
                     /\ \A x \in listing.before : \E k \in 1..Len(listing.results) : listing.results[k] = x
          <5>1. \A k \in 1..Len(listing.results) : k \in 1..Len(array) /\ listing.results[k] = array[k]
            BY <4>1, <4>3 DEF ListingInv
          <5>2. \A x \in listing.before : \E k \in 1..Len(array) : array[k] = x
            BY <4>1, <4>3 DEF ListingInv
          <5>3. InOrder(listing.results)
            BY <5>1 DEF ArrayInv, InOrder
          <5>4. \A x \in listing.before : \E k \in 1..Len(listing.results) : listing.results[k] = x
            BY <4>2, <5>1, <5>2
          <5>5. QED  BY <5>3, <5>4
        <4>4. QED  BY <4>1, <4>3 DEF ListingInv
      <3>4. QED  BY <3>2, <3>3
    <2>3. CASE CallFails
      BY <2>3 DEF CallFails, ListingInv
    <2>4. QED  BY <2>1, <2>2, <2>3
  <1>5. QED  BY <1>2, <1>3, <1>4

\* What does not depend on the table stays as it is when only the table and its fetches change.
LEMMA OnlyTheTable ==
  ASSUME ListsInv, UNCHANGED <<reader, arrayVars, head, listing, paging>>, listFaults' \in Nat, TableInv'
  PROVE  ListsInv'
  BY DEF ListsInv, ArrayInv, ListingInv, PagingInv, ReaderOK, arrayVars

\* Where there is a fetch there is the one of the mount.
LEMMA FirstFetch ==
  ASSUME NEW f \in Fetches
  PROVE  1 \in Fetches
  BY ChainListsAssumption DEF Fetches

LEMMA MountKeeps ==
  ASSUME ListsInv, Mount
  PROVE  ListsInv'
  <1> USE DEF ListsInv, Mount
  <1>1. 1 \in Fetches /\ fetches[1].at = "none" /\ reader = "table"
    BY ChainListsAssumption DEF Fetches, NextFetch
  <1>2. \A f \in Fetches : fetches[f].at = "none"
    BY <1>1 DEF TableInv, FetchOK
  <1>3. table.hasMore /\ ~table.overlapped /\ table.cursor = 0
    BY <1>2 DEF TableInv
  <1>4. added \in Nat /\ ToSet(array) = 1..added
    BY <1>1 DEF ArrayInv, UpTo, ToSet
  <1> DEFINE new == [NoFetch EXCEPT !.at = "length", !.cursor = table.cursor, !.rows = table.rows]
  <1>5. fetches' = [fetches EXCEPT ![1] = new] /\ table' = [table EXCEPT !.before = 1..added]
    <2>1. fetches' = [fetches EXCEPT ![1] = new]
      BY ONLY Mount DEF Mount, BeginFetch
    <2>2. table' = [table EXCEPT !.before = 1..added]
      BY ONLY Mount, <1>4 DEF Mount
    <2>3. QED  BY <2>1, <2>2
  <1>6. /\ table' \in [rows : Seq(Nat), cursor : Nat, hasMore : BOOLEAN, triggered : BOOLEAN,
                       before : SUBSET Nat, overlapped : BOOLEAN]
        /\ table'.rows = table.rows /\ table'.cursor = table.cursor /\ table'.hasMore = table.hasMore
        /\ table'.overlapped = table.overlapped /\ table'.before = 1..added
    <2>1. table \in [rows : Seq(Nat), cursor : Nat, hasMore : BOOLEAN, triggered : BOOLEAN,
                     before : SUBSET Nat, overlapped : BOOLEAN]
      BY DEF TableInv
    <2> DEFINE all == 1..added
    <2>2. all \in SUBSET Nat /\ table' = [table EXCEPT !.before = all]
      BY <1>4, <1>5
    <2> HIDE DEF all
    <2>3. QED  BY ONLY <2>1, <2>2 DEF all
  <1>7. table.rows = UpTo(0) /\ table.rows \in Seq(Nat)
    BY <1>3 DEF TableInv
  <1>a. new \in FetchType /\ new.at = "length" /\ new.cursor = 0 /\ new.rows = UpTo(0)
    <2>1. table.cursor \in Nat /\ table.rows \in Seq(Nat)
      BY <1>3, <1>7
    <2>2. new \in FetchType /\ new.at = "length" /\ new.cursor = table.cursor /\ new.rows = table.rows
      BY <2>1 DEF NoFetch, FetchType
    <2>3. QED  BY <1>3, <1>7, <2>2
  <1> HIDE DEF new
  <1>8. \A f \in Fetches : fetches'[f] = IF f = 1 THEN new ELSE fetches[f]
    BY <1>5 DEF TableInv
  <1>9. InFlight' = {1}
    BY <1>1, <1>2, <1>8, <1>a DEF InFlight
  <1>10. fetches' \in [Fetches -> FetchType]
    BY <1>5, <1>a DEF TableInv
  <1>11. UNCHANGED <<reader, added>>
    BY DEF arrayVars
  <1>12. TableInv'
    <2>1. \A f \in Fetches : FetchOK(f)'
      <3> TAKE f \in Fetches
      <3>1. fetches'[1].at = "length"
        BY <1>1, <1>8, <1>a
      <3>2. CASE f = 1
        BY <1>1, <1>4, <1>a, <1>8, <1>11, <3>2 DEF FetchOK
      <3>3. CASE f # 1
        BY <1>1, <1>2, <1>8, <1>11, <3>1, <3>3 DEF FetchOK, TableInv
      <3>4. QED  BY <3>2, <3>3
    <2>2. fetches'[1].cursor = 0 /\ fetches'[1].at = "length"
      BY <1>1, <1>8, <1>a
    <2>3. table'.rows = UpTo(table'.cursor) /\ table'.cursor <= added' /\ table'.before \subseteq 1..added'
      BY <1>3, <1>4, <1>6, <1>7, <1>11
    <2>4. QED  BY <1>1, <1>3, <1>6, <1>9, <1>10, <2>1, <2>2, <2>3 DEF TableInv
  <1>13. QED  BY <1>12, OnlyTheTable DEF ReaderOK

LEMMA ScrollKeeps ==
  ASSUME ListsInv, NEW f \in Fetches, Scroll(f)
  PROVE  ListsInv'
  <1> USE DEF ListsInv, Scroll
  <1>1. 1 \in Fetches /\ fetches[1].at # "none" /\ f # 1 /\ fetches[f].at = "none" /\ table.hasMore
    <2>1. 1 \in Fetches /\ f \in Nat /\ f > 1
      BY ChainListsAssumption DEF Fetches
    <2>2. fetches[f].at = "none" /\ \A g \in 1..(f - 1) : fetches[g].at # "none"
      BY DEF NextFetch
    <2>3. QED  BY <2>1, <2>2
  <1>2. reader = "table"
    BY <1>1 DEF TableInv, FetchOK
  <1> DEFINE new == [NoFetch EXCEPT !.at = "length", !.cursor = table.cursor, !.rows = table.rows]
  <1>3. fetches' = [fetches EXCEPT ![f] = new]
    BY DEF BeginFetch
  <1>4. table.cursor \in Nat /\ table.rows = UpTo(table.cursor) /\ table.cursor <= added
        /\ table.rows \in Seq(Nat)
    BY DEF TableInv
  <1>a. new \in FetchType /\ new.at = "length" /\ new.cursor = table.cursor /\ new.rows = table.rows
    BY <1>4 DEF NoFetch, FetchType
  <1> HIDE DEF new
  <1>5. /\ table' \in [rows : Seq(Nat), cursor : Nat, hasMore : BOOLEAN, triggered : BOOLEAN,
                       before : SUBSET Nat, overlapped : BOOLEAN]
        /\ table'.rows = table.rows /\ table'.cursor = table.cursor /\ table'.hasMore = table.hasMore
        /\ table'.before = table.before
        /\ ~table'.overlapped => ~table.overlapped /\ InFlight = {}
    BY DEF TableInv
  <1>6. \A g \in Fetches : fetches'[g] = IF g = f THEN new ELSE fetches[g]
    BY <1>3 DEF TableInv
  <1>7. InFlight' = InFlight \cup {f}
    BY <1>6, <1>a DEF InFlight
  <1>8. fetches' \in [Fetches -> FetchType]
    BY <1>3, <1>a DEF TableInv
  <1>9. UNCHANGED <<reader, added>>
    BY DEF arrayVars
  <1>10. TableInv'
    <2>1. \A g \in Fetches : FetchOK(g)'
      <3> TAKE g \in Fetches
      <3>1. fetches'[1].at # "none"
        BY <1>1, <1>6, <1>a
      <3>2. CASE g = f
        BY <1>2, <1>4, <1>6, <1>9, <1>a, <3>1, <3>2 DEF FetchOK
      <3>3. CASE g # f
        BY <1>5, <1>6, <1>9, <3>1, <3>3 DEF FetchOK, TableInv
      <3>4. QED  BY <3>2, <3>3
    <2>2. table.before \subseteq 1..added /\ fetches'[f].at = "length" /\ fetches'[f].cursor = table.cursor
      BY <1>6, <1>a DEF TableInv
    <2>3. ASSUME ~table'.overlapped
          PROVE  /\ \A g, h \in InFlight' : g = h
                 /\ \A g \in InFlight' : fetches'[g].cursor = table'.cursor /\ table'.hasMore
                 /\ ~table'.hasMore => table'.before \subseteq 1..table'.cursor
      BY <1>1, <1>5, <1>7, <2>2, <2>3
    <2>4. ~ \A g \in Fetches : fetches'[g].at = "none"
      BY <2>2
    <2>5. QED  BY <1>4, <1>5, <1>8, <1>9, <2>1, <2>2, <2>3, <2>4 DEF TableInv
  <1>11. QED  BY <1>10, OnlyTheTable DEF ReaderOK

LEMMA GetLengthKeeps ==
  ASSUME ListsInv, NEW f \in Fetches, GetLength(f)
  PROVE  ListsInv'
  <1> USE DEF ListsInv, GetLength
  <1>1. reader = "table" /\ fetches[f].at = "length"
    BY DEF TableInv, FetchOK
  <1>2. added \in Nat /\ Len(array) = added
    BY <1>1 DEF ArrayInv, UpTo
  <1>3. fetches' = [fetches EXCEPT ![f] = [@ EXCEPT !.at = "page", !.length = added]]
    <2>1. fetches' = [fetches EXCEPT ![f].at = "page", ![f].length = added]
      BY <1>2
    <2>2. fetches \in [Fetches -> FetchType]
      BY DEF TableInv
    <2>3. QED  BY <2>1, <2>2
  <1>4. fetches \in [Fetches -> FetchType] /\ fetches[f] \in FetchType
    BY DEF TableInv
  <1> DEFINE new == [fetches[f] EXCEPT !.at = "page", !.length = added]
  <1>5. new \in FetchType /\ new.at = "page" /\ new.length = added /\ new.cursor = fetches[f].cursor
        /\ new.rows = fetches[f].rows
    BY <1>2, <1>4 DEF FetchType
  <1>a. fetches' = [fetches EXCEPT ![f] = new]
    BY <1>3
  <1> HIDE DEF new
  <1>b. fetches' \in [Fetches -> FetchType]
    BY <1>4, <1>5, <1>a
  <1>6. /\ \A g \in Fetches : g # f => fetches'[g] = fetches[g]
        /\ fetches'[f].at = "page" /\ fetches'[f].length = added
        /\ fetches'[f].cursor = fetches[f].cursor /\ fetches'[f].rows = fetches[f].rows
    BY <1>4, <1>5, <1>a
  <1>7. InFlight' = InFlight
    BY <1>1, <1>6 DEF InFlight
  <1>8. UNCHANGED <<reader, added, table>>
    BY DEF arrayVars
  <1>9. TableInv'
    <2>1. \A g \in Fetches : FetchOK(g)'
      <3> TAKE g \in Fetches
      <3>1. fetches[1].at # "none" => fetches'[1].at # "none"
        BY <1>6, FirstFetch
      <3>2. CASE g = f
        BY <1>1, <1>2, <1>6, <1>8, <3>1, <3>2 DEF FetchOK, TableInv
      <3>3. CASE g # f
        BY <1>6, <1>8, <3>1, <3>3 DEF FetchOK, TableInv
      <3>4. QED  BY <3>2, <3>3
    <2>2. \A g \in Fetches : fetches'[g].cursor = fetches[g].cursor
      BY <1>6
    <2>3. InFlight \subseteq Fetches /\ ~ \A g \in Fetches : fetches'[g].at = "none"
      BY <1>6 DEF InFlight
    <2>4. QED  BY <1>b, <1>7, <1>8, <2>1, <2>2, <2>3 DEF TableInv
  <1>10. QED  BY <1>9, OnlyTheTable DEF ReaderOK

LEMMA GetPageKeeps ==
  ASSUME ListsInv, NEW f \in Fetches, GetPage(f)
  PROVE  ListsInv'
  <1> USE DEF ListsInv
  <1> DEFINE c == fetches[f].cursor
             m == IF c + TablePage <= added THEN c + TablePage ELSE added
             page == SubSeq(array, c + 1, Min({c + TablePage, Len(array)}))
             rows == fetches[f].rows \o page
  <1>1. reader = "table" /\ fetches[f].at = "page"
    BY DEF TableInv, FetchOK, GetPage
  <1>2. added \in Nat /\ Len(array) = added /\ array = UpTo(added)
    BY <1>1 DEF ArrayInv, UpTo
  <1>3. fetches[f] \in FetchType /\ c \in Nat /\ c <= added /\ fetches[f].rows = UpTo(c)
        /\ fetches[f].length \in Nat
    BY DEF TableInv, FetchOK, FetchType
  <1>4. m \in Nat /\ c <= m /\ m <= added /\ Min({c + TablePage, Len(array)}) = m
    BY <1>2, <1>3, FromHere, ChainListsAssumption
  <1>5. rows = UpTo(m) /\ Len(page) = m - c /\ Len(rows) = m /\ rows \in Seq(Nat)
    <2>1. rows = UpTo(c) \o SubSeq(UpTo(added), c + 1, m) /\ page = SubSeq(UpTo(added), c + 1, m)
      BY <1>2, <1>3, <1>4
    <2>4. added \in Nat /\ c \in Nat /\ c <= added /\ m \in Nat /\ c <= m /\ m <= added
      BY <1>2, <1>3, <1>4
    <2> HIDE DEF m, c, rows, page
    <2>5. rows = UpTo(m) /\ Len(page) = m - c
      BY <2>1, <2>4, PageContinues
    <2>2. Len(UpTo(m)) = m /\ UpTo(m) \in Seq(Nat)
      BY <1>4 DEF UpTo
    <2>3. QED  BY <2>5, <2>2
  <1> HIDE DEF m
  <1>6. /\ fetches' = [fetches EXCEPT ![f].at = "done"]
        /\ table' = [table EXCEPT !.cursor = c + Len(page), !.rows = rows,
                                  !.hasMore = @ /\ Len(rows) < fetches[f].length,
                                  !.triggered = @ /\ Len(rows) = Len(table.rows)]
        /\ UNCHANGED <<reader, arrayVars, head, listFaults, listing, paging>>
    BY DEF GetPage
  <1> HIDE DEF rows, page
  <1>7. /\ table' \in [rows : Seq(Nat), cursor : Nat, hasMore : BOOLEAN, triggered : BOOLEAN,
                       before : SUBSET Nat, overlapped : BOOLEAN]
        /\ table'.rows = UpTo(m) /\ table'.cursor = m
        /\ table'.hasMore = (table.hasMore /\ m < fetches[f].length)
        /\ table'.before = table.before /\ table'.overlapped = table.overlapped
    <2>1. c + Len(page) = m
      BY <1>3, <1>4, <1>5
    <2>2. table \in [rows : Seq(Nat), cursor : Nat, hasMore : BOOLEAN, triggered : BOOLEAN,
                     before : SUBSET Nat, overlapped : BOOLEAN]
      BY DEF TableInv
    <2> HIDE DEF c
    <2>3. QED  BY <1>4, <1>5, <1>6, <2>1, <2>2
  <1>8. /\ \A g \in Fetches : g # f => fetches'[g] = fetches[g]
        /\ fetches'[f].at = "done" /\ fetches'[f].cursor = c /\ fetches'[f].rows = fetches[f].rows
        /\ fetches' \in [Fetches -> FetchType]
    BY <1>3, <1>6 DEF TableInv, FetchOK, FetchType
  <1>9. InFlight' = InFlight \ {f}
    BY <1>8 DEF InFlight
  <1>10. ASSUME ~table.overlapped, ~table'.hasMore
         PROVE  table.before \subseteq 1..m
    <2>1. f \in InFlight
      BY <1>1 DEF InFlight
    <2>2. table.hasMore
      BY <1>10, <2>1 DEF TableInv
    <2>3. fetches[f].length <= m
      BY <1>3, <1>4, <1>7, <1>10, <2>2
    <2>4. table.before \subseteq 1..fetches[f].length
      BY <1>1 DEF TableInv, FetchOK
    <2>5. QED  BY <1>3, <1>4, <2>3, <2>4
  <1>11. ~table.overlapped => InFlight' = {}
    <2>1. f \in InFlight
      BY <1>1 DEF InFlight
    <2>2. QED  BY <1>9, <2>1 DEF TableInv
  <1>12. UNCHANGED <<reader, added>>
    BY <1>6 DEF arrayVars
  <1>13. TableInv'
    <2>1. \A g \in Fetches : FetchOK(g)'
      <3> TAKE g \in Fetches
      <3>1. fetches[1].at # "none" => fetches'[1].at # "none"
        BY <1>8, FirstFetch
      <3>2. CASE g = f
        BY <1>1, <1>3, <1>8, <1>12, <3>1, <3>2 DEF FetchOK, TableInv
      <3>3. CASE g # f
        BY <1>7, <1>8, <1>12, <3>1, <3>3 DEF FetchOK, TableInv
      <3>4. QED  BY <3>2, <3>3
    <2>2. table'.before \subseteq 1..added' /\ table'.cursor <= added'
      BY <1>4, <1>7, <1>12 DEF TableInv
    <2>3. ~ \A g \in Fetches : fetches'[g].at = "none"
      BY <1>8
    <2>4. ~table'.overlapped =>
             /\ \A g, h \in InFlight' : g = h
             /\ \A g \in InFlight' : fetches'[g].cursor = table'.cursor /\ table'.hasMore
             /\ ~table'.hasMore => table'.before \subseteq 1..table'.cursor
      BY <1>7, <1>10, <1>11
    <2>5. QED  BY <1>7, <1>8, <2>1, <2>2, <2>3, <2>4 DEF TableInv
  <1>14. QED  BY <1>6, <1>13, OnlyTheTable DEF ReaderOK

LEMMA FetchFailsKeeps ==
  ASSUME ListsInv, NEW f \in Fetches, FetchFails(f)
  PROVE  ListsInv'
  <1> USE DEF ListsInv, FetchFails
  <1>1. fetches[f].at \in {"length", "page"} /\ fetches[f] \in FetchType
    BY DEF InFlight, TableInv
  <1>2. /\ \A g \in Fetches : g # f => fetches'[g] = fetches[g]
        /\ fetches'[f].at = "threw" /\ fetches'[f].cursor = fetches[f].cursor
        /\ fetches'[f].rows = fetches[f].rows
        /\ fetches' \in [Fetches -> FetchType]
    BY <1>1 DEF TableInv, FetchOK, FetchType
  <1>3. InFlight' = InFlight \ {f}
    BY <1>2 DEF InFlight
  <1>4. UNCHANGED <<reader, added, table>>
    BY DEF arrayVars
  <1>5. TableInv'
    <2>1. \A g \in Fetches : FetchOK(g)'
      <3> TAKE g \in Fetches
      <3>1. fetches[1].at # "none" => fetches'[1].at # "none"
        BY <1>2, FirstFetch
      <3>2. CASE g = f
        BY <1>1, <1>2, <1>4, <3>1, <3>2 DEF FetchOK, TableInv
      <3>3. CASE g # f
        BY <1>2, <1>4, <3>1, <3>3 DEF FetchOK, TableInv
      <3>4. QED  BY <3>2, <3>3
    <2>2. ~ \A g \in Fetches : fetches'[g].at = "none"
      BY <1>2
    <2>3. \A g \in InFlight' : g \in InFlight /\ fetches'[g] = fetches[g]
      BY <1>2, <1>3 DEF InFlight
    <2>4. QED  BY <1>2, <1>4, <2>1, <2>2, <2>3 DEF TableInv
  <1>6. QED  BY <1>5, OnlyTheTable DEF ReaderOK, ListFault

\* A step of the client of event pages, or a new block.
LEMMA PagingKeeps ==
  ASSUME ListsInv, FirstEvents \/ MoreEvents \/ BlindEvents \/ MineBlock
  PROVE  ListsInv'
  <1> USE DEF ListsInv
  <1>1. UNCHANGED <<reader, arrayVars, listing, table, fetches>>
    BY DEF FirstEvents, MoreEvents, BlindEvents, MineBlock
  <1>2. ArrayInv' /\ ListingInv' /\ TableInv'
    BY <1>1 DEF ArrayInv, ListingInv, TableInv, FetchOK, InFlight, arrayVars
  <1>3. ReaderOK' /\ head' \in Nat
    BY DEF ReaderOK, PagingInv, FirstEvents, MoreEvents, BlindEvents, MineBlock, ListFault
  <1>4. ASSUME NEW cursor \in Nat \ {0}, NEW h \in Nat, AnswerPage(cursor, h),
               \/ paging.blocks = {} /\ h = cursor
               \/ cursor < h /\ paging.blocks = (cursor + 1)..h
        PROVE  PagingInv'
    <2>1. BlockPage \in Nat \ {0}
      BY ChainListsAssumption
    <2>2. From(cursor) \in Nat /\ From(cursor) <= cursor
          /\ (From(cursor) > 0 => From(cursor) - 1 \in Nat \ {0} /\ From(cursor) - 1 < cursor)
      BY <2>1 DEF From
    <2>3. paging.blocks \cup From(cursor)..cursor = From(cursor)..h
      BY <1>4, <2>2
    <2>4. paging' = [paging EXCEPT !.blocks = From(cursor)..h, !.head = h,
                                   !.cursor = IF From(cursor) > 0 THEN From(cursor) - 1 ELSE NoCursor]
      BY <1>4, <2>3 DEF AnswerPage
    <2>5. /\ paging' \in [cursor : Nat \cup {Latest, NoCursor}, blocks : SUBSET Nat, head : Nat, blind : BOOLEAN]
          /\ paging'.blocks = From(cursor)..h /\ paging'.head = h
          /\ paging'.cursor = IF From(cursor) > 0 THEN From(cursor) - 1 ELSE NoCursor
      <3>1. paging \in [cursor : Nat \cup {Latest, NoCursor}, blocks : SUBSET Nat, head : Nat, blind : BOOLEAN]
        BY DEF PagingInv
      <3>2. From(cursor)..h \in SUBSET Nat
        BY <2>2
      <3> DEFINE next == IF From(cursor) > 0 THEN From(cursor) - 1 ELSE NoCursor
                 given == From(cursor)..h
      <3>3. next \in Nat \cup {Latest, NoCursor}
        BY <2>2
      <3>4. paging' = [paging EXCEPT !.blocks = given, !.head = h, !.cursor = next] /\ given \in SUBSET Nat
        BY <2>4, <3>2
      <3> HIDE DEF next, given
      <3>5. /\ paging' \in [cursor : Nat \cup {Latest, NoCursor}, blocks : SUBSET Nat, head : Nat, blind : BOOLEAN]
            /\ paging'.blocks = given /\ paging'.head = h /\ paging'.cursor = next
        BY <1>4, <3>1, <3>3, <3>4
      <3>6. QED  BY <3>5 DEF next, given
    <2>6. QED  BY <1>3, <1>4, <2>2, <2>5, ChainListsAssumption DEF PagingInv
  <1>5. PagingInv'
    <2>1. CASE FirstEvents
      <3>1. CASE head = 0
        <4>1. paging' = [paging EXCEPT !.blocks = {0}, !.cursor = NoCursor] /\ paging.cursor = Latest
          BY <2>1, <3>1 DEF FirstEvents
        <4>2. paging.head = 0
          BY <4>1 DEF PagingInv
        <4>3. /\ paging' \in [cursor : Nat \cup {Latest, NoCursor}, blocks : SUBSET Nat, head : Nat, blind : BOOLEAN]
              /\ paging'.blocks = {0} /\ paging'.head = 0 /\ paging'.cursor = NoCursor
          BY <4>1, <4>2 DEF PagingInv
        <4>4. 0..0 = {0}
          OBVIOUS
        <4>5. QED  BY <1>3, <4>3, <4>4, ChainListsAssumption DEF PagingInv
      <3>2. CASE head # 0
        <4>1. AnswerPage(head, head) /\ paging.blocks = {} /\ head \in Nat \ {0}
          BY <2>1, <3>2 DEF FirstEvents, PagingInv
        <4>2. QED  BY <1>4, <4>1
      <3>3. QED  BY <3>1, <3>2
    <2>2. CASE MoreEvents
      BY <1>4, <2>2 DEF MoreEvents, PagingInv
    <2>3. CASE BlindEvents
      BY <1>3, <2>3, ChainListsAssumption DEF BlindEvents, PagingInv
    <2>4. CASE MineBlock
      BY <1>3, <2>4 DEF MineBlock, PagingInv
    <2>5. QED  BY <2>1, <2>2, <2>3, <2>4
  <1>6. QED  BY <1>2, <1>3, <1>5

LEMMA ListsInvStep ==
  ListsInv /\ [ListsNext]_listsVars => ListsInv'
  <1> SUFFICES ASSUME ListsInv, [ListsNext]_listsVars PROVE ListsInv'
    OBVIOUS
  <1>1. CASE AddToArray
    BY <1>1, AddToArrayKeeps
  <1>2. CASE \E i \in 1..MaxEntries : RemoveFromArray(i)
    BY <1>2, RemoveFromArrayKeeps
  <1>3. CASE ContractList \/ CallNextIndex \/ CallFails
    BY <1>3, ListingKeeps
  <1>4. CASE Mount
    BY <1>4, MountKeeps
  <1>5. CASE \E f \in Fetches : Scroll(f) \/ GetLength(f) \/ GetPage(f) \/ FetchFails(f)
    BY <1>5, ScrollKeeps, GetLengthKeeps, GetPageKeeps, FetchFailsKeeps
  <1>6. CASE FirstEvents \/ MoreEvents \/ BlindEvents \/ MineBlock
    BY <1>6, PagingKeeps
  <1>7. CASE UNCHANGED listsVars
    BY <1>7 DEF ListsInv, ArrayInv, ListingInv, TableInv, FetchOK, InFlight, PagingInv, ReaderOK, listsVars, arrayVars
  <1>8. QED  BY <1>1, <1>2, <1>3, <1>4, <1>5, <1>6, <1>7 DEF ListsNext

\* However the array of a contract grows and shrinks and blocks are mined between two calls, a
\* list that contract_list, a table of the explorer or the pages of events give out as the
\* whole one has every entry that was there when the reader began, and none twice.
THEOREM ListsArePutTogetherWhole ==
  ListsSpec => []ListsAreWhole
  <1>1. ListsInv => ListsAreWhole
    <2> SUFFICES ASSUME ListsInv PROVE ListsAreWhole
      OBVIOUS
    <2> USE DEF ListsInv
    <2>1. ASSUME listing.at = "answered", ~listing.broken
          PROVE  listing.before \subseteq ToSet(listing.results) /\ IsInjective(listing.results)
      <3>1. listing.results \in Seq(Nat) /\ InOrder(listing.results)
            /\ \A x \in listing.before : \E k \in 1..Len(listing.results) : listing.results[k] = x
        BY <2>1 DEF ListingInv
      <3>2. IsInjective(listing.results)
        BY <3>1 DEF InOrder, IsInjective
      <3>3. QED  BY <3>1, <3>2 DEF ToSet
    <2>2. ASSUME fetches[1].at # "none", ~table.hasMore, InFlight = {}, ~table.overlapped
          PROVE  table.before \subseteq ToSet(table.rows) /\ IsInjective(table.rows)
      BY <2>2 DEF TableInv, FetchOK, UpTo, ToSet, IsInjective
    <2>3. QED  BY <2>1, <2>2 DEF ListsAreWhole, PagingInv
  <1>2. QED  BY <1>1, ListsInitially, ListsInvStep, PTL DEF ListsSpec
=============================================================================
