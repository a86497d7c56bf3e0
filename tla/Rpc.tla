-------------------------------- MODULE Rpc ---------------------------------
(***************************************************************************)
(* rpc/rpc-handlers.ts and permissions/PendingTxs.ts: transactions that    *)
(* wait for the user's confirmation.                                       *)
(***************************************************************************)
EXTENDS Naturals, Sequences, FiniteSets

CONSTANTS
    Requests,         \* the transactions a page asks for
    Networks,         \* the configured networks: [name -> type], type "eth", "solana" or other
    UnknownNetwork,
    RpcCalls          \* calls of confirmTransaction

ASSUME RpcAssumption == UnknownNetwork \notin DOMAIN Networks

VARIABLES
    requests,         \* requests as the handlers see them: state and network
    expired,          \* requests older than rpc.send_transaction_timeout_secs
    confirms,         \* the calls of confirmTransaction
    sends             \* the calls that sent a request

rpcVars == <<requests, expired, confirms, sends>>

RpcInit ==
    /\ requests = [r \in Requests |-> [state |-> "none", network |-> UnknownNetwork]]
    /\ expired = {}
    /\ confirms = [c \in RpcCalls |-> [pc |-> "idle"]]
    /\ sends = [r \in Requests |-> {}]

-----------------------------------------------------------------------------
(* Transactions. *)

\* storeTransaction: an unknown network, a wrong number of parameters or a failed decoding of
\* the input is answered with an error.
StoreTransaction(r, network, solanaParams) ==
    /\ requests[r].state = "none"
    /\ requests' = [requests EXCEPT ![r] =
           [state |-> IF \/ network = UnknownNetwork
                         \/ Networks[network] = "solana" /\ solanaParams # 1
                      THEN "refused" ELSE "decoding",
            network |-> network]]
    /\ UNCHANGED <<expired, confirms, sends>>

\* pendingTxs.add.
Decoded(r) ==
    /\ requests[r].state = "decoding"
    /\ \E state \in {"stored", "refused"} : requests' = [requests EXCEPT ![r].state = state]
    /\ UNCHANGED <<expired, confirms, sends>>

\* snsWriteRequest: without a wait, and for the network solana whatever was asked.
SnsWriteRequest(r) ==
    /\ requests[r].state = "none"
    /\ \E network \in DOMAIN Networks :
          /\ Networks[network] = "solana"
          /\ requests' = [requests EXCEPT ![r] = [state |-> "stored", network |-> network]]
    /\ UNCHANGED <<expired, confirms, sends>>

\* rpc.send_transaction_timeout_secs pass since the request was stored.
RequestExpires(r) ==
    /\ requests[r].state = "stored" /\ r \notin expired
    /\ expired' = expired \cup {r}
    /\ UNCHANGED <<requests, confirms, sends>>

\* Mutant: the request is removed once it has been sent.
ConfirmKept(c, r) ==
    /\ confirms[c].pc = "idle"
    /\ IF requests[r].state # "stored" \/ r \in expired
       THEN /\ confirms' = [confirms EXCEPT ![c].pc = "404"]
            /\ requests' = IF r \in expired /\ requests[r].state = "stored"
                           THEN [requests EXCEPT ![r].state = "gone"] ELSE requests
            /\ UNCHANGED sends
       ELSE /\ IF Networks[requests[r].network] \in {"eth", "solana"}
               THEN /\ confirms' = [confirms EXCEPT ![c].pc = "sending"]
                    /\ sends' = [sends EXCEPT ![r] = @ \cup {c}]
               ELSE confirms' = [confirms EXCEPT ![c].pc = "400"] /\ UNCHANGED sends
            /\ UNCHANGED requests
    /\ UNCHANGED expired

\* confirmTransaction up to the call of the provider: find drops an expired request; rm takes
\* the request away, also when its network's type is not supported.
ConfirmTransaction(c, r) ==
    /\ confirms[c].pc = "idle"
    /\ IF requests[r].state # "stored" \/ r \in expired
       THEN /\ confirms' = [confirms EXCEPT ![c].pc = "404"]
            /\ requests' = IF r \in expired /\ requests[r].state = "stored"
                           THEN [requests EXCEPT ![r].state = "gone"] ELSE requests
            /\ UNCHANGED sends
       ELSE /\ IF Networks[requests[r].network] \in {"eth", "solana"}
               THEN /\ confirms' = [confirms EXCEPT ![c].pc = "sending"]
                    /\ sends' = [sends EXCEPT ![r] = @ \cup {c}]
               ELSE confirms' = [confirms EXCEPT ![c].pc = "400"] /\ UNCHANGED sends
            /\ requests' = [requests EXCEPT ![r].state = "gone"]
    /\ UNCHANGED expired

\* The provider answers, or throws: 500 for an internal error, 400 for others.
Sent(c) ==
    /\ confirms[c].pc = "sending"
    /\ \E status \in {"200", "400", "500"} : confirms' = [confirms EXCEPT ![c].pc = status]
    /\ UNCHANGED <<requests, expired, sends>>

-----------------------------------------------------------------------------
RpcNext ==
    \/ \E r \in Requests, network \in DOMAIN Networks \cup {UnknownNetwork}, n \in 1..2 :
          StoreTransaction(r, network, n)
    \/ \E r \in Requests : Decoded(r) \/ SnsWriteRequest(r) \/ RequestExpires(r)
    \/ \E c \in RpcCalls, r \in Requests : ConfirmTransaction(c, r)
    \/ \E c \in RpcCalls : Sent(c)

RpcSpec == RpcInit /\ [][RpcNext]_rpcVars

-----------------------------------------------------------------------------
(* Properties. *)

\* However many confirmations of a request overlap, and whatever their providers answer, it is
\* sent at most once, only after it was decoded and stored, and never to a network whose type
\* is not supported.
SentAtMostOnce ==
    \A r \in Requests :
        /\ Cardinality(sends[r]) <= 1
        /\ sends[r] # {} => /\ requests[r].state = "gone" /\ r \notin expired
                            /\ Networks[requests[r].network] \in {"eth", "solana"}
=============================================================================
