--------------------------- MODULE SealedMessages ---------------------------
(***************************************************************************)
(* Messages to an identity (src/client/encryption.ts): signed with the     *)
(* sender's key, encrypted for the key the chain holds for the receiver,   *)
(* uploaded, announced by pub/sub (StorageController) and, at the nodes    *)
(* that hear of it (src/client/storage/ipfs.ts), downloaded, decrypted,    *)
(* verified and handed to the application.                                 *)
(*                                                                         *)
(* A node is known by its key pair.  What is encrypted for a key is opened *)
(* by the node of that key only, and a signature verifies against the key  *)
(* that made it: the ciphers are not modelled.  The key of an identity is  *)
(* read from the chain twice, when a message is encrypted (the receiver's) *)
(* and when it is verified (the sender's); identities change hands in      *)
(* between.  Bounds: MaxMoves changes on the chain, MaxFaults failing      *)
(* calls, one delivery for each member of Deliveries.                      *)
(***************************************************************************)
EXTENDS Naturals, FiniteSets

CONSTANTS Peers,          \* nodes, each known by its key
          Names,          \* Point identities
          DomainName,     \* a .sol or .eth name: it has no key on the chain
          NoKey,          \* the zero key of an identity that has none; no name
          Hosts, Messages, Deliveries,
          NoMessage,      \* a delivery that has not begun
          MaxMoves, MaxFaults

ASSUME MailAssumption ==
    /\ NoKey \notin Peers \cup Names \cup {DomainName}
    /\ DomainName \notin Names
    /\ NoMessage \notin Messages
    /\ MaxMoves \in Nat /\ MaxFaults \in Nat

VARIABLES owner,          \* the chain: owner of each identity
          commKey,        \* the chain: its communication key
          moved,          \* identities whose owner or key was changed
          known,          \* identityCache of each node
          letters,        \* the publish call of each message
          deliveries,     \* pubsubProcessMessage for each delivery
          faults, moves

mailVars == <<owner, commKey, moved, known, letters, deliveries, faults, moves>>
registryVars == <<owner, commKey, moved, moves>>
-----------------------------------------------------------------------------
NoLetter == [stage |-> "none", from |-> NoKey, to |-> NoKey, host |-> NoKey, gzip |-> FALSE,
             identity |-> NoKey, key |-> NoKey, holder |-> NoKey]
NoDelivery == [stage |-> "none", message |-> NoMessage, node |-> NoKey, host |-> NoKey,
               failed |-> FALSE, opened |-> NoKey]

MailInit ==
    /\ owner \in [Names -> Peers \cup {NoKey}]
    /\ commKey = owner
    /\ moved = {} /\ moves = 0 /\ faults = 0
    /\ known \in {k \in [Peers -> Names \cup {NoKey}] :
                    \A n \in Peers : k[n] # NoKey => owner[k[n]] = n}
    /\ letters = [m \in Messages |-> NoLetter]
    /\ deliveries = [d \in Deliveries |-> NoDelivery]

Fault == faults < MaxFaults /\ faults' = faults + 1
SetLetter(m, r) == letters' = [letters EXCEPT ![m] = r]
SetDelivery(d, r) == deliveries' = [deliveries EXCEPT ![d] = r]
KeyOf(i) == IF i \in Names THEN commKey[i] ELSE NoKey

\* The contract: an identity gets another owner, or another key.
ChangeOwner(i, n) ==
    /\ moves < MaxMoves /\ owner[i] # n
    /\ owner' = [owner EXCEPT ![i] = n]
    /\ moved' = moved \cup {i} /\ moves' = moves + 1
    /\ UNCHANGED <<commKey, known, letters, deliveries, faults>>

ChangeKey(i, n) ==
    /\ moves < MaxMoves /\ commKey[i] # n
    /\ commKey' = [commKey EXCEPT ![i] = n]
    /\ moved' = moved \cup {i} /\ moves' = moves + 1
    /\ UNCHANGED <<owner, known, letters, deliveries, faults>>
-----------------------------------------------------------------------------
(* Sending. *)

PubsubPublishForIdentity(m, n, h, i, gz) ==
    /\ letters[m].stage = "none"
    /\ SetLetter(m, [NoLetter EXCEPT !.stage = "signing", !.from = n, !.to = i, !.host = h,
                                     !.gzip = gz, !.holder = commKey[i]])
    /\ UNCHANGED <<registryVars, known, deliveries, faults>>

\* getIdentity: the cached name, else one the chain gives for the owner, else a domain.
NamesOf(n) ==
    LET mine == {i \in Names : owner[i] = n}
    IN  IF known[n] # NoKey THEN {known[n]}
        ELSE IF mine # {} THEN mine ELSE {DomainName, NoKey}

\* signRawData: the key that signs is the node's, whatever name it goes by.
Sign(l, i) == [l EXCEPT !.stage = "encrypting", !.identity = i]

\* encryptRawPlaintextAsymmetric: the symmetric key, the file and the host, for one key.
Seal(l, key) == [l EXCEPT !.stage = "material", !.key = key]

\* The signature covers the name, the host and the data.  Without a name, or when the data is
\* still a string (it was not compressed), the call throws.
WrapWithSignature(m) ==
    LET l == letters[m] IN
    /\ l.stage = "signing"
    /\ \E i \in NamesOf(l.from) :
          /\ known' = [known EXCEPT ![l.from] = i]
          /\ IF i # NoKey /\ l.gzip
             THEN SetLetter(m, Sign(l, i))
             ELSE SetLetter(m, [l EXCEPT !.stage = "threw"])
    /\ UNCHANGED <<registryVars, deliveries, faults>>

EncryptForIdentity(m) ==
    LET l == letters[m]  key == KeyOf(l.to) IN
    /\ l.stage = "encrypting"
    /\ SetLetter(m, IF key # NoKey THEN Seal(l, key) ELSE [l EXCEPT !.stage = "threw"])
    /\ UNCHANGED <<registryVars, known, deliveries, faults>>

\* The encrypted material first, then the container that names its file and carries its key.
UploadMaterial(m) ==
    /\ letters[m].stage = "material"
    /\ SetLetter(m, [letters[m] EXCEPT !.stage = "container"])
    /\ UNCHANGED <<registryVars, known, deliveries, faults>>

UploadContainer(m) ==
    /\ letters[m].stage = "container"
    /\ SetLetter(m, [letters[m] EXCEPT !.stage = "published"])
    /\ UNCHANGED <<registryVars, known, deliveries, faults>>

\* The chain or the storage layer fails a call: the request is answered with an error.
SendingThrows(m) ==
    /\ letters[m].stage \in {"encrypting", "material", "container"}
    /\ Fault
    /\ SetLetter(m, [letters[m] EXCEPT !.stage = "threw"])
    /\ UNCHANGED <<registryVars, known, deliveries>>
-----------------------------------------------------------------------------
(* Receiving. *)

\* decryptRawPlaintextAsymmetric: its checksum fails with any other key.
Unseals(l, n) == l.key = n

\* verifyRawData: false for a key that did not sign; the zero key is refused before.
Verifies(l, key) == key # NoKey /\ key = l.from

Refused(r) == [r EXCEPT !.stage = "refused"]

\* pubsubProcessMessage, for a subscription that host h made: a message of another host throws.
PubsubProcessMessage(d, m, n, h) ==
    LET r == [NoDelivery EXCEPT !.message = m, !.node = n, !.host = h] IN
    /\ deliveries[d].stage = "none" /\ letters[m].stage = "published"
    /\ SetDelivery(d, IF h = letters[m].host THEN [r EXCEPT !.stage = "container"] ELSE Refused(r))
    /\ UNCHANGED <<registryVars, known, letters, faults>>

\* downloadAndDecryptDataAsymmetric, up to the material: the container must name this node's
\* key and, once opened, this host.
DownloadContainer(d) ==
    LET r == deliveries[d]  l == letters[r.message] IN
    /\ r.stage = "container"
    /\ SetDelivery(d, IF Unseals(l, r.node) /\ l.host = r.host THEN [r EXCEPT !.stage = "material"]
                      ELSE Refused(r))
    /\ UNCHANGED <<registryVars, known, letters, faults>>

DownloadAndDecryptFile(d) ==
    /\ deliveries[d].stage = "material"
    /\ SetDelivery(d, [deliveries[d] EXCEPT !.stage = "verifying"])
    /\ UNCHANGED <<registryVars, known, letters, faults>>

Opened(r, key) ==
    LET l == letters[r.message] IN
    IF l.host = r.host /\ Verifies(l, key)
    THEN [r EXCEPT !.stage = "opened",
                   !.opened = [data |-> r.message, identity |-> l.identity, host |-> r.host]]
    ELSE Refused(r)

\* Mutant: verified with the key of the identity it was encrypted for.
VerifyWithReceiver(d) ==
    /\ deliveries[d].stage = "verifying"
    /\ SetDelivery(d, Opened(deliveries[d], KeyOf(letters[deliveries[d].message].to)))
    /\ UNCHANGED <<registryVars, known, letters, faults>>

\* downloadAndVerifySignature: against the key the chain gives now for the name that signed.
DownloadAndVerifySignature(d) ==
    /\ deliveries[d].stage = "verifying"
    /\ SetDelivery(d, Opened(deliveries[d], KeyOf(letters[deliveries[d].message].identity)))
    /\ UNCHANGED <<registryVars, known, letters, faults>>

\* A download fails, or commPublicKeyByIdentity logs its error and answers nothing.
ReceivingThrows(d) ==
    /\ deliveries[d].stage \in {"container", "material", "verifying"}
    /\ Fault
    /\ SetDelivery(d, [Refused(deliveries[d]) EXCEPT !.failed = TRUE])
    /\ UNCHANGED <<registryVars, known, letters>>
-----------------------------------------------------------------------------
MailNext ==
    \/ \E i \in Names, n \in Peers : ChangeOwner(i, n) \/ ChangeKey(i, n)
    \/ \E m \in Messages :
          \/ \E n \in Peers, h \in Hosts, i \in Names, gz \in BOOLEAN :
                PubsubPublishForIdentity(m, n, h, i, gz)
          \/ WrapWithSignature(m) \/ EncryptForIdentity(m)
          \/ UploadMaterial(m) \/ UploadContainer(m) \/ SendingThrows(m)
    \/ \E d \in Deliveries :
          \/ \E m \in Messages, n \in Peers, h \in Hosts : PubsubProcessMessage(d, m, n, h)
          \/ DownloadContainer(d) \/ DownloadAndDecryptFile(d)
          \/ DownloadAndVerifySignature(d) \/ ReceivingThrows(d)

MailSpec == MailInit /\ [][MailNext]_mailVars
-----------------------------------------------------------------------------
(* Properties. *)

\* What an application is handed is what was published for its host, under the name it was
\* signed with, at the node it was encrypted for.  And a message is refused only at another
\* host or node than it was meant for, when a call failed, when the sender signed with a name
\* that has no key, or when one of the two identities changed hands: the names and keys that
\* sender and receiver read at different times otherwise agree.
MessagesOpenAsSent ==
    \A d \in Deliveries :
        LET r == deliveries[d]  l == letters[r.message] IN
        /\ r.stage = "opened" =>
              /\ r.opened = [data |-> r.message, identity |-> l.identity, host |-> l.host]
              /\ r.node = l.key
        /\ r.stage = "refused" =>
              \/ r.failed \/ r.host # l.host \/ r.node # l.holder
              \/ l.identity \notin Names \/ {l.to, l.identity} \cap moved # {}
=============================================================================
