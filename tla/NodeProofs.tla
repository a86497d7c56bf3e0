----------------------------- MODULE NodeProofs -----------------------------
(***************************************************************************)
(* Proofs about components of one node and of its users' side: modules     *)
(* SealedMessages, HandleForm, Startup, Proxy, DomainRecords, RangeStream. *)
(***************************************************************************)
EXTENDS SealedMessages, HandleForm, Startup, Proxy, DomainRecords, RangeStream, SequenceTheorems,
        FiniteSetTheorems, TLAPS

(***************************************************************************)
(* Messages to an identity.                                                *)
(***************************************************************************)

LetterStages == {"none", "signing", "encrypting", "material", "container", "published", "threw"}
Identities == Names \cup {DomainName, NoKey}
Letters == [stage : LetterStages, from : Peers \cup {NoKey}, to : Names \cup {NoKey},
            host : Hosts \cup {NoKey}, gzip : BOOLEAN, identity : Identities,
            key : Peers \cup {NoKey}, holder : Peers \cup {NoKey}]

DeliveryStages == {"none", "container", "material", "verifying", "opened", "refused"}
Handed == [data : Messages, identity : Identities, host : Hosts \cup {NoKey}]
DeliveryRecords ==
  [stage : DeliveryStages, message : Messages \cup {NoMessage}, node : Peers \cup {NoKey},
   host : Hosts \cup {NoKey}, failed : BOOLEAN, opened : {NoKey} \cup Handed]

MailTypeOK ==
  /\ owner \in [Names -> Peers \cup {NoKey}]
  /\ commKey \in [Names -> Peers \cup {NoKey}]
  /\ moved \subseteq Names
  /\ known \in [Peers -> Identities]
  /\ letters \in [Messages -> Letters]
  /\ deliveries \in [Deliveries -> DeliveryRecords]

\* An identity that was never changed belongs to the node whose key the chain holds for it,
\* and a node that knows it by name is that node.
NamesOK ==
  /\ \A i \in Names : i \in moved \/ commKey[i] = owner[i]
  /\ \A n \in Peers : known[n] \in Names => known[n] \in moved \/ owner[known[n]] = n

\* A letter is sealed for the holder of the name it is for, and its signature verifies with the
\* key of the name it is from, unless those names changed hands.
LetterOK(l) ==
  /\ l.stage # "none" => /\ l.from \in Peers /\ l.to \in Names
                         /\ l.to \in moved \/ commKey[l.to] = l.holder
  /\ l.stage \in {"encrypting", "material", "container", "published"} =>
        l.identity \notin Names \/ l.identity \in moved \/ commKey[l.identity] = l.from
  /\ l.stage \in {"material", "container", "published"} => l.to \in moved \/ l.key = l.holder

\* A delivery is of a published letter; one past the container is at the node and host the
\* letter was sealed for.
DeliveryOK(r) ==
  LET l == letters[r.message]
  IN  /\ r.stage # "none" => r.message \in Messages /\ l.stage = "published"
      /\ r.stage \in {"material", "verifying", "opened"} => r.node = l.key /\ r.host = l.host
      /\ r.stage = "opened" =>
            r.opened = [data |-> r.message, identity |-> l.identity, host |-> l.host]
      /\ r.stage = "refused" =>
            \/ r.failed \/ r.host # l.host \/ r.node # l.holder
            \/ l.identity \notin Names \/ {l.to, l.identity} \cap moved # {}

MailInv ==
  /\ MailTypeOK /\ NamesOK
  /\ \A m \in Messages : LetterOK(letters[m])
  /\ \A d \in Deliveries : DeliveryOK(deliveries[d])

\* The registry changes: what was said of unchanged identities is said of fewer.
LEMMA MoveKeeps ==
  ASSUME MailInv, NEW i \in Names, moved' = moved \cup {i}, UNCHANGED <<known, letters, deliveries>>,
         owner' \in [Names -> Peers \cup {NoKey}], commKey' \in [Names -> Peers \cup {NoKey}],
         \A j \in Names : j # i => owner'[j] = owner[j] /\ commKey'[j] = commKey[j]
  PROVE  MailInv'
  <1>1. MailTypeOK'
    BY DEF MailInv, MailTypeOK
  <1>2. NamesOK'
    BY DEF MailInv, MailTypeOK, NamesOK
  <1>3. ASSUME NEW m \in Messages  PROVE LetterOK(letters[m])'
    <2>1. PICK l \in Letters : l = letters[m]
      BY DEF MailInv, MailTypeOK
    <2>2. LetterOK(l)
      BY <2>1 DEF MailInv
    <2>3. l = letters'[m]
      BY <2>1
    <2>4. QED
      BY <2>2, <2>3 DEF LetterOK, MailInv, MailTypeOK
  <1>4. ASSUME NEW d \in Deliveries  PROVE DeliveryOK(deliveries[d])'
    BY DEF MailInv, DeliveryOK
  <1>5. QED
    BY <1>1, <1>2, <1>3, <1>4 DEF MailInv

\* A letter that was not published goes on; deliveries have nothing to do with it.
LEMMA LetterKeeps ==
  ASSUME MailInv, NEW m \in Messages, NEW r \in Letters, letters[m].stage # "published",
         SetLetter(m, r), LetterOK(r), UNCHANGED <<owner, commKey, moved, deliveries>>,
         known' \in [Peers -> Identities], NamesOK'
  PROVE  MailInv'
  <1>1. MailTypeOK'
    BY DEF MailInv, MailTypeOK, SetLetter
  <1>2. ASSUME NEW k \in Messages  PROVE LetterOK(letters[k])'
    <2>1. letters'[k] = IF k = m THEN r ELSE letters[k]
      BY DEF MailInv, MailTypeOK, SetLetter
    <2>2. PICK l : l = letters'[k]
      OBVIOUS
    <2>3. LetterOK(l)
      BY <2>1, <2>2 DEF MailInv
    <2>4. QED
      BY <2>2, <2>3 DEF LetterOK
  <1>3. ASSUME NEW d \in Deliveries  PROVE DeliveryOK(deliveries[d])'
    <2>1. DeliveryOK(deliveries[d])
      BY DEF MailInv
    <2>2. deliveries[d].stage # "none" =>
            deliveries[d].message \in Messages /\ letters'[deliveries[d].message] = letters[deliveries[d].message]
      BY <2>1 DEF DeliveryOK, SetLetter, MailInv, MailTypeOK
    <2>3. QED
      BY <2>1, <2>2 DEF DeliveryOK
  <1>4. QED
    BY <1>1, <1>2, <1>3 DEF MailInv

\* A delivery goes on.
LEMMA DeliveryKeeps ==
  ASSUME MailInv, NEW d \in Deliveries, NEW r \in DeliveryRecords, SetDelivery(d, r), DeliveryOK(r),
         UNCHANGED <<owner, commKey, moved, known, letters>>
  PROVE  MailInv'
  <1>1. MailTypeOK'
    BY DEF MailInv, MailTypeOK, SetDelivery
  <1>2. NamesOK' /\ \A m \in Messages : LetterOK(letters[m])'
    BY DEF MailInv, NamesOK, LetterOK
  <1>3. ASSUME NEW e \in Deliveries  PROVE DeliveryOK(deliveries[e])'
    <2>1. deliveries'[e] = IF e = d THEN r ELSE deliveries[e]
      BY DEF MailInv, MailTypeOK, SetDelivery
    <2>2. PICK s : s = deliveries'[e]
      OBVIOUS
    <2>3. DeliveryOK(s)
      BY <2>1, <2>2 DEF MailInv
    <2>4. QED
      BY <2>2, <2>3 DEF DeliveryOK
  <1>4. QED
    BY <1>1, <1>2, <1>3 DEF MailInv

\* The stages of sending.
LEMMA LetterSteps ==
  ASSUME MailInv, NEW m \in Messages,
         \/ \E n \in Peers, h \in Hosts, i \in Names, gz \in BOOLEAN :
               PubsubPublishForIdentity(m, n, h, i, gz)
         \/ WrapWithSignature(m) \/ EncryptForIdentity(m)
         \/ UploadMaterial(m) \/ UploadContainer(m) \/ SendingThrows(m)
  PROVE  MailInv'
  <1> DEFINE l == letters[m]
  <1>1. /\ l \in Letters /\ LetterOK(l)
        /\ \A s \in LetterStages : [l EXCEPT !.stage = s] \in Letters
    BY DEF MailInv, MailTypeOK, Letters
  <1>2. ASSUME NEW s \in LetterStages, l.stage # "none", l.stage # "published",
               SetLetter(m, [l EXCEPT !.stage = s]), UNCHANGED <<owner, commKey, moved, deliveries>>,
               UNCHANGED known,
               s \in {"container", "published"} => l.stage \in {"material", "container"},
               s \notin {"encrypting", "material"}
        PROVE  MailInv'
    <2>1. LetterOK([l EXCEPT !.stage = s])
      BY <1>1, <1>2 DEF LetterOK, Letters
    <2>2. NamesOK' /\ known' \in [Peers -> Identities]
      BY <1>2 DEF MailInv, NamesOK, MailTypeOK
    <2>3. QED
      BY <1>1, <1>2, <2>1, <2>2, LetterKeeps
  <1>3. ASSUME NEW n \in Peers, NEW h \in Hosts, NEW i \in Names, NEW gz \in BOOLEAN,
               PubsubPublishForIdentity(m, n, h, i, gz)
        PROVE  MailInv'
    <2> DEFINE r == [NoLetter EXCEPT !.stage = "signing", !.from = n, !.to = i, !.host = h,
                                     !.gzip = gz, !.holder = commKey[i]]
    <2>1. /\ r.stage = "signing" /\ r.from = n /\ r.to = i /\ r.holder = commKey[i]
          /\ r \in Letters
      <3>1. r.stage = "signing" /\ r.from = n /\ r.to = i /\ r.holder = commKey[i]
        BY DEF NoLetter
      <3>2. NoLetter \in Letters
        BY DEF NoLetter, Letters, LetterStages, Identities
      <3>3. commKey[i] \in Peers \cup {NoKey}
        BY DEF MailInv, MailTypeOK
      <3>4. \A x \in Letters, k \in Peers \cup {NoKey} :
              [x EXCEPT !.stage = "signing", !.from = n, !.to = i, !.host = h, !.gzip = gz,
                        !.holder = k] \in Letters
        BY DEF Letters, LetterStages
      <3>5. QED
        BY <3>1, <3>2, <3>3, <3>4
    <2>2. r \in Letters /\ LetterOK(r)
      BY <2>1 DEF LetterOK
    <2>3. NamesOK' /\ known' \in [Peers -> Identities]
      BY <1>3 DEF MailInv, NamesOK, MailTypeOK, PubsubPublishForIdentity, registryVars
    <2>4. l.stage = "none" /\ SetLetter(m, r) /\ UNCHANGED <<owner, commKey, moved, deliveries>>
      BY <1>3 DEF PubsubPublishForIdentity, registryVars
    <2> HIDE DEF r
    <2>5. QED
      BY <2>2, <2>3, <2>4, LetterKeeps
  <1>4. CASE WrapWithSignature(m)
    <2>1. l.stage = "signing" /\ UNCHANGED <<owner, commKey, moved, deliveries>>
      BY <1>4 DEF WrapWithSignature, registryVars
    <2>2. l.from \in Peers
      BY <1>1, <2>1 DEF LetterOK
    <2>3. PICK i \in NamesOf(l.from) :
            /\ known' = [known EXCEPT ![l.from] = i]
            /\ IF i # NoKey /\ l.gzip THEN SetLetter(m, Sign(l, i))
               ELSE SetLetter(m, [l EXCEPT !.stage = "threw"])
      BY <1>4 DEF WrapWithSignature
    <2>4. /\ i \in Identities
          /\ i \in Names => i \in moved \/ owner[i] = l.from
      <3>1. CASE known[l.from] # NoKey
        <4>1. i = known[l.from]
          BY <3>1, <2>3 DEF NamesOf
        <4>2. QED
          BY <4>1, <2>2 DEF MailInv, MailTypeOK, NamesOK
      <3>2. CASE known[l.from] = NoKey
        <4>1. i \in {j \in Names : owner[j] = l.from} \cup {DomainName, NoKey}
          BY <3>2, <2>3 DEF NamesOf
        <4>2. QED
          BY <4>1, MailAssumption DEF Identities
      <3>3. QED
        BY <3>1, <3>2
    <2>5. known' \in [Peers -> Identities] /\ NamesOK'
      BY <2>1, <2>2, <2>3, <2>4 DEF MailInv, MailTypeOK, NamesOK
    <2>6. Sign(l, i) \in Letters /\ LetterOK(Sign(l, i))
      <3>1. /\ Sign(l, i).stage = "encrypting" /\ Sign(l, i).identity = i
            /\ Sign(l, i).from = l.from /\ Sign(l, i).to = l.to /\ Sign(l, i).holder = l.holder
            /\ Sign(l, i) \in Letters
        <4>1. \A x \in Letters, k \in Identities :
                 [x EXCEPT !.stage = "encrypting", !.identity = k] \in Letters
          BY DEF Letters, LetterStages
        <4>2. Sign(l, i) \in Letters
          BY <1>1, <2>4, <4>1 DEF Sign
        <4>3. QED
          BY <1>1, <4>2 DEF Sign, Letters
      <3>2. i \in Names => i \in moved \/ commKey[i] = l.from
        BY <2>4 DEF MailInv, NamesOK
      <3>3. QED
        BY <1>1, <2>1, <3>1, <3>2 DEF LetterOK
    <2>7. [l EXCEPT !.stage = "threw"] \in Letters /\ LetterOK([l EXCEPT !.stage = "threw"])
      BY <1>1, <2>1 DEF LetterOK, LetterStages, Letters
    <2>8. QED
      BY <2>1, <2>3, <2>5, <2>6, <2>7, LetterKeeps
  <1>5. CASE EncryptForIdentity(m)
    <2>1. /\ l.stage = "encrypting" /\ UNCHANGED <<owner, commKey, moved, deliveries, known>>
          /\ \/ SetLetter(m, Seal(l, KeyOf(l.to)))
             \/ SetLetter(m, [l EXCEPT !.stage = "threw"])
      BY <1>5 DEF EncryptForIdentity, registryVars
    <2>2. KeyOf(l.to) = commKey[l.to] /\ commKey[l.to] \in Peers \cup {NoKey}
      BY <1>1, <2>1 DEF LetterOK, KeyOf, MailInv, MailTypeOK
    <2>3. Seal(l, KeyOf(l.to)) \in Letters /\ LetterOK(Seal(l, KeyOf(l.to)))
      <3>1. \A x \in Letters, k \in Peers \cup {NoKey} :
               [x EXCEPT !.stage = "material", !.key = k] \in Letters
        BY DEF Letters, LetterStages
      <3>2. Seal(l, KeyOf(l.to)) \in Letters
        BY <1>1, <2>2, <3>1 DEF Seal
      <3>3. LET s == Seal(l, KeyOf(l.to))
            IN  /\ s.stage = "material" /\ s.from = l.from /\ s.to = l.to /\ s.holder = l.holder
                /\ s.identity = l.identity /\ s.key = commKey[l.to]
        BY <1>1, <2>2 DEF Seal, Letters
      <3>4. QED
        BY <1>1, <2>1, <3>2, <3>3 DEF LetterOK
    <2>4. NamesOK' /\ known' \in [Peers -> Identities]
      BY <2>1 DEF MailInv, NamesOK, MailTypeOK
    <2>5. CASE SetLetter(m, Seal(l, KeyOf(l.to)))
      BY <2>1, <2>3, <2>4, <2>5, LetterKeeps
    <2>6. CASE SetLetter(m, [l EXCEPT !.stage = "threw"])
      BY <2>1, <2>6, <1>2 DEF LetterStages
    <2>7. QED
      BY <2>1, <2>5, <2>6
  <1>6. CASE UploadMaterial(m)
    BY <1>2, <1>6 DEF UploadMaterial, registryVars, LetterStages
  <1>7. CASE UploadContainer(m)
    BY <1>2, <1>7 DEF UploadContainer, registryVars, LetterStages
  <1>8. CASE SendingThrows(m)
    BY <1>2, <1>8 DEF SendingThrows, registryVars, LetterStages
  <1>9. QED
    BY <1>3, <1>4, <1>5, <1>6, <1>7, <1>8

\* The stages of receiving.
LEMMA DeliverySteps ==
  ASSUME MailInv, NEW d \in Deliveries,
         \/ \E m \in Messages, n \in Peers, h \in Hosts : PubsubProcessMessage(d, m, n, h)
         \/ DownloadContainer(d) \/ DownloadAndDecryptFile(d)
         \/ DownloadAndVerifySignature(d) \/ ReceivingThrows(d)
  PROVE  MailInv'
  <1> DEFINE r == deliveries[d]
             l == letters[r.message]
  <1>1. /\ r \in DeliveryRecords /\ DeliveryOK(r)
        /\ \A s \in DeliveryStages : [r EXCEPT !.stage = s] \in DeliveryRecords
    BY DEF MailInv, MailTypeOK, DeliveryRecords
  <1>2. r.stage # "none" => r.message \in Messages /\ l \in Letters /\ LetterOK(l) /\ l.stage = "published"
    BY <1>1 DEF DeliveryOK, MailInv, MailTypeOK
  <1>3. ASSUME NEW m \in Messages, NEW n \in Peers, NEW h \in Hosts, PubsubProcessMessage(d, m, n, h)
        PROVE  MailInv'
    <2> DEFINE s(st) == [stage |-> st, message |-> m, node |-> n, host |-> h, failed |-> FALSE,
                         opened |-> NoKey]
    <2>1. /\ letters[m].stage = "published" /\ UNCHANGED <<owner, commKey, moved, known, letters>>
          /\ \/ SetDelivery(d, s("container"))
             \/ h # letters[m].host /\ SetDelivery(d, s("refused"))
      BY <1>3 DEF PubsubProcessMessage, registryVars, NoDelivery, Refused
    <2>2. s("container") \in DeliveryRecords /\ DeliveryOK(s("container"))
      BY <2>1 DEF DeliveryRecords, DeliveryStages, DeliveryOK
    <2>3. s("refused") \in DeliveryRecords /\ (h # letters[m].host => DeliveryOK(s("refused")))
      BY <2>1 DEF DeliveryRecords, DeliveryStages, DeliveryOK
    <2> HIDE DEF s
    <2>4. QED
      BY <2>1, <2>2, <2>3, DeliveryKeeps
  <1>4. CASE DownloadContainer(d)
    <2>1. /\ r.stage = "container" /\ UNCHANGED <<owner, commKey, moved, known, letters>>
          /\ \/ l.key = r.node /\ l.host = r.host /\ SetDelivery(d, [r EXCEPT !.stage = "material"])
             \/ ~(l.key = r.node /\ l.host = r.host) /\ SetDelivery(d, [r EXCEPT !.stage = "refused"])
      BY <1>4 DEF DownloadContainer, registryVars, Refused, Unseals
    <2>2. l.key = r.node /\ l.host = r.host => DeliveryOK([r EXCEPT !.stage = "material"])
      BY <1>1, <1>2, <2>1 DEF DeliveryOK, DeliveryRecords
    <2>3. ~(l.key = r.node /\ l.host = r.host) => DeliveryOK([r EXCEPT !.stage = "refused"])
      <3>1. l.to \in moved \/ l.key = l.holder
        BY <1>2, <2>1 DEF LetterOK
      <3>2. QED
        BY <1>1, <1>2, <2>1, <3>1 DEF DeliveryOK, DeliveryRecords
    <2>4. QED
      BY <1>1, <2>1, <2>2, <2>3, DeliveryKeeps DEF DeliveryStages
  <1>5. CASE DownloadAndDecryptFile(d)
    <2>1. /\ r.stage = "material" /\ UNCHANGED <<owner, commKey, moved, known, letters>>
          /\ SetDelivery(d, [r EXCEPT !.stage = "verifying"])
      BY <1>5 DEF DownloadAndDecryptFile, registryVars
    <2>2. DeliveryOK([r EXCEPT !.stage = "verifying"])
      BY <1>1, <1>2, <2>1 DEF DeliveryOK, DeliveryRecords
    <2>3. QED
      BY <1>1, <2>1, <2>2, DeliveryKeeps DEF DeliveryStages
  <1>6. CASE DownloadAndVerifySignature(d)
    <2> DEFINE key == KeyOf(l.identity)
    <2>1. /\ r.stage = "verifying" /\ UNCHANGED <<owner, commKey, moved, known, letters>>
          /\ SetDelivery(d, Opened(r, key))
      BY <1>6 DEF DownloadAndVerifySignature, registryVars
    <2>2. r.node = l.key /\ r.host = l.host
      BY <1>1, <2>1 DEF DeliveryOK
    <2>3. CASE Verifies(l, key)
      <3> DEFINE s == [stage |-> "opened", message |-> r.message, node |-> r.node, host |-> r.host,
                       failed |-> r.failed,
                       opened |-> [data |-> r.message, identity |-> l.identity, host |-> r.host]]
      <3>1. Opened(r, key) = s
        BY <1>1, <2>2, <2>3 DEF Opened, DeliveryRecords
      <3>2. s.opened \in Handed
        BY <1>1, <1>2, <2>1 DEF Handed, Letters, DeliveryRecords
      <3>3. s \in DeliveryRecords
        BY <1>1, <3>2 DEF DeliveryRecords, DeliveryStages
      <3>4. DeliveryOK(s)
        BY <1>2, <2>1, <2>2 DEF DeliveryOK
      <3> HIDE DEF s
      <3>5. QED
        BY <2>1, <3>1, <3>3, <3>4, DeliveryKeeps
    <2>4. CASE ~Verifies(l, key)
      <3>1. Opened(r, key) = [r EXCEPT !.stage = "refused"]
        BY <2>4 DEF Opened, Refused
      <3>2. l.identity \notin Names \/ l.identity \in moved
        BY <1>2, <2>1, <2>4, MailAssumption DEF LetterOK, Verifies, KeyOf
      <3>3. DeliveryOK([r EXCEPT !.stage = "refused"])
        BY <1>1, <1>2, <2>1, <3>2 DEF DeliveryOK, DeliveryRecords
      <3>4. QED
        BY <1>1, <2>1, <3>1, <3>3, DeliveryKeeps DEF DeliveryStages
    <2>5. QED
      BY <2>3, <2>4
  <1>7. CASE ReceivingThrows(d)
    <2> DEFINE s == [r EXCEPT !.stage = "refused", !.failed = TRUE]
    <2>1. /\ r.stage # "none" /\ UNCHANGED <<owner, commKey, moved, known, letters>>
          /\ SetDelivery(d, s)
      BY <1>7 DEF ReceivingThrows, registryVars, Refused
    <2>2. /\ s \in DeliveryRecords /\ s.stage = "refused" /\ s.failed = TRUE
          /\ s.message = r.message
      BY <1>1, ZenonT(60) DEF DeliveryRecords, DeliveryStages
    <2> HIDE DEF s
    <2>3. DeliveryOK(s)
      BY <1>2, <2>1, <2>2 DEF DeliveryOK
    <2>4. QED
      BY <2>1, <2>2, <2>3, DeliveryKeeps
  <1>8. QED
    BY <1>3, <1>4, <1>5, <1>6, <1>7

LEMMA MailInvStep ==
  ASSUME MailInv, [MailNext]_mailVars
  PROVE  MailInv'
  <1>1. ASSUME NEW i \in Names, NEW n \in Peers, ChangeOwner(i, n) \/ ChangeKey(i, n)
        PROVE  MailInv'
    BY <1>1, MoveKeeps DEF ChangeOwner, ChangeKey, MailInv, MailTypeOK
  <1>2. CASE UNCHANGED mailVars
    BY <1>2 DEF mailVars, MailInv, MailTypeOK, NamesOK, LetterOK, DeliveryOK
  <1>3. QED
    BY <1>1, <1>2, LetterSteps, DeliverySteps DEF MailNext

LEMMA MailInvInit == MailInit => MailInv
  <1> SUFFICES ASSUME MailInit PROVE MailInv
    OBVIOUS
  <1>1. NoLetter \in Letters /\ LetterOK(NoLetter)
    BY DEF NoLetter, Letters, LetterStages, Identities, LetterOK
  <1>2. NoDelivery \in DeliveryRecords /\ DeliveryOK(NoDelivery)
    BY DEF NoDelivery, DeliveryRecords, DeliveryStages, DeliveryOK
  <1>3. NamesOK
    BY MailAssumption DEF MailInit, NamesOK
  <1>4. MailTypeOK
    BY <1>1, <1>2 DEF MailInit, MailTypeOK, Identities
  <1>5. QED
    BY <1>1, <1>2, <1>3, <1>4 DEF MailInit, MailInv

\* What pubsubProcessMessage hands to an application is what was published for its host, under
\* the name it was signed with, at the node it was sealed for, and a refusal has one of the known
\* reasons, for any nodes, names, messages and deliveries, however often the registry changes.
THEOREM MessagesAreOpenedAsSent == MailSpec => []MessagesOpenAsSent
  <1>1. MailInv => MessagesOpenAsSent
    BY DEF MailInv, DeliveryOK, MessagesOpenAsSent
  <1>2. QED  BY <1>1, MailInvInit, MailInvStep, PTL DEF MailSpec

(***************************************************************************)
(* The form that registers a handle.                                       *)
(***************************************************************************)

Forms == [identity : Handles \cup {NoHandle}, eligibility : Eligibilities \cup {"none"},
          code : BOOLEAN, url : Handles \cup {NoHandle}, error : BOOLEAN]
CheckRecords == [at : {"idle", "token", "sent"}, handle : Handles \cup {NoHandle},
                 cancelled : BOOLEAN]

FormTypeOK ==
  /\ eligible \in [Handles -> Eligibilities]
  /\ form \in Forms
  /\ debounced \in Handles \cup {NoHandle}
  /\ check \in [Checks -> CheckRecords]
  /\ registering \in [at : {"no", "confirming", "token", "posted", "left"}, form : Forms]
  /\ posted \subseteq Forms

\* The eligibility and the tweet in f are of its handle.
OfItsHandle(f) ==
  /\ f.eligibility # "none" => f.identity # NoHandle /\ f.eligibility = eligible[f.identity]
  /\ f.url # NoHandle => f.url = f.identity

\* A check that was not cancelled is the one the next change cancels; it is of the handle
\* shown, and no other check is due.
CheckOK(k) ==
  check[k].at # "idle" /\ ~check[k].cancelled =>
      k = cancelRef /\ check[k].handle = form.identity /\ debounced = NoHandle

HandleInv ==
  /\ FormTypeOK
  /\ OfItsHandle(form) /\ OfItsHandle(registering.form) /\ \A f \in posted : OfItsHandle(f)
  /\ debounced # NoHandle => debounced = form.identity
  /\ \A k \in Checks : CheckOK(k) /\ (check[k].at # "idle" => check[k].handle \in Handles)

\* The form changes, not its handle.
LEMMA FormKeeps ==
  ASSUME HandleInv, form' \in Forms, form'.identity = form.identity, OfItsHandle(form)',
         UNCHANGED <<eligible, debounced, cancelRef, check, posted>>,
         registering' \in [at : {"no", "confirming", "token", "posted", "left"}, form : Forms],
         registering'.form \in {registering.form, form}
  PROVE  HandleInv'
  BY DEF HandleInv, FormTypeOK, OfItsHandle, CheckOK

LEMMA OnChangeKeeps ==
  ASSUME HandleInv, NEW handle \in Handles \cup {NoHandle}, OnChange(handle)
  PROVE  HandleInv'
  <1>1. /\ \A k \in Checks : check'[k] = IF k = cancelRef THEN [check[k] EXCEPT !.cancelled = TRUE]
                                         ELSE check[k]
        /\ check' \in [Checks -> CheckRecords]
    BY ZenonT(60) DEF OnChange, HandleInv, FormTypeOK, CheckRecords
  <1>2. /\ form' \in Forms /\ form'.identity = handle /\ form'.eligibility = "none"
        /\ form'.url = NoHandle
    BY DEF OnChange, EmptyForm, Forms, HandleInv, FormTypeOK
  <1>3. debounced' = handle /\ UNCHANGED <<eligible, cancelRef, registering, posted>>
    BY DEF OnChange
  <1>4. FormTypeOK'
    BY <1>1, <1>2, <1>3 DEF HandleInv, FormTypeOK
  <1>5. OfItsHandle(form)' /\ OfItsHandle(registering.form)' /\ \A f \in posted' : OfItsHandle(f)'
    BY <1>2, <1>3 DEF HandleInv, OfItsHandle
  <1>6. \A k \in Checks : check'[k].at = check[k].at /\ check'[k].handle = check[k].handle
    BY <1>1 DEF HandleInv, FormTypeOK, CheckRecords
  <1>7. \A k \in Checks : check'[k].at # "idle" => check'[k].cancelled
    BY <1>1 DEF HandleInv, FormTypeOK, CheckRecords, CheckOK
  <1>8. QED
    BY <1>2, <1>3, <1>4, <1>5, <1>6, <1>7 DEF HandleInv, CheckOK

LEMMA CheckHandleKeeps ==
  ASSUME HandleInv, NEW c \in Checks, CheckHandle(c)
  PROVE  HandleInv'
  <1>1. /\ debounced # NoHandle /\ debounced = form.identity /\ debounced \in Handles
        /\ check' = [check EXCEPT ![c] = [at |-> "token", handle |-> debounced, cancelled |-> FALSE]]
        /\ cancelRef' = c /\ form' = [form EXCEPT !.error = FALSE] /\ debounced' = NoHandle
        /\ UNCHANGED <<eligible, registering, posted>>
    BY DEF CheckHandle, HandleInv, FormTypeOK
  <1>2. /\ form' \in Forms /\ form'.identity = form.identity
        /\ form'.eligibility = form.eligibility /\ form'.url = form.url
    BY <1>1 DEF HandleInv, FormTypeOK, Forms
  <1>3. /\ check' \in [Checks -> CheckRecords]
        /\ check'[c].handle = debounced /\ \A k \in Checks \ {c} : check'[k] = check[k]
    BY <1>1 DEF HandleInv, FormTypeOK, CheckRecords
  <1>4. FormTypeOK'
    BY <1>1, <1>2, <1>3 DEF HandleInv, FormTypeOK
  <1>5. QED
    BY <1>1, <1>2, <1>3, <1>4 DEF HandleInv, OfItsHandle, CheckOK

\* A check ends, or goes on uncancelled.
LEMMA CheckMoves ==
  ASSUME HandleInv, NEW c \in Checks, NEW r \in CheckRecords, check' = [check EXCEPT ![c] = r],
         r.at = "idle" \/ (r.handle = check[c].handle /\ r.cancelled = check[c].cancelled /\ check[c].at # "idle"),
         form' \in Forms, form'.identity = form.identity, OfItsHandle(form)',
         UNCHANGED <<eligible, debounced, cancelRef, registering, posted>>
  PROVE  HandleInv'
  <1>1. check' \in [Checks -> CheckRecords] /\ check'[c] = r /\ \A k \in Checks \ {c} : check'[k] = check[k]
    BY DEF HandleInv, FormTypeOK
  <1>2. FormTypeOK'
    BY <1>1 DEF HandleInv, FormTypeOK
  <1>3. QED
    BY <1>1, <1>2 DEF HandleInv, OfItsHandle, CheckOK

LEMMA CheckAnsweredKeeps ==
  ASSUME HandleInv, NEW c \in Checks, CheckAnswered(c)
  PROVE  HandleInv'
  <1> DEFINE answer == eligible[check[c].handle]
  <1>1. /\ check[c].at = "sent" /\ check' = [check EXCEPT ![c] = NoCheck]
        /\ UNCHANGED <<eligible, debounced, cancelRef, registering, posted>>
    BY DEF CheckAnswered
  <1>2. NoCheck \in CheckRecords /\ NoCheck.at = "idle"
    BY DEF NoCheck, CheckRecords
  <1>3. /\ check[c].handle \in Handles /\ answer \in Eligibilities
        /\ ~check[c].cancelled => check[c].handle = form.identity
    BY <1>1 DEF HandleInv, FormTypeOK, CheckOK
  <1>4. \/ form' = form
        \/ form' = [form EXCEPT !.error = TRUE]
        \/ /\ ~check[c].cancelled
           /\ form' = [form EXCEPT !.eligibility = answer, !.error = @ \/ answer = "unavailable",
                                   !.code = @ \/ answer = "tweet"]
    BY DEF CheckAnswered
  <1>5. form' \in Forms /\ form'.identity = form.identity /\ OfItsHandle(form)'
    <2>1. CASE form' = form
      BY <1>1, <2>1 DEF HandleInv, FormTypeOK, OfItsHandle
    <2>2. CASE form' = [form EXCEPT !.error = TRUE]
      BY <1>1, <2>2 DEF HandleInv, FormTypeOK, OfItsHandle, Forms
    <2>3. CASE /\ ~check[c].cancelled
               /\ form' = [form EXCEPT !.eligibility = answer, !.error = @ \/ answer = "unavailable",
                                       !.code = @ \/ answer = "tweet"]
      <3> DEFINE e == form.error \/ answer = "unavailable"
                 t == form.code \/ answer = "tweet"
      <3>1. form' = [form EXCEPT !.eligibility = answer, !.error = e, !.code = t]
        BY <2>3
      <3>2. \A f \in Forms, x \in BOOLEAN, y \in BOOLEAN :
               LET g == [f EXCEPT !.eligibility = answer, !.error = x, !.code = y]
               IN  /\ g \in Forms /\ g.identity = f.identity
                   /\ g.eligibility = answer /\ g.url = f.url
        BY <1>3 DEF Forms
      <3>3. e \in BOOLEAN /\ t \in BOOLEAN /\ form \in Forms
        BY DEF HandleInv, FormTypeOK, Forms
      <3> HIDE DEF e, t
      <3>4. /\ form'.identity = form.identity /\ form'.eligibility = answer /\ form'.url = form.url
            /\ form' \in Forms
        BY <3>1, <3>2, <3>3
      <3>5. QED
        BY <1>1, <1>3, <2>3, <3>4, HandleAssumption DEF HandleInv, OfItsHandle
    <2>4. QED
      BY <1>4, <2>1, <2>2, <2>3
  <1>6. QED
    BY <1>1, <1>2, <1>5, CheckMoves

LEMMA HandleInvStep ==
  ASSUME HandleInv, [FormNext]_formVars
  PROVE  HandleInv'
  <1>1. CASE TypeHandle
    BY <1>1, OnChangeKeeps DEF TypeHandle
  <1>2. CASE ChooseSuggestion
    BY <1>2, OnChangeKeeps DEF ChooseSuggestion
  <1>3. CASE TypeTweetUrl
    <2>1. /\ form' = [form EXCEPT !.url = form.identity]
          /\ UNCHANGED <<eligible, debounced, cancelRef, check, registering, posted>>
      BY <1>3 DEF TypeTweetUrl
    <2>2. form' \in Forms /\ form'.identity = form.identity /\ OfItsHandle(form)'
      BY <2>1 DEF HandleInv, FormTypeOK, Forms, OfItsHandle
    <2>3. QED
      BY <2>1, <2>2, FormKeeps DEF HandleInv, FormTypeOK
  <1>4. ASSUME NEW c \in Checks, SendCheck(c)  PROVE HandleInv'
    <2>1. /\ check[c].at = "token"
          /\ check' = [check EXCEPT ![c] = IF check[c].cancelled THEN NoCheck
                                           ELSE [check[c] EXCEPT !.at = "sent"]]
          /\ UNCHANGED <<eligible, form, debounced, cancelRef, registering, posted>>
      BY <1>4 DEF SendCheck
    <2>2. /\ NoCheck \in CheckRecords /\ NoCheck.at = "idle"
          /\ [check[c] EXCEPT !.at = "sent"] \in CheckRecords
          /\ [check[c] EXCEPT !.at = "sent"].handle = check[c].handle
          /\ [check[c] EXCEPT !.at = "sent"].cancelled = check[c].cancelled
      BY DEF NoCheck, CheckRecords, HandleInv, FormTypeOK
    <2>3. form' \in Forms /\ OfItsHandle(form)'
      BY <2>1 DEF HandleInv, FormTypeOK, OfItsHandle
    <2>4. CASE check[c].cancelled
      BY <2>1, <2>2, <2>3, <2>4, CheckMoves
    <2>5. CASE ~check[c].cancelled
      BY <2>1, <2>2, <2>3, <2>5, CheckMoves
    <2>6. QED
      BY <2>4, <2>5
  <1>5. CASE PressRegister
    <2>1. /\ registering' = [at |-> "confirming", form |-> form]
          /\ UNCHANGED <<eligible, form, debounced, cancelRef, check, posted>>
      BY <1>5 DEF PressRegister
    <2>2. form' \in Forms /\ OfItsHandle(form)'
      BY <2>1 DEF HandleInv, FormTypeOK, OfItsHandle
    <2>3. QED
      BY <2>1, <2>2, FormKeeps DEF HandleInv, FormTypeOK
  <1>6. CASE Confirm
    <2>1. /\ registering' \in {[registering EXCEPT !.at = "token"], [registering EXCEPT !.at = "no"]}
          /\ UNCHANGED <<eligible, form, debounced, cancelRef, check, posted>>
      BY <1>6 DEF Confirm
    <2>2. form' \in Forms /\ OfItsHandle(form)'
      BY <2>1 DEF HandleInv, FormTypeOK, OfItsHandle
    <2>3. QED
      BY <2>1, <2>2, FormKeeps DEF HandleInv, FormTypeOK
  <1>7. CASE PostRegistration
    BY <1>7 DEF PostRegistration, HandleInv, FormTypeOK, OfItsHandle, CheckOK
  <1>8. CASE RegistrationAnswered
    <2>1. /\ \/ registering' = [registering EXCEPT !.at = "left"]
             \/ registering' = [registering EXCEPT !.at = "no"]
          /\ \/ form' = form \/ form' = [form EXCEPT !.code = TRUE]
             \/ form' = [form EXCEPT !.error = TRUE]
          /\ UNCHANGED <<eligible, debounced, cancelRef, check, posted>>
      BY <1>8 DEF RegistrationAnswered
    <2>2. form' \in Forms /\ form'.identity = form.identity /\ OfItsHandle(form)'
      BY <2>1 DEF HandleInv, FormTypeOK, OfItsHandle, Forms
    <2>3. /\ registering' \in [at : {"no", "confirming", "token", "posted", "left"}, form : Forms]
          /\ registering'.form = registering.form
      BY <2>1 DEF HandleInv, FormTypeOK
    <2>4. QED
      BY <2>1, <2>2, <2>3, FormKeeps
  <1>9. CASE UNCHANGED formVars
    BY <1>9 DEF formVars, HandleInv, FormTypeOK, OfItsHandle, CheckOK
  <1>10. QED
    BY <1>1, <1>2, <1>3, <1>4, <1>5, <1>6, <1>7, <1>8, <1>9, CheckHandleKeeps, CheckAnsweredKeeps
       DEF FormNext

LEMMA HandleInvInit == FormInit => HandleInv
  <1> SUFFICES ASSUME FormInit PROVE HandleInv
    OBVIOUS
  <1>1. EmptyForm(NoHandle) \in Forms /\ OfItsHandle(EmptyForm(NoHandle))
    BY DEF EmptyForm, Forms, OfItsHandle
  <1>2. NoCheck \in CheckRecords /\ NoCheck.at = "idle"
    BY DEF NoCheck, CheckRecords
  <1>3. FormTypeOK
    BY <1>1, <1>2 DEF FormInit, FormTypeOK
  <1>4. QED
    BY <1>1, <1>2, <1>3 DEF FormInit, HandleInv, CheckOK

\* useFinal.js shows and registers only what was found of the handle in the form, for any number
\* of handles and of checks under way, in whatever order their tokens and answers come.
THEOREM FormShowsItsHandle == FormSpec => []ShownIsOfHandle
  <1>1. HandleInv => ShownIsOfHandle
    BY DEF HandleInv, OfItsHandle, ShownIsOfHandle
  <1>2. QED  BY <1>1, HandleInvInit, HandleInvStep, PTL DEF FormSpec

(***************************************************************************)
(* The start of nodes.                                                     *)
(***************************************************************************)

Tables == <<CreateDirMaps, CreateFiles, CreateChunks, CreateEvents, CreateEventScans, CreateFileMaps>>
Columns == UNION {Tables[t].columns : t \in 1..6}
CommandRecords == [table : ToSet(RollbackTables), columns : SUBSET Columns,
                   references : SUBSET ToSet(RollbackTables), isTable : BOOLEAN]

\* A command that creates a table, or an index for which one of the tables is enough.
Fits(c) ==
  \/ c.isTable
  \/ \E t \in 1..6 : /\ Tables[t].isTable /\ Tables[t].table = c.table
                     /\ c.columns \subseteq Tables[t].columns
Fitting == {c \in CommandRecords : Fits(c)}

LEMMA RollbackNames ==
  ToSet(RollbackTables) = {"dir_maps", "files", "chunks", "file_maps", "events", "event_scans"}
  <1>1. DOMAIN RollbackTables = 1..6
    BY DEF RollbackTables
  <1>2. /\ RollbackTables[1] = "dir_maps" /\ RollbackTables[2] = "files"
        /\ RollbackTables[3] = "chunks" /\ RollbackTables[4] = "file_maps"
        /\ RollbackTables[5] = "events" /\ RollbackTables[6] = "event_scans"
    BY DEF RollbackTables
  <1>3. ToSet(RollbackTables) = {RollbackTables[i] : i \in 1..6}
    BY <1>1 DEF ToSet
  <1>4. QED
    BY <1>2, <1>3

LEMMA TablesFit ==
  /\ Tables \in Seq(Fitting) /\ Len(Tables) = 6
  /\ \A t \in 1..6 : Tables[t].isTable
  <1>1. /\ Tables[1] = CreateDirMaps /\ Tables[2] = CreateFiles /\ Tables[3] = CreateChunks
        /\ Tables[4] = CreateEvents /\ Tables[5] = CreateEventScans /\ Tables[6] = CreateFileMaps
    BY DEF Tables
  <1>2. ASSUME NEW T \in ToSet(RollbackTables), NEW c, NEW r \in SUBSET ToSet(RollbackTables),
               NEW t \in 1..6, Tables[t] = CreateTable(T, c, r)
        PROVE  Tables[t] \in Fitting /\ Tables[t].isTable
    <2>1. c \in SUBSET Columns
      BY <1>2 DEF Columns, CreateTable
    <2>2. QED
      BY <1>2, <2>1 DEF CreateTable, CommandRecords, Fitting, Fits
  <1>3. Tables[1] \in Fitting /\ Tables[1].isTable
    BY <1>1, <1>2, RollbackNames DEF CreateDirMaps
  <1>4. Tables[2] \in Fitting /\ Tables[2].isTable
    BY <1>1, <1>2, RollbackNames DEF CreateFiles
  <1>5. Tables[3] \in Fitting /\ Tables[3].isTable
    BY <1>1, <1>2, RollbackNames DEF CreateChunks
  <1>6. Tables[4] \in Fitting /\ Tables[4].isTable
    BY <1>1, <1>2, RollbackNames DEF CreateEvents
  <1>7. Tables[5] \in Fitting /\ Tables[5].isTable
    BY <1>1, <1>2, RollbackNames DEF CreateEventScans
  <1>8. Tables[6] \in Fitting /\ Tables[6].isTable
    BY <1>1, <1>2, RollbackNames DEF CreateFileMaps
  <1>9. Len(Tables) = 6 /\ Tables = [t \in 1..6 |-> Tables[t]]
    BY DEF Tables
  <1>10. QED
    BY <1>3, <1>4, <1>5, <1>6, <1>7, <1>8, <1>9

LEMMA IndexesFit ==
  ASSUME NEW k \in 1..6, NEW list \in Seq(SUBSET Tables[k].columns)
  PROVE  AddIndexes(Tables[k].table, list) \in Seq(Fitting)
  <1>1. /\ Tables[k].columns \in SUBSET Columns /\ Tables[k].isTable
        /\ Tables[k].table \in ToSet(RollbackTables)
    <2>1. Tables \in Seq(Fitting) /\ Len(Tables) = 6 /\ Tables[k].isTable
      BY TablesFit
    <2>2. Tables[k] \in Fitting
      BY <2>1, ElementOfSeq
    <2>3. QED
      BY <2>1, <2>2 DEF Fitting, CommandRecords
  <1>2. ASSUME NEW i \in 1..Len(list)  PROVE AddIndex(Tables[k].table, list[i]) \in Fitting
    <2>1. list[i] \in SUBSET Tables[k].columns
      OBVIOUS
    <2> DEFINE c == AddIndex(Tables[k].table, list[i])
    <2>2. c \in CommandRecords /\ c.table = Tables[k].table /\ c.columns = list[i]
      BY <1>1, <2>1 DEF AddIndex, CommandRecords
    <2> HIDE DEF c
    <2>3. Fits(c)
      BY <1>1, <2>1, <2>2 DEF Fits
    <2>4. QED
      BY <2>2, <2>3 DEF Fitting, c
  <1>3. AddIndexes(Tables[k].table, list) = [i \in 1..Len(list) |-> AddIndex(Tables[k].table, list[i])]
    BY DEF AddIndexes
  <1>4. QED
    BY <1>2, <1>3

LEMMA CommandsFit == Commands \in Seq(Fitting) /\ \A t \in 1..6 : t \in Whole /\ Commands[t] = Tables[t]
  <1>1. /\ Tables[1] = CreateDirMaps /\ Tables[2] = CreateFiles /\ Tables[3] = CreateChunks
        /\ Tables[4] = CreateEvents /\ Tables[5] = CreateEventScans /\ Tables[6] = CreateFileMaps
    BY DEF Tables
  <1>2. /\ CreateDirMaps.table = "dir_maps" /\ CreateFiles.table = "files"
        /\ CreateChunks.table = "chunks" /\ CreateEvents.table = "events"
        /\ CreateEventScans.table = "event_scans" /\ CreateFileMaps.table = "file_maps"
    BY DEF CreateDirMaps, CreateFiles, CreateChunks, CreateEvents, CreateEventScans,
       CreateFileMaps, CreateTable
  <1>3. /\ {"dir_id", "file_id", "offset"} \subseteq CreateDirMaps.columns
        /\ {"ul_status", "dl_status", "dir_ul_status"} \subseteq CreateFiles.columns
        /\ {"ul_status", "dl_status"} \subseteq CreateChunks.columns
        /\ {"chunk_id", "file_id", "offset"} \subseteq CreateFileMaps.columns
    BY DEF CreateDirMaps, CreateFiles, CreateChunks, CreateFileMaps, CreateTable
  <1>4. /\ {"chain_id", "block_number", "log_index", "contract_address", "event", "topic0",
            "topic1", "topic2", "raw_id"} \subseteq CreateEvents.columns
        /\ {"chain_id", "contract_address", "from_block", "to_block"}
              \subseteq CreateEventScans.columns
    BY DEF CreateEvents, CreateEventScans, CreateTable
  <1>5. FileIndexes \in Seq(Fitting)
    <2>1. AddIndexes("dir_maps",
            <<{"file_id"}, {"dir_id"}, {"dir_id", "file_id"}, {"dir_id", "offset"},
              {"dir_id", "file_id", "offset"}>>) \in Seq(Fitting)
      <3>1. ASSUME NEW C, {"dir_id", "file_id", "offset"} \subseteq C
            PROVE  <<{"file_id"}, {"dir_id"}, {"dir_id", "file_id"}, {"dir_id", "offset"},
              {"dir_id", "file_id", "offset"}>>
                      \in Seq(SUBSET C)
        BY <3>1
      <3>2. <<{"file_id"}, {"dir_id"}, {"dir_id", "file_id"}, {"dir_id", "offset"},
            {"dir_id", "file_id", "offset"}>> \in Seq(SUBSET Tables[1].columns)
        BY <1>1, <1>3, <3>1
      <3>3. QED
        BY <1>1, <1>2, <3>2, IndexesFit
    <2>2. AddIndexes("files", <<{"ul_status"}, {"dl_status"}, {"dir_ul_status"}>>) \in Seq(Fitting)
      <3>1. ASSUME NEW C, {"ul_status", "dl_status", "dir_ul_status"} \subseteq C
            PROVE  <<{"ul_status"}, {"dl_status"}, {"dir_ul_status"}>>
                      \in Seq(SUBSET C)
        BY <3>1
      <3>2. <<{"ul_status"}, {"dl_status"}, {"dir_ul_status"}>> \in Seq(SUBSET Tables[2].columns)
        BY <1>1, <1>3, <3>1
      <3>3. QED
        BY <1>1, <1>2, <3>2, IndexesFit
    <2>3. AddIndexes("chunks", <<{"ul_status"}, {"dl_status"}>>) \in Seq(Fitting)
      <3>1. ASSUME NEW C, {"ul_status", "dl_status"} \subseteq C
            PROVE  <<{"ul_status"}, {"dl_status"}>>
                      \in Seq(SUBSET C)
        BY <3>1
      <3>2. <<{"ul_status"}, {"dl_status"}>> \in Seq(SUBSET Tables[3].columns)
        BY <1>1, <1>3, <3>1
      <3>3. QED
        BY <1>1, <1>2, <3>2, IndexesFit
    <2>4. QED
      BY <2>1, <2>2, <2>3, ConcatProperties DEF FileIndexes
  <1>6. FileMapIndexes \in Seq(Fitting)
    <2>1. ASSUME NEW C, {"chunk_id", "file_id", "offset"} \subseteq C
          PROVE  <<{"chunk_id"}, {"file_id"}, {"file_id", "chunk_id"}, {"file_id", "offset"},
                   {"file_id", "chunk_id", "offset"}>> \in Seq(SUBSET C)
      BY <2>1
    <2>2. <<{"chunk_id"}, {"file_id"}, {"file_id", "chunk_id"}, {"file_id", "offset"},
            {"file_id", "chunk_id", "offset"}>> \in Seq(SUBSET Tables[6].columns)
      BY <1>1, <1>3, <2>1
    <2>3. QED
      BY <1>1, <1>2, <2>2, IndexesFit DEF FileMapIndexes
  <1>7. EventIndexes \in Seq(Fitting)
    <2> DEFINE e == <<{"chain_id"}, {"chain_id", "block_number"}, {"chain_id", "log_index"},
                      {"chain_id", "contract_address", "event"},
                      {"chain_id", "contract_address", "event", "log_index"},
                      {"chain_id", "contract_address", "block_number"},
                      {"chain_id", "contract_address", "event", "block_number"},
                      {"topic0"}, {"topic1"}, {"topic2"}, {"chain_id", "raw_id"}>>
               s == <<{"chain_id"}, {"chain_id", "from_block"}, {"chain_id", "to_block"},
                      {"chain_id", "contract_address", "from_block"},
                      {"chain_id", "contract_address", "to_block"}>>
    <2>1. ASSUME NEW C, {"chain_id", "block_number", "log_index", "contract_address", "event",
                         "topic0", "topic1", "topic2", "raw_id"} \subseteq C
          PROVE  e \in Seq(SUBSET C)
      BY <2>1
    <2>2. ASSUME NEW C, {"chain_id", "contract_address", "from_block", "to_block"} \subseteq C
          PROVE  s \in Seq(SUBSET C)
      BY <2>2
    <2>3. EventIndexes = AddIndexes("events", e) \o AddIndexes("event_scans", s)
      BY DEF EventIndexes
    <2> HIDE DEF e, s
    <2>4. e \in Seq(SUBSET Tables[4].columns) /\ s \in Seq(SUBSET Tables[5].columns)
      BY <1>1, <1>4, <2>1, <2>2
    <2>5. AddIndexes("events", e) \in Seq(Fitting) /\ AddIndexes("event_scans", s) \in Seq(Fitting)
      BY <1>1, <1>2, <2>4, IndexesFit
    <2>6. QED
      BY <2>3, <2>5, ConcatProperties, SMTT(60)
  <1>8. /\ Tables \o FileIndexes \in Seq(Fitting)
        /\ Len(Tables \o FileIndexes) = 6 + Len(FileIndexes)
        /\ \A t \in 1..6 : (Tables \o FileIndexes)[t] = Tables[t]
    <2>1. Tables \in Seq(Fitting) /\ Len(Tables) = 6 /\ Len(FileIndexes) \in Nat
      BY <1>5, TablesFit
    <2>2. /\ Tables \o FileIndexes \in Seq(Fitting)
          /\ Len(Tables \o FileIndexes) = 6 + Len(FileIndexes)
      <3>1. /\ Tables \o FileIndexes \in Seq(Fitting)
            /\ Len(Tables \o FileIndexes) = Len(Tables) + Len(FileIndexes)
        BY <1>5, <2>1, ConcatProperties
      <3>2. QED
        BY <2>1, <3>1
    <2>3. ASSUME NEW t \in 1..6  PROVE (Tables \o FileIndexes)[t] = Tables[t]
      <3>1. t \in 1..(Len(Tables) + Len(FileIndexes)) /\ t <= Len(Tables)
        BY <2>1
      <3>2. QED
        BY <1>5, <2>1, <3>1, ConcatProperties
    <2>4. QED
      BY <2>2, <2>3
  <1>9. Commands = ((Tables \o FileIndexes) \o FileMapIndexes) \o EventIndexes
    BY DEF Commands, Tables
  <1>10. QED
    BY <1>5, <1>6, <1>7, <1>8, <1>9, ConcatProperties DEF Whole

LastCommand == Len(Commands)

\* Every command can run once those before it have run, and the rollback leaves nothing.
LEMMA TheCommands ==
  /\ LastCommand \in Nat /\ Whole = 1..LastCommand
  /\ \A i \in Whole : CanRun(i, 1..(i - 1))
  /\ WithoutTables({}) = {} /\ WithoutTables(Whole) = {}
  <1>1. LastCommand \in Nat /\ Whole = 1..LastCommand
    BY CommandsFit DEF LastCommand, Whole
  <1>2. ASSUME NEW i \in Whole  PROVE Commands[i] \in Fitting
    BY <1>1, <1>2, CommandsFit, ElementOfSeq DEF LastCommand
  <1>3. ASSUME NEW i \in Whole  PROVE CanRun(i, 1..(i - 1))
    <2>1. CASE Commands[i].isTable
      BY <2>1 DEF CanRun
    <2>2. CASE ~Commands[i].isTable
      <3>1. PICK t \in 1..6 : /\ Tables[t].isTable /\ Tables[t].table = Commands[i].table
                              /\ Commands[i].columns \subseteq Tables[t].columns
        BY <1>2, <2>2 DEF Fitting, Fits
      <3>2. \A k \in 1..6 : Commands[k].isTable /\ Commands[k] = Tables[k]
        BY CommandsFit, TablesFit
      <3>3. t \in 1..(i - 1)
        BY <1>1, <2>2, <3>2
      <3>4. i \notin 1..(i - 1)
        BY <1>1
      <3>5. QED
        BY <3>1, <3>2, <3>3, <3>4 DEF CanRun
    <2>3. QED
      BY <2>1, <2>2
  <1>4. \A i \in Whole : Commands[i].table \in ToSet(RollbackTables)
    BY <1>2 DEF Fitting, CommandRecords
  <1>5. WithoutTables({}) = {} /\ WithoutTables(Whole) = {}
    BY <1>4 DEF WithoutTables
  <1>6. QED
    BY <1>1, <1>3, <1>5

Stages == {"off", "folders", "migrate", "commands", "log", "down", "unlog", "started"}

StartupTypeOK ==
  /\ stage \in [Nodes -> Stages]
  /\ place \in [Nodes -> 1..(LastCommand + 1)]
  /\ view \in [Nodes -> SUBSET Whole]
  /\ database \in {{}, Whole}
  /\ logged \in BOOLEAN
  /\ dbWriter \in Nodes \cup {NoNode} /\ lock \in Nodes \cup {NoNode}
  /\ stale \in BOOLEAN
  /\ dbFaults \in Nat /\ stalls \in Nat

\* SQLite's write lock is held by the process that has run some of the commands, and its view
\* is the database with these.
Migrates(n) == stage[n] = "commands" /\ place[n] > 1
WriterOK ==
  \A n \in Nodes :
    /\ dbWriter = n <=> Migrates(n)
    /\ Migrates(n) => view[n] = database \cup 1..(place[n] - 1)

\* While no command failed by itself and no process was suspended: the process past the lock
\* file is the one the lock file names; it works on an empty database or one whose migration
\* was not noted, and never reverts.
LockOK ==
  /\ \A n \in Nodes : Locked(n) => lock = n
  /\ stale /\ lock \in Nodes => ~Locked(lock)
NoteOK ==
  /\ logged => database = Whole
  /\ \A n \in Nodes :
       /\ stage[n] \in {"log", "started", "down"} => database = Whole
       /\ stage[n] \in {"commands", "down"} => ~logged
       /\ stage[n] # "unlog"

StartupInv ==
  /\ StartupTypeOK /\ WriterOK
  /\ dbFaults = 0 /\ stalls = 0 => LockOK /\ NoteOK

LEMMA StartupInvInit == StartupInit => StartupInv
  <1> SUFFICES ASSUME StartupInit PROVE StartupInv
    OBVIOUS
  <1>1. \A n \in Nodes : stage[n] = "off" /\ place[n] = 1 /\ view[n] = {}
    BY DEF StartupInit
  <1>2. StartupTypeOK
    <2>1. 1 \in 1..(LastCommand + 1)
      BY TheCommands
    <2>2. QED
      BY <2>1 DEF StartupInit, StartupTypeOK, Stages
  <1>3. WriterOK
    BY <1>1, StartupAssumption DEF StartupInit, WriterOK, Migrates
  <1>4. LockOK /\ NoteOK
    BY <1>1, StartupAssumption DEF StartupInit, LockOK, NoteOK, Locked
  <1>5. QED
    BY <1>2, <1>3, <1>4 DEF StartupInv

\* One process goes from a stage to another, and the database stays.
LEMMA StageMoves ==
  ASSUME StartupInv, NEW n \in Nodes, NEW s \in Stages, Go(n, s),
         UNCHANGED <<view, database, dbWriter>>,
         place' = place \/ place' = [place EXCEPT ![n] = 1],
         stage[n] # "commands",
         logged' \in BOOLEAN, lock' \in Nodes \cup {NoNode}, stale' \in BOOLEAN,
         dbFaults' \in Nat, stalls' \in Nat,
         s = "commands" => place'[n] = 1,
         dbFaults' = 0 /\ stalls' = 0 => LockOK' /\ NoteOK'
  PROVE  StartupInv'
  <1>1. /\ stage' \in [Nodes -> Stages] /\ stage'[n] = s
        /\ \A k \in Nodes \ {n} : stage'[k] = stage[k]
    BY DEF Go, StartupInv, StartupTypeOK
  <1>2. place' \in [Nodes -> 1..(LastCommand + 1)] /\ \A k \in Nodes \ {n} : place'[k] = place[k]
    BY TheCommands DEF StartupInv, StartupTypeOK
  <1>3. StartupTypeOK'
    BY <1>1, <1>2 DEF StartupInv, StartupTypeOK
  <1>4. ~Migrates(n) /\ ~Migrates(n)'
    BY <1>1 DEF Migrates
  <1>5. WriterOK'
    BY <1>1, <1>2, <1>4 DEF StartupInv, WriterOK, Migrates
  <1>6. QED
    BY <1>3, <1>5 DEF StartupInv

\* A process ends, or its migration fails: its transaction is gone.
LEMMA ClosingMoves ==
  ASSUME StartupInv, NEW n \in Nodes, NEW s \in Stages \ {"commands"}, Go(n, s), CloseDatabase(n),
         lock' \in Nodes \cup {NoNode}, stale' \in BOOLEAN, dbFaults' \in Nat, stalls' \in Nat,
         dbFaults' = 0 /\ stalls' = 0 => LockOK' /\ NoteOK'
  PROVE  StartupInv'
  <1>1. /\ stage' \in [Nodes -> Stages] /\ stage'[n] = s
        /\ \A k \in Nodes \ {n} : stage'[k] = stage[k]
    BY DEF Go, StartupInv, StartupTypeOK
  <1>2. /\ place' \in [Nodes -> 1..(LastCommand + 1)] /\ view' \in [Nodes -> SUBSET Whole]
        /\ \A k \in Nodes \ {n} : place'[k] = place[k] /\ view'[k] = view[k]
        /\ dbWriter' = IF dbWriter = n THEN NoNode ELSE dbWriter
        /\ UNCHANGED <<database, logged>>
    BY TheCommands DEF CloseDatabase, StartupInv, StartupTypeOK
  <1>3. StartupTypeOK'
    BY <1>1, <1>2 DEF StartupInv, StartupTypeOK
  <1>4. WriterOK'
    BY <1>1, <1>2, StartupAssumption DEF StartupInv, WriterOK, Migrates, StartupTypeOK
  <1>5. QED
    BY <1>3, <1>4 DEF StartupInv

LEMMA StartupInvStep ==
  ASSUME StartupInv, [StartupNext]_startupVars
  PROVE  StartupInv'
  <1> USE DEF lockVars, bounds, dbVars
  <1>1. CASE LockGoesStale
    <2>1. /\ UNCHANGED <<stage, place, view, database, logged, dbWriter, lock, dbFaults>>
          /\ stale' = TRUE /\ stalls' \in Nat /\ (stalls' = 0 => stalls = 0 /\ ~Locked(lock))
      BY <1>1 DEF LockGoesStale, StartupInv, StartupTypeOK
    <2>2. StartupTypeOK' /\ WriterOK'
      BY <2>1 DEF StartupInv, StartupTypeOK, WriterOK, Migrates
    <2>3. dbFaults' = 0 /\ stalls' = 0 => LockOK' /\ NoteOK'
      BY <2>1 DEF StartupInv, LockOK, NoteOK, Locked
    <2>4. QED
      BY <2>2, <2>3 DEF StartupInv
  <1>2. ASSUME NEW n \in Nodes, InitFolders(n)  PROVE StartupInv'
    <2>1. PICK s \in {"folders", "off"} : Go(n, s)
      BY <1>2 DEF InitFolders
    <2>2. /\ stage[n] = "off"
          /\ UNCHANGED <<place, view, database, logged, dbWriter, lock, stale, dbFaults, stalls>>
      BY <1>2 DEF InitFolders
    <2>3. dbFaults' = 0 /\ stalls' = 0 => LockOK' /\ NoteOK'
      BY <2>1, <2>2 DEF StartupInv, StartupTypeOK, LockOK, NoteOK, Locked, Go
    <2>4. QED
      BY <2>1, <2>2, <2>3, StageMoves DEF Stages, StartupInv, StartupTypeOK
  <1>3. ASSUME NEW n \in Nodes, LockFile(n)  PROVE StartupInv'
    <2>1. /\ stage[n] = "folders" /\ UNCHANGED <<place, view, database, logged, dbWriter, dbFaults, stalls>>
      BY <1>3 DEF LockFile
    <2>2. CASE TakesLock /\ lock' = n /\ stale' = FALSE /\ Go(n, "migrate")
      <3>1. dbFaults' = 0 /\ stalls' = 0 => LockOK' /\ NoteOK'
        BY <2>1, <2>2, StartupAssumption
           DEF TakesLock, StartupInv, StartupTypeOK, LockOK, NoteOK, Locked, Go
      <3>2. QED
        BY <2>1, <2>2, <3>1, StageMoves DEF Stages, StartupInv, StartupTypeOK
    <2>3. CASE Go(n, "off") /\ UNCHANGED <<lock, stale>>
      <3>1. dbFaults' = 0 /\ stalls' = 0 => LockOK' /\ NoteOK'
        BY <2>1, <2>3 DEF StartupInv, StartupTypeOK, LockOK, NoteOK, Locked, Go
      <3>2. QED
        BY <2>1, <2>3, <3>1, StageMoves DEF Stages, StartupInv, StartupTypeOK
    <2>4. QED
      BY <1>3, <2>2, <2>3 DEF LockFile
  <1>4. ASSUME NEW n \in Nodes, Up(n)  PROVE StartupInv'
    <2> DEFINE s == IF logged THEN "started" ELSE "commands"
    <2>1. /\ stage[n] = "migrate" /\ Go(n, s) /\ place' = [place EXCEPT ![n] = 1]
          /\ UNCHANGED <<view, database, logged, dbWriter, lock, stale, dbFaults, stalls>>
      BY <1>4 DEF Up
    <2>2. dbFaults' = 0 /\ stalls' = 0 => LockOK' /\ NoteOK'
      BY <2>1 DEF StartupInv, StartupTypeOK, LockOK, NoteOK, Locked, Go
    <2>3. place'[n] = 1 /\ s \in Stages
      BY <2>1 DEF StartupInv, StartupTypeOK, Stages
    <2>4. QED
      BY <2>1, <2>2, <2>3, StageMoves DEF StartupInv, StartupTypeOK
  <1>5. ASSUME NEW n \in Nodes, Execute(n)  PROVE StartupInv'
    <2>1. /\ stage[n] = "commands" /\ place[n] \in Whole /\ dbWriter \in {NoNode, n}
          /\ view' = [view EXCEPT ![n] = (IF dbWriter = n THEN view[n] ELSE database) \cup {place[n]}]
          /\ place' = [place EXCEPT ![n] = place[n] + 1]
          /\ dbWriter' = n
          /\ UNCHANGED <<stage, database, logged, lock, stale, dbFaults, stalls>>
      BY <1>5 DEF Execute
    <2>2. place[n] \in 1..LastCommand
      BY <2>1, TheCommands
    <2>3. place' \in [Nodes -> 1..(LastCommand + 1)] /\ place'[n] = place[n] + 1
      BY <2>1, <2>2, TheCommands DEF StartupInv, StartupTypeOK
    <2>4. view' \in [Nodes -> SUBSET Whole]
      BY <2>1 DEF StartupInv, StartupTypeOK
    <2>5. StartupTypeOK'
      BY <2>1, <2>3, <2>4 DEF StartupInv, StartupTypeOK
    <2>6. view'[n] = database \cup 1..place[n]
      <3>1. 1..place[n] = 1..(place[n] - 1) \cup {place[n]}
        BY <2>2
      <3>2. CASE dbWriter = n
        BY <2>1, <3>1, <3>2 DEF StartupInv, StartupTypeOK, WriterOK
      <3>3. CASE dbWriter # n
        <4>1. place[n] = 1
          BY <2>1, <2>2, <3>3 DEF StartupInv, WriterOK, Migrates
        <4>2. QED
          BY <2>1, <3>1, <3>3, <4>1 DEF StartupInv, StartupTypeOK
      <3>4. QED
        BY <3>2, <3>3
    <2>7. ASSUME NEW k \in Nodes \ {n}  PROVE ~Migrates(k) /\ ~Migrates(k)'
      BY <2>1, StartupAssumption DEF StartupInv, StartupTypeOK, WriterOK, Migrates
    <2>8. Migrates(n)' /\ place'[n] - 1 = place[n]
      BY <2>1, <2>2, <2>3 DEF Migrates
    <2>9. WriterOK'
      BY <2>1, <2>6, <2>7, <2>8 DEF WriterOK
    <2>10. dbFaults' = 0 /\ stalls' = 0 => LockOK' /\ NoteOK'
      BY <2>1 DEF StartupInv, LockOK, NoteOK, Locked
    <2>11. QED
      BY <2>5, <2>9, <2>10 DEF StartupInv
  <1>6. ASSUME NEW n \in Nodes, Commit(n)  PROVE StartupInv'
    <2>1. /\ stage[n] = "commands" /\ place[n] \notin Whole
          /\ database' = view[n] /\ dbWriter' = NoNode /\ Go(n, "log")
          /\ UNCHANGED <<place, view, logged, lock, stale, dbFaults, stalls>>
      BY <1>6 DEF Commit
    <2>2. place[n] \in 1..(LastCommand + 1) /\ LastCommand \in Nat /\ Whole = 1..LastCommand
      BY TheCommands DEF StartupInv, StartupTypeOK
    <2>3. place[n] = LastCommand + 1 /\ place[n] > 1
      <3>1. 1 \in Whole
        BY CommandsFit
      <3>2. QED
        BY <2>1, <2>2, <3>1
    <2>4. view[n] = database \cup Whole /\ dbWriter = n
      BY <2>1, <2>2, <2>3 DEF StartupInv, WriterOK, Migrates
    <2>5. database' = Whole
      BY <2>1, <2>4 DEF StartupInv, StartupTypeOK
    <2>6. StartupTypeOK'
      BY <2>1, <2>5 DEF StartupInv, StartupTypeOK, Stages, Go
    <2>7. ASSUME NEW k \in Nodes  PROVE ~Migrates(k)'
      BY <2>1, <2>4 DEF StartupInv, StartupTypeOK, WriterOK, Migrates, Go
    <2>8. WriterOK'
      BY <2>1, <2>7, StartupAssumption DEF WriterOK
    <2>9. dbFaults' = 0 /\ stalls' = 0 => LockOK' /\ NoteOK'
      BY <2>1, <2>5 DEF StartupInv, StartupTypeOK, LockOK, NoteOK, Locked, Go
    <2>10. QED
      BY <2>6, <2>8, <2>9 DEF StartupInv
  <1>7. ASSUME NEW n \in Nodes, LogMigration(n)  PROVE StartupInv'
    <2>1. /\ stage[n] = "log" /\ Go(n, "started") /\ logged' = TRUE
          /\ UNCHANGED <<place, view, database, dbWriter, lock, stale, dbFaults, stalls>>
      BY <1>7 DEF LogMigration
    <2>2. dbFaults' = 0 /\ stalls' = 0 => LockOK' /\ NoteOK'
      BY <2>1 DEF StartupInv, StartupTypeOK, LockOK, NoteOK, Locked, Go
    <2>3. QED
      BY <2>1, <2>2, StageMoves DEF Stages, StartupInv, StartupTypeOK
  <1>8. ASSUME NEW n \in Nodes, CommandFails(n)  PROVE StartupInv'
    <2>1. /\ stage[n] = "commands" /\ place[n] \in Whole /\ CloseDatabase(n) /\ Go(n, "down")
          /\ UNCHANGED <<lock, stale, stalls>> /\ dbFaults' \in Nat
          /\ \/ dbWriter \notin {NoNode, n} /\ dbFaults' = dbFaults
             \/ dbWriter = NoNode /\ ~CanRun(place[n], database) /\ dbFaults' = dbFaults
             \/ dbWriter = n /\ ~CanRun(place[n], view[n]) /\ dbFaults' = dbFaults
             \/ dbFaults' = dbFaults + 1
      BY <1>8 DEF CommandFails, StartupInv, StartupTypeOK
    <2>2. ASSUME dbFaults' = 0, stalls' = 0  PROVE LockOK' /\ NoteOK'
      <3>1. LockOK /\ NoteOK /\ dbFaults = 0
        BY <2>1, <2>2 DEF StartupInv, StartupTypeOK
      <3>2. lock = n /\ \A k \in Nodes \ {n} : ~Locked(k)
        BY <2>1, <3>1 DEF LockOK, Locked
      <3>3. dbWriter \in {NoNode, n}
        BY <3>2 DEF StartupInv, StartupTypeOK, WriterOK, Migrates, Locked
      <3>4. database = Whole
        <4>1. SUFFICES ASSUME database = {} PROVE FALSE
          BY DEF StartupInv, StartupTypeOK
        <4>2. place[n] \in 1..LastCommand
          BY <2>1, TheCommands
        <4>3. CASE dbWriter = n
          <5>1. view[n] = 1..(place[n] - 1)
            BY <4>1, <4>3 DEF StartupInv, WriterOK
          <5>2. CanRun(place[n], view[n])
            BY <2>1, <5>1, TheCommands
          <5>3. QED
            BY <2>1, <2>2, <3>1, <4>3, <5>2, StartupAssumption
        <4>4. CASE dbWriter = NoNode
          <5>1. place[n] = 1
            BY <2>1, <4>2, <4>4, StartupAssumption DEF StartupInv, WriterOK, Migrates
          <5>2. database = 1..(place[n] - 1)
            BY <4>1, <5>1
          <5>3. CanRun(place[n], database)
            BY <2>1, <5>2, TheCommands
          <5>4. QED
            BY <2>1, <2>2, <3>1, <4>4, <5>3, StartupAssumption
        <4>5. QED
          BY <3>3, <4>3, <4>4
      <3>5. UNCHANGED <<database, logged>> /\ ~logged
        BY <2>1, <3>1 DEF CloseDatabase, NoteOK
      <3>6. QED
        BY <2>1, <3>1, <3>2, <3>4, <3>5 DEF LockOK, NoteOK, Locked, Go, StartupInv, StartupTypeOK
    <2>3. QED
      BY <2>1, <2>2, ClosingMoves DEF Stages, StartupInv, StartupTypeOK
  <1>9. ASSUME NEW n \in Nodes, DownNothing(n)  PROVE StartupInv'
    <2>1. /\ stage[n] = "down" /\ Go(n, "started")
          /\ UNCHANGED <<place, view, database, logged, dbWriter, lock, stale, dbFaults, stalls>>
      BY <1>9 DEF DownNothing
    <2>2. dbFaults' = 0 /\ stalls' = 0 => LockOK' /\ NoteOK'
      BY <2>1 DEF StartupInv, StartupTypeOK, LockOK, NoteOK, Locked, Go
    <2>3. QED
      BY <2>1, <2>2, StageMoves DEF Stages, StartupInv, StartupTypeOK
  <1>10. ASSUME NEW n \in Nodes, Down(n)  PROVE StartupInv'
    <2>1. /\ stage[n] = "down" /\ logged /\ dbWriter = NoNode
          /\ database' = WithoutTables(database) /\ Go(n, "unlog")
          /\ UNCHANGED <<place, view, logged, dbWriter, lock, stale, dbFaults, stalls>>
      BY <1>10 DEF Down
    <2>2. database' = {}
      BY <2>1, TheCommands DEF StartupInv, StartupTypeOK
    <2>3. StartupTypeOK'
      BY <2>1, <2>2 DEF StartupInv, StartupTypeOK, Stages, Go
    <2>4. ASSUME NEW k \in Nodes  PROVE ~Migrates(k)'
      BY <2>1, StartupAssumption DEF StartupInv, StartupTypeOK, WriterOK, Migrates, Go
    <2>5. WriterOK'
      BY <2>1, <2>4, StartupAssumption DEF WriterOK
    <2>6. ~(dbFaults' = 0 /\ stalls' = 0)
      BY <2>1 DEF StartupInv, NoteOK
    <2>7. QED
      BY <2>3, <2>5, <2>6 DEF StartupInv
  <1>11. ASSUME NEW n \in Nodes, UnlogMigration(n)  PROVE StartupInv'
    <2>1. /\ stage[n] = "unlog" /\ Go(n, "started") /\ logged' = FALSE
          /\ UNCHANGED <<place, view, database, dbWriter, lock, stale, dbFaults, stalls>>
      BY <1>11 DEF UnlogMigration
    <2>2. ~(dbFaults' = 0 /\ stalls' = 0)
      BY <2>1 DEF StartupInv, NoteOK
    <2>3. QED
      BY <2>1, <2>2, StageMoves DEF Stages, StartupInv, StartupTypeOK
  <1>12. ASSUME NEW n \in Nodes, Stop(n) \/ Kill(n)  PROVE StartupInv'
    <2>1. /\ Go(n, "off") /\ CloseDatabase(n) /\ UNCHANGED <<dbFaults, stalls>>
          /\ \/ UNCHANGED <<lock, stale>>
             \/ Locked(n) /\ lock = n /\ lock' = NoNode /\ stale' = FALSE
      BY <1>12 DEF Stop, Kill, ReleaseLock
    <2>2. UNCHANGED <<database, logged>>
      BY <2>1 DEF CloseDatabase
    <2>3. dbFaults' = 0 /\ stalls' = 0 => LockOK' /\ NoteOK'
      BY <2>1, <2>2, StartupAssumption DEF StartupInv, StartupTypeOK, LockOK, NoteOK, Locked, Go
    <2>4. QED
      BY <2>1, <2>3, ClosingMoves DEF Stages, StartupInv, StartupTypeOK
  <1>13. CASE UNCHANGED startupVars
    BY <1>13 DEF startupVars, StartupInv, StartupTypeOK, WriterOK, Migrates, LockOK, NoteOK, Locked
  <1>14. QED
    BY <1>1, <1>2, <1>3, <1>4, <1>5, <1>6, <1>7, <1>8, <1>9, <1>10, <1>11, <1>12, <1>13
       DEF StartupNext

\* migrate.ts and 1-automigration.js, for any number of processes, kills and failures: the tables
\* come together or not at all, and while no command fails by itself and no process is suspended,
\* a node that has started has them.
THEOREM NodesStartOnTheirTables == StartupSpec => []NodeStartsOnItsTables
  <1>1. StartupInv => NodeStartsOnItsTables
    BY DEF StartupInv, StartupTypeOK, NoteOK, NodeStartsOnItsTables
  <1>2. QED  BY <1>1, StartupInvInit, StartupInvStep, PTL DEF StartupSpec

(***************************************************************************)
(* Pages and contract calls made of two entries.                           *)
(***************************************************************************)

CacheEntries == [value : Nat, age : 0..2]
PageRecords == [at : {"idle", "routes", "root", "static", "address", "abi", "replied"},
                second : Nat, first : Nat, calm : BOOLEAN,
                reply : {"none", "error", "file", "template", "result"}]

ProxyTypeOK ==
  /\ site \in [kind : SiteKinds, first : Nat, second : Nat]
  /\ firstCache \in CacheEntries /\ secondCache \in CacheEntries /\ zCache \in CacheEntries
  /\ page \in [PageRequests -> PageRecords]
  /\ quiet \in 0..CacheTicks

\* A cached value the registry no longer holds is not older than the change; in the cache
\* over the other it may be one tick older.
CachesOK ==
  /\ Hit(firstCache) /\ firstCache.value # site.first => quiet <= firstCache.age
  /\ Hit(secondCache) /\ secondCache.value # site.second => quiet <= secondCache.age
  /\ Hit(zCache) /\ zCache.value # site.second => quiet <= zCache.age + 1

\* What a calm request has read is what the registry holds.
PageOK(p) ==
  p.calm =>
    /\ quiet = CacheTicks
    /\ p.at \in {"routes", "root", "static", "abi"} => p.second = site.second
    /\ p.at \in {"root", "static", "address", "abi"} => p.first = site.first

\* A request is answered out of a page or call it has both parts of.
ReplyOK(p) == p.at \in {"idle", "routes", "root", "static", "address", "abi"} => p.reply = "none"

ProxyInv ==
  /\ ProxyTypeOK /\ CachesOK
  /\ \A r \in PageRequests : PageOK(page[r]) /\ ReplyOK(page[r])

\* The registry changes, and with it the caches of the node that changes it.
LEMMA RegistryMoves ==
  ASSUME ProxyInv, RegistryChanges, site' \in [kind : SiteKinds, first : Nat, second : Nat],
         firstCache' \in {firstCache, NotCached}, secondCache' \in {secondCache, NotCached},
         UNCHANGED zCache
  PROVE  ProxyInv'
  <1>1. ProxyTypeOK'
    <2>1. NotCached \in CacheEntries /\ quiet' \in 0..CacheTicks
      BY DEF RegistryChanges, CacheEntries, NotCached, CacheTicks
    <2>2. page' \in [PageRequests -> PageRecords]
      BY DEF RegistryChanges, ProxyInv, ProxyTypeOK, PageRecords
    <2>3. QED
      BY <2>1, <2>2 DEF ProxyInv, ProxyTypeOK
  <1>2. CachesOK'
    BY <1>1 DEF RegistryChanges, CachesOK, Hit, NotCached, ProxyTypeOK, CacheEntries
  <1>3. \A r \in PageRequests : /\ page'[r].calm = FALSE /\ page'[r].at = page[r].at
                                /\ page'[r].reply = page[r].reply
    BY DEF RegistryChanges, ProxyInv, ProxyTypeOK, PageRecords
  <1>4. \A r \in PageRequests : PageOK(page[r])' /\ ReplyOK(page[r])'
    BY <1>3 DEF ProxyInv, PageOK, ReplyOK
  <1>5. QED
    BY <1>1, <1>2, <1>4 DEF ProxyInv

\* A request goes on and leaves the caches as they should be.
LEMMA PageMoves ==
  ASSUME ProxyInv, NEW r \in PageRequests, NEW p \in PageRecords,
         page' = [page EXCEPT ![r] = p], PageOK(p), ReplyOK(p),
         UNCHANGED <<site, quiet>>, CachesOK',
         firstCache' \in CacheEntries, secondCache' \in CacheEntries, zCache' \in CacheEntries
  PROVE  ProxyInv'
  <1>1. page' \in [PageRequests -> PageRecords] /\ \A q \in PageRequests : page'[q] \in {p, page[q]}
    BY DEF ProxyInv, ProxyTypeOK
  <1>2. ProxyTypeOK'
    BY <1>1 DEF ProxyInv, ProxyTypeOK
  <1>3. ASSUME NEW q \in PageRequests  PROVE PageOK(page[q])' /\ ReplyOK(page[q])'
    <2>1. PICK s : s = page'[q] /\ PageOK(s) /\ ReplyOK(s)
      BY <1>1 DEF ProxyInv
    <2>2. QED
      BY <2>1 DEF PageOK, ReplyOK
  <1>4. QED
    BY <1>2, <1>3 DEF ProxyInv

\* After three quiet ticks every cache is right.
LEMMA QuietCachesAreRight ==
  ASSUME ProxyInv, quiet = CacheTicks
  PROVE  /\ Hit(firstCache) => firstCache.value = site.first
         /\ Hit(secondCache) => secondCache.value = site.second
         /\ Hit(zCache) => zCache.value = site.second
  BY DEF ProxyInv, ProxyTypeOK, CachesOK, Hit, CacheEntries, CacheTicks

LEMMA ProxyTickKeeps ==
  ASSUME ProxyInv, ProxyTick
  PROVE  ProxyInv'
  <1>1. \A e \in CacheEntries :
          /\ Older(e) \in CacheEntries
          /\ Hit(Older(e)) => Hit(e) /\ Older(e).value = e.value /\ Older(e).age = e.age + 1
    BY DEF CacheEntries, Older, Hit, NotCached
  <1>2. ProxyTypeOK'
    BY <1>1 DEF ProxyTick, ProxyInv, ProxyTypeOK, CacheTicks
  <1>3. quiet' <= quiet + 1 /\ (quiet = CacheTicks => quiet' = CacheTicks)
    BY DEF ProxyTick, ProxyInv, ProxyTypeOK, CacheTicks
  <1>4. CachesOK'
    <2>1. UNCHANGED site /\ quiet \in Nat /\ quiet' \in Nat
      BY <1>2 DEF ProxyTick, ProxyInv, ProxyTypeOK, CacheTicks
    <2>2. Hit(firstCache) /\ firstCache.value # site.first => quiet <= firstCache.age
      BY DEF ProxyInv, CachesOK
    <2>3. Hit(secondCache) /\ secondCache.value # site.second => quiet <= secondCache.age
      BY DEF ProxyInv, CachesOK
    <2>4. Hit(zCache) /\ zCache.value # site.second => quiet <= zCache.age + 1
      BY DEF ProxyInv, CachesOK
    <2>5. /\ firstCache.age \in Nat /\ secondCache.age \in Nat /\ zCache.age \in Nat
          /\ firstCache \in CacheEntries /\ secondCache \in CacheEntries /\ zCache \in CacheEntries
      BY DEF ProxyInv, ProxyTypeOK, CacheEntries
    <2>6. /\ firstCache' = Older(firstCache) /\ secondCache' = Older(secondCache)
          /\ zCache' = Older(zCache)
      BY DEF ProxyTick
    <2>7. Hit(firstCache)' /\ firstCache'.value # site'.first => quiet' <= firstCache'.age
      BY <1>1, <1>3, <2>1, <2>2, <2>5, <2>6 DEF Hit
    <2>8. Hit(secondCache)' /\ secondCache'.value # site'.second => quiet' <= secondCache'.age
      BY <1>1, <1>3, <2>1, <2>3, <2>5, <2>6 DEF Hit
    <2>9. Hit(zCache)' /\ zCache'.value # site'.second => quiet' <= zCache'.age + 1
      BY <1>1, <1>3, <2>1, <2>4, <2>5, <2>6 DEF Hit
    <2>10. QED
      BY <2>7, <2>8, <2>9 DEF CachesOK
  <1>5. \A r \in PageRequests : PageOK(page[r])' /\ ReplyOK(page[r])'
    BY <1>3 DEF ProxyTick, ProxyInv, PageOK, ReplyOK
  <1>6. QED
    BY <1>2, <1>4, <1>5 DEF ProxyInv

\* The look-ups of a page and of a call.
LEMMA LookUpsKeep ==
  ASSUME ProxyInv, NEW r \in PageRequests,
         GetRoutes(r) \/ GetBoth(r) \/ GetRootDir(r) \/ LoadAddress(r) \/ LoadAbi(r)
  PROVE  ProxyInv'
  <1> USE DEF NotCached, Fresh, Hit
  <1>1. /\ page[r] \in PageRecords /\ PageOK(page[r]) /\ ReplyOK(page[r])
        /\ site.first \in Nat /\ site.second \in Nat /\ quiet \in 0..3
        /\ firstCache \in CacheEntries /\ secondCache \in CacheEntries /\ zCache \in CacheEntries
        /\ CachesOK
    BY DEF ProxyInv, ProxyTypeOK, CacheTicks
  <1>2. \A v \in Nat : Fresh(v) \in CacheEntries
    BY DEF CacheEntries
  <1>3. \A e \in CacheEntries : e.value \in Nat /\ e.age \in 0..2
    BY DEF CacheEntries
  <1>4. CASE GetRoutes(r)
    <2> DEFINE v == IF Hit(zCache) THEN zCache.value
                    ELSE IF Hit(secondCache) THEN secondCache.value ELSE site.second
               p == [at |-> "routes", second |-> v, first |-> 0, calm |-> (quiet = CacheTicks),
                     reply |-> "none"]
    <2>1. /\ zCache' = IF Hit(zCache) THEN zCache ELSE Fresh(v)
          /\ secondCache' = IF Hit(zCache) \/ Hit(secondCache) THEN secondCache ELSE Fresh(v)
          /\ page' = [page EXCEPT ![r] = p]
          /\ UNCHANGED <<site, deploying, firstCache, quiet>>
      BY <1>4 DEF GetRoutes
    <2>2. v \in Nat
      BY <1>1, <1>3
    <2>3. p \in PageRecords /\ PageOK(p) /\ ReplyOK(p)
      BY <1>1, <2>2, QuietCachesAreRight DEF PageRecords, PageOK, ReplyOK
    <2>4. zCache' \in CacheEntries /\ secondCache' \in CacheEntries
      BY <1>1, <1>2, <2>1, <2>2
    <2>5. CachesOK'
      BY <1>1, <1>3, <2>1 DEF CachesOK
    <2> HIDE DEF p
    <2>6. QED
      BY <1>1, <2>1, <2>3, <2>4, <2>5, PageMoves
  <1>5. CASE GetBoth(r)
    <2> DEFINE p == [at |-> "root", second |-> site.second, first |-> site.first,
                     calm |-> (quiet = CacheTicks), reply |-> "none"]
    <2>1. /\ page' = [page EXCEPT ![r] = p]
          /\ UNCHANGED <<site, deploying, firstCache, secondCache, zCache, quiet>>
      BY <1>5 DEF GetBoth
    <2>2. p \in PageRecords /\ PageOK(p) /\ ReplyOK(p)
      BY <1>1 DEF PageRecords, PageOK, ReplyOK
    <2>3. CachesOK'
      BY <1>1, <2>1 DEF CachesOK
    <2> HIDE DEF p
    <2>4. QED
      BY <1>1, <2>1, <2>2, <2>3, PageMoves
  <1>6. CASE GetRootDir(r)
    <2> DEFINE v == IF Hit(firstCache) THEN firstCache.value ELSE site.first
               p == [page[r] EXCEPT !.at = "root", !.first = v]
    <2>1. /\ firstCache' = IF Hit(firstCache) THEN firstCache ELSE Fresh(v)
          /\ page' = [page EXCEPT ![r] = p] /\ page[r].at = "routes"
          /\ UNCHANGED <<site, deploying, secondCache, zCache, quiet>>
      BY <1>6 DEF GetRootDir
    <2>2. v \in Nat
      BY <1>1, <1>3
    <2>3. /\ p \in PageRecords /\ p.at = "root" /\ p.first = v /\ p.second = page[r].second
          /\ p.calm = page[r].calm /\ p.reply = page[r].reply
      BY <1>1, <2>2 DEF PageRecords
    <2>4. PageOK(p) /\ ReplyOK(p)
      BY <1>1, <2>1, <2>3, QuietCachesAreRight DEF PageOK, ReplyOK
    <2>5. CachesOK' /\ firstCache' \in CacheEntries
      BY <1>1, <1>2, <1>3, <2>1, <2>2 DEF CachesOK
    <2> HIDE DEF p
    <2>6. QED
      BY <1>1, <2>1, <2>3, <2>4, <2>5, PageMoves
  <1>7. CASE LoadAddress(r)
    <2> DEFINE v == IF Hit(firstCache) THEN firstCache.value ELSE site.first
               p == [at |-> "address", second |-> 0, first |-> v, calm |-> (quiet = CacheTicks),
                     reply |-> "none"]
    <2>1. /\ firstCache' = IF Hit(firstCache) THEN firstCache ELSE Fresh(v)
          /\ page' = [page EXCEPT ![r] = p]
          /\ UNCHANGED <<site, deploying, secondCache, zCache, quiet>>
      BY <1>7 DEF LoadAddress
    <2>2. v \in Nat
      BY <1>1, <1>3
    <2>3. p \in PageRecords /\ PageOK(p) /\ ReplyOK(p)
      BY <1>1, <2>2, QuietCachesAreRight DEF PageRecords, PageOK, ReplyOK
    <2>4. CachesOK' /\ firstCache' \in CacheEntries
      BY <1>1, <1>2, <1>3, <2>1, <2>2 DEF CachesOK
    <2> HIDE DEF p
    <2>5. QED
      BY <1>1, <2>1, <2>3, <2>4, PageMoves
  <1>8. CASE LoadAbi(r)
    <2> DEFINE v == IF Hit(secondCache) THEN secondCache.value ELSE site.second
               p == [page[r] EXCEPT !.at = "abi", !.second = v]
    <2>1. /\ secondCache' = IF Hit(secondCache) THEN secondCache ELSE Fresh(v)
          /\ page' = [page EXCEPT ![r] = p] /\ page[r].at = "address"
          /\ UNCHANGED <<site, deploying, firstCache, zCache, quiet>>
      BY <1>8 DEF LoadAbi
    <2>2. v \in Nat
      BY <1>1, <1>3
    <2>3. /\ p \in PageRecords /\ p.at = "abi" /\ p.second = v /\ p.first = page[r].first
          /\ p.calm = page[r].calm /\ p.reply = page[r].reply
      BY <1>1, <2>2 DEF PageRecords
    <2>4. PageOK(p) /\ ReplyOK(p)
      BY <1>1, <2>1, <2>3, QuietCachesAreRight DEF PageOK, ReplyOK
    <2>5. CachesOK' /\ secondCache' \in CacheEntries
      BY <1>1, <1>2, <1>3, <2>1, <2>2 DEF CachesOK
    <2> HIDE DEF p
    <2>6. QED
      BY <1>1, <2>1, <2>3, <2>4, <2>5, PageMoves
  <1>9. QED
    BY <1>4, <1>5, <1>6, <1>7, <1>8

\* The answers.
LEMMA AnswersKeep ==
  ASSUME ProxyInv, NEW r \in PageRequests, PageFails(r) \/ FulfillRequest(r) \/ CallContract(r)
  PROVE  ProxyInv'
  <1>1. /\ page[r] \in PageRecords /\ PageOK(page[r]) /\ ReplyOK(page[r])
        /\ firstCache \in CacheEntries /\ secondCache \in CacheEntries /\ zCache \in CacheEntries
    BY DEF ProxyInv, ProxyTypeOK
  <1>2. UNCHANGED <<site, firstCache, secondCache, zCache, quiet>>
    BY DEF PageFails, FulfillRequest, CallContract
  <1>3. CachesOK'
    BY <1>2 DEF ProxyInv, CachesOK, Hit
  <1>4. \/ \E y \in {"error", "file", "template", "result"} :
              page' = [page EXCEPT ![r].at = "replied", ![r].reply = y]
        \/ page[r].at = "root" /\ page' = [page EXCEPT ![r].at = "static"]
        \/ page[r].at = "abi" /\ page' = [page EXCEPT ![r].at = "idle"]
    BY DEF PageFails, FulfillRequest, CallContract
  <1>5. ASSUME NEW y \in {"error", "file", "template", "result"},
               page' = [page EXCEPT ![r].at = "replied", ![r].reply = y]
        PROVE  ProxyInv'
    <2> DEFINE p == [page[r] EXCEPT !.at = "replied", !.reply = y]
    <2>1. p \in PageRecords /\ p.at = "replied" /\ p.calm = page[r].calm
      BY <1>1 DEF PageRecords
    <2>2. PageOK(p) /\ ReplyOK(p)
      BY <1>1, <2>1 DEF PageOK, ReplyOK
    <2>3. page' = [page EXCEPT ![r] = p]
      BY <1>5
    <2> HIDE DEF p
    <2>4. QED
      BY <1>1, <1>2, <1>3, <2>1, <2>2, <2>3, PageMoves
  <1>6. ASSUME NEW s \in {"static", "idle"}, page' = [page EXCEPT ![r].at = s],
               s = "static" => page[r].at = "root", s = "idle" => page[r].at = "abi"
        PROVE  ProxyInv'
    <2> DEFINE p == [page[r] EXCEPT !.at = s]
    <2>1. /\ p \in PageRecords /\ p.at = s /\ p.calm = page[r].calm /\ p.reply = page[r].reply
          /\ p.first = page[r].first /\ p.second = page[r].second
      BY <1>1 DEF PageRecords
    <2>2. PageOK(p) /\ ReplyOK(p)
      BY <1>1, <1>6, <2>1 DEF PageOK, ReplyOK
    <2>3. page' = [page EXCEPT ![r] = p]
      BY <1>6
    <2> HIDE DEF p
    <2>4. QED
      BY <1>1, <1>2, <1>3, <2>1, <2>2, <2>3, PageMoves
  <1>7. QED
    BY <1>4, <1>5, <1>6

LEMMA ProxyInvInit == ProxyInit => ProxyInv
  <1> SUFFICES ASSUME ProxyInit PROVE ProxyInv
    OBVIOUS
  <1>1. /\ \A r \in PageRequests : page[r] =
             [at |-> "idle", second |-> 0, first |-> 0, calm |-> FALSE, reply |-> "none"]
        /\ page \in [PageRequests -> PageRecords]
    BY DEF ProxyInit, PageRecords
  <1>2. NotCached \in CacheEntries /\ ~Hit(NotCached)
    BY DEF NotCached, CacheEntries, Hit
  <1>3. ProxyTypeOK
    BY <1>1, <1>2 DEF ProxyInit, ProxyTypeOK, CacheTicks
  <1>4. QED
    BY <1>1, <1>2, <1>3 DEF ProxyInit, ProxyInv, CachesOK, PageOK, ReplyOK

LEMMA ProxyInvStep ==
  ASSUME ProxyInv, [ProxyNext]_proxyVars
  PROVE  ProxyInv'
  <1>1. CASE PutFirst
    <2>1. /\ RegistryChanges /\ UNCHANGED zCache
          /\ firstCache' \in {firstCache, NotCached} /\ secondCache' \in {secondCache, NotCached}
      BY <1>1 DEF PutFirst
    <2>2. site' \in [kind : SiteKinds, first : Nat, second : Nat]
      <3>1. \/ site' = [site EXCEPT !.first = site.first + 1, !.second = site.first + 1]
            \/ site' = [site EXCEPT !.first = site.first + 1]
        BY <1>1 DEF PutFirst
      <3>2. \A e \in [kind : SiteKinds, first : Nat, second : Nat], v \in Nat :
              /\ [e EXCEPT !.first = v, !.second = v] \in [kind : SiteKinds, first : Nat, second : Nat]
              /\ [e EXCEPT !.first = v] \in [kind : SiteKinds, first : Nat, second : Nat]
        OBVIOUS
      <3>3. site.first + 1 \in Nat
        BY DEF ProxyInv, ProxyTypeOK
      <3>4. QED
        BY <3>1, <3>2, <3>3 DEF ProxyInv, ProxyTypeOK
    <2>3. QED
      BY <2>1, <2>2, RegistryMoves
  <1>2. CASE PutSecond
    BY <1>2, RegistryMoves DEF PutSecond, ProxyInv, ProxyTypeOK
  <1>3. CASE AbandonDeployment \/ UNCHANGED proxyVars
    BY <1>3 DEF AbandonDeployment, proxyVars, ProxyInv, ProxyTypeOK, CachesOK, Hit, PageOK, ReplyOK
  <1>4. CASE ExpireEntry
    <2>1. /\ firstCache' \in {firstCache, NotCached} /\ secondCache' \in {secondCache, NotCached}
          /\ zCache' \in {zCache, NotCached} /\ UNCHANGED <<site, page, quiet>>
      BY <1>4 DEF ExpireEntry
    <2>2. NotCached \in CacheEntries /\ ~Hit(NotCached)
      BY DEF NotCached, CacheEntries, Hit
    <2>3. ProxyTypeOK'
      BY <2>1, <2>2 DEF ProxyInv, ProxyTypeOK
    <2>4. CachesOK'
      BY <2>1, <2>2 DEF ProxyInv, CachesOK, Hit
    <2>5. QED
      BY <2>1, <2>3, <2>4 DEF ProxyInv, PageOK, ReplyOK
  <1>5. QED
    BY <1>1, <1>2, <1>3, <1>4, ProxyTickKeeps, LookUpsKeep, AnswersKeep DEF ProxyNext

\* A request is answered out of the two entries as the registry holds them, unless the registry
\* changed in its time or in the minute before, for any number of requests and deployments.
THEOREM PagesAreOfOneVersion == ProxySpec => PartsAreOfOneVersion
  <1>1. ASSUME ProxyInv, [ProxyNext]_proxyVars
        PROVE  [\A r \in PageRequests :
                  page'[r].reply \in {"file", "template", "result"} /\ page[r].reply = "none"
                    /\ page[r].calm =>
                    page[r].second = site.second /\ page[r].first = site.first]_proxyVars
    <2> SUFFICES ASSUME NEW r \in PageRequests, page[r].calm, page[r].reply = "none",
                        page'[r].reply \in {"file", "template", "result"}
                 PROVE  page[r].second = site.second /\ page[r].first = site.first
      OBVIOUS
    <2>1. page[r] \in PageRecords /\ PageOK(page[r])
      BY <1>1 DEF ProxyInv, ProxyTypeOK
    <2>2. page[r].at \in {"root", "static", "abi"}
      <3>1. page'[r] # page[r]
        OBVIOUS
      <3>2. page \in [PageRequests -> PageRecords]
        BY <1>1 DEF ProxyInv, ProxyTypeOK
      <3>3. ~RegistryChanges
        BY <3>2 DEF RegistryChanges, PageRecords
      <3>4. PICK q \in PageRequests : \/ GetRoutes(q) \/ GetBoth(q) \/ GetRootDir(q)
                                      \/ PageFails(q) \/ FulfillRequest(q)
                                      \/ LoadAddress(q) \/ LoadAbi(q) \/ CallContract(q)
        BY <1>1, <3>1, <3>3
           DEF ProxyNext, PutFirst, PutSecond, AbandonDeployment, ProxyTick, ExpireEntry, proxyVars
      <3>5. CASE GetRoutes(q) \/ GetBoth(q) \/ LoadAddress(q)
        BY <3>1, <3>2, <3>5 DEF GetRoutes, GetBoth, LoadAddress
      <3>6. CASE GetRootDir(q)
        BY <3>2, <3>6 DEF GetRootDir, PageRecords
      <3>7. CASE LoadAbi(q)
        BY <3>2, <3>7 DEF LoadAbi, PageRecords
      <3>8. CASE PageFails(q)
        BY <3>2, <3>8 DEF PageFails, PageRecords
      <3>9. CASE FulfillRequest(q)
        BY <3>1, <3>2, <3>9 DEF FulfillRequest, PageRecords
      <3>10. CASE CallContract(q)
        BY <3>1, <3>2, <3>10 DEF CallContract, PageRecords
      <3>11. QED
        BY <3>4, <3>5, <3>6, <3>7, <3>8, <3>9, <3>10
    <2>3. QED
      BY <2>1, <2>2 DEF PageOK
  <1>2. QED
    BY <1>1, ProxyInvInit, ProxyInvStep, PTL DEF ProxySpec, PartsAreOfOneVersion

(***************************************************************************)
(* The record of a domain.                                                 *)
(***************************************************************************)

WriterStages == {"idle", "asking", "told", "owner", "writing", "sleeping", "sending", "sent",
                 "done", "failed"}
WriterRecords == [at : WriterStages, data : SUBSET RecordKeys, reading : Readings,
                  tx : {"none", "create", "update"}, retried : BOOLEAN, calm : BOOLEAN]
CachedRecords == [content : SUBSET RecordKeys, misread : BOOLEAN, age : 0..2]

RecordsTypeOK ==
  /\ service \in {"SNS", "ENS"}
  /\ record \in (SUBSET RecordKeys) \cup {Missing}
  /\ service = "ENS" => record \subseteq {"root", "alias"}
  /\ domainCache \in CachedRecords
  /\ writer \in [Writers -> WriterRecords]
  /\ visitor \in [Visitors -> [at : {"idle", "asking", "told"}, reading : Readings]]
  /\ sinceMined \in 0..2

Content == IF record = Missing THEN {} ELSE record
Agrees(reading) == reading.misread \/ reading.content = Content

\* A cached content that is no longer the record's is not older than the change.
CachedOK ==
  Cached /\ ~domainCache.misread => domainCache.content = Content \/ sinceMined <= domainCache.age

\* An answer that is not yet used may have been overtaken, but not by more than a tick.
NewsOK(x) == x.at = "told" => Agrees(x.reading) \/ sinceMined = 0

\* A calm writer works on the content of the record, and sends it only to one that is there.
WritingOK(x) ==
  /\ NewsOK(x)
  /\ x.calm /\ (x.at \in {"told", "owner", "writing", "sleeping", "sending"} \/ x.tx = "update") =>
        x.reading.content = Content
  /\ x.tx = "update" => x.at \in {"sent", "done"} /\ record # Missing
  /\ x.at # "idle" => x.data \in {{"key"}, {"root"}, {"alias"}} \ (IF service = "ENS" THEN {{"key"}} ELSE {})

RecordsInv ==
  /\ RecordsTypeOK /\ CachedOK
  /\ \A v \in Visitors : NewsOK(visitor[v])
  /\ \A w \in Writers : WritingOK(writer[w])

\* A writer goes on; the record stays.
LEMMA WriterMoves ==
  ASSUME RecordsInv, NEW w \in Writers, NEW x \in WriterRecords, writer' = [writer EXCEPT ![w] = x],
         WritingOK(x), UNCHANGED <<service, record, visitor, sinceMined>>,
         domainCache' \in CachedRecords, CachedOK'
  PROVE  RecordsInv'
  <1>1. writer' \in [Writers -> WriterRecords] /\ \A u \in Writers : writer'[u] \in {x, writer[u]}
    BY DEF RecordsInv, RecordsTypeOK
  <1>2. RecordsTypeOK'
    BY <1>1 DEF RecordsInv, RecordsTypeOK
  <1>3. ASSUME NEW u \in Writers  PROVE WritingOK(writer[u])'
    <2>1. PICK y : y = writer'[u] /\ WritingOK(y)
      BY <1>1 DEF RecordsInv
    <2>2. QED
      BY <2>1 DEF WritingOK, NewsOK, Agrees, Content
  <1>4. \A v \in Visitors : NewsOK(visitor[v])'
    BY DEF RecordsInv, NewsOK, Agrees, Content
  <1>5. QED
    BY <1>2, <1>3, <1>4 DEF RecordsInv

\* A visitor goes on.
LEMMA VisitorMoves ==
  ASSUME RecordsInv, NEW v \in Visitors, NEW x \in [at : {"idle", "asking", "told"}, reading : Readings],
         visitor' = [visitor EXCEPT ![v] = x], NewsOK(x),
         UNCHANGED <<service, record, writer, sinceMined>>,
         domainCache' \in CachedRecords, CachedOK'
  PROVE  RecordsInv'
  <1>1. /\ visitor' \in [Visitors -> [at : {"idle", "asking", "told"}, reading : Readings]]
        /\ \A u \in Visitors : visitor'[u] \in {x, visitor[u]}
    BY DEF RecordsInv, RecordsTypeOK
  <1>2. RecordsTypeOK'
    BY <1>1 DEF RecordsInv, RecordsTypeOK
  <1>3. ASSUME NEW u \in Visitors  PROVE NewsOK(visitor[u])'
    <2>1. PICK y : y = visitor'[u] /\ NewsOK(y)
      BY <1>1 DEF RecordsInv
    <2>2. QED
      BY <2>1 DEF NewsOK, Agrees, Content
  <1>4. \A w \in Writers : WritingOK(writer[w])'
    BY DEF RecordsInv, WritingOK, NewsOK, Agrees, Content
  <1>5. QED
    BY <1>2, <1>3, <1>4 DEF RecordsInv

\* What the chain answers, and what is put in the cache.
LEMMA ReadingsAgree ==
  ASSUME RecordsInv, NEW reading \in ChainReadings
  PROVE  reading \in Readings /\ Agrees(reading)
  <1>1. Content \in SUBSET RecordKeys /\ {} \in SUBSET RecordKeys
    BY DEF RecordsInv, RecordsTypeOK, Content
  <1>2. \/ reading = [content |-> Content, misread |-> FALSE]
        \/ reading = [content |-> {}, misread |-> TRUE]
    BY DEF ChainReadings, Content
  <1>3. ASSUME NEW c \in SUBSET RecordKeys, NEW m \in BOOLEAN, reading = [content |-> c, misread |-> m]
        PROVE  reading \in Readings /\ reading.content = c /\ reading.misread = m
    BY <1>3 DEF Readings
  <1>4. QED
    BY <1>1, <1>2, <1>3 DEF Agrees

LEMMA CachesNews ==
  ASSUME RecordsInv, NEW reading \in Readings, Agrees(reading) \/ sinceMined = 0, AddEntryOf(reading),
         UNCHANGED <<record, sinceMined>>
  PROVE  domainCache' \in CachedRecords /\ CachedOK'
  BY DEF AddEntryOf, Readings, CachedRecords, CachedOK, Agrees, Content

LEMMA DropsCached ==
  ASSUME domainCache' = NoEntry
  PROVE  domainCache' \in CachedRecords /\ CachedOK'
  BY DEF NoEntry, CachedRecords, CachedOK, Cached

LEMMA KeepsCached ==
  ASSUME RecordsInv, UNCHANGED <<domainCache, record, sinceMined>>
  PROVE  domainCache' \in CachedRecords /\ CachedOK'
  BY DEF RecordsInv, RecordsTypeOK, CachedOK, Cached, Content

LEMMA VisitorsKeep ==
  ASSUME RecordsInv, NEW v \in Visitors, VisitDomain(v) \/ VisitorIsTold(v) \/ VisitorCaches(v)
  PROVE  RecordsInv'
  <1>1. NothingRead \in Readings /\ visitor[v] \in [at : {"idle", "asking", "told"}, reading : Readings]
    BY DEF NothingRead, Readings, RecordsInv, RecordsTypeOK
  <1>2. CASE VisitDomain(v)
    <2> DEFINE x == [visitor[v] EXCEPT !.at = "asking"]
    <2>1. /\ visitor' = [visitor EXCEPT ![v] = x]
          /\ UNCHANGED <<service, record, domainCache, writer, sinceMined>>
      BY <1>2 DEF VisitDomain
    <2>2. x \in [at : {"idle", "asking", "told"}, reading : Readings] /\ NewsOK(x)
      BY <1>1 DEF NewsOK
    <2> HIDE DEF x
    <2>3. QED
      BY <2>1, <2>2, KeepsCached, VisitorMoves
  <1>3. CASE VisitorIsTold(v)
    <2>1. PICK x : /\ visitor' = [visitor EXCEPT ![v] = x]
                   /\ \/ \E reading \in ChainReadings : x = [at |-> "told", reading |-> reading]
                      \/ x = [at |-> "idle", reading |-> NothingRead]
                   /\ UNCHANGED <<service, record, domainCache, writer, sinceMined>>
      BY <1>3 DEF VisitorIsTold
    <2>2. x \in [at : {"idle", "asking", "told"}, reading : Readings] /\ NewsOK(x)
      BY <1>1, <2>1, ReadingsAgree DEF NewsOK
    <2>3. QED
      BY <2>1, <2>2, KeepsCached, VisitorMoves
  <1>4. CASE VisitorCaches(v)
    <2> DEFINE x == [at |-> "idle", reading |-> NothingRead]
    <2>1. /\ visitor' = [visitor EXCEPT ![v] = x] /\ visitor[v].at = "told"
          /\ AddEntryOf(visitor[v].reading)
          /\ UNCHANGED <<service, record, writer, sinceMined>>
      BY <1>4 DEF VisitorCaches
    <2>2. x \in [at : {"idle", "asking", "told"}, reading : Readings] /\ NewsOK(x)
      BY <1>1 DEF NewsOK
    <2>3. visitor[v].reading \in Readings /\ (Agrees(visitor[v].reading) \/ sinceMined = 0)
      BY <1>1, <2>1 DEF RecordsInv, NewsOK
    <2>4. domainCache' \in CachedRecords /\ CachedOK'
      BY <2>1, <2>3, CachesNews
    <2> HIDE DEF x
    <2>5. QED
      BY <2>1, <2>2, <2>4, VisitorMoves
  <1>5. QED
    BY <1>2, <1>3, <1>4

LEMMA ReadersKeep ==
  ASSUME RecordsInv, NEW w \in Writers,
         \/ \E data \in {{"key"}, {"root"}, {"alias"}} : BeginWrite(w, data)
         \/ WriterIsTold(w) \/ WriterCaches(w)
  PROVE  RecordsInv'
  <1>1. /\ NothingRead \in Readings /\ writer[w] \in WriterRecords /\ WritingOK(writer[w])
        /\ domainCache \in CachedRecords /\ sinceMined \in 0..2
    BY DEF NothingRead, Readings, RecordsInv, RecordsTypeOK
  <1>2. ASSUME NEW data \in {{"key"}, {"root"}, {"alias"}}, BeginWrite(w, data)  PROVE RecordsInv'
    <2> DEFINE a == IF Cached THEN "owner" ELSE "asking"
               r == IF Cached THEN CachedReading ELSE NothingRead
               c == Settled(writer) /\ (Cached => ~domainCache.misread)
               x == [writer[w] EXCEPT !.data = data, !.at = a, !.reading = r, !.calm = c]
    <2>1. /\ writer[w].at = "idle"
          /\ service = "ENS" => data # {"key"}
          /\ writer' = [writer EXCEPT ![w] = x]
          /\ UNCHANGED <<service, record, domainCache, visitor, sinceMined>>
      BY <1>2 DEF BeginWrite
    <2>2. CachedReading \in Readings
      BY <1>1 DEF CachedReading, Readings, CachedRecords
    <2>3. c => sinceMined = 2 /\ (Cached => ~domainCache.misread)
      BY DEF Settled
    <2>4. a \in {"owner", "asking"} /\ r \in Readings /\ c \in BOOLEAN /\ data \in SUBSET RecordKeys
      BY <1>1, <2>2 DEF RecordKeys
    <2>5. c /\ a = "owner" => r.content = Content
      BY <1>1, <2>3 DEF RecordsInv, CachedOK, Cached, CachedReading, CachedRecords
    <2> HIDE DEF a, r, c
    <2>6. /\ x.at = a /\ x.reading = r /\ x.calm = c /\ x.data = data /\ x.tx = writer[w].tx
          /\ x \in WriterRecords
      <3>1. \A y \in WriterRecords :
              [y EXCEPT !.data = data, !.at = a, !.reading = r, !.calm = c] \in WriterRecords
        BY <2>4 DEF WriterRecords, WriterStages
      <3>2. QED
        BY <1>1, <2>4, <3>1 DEF WriterRecords
    <2>7. writer[w].tx # "update"
      BY <1>1, <2>1 DEF WritingOK, WriterRecords
    <2> HIDE DEF x
    <2>8. WritingOK(x)
      <3>1. data \in {{"key"}, {"root"}, {"alias"}} \ (IF service = "ENS" THEN {{"key"}} ELSE {})
        BY <1>2, <2>1
      <3>2. x.at \in {"owner", "asking"} /\ x.tx # "update" /\ (x.calm /\ x.at = "owner" => x.reading.content = Content)
        BY <2>4, <2>5, <2>6, <2>7
      <3>3. QED
        BY <2>6, <3>1, <3>2 DEF WritingOK, NewsOK
    <2>9. QED
      BY <2>1, <2>6, <2>8, KeepsCached, WriterMoves
  <1>3. CASE WriterIsTold(w)
    <2>1. writer[w].at = "asking" /\ UNCHANGED <<service, record, domainCache, visitor, sinceMined>>
      BY <1>3 DEF WriterIsTold
    <2>2. ASSUME NEW reading \in ChainReadings,
                 writer' = [writer EXCEPT ![w].at = "told", ![w].reading = reading,
                                          ![w].calm = @ /\ ~reading.misread]
          PROVE  RecordsInv'
      <3> DEFINE c == writer[w].calm /\ ~reading.misread
                 x == [writer[w] EXCEPT !.at = "told", !.reading = reading, !.calm = c]
      <3>1. reading \in Readings /\ Agrees(reading) /\ c \in BOOLEAN /\ (c => ~reading.misread)
        BY <1>1, ReadingsAgree DEF WriterRecords
      <3>2. writer' = [writer EXCEPT ![w] = x]
        BY <2>2
      <3> HIDE DEF c
      <3>3. /\ x.at = "told" /\ x.reading = reading /\ x.calm = c /\ x.data = writer[w].data
            /\ x.tx = writer[w].tx /\ x \in WriterRecords
        <4>1. \A y \in WriterRecords :
                [y EXCEPT !.at = "told", !.reading = reading, !.calm = c] \in WriterRecords
          BY <3>1 DEF WriterRecords, WriterStages
        <4>2. QED
          BY <1>1, <3>1, <4>1 DEF WriterRecords
      <3> HIDE DEF x
      <3>4. WritingOK(x)
        BY <1>1, <2>1, <3>1, <3>3 DEF WritingOK, NewsOK, Agrees
      <3>5. QED
        BY <2>1, <3>2, <3>3, <3>4, KeepsCached, WriterMoves
    <2>3. CASE writer' = [writer EXCEPT ![w].at = "failed"]
      <3> DEFINE x == [writer[w] EXCEPT !.at = "failed"]
      <3>1. /\ x.at = "failed" /\ x.tx = writer[w].tx /\ x.data = writer[w].data /\ x \in WriterRecords
        BY <1>1 DEF WriterRecords, WriterStages
      <3>2. WritingOK(x)
        BY <1>1, <2>1, <3>1 DEF WritingOK, NewsOK
      <3>3. writer' = [writer EXCEPT ![w] = x]
        BY <2>3
      <3> HIDE DEF x
      <3>4. QED
        BY <2>1, <3>1, <3>2, <3>3, KeepsCached, WriterMoves
    <2>4. QED
      BY <1>3, <2>2, <2>3 DEF WriterIsTold
  <1>4. CASE WriterCaches(w)
    <2> DEFINE x == [writer[w] EXCEPT !.at = "owner"]
    <2>1. /\ writer[w].at = "told" /\ AddEntryOf(writer[w].reading)
          /\ writer' = [writer EXCEPT ![w] = x]
          /\ UNCHANGED <<service, record, visitor, sinceMined>>
      BY <1>4 DEF WriterCaches
    <2>2. /\ x.at = "owner" /\ x.tx = writer[w].tx /\ x.data = writer[w].data
          /\ x.reading = writer[w].reading /\ x.calm = writer[w].calm /\ x \in WriterRecords
      BY <1>1 DEF WriterRecords, WriterStages
    <2>3. WritingOK(x)
      BY <1>1, <2>1, <2>2 DEF WritingOK, NewsOK
    <2>4. writer[w].reading \in Readings /\ (Agrees(writer[w].reading) \/ sinceMined = 0)
      BY <1>1, <2>1 DEF WritingOK, NewsOK, WriterRecords
    <2>5. domainCache' \in CachedRecords /\ CachedOK'
      BY <2>1, <2>4, CachesNews
    <2> HIDE DEF x
    <2>6. QED
      BY <2>1, <2>2, <2>3, <2>5, WriterMoves
  <1>5. QED
    BY <1>2, <1>3, <1>4

\* A writer that has read goes on to send.
LEMMA SendersKeep ==
  ASSUME RecordsInv, NEW w \in Writers,
         Prepare(w) \/ SetDomainContent(w) \/ Slept(w) \/ SendContent(w) \/ RemoveCached(w) \/ DropContent(w)
  PROVE  RecordsInv'
  <1>1. writer[w] \in WriterRecords /\ WritingOK(writer[w])
    BY DEF RecordsInv, RecordsTypeOK
  <1>2. UNCHANGED <<service, record, visitor, sinceMined>> /\ domainCache' \in {domainCache, NoEntry}
    BY DEF Prepare, SetDomainContent, Slept, SendContent, RemoveCached, DropContent
  <1>3. domainCache' \in CachedRecords /\ CachedOK'
    BY <1>2, DropsCached, KeepsCached
  <1>4. ASSUME NEW x \in WriterRecords, writer' = [writer EXCEPT ![w] = x],
               x.data = writer[w].data, x.reading = writer[w].reading, x.calm = writer[w].calm,
               writer[w].at # "idle", x.at # "told",
               x.at \in {"owner", "writing", "sleeping", "sending"} =>
                  writer[w].at \in {"owner", "writing", "sleeping", "sending"},
               x.tx = "update" =>
                  \/ writer[w].at = "sending" /\ x.at = "sent" /\ record # Missing
                  \/ writer[w].tx = "update" /\ x.at = "done"
        PROVE  RecordsInv'
    <2>1. WritingOK(x)
      BY <1>1, <1>4 DEF WritingOK, NewsOK
    <2>2. QED
      BY <1>2, <1>3, <1>4, <2>1, WriterMoves
  <1>5. ASSUME NEW s \in WriterStages, NEW t \in {"none", "create", "update"}, NEW b \in BOOLEAN,
               writer' = [writer EXCEPT ![w] = [writer[w] EXCEPT !.at = s, !.tx = t, !.retried = b]],
               writer[w].at # "idle", s # "told",
               s \in {"owner", "writing", "sleeping", "sending"} =>
                  writer[w].at \in {"owner", "writing", "sleeping", "sending"},
               t = "update" =>
                  \/ writer[w].at = "sending" /\ s = "sent" /\ record # Missing
                  \/ writer[w].tx = "update" /\ s = "done"
        PROVE  RecordsInv'
    <2> DEFINE x == [writer[w] EXCEPT !.at = s, !.tx = t, !.retried = b]
    <2>1. \A y \in WriterRecords : [y EXCEPT !.at = s, !.tx = t, !.retried = b] \in WriterRecords
      BY <1>5 DEF WriterRecords
    <2>2. /\ x \in WriterRecords /\ x.at = s /\ x.tx = t /\ x.data = writer[w].data
          /\ x.reading = writer[w].reading /\ x.calm = writer[w].calm
      BY <1>1, <1>5, <2>1 DEF WriterRecords
    <2>3. writer' = [writer EXCEPT ![w] = x]
      BY <1>5
    <2> HIDE DEF x
    <2>4. QED
      BY <1>4, <1>5, <2>2, <2>3
  <1>6. /\ writer \in [Writers -> WriterRecords]
        /\ writer[w].at \in WriterStages /\ writer[w].tx \in {"none", "create", "update"}
        /\ writer[w].retried \in BOOLEAN
        /\ \A y \in WriterRecords : /\ y = [y EXCEPT !.at = y.at] /\ y = [y EXCEPT !.tx = y.tx]
                                    /\ y = [y EXCEPT !.retried = y.retried]
    BY <1>1 DEF WriterRecords, RecordsInv, RecordsTypeOK
  <1>7. CASE Prepare(w)
    <2>1. PICK s \in {"writing", "failed"} : writer' = [writer EXCEPT ![w].at = s] /\ writer[w].at = "owner"
      BY <1>7 DEF Prepare
    <2>2. writer' = [writer EXCEPT ![w] =
                       [writer[w] EXCEPT !.at = s, !.tx = writer[w].tx, !.retried = writer[w].retried]]
      BY <1>6, <2>1 DEF WriterRecords
    <2>3. writer[w].tx # "update"
      BY <1>1, <2>1 DEF WritingOK, WriterRecords
    <2>4. QED
      BY <1>5, <1>6, <2>1, <2>2, <2>3 DEF WriterStages
  <1>8. CASE SetDomainContent(w)
    <2>1. writer[w].at = "writing" /\ writer[w].tx # "update"
      BY <1>1, <1>8 DEF SetDomainContent, WritingOK, WriterRecords
    <2>2. PICK s \in {"sleeping", "sending", "failed"}, t \in {"create", writer[w].tx} :
            writer' = [writer EXCEPT ![w] =
                       [writer[w] EXCEPT !.at = s, !.tx = t, !.retried = writer[w].retried]]
      <3>1. CASE writer' = [writer EXCEPT ![w].at = "sleeping", ![w].tx = "create"]
        <4>1. writer' = [writer EXCEPT ![w] =
                       [writer[w] EXCEPT !.at = "sleeping", !.tx = "create", !.retried = writer[w].retried]]
          BY <1>6, <3>1 DEF WriterRecords
        <4>2. QED
          BY <4>1
      <3>2. CASE \E s \in {"sending", "failed"} : writer' = [writer EXCEPT ![w].at = s]
        <4>1. PICK s \in {"sending", "failed"} : writer' = [writer EXCEPT ![w].at = s]
          BY <3>2
        <4>2. writer' = [writer EXCEPT ![w] =
                       [writer[w] EXCEPT !.at = s, !.tx = writer[w].tx, !.retried = writer[w].retried]]
          BY <1>6, <4>1 DEF WriterRecords
        <4>3. QED
          BY <4>2
      <3>3. QED
        BY <1>8, <3>1, <3>2 DEF SetDomainContent
    <2>3. QED
      BY <1>5, <1>6, <2>1, <2>2 DEF WriterStages
  <1>9. CASE Slept(w)
    <2>1. writer[w].at = "sleeping" /\ writer[w].tx # "update"
      BY <1>1, <1>9 DEF Slept, WritingOK, WriterRecords
    <2>2. writer' = [writer EXCEPT ![w] =
                       [writer[w] EXCEPT !.at = "sending", !.tx = writer[w].tx, !.retried = writer[w].retried]]
      BY <1>6, <1>9 DEF Slept, WriterRecords
    <2>3. QED
      BY <1>5, <1>6, <2>1, <2>2 DEF WriterStages
  <1>10. CASE SendContent(w)
    <2>1. writer[w].at = "sending" /\ writer[w].tx # "update"
      BY <1>1, <1>10 DEF SendContent, WritingOK, WriterRecords
    <2>2. CASE record # Missing /\ writer' = [writer EXCEPT ![w].at = "sent", ![w].tx = "update"]
      <3>1. writer' = [writer EXCEPT ![w] =
                       [writer[w] EXCEPT !.at = "sent", !.tx = "update", !.retried = writer[w].retried]]
        BY <1>6, <2>2 DEF WriterRecords
      <3>2. QED
        BY <1>5, <1>6, <2>1, <2>2, <3>1 DEF WriterStages
    <2>3. CASE \E s \in {"sleeping", "failed"} : writer' = [writer EXCEPT ![w].retried = TRUE, ![w].at = s]
      <3>1. PICK s \in {"sleeping", "failed"} : writer' = [writer EXCEPT ![w].retried = TRUE, ![w].at = s]
        BY <2>3
      <3>2. writer' = [writer EXCEPT ![w] =
                       [writer[w] EXCEPT !.at = s, !.tx = writer[w].tx, !.retried = TRUE]]
        BY <1>6, <3>1 DEF WriterRecords
      <3>3. QED
        BY <1>5, <1>6, <2>1, <3>1, <3>2 DEF WriterStages
    <2>4. QED
      BY <1>10, <2>2, <2>3 DEF SendContent
  <1>11. CASE RemoveCached(w)
    <2>1. writer[w].at = "sent"
      BY <1>11 DEF RemoveCached
    <2>2. writer' = [writer EXCEPT ![w] =
                       [writer[w] EXCEPT !.at = "done", !.tx = writer[w].tx, !.retried = writer[w].retried]]
      BY <1>6, <1>11 DEF RemoveCached, WriterRecords
    <2>3. QED
      BY <1>5, <1>6, <2>1, <2>2 DEF WriterStages
  <1>12. CASE DropContent(w)
    <2> DEFINE x == [writer[w] EXCEPT !.tx = "none"]
    <2>1. writer' = [writer EXCEPT ![w] = x]
      BY <1>12 DEF DropContent
    <2>2. /\ x \in WriterRecords /\ x.at = writer[w].at /\ x.tx = "none" /\ x.data = writer[w].data
          /\ x.reading = writer[w].reading /\ x.calm = writer[w].calm
      BY <1>1 DEF WriterRecords
    <2>3. WritingOK(x)
      BY <1>1, <2>2 DEF WritingOK, NewsOK
    <2> HIDE DEF x
    <2>4. QED
      BY <1>2, <1>3, <2>1, <2>2, <2>3, WriterMoves
  <1>13. QED
    BY <1>7, <1>8, <1>9, <1>10, <1>11, <1>12

\* A transaction is mined: what others read of the record is no longer calm.
LEMMA MinersKeep ==
  ASSUME RecordsInv, NEW w \in Writers, MineContent(w)
  PROVE  RecordsInv'
  <1>1. /\ writer \in [Writers -> WriterRecords] /\ \A u \in Writers : WritingOK(writer[u])
        /\ UNCHANGED <<service, domainCache, visitor>> /\ sinceMined' = 0
    BY DEF RecordsInv, RecordsTypeOK, MineContent, Changed
  <1>2. /\ record' \in (SUBSET RecordKeys) \cup {Missing}
        /\ service = "ENS" => record' \subseteq {"root", "alias"}
        /\ record' = record \/ Content' = Content \/ writer[w].tx = "update"
        /\ record # Missing => record' # Missing
    <2>1. writer[w] \in WriterRecords /\ WritingOK(writer[w]) /\ RecordsTypeOK
      BY <1>1 DEF RecordsInv
    <2>2. CASE writer[w].tx = "create" /\ record = Missing /\ record' = {}
      BY <2>1, <2>2 DEF RecordsTypeOK, Content, Missing
    <2>3. CASE UNCHANGED record
      BY <2>1, <2>3 DEF RecordsTypeOK
    <2>4. CASE writer[w].tx = "update" /\ record' = WrittenKeys(w)
      <3>1. /\ writer[w].data \in SUBSET RecordKeys /\ writer[w].reading.content \in SUBSET RecordKeys
            /\ service = "ENS" => writer[w].data \subseteq {"root", "alias"}
        BY <2>1, <2>4 DEF WriterRecords, Readings, WritingOK
      <3>2. /\ WrittenKeys(w) \in SUBSET RecordKeys
            /\ service = "ENS" => WrittenKeys(w) \subseteq {"root", "alias"}
        BY <2>1, <3>1 DEF WrittenKeys, MergeAndResolveConflicts, RecordsTypeOK
      <3>3. QED
        BY <2>4, <3>2 DEF RecordKeys, Missing
    <2>5. QED
      BY <2>2, <2>3, <2>4 DEF MineContent
  <1>3. ASSUME NEW u \in Writers
        PROVE  /\ writer'[u] \in WriterRecords /\ WritingOK(writer[u])'
    <2> DEFINE t == IF u = w THEN "none" ELSE writer[u].tx
               c == writer[u].calm /\ u = w
               x == [writer[u] EXCEPT !.tx = t, !.calm = c]
    <2>1. writer'[u] = x
      BY DEF MineContent, Changed
    <2>2. writer[u] \in WriterRecords /\ WritingOK(writer[u])
      BY <1>1
    <2>3. t \in {"none", "create", "update"} /\ c \in BOOLEAN
      BY <2>2 DEF WriterRecords
    <2>4. /\ t = "update" => writer[u].tx = "update"
          /\ c => u = w /\ writer[u].calm /\ t = "none"
      OBVIOUS
    <2> HIDE DEF t, c
    <2>5. /\ x \in WriterRecords /\ x.at = writer[u].at /\ x.tx = t /\ x.data = writer[u].data
          /\ x.reading = writer[u].reading /\ x.calm = c
      <3>1. \A y \in WriterRecords : [y EXCEPT !.tx = t, !.calm = c] \in WriterRecords
        BY <2>3 DEF WriterRecords
      <3>2. QED
        BY <2>2, <2>3, <3>1 DEF WriterRecords
    <2> HIDE DEF x
    <2>6. x.calm /\ (x.at \in {"told", "owner", "writing", "sleeping", "sending"} \/ x.tx = "update") =>
             x.reading.content = Content'
      <3>1. HAVE x.calm /\ (x.at \in {"told", "owner", "writing", "sleeping", "sending"} \/ x.tx = "update")
      <3>2. /\ u = w /\ writer[u].calm
            /\ writer[u].at \in {"told", "owner", "writing", "sleeping", "sending"}
        BY <2>4, <2>5, <3>1
      <3>3. writer[w].tx # "update" /\ writer[u].reading.content = Content
        BY <2>2, <3>2 DEF WritingOK, WriterRecords
      <3>4. Content' = Content
        BY <1>2, <3>3 DEF Content
      <3>5. QED
        BY <2>5, <3>3, <3>4
    <2>7. /\ x.tx = "update" => x.at \in {"sent", "done"} /\ record' # Missing
          /\ x.at # "idle" => x.data \in {{"key"}, {"root"}, {"alias"}} \
                                         (IF service' = "ENS" THEN {{"key"}} ELSE {})
      BY <1>1, <1>2, <2>2, <2>4, <2>5 DEF WritingOK
    <2>8. PICK y : y = x
      OBVIOUS
    <2>9. WritingOK(y)'
      BY <1>1, <2>6, <2>7, <2>8 DEF WritingOK, NewsOK
    <2>10. QED
      BY <2>1, <2>5, <2>8, <2>9
  <1>4. writer' \in [Writers -> WriterRecords]
    BY <1>3 DEF MineContent, Changed
  <1>5. RecordsTypeOK'
    BY <1>1, <1>2, <1>4 DEF RecordsInv, RecordsTypeOK
  <1>6. CachedOK' /\ \A v \in Visitors : NewsOK(visitor[v])'
    BY <1>1 DEF RecordsInv, RecordsTypeOK, CachedRecords, CachedOK, NewsOK
  <1>7. QED
    BY <1>3, <1>5, <1>6 DEF RecordsInv

\* Two minutes pass, or a cached record grows old.
LEMMA TimeKeeps ==
  ASSUME RecordsInv, ExpireDomain \/ DomainTick
  PROVE  RecordsInv'
  <1>1. UNCHANGED <<service, record, writer, visitor>>
    BY DEF ExpireDomain, DomainTick
  <1>2. domainCache \in CachedRecords /\ sinceMined \in 0..2
    BY DEF RecordsInv, RecordsTypeOK
  <1>3. CASE ExpireDomain
    <2>1. RecordsTypeOK' /\ CachedOK'
      BY <1>1, <1>3, DropsCached DEF ExpireDomain, RecordsInv, RecordsTypeOK
    <2>2. QED
      BY <1>1, <1>3, <2>1 DEF ExpireDomain, RecordsInv, WritingOK, NewsOK, Agrees, Content
  <1>4. CASE DomainTick
    <2>1. sinceMined' \in 0..2 /\ (sinceMined = 0 => sinceMined' = 1)
      BY <1>2, <1>4 DEF DomainTick
    <2>2. domainCache' \in CachedRecords /\ CachedOK'
      <3>1. CASE domainCache.age = 0
        <4>1. /\ domainCache' \in CachedRecords /\ domainCache'.age = 1
              /\ domainCache'.content = domainCache.content /\ domainCache'.misread = domainCache.misread
          BY <1>2, <1>4, <3>1 DEF DomainTick, CachedRecords
        <4>2. Cached /\ (~domainCache.misread => domainCache.content = Content \/ sinceMined = 0)
          BY <1>2, <3>1 DEF RecordsInv, CachedOK, Cached
        <4>3. QED
          BY <1>1, <2>1, <4>1, <4>2 DEF CachedOK, Content
      <3>2. CASE domainCache.age # 0
        BY <1>4, <3>2, DropsCached DEF DomainTick
      <3>3. QED
        BY <3>1, <3>2
    <2>3. \A v \in Visitors : NewsOK(visitor[v])'
      BY <1>1, <1>4 DEF DomainTick, NewsOK
    <2>4. \A w \in Writers : WritingOK(writer[w])'
      BY <1>1, <1>4 DEF DomainTick, RecordsInv, WritingOK, NewsOK, Content
    <2>5. QED
      BY <1>1, <2>1, <2>2, <2>3, <2>4 DEF RecordsInv, RecordsTypeOK
  <1>5. QED
    BY <1>3, <1>4

LEMMA RecordsInvInit ==
  ASSUME DomainInit  PROVE RecordsInv
  <1>1. NothingRead \in Readings /\ NoEntry \in CachedRecords
    BY DEF NothingRead, NoEntry, Readings, CachedRecords
  <1> DEFINE x == [at |-> "idle", data |-> {}, reading |-> NothingRead,
                   tx |-> "none", retried |-> FALSE, calm |-> FALSE]
             y == [at |-> "idle", reading |-> NothingRead]
  <1>2. x \in WriterRecords /\ y \in [at : {"idle", "asking", "told"}, reading : Readings]
    BY <1>1 DEF WriterRecords, WriterStages
  <1>3. x.at = "idle" /\ x.tx = "none" /\ x.calm = FALSE /\ y.at = "idle"
    OBVIOUS
  <1>4. writer = [w \in Writers |-> x] /\ visitor = [v \in Visitors |-> y]
    BY DEF DomainInit
  <1> HIDE DEF x, y
  <1>5. /\ service \in {"SNS", "ENS"} /\ record \in (SUBSET RecordKeys) \cup {Missing}
        /\ service = "ENS" => record \subseteq {"root", "alias"}
    <2>1. CASE service = "SNS"
      BY <2>1 DEF DomainInit, RecordKeys
    <2>2. CASE service = "ENS"
      BY <2>2 DEF DomainInit, RecordKeys
    <2>3. QED
      BY <2>1, <2>2 DEF DomainInit
  <1>6. domainCache = NoEntry /\ sinceMined = 2
    BY DEF DomainInit
  <1>7. RecordsTypeOK
    BY <1>1, <1>2, <1>4, <1>5, <1>6 DEF RecordsTypeOK
  <1>8. CachedOK
    BY <1>6 DEF CachedOK, Cached, NoEntry
  <1>9. (\A v \in Visitors : NewsOK(visitor[v])) /\ \A w \in Writers : WritingOK(writer[w])
    BY <1>3, <1>4 DEF NewsOK, WritingOK
  <1>10. QED
    BY <1>7, <1>8, <1>9 DEF RecordsInv

LEMMA RecordsInvStep ==
  ASSUME RecordsInv, [DomainNext]_domainVars
  PROVE  RecordsInv'
  <1>1. CASE UNCHANGED domainVars
    BY <1>1 DEF domainVars, RecordsInv, RecordsTypeOK, CachedOK, Cached, NewsOK, WritingOK, Agrees, Content
  <1>2. CASE DomainNext
    BY <1>2, VisitorsKeep, ReadersKeep, SendersKeep, MinersKeep, TimeKeeps DEF DomainNext
  <1>3. QED
    BY <1>1, <1>2

\* What a calm writer writes keeps what the record holds and its own key does not exclude.
LEMMA WritesKeepKeys ==
  ASSUME RecordsInv, [DomainNext]_domainVars, NEW w \in Writers, writer[w].tx = "update",
         record' # record, writer'[w].calm
  PROVE  record \subseteq record' \cup (IF writer[w].data = {"alias"} THEN {"root"}
                                        ELSE IF writer[w].data = {"root"} THEN {"alias"} ELSE {})
  <1>1. PICK u \in Writers : MineContent(u)
    BY DEF DomainNext, domainVars, VisitDomain, VisitorIsTold, VisitorCaches, BeginWrite, WriterIsTold,
           WriterCaches, Prepare, SetDomainContent, Slept, SendContent, RemoveCached, DropContent,
           ExpireDomain, DomainTick
  <1>2. writer[w] \in WriterRecords /\ WritingOK(writer[w]) /\ RecordsTypeOK
    BY DEF RecordsInv, RecordsTypeOK
  <1>3. u = w /\ writer[w].calm
    <2> DEFINE c == writer[w].calm /\ w = u
               t == IF w = u THEN "none" ELSE writer[w].tx
    <2>1. writer'[w] = [writer[w] EXCEPT !.tx = t, !.calm = c]
      BY <1>1 DEF MineContent, Changed
    <2> HIDE DEF t
    <2>2. c \in BOOLEAN
      BY <1>2 DEF WriterRecords
    <2>3. writer'[w].calm = c
      <3> HIDE DEF c
      <3>1. QED
        BY <1>2, <2>1 DEF WriterRecords
    <2>4. QED
      BY <2>2, <2>3
  <1>4. record' = WrittenKeys(w)
    BY <1>1, <1>3 DEF MineContent
  <1>5. /\ record # Missing /\ writer[w].reading.content = record
        /\ writer[w].data \in {{"key"}, {"root"}, {"alias"}} \ (IF service = "ENS" THEN {{"key"}} ELSE {})
    BY <1>2, <1>3 DEF WritingOK, Content
  <1>6. CASE service = "SNS"
    BY <1>4, <1>5, <1>6 DEF WrittenKeys, MergeAndResolveConflicts
  <1>7. CASE service = "ENS"
    <2>1. record \subseteq {"root", "alias"} /\ record' = writer[w].data
      BY <1>2, <1>4, <1>7 DEF RecordsTypeOK, WrittenKeys
    <2>2. writer[w].data \in {{"root"}, {"alias"}}
      BY <1>5, <1>7
    <2>3. QED
      BY <2>1, <2>2
  <1>8. QED
    BY <1>2, <1>6, <1>7 DEF RecordsTypeOK

\* setDomainContent and setPointReference preserve the content a domain has: the
\* write of a calm writer keeps every key that its own does not exclude.
THEOREM WritersKeepContent == DomainSpec => KeysSurvive
  <1>1. RecordsInv /\ [DomainNext]_domainVars =>
          [\A w \in Writers :
             writer[w].tx = "update" /\ record' # record /\ writer'[w].calm =>
               record \subseteq record' \cup
                 (IF writer[w].data = {"alias"} THEN {"root"}
                  ELSE IF writer[w].data = {"root"} THEN {"alias"} ELSE {})]_domainVars
    BY WritesKeepKeys
  <1>2. QED
    BY <1>1, RecordsInvInit, RecordsInvStep, PTL DEF DomainSpec, KeysSurvive


(***************************************************************************)
(* Streams of files and ranges.                                            *)
(***************************************************************************)

\* The bytes of the stream before chunk n, when it has sent what it should.
SentBefore(n) ==
  SentBytes = {b \in Announced : b < n * ChunkSize /\ b < streamSize /\ b \notin LostBytes}

StreamTypeOK ==
  /\ streamSize \in Nat /\ streamStart \in Nat \cup {NoRange}
  /\ sent \in Seq(Nat) /\ fetching \subseteq Nat
  /\ downloading \in BOOLEAN /\ streamClosed \in BOOLEAN /\ streamFull \in BOOLEAN
  /\ lastChunkIdx \in Int
  /\ streamState \in {"idle", "open", "ended", "error"}

\* What was sent is in order and in the range.
SentOK ==
  /\ \A k, m \in DOMAIN sent : k < m => sent[k] < sent[m]
  /\ SentBytes \subseteq Announced

\* An open stream downloads one chunk of the range, or none while it pauses.  Until it is
\* closed it has sent all before that chunk, or all up to the chunk it noted.
OpenOK ==
  /\ streamSize > ChunkSize
  /\ fetching = {} \/ \E i \in StartChunkIdx..EndChunkIdx : fetching = {i}
  /\ ~streamClosed =>
        /\ downloading <=> fetching # {}
        /\ \A i \in fetching : SentBefore(i)
        /\ fetching = {} => lastChunkIdx \in StartChunkIdx..EndChunkIdx /\ SentBefore(lastChunkIdx + 1)
  /\ streamClosed => ~downloading

\* A request was made, for the whole file or from a place in it.
Asked == streamSize > 0 /\ (Ranged => streamStart <= streamSize)

StreamInv ==
  /\ StreamTypeOK /\ SentOK
  /\ streamState = "idle" => sent = <<>> /\ fetching = {} /\ ~streamClosed
  /\ streamState # "idle" => Asked
  /\ streamState = "open" => OpenOK
  /\ streamState \in {"ended", "error"} => fetching = {}
  /\ streamState = "ended" /\ ~streamClosed
        => SentBytes = {b \in Announced : b < streamSize /\ b \notin LostBytes}

-----------------------------------------------------------------------------
(* Numbers and sequences *)

LEMMA Quotients ==
  ASSUME NEW a \in Nat, NEW d \in Nat \ {0}
  PROVE  a \div d \in Nat /\ (a \div d) * d <= a /\ a < (a \div d) * d + d
  BY Z3

LEMMA Multiples ==
  ASSUME NEW a \in Int, NEW b \in Int, NEW d \in Nat \ {0}
  PROVE  /\ a * d \in Int /\ (a + 1) * d = a * d + d
         /\ a < b => a * d + d <= b * d
  <1>1. a * d \in Int /\ (a + 1) * d = a * d + d
    BY Z3
  <1>2. ASSUME a < b PROVE a * d + d <= b * d
    <2> DEFINE e == b - a - 1
    <2>1. e \in Nat /\ b = a + 1 + e
      BY <1>2
    <2>2. e * d \in Nat
      BY <2>1, Z3
    <2>3. b * d = a * d + d + e * d
      BY <2>1, Z3
    <2>4. QED  BY <1>1, <2>2, <2>3
  <1>3. QED  BY <1>1, <1>2

\* Bytes(a, b) holds a to b - 1, in order.
LEMMA BytesAre ==
  ASSUME NEW a \in Nat, NEW b \in Int, NEW s, s = Bytes(a, b)
  PROVE  s \in Seq(Nat) /\ \A k, m \in DOMAIN s : k < m => s[k] < s[m]
  <1> DEFINE n == MaxOf(b - a, 0)
  <1>1. n \in Nat
    BY DEF MaxOf
  <1>2. s = [k \in 1..n |-> a + k - 1]
    BY DEF Bytes
  <1> HIDE DEF n
  <1>3. s \in Seq(Nat) /\ DOMAIN s = 1..n /\ \A k \in 1..n : s[k] = a + k - 1
    BY <1>1, <1>2
  <1>4. QED  BY <1>1, <1>3

LEMMA BytesMembers ==
  ASSUME NEW a \in Nat, NEW b \in Int, NEW s, s = Bytes(a, b), NEW x
  PROVE  x \in a..(b - 1) <=> \E k \in DOMAIN s : s[k] = x
  <1> DEFINE n == MaxOf(b - a, 0)
  <1>1. n \in Nat /\ (b > a => n = b - a) /\ (b <= a => n = 0)
    BY DEF MaxOf
  <1>2. s = [k \in 1..n |-> a + k - 1]
    BY DEF Bytes
  <1> HIDE DEF n
  <1>3. DOMAIN s = 1..n /\ \A k \in 1..n : s[k] = a + k - 1
    BY <1>1, <1>2
  <1>4. ASSUME x \in a..(b - 1) PROVE x - a + 1 \in DOMAIN s /\ s[x - a + 1] = x
    BY <1>1, <1>3, <1>4
  <1>5. \A k \in DOMAIN s : s[k] \in a..(b - 1)
    BY <1>1, <1>3
  <1>6. QED  BY <1>4, <1>5

\* Pushing bytes that come later keeps the order.
LEMMA PushKeepsOrder ==
  ASSUME NEW s \in Seq(Nat), NEW t \in Seq(Nat),
         \A k, m \in DOMAIN s : k < m => s[k] < s[m],
         \A k, m \in DOMAIN t : k < m => t[k] < t[m],
         \A k \in DOMAIN s, m \in DOMAIN t : s[k] < t[m]
  PROVE  /\ s \o t \in Seq(Nat)
         /\ \A k, m \in DOMAIN (s \o t) : k < m => (s \o t)[k] < (s \o t)[m]
         /\ {(s \o t)[k] : k \in DOMAIN (s \o t)} = {s[k] : k \in DOMAIN s} \cup {t[k] : k \in DOMAIN t}
  <1> DEFINE u == s \o t
  <1>1. u \in Seq(Nat) /\ Len(u) = Len(s) + Len(t) /\ DOMAIN u = 1..(Len(s) + Len(t))
    OBVIOUS
  <1>2. DOMAIN s = 1..Len(s) /\ DOMAIN t = 1..Len(t) /\ Len(s) \in Nat /\ Len(t) \in Nat
    OBVIOUS
  <1>3. \A k \in DOMAIN u : u[k] = IF k <= Len(s) THEN s[k] ELSE t[k - Len(s)]
    OBVIOUS
  <1> HIDE DEF u
  <1>4. ASSUME NEW k \in DOMAIN u, NEW m \in DOMAIN u, k < m PROVE u[k] < u[m]
    <2>1. CASE m <= Len(s)
      BY <1>1, <1>2, <1>3, <1>4, <2>1
    <2>2. CASE Len(s) < k
      <3>0. k \in Nat /\ m \in Nat /\ m <= Len(s) + Len(t)
        BY <1>1, <1>2, <1>4
      <3>1. k - Len(s) \in DOMAIN t /\ m - Len(s) \in DOMAIN t /\ k - Len(s) < m - Len(s)
        BY <1>2, <1>4, <2>2, <3>0
      <3>2. u[k] = t[k - Len(s)] /\ u[m] = t[m - Len(s)]
        BY <1>1, <1>2, <1>3, <1>4, <2>2
      <3>3. QED  BY <3>1, <3>2
    <2>3. CASE k <= Len(s) /\ Len(s) < m
      <3>1. k \in DOMAIN s /\ m - Len(s) \in DOMAIN t
        BY <1>1, <1>2, <1>4, <2>3
      <3>2. u[k] = s[k] /\ u[m] = t[m - Len(s)]
        BY <1>1, <1>2, <1>3, <1>4, <2>3
      <3>3. QED  BY <3>1, <3>2
    <2>4. QED  BY <1>1, <1>2, <1>4, <2>1, <2>2, <2>3
  <1>5. ASSUME NEW k \in DOMAIN u
        PROVE  u[k] \in {s[j] : j \in DOMAIN s} \cup {t[j] : j \in DOMAIN t}
    <2>1. k <= Len(s) => k \in DOMAIN s
      BY <1>1, <1>2, <1>5
    <2>2. k > Len(s) => k - Len(s) \in DOMAIN t
      BY <1>1, <1>2, <1>5
    <2>3. QED  BY <1>1, <1>2, <1>3, <2>1, <2>2
  <1>6. \A j \in DOMAIN s : j \in DOMAIN u /\ u[j] = s[j]
    BY <1>1, <1>2, <1>3
  <1>7. ASSUME NEW j \in DOMAIN t PROVE j + Len(s) \in DOMAIN u /\ u[j + Len(s)] = t[j]
    <2>1. j \in Nat /\ j >= 1 /\ j <= Len(t) /\ (j + Len(s)) - Len(s) = j
      BY <1>2, <1>7
    <2>2. j + Len(s) \in DOMAIN u
      BY <1>1, <1>2, <2>1
    <2>3. ~(j + Len(s) <= Len(s))
      BY <1>2, <2>1
    <2>4. u[j + Len(s)] = t[(j + Len(s)) - Len(s)]
      BY <1>3, <2>2, <2>3
    <2>5. QED  BY <2>1, <2>2, <2>4
  <1>8. {u[k] : k \in DOMAIN u} = {s[k] : k \in DOMAIN s} \cup {t[k] : k \in DOMAIN t}
    BY <1>5, <1>6, <1>7
  <1>9. QED  BY <1>1, <1>4, <1>8 DEF u

-----------------------------------------------------------------------------
(* Chunks and ranges *)

\* Where the range begins and ends among the chunks.
InChunks ==
  /\ First \in Nat /\ Final \in Nat /\ First <= Final
  /\ StartChunkIdx \in Nat /\ EndChunkIdx \in Int /\ StartChunkIdx <= EndChunkIdx
  /\ StartChunkIdx * ChunkSize <= First /\ First < StartChunkIdx * ChunkSize + ChunkSize
  /\ Ranged => EndChunkIdx * ChunkSize <= Final
  /\ Final < EndChunkIdx * ChunkSize + ChunkSize
  /\ \A i \in Int : i < ChunkCount => i * ChunkSize < streamSize
  /\ streamSize <= ChunkSize => ChunkCount = 1

LEMMA RangeInChunks == StreamTypeOK /\ Asked => InChunks
  <1> SUFFICES ASSUME StreamTypeOK, Asked PROVE InChunks
    OBVIOUS
  <1> USE RangeStreamAssumption DEF StreamTypeOK, Asked
  <1>1. First \in Nat /\ Final \in Nat /\ First <= Final
    BY DEF First, Final, MinOf, MaxOf, Ranged
  <1>2. /\ StartChunkIdx \in Nat /\ StartChunkIdx * ChunkSize <= First
        /\ First < StartChunkIdx * ChunkSize + ChunkSize
    BY <1>1, Quotients DEF StartChunkIdx
  <1>3. /\ ChunkCount \in Nat /\ ChunkCount * ChunkSize <= streamSize + ChunkSize - 1
        /\ streamSize - 1 < ChunkCount * ChunkSize
    <2>1. streamSize + ChunkSize - 1 \in Nat
      OBVIOUS
    <2> DEFINE n == streamSize + ChunkSize - 1
    <2>2. n \div ChunkSize \in Nat /\ (n \div ChunkSize) * ChunkSize <= n
          /\ n < (n \div ChunkSize) * ChunkSize + ChunkSize
      <3> HIDE DEF n
      <3>1. n \in Nat
        BY <2>1 DEF n
      <3>2. QED  BY <3>1, Quotients
    <2>3. ChunkCount = n \div ChunkSize
      BY DEF ChunkCount
    <2>4. ChunkCount * ChunkSize \in Int
      BY <2>2, <2>3, Multiples
    <2>5. QED  BY <2>2, <2>3, <2>4
  <1>4. ASSUME NEW i \in Int, i < ChunkCount PROVE i * ChunkSize < streamSize
    BY <1>3, <1>4, Multiples
  <1>5. ChunkCount >= 1
    <2>1. ChunkCount = 0 => ChunkCount * ChunkSize = 0
      BY <1>3
    <2>2. QED  BY <1>3, <2>1
  <1> DEFINE EndOK == /\ EndChunkIdx \in Int /\ StartChunkIdx <= EndChunkIdx
                      /\ Ranged => EndChunkIdx * ChunkSize <= Final
                      /\ Final < EndChunkIdx * ChunkSize + ChunkSize
  <1>6. ASSUME Ranged PROVE EndOK
    <2>1. /\ EndChunkIdx \in Nat /\ EndChunkIdx * ChunkSize <= Final
          /\ Final < EndChunkIdx * ChunkSize + ChunkSize
      BY <1>1, <1>6, Quotients DEF EndChunkIdx
    <2>2. StartChunkIdx <= EndChunkIdx
      <3>1. EndChunkIdx < StartChunkIdx => EndChunkIdx * ChunkSize + ChunkSize <= StartChunkIdx * ChunkSize
        BY <1>2, <2>1, Multiples
      <3>2. EndChunkIdx * ChunkSize \in Int /\ StartChunkIdx * ChunkSize \in Int
        BY <1>2, <2>1, Multiples
      <3>3. QED  BY <1>1, <1>2, <2>1, <3>1, <3>2
    <2>3. QED  BY <2>1, <2>2
  <1>7. ASSUME ~Ranged PROVE EndOK
    <2>1. EndChunkIdx = ChunkCount - 1 /\ First = 0 /\ Final = streamSize - 1
      BY <1>7 DEF EndChunkIdx, First, Final
    <2>2. EndChunkIdx \in Nat /\ EndChunkIdx * ChunkSize + ChunkSize = ChunkCount * ChunkSize
      <3>1. (EndChunkIdx + 1) * ChunkSize = EndChunkIdx * ChunkSize + ChunkSize
        BY <1>3, <2>1, Multiples
      <3>2. EndChunkIdx + 1 = ChunkCount
        BY <1>3, <2>1
      <3>3. QED  BY <1>3, <1>5, <2>1, <3>1, <3>2
    <2>3. StartChunkIdx = 0
      <3>1. StartChunkIdx > 0 => ChunkSize <= StartChunkIdx * ChunkSize
        BY <1>2, Multiples
      <3>2. QED  BY <1>2, <2>1, <3>1
    <2>4. Final < EndChunkIdx * ChunkSize + ChunkSize
      BY <1>3, <2>1, <2>2
    <2>5. QED  BY <2>2, <2>3, <2>4, <1>7
  <1>8. ASSUME streamSize <= ChunkSize PROVE ChunkCount = 1
    <2>1. 1 < ChunkCount => ChunkSize + ChunkSize <= ChunkCount * ChunkSize
      BY <1>3, Multiples
    <2>2. ChunkCount * ChunkSize \in Int
      BY <1>3, Multiples
    <2>3. QED  BY <1>3, <1>5, <1>8, <2>1, <2>2
  <1>9. QED  BY <1>1, <1>2, <1>4, <1>6, <1>7, <1>8 DEF InChunks

\* pushChunk of a chunk of the range pushes, in order, its bytes of the range but for those that
\* the negative index leaves out.
LEMMA SliceIsTheRange ==
  ASSUME StreamTypeOK, Asked, NEW i \in StartChunkIdx..EndChunkIdx, i < ChunkCount
  PROVE  /\ Slice(i) \in Seq(Nat)
         /\ \A k, m \in DOMAIN Slice(i) : k < m => Slice(i)[k] < Slice(i)[m]
         /\ {Slice(i)[k] : k \in DOMAIN Slice(i)} =
               {b \in Announced : /\ i * ChunkSize <= b /\ b < (i + 1) * ChunkSize
                                  /\ b < streamSize /\ b \notin LostBytes}
  <1> USE RangeStreamAssumption DEF StreamTypeOK, Asked
  <1> DEFINE base == i * ChunkSize
             n == ChunkLength(i)
             front == StartChunkIdx * ChunkSize
  <1>1. /\ First \in Nat /\ Final \in Nat /\ First <= Final
        /\ StartChunkIdx \in Nat /\ EndChunkIdx \in Int /\ StartChunkIdx <= EndChunkIdx
        /\ front <= First /\ First < front + ChunkSize
        /\ Ranged => EndChunkIdx * ChunkSize <= Final
        /\ base < streamSize
    BY RangeInChunks DEF InChunks
  <1>2. i \in Nat
    BY <1>1
  <1>3. base \in Int /\ front \in Int /\ (i + 1) * ChunkSize = base + ChunkSize
    BY <1>1, <1>2, Multiples
  <1>4. Ranged => base <= Final
    <2>1. i < EndChunkIdx => base + ChunkSize <= EndChunkIdx * ChunkSize
      BY <1>1, <1>2, Multiples
    <2>2. EndChunkIdx * ChunkSize \in Int
      BY <1>1, Multiples
    <2>3. i = EndChunkIdx \/ i < EndChunkIdx
      BY <1>1, <1>2
    <2>4. QED  BY <1>1, <1>3, <2>1, <2>2, <2>3
  <1>5. (StartChunkIdx + 1) * ChunkSize = front + ChunkSize
    BY <1>1, Multiples
  <1>6. /\ i = StartChunkIdx => base = front
        /\ i = StartChunkIdx + 1 => base = front + ChunkSize
        /\ i > StartChunkIdx + 1 => base >= front + ChunkSize + ChunkSize
        /\ base >= 0
    <2>1. i > StartChunkIdx + 1 => (StartChunkIdx + 1) * ChunkSize + ChunkSize <= base
      BY <1>1, <1>2, Multiples
    <2>2. i > StartChunkIdx => front + ChunkSize <= base
      BY <1>1, <1>2, Multiples
    <2>3. front >= 0
      <3>1. 0 < StartChunkIdx => 0 * ChunkSize + ChunkSize <= front
        BY <1>1, Multiples
      <3>2. StartChunkIdx = 0 => front = 0
        OBVIOUS
      <3>3. QED  BY <1>1, <1>3, <3>1, <3>2
    <2>4. i = StartChunkIdx \/ i > StartChunkIdx
      BY <1>1, <1>2
    <2>5. i = StartChunkIdx => base = front
      OBVIOUS
    <2>6. i = StartChunkIdx + 1 => base = front + ChunkSize
      BY <1>5
    <2>7. QED  BY <1>3, <1>5, <2>1, <2>2, <2>3, <2>4, <2>5, <2>6
  <1> HIDE DEF base, front
  <1>7. n \in Nat /\ n = (IF ChunkSize < streamSize - base THEN ChunkSize ELSE streamSize - base) /\ n > 0
    BY <1>1, <1>3, <1>6 DEF ChunkLength, MinOf, base
  <1> HIDE DEF n
  <1> DEFINE Part == {b \in Announced : base <= b /\ b < base + ChunkSize /\ b < streamSize /\ b \notin LostBytes}
             Goal == /\ Slice(i) \in Seq(Nat)
                     /\ \A k, m \in DOMAIN Slice(i) : k < m => Slice(i)[k] < Slice(i)[m]
                     /\ \A b : b \in Part <=> \E k \in DOMAIN Slice(i) : Slice(i)[k] = b
  <1>8. Announced = First..Final
    BY DEF Announced
  <1>9. ASSUME ~Ranged PROVE Goal
    <2> DEFINE z == base + n
    <2>1. Slice(i) = Bytes(base, z)
      BY <1>9 DEF Slice, base, n
    <2>2. base \in Nat /\ z \in Int
      BY <1>3, <1>6, <1>7
    <2>3. base..(z - 1) = Part
      <3>1. First = 0 /\ Final = streamSize - 1 /\ LostBytes = {}
        BY <1>9 DEF First, Final, LostBytes
      <3>2. QED  BY <1>1, <1>3, <1>6, <1>7, <1>8, <3>1
    <2> HIDE DEF Part, z
    <2>4. \A b : b \in Part <=> \E k \in DOMAIN Slice(i) : Slice(i)[k] = b
      <3>1. \A b : b \in base..(z - 1) <=> \E k \in DOMAIN Slice(i) : Slice(i)[k] = b
        BY <2>1, <2>2, BytesMembers, SMTT(30)
      <3>2. QED  BY <2>3, <3>1
    <2>5. QED  BY <2>1, <2>2, <2>4, BytesAre
  <1>10. ASSUME Ranged PROVE Goal
    <2> DEFINE a == base + SliceIndex(First - base, n)
               z == base + SliceIndex(Final - base + 1, n)
               second == front + ChunkSize
               m == MinOf(ChunkSize, streamSize - second)
               lost == MaxOf(m - (second - First), 0)
    <2>1. Slice(i) = Bytes(a, z)
      BY <1>10 DEF Slice, base, n
    <2>2. z = (IF Final + 1 < base + n THEN Final + 1 ELSE base + n)
      BY <1>1, <1>3, <1>4, <1>7, <1>10 DEF SliceIndex, MinOf, MaxOf
    <2>3. LostBytes = IF streamSize > front + ChunkSize
                      THEN (front + ChunkSize)..(front + ChunkSize + lost - 1) ELSE {}
      <3>1. LostBytes = IF m > 0 THEN second..(second + lost - 1) ELSE {}
        BY <1>5, <1>10 DEF LostBytes, front
      <3>2. m > 0 <=> streamSize > second
        BY <1>3 DEF MinOf
      <3> HIDE DEF m, lost, second
      <3>3. LostBytes = IF streamSize > second THEN second..(second + lost - 1) ELSE {}
        BY <3>1, <3>2
      <3>4. QED  BY <3>3 DEF second
    <2>4. lost \in Nat /\ (streamSize > front + ChunkSize => lost < ChunkSize)
      BY <1>1, <1>3 DEF MinOf, MaxOf
    <2>5. CASE i = StartChunkIdx
      <3>1. a = (IF First < base + n THEN First ELSE base + n)
        BY <1>1, <1>3, <1>6, <1>7, <2>5 DEF SliceIndex, MinOf, MaxOf
      <3>2. a..(z - 1) = Part
        <4> HIDE DEF a, z, lost
        <4>1. QED  BY <1>1, <1>3, <1>6, <1>7, <1>8, <2>2, <2>3, <2>4, <2>5, <3>1
      <3>3. a \in Nat /\ z \in Int
        BY <1>1, <1>3, <1>6, <1>7, <2>2, <3>1
      <3> HIDE DEF a, z, Part
      <3>4. \A b : b \in Part <=> \E k \in DOMAIN Slice(i) : Slice(i)[k] = b
        <4>1. \A b : b \in a..(z - 1) <=> \E k \in DOMAIN Slice(i) : Slice(i)[k] = b
          BY <2>1, <3>3, BytesMembers
        <4>2. QED  BY <3>2, <4>1
      <3>5. QED  BY <2>1, <3>3, <3>4, BytesAre
    <2>6. CASE i = StartChunkIdx + 1
      <3>1. n = MinOf(ChunkSize, streamSize - (front + ChunkSize)) /\ streamSize > front + ChunkSize
        BY <1>1, <1>3, <1>6, <1>7, <2>6 DEF MinOf
      <3>2. a = base + lost
        BY <1>1, <1>3, <1>6, <1>7, <2>6, <3>1 DEF SliceIndex, MinOf, MaxOf
      <3>3. a..(z - 1) = Part
        <4> HIDE DEF a, z, lost
        <4>1. QED  BY <1>1, <1>3, <1>6, <1>7, <1>8, <2>2, <2>3, <2>4, <2>6, <3>1, <3>2
      <3>4. a \in Nat /\ z \in Int
        BY <1>1, <1>3, <1>6, <1>7, <2>2, <2>4, <3>2
      <3> HIDE DEF a, z, Part
      <3>5. \A b : b \in Part <=> \E k \in DOMAIN Slice(i) : Slice(i)[k] = b
        <4>1. \A b : b \in a..(z - 1) <=> \E k \in DOMAIN Slice(i) : Slice(i)[k] = b
          BY <2>1, <3>4, BytesMembers
        <4>2. QED  BY <3>3, <4>1
      <3>6. QED  BY <2>1, <3>4, <3>5, BytesAre
    <2>7. CASE i > StartChunkIdx + 1
      <3>1. a = base
        BY <1>1, <1>3, <1>6, <1>7, <2>7 DEF SliceIndex, MinOf, MaxOf
      <3>2. a..(z - 1) = Part
        <4> HIDE DEF a, z, lost
        <4>1. QED  BY <1>1, <1>3, <1>6, <1>7, <1>8, <2>2, <2>3, <2>4, <2>7, <3>1
      <3>3. a \in Nat /\ z \in Int
        BY <1>1, <1>3, <1>6, <1>7, <2>2, <3>1
      <3> HIDE DEF a, z, Part
      <3>4. \A b : b \in Part <=> \E k \in DOMAIN Slice(i) : Slice(i)[k] = b
        <4>1. \A b : b \in a..(z - 1) <=> \E k \in DOMAIN Slice(i) : Slice(i)[k] = b
          BY <2>1, <3>3, BytesMembers
        <4>2. QED  BY <3>2, <4>1
      <3>5. QED  BY <2>1, <3>3, <3>4, BytesAre
    <2>8. QED  BY <1>1, <1>2, <2>5, <2>6, <2>7
  <1>11. Part = {b \in Announced : /\ i * ChunkSize <= b /\ b < (i + 1) * ChunkSize
                                  /\ b < streamSize /\ b \notin LostBytes}
    BY <1>3 DEF base
  <1> HIDE DEF Part
  <1>12. {Slice(i)[k] : k \in DOMAIN Slice(i)} = Part
    BY <1>9, <1>10
  <1>13. QED  BY <1>9, <1>10, <1>11, <1>12

-----------------------------------------------------------------------------
(* The invariant of a stream *)

\* A chunk of the range that arrives while the stream is open is pushed after what was sent.
LEMMA PushSendsTheChunk ==
  ASSUME StreamTypeOK, SentOK, Asked, NEW i \in StartChunkIdx..EndChunkIdx, i < ChunkCount,
         SentBefore(i), sent' = sent \o Slice(i), UNCHANGED <<streamSize, streamStart>>
  PROVE  sent' \in Seq(Nat) /\ SentOK' /\ SentBefore(i + 1)'
  <1> DEFINE t == Slice(i)
             low == i * ChunkSize
             high == (i + 1) * ChunkSize
             Before(x) == {b \in Announced : b < x /\ b < streamSize /\ b \notin LostBytes}
             Pushed == {b \in Announced : low <= b /\ b < high /\ b < streamSize /\ b \notin LostBytes}
  <1>1. /\ t \in Seq(Nat) /\ \A k, m \in DOMAIN t : k < m => t[k] < t[m]
        /\ {t[k] : k \in DOMAIN t} = Pushed
    BY SliceIsTheRange
  <1>2. {sent[k] : k \in DOMAIN sent} = Before(low)
    BY DEF SentBefore, SentBytes
  <1>3. low \in Int /\ high \in Int /\ low <= high
    <2>1. i \in Int
      BY RangeInChunks DEF InChunks
    <2>2. i * ChunkSize \in Int /\ (i + 1) * ChunkSize = i * ChunkSize + ChunkSize
      BY <2>1, RangeStreamAssumption, Multiples
    <2>3. QED  BY <2>2, RangeStreamAssumption
  <1>4. streamSize \in Int /\ \A b \in Announced : b \in Int
    BY RangeInChunks DEF StreamTypeOK, Announced, InChunks
  <1>5. sent \in Seq(Nat) /\ \A k, m \in DOMAIN sent : k < m => sent[k] < sent[m]
    BY DEF StreamTypeOK, SentOK
  <1> HIDE DEF t, low, high
  <1>6. \A k \in DOMAIN sent, m \in DOMAIN t : sent[k] < t[m]
    <2> SUFFICES ASSUME NEW k \in DOMAIN sent, NEW m \in DOMAIN t PROVE sent[k] < t[m]
      OBVIOUS
    <2>1. sent[k] \in Before(low)
      BY <1>2
    <2>2. t[m] \in Pushed
      BY <1>1
    <2>3. QED  BY <1>3, <1>4, <2>1, <2>2
  <1>7. sent' = sent \o t
    BY DEF t
  <1>8. /\ sent' \in Seq(Nat)
        /\ \A k, m \in DOMAIN sent' : k < m => sent'[k] < sent'[m]
        /\ SentBytes' = Before(low) \cup Pushed
    <2> HIDE DEF Before, Pushed
    <2>1. /\ sent \o t \in Seq(Nat)
          /\ \A k, m \in DOMAIN (sent \o t) : k < m => (sent \o t)[k] < (sent \o t)[m]
          /\ {(sent \o t)[k] : k \in DOMAIN (sent \o t)} = Before(low) \cup Pushed
      BY <1>1, <1>2, <1>5, <1>6, PushKeepsOrder
    <2>2. QED  BY <1>7, <2>1 DEF SentBytes
  <1>9. Before(low) \cup Pushed = Before(high)
    BY <1>3, <1>4
  <1>10. UNCHANGED <<Announced, LostBytes>>
    BY DEF Announced, LostBytes, First, Final, Ranged, StartChunkIdx
  <1>11. QED  BY <1>8, <1>9, <1>10 DEF SentOK, SentBefore, high

\* Beyond the last chunk of the range there is nothing to send.
LEMMA AllIsBeforeTheEnd ==
  ASSUME StreamTypeOK, Asked, NEW n \in Int, n > EndChunkIdx, SentBefore(n)
  PROVE  SentBytes = {b \in Announced : b < streamSize /\ b \notin LostBytes}
  <1>1. First \in Nat /\ Final \in Nat /\ EndChunkIdx \in Int /\ Final < EndChunkIdx * ChunkSize + ChunkSize
    BY RangeInChunks DEF InChunks
  <1>2. EndChunkIdx * ChunkSize \in Int /\ n * ChunkSize \in Int /\ EndChunkIdx * ChunkSize + ChunkSize <= n * ChunkSize
    BY <1>1, RangeStreamAssumption, Multiples
  <1>3. \A b \in Announced : b < n * ChunkSize
    BY <1>1, <1>2, RangeStreamAssumption DEF Announced
  <1>4. QED  BY <1>3 DEF SentBefore

LEMMA StreamInvInit == StreamInit => StreamInv
  <1> SUFFICES ASSUME StreamInit PROVE StreamInv
    OBVIOUS
  <1>1. StreamTypeOK
    <2>1. <<>> \in Seq(Nat) /\ -1 \in Int
      OBVIOUS
    <2>2. QED  BY <2>1 DEF StreamInit, StreamTypeOK
  <1>2. SentOK
    BY DEF StreamInit, SentOK, SentBytes
  <1>3. QED  BY <1>1, <1>2 DEF StreamInit, StreamInv

LEMMA RequestKeeps ==
  ASSUME StreamInv, NEW size \in FileSizes, NEW start \in 0..size \cup {NoRange},
         GetFileAsReadStream(size, start)
  PROVE  StreamInv'
  <1> USE RangeStreamAssumption
  <1>1. /\ streamState = "idle" /\ sent = <<>> /\ fetching = {} /\ streamSize' = size /\ streamStart' = start
        /\ StreamTypeOK
        /\ UNCHANGED <<lastChunkIdx, streamClosed, streamFull>>
    BY DEF GetFileAsReadStream, StreamInv
  <1>2. size \in Nat \ {0} /\ start \in Nat \cup {NoRange} /\ (start # NoRange => start <= size)
    OBVIOUS
  <1>3. CASE size <= ChunkSize
    <2>1. /\ sent' = IF start = NoRange THEN Bytes(0, size)
                     ELSE Bytes(MinOf(start, size), MinOf(Final' + 1, size))
          /\ streamState' = "ended" /\ UNCHANGED <<fetching, downloading>>
      BY <1>3 DEF GetFileAsReadStream
    <2> DEFINE a == IF start = NoRange THEN 0 ELSE start
               z == IF start = NoRange THEN size ELSE MinOf(Final' + 1, size)
    <2>2. /\ start = NoRange => First' = 0 /\ Final' = size - 1
          /\ start # NoRange => First' = start /\ Final' = MaxOf(start, MinOf(start + RangeLimit, size - 1))
      BY <1>1 DEF First, Final, Ranged
    <2>3. a \in Nat /\ z \in Int /\ First' = a /\ Final' \in Int
      BY <1>2, <2>2 DEF MinOf, MaxOf
    <2>4. sent' = Bytes(a, z)
      BY <1>2, <2>1 DEF MinOf
    <2>5. LostBytes' = {}
      <3>1. CASE start = NoRange
        BY <1>1, <3>1 DEF LostBytes, Ranged
      <3>2. CASE start # NoRange
        <4> DEFINE q == start \div ChunkSize
                   s == (q + 1) * ChunkSize
        <4>1. q \in Nat /\ StartChunkIdx' = q
          BY <1>1, <1>2, <2>2, <3>2, Quotients DEF StartChunkIdx
        <4> HIDE DEF q
        <4>2. s \in Int /\ s = q * ChunkSize + ChunkSize /\ q * ChunkSize \in Int
          BY <4>1, Multiples
        <4>3. q * ChunkSize >= 0
          <5>1. q > 0 => 0 * ChunkSize + ChunkSize <= q * ChunkSize
            BY <4>1, Multiples
          <5>2. q = 0 => q * ChunkSize = 0
            OBVIOUS
          <5>3. QED  BY <4>1, <4>2, <5>1, <5>2
        <4>4. s >= size
          BY <1>2, <1>3, <4>2, <4>3
        <4>5. LostBytes' = IF MinOf(ChunkSize, size - s) > 0
                           THEN s..(s + MaxOf(MinOf(ChunkSize, size - s) - (s - First'), 0) - 1) ELSE {}
          BY <1>1, <3>2, <4>1 DEF LostBytes, Ranged
        <4>6. ~(MinOf(ChunkSize, size - s) > 0)
          <5> HIDE DEF s
          <5>1. QED  BY <1>2, <4>2, <4>4 DEF MinOf
        <4>7. QED  BY <4>5, <4>6
      <3>3. QED  BY <3>1, <3>2
    <2>6. ASSUME NEW s, s = sent'
          PROVE  /\ s \in Seq(Nat) /\ {s[k] : k \in DOMAIN s} = a..(z - 1)
                 /\ \A k, m \in DOMAIN s : k < m => s[k] < s[m]
      <3>1. a \in Nat /\ z \in Int /\ s = Bytes(a, z)
        BY <2>3, <2>4, <2>6
      <3> HIDE DEF a, z
      <3>2. s \in Seq(Nat)
        BY <3>1, BytesAre
      <3>3. {s[k] : k \in DOMAIN s} = a..(z - 1)
        <4>1. \A x : x \in a..(z - 1) <=> \E k \in DOMAIN s : s[k] = x
          BY <3>1, BytesMembers
        <4>2. QED  BY <4>1
      <3>4. \A k, m \in DOMAIN s : k < m => s[k] < s[m]
        BY <3>1, BytesAre
      <3>5. QED  BY <3>2, <3>3, <3>4
    <2>6a. /\ sent' \in Seq(Nat) /\ {sent'[k] : k \in DOMAIN sent'} = a..(z - 1)
           /\ \A k, m \in DOMAIN sent' : k < m => sent'[k] < sent'[m]
      BY <2>6
    <2>7. a..(z - 1) = {b \in First'..Final' : b < size}
      <3>1. CASE start = NoRange
        BY <1>2, <2>2, <3>1
      <3>2. CASE start # NoRange
        BY <1>2, <2>2, <3>2 DEF MinOf, MaxOf
      <3>3. QED  BY <3>1, <3>2
    <2>8. SentBytes' = {b \in Announced' : b < streamSize' /\ b \notin LostBytes'}
      BY <1>1, <2>5, <2>6, <2>7 DEF SentBytes, Announced
    <2>9. StreamTypeOK'
      BY <1>1, <1>2, <2>1, <2>6 DEF StreamTypeOK
    <2>10. SentOK'
      BY <2>6, <2>8 DEF SentOK
    <2>11. Asked'
      BY <1>1, <1>2 DEF Asked, Ranged
    <2>12. QED  BY <1>1, <2>1, <2>8, <2>9, <2>10, <2>11 DEF StreamInv
  <1>4. CASE ~(size <= ChunkSize)
    <2>1. /\ fetching' = {StartChunkIdx'} /\ downloading' = TRUE /\ streamState' = "open" /\ sent' = <<>>
      BY <1>1, <1>4 DEF GetFileAsReadStream
    <2>2. StreamTypeOK' /\ Asked'
      <3>1. StartChunkIdx' \in Nat
        <4>1. First' \in Nat
          BY <1>1, <1>2 DEF First, Ranged
        <4>2. QED  BY <4>1, Quotients DEF StartChunkIdx
      <3>2. QED  BY <1>1, <1>2, <2>1, <3>1 DEF StreamTypeOK, Asked, Ranged
    <2>3. (/\ First \in Nat /\ Final \in Nat /\ First <= Final
           /\ StartChunkIdx \in Nat /\ EndChunkIdx \in Int /\ StartChunkIdx <= EndChunkIdx
           /\ StartChunkIdx * ChunkSize <= First)'
      <3>1. InChunks'
        BY <2>2, RangeInChunks, PTL
      <3>2. QED  BY <3>1 DEF InChunks
    <2>4. SentBytes' = {} /\ SentOK'
      BY <2>1 DEF SentBytes, SentOK
    <2>5. SentBefore(StartChunkIdx)'
      <3> DEFINE front == StartChunkIdx' * ChunkSize
      <3>0. front <= First'
        BY <2>3
      <3>1. First' \in Nat /\ Final' \in Nat /\ StartChunkIdx' \in Int
        BY <2>3
      <3>2. front \in Int
        BY <3>1, Multiples
      <3> HIDE DEF front
      <3>3. \A b \in Announced' : ~(b < front)
        BY <3>0, <3>1, <3>2 DEF Announced
      <3>4. QED  BY <2>4, <3>3 DEF SentBefore, front
    <2>6. OpenOK'
      <3>1. streamSize' > ChunkSize
        BY <1>1, <1>2, <1>4
      <3>2. StartChunkIdx' \in StartChunkIdx'..EndChunkIdx'
        BY <2>3
      <3>3. \A i \in fetching' : SentBefore(i)'
        BY <2>1, <2>5 DEF SentBefore
      <3>4. streamClosed' => ~downloading'
        BY <1>1 DEF StreamInv
      <3>5. QED  BY <2>1, <3>1, <3>2, <3>3, <3>4 DEF OpenOK
    <2>7. QED  BY <2>1, <2>2, <2>4, <2>6 DEF StreamInv
  <1>5. QED  BY <1>3, <1>4

LEMMA ArrivalKeeps ==
  ASSUME StreamInv, NEW i \in fetching, ChunkArrives(i)
  PROVE  StreamInv'
  <1>1. /\ StreamTypeOK /\ SentOK /\ Asked /\ OpenOK /\ streamState = "open" /\ i < ChunkCount
        /\ UNCHANGED <<streamSize, streamStart, streamClosed>>
        /\ sent' = IF streamClosed THEN sent ELSE sent \o Slice(i)
        /\ streamFull' \in BOOLEAN
    BY DEF StreamInv, ChunkArrives
  <1>2. fetching = {i} /\ i \in StartChunkIdx..EndChunkIdx /\ i \in Nat /\ EndChunkIdx \in Int /\ StartChunkIdx \in Nat
    <2>1. fetching = {i} /\ i \in StartChunkIdx..EndChunkIdx
      BY <1>1 DEF OpenOK
    <2>2. QED  BY <1>1, <2>1, RangeInChunks DEF StreamTypeOK, InChunks
  <1>3. UNCHANGED <<First, Final, Announced, LostBytes, Ranged, StartChunkIdx, EndChunkIdx>>
    BY <1>1 DEF First, Final, Announced, LostBytes, Ranged, StartChunkIdx, EndChunkIdx, ChunkCount
  <1>4. Asked'
    BY <1>1, <1>3 DEF Asked
  <1>5. /\ downloading' \in BOOLEAN /\ lastChunkIdx' \in Int
        /\ \/ fetching' = {} /\ streamState' = "open" /\ ~downloading' /\ (streamClosed \/ lastChunkIdx' = i)
           \/ downloading /\ downloading' /\ i + 1 <= EndChunkIdx /\ fetching' = {i + 1} /\ streamState' = "open"
           \/ downloading /\ i + 1 > EndChunkIdx /\ fetching' = {} /\ streamState' = "ended"
    <2>1. PICK room \in BOOLEAN : Pause(i, room)
      BY DEF ChunkArrives
    <2>2. downloading \in BOOLEAN /\ lastChunkIdx \in Int /\ (~streamClosed => downloading)
      BY <1>1, <1>2 DEF StreamTypeOK, OpenOK
    <2>3. CASE room
      <3>1. downloading' = FALSE /\ lastChunkIdx' = i /\ streamState' = streamState /\ fetching' = {}
        BY <2>1, <2>3 DEF Pause
      <3>2. i \in Int /\ streamState = "open"
        BY <1>1, <1>2
      <3>3. QED  BY <3>1, <3>2
    <2>4. CASE ~room
      BY <1>1, <1>2, <2>1, <2>2, <2>4 DEF Pause, Proceed
    <2>5. QED  BY <2>3, <2>4
  <1>6. CASE streamClosed
    <2>1. ~downloading /\ sent' = sent
      BY <1>1, <1>6 DEF OpenOK
    <2>2. StreamTypeOK'
      BY <1>1, <1>5, <2>1 DEF StreamTypeOK
    <2>3. SentOK'
      BY <1>1, <1>3, <2>1 DEF SentOK, SentBytes
    <2>4. OpenOK'
      BY <1>1, <1>3, <1>5, <1>6, <2>1 DEF OpenOK
    <2>5. QED  BY <1>4, <1>5, <2>1, <2>2, <2>3, <2>4 DEF StreamInv
  <1>7. CASE ~streamClosed
    <2>1. SentBefore(i) /\ sent' = sent \o Slice(i)
      BY <1>1, <1>7 DEF OpenOK
    <2>2. sent' \in Seq(Nat) /\ SentOK' /\ SentBefore(i + 1)'
      BY <1>1, <1>2, <2>1, PushSendsTheChunk
    <2>3. StreamTypeOK'
      BY <1>1, <1>2, <1>5, <2>2 DEF StreamTypeOK
    <2>4. CASE streamState' = "open"
      <3>1. streamSize' > ChunkSize /\ ~streamClosed'
        BY <1>1, <1>7 DEF OpenOK
      <3>2. fetching' = {} \/ \E n \in StartChunkIdx'..EndChunkIdx' : fetching' = {n}
        BY <1>2, <1>3, <1>5, <2>4
      <3>3. downloading' <=> fetching' # {}
        BY <1>5, <2>4
      <3>4. \A n \in fetching' : SentBefore(n)'
        BY <1>5, <2>2, <2>4 DEF SentBefore
      <3>5. fetching' = {} => lastChunkIdx' \in StartChunkIdx'..EndChunkIdx' /\ SentBefore(lastChunkIdx + 1)'
        BY <1>2, <1>3, <1>5, <1>7, <2>2, <2>4 DEF SentBefore
      <3>6. OpenOK'
        BY <3>1, <3>2, <3>3, <3>4, <3>5 DEF OpenOK
      <3>7. QED  BY <1>4, <2>2, <2>3, <2>4, <3>6 DEF StreamInv
    <2>5. CASE streamState' = "ended"
      <3>1. i + 1 > EndChunkIdx' /\ i + 1 \in Int /\ fetching' = {}
        BY <1>2, <1>3, <1>5, <2>5
      <3>2. SentBytes' = {b \in Announced' : b < streamSize' /\ b \notin LostBytes'}
        <4>1. InChunks'
          BY <1>4, <2>3, RangeInChunks, PTL
        <4> DEFINE high == (i + 1) * ChunkSize
                   last == EndChunkIdx' * ChunkSize
        <4>2. high \in Int /\ last \in Int /\ last + ChunkSize <= high
          BY <1>2, <1>3, <3>1, RangeStreamAssumption, Multiples
        <4>3. First' \in Nat /\ Final' \in Nat /\ Final' < last + ChunkSize
          BY <4>1 DEF InChunks
        <4> HIDE DEF high, last
        <4>4. \A b \in Announced' : b < high
          BY <4>2, <4>3, RangeStreamAssumption DEF Announced
        <4>5. QED  BY <2>2, <4>4 DEF SentBefore, high
      <3>3. QED  BY <1>4, <2>2, <2>3, <2>5, <3>1, <3>2 DEF StreamInv
    <2>6. QED  BY <1>5, <2>4, <2>5
  <1>8. QED  BY <1>6, <1>7

LEMMA StreamInvStep == StreamInv /\ [StreamNext]_streamVars => StreamInv'
  <1> SUFFICES ASSUME StreamInv, [StreamNext]_streamVars PROVE StreamInv'
    OBVIOUS
  <1>1. ASSUME NEW size \in FileSizes, NEW start \in 0..size \cup {NoRange}, GetFileAsReadStream(size, start)
        PROVE  StreamInv'
    BY <1>1, RequestKeeps
  <1>2. ASSUME NEW i \in fetching, ChunkArrives(i) PROVE StreamInv'
    BY <1>2, ArrivalKeeps
  <1> DEFINE Same == UNCHANGED <<streamSize, streamStart, sent>>
  <1>3. ASSUME Same
        PROVE  /\ UNCHANGED <<First, Final, Announced, LostBytes, Ranged, StartChunkIdx, EndChunkIdx, SentBytes>>
               /\ (Asked => Asked') /\ (SentOK => SentOK')
               /\ \A n : SentBefore(n)' <=> SentBefore(n)
    <2>1. UNCHANGED <<First, Final, Announced, LostBytes, Ranged, StartChunkIdx, EndChunkIdx, SentBytes>>
      BY <1>3 DEF First, Final, Announced, LostBytes, Ranged, StartChunkIdx, EndChunkIdx, ChunkCount, SentBytes
    <2>2. QED  BY <1>3, <2>1 DEF Asked, SentOK, SentBefore
  <1>4. ASSUME NEW i \in fetching, ChunkFails(i) PROVE StreamInv'
    <2>1. Same /\ fetching' = {} /\ streamState' = "error"
          /\ UNCHANGED <<downloading, lastChunkIdx, streamClosed, streamFull>> /\ streamState = "open"
      BY <1>4 DEF ChunkFails
    <2>2. StreamTypeOK'
      BY <2>1 DEF StreamInv, StreamTypeOK
    <2>3. QED  BY <1>3, <2>1, <2>2 DEF StreamInv
  <1>5. CASE Read
    <2>0. PICK n : n = lastChunkIdx + 1
      OBVIOUS
    <2>1. /\ Same /\ streamState = "open" /\ ~downloading /\ ~streamClosed /\ downloading' = TRUE
          /\ streamFull' = FALSE /\ UNCHANGED <<lastChunkIdx, streamClosed>>
          /\ Proceed(n) /\ StreamTypeOK /\ SentOK /\ Asked /\ OpenOK
      BY <1>5, <2>0 DEF Read, StreamInv
    <2>2. fetching = {} /\ lastChunkIdx \in StartChunkIdx..EndChunkIdx /\ SentBefore(n)
      BY <2>0, <2>1 DEF OpenOK
    <2>3. StartChunkIdx \in Nat /\ EndChunkIdx \in Int /\ n \in Nat /\ StartChunkIdx <= n
      BY <2>0, <2>1, <2>2, RangeInChunks DEF InChunks
    <2>4. \/ n > EndChunkIdx /\ streamState' = "ended" /\ fetching' = {}
          \/ n <= EndChunkIdx /\ streamState' = "open" /\ fetching' = {n}
      BY <2>1, <2>3 DEF Proceed
    <2>5. StreamTypeOK'
      BY <2>1, <2>3, <2>4 DEF StreamTypeOK
    <2>6. CASE n > EndChunkIdx /\ streamState' = "ended" /\ fetching' = {}
      <3>1. SentBytes = {b \in Announced : b < streamSize /\ b \notin LostBytes}
        BY <2>1, <2>2, <2>3, <2>6, AllIsBeforeTheEnd
      <3>2. QED  BY <1>3, <2>1, <2>5, <2>6, <3>1 DEF StreamInv
    <2>7. CASE n <= EndChunkIdx /\ streamState' = "open" /\ fetching' = {n}
      <3>1. \E i \in StartChunkIdx'..EndChunkIdx' : fetching' = {i}
        BY <1>3, <2>1, <2>3, <2>7
      <3>2. SentBefore(n)'
        BY <1>3, <2>1, <2>2
      <3>3. \A i \in fetching' : SentBefore(i)'
        BY <2>7, <3>2
      <3>4. OpenOK'
        BY <2>1, <2>7, <3>1, <3>3 DEF OpenOK
      <3>5. QED  BY <1>3, <2>1, <2>5, <2>7, <3>4 DEF StreamInv
    <2>8. QED  BY <2>4, <2>6, <2>7
  <1>6. CASE Close
    <2>1. /\ Same /\ streamState = "open" /\ streamClosed' /\ downloading' = FALSE /\ streamClosed' = TRUE
          /\ UNCHANGED <<fetching, lastChunkIdx, streamFull, streamState>>
      BY <1>6 DEF Close
    <2>2. StreamTypeOK' /\ Asked /\ OpenOK
      BY <2>1 DEF StreamInv, StreamTypeOK
    <2>3. OpenOK'
      BY <1>3, <2>1, <2>2 DEF OpenOK
    <2>4. QED  BY <1>3, <2>1, <2>2, <2>3 DEF StreamInv
  <1>7. CASE UNCHANGED streamVars
    BY <1>7 DEF streamVars, StreamInv, StreamTypeOK, SentOK, OpenOK, Asked, SentBefore, SentBytes, Announced,
                LostBytes, First, Final, Ranged, StartChunkIdx, EndChunkIdx, ChunkCount
  <1>8. QED  BY <1>1, <1>2, <1>4, <1>5, <1>6, <1>7 DEF StreamNext

\* Whatever the sizes of files, chunks and ranges, and however pushes, pauses, reads and failures
\* alternate: the bytes of a stream are sent in order, none twice and none from outside the range
\* announced, and a stream that ends has sent all but those its second chunk loses.
THEOREM StreamsSendTheirRange == StreamSpec => []RangeIsSent
  <1>1. StreamInv => RangeIsSent
    <2> SUFFICES ASSUME StreamInv PROVE RangeIsSent
      OBVIOUS
    <2>1. fetching = {} \/ \E i : fetching = {i}
      BY DEF StreamInv, OpenOK, StreamTypeOK
    <2>2. Cardinality(fetching) <= 1
      <3>1. CASE fetching = {}
        BY <3>1, FS_EmptySet
      <3>2. ASSUME NEW i, fetching = {i} PROVE Cardinality(fetching) <= 1
        <4>1. Cardinality({i}) = 1
          BY FS_Singleton
        <4>2. QED  BY <3>2, <4>1
      <3>3. QED  BY <2>1, <3>1, <3>2
    <2>3. QED  BY <2>2 DEF StreamInv, RangeIsSent, SentOK
  <1>2. QED
    BY <1>1, StreamInvInit, StreamInvStep, PTL DEF StreamSpec
=============================================================================
