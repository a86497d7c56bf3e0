------------------------------ MODULE Versions ------------------------------
(***************************************************************************)
(* The versions of one entry of the registry: how the Explorer and the     *)
(* deployer put them, and how network/providers/ethereum.js finds the      *)
(* value of a version among the IKVSet events of the entry.                *)
(*                                                                         *)
(* A version is the sequence of its parts (MAJOR, MINOR, PATCH), without   *)
(* leading zeros.  The code holds them as text, so parts are ordered as    *)
(* strings and a base version as a decimal fraction: both are computed     *)
(* here from the decimal digits.                                           *)
(***************************************************************************)
EXTENDS Integers, Sequences, FiniteSets

CONSTANTS
    TypedVersions,    \* bound: the versions a user types for a new entry
    Bases,            \* bound: the base versions a developer may state
    Editors,          \* open pages of the Explorer that show the entry
    MaxEvents         \* bound: values put

ASSUME VersionsAssumption ==
    /\ TypedVersions \subseteq (0..99) \X (0..99) \X (0..98)
    /\ Bases \subseteq (0..99) \X (0..99)
    /\ MaxEvents \in Nat

VARIABLES
    put,              \* the versions of the IKVSet events of the entry, in their order
    shown             \* the version each page shows

versionsVars == <<put, shown>>

Unversioned == <<>>

-----------------------------------------------------------------------------
(* Text and numbers. *)

\* The decimal digits of a part below 100.
Digits(n) == IF n < 10 THEN <<n>> ELSE <<n \div 10, n % 10>>

\* a > b of JavaScript for two strings of digits.
StringGreater(a, b) ==
    LET da == Digits(a)
        db == Digits(b)
        differ == {i \in DOMAIN da \cap DOMAIN db : da[i] # db[i]}
    IN  IF differ = {} THEN Len(da) > Len(db)
        ELSE LET i == CHOOSE i \in differ : \A j \in differ : i <= j IN da[i] > db[i]

\* new Number('MAJOR.MINOR'), in hundredths: 1.9 is 190 and 1.10 is 110.
AsNumber(base) == 100 * base[1] + (IF base[2] < 10 THEN 10 * base[2] ELSE base[2])

Base(v) == <<v[1], v[2]>>
LatestVersion == IF put = <<>> THEN Unversioned ELSE put[Len(put)]

-----------------------------------------------------------------------------
(* Puts. *)

\* addEntry of IkvList: the version is what the user typed.
AddEntry(v) ==
    /\ Len(put) < MaxEvents
    /\ put' = Append(put, v)
    /\ UNCHANGED shown

\* fetchIkv: a page shows the entry as the contract has it now.
FetchIkv(e) ==
    /\ shown' = [shown EXCEPT ![e] = LatestVersion]
    /\ UNCHANGED put

\* saveChanges of IkvEntry: the next patch after the version the page shows, if that is a
\* version at all; the list is fetched again.
SaveChanges(e) ==
    /\ shown[e] # Unversioned
    /\ Len(put) < MaxEvents
    /\ put' = Append(put, <<shown[e][1], shown[e][2], shown[e][3] + 1>>)
    /\ shown' = [shown EXCEPT ![e] = put'[Len(put')]]

\* isNewBaseVersionValid.
IsNewBaseVersionValid(base) == LatestVersion = Unversioned \/ AsNumber(Base(LatestVersion)) <= AsNumber(base)

\* Mutant: the patch of the last version is kept.
GetSamePatch(base) ==
    IF LatestVersion # Unversioned /\ Base(LatestVersion) = base THEN LatestVersion ELSE base \o <<0>>

\* getNewPatchedVersion.
GetNewPatchedVersion(base) ==
    IF LatestVersion # Unversioned /\ Base(LatestVersion) = base THEN base \o <<LatestVersion[3] + 1>> ELSE base \o <<0>>

\* deploy calls getVersion and does not wait for it: what it puts is the promise, which web3
\* encodes as the empty text, also when the promise is rejected.
Deploy ==
    /\ Len(put) < MaxEvents
    /\ put' = Append(put, Unversioned)
    /\ UNCHANGED shown

-----------------------------------------------------------------------------
(* The look-up by version: the answer is the place of an event, 0 for null. *)

\* compareVersions: a part that v2 has not got is no difference, and the empty text is below
\* every number.
CompareVersions(v1, v2) ==
    LET differ == {i \in DOMAIN v1 \cap DOMAIN v2 : v1[i] # v2[i]}
    IN  CASE v1 = v2 -> 0
          [] v1 = Unversioned /\ v2 # Unversioned -> -1
          [] v1 # Unversioned /\ v2 = Unversioned -> 1
          [] OTHER ->
               IF differ = {} THEN 0
               ELSE LET i == CHOOSE i \in differ : \A j \in differ : i <= j
                    IN  IF StringGreater(v1[i], v2[i]) THEN 1 ELSE -1

\* getLastVersionOrBefore: of equal versions the later event.
GetLastVersionOrBefore(v) ==
    LET before == {n \in DOMAIN put : CompareVersions(put[n], v) # 1}
        Wins(n) == \A k \in before : LET c == CompareVersions(put[n], put[k])
                                     IN  c = 1 \/ (c = 0 /\ k <= n)
    IN  IF before = {} THEN 0 ELSE CHOOSE n \in before : Wins(n)

\* getKeyValue with strategy 'exact': the first event of the version.
GetExactVersion(v) ==
    LET of == {n \in DOMAIN put : put[n] = v}
    IN  IF of = {} THEN 0 ELSE CHOOSE n \in of : \A k \in of : n <= k

-----------------------------------------------------------------------------
VersionsInit ==
    /\ put = <<>>
    /\ shown = [e \in Editors |-> Unversioned]

VersionsNext ==
    \/ \E v \in TypedVersions : AddEntry(v)
    \/ \E e \in Editors : FetchIkv(e) \/ SaveChanges(e)
    \/ Deploy

VersionsSpec == VersionsInit /\ [][VersionsNext]_versionsVars

-----------------------------------------------------------------------------
(* Properties. *)

OneDigit(v) == \A i \in DOMAIN v : v[i] < 10
\* v1 is before v2 in the order of their numbers; a version without parts is before all.
Older(v1, v2) ==
    \/ v1 = Unversioned /\ v2 # Unversioned
    \/ \E i \in DOMAIN v1 \cap DOMAIN v2 : v1[i] < v2[i] /\ \A j \in 1..(i - 1) : v1[j] = v2[j]

\* While every part has one digit, whatever order versions were put in and whoever put them:
\* the look-up of a version gives, of the events that are not newer than it by their numbers,
\* the last one among the newest; only a later event of the same version is hidden from the
\* exact look-up; and a new version of the deployer is newer than the last one, and refused
\* only when its base is older.
VersionsAreOrdered ==
    (\A n \in DOMAIN put : OneDigit(put[n])) =>
        /\ \A n \in {k \in DOMAIN put : put[k] # Unversioned} :
              LET found == GetLastVersionOrBefore(put[n])
                  exact == GetExactVersion(put[n])
              IN  /\ put[found] = put[n]
                  /\ \A k \in (found + 1)..Len(put) : put[k] # put[n]
                  /\ exact <= n /\ (exact < n => put[exact] = put[n])
        /\ \A base \in {b \in Bases : OneDigit(b)} :
              LET found == GetLastVersionOrBefore(base)
              IN  found # 0 => /\ ~Older(base, put[found])
                               /\ \A k \in DOMAIN put :
                                     ~Older(base, put[k]) => ~Older(put[found], put[k])
        /\ \A base \in {b \in Bases : OneDigit(b)} :
              /\ IsNewBaseVersionValid(base) <=> LatestVersion = Unversioned \/ ~Older(base, Base(LatestVersion))
              /\ IsNewBaseVersionValid(base) => Older(LatestVersion, GetNewPatchedVersion(base))
=============================================================================
