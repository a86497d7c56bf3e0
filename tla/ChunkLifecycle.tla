--------------------------- MODULE ChunkLifecycle ---------------------------
(***************************************************************************)
(* What the chunks table promises about uploads: the ul_status of a chunk  *)
(* row follows a fixed life cycle, and COMPLETED is only ever written for  *)
(* a chunk that the storage network holds.  ChunkUpload implements this    *)
(* module; UploadProgress uses it as its environment.                      *)
(***************************************************************************)
CONSTANT Chunks

VARIABLES
    ul,       \* ul_status of every chunk row, "ABSENT" before the row exists
    network   \* the chunks that the storage network holds

lifecycleVars == <<ul, network>>

UlStatus == {"ABSENT", "NOT_STARTED", "ENQUEUED", "IN_PROGRESS", "COMPLETED", "FAILED"}

LifecycleTypeOK ==
    /\ ul \in [Chunks -> UlStatus]
    /\ network \subseteq Chunks

LifecycleInit ==
    /\ ul = [c \in Chunks |-> "ABSENT"]
    /\ network \in SUBSET Chunks

(* Row statuses that a writer of the chunks table may replace, by the      *)
(* status it writes.  FAILED is left only for ENQUEUED (a new request to   *)
(* upload the chunk) or COMPLETED (the chunk was fetched from the          *)
(* network); COMPLETED is never left.                                      *)
Predecessors ==
    [NOT_STARTED |-> {"ABSENT"},
     ENQUEUED    |-> {"ABSENT", "NOT_STARTED", "FAILED", "IN_PROGRESS"},
     IN_PROGRESS |-> {"ENQUEUED"},
     FAILED      |-> {"IN_PROGRESS"},
     COMPLETED   |-> UlStatus \ {"ABSENT", "COMPLETED"}]

MayBecome(c) ==
    \/ ul'[c] = ul[c]
    \/ /\ ul'[c] # "ABSENT"
       /\ ul[c] \in Predecessors[ul'[c]]
       /\ ul'[c] = "COMPLETED" => c \in network

LifecycleNext ==
    /\ ul' \in [Chunks -> UlStatus]
    /\ network \subseteq network' /\ network' \subseteq Chunks
    /\ \A c \in Chunks : MayBecome(c)

LifecycleSpec == LifecycleInit /\ [][LifecycleNext]_lifecycleVars
=============================================================================
