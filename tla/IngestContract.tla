--------------------------- MODULE IngestContract ---------------------------
(***************************************************************************)
(* What the object ingest promises its clients, without its checkpoints,   *)
(* its temporary objects and its overlapping calls: the bytes are stored   *)
(* before any catalogue row exists for them, a content has one blob for    *)
(* ever, an idempotency key stands for one request, its ingest is recorded *)
(* at most once, and its outcome is the blob of its content.               *)
(***************************************************************************)
CONSTANTS Keys, Contents, BlobIds, None

VARIABLES
    requestOf,  \* the content a key was first used with
    stored,     \* contents with a canonical object
    blobOf,     \* the catalogue's blob of a content
    recorded,   \* keys whose audit and outbox events are written
    outcome     \* the blob a completed operation returns

vars == <<requestOf, stored, blobOf, recorded, outcome>>

Init ==
    /\ requestOf = [k \in Keys |-> None]
    /\ stored = {}
    /\ blobOf = [c \in Contents |-> None]
    /\ recorded = {}
    /\ outcome = [k \in Keys |-> None]

Register(k, c) ==
    /\ requestOf[k] = None
    /\ requestOf' = [requestOf EXCEPT ![k] = c]
    /\ UNCHANGED <<stored, blobOf, recorded, outcome>>

Store(k) ==
    /\ requestOf[k] # None
    /\ stored' = stored \cup {requestOf[k]}
    /\ UNCHANGED <<requestOf, blobOf, recorded, outcome>>

(* The first ingest of a content names its blob, every ingest is recorded. *)
Record(k, id) ==
    LET c == requestOf[k]
    IN  /\ c \in stored
        /\ blobOf' = IF blobOf[c] = None THEN [blobOf EXCEPT ![c] = id]
                     ELSE blobOf
        /\ recorded' = recorded \cup {k}
        /\ UNCHANGED <<requestOf, stored, outcome>>

Acknowledge(k) ==
    /\ k \in recorded
    /\ outcome' = [outcome EXCEPT ![k] = blobOf[requestOf[k]]]
    /\ UNCHANGED <<requestOf, stored, blobOf, recorded>>

Next ==
    \E k \in Keys :
        \/ \E c \in Contents : Register(k, c)
        \/ Store(k)
        \/ \E id \in BlobIds : Record(k, id)
        \/ Acknowledge(k)

Spec == Init /\ [][Next]_vars
=============================================================================
