--------------------------- MODULE MemoryStorage ---------------------------
(***************************************************************************)
(* The in-process object storage (packages/storage/src/                    *)
(* memory-object-storage.ts): the reference adapter the contract tests run *)
(* against.  One map holds temporary and canonical objects; a second holds *)
(* the multipart uploads.                                                  *)
(*                                                                         *)
(* A content is the sequence of its chunks and stands for its own digest   *)
(* and length.  A method runs to its end without another coming between,   *)
(* except that writeTemporary and uploadMultipartPart wait for the body    *)
(* they read: what they checked before that may no longer hold after it.   *)
(* A call that is refused changes nothing and is not a step.               *)
(***************************************************************************)
EXTENDS Naturals, Sequences

CONSTANTS
    Callers,    \* callers whose bodies may be in flight together
    Locators,   \* names of temporary objects
    Uploads,    \* ids of multipart uploads
    Chunks,     \* what one part may hold
    Bodies,     \* the contents callers write and declare
    Media,      \* media types
    MaxParts    \* bound: part numbers used

VARIABLES
    objects,    \* key -> [content, media]
    multipart,  \* upload id -> [locator, media, status, parts]
    reading     \* caller -> the call whose body it is sending, if any

memoryVars == <<objects, multipart, reading>>

Temporary(l) == <<"temporary", l>>

Canonical(c) == <<"canonical", c>>

Keys == {Temporary(l) : l \in Locators} \cup {Canonical(c) : c \in Bodies}

AssertTemporaryKey(key) == key[1] = "temporary"

Put(f, k, v) == [x \in DOMAIN f \cup {k} |-> IF x = k THEN v ELSE f[x]]

Remove(f, k) == [x \in DOMAIN f \ {k} |-> f[x]]

MemoryInit ==
    /\ objects = << >>
    /\ multipart = << >>
    /\ reading = [p \in Callers |-> {}]

-----------------------------------------------------------------------------
(* writeTemporary, up to the wait for its body. *)
WriteTemporary(p, key, media) ==
    /\ reading[p] = {}
    /\ AssertTemporaryKey(key)
    /\ reading' = [reading EXCEPT ![p] = {[call |-> "write", key |-> key, media |-> media]}]
    /\ UNCHANGED <<objects, multipart>>

(* The body has been read: the object is set whatever was there. *)
WriteBody(p, content) ==
    \E r \in reading[p] :
        /\ r.call = "write"
        /\ objects' = Put(objects, r.key, [content |-> content, media |-> r.media])
        /\ reading' = [reading EXCEPT ![p] = {}]
        /\ UNCHANGED multipart

(* The body breaks off while it is read: the call ends and nothing is set. *)
BodyFails(p) ==
    /\ reading[p] # {}
    /\ reading' = [reading EXCEPT ![p] = {}]
    /\ UNCHANGED <<objects, multipart>>

Declared(key, content, media) ==
    objects[key].content = content /\ objects[key].media = media

(* commitImmutable: the canonical object is made once; a repeated commit   *)
(* finds it and only drops the temporary one.                              *)
CommitImmutable(key, content, media) ==
    /\ AssertTemporaryKey(key)
    /\ key \in DOMAIN objects
    /\ Declared(key, content, media)
    /\ \/ /\ Canonical(content) \in DOMAIN objects
          /\ objects[Canonical(content)].content = content
          /\ objects' = Remove(objects, key)
       \/ /\ Canonical(content) \notin DOMAIN objects
          /\ objects' = Remove(Put(objects, Canonical(content), objects[key]), key)
    /\ UNCHANGED <<multipart, reading>>

(* Mutant: any key may be deleted. *)
DeleteAny(key) ==
    /\ objects' = Remove(objects, key)
    /\ UNCHANGED <<multipart, reading>>

DeleteTemporary(key) ==
    /\ AssertTemporaryKey(key)
    /\ objects' = Remove(objects, key)
    /\ UNCHANGED <<multipart, reading>>

-----------------------------------------------------------------------------
(* A repeated initiation finds the upload and changes nothing. *)
InitiateMultipartUpload(u, key, media) ==
    /\ AssertTemporaryKey(key)
    /\ u \notin DOMAIN multipart
    /\ multipart' = Put(multipart, u, [key |-> key, media |-> media,
                                       status |-> "initiated", parts |-> << >>])
    /\ UNCHANGED <<objects, reading>>

(* The caller names the object the upload was started for. *)
RequireMultipart(u, key) == u \in DOMAIN multipart /\ multipart[u].key = key

UploadMultipartPart(p, u, key, n) ==
    /\ reading[p] = {}
    /\ RequireMultipart(u, key)
    /\ multipart[u].status \notin {"aborted", "completed"}
    /\ reading' = [reading EXCEPT ![p] = {[call |-> "part", upload |-> u, number |-> n]}]
    /\ UNCHANGED <<objects, multipart>>

(* The status is not looked at again once the body has been read: a part   *)
(* that arrives late opens an aborted or completed upload again.           *)
PartBody(p, chunk) ==
    \E r \in reading[p] :
        /\ r.call = "part"
        /\ reading' = [reading EXCEPT ![p] = {}]
        /\ multipart' =
             IF r.number \in DOMAIN multipart[r.upload].parts THEN multipart
             ELSE [multipart EXCEPT ![r.upload].status = "uploading",
                                    ![r.upload].parts = Put(@, r.number, chunk)]
        /\ UNCHANGED objects

(* The parts are those recorded, numbered from 1 without a gap. *)
ReconcileParts(parts) == \E n \in 0..MaxParts : DOMAIN parts = 1..n

CompleteMultipartUpload(u, key, content) ==
    /\ RequireMultipart(u, key)
    /\ multipart[u].status \notin {"aborted", "completed"}
    /\ ReconcileParts(multipart[u].parts)
    /\ multipart[u].parts = content
    /\ objects' = Put(objects, key, [content |-> content, media |-> multipart[u].media])
    /\ multipart' = [multipart EXCEPT ![u].status = "completed"]
    /\ UNCHANGED reading

AbortMultipartUpload(u, key) ==
    /\ RequireMultipart(u, key)
    /\ multipart' = [multipart EXCEPT ![u].status = "aborted", ![u].parts = << >>]
    /\ UNCHANGED <<objects, reading>>

MemoryNext ==
    \/ \E p \in Callers, key \in Keys, m \in Media : WriteTemporary(p, key, m)
    \/ \E p \in Callers, c \in Bodies : WriteBody(p, c)
    \/ \E p \in Callers : BodyFails(p)
    \/ \E key \in Keys, c \in Bodies, m \in Media : CommitImmutable(key, c, m)
    \/ \E key \in Keys : DeleteTemporary(key)
    \/ \E u \in Uploads, key \in Keys, m \in Media : InitiateMultipartUpload(u, key, m)
    \/ \E p \in Callers, u \in Uploads, key \in Keys, n \in 1..MaxParts :
          UploadMultipartPart(p, u, key, n)
    \/ \E p \in Callers, c \in Chunks : PartBody(p, c)
    \/ \E u \in Uploads, key \in Keys, c \in Bodies : CompleteMultipartUpload(u, key, c)
    \/ \E u \in Uploads, key \in Keys : AbortMultipartUpload(u, key)

MemorySpec == MemoryInit /\ [][MemoryNext]_memoryVars

-----------------------------------------------------------------------------
(* An object under a canonical key holds the content whose digest the key  *)
(* names: commitImmutable takes the bytes of the temporary object, which   *)
(* other calls may replace, and never those the caller only declared.      *)
CanonicalIsItsDigest ==
    \A k \in DOMAIN objects : k[1] = "canonical" => objects[k].content = k[2]

(* A step neither replaces nor removes an object under a canonical key. *)
CanonicalKept ==
    \A k \in DOMAIN objects :
        k[1] = "canonical" => k \in DOMAIN objects' /\ objects'[k] = objects[k]

(* What has been committed stays as it is: no later write, commit, part,   *)
(* completion, abort or deletion touches a canonical object.               *)
CanonicalIsImmutable == [][CanonicalKept]_memoryVars
=============================================================================
