------------------------------ MODULE ObjectStorage ------------------------------
(* The object storage adapter of one process.  Workers put objects under keys
   that are written once, and do so again when a job is repeated; clients put
   what they upload at a signed URL; gallring deletes.  A request may be carried
   out although its caller never learns of it, or long after it was given up.  *)
EXTENDS Naturals

CONSTANTS
    Putter,         \* calls of the adapter in flight
    KeptKey,        \* keys that are written once: signed documents, reports, packages
    SourceKey,      \* keys that upload grants are issued for
    Content,
    Nothing,
    MaxLate         \* requests that are carried out after they were given up

ASSUME ObjectStorageAssumption ==
    /\ MaxLate \in Nat
    /\ KeptKey \cap SourceKey = {} /\ Nothing \notin Content

VARIABLES
    backend,        \* "s3", "s3 without digests", "supabase"
    bucket,         \* those that exist
    memo,           \* what the adapter remembers of each bucket
    object,         \* key -> its content, and whether the backend tells its digest
    putter,         \* what each call is about to do
    signedUrl,      \* the signed URL of a source
    late,           \* requests under way whose caller is gone
    lates,
    answered        \* what callers were told is stored, and nobody has deleted since

storageVars == <<backend, bucket, memo, object, putter, signedUrl, late, lates, answered>>

Bucket == {"sources", "kept"}
ResolveBucket(key) == IF key \in KeptKey THEN "kept" ELSE "sources"
NoObject == [content |-> Nothing, told |-> FALSE]
Free == [at |-> "free", key |-> Nothing, content |-> Nothing]

StorageInit ==
    /\ backend \in {"s3", "s3 without digests", "supabase"}
    /\ bucket \in {{}, Bucket}
    /\ memo = [b \in Bucket |-> "unknown"]
    /\ object = [k \in KeptKey \cup SourceKey |-> NoObject]
    /\ putter = [c \in Putter |-> Free]
    /\ signedUrl = [k \in SourceKey |-> "none"]
    /\ late = {} /\ lates = 0 /\ answered = {}

-------------------------------------------------------------------------------
Call(c, key, content) ==
    /\ putter[c] = Free
    /\ putter' = [putter EXCEPT ![c] = [at |-> "bucket", key |-> key, content |-> content]]
    /\ UNCHANGED <<backend, bucket, memo, object, signedUrl, late, lates, answered>>

PutObject(c, k, content) == k \in KeptKey /\ content \in Content /\ Call(c, k, content)

CreateUploadGrant(c, k) == k \in SourceKey /\ signedUrl[k] = "none" /\ Call(c, k, Nothing)

(* Callers that come while the bucket is looked up wait for the one answer. *)
EnsureBucket(c) ==
    LET b == ResolveBucket(putter[c].key) IN
    /\ putter[c].at = "bucket"
    /\ \/ memo[b] = "confirmed" /\ putter' = [putter EXCEPT ![c].at = "send"] /\ UNCHANGED memo
       \/ memo[b] = "asking" /\ putter' = [putter EXCEPT ![c].at = "wait"] /\ UNCHANGED memo
       \/ /\ memo[b] = "unknown" /\ memo' = [memo EXCEPT ![b] = "asking"]
          /\ putter' = [putter EXCEPT ![c].at = "ask"]
    /\ UNCHANGED <<backend, bucket, object, signedUrl, late, lates, answered>>

(* A bucket that is missing is made; a lookup that failed is not remembered. *)
ConfirmPrivateBucket(c, succeeds) ==
    LET b == ResolveBucket(putter[c].key)
        Concerned(x) == x = c \/ (putter[x].at = "wait" /\ ResolveBucket(putter[x].key) = b) IN
    /\ putter[c].at = "ask"
    /\ bucket' = IF succeeds THEN bucket \cup {b} ELSE bucket
    /\ memo' = [memo EXCEPT ![b] = IF succeeds THEN "confirmed" ELSE "unknown"]
    /\ putter' = [x \in Putter |-> IF ~Concerned(x) THEN putter[x]
                                   ELSE IF succeeds THEN [putter[x] EXCEPT !.at = "send"] ELSE Free]
    /\ UNCHANGED <<backend, object, signedUrl, late, lates, answered>>

PresignPut(c) ==
    /\ putter[c].at = "send" /\ putter[c].key \in SourceKey
    /\ signedUrl' = [signedUrl EXCEPT ![putter[c].key] = "open"]
    /\ putter' = [putter EXCEPT ![c] = Free]
    /\ UNCHANGED <<backend, bucket, memo, object, late, lates, answered>>

-------------------------------------------------------------------------------
(* if-none-match: *, or x-upsert: false *)
WriteOnce(key, content) ==
    object' = IF object[key] = NoObject
              THEN [object EXCEPT ![key] = [content |-> content, told |-> backend = "s3"]]
              ELSE object

(* The backend carries out the request, and its answer comes or is lost. *)
Send(c) ==
    LET key == putter[c].key
        stored == object[key] = NoObject IN
    /\ putter[c].at = "send" /\ key \in KeptKey
    /\ WriteOnce(key, putter[c].content)
    /\ \/ /\ stored
          /\ answered' = answered \cup {<<key, putter[c].content>>}
          /\ putter' = [putter EXCEPT ![c] = Free]
       \/ /\ putter' = [putter EXCEPT ![c] = IF ~stored /\ backend # "supabase" THEN [@ EXCEPT !.at = "compare"] ELSE Free]
          /\ UNCHANGED answered
    /\ UNCHANGED <<backend, bucket, memo, signedUrl, late, lates>>

GiveUp(c) ==
    /\ putter[c].at = "send" /\ putter[c].key \in KeptKey
    /\ lates < MaxLate /\ lates' = lates + 1
    /\ late' = late \cup {<<putter[c].key, putter[c].content>>}
    /\ putter' = [putter EXCEPT ![c] = Free]
    /\ UNCHANGED <<backend, bucket, memo, object, signedUrl, answered>>

CarriedOutLate(r) ==
    /\ r \in late /\ late' = late \ {r}
    /\ WriteOnce(r[1], r[2])
    /\ UNCHANGED <<backend, bucket, memo, putter, signedUrl, lates, answered>>

\* Whatever is stored there passes for the retry of what the caller puts.
TakesAnyForSame(c) ==
    /\ putter[c].at = "compare"
    /\ answered' = answered \cup {<<putter[c].key, putter[c].content>>}
    /\ putter' = [putter EXCEPT ![c] = Free]
    /\ UNCHANGED <<backend, bucket, memo, object, signedUrl, late, lates>>

(* The object was there: a repetition when its digest is the one to be written,
   and refused when it is another one or cannot be established.               *)
StoredDigest(c) ==
    LET key == putter[c].key
        same == object[key].told /\ object[key].content = putter[c].content IN
    /\ putter[c].at = "compare"
    /\ answered' = IF same THEN answered \cup {<<key, putter[c].content>>} ELSE answered
    /\ putter' = [putter EXCEPT ![c] = Free]
    /\ UNCHANGED <<backend, bucket, memo, object, signedUrl, late, lates>>

-------------------------------------------------------------------------------
(* The URL of an S3 backend takes any number of puts, the other one's the first;
   what comes through it has no digest with it.                               *)
Upload(k, content) ==
    /\ signedUrl[k] = "open"
    /\ backend = "supabase" => object[k] = NoObject
    /\ object' = [object EXCEPT ![k] = [content |-> content, told |-> FALSE]]
    /\ UNCHANGED <<backend, bucket, memo, putter, signedUrl, late, lates, answered>>

LinkRunsOut(k) ==
    /\ signedUrl[k] = "open" /\ signedUrl' = [signedUrl EXCEPT ![k] = "expired"]
    /\ UNCHANGED <<backend, bucket, memo, object, putter, late, lates, answered>>

(* An object that is not there is deleted as well. *)
DeleteObject(k) ==
    /\ object' = [object EXCEPT ![k] = NoObject]
    /\ answered' = {a \in answered : a[1] # k}
    /\ UNCHANGED <<backend, bucket, memo, putter, signedUrl, late, lates>>

StorageNext ==
    \/ \E c \in Putter :
        \/ \E k \in KeptKey, content \in Content : PutObject(c, k, content)
        \/ \E k \in SourceKey : CreateUploadGrant(c, k)
        \/ EnsureBucket(c) \/ PresignPut(c) \/ Send(c) \/ GiveUp(c) \/ StoredDigest(c)
        \/ \E succeeds \in BOOLEAN : ConfirmPrivateBucket(c, succeeds)
    \/ \E r \in late : CarriedOutLate(r)
    \/ \E k \in SourceKey : LinkRunsOut(k) \/ \E content \in Content : Upload(k, content)
    \/ \E k \in KeptKey \cup SourceKey : DeleteObject(k)

StorageSpec == StorageInit /\ [][StorageNext]_storageVars

-------------------------------------------------------------------------------
StorageTypeOK ==
    /\ bucket \subseteq Bucket /\ lates \in 0..MaxLate
    /\ memo \in [Bucket -> {"unknown", "asking", "confirmed"}]
    /\ \A k \in DOMAIN object : object[k].content \in Content \cup {Nothing}
    /\ \A c \in Putter : putter[c].at \in {"free", "bucket", "ask", "wait", "send", "compare"}

(* What the caller of an immutable put was told is stored is stored, until it is
   deleted: with retries, late requests, and two callers that put different
   bytes at once; and it is in a bucket that was confirmed.  Nobody waits for an
   answer about a bucket that no one asks for (putObject, createBucketMemo).   *)
AnsweredPutIsStored ==
    /\ \A a \in answered : object[a[1]].content = a[2]
    /\ \A c \in Putter : putter[c].at = "send" => ResolveBucket(putter[c].key) \in bucket
    /\ \A c \in Putter : putter[c].at = "wait" =>
          \E x \in Putter : putter[x].at = "ask" /\ ResolveBucket(putter[x].key) = ResolveBucket(putter[c].key)

================================================================================
