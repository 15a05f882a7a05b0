---------------------------------- MODULE GCS ----------------------------------
(***************************************************************************)
(* Cloud Storage: buckets, their objects, plain uploads and the sessions   *)
(* of resumable uploads.  Every handler runs under the service's lock but  *)
(* uploadObj, which checks the bucket, lets go of the lock, reads the body *)
(* and stores the object in a second critical section.                     *)
(***************************************************************************)
EXTENDS Integers, Sequences, Functions

CONSTANTS
  Bucket, Name,  \* bucket and object names
  Upload,        \* plain uploads, and starts of sessions, in flight
  Session,       \* the upload ids that can be drawn
  Data           \* the contents of plain uploads

VARIABLES
  buckets,   \* st.Buckets: the names that exist
  objects,   \* st.Objects: bucket -> object name -> data
  sessions,  \* upload id -> [bucket, name, data]
  drawn,     \* the upload ids drawn so far
  checked,   \* uploads past the bucket check: upload -> the object they store
  (* history *)
  overtaken, \* those of them whose bucket was deleted since
  reopened   \* deleted buckets that such an upload stored into

gcs == <<buckets, objects, sessions, drawn, checked, overtaken, reopened>>

GCSInit ==
  /\ buckets = {} /\ objects = <<>> /\ sessions = <<>> /\ drawn = {}
  /\ checked = <<>> /\ overtaken = {} /\ reopened = {}

Without(f, k) == Restrict(f, DOMAIN f \ {k})
With(f, k, v) == [x \in DOMAIN f \cup {k} |-> IF x = k THEN v ELSE f[x]]

\* objects[b][n] = d, making the bucket's map when it is missing.
Stored(b, n, d) ==
  With(objects, b, With(IF b \in DOMAIN objects THEN objects[b] ELSE <<>>, n, d))

----------------------------------------------------------------------------
(* Buckets and objects.  A refused call (404, 409) changes nothing.         *)

CreateBucket(b) ==
  /\ b \notin buckets
  /\ buckets' = buckets \cup {b}
  /\ objects' = With(objects, b, <<>>)
  /\ reopened' = reopened \ {b}
  /\ UNCHANGED <<sessions, drawn, checked, overtaken>>

\* Sessions of the bucket stay open: they are checked when they complete.
DeleteBucket(b) ==
  /\ b \in buckets
  /\ buckets' = buckets \ {b}
  /\ objects' = Without(objects, b)
  /\ overtaken' = overtaken \cup {r \in DOMAIN checked : checked[r].bucket = b}
  /\ UNCHANGED <<sessions, drawn, checked, reopened>>

\* Works on whatever map is there, of a bucket that exists or not.
DeleteObj(b, n) ==
  /\ b \in DOMAIN objects /\ n \in DOMAIN objects[b]
  /\ objects' = With(objects, b, Without(objects[b], n))
  /\ UNCHANGED <<buckets, sessions, drawn, checked, overtaken, reopened>>

----------------------------------------------------------------------------
(* uploadObj: a plain upload, or the start of a session.                    *)

UploadCheck(r, b, n, d) ==
  /\ r \notin DOMAIN checked /\ b \in buckets
  /\ checked' = With(checked, r, [bucket |-> b, name |-> n, data |-> d])
  /\ UNCHANGED <<buckets, objects, sessions, drawn, overtaken, reopened>>

\* The bucket may be gone by now: its map is made again.
UploadStore(r) ==
  /\ r \in DOMAIN checked
  /\ LET c == checked[r] IN
       /\ objects' = Stored(c.bucket, c.name, c.data)
       /\ reopened' = IF c.bucket \notin buckets /\ r \in overtaken
                        THEN reopened \cup {c.bucket} ELSE reopened
  /\ checked' = Without(checked, r) /\ overtaken' = overtaken \ {r}
  /\ UNCHANGED <<buckets, sessions, drawn>>

\* The request is malformed, or its client goes away while the body is read.
UploadAborted(r) ==
  /\ r \in DOMAIN checked
  /\ checked' = Without(checked, r) /\ overtaken' = overtaken \ {r}
  /\ UNCHANGED <<buckets, objects, sessions, drawn, reopened>>

\* Upload ids are random and taken to be distinct.
StartResumable(r, u) ==
  /\ r \in DOMAIN checked /\ u \in Session \ drawn
  /\ sessions' = With(sessions, u, [bucket |-> checked[r].bucket, name |-> checked[r].name,
                                    data |-> <<>>])
  /\ drawn' = drawn \cup {u}
  /\ checked' = Without(checked, r) /\ overtaken' = overtaken \ {r}
  /\ UNCHANGED <<buckets, objects, reopened>>

----------------------------------------------------------------------------
(* resumeUpload.  A request is a parsed contentRange and its body:          *)
(*   start, total (-1 for "*"), query, last, body.                          *)

\* Mutant: the start of the chunk is not compared.
AppliedAnywhere(u, cr) == ~cr.query

\* A chunk counts only if it continues the persisted bytes.
Applied(u, cr) == ~cr.query /\ cr.start = Len(sessions[u].data)

Persisted(u, cr) == sessions[u].data \o (IF Applied(u, cr) THEN cr.body ELSE <<>>)

\* Mutants: the last chunk completes the upload, applied or not; only a
\* known total completes it.
CompleteWhenLast(u, cr)    == cr.last \/ Len(Persisted(u, cr)) = cr.total
CompleteWhenTotal(u, cr)   == cr.total >= 0 /\ Len(Persisted(u, cr)) = cr.total

Complete(u, cr) ==
  \/ Applied(u, cr) /\ cr.last
  \/ cr.total >= 0 /\ Len(Persisted(u, cr)) = cr.total

\* Mutant: completing stores the object without looking at the bucket.
BucketStaysOpen(b) == TRUE

BucketStands(b) == b \in buckets

Answered(code, n) == [code |-> code, persisted |-> n]

\* Mutant: the answered range ends one byte too far.
AnswerOffByOne(u, cr) ==
  CASE u \notin DOMAIN sessions -> Answered(404, 0)
    [] u \in DOMAIN sessions /\ ~Complete(u, cr) -> Answered(308, Len(Persisted(u, cr)) + 1)
    [] u \in DOMAIN sessions /\ Complete(u, cr) ->
         Answered(IF BucketStands(sessions[u].bucket) THEN 200 ELSE 404, 0)

\* 404, 308 with the persisted length, or 200.  (A POST comes here only past
\* uploadObj's bucket check, whose 404 leaves the session as it is:
\* CheckRefuses in GCSResumable.)
Answer(u, cr) ==
  CASE u \notin DOMAIN sessions -> Answered(404, 0)
    [] u \in DOMAIN sessions /\ ~Complete(u, cr) -> Answered(308, Len(Persisted(u, cr)))
    [] u \in DOMAIN sessions /\ Complete(u, cr) ->
         Answered(IF BucketStands(sessions[u].bucket) THEN 200 ELSE 404, 0)

\* Mutant: the session stays after it completed.
SessionKept(u) == sessions

SessionEnded(u) == Without(sessions, u)

\* The handler from its look at the session on, for a PUT and a checked POST.
\* A complete upload ends its session even if the bucket is gone.
ResumeUpload(u, cr) ==
  /\ CASE u \notin DOMAIN sessions -> UNCHANGED <<sessions, objects, reopened>>
       [] u \in DOMAIN sessions /\ ~Complete(u, cr) ->
            /\ sessions' = [sessions EXCEPT ![u].data = Persisted(u, cr)]
            /\ UNCHANGED <<objects, reopened>>
       [] u \in DOMAIN sessions /\ Complete(u, cr) ->
            /\ sessions' = SessionEnded(u)
            /\ IF BucketStands(sessions[u].bucket)
                 THEN objects' = Stored(sessions[u].bucket, sessions[u].name, Persisted(u, cr))
                 ELSE UNCHANGED objects
            /\ UNCHANGED reopened
  /\ UNCHANGED <<buckets, drawn, checked, overtaken>>

\* Sessions and requests in flight live in memory only: an orderly restart
\* keeps the buckets and the objects.
Restarted ==
  /\ sessions' = <<>> /\ checked' = <<>> /\ overtaken' = {}
  /\ UNCHANGED <<buckets, objects, drawn, reopened>>

\* What clients may do to buckets and objects at any moment.
Others ==
  \/ \E b \in Bucket : \/ CreateBucket(b) \/ DeleteBucket(b)
                       \/ \E n \in Name : \/ DeleteObj(b, n)
                                          \/ \E r \in Upload, d \in Data : UploadCheck(r, b, n, d)
  \/ \E r \in Upload : UploadStore(r) \/ UploadAborted(r)

----------------------------------------------------------------------------
(* Type invariant: the shapes of the maps; data is any sequence here.       *)
GCSTypeOK ==
  /\ buckets \subseteq Bucket /\ DOMAIN objects \subseteq Bucket
  /\ \A b \in DOMAIN objects : DOMAIN objects[b] \subseteq Name
  /\ DOMAIN sessions \subseteq drawn /\ drawn \subseteq Session
  /\ \A u \in DOMAIN sessions : sessions[u].bucket \in Bucket /\ sessions[u].name \in Name
  /\ DOMAIN checked \subseteq Upload /\ overtaken \subseteq DOMAIN checked
  /\ reopened \subseteq Bucket

(* A bucket that exists can be listed, and the only objects outside one are *)
(* those of an upload that was overtaken by the deletion of its bucket      *)
(* between its two critical sections: no other path stores into a deleted   *)
(* bucket, a completing session included, and deletion leaves none behind.  *)
OrphansWereOvertaken == buckets \subseteq DOMAIN objects /\ DOMAIN objects \subseteq buckets \cup reopened
=============================================================================
