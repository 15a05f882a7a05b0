------------------------------ MODULE GCSResumable ------------------------------
(***************************************************************************)
(* A client uploads an object of Size bytes over a resumable session, as   *)
(* resumeUpload's comment describes the requests: whole, in chunks, or a   *)
(* status check, by PUT, which resumeUpload handles at once, or by POST,   *)
(* which comes to it through uploadObj and its bucket check.  Requests and *)
(* replies are lost, the client times out and tries again, and requests it *)
(* gave up on may still arrive, in any order, while other clients change   *)
(* buckets and objects.  Byte i is i.                                      *)
(***************************************************************************)
EXTENDS GCS, FiniteSets

CONSTANTS
  Size,          \* bytes of the object
  theBucket, theName, starter, id,  \* where it goes, and the session
  MaxLate        \* bound: requests given up on that may still arrive

ASSUME ResumableAssumption ==
  /\ Size \in Nat \ {0} /\ MaxLate \in Nat
  /\ theBucket \in Bucket /\ theName \in Name /\ starter \in Upload /\ id \in Session

VARIABLES
  client,   \* "start", "ready", "waiting", "done" (told 200) or "gone" (told 404)
  pos,      \* the persisted length it was last told
  unsure,   \* it timed out since
  current,  \* its request on the way, or {}
  late,     \* requests it gave up on, still on the way
  (* history *)
  stored    \* the session's object was stored, with this content: a set

resumable == <<client, pos, unsure, current, late, stored>>
resVars == <<gcs, resumable>>

Span(p, q) == [i \in 1 .. q - p |-> p + i]
Whole == Span(0, Size)

\* The requests a client at position p may send (the header's end offset is
\* implied by the body).
Chunk(p)  == {[start |-> p, total |-> t, query |-> FALSE, last |-> FALSE, body |-> Span(p, q)] :
                q \in p + 1 .. Size, t \in {-1, Size}}
Rest(p)   == {[start |-> p, total |-> -1, query |-> FALSE, last |-> TRUE, body |-> Span(p, Size)]}
Status    == {[start |-> 0, total |-> t, query |-> TRUE, last |-> FALSE, body |-> <<>>] :
                t \in {-1, Size}}
Requests(p) == Chunk(p) \cup Rest(p)

\* A request on the way goes next to the check in uploadObj (a POST), or to
\* resumeUpload (a PUT, or a POST past its check).
To(handler, cr) == [at |-> handler, cr |-> cr]
Handler == {"uploadObj", "resumeUpload"}

ResInit ==
  /\ GCSInit
  /\ client = "start" /\ pos = 0 /\ unsure = FALSE
  /\ current = {} /\ late = {} /\ stored = {}

\* What the server did with a request, for the history.
Recorded(cr) ==
  stored' = IF Answer(id, cr).code = 200 THEN stored \cup {Persisted(id, cr)} ELSE stored

----------------------------------------------------------------------------
\* The start is a checked upload like any other, and its reply is not lost.
Start ==
  /\ client = "start"
  /\ starter \in DOMAIN checked
  /\ checked[starter].bucket = theBucket /\ checked[starter].name = theName
  /\ StartResumable(starter, id)
  /\ client' = "ready"
  /\ UNCHANGED <<pos, unsure, current, late, stored>>

\* Data from where it stands; after a timeout possibly a status check first.
Send ==
  /\ client = "ready"
  /\ \E h \in Handler, cr \in Requests(pos) \cup (IF unsure THEN Status ELSE {}) :
       current' = {To(h, cr)}
  /\ client' = "waiting"
  /\ UNCHANGED <<gcs, pos, unsure, late, stored>>

\* uploadObj finds the bucket of a POST's URI, and hands the request on once
\* it let go of the lock.
CheckPasses(m) ==
  /\ m \in current /\ m.at = "uploadObj" /\ theBucket \in buckets
  /\ current' = {To("resumeUpload", m.cr)}
  /\ UNCHANGED <<gcs, client, pos, unsure, late, stored>>

LatePasses(m) ==
  /\ m \in late /\ m.at = "uploadObj" /\ theBucket \in buckets
  /\ late' = (late \ {m}) \cup {To("resumeUpload", m.cr)}
  /\ UNCHANGED <<gcs, client, pos, unsure, current, stored>>

\* Or it answers 404 at once: the session, open or not, is left alone.  With
\* nobody to read the reply the request is lost.
CheckRefuses(m) ==
  /\ client = "waiting" /\ m \in current
  /\ m.at = "uploadObj" /\ theBucket \notin buckets
  /\ client' = "gone" /\ unsure' = FALSE /\ current' = {}
  /\ UNCHANGED <<gcs, pos, late, stored>>

\* resumeUpload handles the current request and its reply arrives.
Receive(m) ==
  /\ client = "waiting" /\ m \in current /\ m.at = "resumeUpload"
  /\ ResumeUpload(id, m.cr)
  /\ LET a == Answer(id, m.cr) IN
       /\ client' = CASE a.code = 200 -> "done" [] a.code = 404 -> "gone" [] a.code = 308 -> "ready"
       /\ pos' = IF a.code = 308 THEN a.persisted ELSE pos
  /\ unsure' = FALSE /\ current' = {}
  /\ Recorded(m.cr)
  /\ UNCHANGED late

\* The server handles it and the reply is lost.
ReplyLost(m) ==
  /\ m \in current /\ m.at = "resumeUpload"
  /\ ResumeUpload(id, m.cr) /\ Recorded(m.cr)
  /\ current' = {}
  /\ UNCHANGED <<client, pos, unsure, late>>

RequestLost ==
  /\ current # {} \/ late # {}
  /\ \/ current' = {} /\ UNCHANGED late
     \/ \E m \in late : late' = late \ {m} /\ UNCHANGED current
  /\ UNCHANGED <<gcs, client, pos, unsure, stored>>

\* The client gives up on its request, which may still be on the way
\* (past the bound it is lost).
Timeout ==
  /\ client = "waiting"
  /\ client' = "ready" /\ unsure' = TRUE
  /\ late' = IF Cardinality(late) < MaxLate THEN late \cup current ELSE late
  /\ current' = {}
  /\ UNCHANGED <<gcs, pos, stored>>

\* A request the client gave up on is handled after all; nobody reads the reply.
LateArrives(m) ==
  /\ m \in late /\ m.at = "resumeUpload"
  /\ ResumeUpload(id, m.cr) /\ Recorded(m.cr)
  /\ late' = late \ {m}
  /\ UNCHANGED <<client, pos, unsure, current>>

\* Requests over a broken connection are lost with it.
ServerRestarts ==
  /\ id \in drawn
  /\ Restarted
  /\ current' = {} /\ late' = {}
  /\ UNCHANGED <<client, pos, unsure, stored>>

ResNext ==
  \/ Start \/ Send \/ RequestLost \/ Timeout \/ ServerRestarts
  \/ \E m \in current : CheckPasses(m) \/ CheckRefuses(m) \/ Receive(m) \/ ReplyLost(m)
  \/ \E m \in late : LatePasses(m) \/ LateArrives(m)
  \/ Others /\ UNCHANGED resumable

ResSpec == ResInit /\ [][ResNext]_resVars

\* The bucket check of the client's request is over, one way or the other.
Checked(m) == CheckPasses(m) \/ CheckRefuses(m)

\* A request of the client that carries data.
Carrying(m) == m.cr \notin Status

(* A client that keeps trying over a network that does not lose all of its  *)
(* requests or replies for ever: neither the status checks nor the data,    *)
(* before the bucket check or after it.                                     *)
FairResSpec ==
  /\ ResSpec
  /\ WF_resVars(Send) /\ WF_resVars(Timeout)
  /\ SF_resVars(\E m \in current : Checked(m))
  /\ SF_resVars(\E m \in current : Carrying(m) /\ Checked(m))
  /\ SF_resVars(\E m \in current : Receive(m))
  /\ SF_resVars(\E m \in current : Carrying(m) /\ Receive(m))

----------------------------------------------------------------------------
(* Type invariant of the server, the client and the network.                *)
ResTypeOK ==
  /\ GCSTypeOK
  /\ client \in {"start", "ready", "waiting", "done", "gone"}
  /\ pos \in 0 .. Size /\ unsure \in BOOLEAN
  /\ \A m \in current \cup late :
       \E h \in Handler, cr \in Status \cup UNION {Requests(p) : p \in 0 .. Size} : m = To(h, cr)
  /\ client # "waiting" => current = {}

(* The persisted bytes are always a prefix of the object, at least as long  *)
(* as any length the client was told, whatever arrives twice, late or not   *)
(* at all; with the session gone nothing is promised.                       *)
PersistedIsPrefix ==
  id \in DOMAIN sessions =>
    LET d == sessions[id].data IN d = Span(0, Len(d)) /\ pos <= Len(d) /\ Len(d) <= Size

(* However often it is retried, the upload stores its object at most once,  *)
(* and whole; a client that was told 200 has stored it.                     *)
StoredOnceAndWhole == /\ stored \subseteq {Whole}
                      /\ client = "done" => stored # {}
                      /\ stored # {} => id \notin DOMAIN sessions

(* A late request never disturbs what others did since: the bytes under the *)
(* object's name change only by a plain upload or by the session's end.     *)
ObjectsChangeOnPurpose ==
  [][\A b \in DOMAIN objects \cap DOMAIN objects' :
       \A n \in DOMAIN objects'[b] :
         \/ n \in DOMAIN objects[b] /\ objects'[b][n] = objects[b][n]
         \/ \E r \in DOMAIN checked : /\ r \notin DOMAIN checked'
                                      /\ checked[r].bucket = b /\ objects'[b][n] = checked[r].data
         \/ id \in DOMAIN sessions /\ id \notin DOMAIN sessions']_resVars

(* A client that retries is answered in the end: stored, or start again.    *)
UploadEnds == client = "ready" ~> client \in {"done", "gone"}

----------------------------------------------------------------------------
(* The session as its client may see it.                                    *)

Phase == CASE id \notin drawn -> "none"
           [] id \in DOMAIN sessions -> "open"
           [] id \in drawn \ DOMAIN sessions /\ stored = {} -> "lost"
           [] id \in drawn \ DOMAIN sessions /\ stored # {} -> "stored"

Held == CASE Phase = "open" -> Len(sessions[id].data)
          [] Phase = "stored" -> Size
          [] Phase \in {"none", "lost"} -> 0

Verdict == CASE client = "done" -> "stored" [] client = "gone" -> "gone"
             [] client \notin {"done", "gone"} -> "none"

\* What stands under the object's name: nothing, or one content.
Standing == IF theBucket \in DOMAIN objects /\ theName \in DOMAIN objects[theBucket]
              THEN {objects[theBucket][theName]} ELSE {}

Promise == INSTANCE UploadPromise
             WITH session <- Phase, held <- Held, told <- pos, verdict <- Verdict,
                  place <- theBucket \in buckets, object <- Standing, Theirs <- Data

(* To its client the session is an atomic write that remembers what it was  *)
(* given, whatever requests and replies are lost, repeated or late.         *)
KeepsUploadPromise == Promise!Spec
=============================================================================
