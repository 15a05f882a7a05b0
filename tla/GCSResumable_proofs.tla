-------------------------- MODULE GCSResumable_proofs --------------------------
(***************************************************************************)
(* What a resumable session holds and stores, for objects of any size, any *)
(* number of late requests, and any other buckets, uploads and sessions.   *)
(***************************************************************************)
EXTENDS GCSResumable, SequenceTheorems, TLAPS

(* The bytes p + 1 .. q as a sequence.                                       *)
LEMMA SpanSeq ==
  ASSUME NEW p \in Nat, NEW q \in Nat, p <= q
  PROVE  /\ Span(p, q) \in Seq(Nat) /\ Len(Span(p, q)) = q - p
         /\ \A i \in 1 .. q - p : Span(p, q)[i] = p + i
<1>1. q - p \in Nat
  OBVIOUS
<1> QED BY <1>1 DEF Span

(* A prefix and the bytes that follow it make a longer prefix.              *)
LEMMA SpanConcat ==
  ASSUME NEW p \in Nat, NEW q \in Nat, p <= q
  PROVE  Span(0, p) \o Span(p, q) = Span(0, q)
<1> DEFINE s == Span(0, p)
           t == Span(p, q)
           c == s \o t
<1>0. ASSUME NEW n \in Nat
      PROVE  Span(0, n) \in Seq(Nat) /\ Len(Span(0, n)) = n /\ \A i \in 1 .. n : Span(0, n)[i] = i
  BY SpanSeq DEF Span
<1>1. /\ s \in Seq(Nat) /\ Len(s) = p /\ \A i \in 1 .. p : s[i] = i
      /\ t \in Seq(Nat) /\ Len(t) = q - p /\ \A i \in 1 .. q - p : t[i] = p + i
  <2>1. s \in Seq(Nat) /\ Len(s) = p /\ \A i \in 1 .. p : s[i] = i
    BY <1>0
  <2>2. t \in Seq(Nat) /\ Len(t) = q - p /\ \A i \in 1 .. q - p : t[i] = p + i
    BY SpanSeq
  <2> QED BY <2>1, <2>2
<1>2. Span(0, q) \in Seq(Nat) /\ Len(Span(0, q)) = q /\ \A i \in 1 .. q : Span(0, q)[i] = i
  BY <1>0
<1> HIDE DEF s, t
<1>3. /\ c \in Seq(Nat) /\ Len(c) = Len(s) + Len(t)
      /\ \A i \in 1 .. Len(s) + Len(t) : c[i] = IF i <= Len(s) THEN s[i] ELSE t[i - Len(s)]
  BY <1>1, ConcatProperties
<1> HIDE DEF c
<1>4. Len(c) = q /\ \A i \in 1 .. q : c[i] = IF i <= p THEN s[i] ELSE t[i - p]
  BY <1>1, <1>3
<1>5. ASSUME NEW i \in 1 .. q PROVE c[i] = i
  <2>1. CASE i <= p
    BY <1>1, <1>4, <2>1
  <2>2. CASE p < i
    <3>1. i - p \in 1 .. q - p
      BY <2>2
    <3>2. c[i] = t[i - p]
      BY <1>4, <2>2
    <3> QED BY <1>1, <3>1, <3>2
  <2> QED BY <2>1, <2>2
<1>6. c = Span(0, q)
  BY <1>2, <1>3, <1>4, <1>5, SeqEqual
<1> QED BY <1>6 DEF c, s, t

----------------------------------------------------------------------------
\* The requests a client may have sent, at whatever position it was then.
Requested(cr) == cr \in Status \/ \E p \in 0 .. Size : cr \in Requests(p)

\* The session s holds a prefix of the object of at least k bytes.
Prefix(s, k) == "data" \in DOMAIN s /\ \E n \in k .. Size : s.data = Span(0, n)

\* What makes the two properties inductive: only requests the client sent are
\* on the way, and the session's id is drawn once.
RInv ==
  /\ \A m \in current \cup late : Requested(m.cr)
  /\ pos \in 0 .. Size
  /\ DOMAIN sessions \subseteq drawn
  /\ client = "start" => id \notin drawn /\ pos = 0 /\ stored = {}
  /\ id \in DOMAIN sessions => Prefix(sessions[id], pos)
  /\ stored \subseteq {Whole}
  /\ client = "done" => stored # {}
  /\ stored # {} => id \notin DOMAIN sessions

(* A request past its bucket check is the same request.                     *)
LEMMA ToFields == \A h, cr : To(h, cr).at = h /\ To(h, cr).cr = cr
BY DEF To

(* A request extends the persisted prefix or leaves it, and completes the   *)
(* upload only when it is the whole object.                                 *)
LEMMA Extended ==
  ASSUME NEW cr, Requested(cr), NEW n \in 0 .. Size, sessions[id].data = Span(0, n)
  PROVE  \E m \in n .. Size : /\ Persisted(id, cr) = Span(0, m) /\ Len(Persisted(id, cr)) = m
                              /\ Complete(id, cr) => m = Size
<1>1. Size \in Nat
  BY ResumableAssumption
<1>2. \A k \in 0 .. Size : Span(0, k) \in Seq(Nat) /\ Len(Span(0, k)) = k
  BY <1>1, SpanSeq DEF Span
<1>3. CASE ~Applied(id, cr)
  <2>1. Persisted(id, cr) = Span(0, n)
    BY <1>2, <1>3, ConcatEmptySeq DEF Persisted
  <2>2. cr.total \in {-1, Size}
    BY DEF Requested, Requests, Status, Chunk, Rest
  <2>3. Complete(id, cr) => n = Size
    BY <1>1, <1>2, <1>3, <2>1, <2>2 DEF Complete
  <2> QED BY <1>1, <1>2, <2>1, <2>3
<1>4. CASE Applied(id, cr)
  <2>1. PICK p \in 0 .. Size : cr \in Chunk(p) \/ cr \in Rest(p)
    BY <1>4 DEF Applied, Requested, Requests, Status
  <2>2. PICK q \in p .. Size : /\ cr.body = Span(p, q) /\ cr.start = p
                               /\ cr.total \in {-1, Size}
                               /\ cr.last => q = Size
    BY <1>1, <2>1 DEF Chunk, Rest
  <2>3. p = n
    <3>1. cr.start = Len(Span(0, n))
      BY <1>4 DEF Applied
    <3> QED BY <1>2, <2>2, <3>1
  <2>4. Persisted(id, cr) = Span(0, q)
    <3>1. Persisted(id, cr) = Span(0, p) \o Span(p, q)
      BY <1>4, <2>2, <2>3 DEF Persisted
    <3>2. p \in Nat /\ q \in Nat /\ p <= q
      BY <1>1
    <3> QED BY <3>1, <3>2, SpanConcat
  <2>5. q \in n .. Size /\ q \in 0 .. Size
    BY <1>1, <2>3
  <2>6. Len(Persisted(id, cr)) = q
    BY <1>2, <2>4, <2>5
  <2>7. Complete(id, cr) => q = Size
    BY <1>1, <2>2, <2>5, <2>6 DEF Complete
  <2> QED BY <2>4, <2>5, <2>6, <2>7
<1> QED BY <1>3, <1>4

(* The server handles a request: what it answers is what it then holds.     *)
LEMMA Served ==
  ASSUME RInv, NEW cr, Requested(cr), ResumeUpload(id, cr), Recorded(cr)
  PROVE  /\ drawn' = drawn /\ DOMAIN sessions' \subseteq DOMAIN sessions
         /\ id \in DOMAIN sessions' => Prefix(sessions'[id], pos)
         /\ Answer(id, cr).code = 308 =>
              /\ Answer(id, cr).persisted \in 0 .. Size
              /\ id \in DOMAIN sessions' =>
                   Prefix(sessions'[id], Answer(id, cr).persisted)
         /\ stored \subseteq stored' /\ stored' \subseteq {Whole}
         /\ Answer(id, cr).code = 200 => stored' # {}
         /\ stored' # {} => id \notin DOMAIN sessions'
<1>0. Size \in Nat /\ pos \in 0 .. Size
  BY ResumableAssumption DEF RInv
<1>1. CASE id \notin DOMAIN sessions
  <2>1. Answer(id, cr).code = 404
    BY <1>1 DEF Answer, Answered
  <2>2. UNCHANGED <<sessions, drawn>>
    BY <1>1 DEF ResumeUpload
  <2>3. stored' = stored
    BY <2>1 DEF Recorded
  <2> QED BY <1>1, <2>1, <2>2, <2>3 DEF RInv
<1>2. CASE id \in DOMAIN sessions
  <2>1. PICK n \in pos .. Size : sessions[id].data = Span(0, n)
    BY <1>2 DEF RInv, Prefix
  <2>2. n \in 0 .. Size
    BY <1>0, <2>1
  <2>3. PICK m \in n .. Size : /\ Persisted(id, cr) = Span(0, m) /\ Len(Persisted(id, cr)) = m
                               /\ Complete(id, cr) => m = Size
    BY <2>1, <2>2, Extended
  <2>4. stored = {}
    BY <1>2 DEF RInv
  <2>5. CASE ~Complete(id, cr)
    <3>1. Answer(id, cr).code = 308 /\ Answer(id, cr).persisted = m
      <4>1. Answer(id, cr) = Answered(308, Len(Persisted(id, cr)))
        BY <1>2, <2>5 DEF Answer
      <4> QED BY <2>3, <4>1 DEF Answered
    <3>2. sessions' = [sessions EXCEPT ![id].data = Persisted(id, cr)] /\ drawn' = drawn
      BY <1>2, <2>5 DEF ResumeUpload
    <3>3. DOMAIN sessions' = DOMAIN sessions /\ sessions'[id].data = Span(0, m)
          /\ "data" \in DOMAIN sessions'[id]
      <4>1. /\ DOMAIN sessions' = DOMAIN sessions
            /\ sessions'[id] = [sessions[id] EXCEPT !.data = Persisted(id, cr)]
        BY <1>2, <3>2
      <4>2. "data" \in DOMAIN sessions[id]
        BY <1>2 DEF RInv, Prefix
      <4>3. sessions'[id].data = Persisted(id, cr) /\ "data" \in DOMAIN sessions'[id]
        BY <4>1, <4>2
      <4> QED BY <2>3, <4>1, <4>3
    <3>4. stored' = {}
      BY <2>4, <3>1 DEF Recorded
    <3>5. m \in pos .. Size /\ m \in 0 .. Size /\ m \in m .. Size
      BY <1>0, <2>1, <2>3
    <3> QED BY <2>4, <3>1, <3>2, <3>3, <3>4, <3>5 DEF Prefix
  <2>6. CASE Complete(id, cr)
    <3>1. Persisted(id, cr) = Whole
      <4>1. m = Size
        BY <2>3, <2>6
      <4> QED BY <2>3, <4>1 DEF Whole
    <3>2. Answer(id, cr).code \in {200, 404}
      <4>1. Answer(id, cr) = Answered(IF BucketStands(sessions[id].bucket) THEN 200 ELSE 404, 0)
        BY <1>2, <2>6 DEF Answer
      <4> QED BY <4>1 DEF Answered
    <3>3. sessions' = Without(sessions, id) /\ drawn' = drawn
      BY <1>2, <2>6 DEF ResumeUpload, SessionEnded
    <3>4. DOMAIN sessions' = DOMAIN sessions \ {id}
      BY <3>3 DEF Without, Restrict
    <3>5. stored' = IF Answer(id, cr).code = 200 THEN {Whole} ELSE {}
      BY <2>4, <3>1 DEF Recorded
    <3> QED BY <2>4, <3>2, <3>3, <3>4, <3>5
  <2> QED BY <2>5, <2>6
<1> QED BY <1>1, <1>2

(* Initially nothing is under way.                                          *)
LEMMA RInit == ResInit => RInv
BY ResumableAssumption DEF ResInit, GCSInit, RInv

(* The client's and the server's steps, lost, late and repeated requests.   *)
LEMMA RStep == RInv /\ [ResNext]_resVars => RInv'
<1> SUFFICES ASSUME RInv, [ResNext]_resVars PROVE RInv'
  OBVIOUS
<1> USE DEF RInv
<1>0. Size \in Nat
  BY ResumableAssumption
<1>1. CASE Start
  <2>1. /\ client = "start" /\ client' = "ready"
        /\ id \notin drawn /\ drawn' = drawn \cup {id}
        /\ sessions' = With(sessions, id, [bucket |-> checked[starter].bucket,
                                          name |-> checked[starter].name, data |-> <<>>])
        /\ UNCHANGED <<pos, current, late, stored>>
    BY <1>1 DEF Start, StartResumable
  <2>2. DOMAIN sessions' = DOMAIN sessions \cup {id} /\ sessions'[id].data = <<>>
      /\ "data" \in DOMAIN sessions'[id]
    BY <2>1 DEF With
  <2>3. Span(0, 0) = <<>>
    BY SpanSeq, EmptySeq DEF Span
  <2>4. Prefix(sessions'[id], pos')
    BY <1>0, <2>1, <2>2, <2>3 DEF Prefix
  <2> QED BY <2>1, <2>2, <2>4
<1>2. CASE Send
  <2>1. PICK h \in Handler, cr \in Requests(pos) \cup (IF unsure THEN Status ELSE {}) :
          current' = {To(h, cr)}
    BY <1>2 DEF Send
  <2>2. Requested(cr)
    BY <2>1 DEF Requested
  <2>3. client' = "waiting" /\ UNCHANGED <<sessions, drawn, pos, late, stored>>
    BY <1>2 DEF Send, gcs
  <2> QED BY <2>1, <2>2, <2>3, ToFields
<1>3. CASE RequestLost
  BY <1>3 DEF RequestLost, gcs
<1>4. CASE Timeout
  BY <1>4 DEF Timeout, gcs
<1>5. CASE ServerRestarts
  BY <1>5 DEF ServerRestarts, Restarted
<1>6. ASSUME NEW m \in current, Receive(m) PROVE RInv'
  <2>1. /\ Requested(m.cr) /\ ResumeUpload(id, m.cr) /\ Recorded(m.cr)
        /\ client = "waiting" /\ current' = {} /\ late' = late
    BY <1>6 DEF Receive
  <2>2. Answer(id, m.cr).code \in {200, 404, 308}
    BY DEF Answer, Answered
  <2>3. /\ client' = CASE Answer(id, m.cr).code = 200 -> "done"
                       [] Answer(id, m.cr).code = 404 -> "gone"
                       [] Answer(id, m.cr).code = 308 -> "ready"
        /\ pos' = IF Answer(id, m.cr).code = 308 THEN Answer(id, m.cr).persisted ELSE pos
    BY <1>6 DEF Receive
  <2>4. client' # "start" /\ (client' = "done" => Answer(id, m.cr).code = 200)
    BY <2>2, <2>3
  <2>5. pos' \in 0 .. Size /\ (id \in DOMAIN sessions' => Prefix(sessions'[id], pos'))
    BY <2>1, <2>3, Served
  <2>6. /\ drawn' = drawn /\ DOMAIN sessions' \subseteq DOMAIN sessions
        /\ stored' \subseteq {Whole} /\ (client' = "done" => stored' # {})
        /\ (stored' # {} => id \notin DOMAIN sessions')
    BY <2>1, <2>4, Served
  <2>7. \A r \in current' \cup late' : Requested(r.cr)
    BY <2>1
  <2> QED BY <2>4, <2>5, <2>6, <2>7
<1>7. ASSUME NEW m \in current, ReplyLost(m) PROVE RInv'
  <2>1. /\ Requested(m.cr) /\ ResumeUpload(id, m.cr) /\ Recorded(m.cr)
        /\ UNCHANGED <<client, pos, late>> /\ current' = {}
    BY <1>7 DEF ReplyLost
  <2>2. client = "start" => stored' = {}
    BY <2>1 DEF Recorded, Answer, Answered
  <2> QED BY <2>1, <2>2, Served
<1>8. ASSUME NEW m \in late, LateArrives(m) PROVE RInv'
  <2>1. /\ Requested(m.cr) /\ ResumeUpload(id, m.cr) /\ Recorded(m.cr)
        /\ UNCHANGED <<client, pos, current>> /\ late' = late \ {m}
    BY <1>8 DEF LateArrives
  <2>2. client = "start" => stored' = {}
    BY <2>1 DEF Recorded, Answer, Answered
  <2> QED BY <2>1, <2>2, Served
<1>9. CASE Others /\ UNCHANGED resumable
  <2>1. UNCHANGED <<sessions, drawn>>
    BY <1>9 DEF Others, CreateBucket, DeleteBucket, DeleteObj, UploadCheck, UploadStore,
                UploadAborted
  <2> QED BY <1>9, <2>1 DEF resumable
<1>10. CASE UNCHANGED resVars
  BY <1>10 DEF resVars, resumable, gcs
<1>11. ASSUME NEW m \in current, CheckPasses(m) \/ CheckRefuses(m) PROVE RInv'
  <2>1. UNCHANGED <<gcs, pos, late, stored>> /\ current' \subseteq {To("resumeUpload", m.cr)}
    BY <1>11 DEF CheckPasses, CheckRefuses
  <2>2. client' = client \/ client' = "gone"
    BY <1>11 DEF CheckPasses, CheckRefuses
  <2>3. \A r \in current' \cup late' : Requested(r.cr)
    BY <2>1, ToFields
  <2> QED BY <2>1, <2>2, <2>3 DEF gcs
<1>12. ASSUME NEW m \in late, LatePasses(m) PROVE RInv'
  <2>1. /\ UNCHANGED <<gcs, client, pos, current, stored>>
        /\ late' \subseteq late \cup {To("resumeUpload", m.cr)}
    BY <1>12 DEF LatePasses
  <2>2. \A r \in current' \cup late' : Requested(r.cr)
    BY <2>1, ToFields
  <2> QED BY <2>1, <2>2 DEF gcs
<1> QED BY <1>1, <1>2, <1>3, <1>4, <1>5, <1>6, <1>7, <1>8, <1>9, <1>10, <1>11, <1>12 DEF ResNext

(* The inductive invariant of a resumable upload.                           *)
THEOREM ResInductive == ResSpec => []RInv
BY RInit, RStep, PTL DEF ResSpec

(* A session holds a prefix of the object no shorter than what the client   *)
(* was told, whatever is lost, repeated or late.                            *)
THEOREM SessionIsPrefix == ResSpec => []PersistedIsPrefix
<1>1. RInv => PersistedIsPrefix
  <2> SUFFICES ASSUME RInv, id \in DOMAIN sessions
               PROVE  LET d == sessions[id].data
                      IN  d = Span(0, Len(d)) /\ pos <= Len(d) /\ Len(d) <= Size
    BY DEF PersistedIsPrefix
  <2>1. PICK n \in pos .. Size : sessions[id].data = Span(0, n)
    BY DEF RInv, Prefix
  <2>2. n \in Nat /\ pos <= n /\ n <= Size
    BY <2>1, ResumableAssumption DEF RInv
  <2>3. Len(Span(0, n)) = n
    BY <2>2, SpanSeq
  <2> QED BY <2>1, <2>2, <2>3
<1> QED BY <1>1, ResInductive, PTL

(* The upload stores the whole object or nothing, and not after it ended.   *)
THEOREM StoredWhole == ResSpec => []StoredOnceAndWhole
<1>1. RInv => StoredOnceAndWhole
  BY DEF RInv, StoredOnceAndWhole
<1> QED BY <1>1, ResInductive, PTL

----------------------------------------------------------------------------
\* What makes OrphansWereOvertaken inductive: an upload past its check stores
\* into a bucket that stands, unless it was overtaken.
OInv ==
  /\ OrphansWereOvertaken
  /\ \A r \in DOMAIN checked : checked[r].bucket \in buckets \/ r \in overtaken

(* The maps a step makes: one key less, one key more.                       *)
LEMMA WithoutDomain == \A f, k : DOMAIN Without(f, k) = DOMAIN f \ {k}
BY DEF Without, Restrict

LEMMA WithoutKeeps == \A f, k : \A x \in DOMAIN f \ {k} : Without(f, k)[x] = f[x]
BY DEF Without, Restrict

LEMMA WithDomain == \A f, k, v : DOMAIN With(f, k, v) = DOMAIN f \cup {k}
BY DEF With

(* An upload that leaves the list of those under way takes nothing with it. *)
LEMMA UploadLeaves ==
  ASSUME OInv, NEW r, checked' = Without(checked, r), overtaken' = overtaken \ {r},
         buckets' = buckets
  PROVE  \A x \in DOMAIN checked' : checked'[x].bucket \in buckets' \/ x \in overtaken'
<1> SUFFICES ASSUME NEW x \in DOMAIN checked'
             PROVE  checked'[x].bucket \in buckets' \/ x \in overtaken'
  OBVIOUS
<1>1. x \in DOMAIN checked /\ x # r
  BY WithoutDomain
<1>2. checked'[x] = checked[x]
  BY <1>1, WithoutKeeps
<1> QED BY <1>1, <1>2 DEF OInv

(* Handling a request of a session stores into a standing bucket or nowhere.*)
LEMMA ServedOrphans ==
  ASSUME OInv, NEW u, NEW cr, ResumeUpload(u, cr)
  PROVE  OInv'
<1>1. UNCHANGED <<buckets, checked, overtaken, reopened>>
  BY DEF ResumeUpload
<1>2. DOMAIN objects \subseteq DOMAIN objects' /\ DOMAIN objects' \subseteq DOMAIN objects \cup buckets
  <2>1. CASE UNCHANGED objects
    BY <2>1
  <2>2. CASE ~(UNCHANGED objects)
    <3>1. /\ BucketStands(sessions[u].bucket)
          /\ objects' = Stored(sessions[u].bucket, sessions[u].name, Persisted(u, cr))
      BY <2>2 DEF ResumeUpload
    <3>2. DOMAIN objects' = DOMAIN objects \cup {sessions[u].bucket}
      BY <3>1, WithDomain DEF Stored
    <3> QED BY <3>1, <3>2 DEF BucketStands
  <2> QED BY <2>1, <2>2
<1> QED BY <1>1, <1>2 DEF OInv, OrphansWereOvertaken

(* The steps of the other clients.                                          *)
LEMMA OthersOrphans == OInv /\ Others => OInv'
<1> SUFFICES ASSUME OInv, Others PROVE OInv'
  OBVIOUS
<1>1. ASSUME NEW b \in Bucket, CreateBucket(b) PROVE OInv'
  <2>1. DOMAIN objects' = DOMAIN objects \cup {b}
    BY <1>1, WithDomain DEF CreateBucket
  <2> QED BY <1>1, <2>1 DEF CreateBucket, OInv, OrphansWereOvertaken
<1>2. ASSUME NEW b \in Bucket, DeleteBucket(b) PROVE OInv'
  <2>1. DOMAIN objects' = DOMAIN objects \ {b}
    BY <1>2, WithoutDomain DEF DeleteBucket
  <2>2. \A r \in DOMAIN checked : checked[r].bucket \in buckets' \/ r \in overtaken'
    BY <1>2 DEF DeleteBucket, OInv
  <2> QED BY <1>2, <2>1, <2>2 DEF DeleteBucket, OInv, OrphansWereOvertaken
<1>3. ASSUME NEW b \in Bucket, NEW n \in Name, DeleteObj(b, n) PROVE OInv'
  <2>1. DOMAIN objects' = DOMAIN objects \cup {b} /\ b \in DOMAIN objects
    BY <1>3, WithDomain DEF DeleteObj
  <2> QED BY <1>3, <2>1 DEF DeleteObj, OInv, OrphansWereOvertaken
<1>4. ASSUME NEW b \in Bucket, NEW n \in Name, NEW r \in Upload, NEW d \in Data,
             UploadCheck(r, b, n, d)
      PROVE  OInv'
  <2>1. /\ r \notin DOMAIN checked /\ b \in buckets
        /\ checked' = With(checked, r, [bucket |-> b, name |-> n, data |-> d])
        /\ UNCHANGED <<buckets, objects, overtaken, reopened>>
    BY <1>4 DEF UploadCheck
  <2>2. /\ DOMAIN checked' = DOMAIN checked \cup {r} /\ checked'[r].bucket = b
        /\ \A x \in DOMAIN checked : checked'[x] = checked[x]
    BY <2>1 DEF With
  <2> QED BY <2>1, <2>2 DEF OInv, OrphansWereOvertaken
<1>5. ASSUME NEW r \in Upload, UploadStore(r) PROVE OInv'
  <2>1. /\ r \in DOMAIN checked
        /\ objects' = Stored(checked[r].bucket, checked[r].name, checked[r].data)
        /\ reopened' = IF checked[r].bucket \notin buckets /\ r \in overtaken
                         THEN reopened \cup {checked[r].bucket} ELSE reopened
        /\ checked' = Without(checked, r) /\ overtaken' = overtaken \ {r}
        /\ buckets' = buckets
    BY <1>5 DEF UploadStore
  <2>2. DOMAIN objects' = DOMAIN objects \cup {checked[r].bucket}
    BY <2>1, WithDomain DEF Stored
  <2>3. checked[r].bucket \in buckets' \cup reopened'
    BY <2>1 DEF OInv
  <2>4. OrphansWereOvertaken'
    BY <2>1, <2>2, <2>3 DEF OInv, OrphansWereOvertaken
  <2> QED BY <2>1, <2>4, UploadLeaves DEF OInv
<1>6. ASSUME NEW r \in Upload, UploadAborted(r) PROVE OInv'
  <2>1. /\ checked' = Without(checked, r) /\ overtaken' = overtaken \ {r}
        /\ UNCHANGED <<buckets, objects, reopened>>
    BY <1>6 DEF UploadAborted
  <2> QED BY <2>1, UploadLeaves DEF OInv, OrphansWereOvertaken
<1> QED BY <1>1, <1>2, <1>3, <1>4, <1>5, <1>6 DEF Others

(* Every step keeps it.                                                     *)
LEMMA OStep == OInv /\ [ResNext]_resVars => OInv'
<1> SUFFICES ASSUME OInv, [ResNext]_resVars PROVE OInv'
  OBVIOUS
<1>1. CASE Start
  <2>1. /\ checked' = Without(checked, starter) /\ overtaken' = overtaken \ {starter}
        /\ UNCHANGED <<buckets, objects, reopened>>
    BY <1>1 DEF Start, StartResumable
  <2> QED BY <2>1, UploadLeaves DEF OInv, OrphansWereOvertaken
<1>2. CASE Send \/ RequestLost \/ Timeout \/ UNCHANGED resVars
           \/ \E m : CheckPasses(m) \/ CheckRefuses(m) \/ LatePasses(m)
  <2>1. UNCHANGED gcs
    BY <1>2 DEF Send, RequestLost, Timeout, resVars, CheckPasses, CheckRefuses, LatePasses
  <2> QED BY <2>1 DEF gcs, OInv, OrphansWereOvertaken
<1>3. CASE ServerRestarts
  <2>1. checked' = <<>> /\ UNCHANGED <<buckets, objects, reopened>>
    BY <1>3 DEF ServerRestarts, Restarted
  <2>2. DOMAIN checked' = {}
    BY <2>1
  <2> QED BY <2>1, <2>2 DEF OInv, OrphansWereOvertaken
<1>4. ASSUME NEW m, Receive(m) \/ ReplyLost(m) \/ LateArrives(m) PROVE OInv'
  BY <1>4, ServedOrphans DEF Receive, ReplyLost, LateArrives
<1> QED BY <1>1, <1>2, <1>3, <1>4, OthersOrphans DEF ResNext

(* Objects outside a bucket are only those of overtaken uploads.            *)
THEOREM OnlyOvertakenOrphans == ResSpec => []OrphansWereOvertaken
<1>1. ResInit => OInv
  BY DEF ResInit, GCSInit, OInv, OrphansWereOvertaken
<1>2. OInv => OrphansWereOvertaken
  BY DEF OInv
<1> QED BY <1>1, <1>2, OStep, PTL DEF ResSpec

----------------------------------------------------------------------------
(* Storing writes one name of one bucket and keeps every other object.      *)
LEMMA StoredWrites ==
  ASSUME NEW b, NEW n, NEW d, NEW x \in DOMAIN objects, NEW k \in DOMAIN Stored(b, n, d)[x]
  PROVE  \/ k \in DOMAIN objects[x] /\ Stored(b, n, d)[x][k] = objects[x][k]
         \/ x = b /\ k = n /\ Stored(b, n, d)[x][k] = d
<1>1. CASE x # b
  <2>1. Stored(b, n, d)[x] = objects[x]
    BY <1>1 DEF Stored, With
  <2> QED BY <2>1
<1>2. CASE x = b
  <2>1. Stored(b, n, d)[x] = With(objects[b], n, d)
    BY <1>2 DEF Stored, With
  <2>2. DOMAIN With(objects[b], n, d) = DOMAIN objects[b] \cup {n}
    BY WithDomain
  <2>3. \A j \in DOMAIN objects[b] \cup {n} :
          With(objects[b], n, d)[j] = IF j = n THEN d ELSE objects[b][j]
    BY DEF With
  <2> QED BY <1>2, <2>1, <2>2, <2>3
<1> QED BY <1>1, <1>2

(* A step that leaves the objects standing as they are.                     *)
Kept == \A b \in DOMAIN objects \cap DOMAIN objects' :
          \A n \in DOMAIN objects'[b] :
            n \in DOMAIN objects[b] /\ objects'[b][n] = objects[b][n]

\* The step of ObjectsChangeOnPurpose.
OnPurpose ==
  \A b \in DOMAIN objects \cap DOMAIN objects' :
    \A n \in DOMAIN objects'[b] :
      \/ n \in DOMAIN objects[b] /\ objects'[b][n] = objects[b][n]
      \/ \E r \in DOMAIN checked : /\ r \notin DOMAIN checked'
                                   /\ checked[r].bucket = b /\ objects'[b][n] = checked[r].data
      \/ id \in DOMAIN sessions /\ id \notin DOMAIN sessions'

(* Of what other clients do, only the second half of an upload writes.      *)
LEMMA OthersPurpose == Others => OnPurpose
<1> SUFFICES ASSUME Others PROVE OnPurpose
  OBVIOUS
<1>1. ASSUME NEW b \in Bucket, CreateBucket(b) PROVE Kept
  <2>1. /\ DOMAIN objects'[b] = {}
        /\ \A x \in DOMAIN objects \ {b} : objects'[x] = objects[x]
    BY <1>1 DEF CreateBucket, With
  <2> QED BY <2>1 DEF Kept
<1>2. ASSUME NEW b \in Bucket, DeleteBucket(b) PROVE Kept
  <2>1. objects' = Without(objects, b)
    BY <1>2 DEF DeleteBucket
  <2>2. \A x \in DOMAIN objects' : x \in DOMAIN objects \ {b}
    BY <2>1, WithoutDomain
  <2>3. \A x \in DOMAIN objects' : objects'[x] = objects[x]
    BY <2>1, <2>2, WithoutKeeps
  <2> QED BY <2>3 DEF Kept
<1>3. ASSUME NEW b \in Bucket, NEW n \in Name, DeleteObj(b, n) PROVE Kept
  <2>1. objects' = With(objects, b, Without(objects[b], n)) /\ b \in DOMAIN objects
    BY <1>3 DEF DeleteObj
  <2>2. /\ objects'[b] = Without(objects[b], n)
        /\ \A x \in DOMAIN objects \ {b} : objects'[x] = objects[x]
    BY <2>1 DEF With
  <2>3. \A k \in DOMAIN objects'[b] :
          k \in DOMAIN objects[b] /\ objects'[b][k] = objects[b][k]
    <3>1. DOMAIN objects'[b] = DOMAIN objects[b] \ {n}
      BY <2>2, WithoutDomain
    <3>2. \A k \in DOMAIN objects[b] \ {n} : objects'[b][k] = objects[b][k]
      BY <2>2, WithoutKeeps
    <3> QED BY <3>1, <3>2
  <2> QED BY <2>2, <2>3 DEF Kept
<1>4. ASSUME NEW r \in Upload,
             UploadAborted(r) \/ \E b \in Bucket, n \in Name, d \in Data : UploadCheck(r, b, n, d)
      PROVE  Kept
  <2>1. UNCHANGED objects
    BY <1>4 DEF UploadAborted, UploadCheck
  <2> QED BY <2>1 DEF Kept
<1>5. ASSUME NEW r \in Upload, UploadStore(r) PROVE OnPurpose
  <2>1. /\ r \in DOMAIN checked /\ checked' = Without(checked, r)
        /\ objects' = Stored(checked[r].bucket, checked[r].name, checked[r].data)
    BY <1>5 DEF UploadStore
  <2>2. r \notin DOMAIN checked'
    BY <2>1, WithoutDomain
  <2> QED BY <2>1, <2>2, StoredWrites DEF OnPurpose
<1> QED BY <1>1, <1>2, <1>3, <1>4, <1>5 DEF Others, Kept, OnPurpose

(* Handling a request of a session writes only when the session ends.       *)
LEMMA ServedPurpose ==
  ASSUME NEW cr, ResumeUpload(id, cr)
  PROVE  OnPurpose
<1>1. CASE UNCHANGED objects
  BY <1>1 DEF OnPurpose
<1>2. CASE ~(UNCHANGED objects)
  <2>1. id \in DOMAIN sessions /\ sessions' = Without(sessions, id)
    BY <1>2 DEF ResumeUpload, SessionEnded
  <2> QED BY <2>1, WithoutDomain DEF OnPurpose
<1> QED BY <1>1, <1>2

(* What stands under a name changes only by an upload that stores what it   *)
(* brought or by the end of the session: no late or repeated chunk reaches  *)
(* an object that somebody else stored since.                               *)
THEOREM LateChunksHarmless == ResSpec => ObjectsChangeOnPurpose
<1>1. [ResNext]_resVars => OnPurpose \/ UNCHANGED resVars
  <2> SUFFICES ASSUME ResNext PROVE OnPurpose
    OBVIOUS
  <2>1. CASE \/ Start \/ Send \/ RequestLost \/ Timeout \/ ServerRestarts
             \/ \E m : CheckPasses(m) \/ CheckRefuses(m) \/ LatePasses(m)
    <3>1. UNCHANGED objects
      BY <2>1 DEF Start, StartResumable, Send, RequestLost, Timeout, ServerRestarts, Restarted, gcs,
                  CheckPasses, CheckRefuses, LatePasses
    <3> QED BY <3>1 DEF OnPurpose
  <2>2. ASSUME NEW m, Receive(m) \/ ReplyLost(m) \/ LateArrives(m) PROVE OnPurpose
    BY <2>2, ServedPurpose DEF Receive, ReplyLost, LateArrives
  <2> QED BY <2>1, <2>2, OthersPurpose DEF ResNext
<1> QED BY <1>1, PTL DEF ResSpec, ObjectsChangeOnPurpose, OnPurpose

----------------------------------------------------------------------------
\* A map of maps from buckets and names.
Shape(o) == DOMAIN o \subseteq Bucket /\ \A b \in DOMAIN o : DOMAIN o[b] \subseteq Name

\* What makes the type invariant inductive: an upload past its check, too,
\* names a bucket and an object.
TInv == /\ ResTypeOK
        /\ \A r \in DOMAIN checked : checked[r].bucket \in Bucket /\ checked[r].name \in Name

(* Writing a map of names below a bucket keeps the shape.                   *)
LEMMA WithShape ==
  ASSUME NEW o, Shape(o), NEW b \in Bucket, NEW f, DOMAIN f \subseteq Name
  PROVE  Shape(With(o, b, f))
<1>1. DOMAIN With(o, b, f) = DOMAIN o \cup {b}
  BY WithDomain
<1>2. \A x \in DOMAIN o \cup {b} : With(o, b, f)[x] = IF x = b THEN f ELSE o[x]
  BY DEF With
<1> QED BY <1>1, <1>2 DEF Shape

LEMMA StoredShape ==
  ASSUME Shape(objects), NEW b \in Bucket, NEW n \in Name, NEW d
  PROVE  Shape(Stored(b, n, d))
<1> DEFINE f == IF b \in DOMAIN objects THEN objects[b] ELSE <<>>
<1>1. DOMAIN f \subseteq Name
  BY DEF Shape
<1> HIDE DEF f
<1>2. DOMAIN With(f, n, d) \subseteq Name
  <2>1. DOMAIN With(f, n, d) = DOMAIN f \cup {n}
    BY WithDomain
  <2> QED BY <1>1, <2>1
<1>3. Shape(With(objects, b, With(f, n, d)))
  BY <1>2, WithShape
<1> QED BY <1>3 DEF Stored, f

(* Uploads under way: one less, and the marks of the overtaken with it.     *)
LEMMA UploadLeavesTyped ==
  ASSUME TInv, NEW r, checked' = Without(checked, r), overtaken' = overtaken \ {r}
  PROVE  /\ DOMAIN checked' \subseteq Upload /\ overtaken' \subseteq DOMAIN checked'
         /\ \A x \in DOMAIN checked' : checked'[x].bucket \in Bucket /\ checked'[x].name \in Name
<1>1. DOMAIN checked' = DOMAIN checked \ {r}
  BY WithoutDomain
<1>2. \A x \in DOMAIN checked' : checked'[x] = checked[x]
  BY <1>1, WithoutKeeps
<1> QED BY <1>1, <1>2 DEF TInv, ResTypeOK, GCSTypeOK

\* A request as the client may send it, on its way to one of the handlers.
Sendable(m) ==
  \E h \in Handler, cr \in Status \cup UNION {Requests(p) : p \in 0 .. Size} : m = To(h, cr)

\* The part of TInv about the server.
ServerTyped == /\ GCSTypeOK
               /\ \A r \in DOMAIN checked :
                    checked[r].bucket \in Bucket /\ checked[r].name \in Name

(* The steps of the other clients keep the server's maps in shape.          *)
LEMMA OthersTyped == TInv /\ Others => ServerTyped'
<1> SUFFICES ASSUME TInv, Others PROVE ServerTyped'
  OBVIOUS
<1>0. GCSTypeOK /\ Shape(objects)
  BY DEF TInv, ResTypeOK, GCSTypeOK, Shape
<1>1. ASSUME NEW b \in Bucket, CreateBucket(b) PROVE ServerTyped'
  <2>1. DOMAIN <<>> \subseteq Name
    OBVIOUS
  <2>2. Shape(objects)'
    BY <1>0, <1>1, <2>1, WithShape DEF CreateBucket, Shape
  <2> QED BY <1>0, <1>1, <2>2 DEF CreateBucket, ServerTyped, TInv, GCSTypeOK, Shape
<1>2. ASSUME NEW b \in Bucket, DeleteBucket(b) PROVE ServerTyped'
  <2>1. Shape(objects)'
    <3>1. objects' = Without(objects, b)
      BY <1>2 DEF DeleteBucket
    <3>2. DOMAIN objects' = DOMAIN objects \ {b}
      BY <3>1, WithoutDomain
    <3>3. \A x \in DOMAIN objects' : objects'[x] = objects[x]
      BY <3>1, <3>2, WithoutKeeps
    <3> QED BY <1>0, <3>2, <3>3 DEF Shape
  <2> QED BY <1>0, <1>2, <2>1 DEF DeleteBucket, ServerTyped, TInv, GCSTypeOK, Shape
<1>3. ASSUME NEW b \in Bucket, NEW n \in Name, DeleteObj(b, n) PROVE ServerTyped'
  <2>1. DOMAIN Without(objects[b], n) \subseteq Name
    <3>1. DOMAIN objects[b] \subseteq Name
      BY <1>0, <1>3 DEF DeleteObj, Shape
    <3> QED BY <3>1, WithoutDomain
  <2>2. Shape(objects)'
    BY <1>0, <1>3, <2>1, WithShape DEF DeleteObj, Shape
  <2> QED BY <1>0, <1>3, <2>2 DEF DeleteObj, ServerTyped, TInv, GCSTypeOK, Shape
<1>4. ASSUME NEW b \in Bucket, NEW n \in Name, NEW r \in Upload, NEW d \in Data,
             UploadCheck(r, b, n, d)
      PROVE  ServerTyped'
  <2>1. /\ checked' = With(checked, r, [bucket |-> b, name |-> n, data |-> d])
        /\ UNCHANGED <<buckets, objects, sessions, drawn, overtaken, reopened>>
    BY <1>4 DEF UploadCheck
  <2>2. DOMAIN checked' = DOMAIN checked \cup {r}
    BY <2>1, WithDomain
  <2>3. \A x \in DOMAIN checked' : checked'[x].bucket \in Bucket /\ checked'[x].name \in Name
    BY <2>1, <2>2 DEF With, TInv
  <2> QED BY <1>0, <2>1, <2>2, <2>3 DEF ServerTyped, GCSTypeOK
<1>5. ASSUME NEW r \in Upload, UploadStore(r) PROVE ServerTyped'
  <2>1. /\ r \in DOMAIN checked
        /\ objects' = Stored(checked[r].bucket, checked[r].name, checked[r].data)
        /\ reopened' \subseteq reopened \cup {checked[r].bucket}
        /\ checked' = Without(checked, r) /\ overtaken' = overtaken \ {r}
        /\ UNCHANGED <<buckets, sessions, drawn>>
    BY <1>5 DEF UploadStore
  <2>2. checked[r].bucket \in Bucket /\ checked[r].name \in Name
    BY <2>1 DEF TInv
  <2>3. Shape(Stored(checked[r].bucket, checked[r].name, checked[r].data))
    BY <1>0, <2>2, StoredShape
  <2>4. Shape(objects)'
    BY <2>1, <2>3 DEF Shape
  <2> QED BY <1>0, <2>1, <2>2, <2>4, UploadLeavesTyped DEF ServerTyped, GCSTypeOK, Shape
<1>6. ASSUME NEW r \in Upload, UploadAborted(r) PROVE ServerTyped'
  <2>1. /\ checked' = Without(checked, r) /\ overtaken' = overtaken \ {r}
        /\ UNCHANGED <<buckets, objects, sessions, drawn, reopened>>
    BY <1>6 DEF UploadAborted
  <2> QED BY <1>0, <2>1, UploadLeavesTyped DEF ServerTyped, GCSTypeOK
<1> QED BY <1>1, <1>2, <1>3, <1>4, <1>5, <1>6 DEF Others

(* So does handling a request of a session.                                 *)
LEMMA ServedTyped ==
  ASSUME TInv, NEW cr, ResumeUpload(id, cr)
  PROVE  ServerTyped'
<1>0. GCSTypeOK /\ Shape(objects)
  BY DEF TInv, ResTypeOK, GCSTypeOK, Shape
<1>1. UNCHANGED <<buckets, drawn, checked, overtaken, reopened>>
  BY DEF ResumeUpload
<1>2. /\ DOMAIN sessions' \subseteq DOMAIN sessions
      /\ \A u \in DOMAIN sessions' : sessions'[u].bucket \in Bucket /\ sessions'[u].name \in Name
  <2>1. CASE UNCHANGED sessions
    BY <1>0, <2>1 DEF GCSTypeOK
  <2>2. CASE sessions' = [sessions EXCEPT ![id].data = Persisted(id, cr)]
    <3>1. DOMAIN sessions' = DOMAIN sessions
      BY <2>2
    <3>2. \A u \in DOMAIN sessions : /\ sessions'[u].bucket = sessions[u].bucket
                                     /\ sessions'[u].name = sessions[u].name
      BY <2>2
    <3> QED BY <1>0, <3>1, <3>2 DEF GCSTypeOK
  <2>3. CASE sessions' = Without(sessions, id)
    <3>1. DOMAIN sessions' = DOMAIN sessions \ {id}
      BY <2>3, WithoutDomain
    <3>2. \A u \in DOMAIN sessions' : sessions'[u] = sessions[u]
      BY <2>3, <3>1, WithoutKeeps
    <3> QED BY <1>0, <3>1, <3>2 DEF GCSTypeOK
  <2> QED BY <2>1, <2>2, <2>3 DEF ResumeUpload, SessionEnded
<1>3. Shape(objects)'
  <2>1. CASE UNCHANGED objects
    BY <1>0, <2>1 DEF Shape
  <2>2. CASE ~(UNCHANGED objects)
    <3>1. /\ id \in DOMAIN sessions
          /\ objects' = Stored(sessions[id].bucket, sessions[id].name, Persisted(id, cr))
      BY <2>2 DEF ResumeUpload
    <3>2. Shape(Stored(sessions[id].bucket, sessions[id].name, Persisted(id, cr)))
      BY <1>0, <3>1, StoredShape DEF GCSTypeOK
    <3> QED BY <3>1, <3>2 DEF Shape
  <2> QED BY <2>1, <2>2
<1> QED BY <1>0, <1>1, <1>2, <1>3 DEF ServerTyped, TInv, GCSTypeOK, Shape

(* Every step keeps it.                                                     *)
LEMMA TStep == RInv' /\ TInv /\ [ResNext]_resVars => TInv'
<1> SUFFICES ASSUME RInv', TInv, [ResNext]_resVars PROVE TInv'
  OBVIOUS
<1>1. /\ pos' \in 0 .. Size
      /\ \A m \in current' \cup late' : Sendable(m)
  <2>1. pos' \in 0 .. Size
    BY DEF RInv
  <2>2. ASSUME NEW cr \in Status \cup UNION {Requests(p) : p \in 0 .. Size}, NEW h \in Handler
        PROVE  Sendable(To(h, cr))
    BY <2>2 DEF Sendable
  <2>3. "resumeUpload" \in Handler
    BY DEF Handler
  <2>4. \A m \in current \cup late :
          m.cr \in Status \cup UNION {Requests(p) : p \in 0 .. Size} /\ Sendable(m)
    <3>1. \A m \in current \cup late : Sendable(m)
      BY DEF TInv, ResTypeOK, Sendable
    <3> QED BY <3>1, ToFields DEF Sendable
  <2>5. CASE Send
    <3>1. PICK h \in Handler, cr \in Requests(pos) \cup (IF unsure THEN Status ELSE {}) :
            current' = {To(h, cr)} /\ late' = late
      BY <2>5 DEF Send
    <3>2. cr \in Status \cup UNION {Requests(p) : p \in 0 .. Size}
      BY <3>1 DEF TInv, ResTypeOK
    <3> QED BY <2>1, <2>2, <2>4, <3>1, <3>2
  <2>6. ASSUME NEW m, CheckPasses(m) \/ LatePasses(m) PROVE <1>1!2
    <3>1. /\ m \in current \cup late
          /\ current' \cup late' \subseteq current \cup late \cup {To("resumeUpload", m.cr)}
      BY <2>6 DEF CheckPasses, LatePasses
    <3> QED BY <2>2, <2>3, <2>4, <3>1
  <2>7. CASE current' \cup late' \subseteq current \cup late
    BY <2>1, <2>4, <2>7
  <2>8. \/ Send \/ current' \cup late' \subseteq current \cup late
        \/ \E m : CheckPasses(m) \/ LatePasses(m)
    BY DEF ResNext, Start, RequestLost, Timeout, ServerRestarts, CheckRefuses, Receive, ReplyLost,
           LateArrives, resVars, resumable
  <2> QED BY <2>1, <2>5, <2>6, <2>7, <2>8
<1>2. ServerTyped'
  <2>1. CASE Start
    <3>1. /\ starter \in DOMAIN checked /\ id \in Session
          /\ sessions' = With(sessions, id, [bucket |-> checked[starter].bucket,
                                            name |-> checked[starter].name, data |-> <<>>])
          /\ drawn' = drawn \cup {id}
          /\ checked' = Without(checked, starter) /\ overtaken' = overtaken \ {starter}
          /\ UNCHANGED <<buckets, objects, reopened>>
      BY <2>1 DEF Start, StartResumable
    <3>2. DOMAIN sessions' = DOMAIN sessions \cup {id}
      BY <3>1, WithDomain
    <3>3. \A u \in DOMAIN sessions' : sessions'[u].bucket \in Bucket /\ sessions'[u].name \in Name
      BY <3>1, <3>2 DEF With, TInv, ResTypeOK, GCSTypeOK
    <3> QED BY <3>1, <3>2, <3>3, UploadLeavesTyped DEF ServerTyped, TInv, ResTypeOK, GCSTypeOK
  <2>2. CASE \/ Send \/ RequestLost \/ Timeout \/ UNCHANGED resVars
             \/ \E m : CheckPasses(m) \/ CheckRefuses(m) \/ LatePasses(m)
    <3>1. UNCHANGED gcs
      BY <2>2 DEF Send, RequestLost, Timeout, resVars, CheckPasses, CheckRefuses, LatePasses
    <3> QED BY <3>1 DEF gcs, ServerTyped, TInv, ResTypeOK, GCSTypeOK
  <2>3. CASE ServerRestarts
    <3>1. /\ sessions' = <<>> /\ checked' = <<>> /\ overtaken' = {}
          /\ UNCHANGED <<buckets, objects, drawn, reopened>>
      BY <2>3 DEF ServerRestarts, Restarted
    <3>2. DOMAIN sessions' = {} /\ DOMAIN checked' = {}
      BY <3>1
    <3> QED BY <3>1, <3>2 DEF ServerTyped, TInv, ResTypeOK, GCSTypeOK
  <2>4. ASSUME NEW m, Receive(m) \/ ReplyLost(m) \/ LateArrives(m) PROVE ServerTyped'
    BY <2>4, ServedTyped DEF Receive, ReplyLost, LateArrives
  <2> QED BY <2>1, <2>2, <2>3, <2>4, OthersTyped DEF ResNext
<1>3. /\ client' \in {"start", "ready", "waiting", "done", "gone"} /\ unsure' \in BOOLEAN
      /\ client' # "waiting" => current' = {}
  <2> USE DEF TInv, ResTypeOK
  <2>1. CASE Start
    BY <2>1 DEF Start
  <2>2. CASE Send \/ RequestLost \/ Timeout \/ ServerRestarts
    BY <2>2 DEF Send, RequestLost, Timeout, ServerRestarts
  <2>3. ASSUME NEW m, Receive(m) PROVE <1>3!1 /\ <1>3!2
    <3>1. Answer(id, m.cr).code \in {200, 404, 308}
      BY DEF Answer, Answered
    <3> QED BY <2>3, <3>1 DEF Receive
  <2>4. ASSUME NEW m, ReplyLost(m) \/ LateArrives(m) PROVE <1>3!1 /\ <1>3!2
    BY <2>4 DEF ReplyLost, LateArrives
  <2>5. CASE UNCHANGED resumable
    BY <2>5 DEF resumable
  <2>6. ASSUME NEW m, \/ m \in current /\ (CheckPasses(m) \/ CheckRefuses(m))
                      \/ LatePasses(m)
        PROVE  <1>3!1 /\ <1>3!2
    BY <2>6 DEF CheckPasses, CheckRefuses, LatePasses
  <2> QED BY <2>1, <2>2, <2>3, <2>4, <2>5, <2>6 DEF ResNext, resVars
<1> QED BY <1>1, <1>2, <1>3 DEF TInv, ResTypeOK, ServerTyped, Sendable

(* The server's maps, the client and what is on the way are well formed in  *)
(* every state: no request the client never sent, none once it was answered.*)
THEOREM ResTypeCorrect == ResSpec => []ResTypeOK
<1>1. ResInit => TInv
  <2> SUFFICES ASSUME ResInit PROVE TInv
    OBVIOUS
  <2>1. DOMAIN objects = {} /\ DOMAIN sessions = {} /\ DOMAIN checked = {}
    BY DEF ResInit, GCSInit
  <2>2. GCSTypeOK
    BY <2>1 DEF ResInit, GCSInit, GCSTypeOK
  <2>3. pos \in 0 .. Size
    BY ResumableAssumption DEF ResInit
  <2> QED BY <2>1, <2>2, <2>3 DEF ResInit, TInv, ResTypeOK
<1>2. TInv => ResTypeOK
  BY DEF TInv
<1> QED BY <1>1, <1>2, TStep, ResInductive, PTL DEF ResSpec

----------------------------------------------------------------------------
(* The session implements UploadPromise.  Requests are on the way only once *)
(* the session was opened, it keeps the bucket and the name it was for, and *)
(* the uploads under way are those of other clients.                        *)

Addressed(s) == s.bucket = theBucket /\ s.name = theName

UInv ==
  /\ client = "start" => current = {} /\ late = {}
  /\ client # "start" => id \in drawn
  /\ id \in DOMAIN sessions => Addressed(sessions[id])
  /\ \A r \in DOMAIN checked : checked[r].data \in Data

(* An upload that leaves, stored or not, leaves the others as they are.     *)
LEMMA UploadLeavesTheirs ==
  ASSUME UInv, NEW r, checked' = Without(checked, r)
  PROVE  \A x \in DOMAIN checked' : checked'[x].data \in Data
<1>1. DOMAIN checked' = DOMAIN checked \ {r}
  BY WithoutDomain
<1> QED BY <1>1, WithoutKeeps DEF UInv

(* Handling a request leaves the session, where it stays, its address.      *)
LEMMA ServedAddressed ==
  ASSUME UInv, NEW cr, ResumeUpload(id, cr)
  PROVE  /\ drawn' = drawn /\ checked' = checked
         /\ id \in DOMAIN sessions' => Addressed(sessions'[id])
<1>1. drawn' = drawn /\ checked' = checked
  BY DEF ResumeUpload
<1>2. CASE UNCHANGED sessions
  BY <1>1, <1>2 DEF UInv
<1>3. CASE id \in DOMAIN sessions /\ sessions' = [sessions EXCEPT ![id].data = Persisted(id, cr)]
  <2>1. \A u \in DOMAIN sessions : /\ sessions'[u].bucket = sessions[u].bucket
                                   /\ sessions'[u].name = sessions[u].name
    BY <1>3
  <2> QED BY <1>1, <1>3, <2>1 DEF UInv, Addressed
<1>4. CASE sessions' = Without(sessions, id)
  BY <1>1, <1>4, WithoutDomain
<1> QED BY <1>2, <1>3, <1>4 DEF ResumeUpload, SessionEnded

(* Every step keeps it.                                                     *)
LEMMA UStep == UInv /\ [ResNext]_resVars => UInv'
<1> SUFFICES ASSUME UInv, [ResNext]_resVars PROVE UInv'
  OBVIOUS
<1> USE DEF UInv
<1>1. CASE Start
  <2>1. /\ client' = "ready" /\ drawn' = drawn \cup {id}
        /\ checked[starter].bucket = theBucket /\ checked[starter].name = theName
        /\ sessions' = With(sessions, id, [bucket |-> checked[starter].bucket,
                                          name |-> checked[starter].name, data |-> <<>>])
    BY <1>1 DEF Start, StartResumable
  <2>2. Addressed(sessions'[id])
    BY <2>1 DEF With, Addressed
  <2>3. \A x \in DOMAIN checked' : checked'[x].data \in Data
    BY <1>1, UploadLeavesTheirs DEF Start, StartResumable
  <2> QED BY <1>1, <2>1, <2>2, <2>3 DEF Start
<1>2. CASE Send
  BY <1>2 DEF Send, gcs
<1>3. CASE RequestLost
  BY <1>3 DEF RequestLost, gcs
<1>4. CASE Timeout
  BY <1>4 DEF Timeout, gcs
<1>5. CASE ServerRestarts
  <2>1. DOMAIN checked' = {} /\ DOMAIN sessions' = {}
    BY <1>5 DEF ServerRestarts, Restarted
  <2> QED BY <1>5, <2>1 DEF ServerRestarts, Restarted
<1>6. ASSUME NEW m \in current, Receive(m) PROVE UInv'
  <2>1. ResumeUpload(id, m.cr) /\ client = "waiting"
    BY <1>6 DEF Receive
  <2>2. Answer(id, m.cr).code \in {200, 404, 308}
    BY DEF Answer, Answered
  <2>3. client' # "start"
    BY <1>6, <2>2 DEF Receive
  <2> QED BY <2>1, <2>3, ServedAddressed
<1>7. ASSUME NEW m \in current, ReplyLost(m) PROVE UInv'
  <2>1. ResumeUpload(id, m.cr) /\ UNCHANGED <<client, late>> /\ client # "start"
    BY <1>7 DEF ReplyLost
  <2> QED BY <2>1, ServedAddressed
<1>8. ASSUME NEW m \in late, LateArrives(m) PROVE UInv'
  <2>1. ResumeUpload(id, m.cr) /\ UNCHANGED <<client, current>> /\ client # "start"
    BY <1>8 DEF LateArrives
  <2> QED BY <2>1, ServedAddressed
<1>9. CASE Others /\ UNCHANGED resumable
  <2>1. UNCHANGED <<sessions, drawn>>
    BY <1>9 DEF Others, CreateBucket, DeleteBucket, DeleteObj, UploadCheck, UploadStore,
                UploadAborted
  <2>2. \A x \in DOMAIN checked' : checked'[x].data \in Data
    <3>1. CASE UNCHANGED checked
      BY <3>1
    <3>2. ASSUME NEW b, NEW n, NEW r, NEW d \in Data, UploadCheck(r, b, n, d)
          PROVE  \A x \in DOMAIN checked' : checked'[x].data \in Data
      <4>1. checked' = With(checked, r, [bucket |-> b, name |-> n, data |-> d])
        BY <3>2 DEF UploadCheck
      <4> QED BY <4>1 DEF With
    <3>3. ASSUME NEW r, UploadStore(r) \/ UploadAborted(r)
          PROVE  \A x \in DOMAIN checked' : checked'[x].data \in Data
      BY <3>3, UploadLeavesTheirs DEF UploadStore, UploadAborted
    <3> QED BY <1>9, <3>1, <3>2, <3>3 DEF Others, CreateBucket, DeleteBucket, DeleteObj
  <2> QED BY <1>9, <2>1, <2>2 DEF resumable
<1>10. CASE UNCHANGED resVars
  BY <1>10 DEF resVars, resumable, gcs
<1>11. ASSUME NEW m \in current, CheckPasses(m) \/ CheckRefuses(m) PROVE UInv'
  <2>1. UNCHANGED <<sessions, drawn, checked>> /\ client # "start" /\ client' # "start"
    BY <1>11 DEF CheckPasses, CheckRefuses, gcs
  <2> QED BY <2>1
<1>12. ASSUME NEW m \in late, LatePasses(m) PROVE UInv'
  <2>1. UNCHANGED <<sessions, drawn, checked>> /\ client # "start" /\ client' # "start"
    BY <1>12 DEF LatePasses, gcs
  <2> QED BY <2>1
<1> QED BY <1>1, <1>2, <1>3, <1>4, <1>5, <1>6, <1>7, <1>8, <1>9, <1>10, <1>11, <1>12 DEF ResNext

(* What a request does to the session as its client may see it.             *)
LEMMA ServedAs ==
  ASSUME RInv, UInv, NEW cr, Requested(cr), ResumeUpload(id, cr), Recorded(cr),
         id \in drawn
  PROVE  \/ /\ Phase \in {"lost", "stored"} /\ Answer(id, cr).code = 404
            /\ UNCHANGED <<Phase, Held, Standing>>
         \/ /\ Phase = "open" /\ Phase' = "open" /\ Held' \in Held .. Size
            /\ Answer(id, cr).code = 308 /\ Answer(id, cr).persisted = Held'
            /\ UNCHANGED Standing
         \/ /\ Phase = "open" /\ Phase' = "stored" /\ Held' = Size
            /\ Answer(id, cr).code = 200 /\ Standing' = {Whole} /\ theBucket \in buckets
         \/ /\ Phase = "open" /\ Phase' = "lost" /\ Held' = 0
            /\ Answer(id, cr).code = 404 /\ UNCHANGED Standing
<1>0. Size \in Nat /\ pos \in 0 .. Size /\ drawn' = drawn
  BY ResumableAssumption, ServedAddressed DEF RInv
<1>1. CASE id \notin DOMAIN sessions
  <2>1. Answer(id, cr).code = 404
    BY <1>1 DEF Answer, Answered
  <2>2. UNCHANGED <<sessions, objects, stored>>
    <3>1. UNCHANGED <<sessions, objects>>
      BY <1>1 DEF ResumeUpload
    <3>2. stored' = stored
      BY <2>1 DEF Recorded
    <3> QED BY <3>1, <3>2
  <2>3. Phase \in {"lost", "stored"}
    BY <1>1 DEF Phase
  <2>4. UNCHANGED <<Phase, Held, Standing>>
    BY <1>0, <2>2 DEF Phase, Held, Standing
  <2> QED BY <2>1, <2>3, <2>4
<1>2. CASE id \in DOMAIN sessions
  <2>1. PICK n \in pos .. Size : sessions[id].data = Span(0, n)
    BY <1>2 DEF RInv, Prefix
  <2>2. n \in 0 .. Size
    BY <1>0, <2>1
  <2>3. PICK m \in n .. Size : /\ Persisted(id, cr) = Span(0, m) /\ Len(Persisted(id, cr)) = m
                               /\ Complete(id, cr) => m = Size
    BY <2>1, <2>2, Extended
  <2>4. stored = {} /\ Phase = "open"
    BY <1>2 DEF RInv, Phase
  <2>5. Len(Span(0, n)) = n /\ Held = n
    <3>1. Len(Span(0, n)) = n
      BY <1>0, <2>2, SpanSeq DEF Span
    <3>2. Held = Len(sessions[id].data)
      BY <2>4 DEF Held
    <3> QED BY <2>1, <3>1, <3>2
  <2>6. CASE ~Complete(id, cr)
    <3>1. Answer(id, cr) = Answered(308, Len(Persisted(id, cr)))
      BY <1>2, <2>6 DEF Answer
    <3>2. Answer(id, cr).code = 308 /\ Answer(id, cr).persisted = m
      BY <2>3, <3>1 DEF Answered
    <3>3. /\ sessions' = [sessions EXCEPT ![id].data = Persisted(id, cr)]
          /\ UNCHANGED objects
      BY <1>2, <2>6 DEF ResumeUpload
    <3>4. id \in DOMAIN sessions' /\ sessions'[id].data = Persisted(id, cr)
      <4>1. "data" \in DOMAIN sessions[id]
        BY <1>2 DEF RInv, Prefix
      <4>2. /\ id \in DOMAIN sessions'
            /\ sessions'[id] = [sessions[id] EXCEPT !.data = Persisted(id, cr)]
        BY <1>2, <3>3
      <4> QED BY <4>1, <4>2
    <3>5. Phase' = "open"
      BY <1>0, <3>4 DEF Phase
    <3>6. Held' = m
      <4>1. Held' = Len(sessions'[id].data)
        BY <3>5 DEF Held
      <4> QED BY <2>3, <3>4, <4>1
    <3>7. UNCHANGED Standing
      BY <3>3 DEF Standing
    <3> QED BY <2>3, <2>4, <2>5, <3>2, <3>5, <3>6, <3>7
  <2>7. CASE Complete(id, cr)
    <3>1. Persisted(id, cr) = Whole
      <4>1. m = Size
        BY <2>3, <2>7
      <4> QED BY <2>3, <4>1 DEF Whole
    <3>2. id \notin DOMAIN sessions'
      BY <1>2, <2>7, WithoutDomain DEF ResumeUpload, SessionEnded
    <3>3. Answer(id, cr) = Answered(IF BucketStands(theBucket) THEN 200 ELSE 404, 0)
      BY <1>2, <2>7 DEF Answer, UInv, Addressed
    <3>4. CASE BucketStands(theBucket)
      <4>1. Answer(id, cr).code = 200
        BY <3>3, <3>4 DEF Answered
      <4>2. stored' # {}
        BY <2>4, <4>1 DEF Recorded
      <4>3. Phase' = "stored" /\ Held' = Size
        BY <1>0, <3>2, <4>2 DEF Phase, Held
      <4>4. objects' = Stored(theBucket, theName, Whole)
        BY <1>2, <2>7, <3>1, <3>4 DEF ResumeUpload, UInv, Addressed
      <4>5. Standing' = {Whole}
        <5>1. /\ theBucket \in DOMAIN objects'
              /\ objects'[theBucket] = With(IF theBucket \in DOMAIN objects THEN objects[theBucket]
                                            ELSE <<>>, theName, Whole)
          BY <4>4 DEF Stored, With
        <5>2. theName \in DOMAIN objects'[theBucket] /\ objects'[theBucket][theName] = Whole
          BY <5>1 DEF With
        <5> QED BY <5>1, <5>2 DEF Standing
      <4>6. theBucket \in buckets
        BY <3>4 DEF BucketStands
      <4> QED BY <2>4, <4>1, <4>3, <4>5, <4>6
    <3>5. CASE ~BucketStands(theBucket)
      <4>1. Answer(id, cr).code = 404
        BY <3>3, <3>5 DEF Answered
      <4>2. stored' = {}
        BY <2>4, <4>1 DEF Recorded
      <4>3. Phase' = "lost" /\ Held' = 0
        BY <1>0, <3>2, <4>2 DEF Phase, Held
      <4>4. UNCHANGED Standing
        BY <1>2, <2>7, <3>5 DEF ResumeUpload, UInv, Addressed, Standing
      <4> QED BY <2>4, <4>1, <4>3, <4>4
    <3> QED BY <3>4, <3>5
  <2> QED BY <2>6, <2>7
<1> QED BY <1>1, <1>2

(* What others do puts their own under the object's name, or nothing.       *)
LEMMA OthersStanding ==
  ASSUME UInv, Others, UNCHANGED sessions
  PROVE  Standing' \in {Standing, {}} \cup {{d} : d \in Data}
<1>1. ASSUME NEW b \in DOMAIN objects' \ DOMAIN objects, NEW n \in DOMAIN objects'[b]
      PROVE  objects'[b][n] \in Data
  <2>1. ASSUME NEW c, CreateBucket(c) PROVE FALSE
    <3>1. objects' = With(objects, c, <<>>)
      BY <2>1 DEF CreateBucket
    <3>2. b = c
      <4>1. DOMAIN objects' = DOMAIN objects \cup {c}
        BY <3>1, WithDomain
      <4> QED BY <1>1, <4>1
    <3>3. objects'[b] = <<>>
      BY <3>1, <3>2 DEF With
    <3> QED BY <3>3
  <2>2. ASSUME NEW r, UploadStore(r) PROVE objects'[b][n] \in Data
    <3> DEFINE c == checked[r]
    <3>1. r \in DOMAIN checked /\ objects' = Stored(c.bucket, c.name, c.data)
      BY <2>2 DEF UploadStore
    <3>2. c.data \in Data
      BY <3>1 DEF UInv
    <3> HIDE DEF c
    <3>3. b = c.bucket
      <4>1. DOMAIN objects' \subseteq DOMAIN objects \cup {c.bucket}
        BY <3>1 DEF Stored, With
      <4> QED BY <1>1, <4>1
    <3>4. objects'[b] = With(<<>>, c.name, c.data)
      BY <1>1, <3>1, <3>3 DEF Stored, With
    <3>5. n = c.name
      <4>1. DOMAIN With(<<>>, c.name, c.data) = DOMAIN <<>> \cup {c.name}
        BY ONLY WithDomain
      <4>2. DOMAIN <<>> = {}
        OBVIOUS
      <4> QED BY <1>1, <3>4, <4>1, <4>2
    <3> QED BY <3>2, <3>4, <3>5 DEF With
  <2>3. ASSUME NEW c, DeleteBucket(c) PROVE FALSE
    <3>1. objects' = Without(objects, c)
      BY <2>3 DEF DeleteBucket
    <3>2. DOMAIN objects' = DOMAIN objects \ {c}
      BY <3>1, WithoutDomain
    <3> QED BY <1>1, <3>2
  <2>4. ASSUME NEW c, NEW k, DeleteObj(c, k) PROVE FALSE
    <3>1. c \in DOMAIN objects /\ objects' = With(objects, c, Without(objects[c], k))
      BY <2>4 DEF DeleteObj
    <3>2. DOMAIN objects' = DOMAIN objects \cup {c}
      BY <3>1, WithDomain
    <3> QED BY <1>1, <3>1, <3>2
  <2> QED BY <1>1, <2>1, <2>2, <2>3, <2>4 DEF Others, UploadCheck, UploadAborted
<1>2. CASE theBucket \notin DOMAIN objects' \/ theName \notin DOMAIN objects'[theBucket]
  BY <1>2 DEF Standing
<1>3. CASE theBucket \in DOMAIN objects' /\ theName \in DOMAIN objects'[theBucket]
  <2>1. Standing' = {objects'[theBucket][theName]}
    BY <1>3 DEF Standing
  <2>2. CASE theBucket \notin DOMAIN objects
    BY <1>1, <1>3, <2>1, <2>2
  <2>3. CASE theBucket \in DOMAIN objects
    <3>1. \/ /\ theName \in DOMAIN objects[theBucket]
             /\ objects'[theBucket][theName] = objects[theBucket][theName]
          \/ \E r \in DOMAIN checked : objects'[theBucket][theName] = checked[r].data
      BY <1>3, <2>3, OthersPurpose DEF OnPurpose
    <3> QED BY <2>1, <2>3, <3>1 DEF Standing, UInv
  <2> QED BY <2>2, <2>3
<1> QED BY <1>2, <1>3

(* Each step of the client, the network and the server is one of the        *)
(* promise, or none that the client may see.                                *)
LEMMA UploadStep == RInv /\ UInv /\ [ResNext]_resVars => [Promise!Next]_Promise!vars
<1> SUFFICES ASSUME RInv, UInv, [ResNext]_resVars PROVE [Promise!Next]_Promise!vars
  OBVIOUS
<1>0. Size \in Nat /\ pos \in 0 .. Size /\ DOMAIN sessions \subseteq drawn
  BY ResumableAssumption DEF RInv
<1>12. ASSUME UNCHANGED <<Phase, Held, pos, Verdict, Standing, buckets>>
       PROVE  [Promise!Next]_Promise!vars
  BY <1>12 DEF Promise!Next, Promise!OthersWrite
<1>13. ASSUME UNCHANGED <<sessions, drawn, stored>> PROVE UNCHANGED <<Phase, Held>>
  BY <1>13 DEF Phase, Held
<1>14. Phase = "open" => Held \in 0 .. Size
  <2> SUFFICES ASSUME Phase = "open" PROVE Held \in 0 .. Size
    OBVIOUS
  <2>1. id \in DOMAIN sessions
    BY DEF Phase
  <2>2. PICK n \in pos .. Size : sessions[id].data = Span(0, n)
    BY <2>1 DEF RInv, Prefix
  <2>3. n \in 0 .. Size
    BY <1>0, <2>2
  <2>4. Len(Span(0, n)) = n
    BY <1>0, <2>3, SpanSeq DEF Span
  <2> QED BY <2>2, <2>3, <2>4 DEF Held
<1>1. CASE Start
  <2>1. /\ client = "start" /\ client' = "ready" /\ id \notin drawn
        /\ drawn' = drawn \cup {id} /\ id \in DOMAIN sessions' /\ sessions'[id].data = <<>>
        /\ UNCHANGED <<pos, objects, buckets>>
    BY <1>1 DEF Start, StartResumable, With
  <2>2. Phase = "none" /\ Phase' = "open"
    <3>1. Phase = "none"
      BY <1>0, <2>1 DEF Phase
    <3>2. id \in drawn' /\ id \in DOMAIN sessions'
      BY <2>1
    <3> QED BY <3>1, <3>2 DEF Phase
  <2>3. Held = 0 /\ Held' = 0
    <3>1. Held' = Len(<<>>)
      BY <2>1, <2>2 DEF Held
    <3> QED BY <2>2, <3>1 DEF Held
  <2>4. UNCHANGED <<Verdict, Standing>>
    BY <2>1 DEF Verdict, Standing
  <2> QED BY <2>1, <2>2, <2>3, <2>4 DEF Promise!Next, Promise!Open
<1>2. CASE Send
  <2>1. UNCHANGED <<sessions, drawn, stored, pos, objects, buckets>> /\ client = "ready" /\ client' = "waiting"
    BY <1>2 DEF Send, gcs
  <2>2. UNCHANGED <<Verdict, Standing>>
    BY <2>1 DEF Verdict, Standing
  <2> QED BY <1>12, <1>13, <2>1, <2>2
<1>3. CASE RequestLost
  <2>1. UNCHANGED <<sessions, drawn, stored, pos, client, objects, buckets>>
    BY <1>3 DEF RequestLost, gcs
  <2>2. UNCHANGED <<Verdict, Standing>>
    BY <2>1 DEF Verdict, Standing
  <2> QED BY <1>12, <1>13, <2>1, <2>2
<1>4. CASE Timeout
  <2>1. UNCHANGED <<sessions, drawn, stored, pos, objects, buckets>> /\ client = "waiting" /\ client' = "ready"
    BY <1>4 DEF Timeout, gcs
  <2>2. UNCHANGED <<Verdict, Standing>>
    BY <2>1 DEF Verdict, Standing
  <2> QED BY <1>12, <1>13, <2>1, <2>2
<1>5. CASE ServerRestarts
  <2>1. /\ id \in drawn /\ sessions' = <<>>
        /\ UNCHANGED <<drawn, objects, buckets, stored, pos, client>>
    BY <1>5 DEF ServerRestarts, Restarted
  <2>2. UNCHANGED <<Verdict, Standing>>
    BY <2>1 DEF Verdict, Standing
  <2>3. CASE id \in DOMAIN sessions
    <3>1. stored = {} /\ Phase = "open"
      BY <2>3 DEF RInv, Phase
    <3>2. Phase' = "lost"
      BY <2>1, <3>1 DEF Phase
    <3>3. Held' = 0
      BY <3>2 DEF Held
    <3> QED BY <2>1, <2>2, <3>1, <3>2, <3>3 DEF Promise!Next, Promise!Lose, Promise!Says
  <2>4. CASE id \notin DOMAIN sessions
    <3>1. UNCHANGED Phase /\ Phase \in {"lost", "stored"}
      BY <2>1, <2>4 DEF Phase
    <3>2. UNCHANGED Held
      BY <3>1 DEF Held
    <3> QED BY <1>12, <2>1, <2>2, <3>1, <3>2
  <2> QED BY <2>3, <2>4
<1>6. ASSUME NEW m \in current, Receive(m) PROVE [Promise!Next]_Promise!vars
  <2>1. /\ Requested(m.cr) /\ ResumeUpload(id, m.cr) /\ Recorded(m.cr)
        /\ client = "waiting" /\ id \in drawn /\ buckets' = buckets
    BY <1>6 DEF Receive, RInv, UInv, ResumeUpload
  <2>2. /\ client' = CASE Answer(id, m.cr).code = 200 -> "done"
                       [] Answer(id, m.cr).code = 404 -> "gone"
                       [] Answer(id, m.cr).code = 308 -> "ready"
        /\ pos' = IF Answer(id, m.cr).code = 308 THEN Answer(id, m.cr).persisted ELSE pos
    BY <1>6 DEF Receive
  <2>3. Verdict = "none"
    BY <2>1 DEF Verdict
  <2>4. CASE /\ Phase \in {"lost", "stored"} /\ Answer(id, m.cr).code = 404
             /\ UNCHANGED <<Phase, Held, Standing>>
    <3>1. client' = "gone" /\ pos' = pos
      BY <2>2, <2>4
    <3>2. Verdict' = "gone"
      BY <3>1 DEF Verdict
    <3> QED BY <2>1, <2>3, <2>4, <3>1, <3>2 DEF Promise!Next, Promise!Refuse
  <2>5. CASE /\ Phase = "open" /\ Phase' = "open" /\ Held' \in Held .. Size
             /\ Answer(id, m.cr).code = 308 /\ Answer(id, m.cr).persisted = Held'
             /\ UNCHANGED Standing
    <3>1. client' = "ready" /\ pos' = Held'
      BY <2>2, <2>5
    <3>2. Verdict' = "none"
      BY <3>1 DEF Verdict
    <3>3. Held' \in 0 .. Size
      BY <1>0, <1>14, <2>5
    <3>4. Promise!Take(Held')
      BY <2>1, <2>3, <2>5, <3>1, <3>2 DEF Promise!Take
    <3> QED BY <3>3, <3>4 DEF Promise!Next
  <2>6. CASE /\ Phase = "open" /\ Phase' = "stored" /\ Held' = Size
             /\ Answer(id, m.cr).code = 200 /\ Standing' = {Whole} /\ theBucket \in buckets
    <3>1. client' = "done" /\ pos' = pos
      BY <2>2, <2>6
    <3>2. Verdict' = "stored"
      BY <3>1 DEF Verdict
    <3> QED BY <2>1, <2>3, <2>6, <3>1, <3>2 DEF Promise!Next, Promise!Store, Promise!Says
  <2>7. CASE /\ Phase = "open" /\ Phase' = "lost" /\ Held' = 0
             /\ Answer(id, m.cr).code = 404 /\ UNCHANGED Standing
    <3>1. client' = "gone" /\ pos' = pos
      BY <2>2, <2>7
    <3>2. Verdict' = "gone"
      BY <3>1 DEF Verdict
    <3> QED BY <2>1, <2>3, <2>7, <3>1, <3>2 DEF Promise!Next, Promise!Lose, Promise!Says
  <2> QED BY <2>1, <2>4, <2>5, <2>6, <2>7, ServedAs
<1>7. ASSUME NEW cr, Requested(cr), ResumeUpload(id, cr), Recorded(cr), client # "start",
             UNCHANGED <<client, pos>>
      PROVE  [Promise!Next]_Promise!vars
  <2>1. Requested(cr) /\ id \in drawn /\ buckets' = buckets
    BY <1>7 DEF UInv, ResumeUpload
  <2>2. UNCHANGED Verdict
    BY <1>7 DEF Verdict
  <2>3. CASE UNCHANGED <<Phase, Held, Standing>>
    BY <1>12, <1>7, <2>1, <2>2, <2>3
  <2>4. CASE /\ Phase = "open" /\ Phase' = "open" /\ Held' \in Held .. Size
             /\ UNCHANGED Standing
    <3>1. Held' \in 0 .. Size
      BY <1>0, <1>14, <2>4
    <3>2. Promise!Take(Held')
      BY <1>7, <2>1, <2>2, <2>4 DEF Promise!Take
    <3> QED BY <3>1, <3>2 DEF Promise!Next
  <2>5. CASE /\ Phase = "open" /\ Phase' = "stored" /\ Held' = Size /\ Standing' = {Whole}
             /\ theBucket \in buckets
    BY <1>7, <2>1, <2>2, <2>5 DEF Promise!Next, Promise!Store, Promise!Says
  <2>6. CASE Phase = "open" /\ Phase' = "lost" /\ Held' = 0 /\ UNCHANGED Standing
    BY <1>7, <2>1, <2>2, <2>6 DEF Promise!Next, Promise!Lose, Promise!Says
  <2> QED BY <1>7, <2>1, <2>3, <2>4, <2>5, <2>6, ServedAs
<1>8. ASSUME NEW m \in current, ReplyLost(m) PROVE [Promise!Next]_Promise!vars
  <2>1. Requested(m.cr) /\ client # "start"
    BY <1>8 DEF RInv, UInv
  <2> QED BY <1>7, <1>8, <2>1 DEF ReplyLost
<1>9. ASSUME NEW m \in late, LateArrives(m) PROVE [Promise!Next]_Promise!vars
  <2>1. Requested(m.cr) /\ client # "start"
    BY <1>9 DEF RInv, UInv
  <2> QED BY <1>7, <1>9, <2>1 DEF LateArrives
<1>10. CASE Others /\ UNCHANGED resumable
  <2>1. UNCHANGED <<sessions, drawn>>
    BY <1>10 DEF Others, CreateBucket, DeleteBucket, DeleteObj, UploadCheck, UploadStore,
                 UploadAborted
  <2>2. UNCHANGED <<stored, pos, client>>
    BY <1>10 DEF resumable
  <2>3. UNCHANGED Verdict
    BY <2>2 DEF Verdict
  <2>4. Standing' \in {Standing, {}} \cup {{d} : d \in Data}
    BY <1>10, <2>1, OthersStanding
  <2> QED BY <1>13, <2>1, <2>2, <2>3, <2>4 DEF Promise!Next, Promise!OthersWrite
<1>11. CASE UNCHANGED resVars
  <2>1. UNCHANGED <<sessions, drawn, stored, pos, client, objects, buckets>>
    BY <1>11 DEF resVars, resumable, gcs
  <2>2. UNCHANGED <<Verdict, Standing>>
    BY <2>1 DEF Verdict, Standing
  <2> QED BY <1>12, <1>13, <2>1, <2>2
<1>15. ASSUME NEW m, \/ CheckPasses(m) \/ LatePasses(m)
       PROVE  [Promise!Next]_Promise!vars
  <2>1. UNCHANGED <<sessions, drawn, stored, pos, client, objects, buckets>>
    BY <1>15 DEF CheckPasses, LatePasses, gcs
  <2>2. UNCHANGED <<Verdict, Standing>>
    BY <2>1 DEF Verdict, Standing
  <2> QED BY <1>12, <1>13, <2>1, <2>2
<1>16. ASSUME NEW m \in current, CheckRefuses(m) PROVE [Promise!Next]_Promise!vars
  <2>1. /\ UNCHANGED <<sessions, drawn, stored, pos, objects, buckets>>
        /\ client = "waiting" /\ client' = "gone" /\ theBucket \notin buckets
        /\ id \in drawn
    BY <1>16 DEF CheckRefuses, gcs, UInv
  <2>2. Verdict = "none" /\ Verdict' = "gone" /\ UNCHANGED Standing
    BY <2>1 DEF Verdict, Standing
  <2>3. Phase \in {"open", "lost", "stored"}
    BY <2>1 DEF Phase
  <2> QED BY <1>13, <2>1, <2>2, <2>3 DEF Promise!Next, Promise!Refuse
<1> QED BY <1>1, <1>2, <1>3, <1>4, <1>5, <1>6, <1>8, <1>9, <1>10, <1>11, <1>15, <1>16 DEF ResNext

(* A resumable upload is to its client an atomic write that remembers what  *)
(* it was given: for objects of any size, any chunks, and any requests and  *)
(* replies lost, repeated or late, with the server restarting meanwhile.    *)
THEOREM UploadImplements == ResSpec => KeepsUploadPromise
<1>1. ResInit => Promise!Init
  BY DEF ResInit, GCSInit, Promise!Init, Phase, Held, Verdict, Standing
<1>2. ResInit => UInv
  BY DEF ResInit, GCSInit, UInv
<1> QED BY <1>1, <1>2, UStep, UploadStep, ResInductive, PTL
     DEF ResSpec, KeepsUploadPromise, Promise!Spec

(* What the client was told is held is never taken back: no 308 answers a   *)
(* smaller range than an earlier one, whatever was applied in between.      *)
THEOREM NeverBack == ResSpec => [][pos <= pos']_pos
<1>1. ASSUME RInv, UInv, [ResNext]_resVars PROVE [pos <= pos']_pos
  <2>0. Size \in Nat /\ pos \in 0 .. Size
    BY <1>1, ResumableAssumption DEF RInv
  <2>1. ASSUME NEW m \in current, Receive(m) PROVE pos <= pos'
    <3>1. /\ Requested(m.cr) /\ ResumeUpload(id, m.cr) /\ Recorded(m.cr) /\ id \in drawn
          /\ pos' = IF Answer(id, m.cr).code = 308 THEN Answer(id, m.cr).persisted ELSE pos
      BY <1>1, <2>1 DEF Receive, RInv, UInv
    <3>2. CASE Answer(id, m.cr).code # 308
      BY <2>0, <3>1, <3>2
    <3>3. CASE Answer(id, m.cr).code = 308
      <4>1. Phase = "open" /\ Held' \in Held .. Size /\ pos' = Held'
        BY <1>1, <3>1, <3>3, ServedAs
      <4>2. id \in DOMAIN sessions /\ Held = Len(sessions[id].data)
        BY <4>1 DEF Phase, Held
      <4>3. PICK n \in pos .. Size : sessions[id].data = Span(0, n)
        BY <1>1, <4>2 DEF RInv, Prefix
      <4>4. Len(Span(0, n)) = n
        <5>1. n \in 0 .. Size
          BY <2>0, <4>3
        <5> QED BY <2>0, <5>1, SpanSeq DEF Span
      <4> QED BY <2>0, <4>1, <4>2, <4>3, <4>4
    <3> QED BY <3>2, <3>3
  <2>2. CASE \E m \in current : Receive(m)
    BY <2>1, <2>2
  <2>3. CASE ~\E m \in current : Receive(m)
    BY <1>1, <2>3 DEF ResNext, Start, Send, RequestLost, Timeout, ServerRestarts, ReplyLost,
                      LateArrives, CheckPasses, CheckRefuses, LatePasses, resumable, resVars
  <2> QED BY <2>2, <2>3
<1>2. ResInit => UInv
  BY DEF ResInit, GCSInit, UInv
<1> QED BY <1>1, <1>2, UStep, ResInductive, PTL DEF ResSpec
=============================================================================
