---------------------------- MODULE UploadPromise ----------------------------
(***************************************************************************)
(* What a resumable upload promises its client, without requests, ranges   *)
(* or replies (the comments of startResumable and resumeUpload): what the  *)
(* server holds only grows while the session is open, so the client never  *)
(* goes back to a byte it was told is held; the object is there at once    *)
(* and whole, as the last thing the session does, in a bucket that stands, *)
(* and only then can the client be told that it is stored.  It is refused  *)
(* only when the session ended or its bucket is away; refused it knows     *)
(* nothing: the object may be stored and the reply lost, or the session    *)
(* stay open and be completed by a request it gave up on.                  *)
(***************************************************************************)
EXTENDS Naturals

CONSTANTS
  Size, Whole,  \* the object, and its bytes
  Theirs        \* the contents that other clients upload

VARIABLES
  session,  \* "none", "open", "stored" or "lost"
  held,     \* how many bytes the session holds
  told,     \* how many the client was last told it holds
  verdict,  \* what the client was told in the end: "none" yet, "stored" or "gone"
  place,    \* the bucket stands
  object    \* what stands under the object's name: nothing, or one content

vars == <<session, held, told, verdict, place, object>>

Init == /\ session = "none" /\ held = 0 /\ told = 0 /\ verdict = "none"
        /\ place = FALSE /\ object = {}

\* The client is told v, unless the reply is lost; it is told one thing only.
Says(v) == \/ verdict' = verdict
           \/ verdict = "none" /\ verdict' = v

Open == /\ session = "none" /\ session' = "open"
        /\ UNCHANGED <<held, told, verdict, place, object>>

\* Nothing that is held is given up, and the client may learn what is.
Take(n) == /\ session = "open" /\ n \in held .. Size
           /\ held' = n /\ told' \in {told, n}
           /\ UNCHANGED <<session, verdict, place, object>>

Store == /\ session = "open" /\ place /\ session' = "stored"
         /\ held' = Size /\ object' = {Whole}
         /\ Says("stored")
         /\ UNCHANGED <<told, place>>

\* The server restarts, or finds the bucket gone.
Lose == /\ session = "open" /\ session' = "lost"
        /\ held' = 0 /\ Says("gone")
        /\ UNCHANGED <<told, place, object>>

Refuse == /\ \/ session \in {"stored", "lost"}
             \/ session = "open" /\ ~place
          /\ verdict = "none" /\ verdict' = "gone"
          /\ UNCHANGED <<session, held, told, place, object>>

\* Other clients make and delete the bucket, store and delete under the same
\* name, and steps nobody sees.
OthersWrite == /\ object' \in {object, {}} \cup {{d} : d \in Theirs}
               /\ place' \in BOOLEAN
               /\ UNCHANGED <<session, held, told, verdict>>

Next == \/ Open \/ Store \/ Lose \/ Refuse \/ OthersWrite
        \/ \E n \in 0 .. Size : Take(n)

Spec == Init /\ [][Next]_vars
=============================================================================
