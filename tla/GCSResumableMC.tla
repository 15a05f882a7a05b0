---------------------------- MODULE GCSResumableMC ----------------------------
(* TLC instances of GCSResumable: one object of three bytes, one session,   *)
(* and one other upload, to the same bucket and name, of no byte of it.     *)
EXTENDS GCSResumable
CONSTANTS b1, o1, r1, u1
BucketDef  == {b1}
NameDef    == {o1}
UploadDef  == {r1}
SessionDef == {u1}
DataDef    == {<<3>>}
=============================================================================
