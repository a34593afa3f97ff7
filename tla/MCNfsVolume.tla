---------------------------- MODULE MCNfsVolume -----------------------------
(* Small instances of NfsVolume for TLC. *)
EXTENDS NfsVolume, TLC

CONSTANTS d1, d2, s1, s2, s3

Apart    == s1 :> d1 @@ s2 :> d2               \* a directory for each pull
Together == s1 :> d1 @@ s2 :> d1               \* two pulls of one container
Crowd    == s1 :> d1 @@ s2 :> d1 @@ s3 :> d1   \* three of them
=============================================================================
