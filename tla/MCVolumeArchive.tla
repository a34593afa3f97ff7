--------------------------- MODULE MCVolumeArchive ---------------------------
(* Small instances of VolumeArchive for TLC. *)
EXTENDS VolumeArchive

TwoFiles == <<"f", "g">>
=============================================================================
