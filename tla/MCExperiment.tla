---------------------------- MODULE MCExperiment ----------------------------
(* Small instances of Experiment for TLC. *)
EXTENDS Experiment

TwoLimits == <<1, 2>>
OneImage  == <<"c1">>
\* The source keeps an old limit.
NotDeleted == {<<"source", "del">>}
=============================================================================
