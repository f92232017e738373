----------------------------- MODULE MCStateCtl -----------------------------
(***************************************************************************)
(* Instances of StateCtl for TLC: the sets of publish lists and of factory  *)
(* reads that a configuration file cannot write down itself.                *)
(***************************************************************************)
EXTENDS StateCtlInv

\* No node publishes or reads: the scheduling of the graph alone.
NoPublish == {<< >>}
NoReads   == {}
PublishXOnly == {<< >>, <<"x">>}

\* Two names published together; a factory may require one of them.
PublishYX == {<< >>, <<"y", "x">>}
ReadX     == {{"x"}}
=============================================================================
