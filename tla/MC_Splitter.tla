---------------------------- MODULE MC_Splitter ----------------------------
(* Parent streams for TLC: end of stream at once, one object of each kind, *)
(* an object for each puller, and a rejected batch.                        *)
EXTENDS Splitter

MCStreams == {<<>>, <<"scalar">>, <<"vector">>, <<"vector", "scalar">>, <<"bad">>}
(* Streams whose first batch is an object, so the loop reaches its send. *)
MCObjectStreams == {<<"scalar">>, <<"vector">>, <<"vector", "scalar">>}
=============================================================================
