--------------------------- MODULE MC_QueryHandler ---------------------------
(* Two batches and a channel end; flows ending in end of stream, in an     *)
(* error, and in journal.ErrEmpty.                                          *)
EXTENDS QueryHandler

CONSTANTS b1, b2, e1

MCBatches == {b1, b2}
MCEnds == {e1}
MCFlows == {<<b1, e1, b2, "eos">>, <<b2, b1, e1, "err">>, <<e1, b1, "empty">>, <<"eos">>, <<b1, "err">>, <<e1, b2, b1, "eos">>}
=============================================================================
