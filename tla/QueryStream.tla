---------------------------- MODULE QueryStream ----------------------------
(***************************************************************************)
(* What a query response promises its client: the items of the query's    *)
(* output (batches and channel ends) arrive in the order the flowgraph     *)
(* produced them, none twice and none invented, and once the response has  *)
(* ended nothing more arrives.  The response may end early (an error or a  *)
(* client that went away), so only a prefix is promised.                    *)
(***************************************************************************)
EXTENDS Naturals, Sequences

CONSTANTS
    Items,      \* the batches and channel ends a query may produce
    Outputs     \* the possible outputs of a query, without the end marker

VARIABLES
    output,     \* the output of this query
    received,   \* what the client has received
    ended       \* the response is over

TypeOK ==
    /\ output \in Outputs
    /\ received \in Seq(Items)
    /\ ended \in BOOLEAN

Init ==
    /\ output \in Outputs
    /\ received = <<>>
    /\ ended = FALSE

(* The next item of the output reaches the client. *)
Deliver ==
    /\ ~ended
    /\ Len(received) < Len(output)
    /\ received' = Append(received, output[Len(received) + 1])
    /\ UNCHANGED <<output, ended>>

(* The response ends, at the end of the output or before. *)
End ==
    /\ ~ended
    /\ ended' = TRUE
    /\ UNCHANGED <<output, received>>

Next == Deliver \/ End

Spec == Init /\ [][Next]_<<output, received, ended>>
=============================================================================
