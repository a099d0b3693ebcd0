---------------------------- MODULE QueryHandler ----------------------------
(***************************************************************************)
(* handleQuery (service/handlers.go 33-141): after setting up the query    *)
(* the handler starts a producer goroutine that pulls the flowgraph and    *)
(* sends every result on the unbuffered channel results, and itself loops *)
(* on a select over the stats ticker and results, writing each batch to   *)
(* the response until end of stream, an error, or a failed write.          *)
(*                                                                         *)
(* The flowgraph's output is a sequence of batches with values, channel   *)
(* ends (batches without values) and one terminal result: end of stream   *)
(* (a nil batch), journal.ErrEmpty, or another error.  Every write to the  *)
(* response may fail (the client went away).                               *)
(***************************************************************************)
EXTENDS Naturals, Sequences

CONSTANTS
    Batches,    \* batches with values
    Ends,       \* *op.EndOfChannel batches
    Flows       \* the outputs the flowgraph may produce

(* The terminal results of flowgraph.Pull. *)
Terminals == {"eos", "empty", "err"}

Items == Batches \cup Ends

ASSUME QueryAssumption ==
    /\ Batches \cap Ends = {}
    /\ Terminals \cap Items = {}
    /\ Flows \subseteq Seq(Items \cup Terminals)
    /\ \A f \in Flows : /\ f # <<>>
                        /\ f[Len(f)] \in Terminals
                        /\ \A i \in 1..Len(f) - 1 : f[i] \in Items

VARIABLES
    flow,       \* what the flowgraph yields
    pulled,     \* how many results the producer has pulled
    ppc,        \* the producer goroutine
    cur,        \* the result the producer is sending
    hpc,        \* the handler
    written,    \* the batches and channel ends written to the response
    writeFailed \* a write to the response failed

vars == <<flow, pulled, ppc, cur, hpc, written, writeFailed>>

(* The output of the flow without its terminal result. *)
Data(f) == SubSeq(f, 1, Len(f) - 1)

TypeOK ==
    /\ flow \in Flows
    /\ pulled \in 0..Len(flow)
    /\ ppc \in {"none", "pull", "send", "exit"}
    /\ cur \in Items \cup Terminals \cup {"none"}
    /\ hpc \in {"setup", "loop", "returned"}
    /\ written \in Seq(Items)
    /\ writeFailed \in BOOLEAN

Init ==
    /\ flow \in Flows
    /\ pulled = 0
    /\ ppc = "none"
    /\ cur = "none"
    /\ hpc = "setup"
    /\ written = <<>>
    /\ writeFailed = FALSE

(* Unmarshal, the ctrl flag, Parse, CompileLakeQuery and queryio.NewWriter *)
(* each may fail with an HTTP error and a return; when all succeed the     *)
(* producer goroutine starts and the handler enters its loop.              *)
Setup ==
    /\ hpc = "setup"
    /\ \/ hpc' = "returned" /\ UNCHANGED ppc
       \/ hpc' = "loop" /\ ppc' = "pull"
    /\ UNCHANGED <<flow, pulled, cur, written, writeFailed>>

(* The producer: batch, err := flowgraph.Pull(false). *)
ProducerPull ==
    /\ ppc = "pull"
    /\ pulled < Len(flow)
    /\ cur' = flow[pulled + 1]
    /\ pulled' = pulled + 1
    /\ ppc' = "send"
    /\ UNCHANGED <<flow, hpc, written, writeFailed>>

(* case <-timer.C: writer.WriteProgress; on failure handleError, return.   *)
(* A progress write that succeeds changes nothing the model tracks.        *)
Tick ==
    /\ hpc = "loop"
    /\ hpc' = "returned"
    /\ writeFailed' = TRUE
    /\ UNCHANGED <<flow, pulled, ppc, cur, written>>

(* Mutants of Receive.  Writing the result before telling a terminal one  *)
(* apart: *)
ReceiveWriteFirst ==
    /\ hpc = "loop"
    /\ ppc = "send"
    /\ ppc' = IF cur \in Terminals THEN "exit" ELSE "pull"
    /\ written' = Append(written, cur)
    /\ hpc' = IF cur \in Terminals THEN "returned" ELSE hpc
    /\ UNCHANGED <<flow, pulled, cur, writeFailed>>

(* Skipping a channel end instead of writing it: *)
ReceiveSkipEnd ==
    /\ hpc = "loop"
    /\ ppc = "send"
    /\ ppc' = IF cur \in Terminals THEN "exit" ELSE "pull"
    /\ \/ cur \in Terminals /\ hpc' = "returned" /\ UNCHANGED <<written, writeFailed>>
       \/ cur \in Ends /\ UNCHANGED <<hpc, written, writeFailed>>
       \/ cur \in Batches /\ written' = Append(written, cur) /\ UNCHANGED <<hpc, writeFailed>>
    /\ UNCHANGED <<flow, pulled, cur>>

(* Returning at a channel end as at end of stream: *)
ReceiveStopAtEnd ==
    /\ hpc = "loop"
    /\ ppc = "send"
    /\ ppc' = IF cur \in Terminals THEN "exit" ELSE "pull"
    /\ \/ cur \in Terminals \cup Ends /\ hpc' = "returned" /\ UNCHANGED <<written, writeFailed>>
       \/ cur \in Batches /\ written' = Append(written, cur) /\ UNCHANGED <<hpc, writeFailed>>
    /\ UNCHANGED <<flow, pulled, cur>>

(* A failed write of a batch without the return after handleError: *)
ReceiveNoReturnOnError ==
    /\ hpc = "loop"
    /\ ppc = "send"
    /\ ppc' = IF cur \in Terminals THEN "exit" ELSE "pull"
    /\ \/ cur \in Terminals /\ hpc' = "returned" /\ UNCHANGED <<written, writeFailed>>
       \/ cur \in Items /\ written' = Append(written, cur) /\ UNCHANGED <<hpc, writeFailed>>
       \/ cur \in Items /\ writeFailed' = TRUE /\ UNCHANGED <<hpc, written>>
    /\ UNCHANGED <<flow, pulled, cur>>

(* case r := <-results, met by the producer's results <- r; the producer   *)
(* returns after sending a nil batch or an error.  The handler returns on *)
(* an error (reporting all but ErrEmpty) and on end of stream (after a     *)
(* final progress write); it writes a channel end or a batch and loops,    *)
(* or returns when that write fails.                                        *)
Receive ==
    /\ hpc = "loop"
    /\ ppc = "send"
    /\ ppc' = IF cur \in Terminals THEN "exit" ELSE "pull"
    /\ \/ /\ cur \in Terminals
          /\ hpc' = "returned"
          /\ \E ok \in BOOLEAN : writeFailed' = (cur # "empty" /\ ~ok)
          /\ UNCHANGED written
       \/ /\ cur \in Items
          /\ written' = Append(written, cur)
          /\ UNCHANGED <<hpc, writeFailed>>
       \/ /\ cur \in Items
          /\ hpc' = "returned"
          /\ writeFailed' = TRUE
          /\ UNCHANGED written
    /\ UNCHANGED <<flow, pulled, cur>>

(* The handler has returned and the producer has exited or never started. *)
Done == hpc = "returned" /\ ppc \in {"none", "exit"}

(* The request has been served once the handler returns; the server goes *)
(* on whatever its producer goroutine does.                               *)
Served == hpc = "returned" /\ UNCHANGED vars

Next == Setup \/ ProducerPull \/ Tick \/ Receive \/ Served

(* Go runs both goroutines; a select with a ready results case takes it   *)
(* eventually (select chooses at random among ready cases).  The ticker's *)
(* failing write is not assumed to happen.                                 *)
Fairness == WF_vars(Setup) /\ WF_vars(ProducerPull) /\ WF_vars(Receive)

Spec == Init /\ [][Next]_vars /\ Fairness

-----------------------------------------------------------------------------
(* The response carries the flowgraph's batches and channel ends in the   *)
(* order the producer pulled them, none lost in between and none twice:    *)
(* what the handler wrote is a prefix of the flow.                         *)
WrittenInOrder == written = SubSeq(flow, 1, Len(written))

(* When the query starts and no write to the client fails, the handler    *)
(* writes the whole output, returns, and the producer goroutine exits.    *)
QueryRunsToEnd ==
    (<>(hpc = "loop") /\ [](~writeFailed))
        => <>(Done /\ written = Data(flow))

(* The producer goroutine, once started, exits: handleQuery does not leak *)
(* it on any of its exit paths.                                           *)
ProducerExits == ppc = "pull" ~> ppc = "exit"

(* handleQuery implements QueryStream: the client receives a prefix of    *)
(* the output item by item, and nothing after the response has ended.      *)
Stream == INSTANCE QueryStream WITH
    Outputs <- {Data(f) : f \in Flows},
    output <- Data(flow),
    received <- written,
    ended <- hpc = "returned"

StreamSpec == Stream!Spec
=============================================================================
