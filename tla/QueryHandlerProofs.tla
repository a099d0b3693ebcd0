------------------------- MODULE QueryHandlerProofs -------------------------
(***************************************************************************)
(* Proofs about handleQuery: the response is a prefix of the flowgraph's   *)
(* output, and the handler implements QueryStream.                         *)
(***************************************************************************)
EXTENDS QueryHandler, SequenceTheorems, TLAPS

(* What makes WrittenInOrder inductive: while the handler loops, it has    *)
(* written every result the producer pulled except the one being sent,     *)
(* which is the flow's next; a producer that pulls again has sent an item, *)
(* not the terminal result, so the flow goes on.                           *)
IInv ==
    /\ TypeOK
    /\ hpc = "setup" => ppc = "none" /\ written = <<>>
    /\ ppc = "none" => pulled = 0 /\ written = <<>>
    /\ ppc = "pull" => pulled < Len(flow)
    /\ ppc = "send" => pulled \in 1..Len(flow) /\ cur = flow[pulled]
    /\ hpc = "loop" => /\ ppc \in {"pull", "send"}
                       /\ Len(written) = IF ppc = "pull" THEN pulled ELSE pulled - 1
    /\ Len(written) <= pulled
    /\ \A i \in 1..Len(written) : written[i] = flow[i]
LEMMA InitIInv == Init => IInv
<1> SUFFICES ASSUME Init PROVE IInv
    OBVIOUS
<1>1. flow \in Flows /\ pulled \in 0..Len(flow)
    BY QueryAssumption DEF Init
<1>2. cur \in Items \cup Terminals \cup {"none"}
    BY DEF Init
<1>3. written \in Seq(Items)
    BY DEF Init
<1>4. Len(written) = 0 /\ pulled = 0
    BY DEF Init
<1>5. \A i \in 1..Len(written) : written[i] = flow[i]
    BY <1>4
<1>6. TypeOK
    BY <1>1, <1>2, <1>3 DEF Init, TypeOK
<1>7. /\ hpc = "setup" => ppc = "none" /\ written = <<>>
      /\ ppc = "none" => pulled = 0 /\ written = <<>>
      /\ ppc \notin {"pull", "send"} /\ hpc # "loop"
    BY DEF Init
<1> QED
    BY <1>4, <1>5, <1>6, <1>7 DEF IInv

LEMMA NextIInv == IInv /\ [Next]_vars => IInv'
<1> SUFFICES ASSUME IInv, [Next]_vars PROVE IInv'
    OBVIOUS
<1> USE QueryAssumption DEF IInv, TypeOK, Terminals, Items
<1>1. CASE Setup
    BY <1>1 DEF Setup
<1>2. CASE ProducerPull
    BY <1>2 DEF ProducerPull
<1>3. CASE Tick
    BY <1>3 DEF Tick
<1>4. CASE Receive
    <2>1. CASE cur \in Terminals /\ hpc' = "returned"
              /\ UNCHANGED written
        BY <1>4, <2>1 DEF Receive
    <2>2. CASE cur \in Items /\ written' = Append(written, cur)
              /\ UNCHANGED <<hpc, writeFailed>>
        BY <1>4, <2>2 DEF Receive
    <2>3. CASE cur \in Items /\ hpc' = "returned" /\ writeFailed' = TRUE
              /\ UNCHANGED written
        BY <1>4, <2>3 DEF Receive
    <2> QED
        BY <1>4, <2>1, <2>2, <2>3 DEF Receive
<1>5. CASE Served
    BY <1>5 DEF Served, vars
<1>6. CASE UNCHANGED vars
    BY <1>6 DEF vars
<1> QED
    BY <1>1, <1>2, <1>3, <1>4, <1>5, <1>6 DEF Next

(* IInv implies WrittenInOrder: equal lengths and equal items. *)
LEMMA IInvOrder == IInv => WrittenInOrder
BY DEF IInv, TypeOK, WrittenInOrder

(* The response handleQuery writes is always a prefix of the flowgraph's  *)
(* output in its order, whatever the producer goroutine and the handler's *)
(* select loop interleave and whichever write fails.                       *)
THEOREM ResponseInOrder == Spec => []WrittenInOrder
<1>1. Init => IInv
    BY InitIInv
<1>2. IInv /\ [Next]_vars => IInv'
    BY NextIInv
<1>3. IInv => WrittenInOrder
    BY IInvOrder
<1> QED
    BY <1>1, <1>2, <1>3, PTL DEF Spec
(* Every state handleQuery reaches is well typed: the producer's and the *)
(* handler's program counters, the item in flight on the channel and the  *)
(* response written so far keep their types whatever the goroutines do.  *)
THEOREM TypeCorrect == Spec => []TypeOK
<1>1. IInv => TypeOK
    BY DEF IInv
<1> QED
    BY <1>1, InitIInv, NextIInv, PTL DEF Spec

(* Under the refinement mapping, the client's view of the response. *)
StreamVars == <<Data(flow), written, hpc = "returned">>

(* The output without its terminal result has one item fewer than the    *)
(* flow, and the same items.                                               *)
LEMMA DataOfFlow ==
    ASSUME NEW S, NEW f \in Seq(S), Len(f) > 0
    PROVE  /\ Len(Data(f)) = Len(f) - 1
           /\ \A i \in 1..Len(f) - 1 : Data(f)[i] = f[i]
<1> DEFINE n == Len(f) - 1
<1> DEFINE d == SubSeq(f, 1, n)
<1>1. n \in Nat
    BY LenProperties
<1>2. \A i \in 1..n : f[i] \in S
    OBVIOUS
<1>3. /\ Len(d) = IF 1 <= n THEN n ELSE 0
      /\ \A i \in 1..n - 1 + 1 : d[i] = f[1 + i - 1]
    BY <1>2, SubSeqProperties
<1> HIDE DEF d, n
<1>4. Len(d) = n
    BY <1>1, <1>3
<1>5. \A i \in 1..n : d[i] = f[i]
    BY <1>1, <1>3
<1> QED
    BY <1>4, <1>5 DEF Data, d, n

(* Each step of handleQuery is a step of QueryStream under the mapping or *)
(* leaves the client's view unchanged: a successful write delivers the    *)
(* output's next item, a return ends the response, and the setup and the  *)
(* producer's pulls are invisible to the client.                           *)
LEMMA StepRefines == IInv /\ [Next]_vars => [Stream!Next]_StreamVars
<1> SUFFICES ASSUME IInv, [Next]_vars PROVE [Stream!Next]_StreamVars
    OBVIOUS
<1> USE DEF IInv, TypeOK
<1>1. CASE Setup
    <2>1. CASE hpc' = "returned" /\ UNCHANGED ppc
        BY <1>1, <2>1 DEF Setup, Stream!Next, Stream!End, StreamVars
    <2>2. CASE hpc' = "loop" /\ ppc' = "pull"
        BY <1>1, <2>2 DEF Setup, StreamVars
    <2> QED
        BY <1>1, <2>1, <2>2 DEF Setup
<1>2. CASE ProducerPull
    BY <1>2 DEF ProducerPull, StreamVars
<1>3. CASE Tick
    BY <1>3 DEF Tick, Stream!Next, Stream!End, StreamVars
<1>4. CASE Receive
    <2>1. CASE cur \in Terminals /\ hpc' = "returned" /\ UNCHANGED written
        BY <1>4, <2>1 DEF Receive, Stream!Next, Stream!End, StreamVars
    <2>2. CASE cur \in Items /\ written' = Append(written, cur)
              /\ UNCHANGED <<hpc, writeFailed>>
        <3>1. flow \in Seq(Items \cup Terminals) /\ Len(flow) > 0
            BY QueryAssumption
        <3>2. pulled \in 1..Len(flow) - 1 /\ cur = flow[pulled]
              /\ Len(written) = pulled - 1
            <4>1. flow[Len(flow)] \in Terminals
                BY QueryAssumption
            <4> QED
                BY <1>4, <2>2, <4>1, QueryAssumption DEF Receive, Items, Terminals
        <3>3. Len(Data(flow)) = Len(flow) - 1 /\ Data(flow)[pulled] = flow[pulled]
            BY <3>1, <3>2, DataOfFlow
        <3>4. Stream!Deliver
            BY <1>4, <2>2, <3>2, <3>3 DEF Receive, Stream!Deliver
        <3> QED
            BY <3>4 DEF Stream!Next
    <2>3. CASE cur \in Items /\ hpc' = "returned" /\ writeFailed' = TRUE
              /\ UNCHANGED written
        BY <1>4, <2>3 DEF Receive, Stream!Next, Stream!End, StreamVars
    <2> QED
        BY <1>4, <2>1, <2>2, <2>3 DEF Receive
<1>5. CASE Served
    BY <1>5 DEF Served, vars, StreamVars
<1>6. CASE UNCHANGED vars
    BY <1>6 DEF vars, StreamVars
<1> QED
    BY <1>1, <1>2, <1>3, <1>4, <1>5, <1>6 DEF Next

(* handleQuery implements QueryStream: whatever the producer goroutine,   *)
(* the stats ticker and failing writes interleave, the client receives a  *)
(* prefix of the query's output, item by item, and nothing after the      *)
(* response ends.                                                          *)
THEOREM ImplementsStream == Spec => StreamSpec
<1>1. Init => Stream!Init
    BY DEF Init, Stream!Init
<1>2. IInv /\ [Next]_vars => [Stream!Next]_StreamVars
    BY StepRefines
<1> QED
    BY <1>1, <1>2, InitIInv, NextIInv, PTL
       DEF Spec, StreamSpec, Stream!Spec, StreamVars
=============================================================================
