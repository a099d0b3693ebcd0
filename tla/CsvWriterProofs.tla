-------------------------- MODULE CsvWriterProofs --------------------------
(***************************************************************************)
(* The CSV writer's output is a data frame for every set of record types  *)
(* and every number of writes.                                             *)
(***************************************************************************)
EXTENDS CsvWriter, SequenceTheorems, TLAPS

(* The lines a writer may output. *)
Lines == [kind : {"hdr", "row"}, type : Types]

(* No line is output before w.first is set; and once w.first is set with  *)
(* no header out (its write failed), the encoder has failed for good: that *)
(* is all that keeps a later row of the type from coming out headerless.   *)
IInv ==
    /\ TypeOK
    /\ first = "nil" => out = <<>>
    /\ (first # "nil" /\ out = <<>>) => broken
    /\ FrameOutput

LEMMA InitIInv == Init => IInv
<1> SUFFICES ASSUME Init PROVE IInv
    OBVIOUS
<1>1. out = <<>> /\ results = <<>> /\ first = "nil"
    BY DEF Init
<1>2. out \in Seq([kind : {"hdr", "row"}, type : Types])
      /\ results \in Seq({"ok", "err", "frame"})
    BY <1>1, EmptySeq
<1>3. TypeOK
    BY <1>1, <1>2 DEF Init, TypeOK
<1>4. FrameOutput
    BY <1>1 DEF FrameOutput
<1> QED
    BY <1>1, <1>3, <1>4 DEF IInv

(* A step that leaves w.first and the output alone keeps the frame. *)
LEMMA FrameUnchanged ==
    ASSUME IInv, UNCHANGED <<first, out>>, broken' \in BOOLEAN, broken => broken',
           results' \in Seq({"ok", "err", "frame"}),
           closeResult' \in {"open", "ok", "err"}
    PROVE  IInv'
BY DEF IInv, TypeOK, FrameOutput

LEMMA HeaderFailsIInv ==
    ASSUME IInv, NEW t \in Types, HeaderFails(t), UNCHANGED closeResult
    PROVE  IInv'
BY CsvAssumption DEF HeaderFails, IInv, TypeOK, FrameOutput

LEMMA RowWrittenIInv ==
    ASSUME IInv, NEW t \in Types, RowWritten(t), UNCHANGED closeResult
    PROVE  IInv'
<1>1. first' = t /\ results' \in Seq({"ok", "err", "frame"}) /\ broken' \in BOOLEAN
    BY DEF RowWritten, StartRow, IInv, TypeOK
<1>2. CASE first = "nil"
    <2>1. out' = <<>> \o <<Line("hdr", t)>> \o <<Line("row", t)>>
        BY <1>2 DEF RowWritten, Header, IInv
    <2>h. Line("hdr", t) \in Lines /\ Line("row", t) \in Lines
        BY DEF Line, Lines
    <2>s. <<Line("hdr", t)>> \in Seq(Lines)
        BY <2>h
    <2>c. <<>> \o <<Line("hdr", t)>> = <<Line("hdr", t)>>
        BY <2>s, ConcatEmptySeq
    <2>a. <<Line("hdr", t)>> \o <<Line("row", t)>> = Append(<<Line("hdr", t)>>, Line("row", t))
        BY <2>s, <2>h, AppendIsConcat
    <2>2. out' = Append(<<Line("hdr", t)>>, Line("row", t))
        BY <2>1, <2>c, <2>a, Zenon
    <2>3. /\ out' \in Seq(Lines) /\ out' # <<>> /\ Len(out') = 2
          /\ out'[1] = Line("hdr", t) /\ out'[2] = Line("row", t)
        BY <2>2, <2>s, <2>h, AppendProperties
    <2>4. FrameOutput'
        BY <1>1, <2>3 DEF FrameOutput
    <2> QED
        BY <1>1, <2>3, <2>4, CsvAssumption DEF IInv, TypeOK, Lines
<1>3. CASE first # "nil"
    <2>1. first = t
        BY <1>3 DEF RowWritten, StartRow
    <2>2. out' = Append(out, Line("row", t))
        BY <1>3 DEF RowWritten, Header, IInv, TypeOK
    <2>3. Len(out) >= 1
        BY <1>3, <2>1, EmptySeq DEF RowWritten, IInv, TypeOK
    <2>4. Line("row", t) \in [kind : {"hdr", "row"}, type : Types]
        BY DEF Line
    <2>5. out' \in Seq([kind : {"hdr", "row"}, type : Types])
        BY <2>2, <2>4, AppendProperties DEF IInv, TypeOK
    <2>6. \A i \in 1..Len(out') :
            out'[i] = IF i = 1 THEN Line("hdr", t) ELSE Line("row", t)
        BY <2>1, <2>2, <2>3, <2>4, AppendProperties DEF IInv, TypeOK, FrameOutput
    <2>7. out' # <<>>
        BY <2>2, <2>4, AppendProperties DEF IInv, TypeOK
    <2> QED
        BY <1>1, <2>1, <2>5, <2>6, <2>7, CsvAssumption DEF IInv, TypeOK, FrameOutput
<1> QED
    BY <1>2, <1>3

LEMMA RowFailsIInv ==
    ASSUME IInv, NEW t \in Types, RowFails(t), UNCHANGED closeResult
    PROVE  IInv'
<1>1. first' = t /\ results' \in Seq({"ok", "err", "frame"}) /\ broken' \in BOOLEAN
    BY DEF RowFails, StartRow, IInv, TypeOK
<1>2. CASE first = "nil"
    <2>1. out' = <<Line("hdr", t)>>
        BY <1>2 DEF RowFails, Header, IInv
    <2> QED
        BY <1>1, <2>1, CsvAssumption DEF IInv, TypeOK, FrameOutput, Line
<1>3. CASE first # "nil"
    <2>1. first = t
        BY <1>3 DEF RowFails, StartRow
    <2>2. out' = out
        BY <1>3, ConcatEmptySeq DEF RowFails, Header, IInv, TypeOK
    <2>3. broken => broken'
        BY DEF RowFails
    <2> QED
        BY <1>1, <2>1, <2>2, <2>3 DEF IInv, TypeOK, FrameOutput
<1> QED
    BY <1>2, <1>3

LEMMA WriteIInv == IInv /\ Write => IInv'
<1> SUFFICES ASSUME IInv, Write PROVE IInv'
    OBVIOUS
<1>0. UNCHANGED closeResult
    BY DEF Write
<1>1. CASE FlattenFails
    BY <1>0, <1>1, FrameUnchanged DEF FlattenFails, IInv, TypeOK
<1>2. ASSUME NEW t \in Types, NotDataFrame(t) PROVE IInv'
    BY <1>0, <1>2, FrameUnchanged DEF NotDataFrame, IInv, TypeOK
<1>3. ASSUME NEW t \in Types, HeaderFails(t) PROVE IInv'
    BY <1>0, <1>3, HeaderFailsIInv
<1>4. ASSUME NEW t \in Types, RowWritten(t) PROVE IInv'
    BY <1>0, <1>4, RowWrittenIInv
<1>5. ASSUME NEW t \in Types, RowFails(t) PROVE IInv'
    BY <1>0, <1>5, RowFailsIInv
<1> QED
    BY <1>1, <1>2, <1>3, <1>4, <1>5 DEF Write

LEMMA NextIInv == IInv /\ [Next]_vars => IInv'
<1> SUFFICES ASSUME IInv, [Next]_vars PROVE IInv'
    OBVIOUS
<1>1. CASE Write
    BY <1>1, WriteIInv
<1>2. CASE Flush
    BY <1>2 DEF Flush, IInv, TypeOK, FrameOutput, Accepts
<1>3. CASE Close
    BY <1>3 DEF Close, IInv, TypeOK, FrameOutput, Accepts
<1>4. CASE Closed
    BY <1>4 DEF Closed, vars, IInv, TypeOK, FrameOutput
<1>5. CASE UNCHANGED vars
    BY <1>5 DEF vars, IInv, TypeOK, FrameOutput
<1> QED
    BY <1>1, <1>2, <1>3, <1>4, <1>5 DEF Next

(* Whatever Write, Flush and Close return, the writer's output is one    *)
(* header naming the first record's columns followed by rows of that      *)
(* record's type only: w.first is never reset and guards every row.        *)
THEOREM OutputIsFrame == Spec => []FrameOutput
<1>1. IInv => FrameOutput
    BY DEF IInv
<1> QED
    BY <1>1, InitIInv, NextIInv, PTL DEF Spec
=============================================================================
