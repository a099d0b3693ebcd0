------------------------------ MODULE CsvWriter ------------------------------
(***************************************************************************)
(* The CSV writer (zio/csvio/writer.go) without the fuse option.  Write    *)
(* flattens a record; the first record fixes the header (w.first) and     *)
(* every later one must have the same type.  Rows go through encoding/csv, *)
(* whose buffered writer keeps the first error it meets and fails every   *)
(* later write and flush with it (broken).  Flush returns that error;     *)
(* Close flushes and closes the underlying writer.                         *)
(*                                                                         *)
(* A record is its flattened record type, a model value; a line of the    *)
(* output is a header or a row of a type.  Flatten, a value's formatting  *)
(* (DecodeTime) and each write to the encoder may fail.                    *)
(***************************************************************************)
EXTENDS Naturals, Sequences

CONSTANTS
    Types,      \* the flattened record types of the input
    MaxWrites   \* how many calls of Write are followed

(* "nil" stands for w.first before the first record. *)
ASSUME CsvAssumption == "nil" \notin Types /\ MaxWrites \in Nat

VARIABLES
    first,      \* w.first, or "nil"
    out,        \* the lines the encoder has accepted
    broken,     \* the encoder's buffered writer has failed
    results,    \* what each Write returned
    closeResult \* what Close returned, or "open"

vars == <<first, out, broken, results, closeResult>>

Line(kind, t) == [kind |-> kind, type |-> t]

TypeOK ==
    /\ first \in Types \cup {"nil"}
    /\ out \in Seq([kind : {"hdr", "row"}, type : Types])
    /\ broken \in BOOLEAN
    /\ results \in Seq({"ok", "err", "frame"})
    /\ closeResult \in {"open", "ok", "err"}

Init ==
    /\ first = "nil"
    /\ out = <<>>
    /\ broken = FALSE
    /\ results = <<>>
    /\ closeResult = "open"

(* w.encoder.Write(lines): accepted unless the buffered writer has failed *)
(* or fails now (ok = FALSE), which it keeps.                              *)
Accepts(ok) == ~broken /\ ok

-----------------------------------------------------------------------------
(* Mutant of Write.  The header written for every record: *)
WriteHeaderEveryTime ==
    /\ closeResult = "open" /\ Len(results) < MaxWrites
    /\ \E t \in Types, hdrOk, rowOk \in BOOLEAN :
         /\ first' = t
         /\ IF Accepts(hdrOk) /\ Accepts(rowOk)
              THEN out' = out \o <<Line("hdr", t), Line("row", t)>> /\ results' = Append(results, "ok") /\ UNCHANGED broken
              ELSE broken' = TRUE /\ results' = Append(results, "err") /\ UNCHANGED out
    /\ UNCHANGED closeResult

(* The header line a record of type t needs before its row. *)
Header(t) == IF first = "nil" THEN <<Line("hdr", t)>> ELSE <<>>

(* w.flattener.Flatten(rec) fails: return err. *)
FlattenFails ==
    /\ results' = Append(results, "err")
    /\ UNCHANGED <<first, out, broken>>

(* rec.Type != w.first: return ErrNotDataFrame. *)
NotDataFrame(t) ==
    /\ first # "nil" /\ t # first
    /\ results' = Append(results, "frame")
    /\ UNCHANGED <<first, out, broken>>

(* The first record: w.first is set, then encoder.Write(hdr) fails. *)
HeaderFails(t) ==
    /\ first = "nil"
    /\ first' = t
    /\ broken' = TRUE
    /\ results' = Append(results, "err")
    /\ UNCHANGED out

(* A record of the frame's type, or the first one with its header         *)
(* written: w.first is (still) its type.                                   *)
StartRow(t) ==
    /\ first \in {"nil", t}
    /\ first = "nil" => ~broken
    /\ first' = t

(* Its values are formatted and encoder.Write(out) takes the row. *)
RowWritten(t) ==
    /\ StartRow(t)
    /\ ~broken
    /\ out' = out \o Header(t) \o <<Line("row", t)>>
    /\ results' = Append(results, "ok")
    /\ UNCHANGED broken

(* DecodeTime fails (return err), or the encoder does, keeping its error. *)
RowFails(t) ==
    /\ StartRow(t)
    /\ out' = out \o Header(t)
    /\ \E fmtOk \in BOOLEAN : broken' = (broken \/ fmtOk)
    /\ results' = Append(results, "err")

(* Write(rec): Flatten; on the first record set w.first and write the     *)
(* header, returning its error; a record of another type is               *)
(* ErrNotDataFrame; then format the values, returning DecodeTime's error, *)
(* and write the row, returning the encoder's error.                       *)
Write ==
    /\ closeResult = "open"
    /\ Len(results) < MaxWrites
    /\ \/ FlattenFails
       \/ \E t \in Types :
            NotDataFrame(t) \/ HeaderFails(t) \/ RowWritten(t) \/ RowFails(t)
    /\ UNCHANGED closeResult

(* Flush(): w.encoder.Flush() may fail, and the encoder's error is        *)
(* returned; it changes only broken.                                       *)
Flush ==
    /\ closeResult = "open"
    /\ \E ok \in BOOLEAN : broken' = ~Accepts(ok)
    /\ UNCHANGED <<first, out, results, closeResult>>

(* Close(): w.encoder.Flush(), then return w.writer.Close()'s error; the  *)
(* flush's error is not looked at.                                          *)
Close ==
    /\ closeResult = "open"
    /\ \E flushOk, closeOk \in BOOLEAN :
         /\ broken' = ~Accepts(flushOk)
         /\ closeResult' = IF closeOk THEN "ok" ELSE "err"
    /\ UNCHANGED <<first, out, results>>

(* Nothing is done with the writer once it is closed. *)
Closed == closeResult # "open" /\ UNCHANGED vars

Next == Write \/ Flush \/ Close \/ Closed

Spec == Init /\ [][Next]_vars

-----------------------------------------------------------------------------
(* The output is a data frame: one header, first, naming the columns of   *)
(* the first record, then rows of that type only, whatever failed or was  *)
(* rejected in between.                                                    *)
FrameOutput ==
    \A i \in 1..Len(out) :
        out[i] = IF i = 1 THEN Line("hdr", first) ELSE Line("row", first)
=============================================================================
