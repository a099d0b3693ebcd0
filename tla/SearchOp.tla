------------------------------ MODULE SearchOp ------------------------------
(***************************************************************************)
(* The search driver (service/search/search.go).  NewSearchOp validates a *)
(* request; Run sends TaskStart, hands the driver to driver.MultiRun, and *)
(* in a deferred function reads the named result err: nil ends the task,  *)
(* an error aborts it, and abort treats journal.ErrEmpty as an end.        *)
(*                                                                         *)
(* MultiRun is not in this repository.  It is the environment: it calls   *)
(* the driver's Warn, Write, Stats and ChannelEnd in any order, and        *)
(* returns nil, ErrEmpty or another error; a callback whose send on the    *)
(* output fails makes it return that error.  A message is in sent once the *)
(* output took it; a send may fail, and start's, end's and abort's errors  *)
(* are not looked at.                                                      *)
(***************************************************************************)
EXTENDS Integers, Sequences

CONSTANTS
    MaxCallbacks    \* how many driver callbacks MultiRun makes at most

(* The driver callbacks and the messages they send. *)
Callbacks == {"warn", "batch", "stats", "chend"}

(* TaskEnd without an error (end) and with one (abort). *)
TaskEnds == {"end", "abort"}

VARIABLES
    pc,         \* "new", "rejected", "start", "multirun", "deferred", "returned"
    sent,       \* the messages the output took
    err         \* Run's named result: "none" until MultiRun returns

vars == <<pc, sent, err>>

TypeOK ==
    /\ pc \in {"new", "rejected", "start", "multirun", "deferred", "returned"}
    /\ sent \in Seq(Callbacks \cup TaskEnds \cup {"start"})
    /\ err \in {"none", "nil", "empty", "err"}

Init ==
    /\ pc = "new"
    /\ sent = <<>>
    /\ err = "none"

(* NewSearchOp(req) with UnpackQuery: a negative span start or duration, *)
(* a forward or other direction than -1, or a proc that does not unpack   *)
(* is rejected.                                                            *)
NewSearchOp ==
    /\ pc = "new"
    /\ \E ts, dur \in {-1, 0}, dir \in {-1, 0, 1}, procOk \in BOOLEAN :
         pc' = IF ts >= 0 /\ dur >= 0 /\ dir = -1 /\ procOk THEN "start" ELSE "rejected"
    /\ UNCHANGED <<sent, err>>

(* Send(m, ok): the output takes m when its send succeeds. *)
Send(m, ok) == sent' = IF ok THEN Append(sent, m) ELSE sent

(* Mutant.  d.end called at once instead of deferred, after d.start: *)
StartAndEnd ==
    /\ pc = "start"
    /\ sent' = sent \o <<"start", "end">>
    /\ pc' = "multirun"
    /\ UNCHANGED err

(* Run: d.start(0), its error dropped; the defer is registered. *)
Start ==
    /\ pc = "start"
    /\ \E ok \in BOOLEAN : Send("start", ok)
    /\ pc' = "multirun"
    /\ UNCHANGED err

(* Warn, Write, Stats or ChannelEnd called by MultiRun; a failed send is  *)
(* returned to MultiRun, which returns it.                                 *)
Callback ==
    /\ pc = "multirun"
    /\ Len(sent) < MaxCallbacks
    /\ \E m \in Callbacks, ok \in BOOLEAN :
         /\ Send(m, ok)
         /\ IF ok THEN UNCHANGED <<pc, err>>
                  ELSE pc' = "deferred" /\ err' = "err"

(* return driver.MultiRun(...): err is set before the deferred call runs. *)
MultiRunReturns ==
    /\ pc = "multirun"
    /\ \E r \in {"nil", "empty", "err"} : err' = r
    /\ pc' = "deferred"
    /\ UNCHANGED sent

(* The deferred function: d.abort(0, err) when err is not nil, sending   *)
(* TaskEnd with the error, or d.end(0) for ErrEmpty; d.end(0) when nil.   *)
(* Their errors are dropped; Run returns err.                              *)
Deferred ==
    /\ pc = "deferred"
    /\ \E ok \in BOOLEAN : Send(IF err = "err" THEN "abort" ELSE "end", ok)
    /\ pc' = "returned"
    /\ UNCHANGED err

(* Run has returned, or the request was rejected. *)
Finished == pc \in {"rejected", "returned"} /\ UNCHANGED vars

Next ==
    \/ NewSearchOp \/ Start \/ Callback \/ MultiRunReturns \/ Deferred
    \/ Finished

Spec == Init /\ [][Next]_vars

-----------------------------------------------------------------------------
(* The client sees at most one TaskEnd, and nothing after it: no callback *)
(* of MultiRun reaches the output once the task has ended.                 *)
TaskEndLast ==
    \A i \in 1..Len(sent) : sent[i] \in TaskEnds => i = Len(sent)
=============================================================================
