--------------------------- MODULE SearchOpProofs ---------------------------
(***************************************************************************)
(* Proofs about the search driver: the client's stream has at most one    *)
(* TaskEnd, and it comes last, for every bound on MultiRun's callbacks.   *)
(***************************************************************************)
EXTENDS SearchOp, TLAPS

(* Before Run returns no TaskEnd has reached the output; err is set       *)
(* exactly when MultiRun has returned.                                     *)
IInv ==
    /\ TypeOK
    /\ pc # "returned" => \A i \in 1..Len(sent) : sent[i] \notin TaskEnds
    /\ pc \in {"new", "rejected", "start", "multirun"} => err = "none"
    /\ pc \in {"deferred", "returned"} => err \in {"nil", "empty", "err"}
    /\ TaskEndLast

LEMMA InitIInv == Init => IInv
BY DEF Init, IInv, TypeOK, TaskEndLast

LEMMA NextIInv == IInv /\ [Next]_vars => IInv'
<1> SUFFICES ASSUME IInv, [Next]_vars PROVE IInv'
    OBVIOUS
<1> USE DEF IInv, TypeOK, TaskEndLast, TaskEnds, Callbacks
<1>1. CASE NewSearchOp
    BY <1>1 DEF NewSearchOp
<1>2. CASE Start
    BY <1>2 DEF Start, Send
<1>3. CASE Callback
    BY <1>3 DEF Callback, Send
<1>4. CASE MultiRunReturns
    BY <1>4 DEF MultiRunReturns
<1>5. CASE Deferred
    BY <1>5 DEF Deferred, Send
<1>6. CASE Finished
    BY <1>6 DEF Finished, vars
<1>7. CASE UNCHANGED vars
    BY <1>7 DEF vars
<1> QED
    BY <1>1, <1>2, <1>3, <1>4, <1>5, <1>6, <1>7 DEF Next

(* Run never lets a callback's message reach the client after the        *)
(* TaskEnd its deferred function sends, and sends one TaskEnd at most.     *)
THEOREM OneTaskEndLast == Spec => []TaskEndLast
<1>1. IInv => TaskEndLast
    BY DEF IInv
<1> QED
    BY <1>1, InitIInv, NextIInv, PTL DEF Spec

=============================================================================
