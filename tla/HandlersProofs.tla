--------------------------- MODULE HandlersProofs ---------------------------
(***************************************************************************)
(* Proofs about the handlers of service/handlers.go: every state is well   *)
(* typed, and a handler publishes an event only after a request that       *)
(* succeeded.                                                              *)
(***************************************************************************)
EXTENDS Handlers, SequenceTheorems, TLAPS

(* The steps a handler's body is made of. *)
Steps == {"check", "check_nr", "snapshot", "wait", "respond", "event",
    "stream"}

(* No step of p publishes an event. *)
NoEvent(p) == \A j \in 1..Len(p) : p[j] # "event"

(* What every handler's code has in common, read off its step sequences:  *)
(* it has a statement; c.publishEvent is its last one; and a handler with *)
(* a w.Error that does not return (handleIndexRulesDelete, handleEvents)  *)
(* publishes no event.                                                     *)
WellFormed(p) ==
    /\ p \in Seq(Steps)
    /\ Len(p) >= 1
    /\ \A j \in 1..Len(p) : p[j] = "event" => j = Len(p)
    /\ (\E j \in 1..Len(p) : p[j] \in {"check_nr", "stream"}) => NoEvent(p)

(* Some status written is an error. *)
HasError(w) == \E i \in 1..Len(w) : w[i] = "error"

(* What makes EventOnlyOnSuccess inductive: an event ends the handler; an *)
(* error written marks the request failed; and a failed request that is   *)
(* still running has no event ahead of it, since only the handlers whose  *)
(* w.Error does not return go on after a failure.                          *)
IInv ==
    /\ TypeOK
    /\ published => returned
    /\ HasError(writes) => failed
    /\ failed /\ ~returned => NoEvent(path)
    /\ EventOnlyOnSuccess

(* Every branch of every handler, as its code is written, is well formed. *)
(* The provers see a handler's branches only as the sequences they are,   *)
(* so step <1>2 lists them.                                               *)
LEMMA PathsWellFormed ==
    ASSUME NEW h \in DOMAIN Paths, NEW p \in Paths[h]
    PROVE  WellFormed(p)
<1>0. h \in {"QueryStatus", "BranchGet", "PoolStats", "PoolPost", "PoolPut",
    "BranchPost", "RevertPost", "BranchMerge", "PoolDelete", "BranchDelete",
    "BranchLoad", "Compact", "Delete", "IndexRulesPost", "IndexRulesDelete",
    "IndexApply", "IndexUpdate", "Vacuum", "VectorPost", "VectorDelete",
    "AuthIdentityGet", "AuthMethodGet", "Events"}
    BY DEF Paths
<1>1. p \in handleQueryStatus
          \cup handleBranchGet \cup handlePoolStats \cup handlePoolPost
          \cup handlePoolPut \cup handleBranchPost \cup handleRevertPost
          \cup handleBranchMerge \cup handlePoolDelete
          \cup handleBranchDelete \cup handleBranchLoad \cup handleCompact
          \cup handleDelete \cup handleIndexRulesPost
          \cup handleIndexRulesDelete \cup handleIndexApply
          \cup handleIndexUpdate \cup handleVacuum \cup handleVectorPost
          \cup handleVectorDelete \cup handleAuthIdentityGet
          \cup handleAuthMethodGet \cup handleEvents
    BY <1>0 DEF Paths
<1>2. \/ p = <<"check", "check", "wait", "respond">>
      \/ p = <<"check", "check", "check", "respond">>
      \/ p = <<"check", "check", "check", "snapshot", "check", "respond">>
      \/ p = <<"check", "check", "check", "respond", "event">>
      \/ p = <<"check", "check", "check", "check", "event">>
      \/ p = <<"check", "check", "check", "check", "check", "respond",
          "event">>
      \/ p = <<"check", "check", "respond", "event">>
      \/ p = <<"check", "check", "check", "check", "check", "check", "check",
          "check", "respond", "event">>
      \/ p = <<"check", "check", "check", "check", "check", "check", "check",
          "check", "check", "check", "check", "respond", "event">>
      \/ p = <<"check", "check", "check", "check", "check", "check", "respond",
          "event">>
      \/ p = <<"check", "check", "check", "check", "check", "check", "check",
          "respond", "event">>
      \/ p = <<"check", "check", "respond">>
      \/ p = <<"check", "check_nr", "check", "respond">>
      \/ p = <<"check", "check", "check", "check", "respond", "event">>
      \/ p = <<"check", "check", "check", "check", "respond">>
      \/ p = <<"check", "check", "check", "check", "check", "respond">>
      \/ p = <<"respond">>
      \/ p = <<"check_nr", "respond", "stream", "stream">>
    BY <1>1, Zenon DEF handleQueryStatus, handleBranchGet, handlePoolStats,
       handlePoolPost, handlePoolPut, handleBranchPost, handleRevertPost,
       handleBranchMerge, handlePoolDelete, handleBranchDelete,
       handleBranchLoad, handleCompact, handleDelete, handleIndexRulesPost,
       handleIndexRulesDelete, handleIndexApply, handleIndexUpdate,
       handleVacuum, handleVectorPost, handleVectorDelete,
       handleAuthIdentityGet, handleAuthMethodGet, handleEvents
<1>3. CASE p = <<"check", "check", "wait", "respond">>
    BY <1>3 DEF WellFormed, NoEvent, Steps
<1>4. CASE p = <<"check", "check", "check", "respond">>
    BY <1>4 DEF WellFormed, NoEvent, Steps
<1>5. CASE p = <<"check", "check", "check", "snapshot", "check", "respond">>
    BY <1>5 DEF WellFormed, NoEvent, Steps
<1>6. CASE p = <<"check", "check", "check", "respond", "event">>
    BY <1>6 DEF WellFormed, NoEvent, Steps
<1>7. CASE p = <<"check", "check", "check", "check", "event">>
    BY <1>7 DEF WellFormed, NoEvent, Steps
<1>8. CASE p = <<"check", "check", "check", "check", "check", "respond",
    "event">>
    BY <1>8 DEF WellFormed, NoEvent, Steps
<1>9. CASE p = <<"check", "check", "respond", "event">>
    BY <1>9 DEF WellFormed, NoEvent, Steps
<1>10. CASE p = <<"check", "check", "check", "check", "check", "check",
    "check", "check", "respond", "event">>
    BY <1>10 DEF WellFormed, NoEvent, Steps
<1>11. CASE p = <<"check", "check", "check", "check", "check", "check",
    "check", "check", "check", "check", "check", "respond", "event">>
    BY <1>11 DEF WellFormed, NoEvent, Steps
<1>12. CASE p = <<"check", "check", "check", "check", "check", "check",
    "respond", "event">>
    BY <1>12 DEF WellFormed, NoEvent, Steps
<1>13. CASE p = <<"check", "check", "check", "check", "check", "check",
    "check", "respond", "event">>
    BY <1>13 DEF WellFormed, NoEvent, Steps
<1>14. CASE p = <<"check", "check", "respond">>
    BY <1>14 DEF WellFormed, NoEvent, Steps
<1>15. CASE p = <<"check", "check_nr", "check", "respond">>
    BY <1>15 DEF WellFormed, NoEvent, Steps
<1>16. CASE p = <<"check", "check", "check", "check", "respond", "event">>
    BY <1>16 DEF WellFormed, NoEvent, Steps
<1>17. CASE p = <<"check", "check", "check", "check", "respond">>
    BY <1>17 DEF WellFormed, NoEvent, Steps
<1>18. CASE p = <<"check", "check", "check", "check", "check", "respond">>
    BY <1>18 DEF WellFormed, NoEvent, Steps
<1>19. CASE p = <<"respond">>
    BY <1>19 DEF WellFormed, NoEvent, Steps
<1>20. CASE p = <<"check_nr", "respond", "stream", "stream">>
    BY <1>20 DEF WellFormed, NoEvent, Steps
<1> QED
    BY <1>2, <1>3, <1>4, <1>5, <1>6, <1>7, <1>8, <1>9, <1>10, <1>11, <1>12,
       <1>13, <1>14, <1>15, <1>16, <1>17, <1>18, <1>19, <1>20

(* The branch a request takes is one its handler has. *)
LEMMA PathOfHandler == TypeOK => WellFormed(path)
BY PathsWellFormed, HandlersAssumption DEF TypeOK

(* Appending a status adds an error exactly when the status is one. *)
LEMMA AppendError ==
    ASSUME NEW S, NEW w \in Seq(S), NEW x \in S
    PROVE  HasError(Append(w, x)) <=> HasError(w) \/ x = "error"
<1>1. /\ Len(Append(w, x)) = Len(w) + 1
      /\ Append(w, x)[Len(w) + 1] = x
      /\ \A i \in 1..Len(w) : Append(w, x)[i] = w[i]
    BY AppendProperties
<1> QED
    BY <1>1 DEF HasError

LEMMA InitIInv == Init => IInv
<1> SUFFICES ASSUME Init PROVE IInv
    OBVIOUS
<1>1. WellFormed(path)
    BY PathsWellFormed, HandlersAssumption DEF Init
<1>2. TypeOK
    <2>1. pos \in 1..Len(path)
        BY <1>1 DEF Init, WellFormed
    <2>2. writes \in Seq({"ok", "error"})
        BY EmptySeq DEF Init
    <2> QED
        BY <2>1, <2>2 DEF Init, TypeOK
<1>3. ~HasError(writes)
    BY DEF Init, HasError
<1> QED
    BY <1>2, <1>3 DEF Init, IInv, EventOnlyOnSuccess

(* Continue and Stop keep the handler on a statement of its branch. *)
LEMMA ContinueType ==
    ASSUME TypeOK, WellFormed(path), Continue \/ Stop
    PROVE  pos' \in 1..Len(path) /\ returned' \in BOOLEAN
<1>1. Len(path) \in Nat /\ pos \in 1..Len(path)
    BY DEF TypeOK, WellFormed
<1>2. CASE Continue
    BY <1>1, <1>2 DEF Continue
<1>3. CASE Stop
    BY <1>1, <1>3 DEF Stop
<1> QED
    BY <1>2, <1>3

(* A handler that has not returned has published nothing. *)
LEMMA RunningUnpublished == IInv /\ ~returned => ~published
BY DEF IInv

(* A failure written by w.Error, with or without the return. *)
LEMMA FailureIInv ==
    ASSUME IInv, ~returned,
           writes' = Append(writes, "error"), failed' = TRUE,
           UNCHANGED <<handler, path, published>>,
           pos' \in 1..Len(path), returned' \in BOOLEAN,
           returned' \/ NoEvent(path)
    PROVE  IInv'
<1>1. writes' \in Seq({"ok", "error"})
    BY AppendProperties DEF IInv, TypeOK
<1>2. ~published'
    BY RunningUnpublished
<1> QED
    BY <1>1, <1>2 DEF IInv, TypeOK, EventOnlyOnSuccess

(* A step that neither writes nor fails nor publishes. *)
LEMMA QuietIInv ==
    ASSUME IInv, ~returned,
           UNCHANGED <<handler, path, writes, published, failed>>,
           pos' \in 1..Len(path), returned' \in BOOLEAN
    PROVE  IInv'
<1>1. ~published'
    BY RunningUnpublished
<1> QED
    BY <1>1 DEF IInv, TypeOK, EventOnlyOnSuccess, HasError

(* Writing a success on a branch that has not failed, or that has failed *)
(* and publishes nothing.                                                *)
LEMMA SuccessIInv ==
    ASSUME IInv, ~returned,
           writes' = Append(writes, "ok"),
           UNCHANGED <<handler, path, published, failed>>,
           pos' \in 1..Len(path), returned' \in BOOLEAN
    PROVE  IInv'
<1>1. writes' \in Seq({"ok", "error"})
    BY AppendProperties DEF IInv, TypeOK
<1>2. HasError(writes') <=> HasError(writes)
    BY AppendError DEF IInv, TypeOK
<1>3. ~published'
    BY RunningUnpublished
<1> QED
    BY <1>1, <1>2, <1>3 DEF IInv, TypeOK, EventOnlyOnSuccess

(* What every step of a running handler may use. *)
LEMMA Running ==
    ASSUME IInv, NEW k, At(k)
    PROVE  TypeOK /\ WellFormed(path) /\ ~returned /\ path[pos] = k
BY PathOfHandler DEF IInv, At

(* A step whose branch has a w.Error that does not return publishes no  *)
(* event.                                                                 *)
LEMMA NoReturnNoEvent ==
    ASSUME IInv, NEW k \in {"check_nr", "stream"}, At(k)
    PROVE  NoEvent(path)
BY Running DEF TypeOK, WellFormed

LEMMA CheckIInv == IInv /\ Check => IInv'
<1> SUFFICES ASSUME IInv, Check PROVE IInv'
    OBVIOUS
<1>1. TypeOK /\ WellFormed(path) /\ ~returned
    BY Running DEF Check
<1>2. CASE Continue /\ UNCHANGED <<writes, failed>>
    BY <1>1, <1>2, QuietIInv, ContinueType DEF Check
<1>3. CASE Fail
    BY <1>1, <1>3, FailureIInv, ContinueType DEF Check, Fail, Stop
<1> QED
    BY <1>2, <1>3 DEF Check

LEMMA CheckNoReturnIInv == IInv /\ CheckNoReturn => IInv'
<1> SUFFICES ASSUME IInv, CheckNoReturn PROVE IInv'
    OBVIOUS
<1>1. TypeOK /\ WellFormed(path) /\ ~returned /\ NoEvent(path)
    BY Running, NoReturnNoEvent DEF CheckNoReturn
<1>2. pos' \in 1..Len(path) /\ returned' \in BOOLEAN
    BY <1>1, ContinueType DEF CheckNoReturn
<1>3. CASE UNCHANGED <<writes, failed>>
    BY <1>1, <1>2, <1>3, QuietIInv DEF CheckNoReturn
<1>4. CASE writes' = Append(writes, "error") /\ failed' = TRUE
    BY <1>1, <1>2, <1>4, FailureIInv DEF CheckNoReturn
<1> QED
    BY <1>3, <1>4 DEF CheckNoReturn

LEMMA SnapshotIInv == IInv /\ Snapshot => IInv'
<1> SUFFICES ASSUME IInv, Snapshot PROVE IInv'
    OBVIOUS
<1>1. TypeOK /\ WellFormed(path) /\ ~returned
    BY Running DEF Snapshot
<1>2. CASE Continue /\ UNCHANGED <<writes, failed>>
    BY <1>1, <1>2, QuietIInv, ContinueType DEF Snapshot
<1>3. CASE writes' = Append(writes, "ok") /\ Stop /\ UNCHANGED failed
    BY <1>1, <1>3, SuccessIInv, ContinueType DEF Snapshot
<1>4. CASE Fail
    BY <1>1, <1>4, FailureIInv, ContinueType DEF Snapshot, Fail, Stop
<1> QED
    BY <1>2, <1>3, <1>4 DEF Snapshot

LEMMA WaitIInv == IInv /\ Wait => IInv'
BY Running, QuietIInv, ContinueType DEF Wait

LEMMA RespondIInv == IInv /\ Respond => IInv'
BY Running, SuccessIInv, ContinueType DEF Respond

(* c.publishEvent is a handler's last statement, reached only by a      *)
(* request none of whose checks failed.                                  *)
LEMMA PublishIInv == IInv /\ Publish => IInv'
<1> SUFFICES ASSUME IInv, Publish PROVE IInv'
    OBVIOUS
<1>1. TypeOK /\ WellFormed(path) /\ ~returned /\ path[pos] = "event"
    BY Running DEF Publish
<1>2. pos = Len(path)
    BY <1>1 DEF TypeOK, WellFormed
<1>3. returned'
    BY <1>2, Zenon DEF Publish, Continue
<1>4. pos' \in 1..Len(path)
    BY <1>1, ContinueType DEF Publish
<1>5. ~failed
    BY <1>1 DEF IInv, NoEvent, TypeOK
<1>6. \A i \in 1..Len(writes) : writes[i] = "ok"
    BY <1>1, <1>5 DEF IInv, HasError, TypeOK
<1> QED
    BY <1>1, <1>3, <1>4, <1>5, <1>6
       DEF Publish, IInv, TypeOK, EventOnlyOnSuccess

LEMMA StreamIInv == IInv /\ Stream => IInv'
<1> SUFFICES ASSUME IInv, Stream PROVE IInv'
    OBVIOUS
<1>1. TypeOK /\ WellFormed(path) /\ ~returned /\ NoEvent(path)
    BY Running, NoReturnNoEvent DEF Stream
<1>2. CASE Continue /\ UNCHANGED <<writes, failed>>
    BY <1>1, <1>2, QuietIInv, ContinueType DEF Stream
<1>3. CASE writes' = Append(writes, "error") /\ failed' = TRUE /\ Continue
    BY <1>1, <1>3, FailureIInv, ContinueType DEF Stream
<1>4. CASE Stop /\ UNCHANGED <<writes, failed>>
    BY <1>1, <1>4, QuietIInv, ContinueType DEF Stream
<1> QED
    BY <1>2, <1>3, <1>4 DEF Stream

LEMMA NextIInv == IInv /\ [Next]_vars => IInv'
<1> SUFFICES ASSUME IInv, [Next]_vars PROVE IInv'
    OBVIOUS
<1>1. CASE UNCHANGED vars
    BY <1>1 DEF vars, IInv, TypeOK, EventOnlyOnSuccess, HasError, NoEvent
<1>2. CASE Answered
    BY <1>1, <1>2 DEF Answered
<1> QED
    BY <1>1, <1>2, CheckIInv, CheckNoReturnIInv, SnapshotIInv, WaitIInv,
       RespondIInv, PublishIInv, StreamIInv DEF Next

(* Every state a handler reaches is well typed: it stays on a statement  *)
(* of the branch its code takes, and records only successes and errors.  *)
THEOREM TypeCorrect == Spec => []TypeOK
<1>1. IInv => TypeOK
    BY DEF IInv
<1> QED
    BY <1>1, InitIInv, NextIInv, PTL DEF Spec

(* Whatever branch a request takes and whichever check, lake call, write *)
(* or stream turn fails, a handler of handlers.go publishes its event    *)
(* only when nothing failed and every status it wrote was a success: the *)
(* two handlers whose w.Error does not return publish nothing.           *)
THEOREM EventsFollowSuccess == Spec => []EventOnlyOnSuccess
<1>1. IInv => EventOnlyOnSuccess
    BY DEF IInv
<1> QED
    BY <1>1, InitIInv, NextIInv, PTL DEF Spec
=============================================================================
