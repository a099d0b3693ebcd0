------------------------------ MODULE Handlers ------------------------------
(***************************************************************************)
(* The request/response protocol of the service's HTTP handlers           *)
(* (service/handlers.go).  Each handler is a fixed sequence of steps, one *)
(* per check, lake call, response write and event publication in its body *)
(* (a handler that branches on its request has one sequence per branch):   *)
(*                                                                         *)
(*   "check"     a request helper (r.Unmarshal, r.StringFromPath, ...), a  *)
(*               local check, or a lake call: on failure the handler (or   *)
(*               the helper) calls w.Error and returns;                    *)
(*   "check_nr"  the same, with w.Error but no return;                     *)
(*   "snapshot"  Snapshot in handlePoolStats: journal.ErrEmpty answers 204 *)
(*               and returns, another error w.Error and returns;           *)
(*   "wait"      q.wg.Wait in handleQueryStatus;                           *)
(*   "respond"   w.Respond, w.WriteHeader or w.Marshal of a success;       *)
(*   "event"     c.publishEvent;                                           *)
(*   "stream"    one turn of handleEvents' loop: an event is written (on   *)
(*               failure w.Error and continue) or the request is done.     *)
(*                                                                         *)
(* One request is followed from the handler's first line to its return.   *)
(* Each write of a status is recorded; a handler that writes none answers *)
(* 200 when it returns, as net/http does.                                 *)
(***************************************************************************)
EXTENDS Naturals, Sequences

CONSTANTS
    Routed      \* the handlers requests may reach

(* The step sequences of each handler, in the order of its code. *)
handleQueryStatus == {<<"check", "check", "wait", "respond">>}
handleBranchGet == {<<"check", "check", "check", "respond">>}
handlePoolStats == {<<"check", "check", "check", "snapshot", "check", "respond">>}
handlePoolPost == {<<"check", "check", "check", "respond", "event">>}
handlePoolPut == {<<"check", "check", "check", "respond", "event">>}
handleBranchPost == {<<"check", "check", "check", "check", "event">>}
handleRevertPost == {<<"check", "check", "check", "check", "check", "respond", "event">>}
handleBranchMerge == {<<"check", "check", "check", "check", "check", "respond", "event">>}
handlePoolDelete == {<<"check", "check", "respond", "event">>}
handleBranchDelete == {<<"check", "check", "check", "respond", "event">>}
handleBranchLoad ==
    {<<"check", "check", "check", "check", "check", "check", "check", "check",
       "respond", "event">>,
     <<"check", "check", "check", "check", "check", "check", "check", "check",
       "check", "check", "check", "respond", "event">>}
handleCompact == {<<"check", "check", "check", "check", "check", "check", "respond", "event">>}
handleDelete ==
    {<<"check", "check", "check", "check", "check", "check", "check", "respond", "event">>,
     <<"check", "check", "check", "check", "check", "check", "respond", "event">>}
handleIndexRulesPost == {<<"check", "check", "respond">>}
handleIndexRulesDelete == {<<"check", "check_nr", "check", "respond">>}
handleIndexApply == {<<"check", "check", "check", "check", "check", "respond", "event">>}
handleIndexUpdate == {<<"check", "check", "check", "check", "respond", "event">>}
handleVacuum == {<<"check", "check", "check", "check", "respond">>}
handleVectorPost == {<<"check", "check", "check", "check", "check", "respond">>}
handleVectorDelete == {<<"check", "check", "check", "check", "check", "respond">>}
handleAuthIdentityGet == {<<"respond">>}
handleAuthMethodGet == {<<"respond">>}
(* handleEvents' loop is followed for two turns. *)
handleEvents == {<<"check_nr", "respond", "stream", "stream">>}

Paths == [
    QueryStatus |-> handleQueryStatus, BranchGet |-> handleBranchGet,
    PoolStats |-> handlePoolStats, PoolPost |-> handlePoolPost,
    PoolPut |-> handlePoolPut, BranchPost |-> handleBranchPost,
    RevertPost |-> handleRevertPost, BranchMerge |-> handleBranchMerge,
    PoolDelete |-> handlePoolDelete, BranchDelete |-> handleBranchDelete,
    BranchLoad |-> handleBranchLoad, Compact |-> handleCompact,
    Delete |-> handleDelete, IndexRulesPost |-> handleIndexRulesPost,
    IndexRulesDelete |-> handleIndexRulesDelete, IndexApply |-> handleIndexApply,
    IndexUpdate |-> handleIndexUpdate, Vacuum |-> handleVacuum,
    VectorPost |-> handleVectorPost, VectorDelete |-> handleVectorDelete,
    AuthIdentityGet |-> handleAuthIdentityGet, AuthMethodGet |-> handleAuthMethodGet,
    Events |-> handleEvents]

ASSUME HandlersAssumption == Routed \subseteq DOMAIN Paths

VARIABLES
    handler,    \* the handler serving the request
    path,       \* the branch of its code the request takes
    pos,        \* the step it is at
    writes,     \* the statuses written, in order
    published,  \* whether it published an event
    failed,     \* whether a check or a lake call failed
    returned    \* whether the handler has returned

vars == <<handler, path, pos, writes, published, failed, returned>>

TypeOK ==
    /\ handler \in Routed
    /\ path \in Paths[handler]
    /\ pos \in 1..Len(path)
    /\ writes \in Seq({"ok", "error"})
    /\ published \in BOOLEAN
    /\ failed \in BOOLEAN
    /\ returned \in BOOLEAN

Init ==
    /\ handler \in Routed
    /\ path \in Paths[handler]
    /\ pos = 1
    /\ writes = <<>>
    /\ published = FALSE
    /\ failed = FALSE
    /\ returned = FALSE

(* The step the handler is at. *)
At(k) == ~returned /\ path[pos] = k

(* Go on to the next statement; after the last one the handler returns. *)
Continue ==
    /\ pos' = IF pos < Len(path) THEN pos + 1 ELSE pos
    /\ returned' = (pos = Len(path))

Stop == returned' = TRUE /\ UNCHANGED pos

(* w.Error(err) and return. *)
Fail ==
    /\ writes' = Append(writes, "error")
    /\ failed' = TRUE
    /\ Stop

-----------------------------------------------------------------------------
(* Mutant.  A check that writes the error and goes on: *)
CheckNoStop ==
    /\ At("check")
    /\ \/ Continue /\ UNCHANGED <<writes, failed>>
       \/ writes' = Append(writes, "error") /\ failed' = TRUE /\ Continue
    /\ UNCHANGED <<handler, path, published>>

(* if err != nil { w.Error(err); return } *)
Check ==
    /\ At("check")
    /\ \/ Continue /\ UNCHANGED <<writes, failed>>
       \/ Fail
    /\ UNCHANGED <<handler, path, published>>

(* if err != nil { w.Error(err) } with the return missing. *)
CheckNoReturn ==
    /\ At("check_nr")
    /\ \/ UNCHANGED <<writes, failed>>
       \/ writes' = Append(writes, "error") /\ failed' = TRUE
    /\ Continue
    /\ UNCHANGED <<handler, path, published>>

(* branch.Pool().Snapshot: ErrEmpty answers 204 No Content and returns. *)
Snapshot ==
    /\ At("snapshot")
    /\ \/ Continue /\ UNCHANGED <<writes, failed>>
       \/ writes' = Append(writes, "ok") /\ Stop /\ UNCHANGED failed
       \/ Fail
    /\ UNCHANGED <<handler, path, published>>

(* q.wg.Wait(): the query's status is done. *)
Wait ==
    /\ At("wait")
    /\ Continue
    /\ UNCHANGED <<handler, path, writes, published, failed>>

(* w.Respond(http.StatusOK, ...), w.WriteHeader(...), w.Marshal(...). *)
Respond ==
    /\ At("respond")
    /\ writes' = Append(writes, "ok")
    /\ Continue
    /\ UNCHANGED <<handler, path, published, failed>>

(* c.publishEvent(w, ...). *)
Publish ==
    /\ At("event")
    /\ published' = TRUE
    /\ Continue
    /\ UNCHANGED <<handler, path, writes, failed>>

(* handleEvents' select: an event from the subscription is written, and a *)
(* failed write calls w.Error and continues; or r.Context().Done() and    *)
(* the handler unsubscribes and returns.                                   *)
Stream ==
    /\ At("stream")
    /\ \/ Continue /\ UNCHANGED <<writes, failed>>
       \/ writes' = Append(writes, "error") /\ failed' = TRUE /\ Continue
       \/ Stop /\ UNCHANGED <<writes, failed>>
    /\ UNCHANGED <<handler, path, published>>

(* The request is over. *)
Answered == returned /\ UNCHANGED vars

Next ==
    \/ Check \/ CheckNoReturn \/ Snapshot \/ Wait \/ Respond \/ Publish
    \/ Stream \/ Answered

Spec == Init /\ [][Next]_vars

-----------------------------------------------------------------------------
(* A handler writes at most one status: after w.Error it writes nothing   *)
(* else (net/http ignores a second WriteHeader and appends the second     *)
(* body to the first).                                                     *)
OneResponse == Len(writes) <= 1

(* An event announces only a change that happened: a handler publishes    *)
(* only when none of its checks or lake calls failed and every status it  *)
(* wrote was a success.                                                    *)
EventOnlyOnSuccess ==
    published => ~failed /\ \A i \in 1..Len(writes) : writes[i] = "ok"
=============================================================================
