------------------------------ MODULE Splitter ------------------------------
(***************************************************************************)
(* The scalar/vector splitter (runtime/.../splitter): one parent puller of *)
(* data objects is split into two pullers, one for the objects that have a *)
(* vector companion in the snapshot and one for the others.  The first     *)
(* Pull of either puller runs the splitter loop through sync.Once; the     *)
(* loop hands each batch to its puller over an unbuffered channel.         *)
(*                                                                         *)
(* Goroutines: the two consumers, one per puller (each also runs the loop  *)
(* when it is the first to enter once.Do), the goroutine started by close, *)
(* and the draining goroutine a Pull(true) starts.  Channels follow Go:    *)
(* a send and a receive on an unbuffered channel meet in one step, a       *)
(* receive on a closed channel returns the zero value at once, and a send  *)
(* on a closed channel or a second close panics.                           *)
(***************************************************************************)
EXTENDS Naturals, Sequences

CONSTANTS
    Streams     \* the object streams the parent puller may produce

(* The two pullers, named after their channels. *)
Pullers == {"scalar", "vector"}

(* A parent batch: an object without a vector, one with a vector, or a    *)
(* batch the loop rejects (not one value, or not a data.Object).           *)
Items == {"scalar", "vector", "bad"}

VARIABLES
    stream,     \* what the parent puller yields, then end of stream
    pos,        \* how many batches the parent has yielded
    once,       \* sync.Once: "new", "running" or "done"
    runner,     \* the consumer running the loop inside once.Do
    rpc,        \* where the loop (run) is
    cur,        \* the batch the loop is sending
    pc,         \* where each consumer is
    want,       \* the done argument of each consumer's current Pull
    closed,     \* which of scalarCh, vectorCh and doneCh are closed
    closer,     \* the goroutine started by close(err)
    drain,      \* each puller's draining goroutine (for range p.ch)
    got,        \* the batches each consumer has received
    panicked    \* the process panicked

vars == <<stream, pos, once, runner, rpc, cur, pc, want, closed, closer,
          drain, got, panicked>>

Channels == Pullers \cup {"done"}

TypeOK ==
    /\ stream \in Streams
    /\ pos \in 0..Len(stream)
    /\ once \in {"new", "running", "done"}
    /\ runner \in Pullers \cup {"none"}
    /\ rpc \in {"none", "pull", "send", "defer_v", "defer_s", "defer_parent"}
    /\ cur \in Pullers \cup {"none"}
    /\ pc \in [Pullers -> {"idle", "once", "running", "close_done", "recv", "stopped"}]
    /\ want \in [Pullers -> BOOLEAN]
    /\ closed \in [Channels -> BOOLEAN]
    /\ closer \in {"none", "send_s", "send_v", "exit"}
    /\ drain \in [Pullers -> {"none", "recv", "exit"}]
    /\ got \in [Pullers -> Seq(Pullers)]
    /\ panicked \in BOOLEAN

(* New: both channels and doneCh fresh, nothing running yet. *)
Init ==
    /\ stream \in Streams
    /\ pos = 0
    /\ once = "new"
    /\ runner = "none"
    /\ rpc = "none"
    /\ cur = "none"
    /\ pc = [p \in Pullers |-> "idle"]
    /\ want = [p \in Pullers |-> FALSE]
    /\ closed = [ch \in Channels |-> FALSE]
    /\ closer = "none"
    /\ drain = [p \in Pullers |-> "none"]
    /\ got = [p \in Pullers |-> <<>>]
    /\ panicked = FALSE

(* A goroutine blocked in a receive on ch: the consumer of that puller or *)
(* its draining goroutine.                                                 *)
ConsumerReceiving(ch) == pc[ch] = "recv"
DrainReceiving(ch) == drain[ch] = "recv"

(* A panic ends the process: no goroutine takes another step. *)
Panic ==
    /\ panicked' = TRUE
    /\ UNCHANGED <<stream, pos, once, runner, rpc, cur, pc, want, closed,
                   closer, drain, got>>

-----------------------------------------------------------------------------
(* puller.Pull(done), up to once.Do. *)
PullStart(p) ==
    /\ ~panicked
    /\ pc[p] = "idle"
    /\ \E d \in BOOLEAN : want' = [want EXCEPT ![p] = d]
    /\ pc' = [pc EXCEPT ![p] = "once"]
    /\ UNCHANGED <<stream, pos, once, runner, rpc, cur, closed, closer,
                   drain, got, panicked>>

(* p.splitter.once.Do(p.splitter.run): the first caller runs the loop in  *)
(* its own goroutine; a caller that finds it running waits; once it has   *)
(* returned, Do returns at once.                                           *)
PullOnce(p) ==
    /\ ~panicked
    /\ pc[p] = "once"
    /\ once # "running"
    /\ \/ /\ once = "new"
          /\ once' = "running"
          /\ runner' = p
          /\ rpc' = "pull"
          /\ pc' = [pc EXCEPT ![p] = "running"]
       \/ /\ once = "done"
          /\ pc' = [pc EXCEPT ![p] = IF want[p] THEN "close_done" ELSE "recv"]
          /\ UNCHANGED <<once, runner, rpc>>
    /\ UNCHANGED <<stream, pos, cur, want, closed, closer, drain, got, panicked>>

(* Pull(true): close(doneCh), start the draining goroutine, return.       *)
PullDone(p) ==
    /\ ~panicked
    /\ pc[p] = "close_done"
    /\ \/ /\ closed["done"]
          /\ Panic
       \/ /\ ~closed["done"]
          /\ closed' = [closed EXCEPT !["done"] = TRUE]
          /\ drain' = [drain EXCEPT ![p] = "recv"]
          /\ pc' = [pc EXCEPT ![p] = "stopped"]
          /\ UNCHANGED <<stream, pos, once, runner, rpc, cur, want, closer,
                         got, panicked>>

(* result := <-p.ch on a closed channel: the zero Result, a nil batch,    *)
(* which the consumer takes for end of stream.  A receive of a value is   *)
(* part of the sender's step.                                              *)
PullRecvClosed(p) ==
    /\ ~panicked
    /\ pc[p] = "recv"
    /\ closed[p]
    /\ pc' = [pc EXCEPT ![p] = "stopped"]
    /\ UNCHANGED <<stream, pos, once, runner, rpc, cur, want, closed, closer,
                   drain, got, panicked>>

-----------------------------------------------------------------------------
(* The loop of run, in the runner's goroutine.  parent.Pull(false): a     *)
(* batch, or end of stream; end of stream and a rejected batch both call  *)
(* s.close and return, which starts the closer and runs the defers.        *)
RunPull ==
    /\ ~panicked
    /\ rpc = "pull"
    /\ \/ /\ pos < Len(stream)
          /\ stream[pos + 1] \in Pullers
          /\ cur' = stream[pos + 1]
          /\ rpc' = "send"
          /\ UNCHANGED closer
       \/ /\ pos < Len(stream) => stream[pos + 1] = "bad"
          /\ closer' = "send_s"
          /\ rpc' = "defer_v"
          /\ UNCHANGED cur
    /\ pos' = IF pos < Len(stream) THEN pos + 1 ELSE pos
    /\ UNCHANGED <<stream, once, runner, pc, want, closed, drain, got, panicked>>

(* select { case ch <- batch: ... case <-s.doneCh: s.close(nil); return }  *)
(* The send meets a goroutine receiving on ch: the consumer returns the   *)
(* batch from Pull, a draining goroutine drops it.                         *)
RunSend ==
    /\ ~panicked
    /\ rpc = "send"
    /\ \/ /\ ConsumerReceiving(cur)
          /\ got' = [got EXCEPT ![cur] = Append(@, cur)]
          /\ pc' = [pc EXCEPT ![cur] = "idle"]
          /\ rpc' = "pull"
          /\ UNCHANGED closer
       \/ /\ DrainReceiving(cur)
          /\ rpc' = "pull"
          /\ UNCHANGED <<got, pc, closer>>
       \/ /\ closed["done"]
          /\ closer' = "send_s"
          /\ rpc' = "defer_v"
          /\ UNCHANGED <<got, pc>>
    /\ UNCHANGED <<stream, pos, once, runner, cur, want, closed, drain, panicked>>

(* The defers of run, last deferred first: close(s.vectorCh),             *)
(* close(s.scalarCh), s.parent.Pull(true); then once.Do returns and the   *)
(* runner goes on with the rest of its Pull.                               *)
RunCloseVector ==
    /\ ~panicked
    /\ rpc = "defer_v"
    /\ closed' = [closed EXCEPT !["vector"] = TRUE]
    /\ rpc' = "defer_s"
    /\ UNCHANGED <<stream, pos, once, runner, cur, pc, want, closer, drain,
                   got, panicked>>

RunCloseScalar ==
    /\ ~panicked
    /\ rpc = "defer_s"
    /\ closed' = [closed EXCEPT !["scalar"] = TRUE]
    /\ rpc' = "defer_parent"
    /\ UNCHANGED <<stream, pos, once, runner, cur, pc, want, closer, drain,
                   got, panicked>>

RunReturn ==
    /\ ~panicked
    /\ rpc = "defer_parent"
    /\ once' = "done"
    /\ rpc' = "none"
    /\ pc' = [pc EXCEPT ![runner] = IF want[runner] THEN "close_done" ELSE "recv"]
    /\ UNCHANGED <<stream, pos, runner, cur, want, closed, closer, drain,
                   got, panicked>>

-----------------------------------------------------------------------------
(* The goroutine of s.close(err): s.scalarCh <- r, then s.vectorCh <- r.  *)
(* The Result carries the error and no batch, so a consumer receiving it  *)
(* returns from Pull with end of stream or the error.                      *)
CloserSend(ch, next) ==
    /\ ~panicked
    /\ \/ /\ closed[ch]
          /\ Panic
       \/ /\ ~closed[ch]
          /\ \/ /\ ConsumerReceiving(ch)
                /\ pc' = [pc EXCEPT ![ch] = "stopped"]
             \/ /\ DrainReceiving(ch)
                /\ UNCHANGED pc
          /\ closer' = next
          /\ UNCHANGED <<stream, pos, once, runner, rpc, cur, want, closed,
                         drain, got, panicked>>

CloserSendScalar == closer = "send_s" /\ CloserSend("scalar", "send_v")
CloserSendVector == closer = "send_v" /\ CloserSend("vector", "exit")

(* for range p.ch {}: a draining goroutine ends when its channel closes.  *)
DrainEnd(p) ==
    /\ ~panicked
    /\ drain[p] = "recv"
    /\ closed[p]
    /\ drain' = [drain EXCEPT ![p] = "exit"]
    /\ UNCHANGED <<stream, pos, once, runner, rpc, cur, pc, want, closed,
                   closer, got, panicked>>

-----------------------------------------------------------------------------
(* Every goroutine has finished: both consumers have their last Pull      *)
(* back and the closer and draining goroutines have exited.               *)
Finished ==
    /\ \A p \in Pullers : pc[p] = "stopped" /\ drain[p] # "recv"
    /\ closer \in {"none", "exit"}

Terminated == (Finished \/ panicked) /\ UNCHANGED vars

Next ==
    \/ \E p \in Pullers :
          PullStart(p) \/ PullOnce(p) \/ PullDone(p) \/ PullRecvClosed(p)
          \/ DrainEnd(p)
    \/ RunPull \/ RunSend \/ RunCloseVector \/ RunCloseScalar \/ RunReturn
    \/ CloserSendScalar \/ CloserSendVector
    \/ Terminated

(* Go's scheduler runs every runnable goroutine eventually. *)
Fairness ==
    /\ \A p \in Pullers : WF_vars(PullStart(p) \/ PullOnce(p) \/ PullDone(p)
                                  \/ PullRecvClosed(p) \/ DrainEnd(p))
    /\ WF_vars(RunPull \/ RunSend \/ RunCloseVector \/ RunCloseScalar \/ RunReturn)
    /\ WF_vars(CloserSendScalar \/ CloserSendVector)

Spec == Init /\ [][Next]_vars /\ Fairness

-----------------------------------------------------------------------------
(* The splitter never panics: no send on a closed channel and no second   *)
(* close of doneCh, whatever the parent yields and whichever puller the   *)
(* consumers call first.                                                   *)
NoPanic == ~panicked

(* Every Pull returns: a consumer that calls Pull eventually gets a batch, *)
(* end of stream or an error back (the zbuf.Puller contract).             *)
EveryPullReturns ==
    \A p \in Pullers : pc[p] = "once" ~> pc[p] \in {"idle", "stopped"}
=============================================================================
