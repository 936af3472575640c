---------------------------- MODULE TaskProjection ----------------------------
(***************************************************************************)
(* The reducer of a task's event stream (reduce_task of task_projection.rs)*)
(* and the queue decisions of queue.rs, as pure operators.                 *)
(*                                                                         *)
(* A projection holds the current run segment, the pending interaction and *)
(* the message queue.  Every event is an operator from projections to      *)
(* projections; an event the reducer refuses yields a projection whose run *)
(* is "refused", and every later event of the transaction keeps it so.     *)
(* A transaction that ends refused is rolled back.                         *)
(*                                                                         *)
(* Segments are numbered in the order they start and queue items carry the *)
(* order they were queued in (`at').  `reason' is the terminal reason of   *)
(* the current run, `ended' the run.completed events of the log and `by'   *)
(* the segment that consumed an item.                                      *)
(***************************************************************************)
EXTENDS Naturals, FiniteSets

CONSTANTS Items,       \* queue item identifiers
          QueueLimit,  \* MAX_ACTIVE_QUEUE_ITEMS
          MaxSegs      \* bound on the segments a task starts

ASSUME QueueLimitAssumption == QueueLimit \in Nat \ {0}
ASSUME MaxSegsAssumption == MaxSegs \in Nat \ {0}

Segs == 1..MaxSegs

ActiveStates == {"running", "waiting_permission", "waiting_input", "yielding"}
TerminalStates == {"completed", "failed", "interrupted"}
RunStates == {"none", "refused"} \cup ActiveStates \cup TerminalStates
Reasons == {"none", "completed", "failed", "superseded", "forced_interruption",
            "interrupted_by_restart", "cancelled"}
ItemStates == {"absent", "queued", "promoting", "consumed", "deleted"}

Projection ==
  [seg : 0..MaxSegs, run : RunStates, mode : {"none", "safe_point", "force_stop"},
   reason : Reasons, ended : [Segs -> Reasons], pending : {"none", "permission", "question"},
   item : [Items -> ItemStates], rev : [Items -> Nat], at : [Items -> Nat],
   by : [Items -> Nat], clock : Nat]

EmptyProjection ==
  [seg |-> 0, run |-> "none", mode |-> "none", reason |-> "none",
   ended |-> [s \in Segs |-> "none"], pending |-> "none",
   item |-> [i \in Items |-> "absent"], rev |-> [i \in Items |-> 0],
   at |-> [i \in Items |-> 0], by |-> [i \in Items |-> 0], clock |-> 0]

\* Mutant: a yielding run does not count.
IsActiveNotYielding(p) == p.run \in ActiveStates \ {"yielding"}
IsActive(p) == p.run \in ActiveStates
Queue(p) == {i \in Items : p.item[i] \in {"queued", "promoting"}}
Promoting(p) == {i \in Items : p.item[i] = "promoting"}

\* One event: reduced when the reducer's conditions hold, refused otherwise.
Reduce(p, accepted, q) ==
  IF p.run # "refused" /\ accepted THEN q ELSE [p EXCEPT !.run = "refused"]

-----------------------------------------------------------------------------
(* Run events *)

RunStarted(p) ==
  Reduce(p, p.pending = "none" /\ ~IsActive(p),
         [p EXCEPT !.seg = @ + 1, !.run = "running", !.mode = "none", !.reason = "none"])

TerminalState(reason) ==
  CASE reason = "completed" -> "completed"
    [] reason = "failed" -> "failed"
    [] OTHER -> "interrupted"

RunCompleted(p, seg, reason) ==
  Reduce(p, p.pending = "none" /\ p.seg = seg /\ p.run \in {"running", "yielding"},
         [p EXCEPT !.run = TerminalState(reason), !.reason = reason, !.ended[seg] = reason])

RunYieldRequested(p, mode) ==
  Reduce(p, p.run = "running", [p EXCEPT !.run = "yielding", !.mode = mode])

RunSafePointReached(p, seg, mode) ==
  Reduce(p, p.seg = seg /\ p.run = "yielding" /\ p.mode = mode, p)

RunForceStopTimedOut(p, seg) ==
  Reduce(p, p.seg = seg /\ p.run = "yielding" /\ p.mode = "force_stop", p)

\* task.actor_failed: with the segment of the active run, or with none (0).
TaskActorFailed(p, seg) ==
  IF seg # 0
  THEN Reduce(p, p.seg = seg /\ IsActive(p),
         [p EXCEPT !.run = "failed", !.reason = "failed", !.pending = "none",
                   !.item = [i \in Items |-> IF p.run = "yielding" /\ i \in Promoting(p)
                                             THEN "queued" ELSE p.item[i]]])
  ELSE Reduce(p, ~IsActive(p), [p EXCEPT !.pending = "none"])

-----------------------------------------------------------------------------
(* Interaction events: permission.* and question.* *)

WaitingFor(kind) == IF kind = "permission" THEN "waiting_permission" ELSE "waiting_input"

InteractionRequested(p, kind) ==
  Reduce(p, p.pending = "none" /\ p.run = "running",
         [p EXCEPT !.pending = kind, !.run = WaitingFor(kind)])

\* resolved and invalidated reduce alike.
InteractionClosed(p) ==
  Reduce(p, p.pending # "none" /\ p.run = WaitingFor(p.pending),
         [p EXCEPT !.pending = "none", !.run = "running"])

-----------------------------------------------------------------------------
(* Queue events *)

\* Mutant: the limit is one too low.
MessageQueuedTight(p, i) ==
  Reduce(p, Cardinality(Queue(p)) + 1 < QueueLimit /\ i \notin Queue(p),
         [p EXCEPT !.item[i] = "queued", !.rev[i] = 1,
                   !.at[i] = p.clock + 1, !.clock = @ + 1])

MessageQueued(p, i) ==
  Reduce(p, Cardinality(Queue(p)) < QueueLimit /\ i \notin Queue(p),
         [p EXCEPT !.item[i] = "queued", !.rev[i] = 1,
                   !.at[i] = p.clock + 1, !.clock = @ + 1])

MessageEdited(p, i, rev) ==
  Reduce(p, p.item[i] = "queued" /\ rev = p.rev[i] + 1, [p EXCEPT !.rev[i] = rev])

MessagePromoted(p, i, rev) ==
  Reduce(p, p.item[i] = "queued" /\ rev = p.rev[i], [p EXCEPT !.item[i] = "promoting"])

\* Mutant: recovery makes a new revision.
MessageRecoveredRevised(p, i, rev) ==
  Reduce(p, p.item[i] = "promoting" /\ rev = p.rev[i],
         [p EXCEPT !.item[i] = "queued", !.rev[i] = @ + 1])

MessageRecovered(p, i, rev) ==
  Reduce(p, p.item[i] = "promoting" /\ rev = p.rev[i], [p EXCEPT !.item[i] = "queued"])

MessageDeleted(p, i, rev) ==
  Reduce(p, p.item[i] = "queued" /\ rev = p.rev[i], [p EXCEPT !.item[i] = "deleted"])

MessageConsumed(p, i, rev, seg) ==
  Reduce(p, p.run = "running" /\ p.seg = seg /\ i \in Queue(p) /\ rev = p.rev[i],
         [p EXCEPT !.item[i] = "consumed", !.by[i] = seg])

-----------------------------------------------------------------------------
(* Decisions: the events a command or a transition commits together *)

\* decide_consume_next: the oldest queued message starts the next segment.
Oldest(p) ==
  {i \in Items : /\ p.item[i] = "queued"
                 /\ \A j \in Items : p.item[j] = "queued" => p.at[i] <= p.at[j]}
ConsumeNext(p, i) == MessageConsumed(RunStarted(p), i, p.rev[i], p.seg + 1)

\* submit_message on an idle task: start, queue and consume at revision 1.
SubmitAndStart(p, i) == MessageConsumed(MessageQueued(RunStarted(p), i), i, 1, p.seg + 1)

\* Stop and promote invalidate a pending interaction in the same transaction.
Invalidated(p) == IF p.pending = "none" THEN p ELSE InteractionClosed(p)
StopEvents(p, mode) == RunYieldRequested(Invalidated(p), mode)
PromoteEvents(p, i, rev, mode) ==
  RunYieldRequested(MessagePromoted(Invalidated(p), i, rev), mode)

\* The promoted message takes over from the ended segment.
Handover(p, i) == MessageConsumed(RunStarted(p), i, p.rev[i], p.seg + 1)

\* message.recovered for every item that was promoting: there is at most one.
AllRecovered(p) ==
  IF Promoting(p) = {} THEN p
  ELSE LET i == CHOOSE j \in Promoting(p) : TRUE IN MessageRecovered(p, i, p.rev[i])

\* Mutant: the promoted message stays promoted.
RestartRecoveredKeepsPromotion(p) ==
  RunCompleted(Invalidated(p), p.seg, "interrupted_by_restart")

\* recover_projection: the run was interrupted by a restart.
RestartRecovered(p) ==
  RunCompleted(IF p.run = "yielding" THEN AllRecovered(p) ELSE Invalidated(p),
               p.seg, "interrupted_by_restart")
=============================================================================
