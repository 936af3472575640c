------------------------------- MODULE TaskActor -------------------------------
(***************************************************************************)
(* One task of the daemon: the actor that serves its mailbox               *)
(* (task_actor.rs), the supervisor that starts, restarts and recovers the  *)
(* actor (supervisor.rs, recovery.rs), the factory that starts the engine  *)
(* of a segment (sdk_run_factory.rs) and that engine's run control         *)
(* (safe_point.rs).                                                        *)
(*                                                                         *)
(* A step is one durable transaction with the decision taken inside it, or *)
(* one hand-over between two tokio tasks.  A command the store or the      *)
(* decision rejects changes nothing and is no step.  A transaction whose   *)
(* expected version was read before another writer appended to the stream  *)
(* (a subagent's lifecycle, the engine) is an action of its own, named     *)
(* ...Outrun.                                                              *)
(***************************************************************************)
EXTENDS TaskProjection

CONSTANTS MaxRev,       \* bound on edits
          MaxCrashes,   \* bound on daemon crashes
          MaxFaults,    \* bound on store errors and panics inside the actor
          MaxAppends    \* bound on appends that outrun a transaction

ASSUME BoundsAssumption == MaxCrashes \in Nat /\ MaxFaults \in Nat /\ MaxAppends \in Nat

VARIABLES proj,         \* durable projection of the task
          outbox,       \* segment_start_outbox: undelivered starts
          claim,        \* segment_execution: none, in_progress or a terminal reason
          poisoned,     \* segments whose recovery key holds a rejected command
          engine,       \* off, running, or finished (control.finish was called)
          control,      \* run control requested of the engine
          outcome,      \* run outcome the engine reported
          starts,       \* how often a segment's engine was started (history)
          completed,    \* segments whose engine ran to its end (history)
          actor,        \* program counter of the actor and of its supervisor
          active,       \* the actor's `active': segment it controls, or 0
          slot,         \* active_segment_state, which outlives the actor
          attached,     \* forwarders: where the one event of a segment comes from
          startNext,    \* StartNextQueued messages on their way
          crashes, faults, appends

durable == <<proj, outbox, claim, poisoned>>
engines == <<engine, control, outcome, starts, completed>>
memory == <<active, slot, attached, startNext>>
bounds == <<crashes, faults, appends>>
vars == <<durable, engines, actor, memory, bounds>>

Controls == {"continue", "yield", "force"}
Outcomes == {"none", "safe_point", "forced", "timed_out"}
Claims == {"none", "in_progress"} \cup (Reasons \ {"none"})
Paths == {"none", "handover", "consume", "terminal", "ended", "live", "replay", "closed"}
Pcs == {"down", "absent", "idle", "checkpoint", "spawn", "deliver", "failed"}

Ready == [pc |-> "idle", path |-> "none", seg |-> 0]
Do(pc, path, seg) == [pc |-> pc, path |-> path, seg |-> seg]

Init ==
  /\ proj = EmptyProjection
  /\ outbox = {} /\ poisoned = {} /\ completed = {}
  /\ claim = [s \in Segs |-> "none"]
  /\ engine = [s \in Segs |-> "off"]
  /\ control = [s \in Segs |-> "continue"]
  /\ outcome = [s \in Segs |-> "none"]
  /\ starts = [s \in Segs |-> 0]
  /\ actor = [Ready EXCEPT !.pc = "absent"]
  /\ active = 0 /\ slot = 0 /\ startNext = 0
  /\ attached = [s \in Segs |-> "no"]
  /\ crashes = 0 /\ faults = 0 /\ appends = 0

-----------------------------------------------------------------------------
(* The actor's exits *)

\* The mailbox and what the actor held go with it; active_segment_state stays.
ActorFails ==
  /\ actor' = [Ready EXCEPT !.pc = "failed"]
  /\ active' = 0 /\ startNext' = 0
  /\ attached' = [s \in Segs |-> "no"]
  /\ UNCHANGED slot

\* Mutant: what the reducer refused is committed.
CommitUnchecked(q, next) ==
  /\ proj' = q
  /\ outbox' = IF q.seg > proj.seg THEN outbox \cup {q.seg} ELSE outbox
  /\ next

\* A transaction, its segment start put in the outbox with it, and what follows.
\* An event the reducer refuses rolls it back and fails the actor.
Commit(q, next) ==
  IF q.run = "refused"
  THEN UNCHANGED <<proj, outbox>> /\ ActorFails
  ELSE /\ proj' = q
       /\ outbox' = IF q.seg > proj.seg THEN outbox \cup {q.seg} ELSE outbox
       /\ next

Room == proj.seg < MaxSegs

-----------------------------------------------------------------------------
(* Commands: handle_command *)

\* Start, then spawn: the commit, the reply and active_segment_state := segment.
BeginSegment ==
  /\ actor' = Do("spawn", "none", proj.seg + 1)
  /\ slot' = proj.seg + 1
  /\ UNCHANGED <<active, attached, startNext>>

Submit(i) ==
  /\ actor = Ready /\ proj.item[i] = "absent"
  /\ \/ /\ IsActive(proj) /\ Cardinality(Queue(proj)) < QueueLimit
        /\ Commit(MessageQueued(proj, i), UNCHANGED <<actor, memory>>)
     \/ /\ ~IsActive(proj) /\ proj.reason # "interrupted_by_restart" /\ Room
        /\ Commit(SubmitAndStart(proj, i), BeginSegment)
  /\ UNCHANGED <<claim, poisoned, engines, bounds>>

\* start_segment and continue_task: the latter after an interruption only.
StartSegment ==
  /\ actor = Ready /\ ~IsActive(proj) /\ Room
  /\ proj.reason # "interrupted_by_restart" \/ proj.run = "interrupted"
  /\ Commit(RunStarted(proj), BeginSegment)
  /\ UNCHANGED <<claim, poisoned, engines, bounds>>

Edit(i) ==
  /\ actor = Ready /\ proj.item[i] = "queued" /\ proj.rev[i] < MaxRev
  /\ Commit(MessageEdited(proj, i, proj.rev[i] + 1), UNCHANGED <<actor, memory>>)
  /\ UNCHANGED <<claim, poisoned, engines, bounds>>

Delete(i) ==
  /\ actor = Ready /\ proj.item[i] = "queued"
  /\ Commit(MessageDeleted(proj, i, proj.rev[i]), UNCHANGED <<actor, memory>>)
  /\ UNCHANGED <<claim, poisoned, engines, bounds>>

Stoppable(p) == p.run \in {"running", "waiting_permission", "waiting_input"}
Requested(mode) == IF mode = "force_stop" THEN "force" ELSE "yield"

\* Mutant: the run control is not told.
PropagateNot(s, mode) == UNCHANGED engines
\* RunControlHandle::request on the active segment's handle: it only rises.  A
\* replayed segment has a handle of its own that nothing listens to.
Propagate(s, mode) ==
  /\ control' = IF active = s /\ attached[s] = "live" /\ control[s] # "force"
                THEN [control EXCEPT ![s] = Requested(mode)] ELSE control
  /\ UNCHANGED <<engine, outcome, starts, completed>>

StopRun(mode) ==
  /\ actor = Ready /\ Stoppable(proj)
  /\ Commit(StopEvents(proj, mode), UNCHANGED <<actor, memory>>)
  /\ Propagate(proj.seg, mode)
  /\ UNCHANGED <<claim, poisoned, bounds>>

Promote(i, mode) ==
  /\ actor = Ready /\ Stoppable(proj) /\ Room
  /\ Promoting(proj) = {} /\ proj.item[i] = "queued"
  /\ Commit(PromoteEvents(proj, i, proj.rev[i], mode), UNCHANGED <<actor, memory>>)
  /\ Propagate(proj.seg, mode)
  /\ UNCHANGED <<claim, poisoned, bounds>>

\* The stop is durable but request_parent_stop failed three times.
PropagationFails(q) ==
  /\ actor = Ready /\ Stoppable(proj) /\ active = proj.seg
  /\ faults < MaxFaults /\ faults' = faults + 1
  /\ q.run # "refused" /\ proj' = q
  /\ ActorFails
  /\ UNCHANGED <<outbox, claim, poisoned, engines, crashes, appends>>

StopRunUnpropagated(mode) == PropagationFails(StopEvents(proj, mode))
PromoteUnpropagated(i, mode) ==
  /\ Room /\ Promoting(proj) = {} /\ proj.item[i] = "queued"
  /\ PropagationFails(PromoteEvents(proj, i, proj.rev[i], mode))

-----------------------------------------------------------------------------
(* Run events: handle_run_event *)

\* RunningSegment forwards one event, the outcome before the terminal; a channel
\* that closes without one stands for a failed run.
EventReady(s) ==
  \/ attached[s] = "live" /\ (outcome[s] # "none" \/ engine[s] = "off")
  \/ attached[s] \in {"replay", "closed"}
Event(s) == IF attached[s] = "live" /\ outcome[s] # "none" THEN outcome[s] ELSE "completed"
EventReason(s) ==
  IF attached[s] = "closed" \/ claim[s] = "in_progress" THEN "failed" ELSE claim[s]

Take(s) == attached' = [attached EXCEPT ![s] = "no"]
Checkpoint(path, seg) ==
  /\ actor' = Do("checkpoint", path, seg)
  /\ UNCHANGED <<active, slot, startNext>>

StopModeOf(event) == IF event = "safe_point" THEN "safe_point" ELSE "force_stop"

\* The events a run event commits.  {} is an event the handler ignores.
RunEventOf(s) ==
  LET mode == StopModeOf(Event(s))
      reached == RunSafePointReached(proj, s, mode)
      forced == Event(s) = "forced"
      ended(reason) == RunCompleted(reached, s, reason)
      late == RunCompleted(RunForceStopTimedOut(proj, s), s, "failed")
  IN IF Event(s) = "completed"
     THEN IF proj.run = "yielding" /\ Promoting(proj) # {}
          THEN {[path |-> "handover", q |-> Handover(RunCompleted(proj, s, EventReason(s)), i)] :
                  i \in Promoting(proj)}
          ELSE {[path |-> "terminal", q |-> RunCompleted(proj, s, EventReason(s))]}
     ELSE IF proj.mode # mode THEN {}
     ELSE IF Event(s) = "timed_out"
     THEN {[path |-> "ended", q |-> AllRecovered(late)]}
     ELSE IF Promoting(proj) = {}
     THEN {[path |-> "ended",
            q |-> ended(IF forced THEN "forced_interruption" ELSE "cancelled")]}
     ELSE {[path |-> "handover",
            q |-> Handover(ended(IF forced THEN "forced_interruption" ELSE "superseded"), i)] :
             i \in Promoting(proj)}

HandleRunEvent(s) ==
  /\ actor = Ready /\ EventReady(s)
  /\ IF active = s /\ RunEventOf(s) # {}
     THEN \E e \in RunEventOf(s) : Commit(e.q, Take(s) /\ Checkpoint(e.path, e.q.seg))
     ELSE Take(s) /\ UNCHANGED <<proj, outbox, actor, active, slot, startNext>>
  /\ UNCHANGED <<claim, poisoned, engines, bounds>>

Outrun == appends < MaxAppends /\ appends' = appends + 1

\* Every transaction but the terminal one, which is retried, gives the event up.
HandleRunEventOutrun(s) ==
  /\ actor = Ready /\ EventReady(s) /\ active = s /\ Outrun
  /\ \E e \in RunEventOf(s) : e.path # "terminal"
  /\ Take(s)
  /\ UNCHANGED <<durable, engines, actor, active, slot, startNext, crashes, faults>>

-----------------------------------------------------------------------------
(* Consuming the queue: handle_start_next_queued *)

StartNextQueued ==
  /\ actor = Ready /\ startNext > 0 /\ startNext' = startNext - 1
  /\ \/ /\ active # 0 \/ Oldest(proj) = {} \/ IsActive(proj)
        /\ UNCHANGED <<proj, outbox, actor, active, slot, attached>>
     \/ /\ active = 0 /\ ~IsActive(proj) /\ Room
        /\ \E i \in Oldest(proj) :
             /\ proj' = ConsumeNext(proj, i)
             /\ outbox' = outbox \cup {proj'.seg}
             /\ actor' = Do("checkpoint", "consume", proj'.seg)
        /\ UNCHANGED <<active, slot, attached>>
  /\ UNCHANGED <<claim, poisoned, engines, bounds>>

StartNextQueuedOutrun ==
  /\ actor = Ready /\ startNext > 0 /\ startNext' = startNext - 1
  /\ active = 0 /\ Oldest(proj) # {} /\ Outrun
  /\ UNCHANGED <<durable, engines, actor, active, slot, attached, crashes, faults>>

-----------------------------------------------------------------------------
(* After the commit: persist_checkpoint_boundary, then spawn_pending_segment *)

PersistCheckpoint ==
  /\ actor.pc = "checkpoint"
  /\ IF actor.path \in {"handover", "consume"}
     THEN /\ actor' = Do("spawn", "none", actor.seg)
          /\ active' = 0 /\ slot' = actor.seg /\ UNCHANGED startNext
     ELSE /\ actor' = Ready
          /\ active' = 0 /\ slot' = 0
          /\ startNext' = IF actor.path = "terminal" THEN startNext + 1 ELSE startNext
  /\ UNCHANGED <<durable, engines, attached, bounds>>

\* The projection moved between persist_current's read and save_checkpoint.
PersistCheckpointOutrun ==
  /\ actor.pc = "checkpoint" /\ Outrun
  /\ ActorFails
  /\ UNCHANGED <<durable, engines, crashes, faults>>

\* Mutant: a claim left in progress by a crash is claimed again.
ClaimAgain(s) == claim[s] \in {"none", "in_progress"}
\* claim_segment_execution answers Claimed.
Claimable(s) == claim[s] = "none"

\* Mutant: an execution found in progress is taken for a success.
ReplayedAsSuccess(c) == IF c = "in_progress" THEN "completed" ELSE c
\* The terminal replayed for a segment that was already claimed.
Replayed(c) == IF c = "in_progress" THEN "failed" ELSE c

\* spawn_idempotent: reattach to a live engine, start one, or replay the
\* terminal of an earlier execution; one found in progress has failed.
SpawnIdempotent ==
  LET s == actor.seg IN
  /\ actor.pc = "spawn"
  /\ \/ /\ engine[s] # "off"
        /\ actor' = Do("deliver", "live", s)
        /\ UNCHANGED <<claim, engines>>
     \/ /\ engine[s] = "off" /\ Claimable(s)
        /\ claim' = [claim EXCEPT ![s] = "in_progress"]
        /\ engine' = [engine EXCEPT ![s] = "running"]
        /\ starts' = [starts EXCEPT ![s] = @ + 1]
        /\ actor' = Do("deliver", "live", s)
        /\ UNCHANGED <<control, outcome, completed>>
     \/ /\ engine[s] = "off" /\ ~Claimable(s)
        /\ claim' = [claim EXCEPT ![s] = Replayed(@)]
        /\ actor' = Do("deliver", "replay", s)
        /\ UNCHANGED engines
  /\ UNCHANGED <<proj, outbox, poisoned, memory, bounds>>

\* The claim could not be taken or settled: closed_running_segment.
SpawnClosed ==
  /\ actor.pc = "spawn" /\ engine[actor.seg] = "off"
  /\ faults < MaxFaults /\ faults' = faults + 1
  /\ actor' = Do("deliver", "closed", actor.seg)
  /\ UNCHANGED <<durable, engines, memory, crashes, appends>>

\* mark_segment_start_delivered; the actor then listens to the segment.
MarkDelivered ==
  LET s == actor.seg IN
  /\ actor.pc = "deliver"
  /\ outbox' = outbox \ {s}
  /\ active' = s
  /\ attached' = [attached EXCEPT ![s] = actor.path]
  /\ actor' = Ready
  /\ UNCHANGED <<proj, claim, poisoned, engines, slot, startNext, bounds>>

\* A store error or a panic in any handler.
ActorFault ==
  /\ actor.pc \in {"idle", "checkpoint", "spawn", "deliver"}
  /\ faults < MaxFaults /\ faults' = faults + 1
  /\ ActorFails
  /\ UNCHANGED <<durable, engines, crashes, appends>>

-----------------------------------------------------------------------------
(* The supervisor *)

PendingRun == IsActive(proj) /\ proj.seg \in outbox

\* Mutant: an undelivered start is left alone.
StartActorIdle(p) == actor' = Ready /\ slot' = 0
\* run_task_actor: an active run whose start was not delivered is spawned again.
StartActor(p) ==
  IF IsActive(p) /\ p.seg \in outbox
  THEN actor' = Do("spawn", "none", p.seg) /\ slot' = p.seg
  ELSE actor' = Ready /\ slot' = 0

ActiveSegmentOf(p) == IF IsActive(p) THEN p.seg ELSE 0

\* A failed actor: retry its undelivered start, else persist_actor_failure and
\* restart it, else (the projection names another segment) leave it absent.
SuperviseExit ==
  /\ actor.pc = "failed"
  /\ \/ slot \in outbox /\ StartActor(proj) /\ UNCHANGED proj
     \/ /\ slot \notin outbox /\ ActiveSegmentOf(proj) = slot
        /\ proj' = TaskActorFailed(proj, slot)
        /\ actor' = Ready /\ slot' = 0
     \/ /\ slot \notin outbox /\ ActiveSegmentOf(proj) # slot
        /\ actor' = [Ready EXCEPT !.pc = "absent"] /\ slot' = 0
        /\ UNCHANGED proj
  /\ UNCHANGED <<outbox, claim, poisoned, engines, active, attached, startNext, bounds>>

\* persist_actor_failure fails or loses its three attempts.
SuperviseExitUnrecorded ==
  /\ actor.pc = "failed" /\ slot \notin outbox
  /\ faults < MaxFaults /\ faults' = faults + 1
  /\ actor' = [Ready EXCEPT !.pc = "absent"] /\ slot' = 0
  /\ UNCHANGED <<durable, engines, active, attached, startNext, crashes, appends>>

\* recover_projection: nothing to do for a start still to be delivered.  A key
\* that already holds a rejected command makes the recovery fail for good.
RecoverProjection ==
  \/ (PendingRun \/ ~IsActive(proj)) /\ UNCHANGED proj
  \/ /\ IsActive(proj) /\ ~PendingRun /\ proj.seg \notin poisoned
     /\ proj' = RestartRecovered(proj)

\* A client addresses the task: recover_task, then a fresh actor.
Route ==
  /\ actor.pc = "absent"
  /\ RecoverProjection
  /\ StartActor(proj')
  /\ UNCHANGED <<outbox, claim, poisoned, engines, active, attached, startNext, bounds>>

RouteOutrun ==
  /\ actor.pc = "absent" /\ Outrun
  /\ IsActive(proj) /\ ~PendingRun /\ proj.seg \notin poisoned
  /\ poisoned' = poisoned \cup {proj.seg}
  /\ StartActor(proj)
  /\ UNCHANGED <<proj, outbox, claim, engines, active, attached, startNext, crashes, faults>>

\* Only what is durable survives.
Crash ==
  /\ actor.pc # "down" /\ crashes < MaxCrashes
  /\ crashes' = crashes + 1
  /\ actor' = [Ready EXCEPT !.pc = "down"]
  /\ engine' = [s \in Segs |-> "off"]
  /\ control' = [s \in Segs |-> "continue"]
  /\ outcome' = [s \in Segs |-> "none"]
  /\ active' = 0 /\ slot' = 0 /\ startNext' = 0
  /\ attached' = [s \in Segs |-> "no"]
  /\ UNCHANGED <<durable, starts, completed, faults, appends>>

\* main: recover_startup before anything else; its error ends the daemon.
Boot ==
  /\ actor.pc = "down"
  /\ RecoverProjection
  /\ actor' = [Ready EXCEPT !.pc = "absent"]
  /\ UNCHANGED <<outbox, claim, poisoned, engines, memory, bounds>>

-----------------------------------------------------------------------------
(* The engine of a segment and the interactions it asks for *)

RequestInteraction(s, kind) ==
  /\ engine[s] = "running" /\ proj.seg = s /\ proj.run = "running"
  /\ proj' = InteractionRequested(proj, kind)
  /\ UNCHANGED <<outbox, claim, poisoned, engines, actor, memory, bounds>>

\* The client answers, or the broker's timeout invalidates the request.
ResolveInteraction ==
  /\ actor.pc # "down" /\ proj.pending # "none" /\ engine[proj.seg] = "running"
  /\ proj' = InteractionClosed(proj)
  /\ UNCHANGED <<outbox, claim, poisoned, engines, actor, memory, bounds>>

\* control.finish at a safe point, after a force stop, or when it timed out.
EngineFinish(s) ==
  /\ engine[s] = "running" /\ control[s] # "continue"
  /\ engine' = [engine EXCEPT ![s] = "finished"]
  /\ \E o \in IF control[s] = "yield" THEN {"safe_point"} ELSE {"forced", "timed_out"} :
       outcome' = [outcome EXCEPT ![s] = o]
  /\ UNCHANGED <<durable, control, starts, completed, actor, memory, bounds>>

\* segment_terminal_reason
TerminalReasons(s) ==
  IF proj.ended[s] # "none" THEN {proj.ended[s]}
  ELSE {"failed"} \cup
    CASE outcome[s] = "none" ->
           IF proj.seg = s /\ proj.pending # "none" THEN {} ELSE {"completed"}
      [] outcome[s] = "safe_point" ->
           IF proj.seg = s /\ proj.mode = "safe_point" /\ Promoting(proj) # {}
           THEN {"superseded"} ELSE {"cancelled"}
      [] outcome[s] = "forced" -> {"forced_interruption"}
      [] outcome[s] = "timed_out" -> {}

EngineReturn(s) ==
  /\ engine[s] # "off"
  /\ engine' = [engine EXCEPT ![s] = "off"]
  /\ \E reason \in TerminalReasons(s) :
       /\ claim' = [claim EXCEPT ![s] = reason]
       /\ completed' = IF reason = "completed" THEN completed \cup {s} ELSE completed
  /\ UNCHANGED <<proj, outbox, poisoned, control, outcome, starts, actor, memory, bounds>>

\* complete_segment_execution failed: the segment's channel closes without event.
EngineReturnUnrecorded(s) ==
  /\ engine[s] # "off"
  /\ faults < MaxFaults /\ faults' = faults + 1
  /\ engine' = [engine EXCEPT ![s] = "off"]
  /\ UNCHANGED <<durable, control, outcome, starts, completed, actor, memory, crashes, appends>>

-----------------------------------------------------------------------------
Modes == {"safe_point", "force_stop"}

Command ==
  \/ StartSegment
  \/ \E mode \in Modes : StopRun(mode) \/ StopRunUnpropagated(mode)
  \/ \E i \in Items : \/ Submit(i) \/ Edit(i) \/ Delete(i)
                      \/ \E mode \in Modes : Promote(i, mode) \/ PromoteUnpropagated(i, mode)

EngineStep(s) ==
  \/ \E kind \in {"permission", "question"} : RequestInteraction(s, kind)
  \/ EngineFinish(s)
  \/ EngineReturn(s) \/ EngineReturnUnrecorded(s)

Next ==
  \/ Command
  \/ \E s \in Segs : HandleRunEvent(s) \/ HandleRunEventOutrun(s) \/ EngineStep(s)
  \/ StartNextQueued \/ StartNextQueuedOutrun
  \/ PersistCheckpoint \/ PersistCheckpointOutrun
  \/ SpawnIdempotent \/ SpawnClosed \/ MarkDelivered \/ ActorFault
  \/ SuperviseExit \/ SuperviseExitUnrecorded \/ Route \/ RouteOutrun
  \/ ResolveInteraction
  \/ Crash \/ Boot

Spec == Init /\ [][Next]_vars

\* The actor's and the supervisor's own steps go on.  An engine asked to stop
\* reaches a safe point or times out, and then returns; nothing makes an engine
\* return that was not asked to.  A crashed daemon is started again, and a client
\* addresses a task again whose actor is gone.
FairSpec ==
  /\ Spec
  /\ WF_vars(PersistCheckpoint) /\ WF_vars(SpawnIdempotent) /\ WF_vars(MarkDelivered)
  /\ WF_vars(SuperviseExit) /\ WF_vars(Boot) /\ WF_vars(Route)
  /\ \A s \in Segs : /\ WF_vars(HandleRunEvent(s)) /\ WF_vars(EngineFinish(s))
                     /\ WF_vars(engine[s] = "finished" /\ EngineReturn(s))

-----------------------------------------------------------------------------
(* Properties *)

\* Types of the projection, the store's delivery tables and the actor.
TypeOK ==
  /\ proj \in Projection /\ proj.run # "refused"
  /\ outbox \subseteq Segs /\ poisoned \subseteq Segs
  /\ claim \in [Segs -> Claims]
  /\ engine \in [Segs -> {"off", "running", "finished"}]
  /\ control \in [Segs -> Controls]
  /\ outcome \in [Segs -> Outcomes]
  /\ starts \in [Segs -> Nat] /\ completed \subseteq Segs
  /\ actor \in [pc : Pcs, path : Paths, seg : 0..MaxSegs]
  /\ active \in 0..MaxSegs /\ slot \in 0..MaxSegs
  /\ attached \in [Segs -> {"no", "live", "replay", "closed"}]
  /\ startNext \in Nat
  /\ crashes \in 0..MaxCrashes /\ faults \in 0..MaxFaults /\ appends \in 0..MaxAppends

\* A segment's tools are executed at most once, although its start is delivered
\* again after a crash or an actor failure before the outbox was acknowledged
\* (spawn_idempotent, claim_segment_execution).
ExecutedOnce == \A s \in Segs : starts[s] <= 1

\* A run is reported completed only if its engine was really started and came to
\* its end: no replayed, failed or interrupted start is passed off as a success.
CompletedRan == \A s \in Segs : proj.ended[s] = "completed" => s \in completed

\* A message is promoted only for a run that is yielding to it, and only one: on
\* every way a yielding run can end it is consumed or back in the queue.
PromotionOwned ==
  /\ Promoting(proj) # {} => proj.run = "yielding"
  /\ Cardinality(Promoting(proj)) <= 1

\* While the actor waits for messages, an active run is one it controls and from
\* which an event is still to come, so the run can end (handle_run_event).
NoStrandedRun ==
  actor = Ready /\ IsActive(proj) => active = proj.seg /\ attached[active] # "no"

\* A stop that the client was told of has reached the engine (StopRun, Promote).
StopDelivered ==
  actor = Ready /\ proj.run = "yielding" /\ engine[proj.seg] = "running"
    => control[proj.seg] # "continue"

\* Only one foreground segment executes for a task: a segment that takes over
\* starts when the engine of the one before has stopped.  The one exception is an
\* engine whose actor failed under it: its run was given up without an end, or
\* recovered as interrupted, and it works on beside its successor.
OneForegroundSegment ==
  \A s, t \in Segs :
    engine[s] = "running" /\ engine[t] = "running" /\ s < t
      => faults > 0 /\ proj.ended[s] \in {"none", "interrupted_by_restart"}

\* Without a store error a handler brings the actor down in two cases only: an
\* engine ended while the interaction it asked for was pending, or a message came
\* for an idle task whose left-over queue is full (handle_run_event,
\* handle_submit_message).
HandlersRefuse ==
  [][actor = Ready /\ actor'.pc = "failed" /\ faults' = faults
       => \/ IsActive(proj) /\ proj.pending # "none"
          \/ ~IsActive(proj) /\ Cardinality(Queue(proj)) = QueueLimit]_vars

\* The content of a promoted message is frozen, and a message that left the queue
\* never comes back (decide_queue, message.consumed, message.recovered).
QueueItemsFinal ==
  [][\A i \in Items :
       /\ proj.item[i] = "promoting" => proj'.rev[i] = proj.rev[i]
       /\ proj.item[i] \in {"consumed", "deleted"}
            => proj'.item[i] = proj.item[i] /\ proj'.by[i] = proj.by[i]]_vars

\* A run that was asked to stop ends, whatever crash or actor failure comes in
\* between (handle_run_event, persist_actor_failure, recover_projection).
YieldEnds == proj.run = "yielding" ~> proj.run # "yielding"
=============================================================================
