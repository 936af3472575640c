------------------------------- MODULE Subagents -------------------------------
(***************************************************************************)
(* The children of one task (subagent.rs): their durable lifecycle in the  *)
(* task store, the thread that starts a child, its execution, the finisher *)
(* that records its end, the stop that the parent's actor propagates, the  *)
(* force stop with which the supervisor compensates a failed actor, and    *)
(* what a restart of the daemon makes of children it cannot reconnect.     *)
(*                                                                         *)
(* A step is one store transaction, one critical section of the registry   *)
(* lock `active', or one hand-over between tokio tasks.  The registry lock *)
(* is held by a stop from its snapshot to its commit.                      *)
(***************************************************************************)
EXTENDS FiniteSets, Naturals

CONSTANTS Kids,        \* delegations the parent's run makes
          MaxFaults,   \* bound on store, git and runner factory errors
          MaxCrashes   \* bound on daemon crashes

ASSUME SubagentConstants == MaxFaults \in Nat /\ MaxCrashes \in Nat

VARIABLES kid,        \* durable: the child in the parent's and in its own stream
          lease,      \* durable: state of the child's managed worktree lease
          parent,     \* durable: state of the parent's run
          task,       \* the threads of a child: its starter, execution and finisher
          registry,   \* the supervisor's `active' map
          stop,       \* the request_parent_stop in progress, or the last one
          actor,      \* the parent's actor: up, or failed
          phase,      \* up, down, or between the two recoveries of a boot
          faults, crashes

durable == <<kid, lease, parent>>
stopping == <<stop, actor>>
vars == <<durable, task, registry, stopping, phase, faults, crashes>>

States == {"none", "starting", "running", "yielding", "background",
           "completed", "cancelled", "failed"}
Nonterminal == {"starting", "running", "yielding", "background"}
Terminal == {"completed", "cancelled", "failed"}
Leases == {"none", "active", "cleanup_pending", "cleanup_blocked", "released"}
Starters == {"idle", "acquire", "record", "fail", "unwind", "make", "register", "detach",
             "publish", "rollback", "start", "waiting", "done", "rolled_back"}
Ended == {"ok", "failed", "cancelled"}
NoStop == [pc |-> "idle", force |-> FALSE, tries |-> 0, seen |-> [k \in Kids |-> "none"]]

\* starter: program counter of start_bound and its callers; detach: they asked for
\* a detached child; exec: the execution; told: what its control token says;
\* tell: a control still to be sent by whoever committed it; aborted: the abort
\* handle was used; fin: program counter of the finisher; result: its report.
NoTask == [starter |-> "idle", detach |-> FALSE, exec |-> "none", told |-> "none",
           tell |-> "none", aborted |-> FALSE, fin |-> "none", result |-> "none"]

Init ==
  /\ kid = [k \in Kids |-> [state |-> "none", detached |-> FALSE,
                            recorded |-> FALSE, run |-> "none"]]
  /\ lease = [k \in Kids |-> "none"]
  /\ parent = "running"
  /\ task = [k \in Kids |-> NoTask]
  /\ registry = [k \in Kids |-> "absent"]
  /\ stop = NoStop
  /\ actor = "up" /\ phase = "up"
  /\ faults = 0 /\ crashes = 0

-----------------------------------------------------------------------------
(* The task store *)

Live(k) == kid[k].state \in Nonterminal
Locked == stop.pc = "commit"
Up == phase = "up"

Fault == faults < MaxFaults /\ faults' = faults + 1
NoFault == UNCHANGED faults

\* Mutant: the transaction trusts what its caller read before.
MayEndUnchecked(k) ==
  /\ kid[k].run # "waiting"
  /\ kid[k].recorded => lease[k] # "released"

\* The conditions of a terminal transition: the child is not terminal, its run
\* is running with no interaction pending, and its lease can enter cleanup.
MayEnd(k) ==
  /\ Live(k)
  /\ kid[k].run = "running"
  /\ kid[k].recorded => lease[k] # "released"

\* Terminal states of the children K: each run ends and its lease awaits cleanup.
End(K, s) ==
  /\ kid' = [k \in Kids |-> IF k \in K THEN [kid[k] EXCEPT !.state = s, !.run = "ended"] ELSE kid[k]]
  /\ lease' = [k \in Kids |-> IF k \in K /\ kid[k].recorded THEN "cleanup_pending" ELSE lease[k]]

\* WorkspaceCoordinator::release of a managed worktree: removed if it holds no changes.
Release(k) ==
  /\ \E s \in {"released", "cleanup_blocked"} :
       lease' = [lease EXCEPT ![k] = IF @ \in {"none", "released"} THEN @ ELSE s]

-----------------------------------------------------------------------------
(* Starting a child: start_bound, spawn_bound, start_detached_child *)

At(k, pc) == Up /\ task[k].starter = pc
Goto(k, pc) == task' = [task EXCEPT ![k].starter = pc]

\* create_subagent_actor_checked: the parent's segment is the one running.
Start(k, d) ==
  /\ At(k, "idle")
  /\ parent = "running"
  /\ kid' = [kid EXCEPT ![k].state = "starting", ![k].run = "running"]
  /\ task' = [task EXCEPT ![k].starter = "acquire", ![k].detach = d]
  /\ UNCHANGED <<lease, parent, registry, stopping, phase, faults, crashes>>

\* A failed acquisition is recorded as the child's failure, if it can be.
Acquire(k) ==
  /\ At(k, "acquire")
  /\ \/ /\ lease' = [lease EXCEPT ![k] = "active"]
        /\ Goto(k, "record") /\ NoFault /\ UNCHANGED kid
     \/ /\ Fault /\ Goto(k, "done")
        /\ IF MayEnd(k) THEN End({k}, "failed") ELSE UNCHANGED <<kid, lease>>
  /\ UNCHANGED <<parent, registry, stopping, phase, crashes>>

\* Mutant: the start overwrites a yield that the parent's stop has recorded.
RecordedOverYield(k) == [kid[k] EXCEPT !.recorded = TRUE, !.state = "running"]

\* The child as it starts running in its lease; a pending yield is kept.
Recorded(k) == [kid[k] EXCEPT !.recorded = TRUE,
                              !.state = IF @ = "starting" THEN "running" ELSE @]

Record(k) ==
  /\ At(k, "record")
  /\ \/ /\ kid[k].state \in {"starting", "yielding"}
        /\ kid' = [kid EXCEPT ![k] = Recorded(k)]
        /\ Goto(k, "make") /\ NoFault
     \/ /\ kid[k].state \in Terminal
        /\ Goto(k, "fail") /\ NoFault /\ UNCHANGED kid
     \/ Fault /\ Goto(k, "fail") /\ UNCHANGED kid
  /\ UNCHANGED <<lease, parent, registry, stopping, phase, crashes>>

\* The start failed after the lease was granted: record the failure, if it can be.
Fail(k) ==
  /\ At(k, "fail")
  /\ Goto(k, "unwind")
  /\ \/ NoFault /\ (IF MayEnd(k) THEN End({k}, "failed") ELSE UNCHANGED <<kid, lease>>)
     \/ Fault /\ UNCHANGED <<kid, lease>>
  /\ UNCHANGED <<parent, registry, stopping, phase, crashes>>

\* Mutant: the guard is disarmed as soon as the lease is granted.
UnwindDisarmed(k) ==
  /\ At(k, "unwind")
  /\ Goto(k, "done")
  /\ UNCHANGED <<durable, registry, stopping, phase, faults, crashes>>

\* AcquiredWorkspaceGuard::drop.
Unwind(k) ==
  /\ At(k, "unwind")
  /\ Goto(k, "done")
  /\ Release(k)
  /\ UNCHANGED <<kid, parent, registry, stopping, phase, faults, crashes>>

\* The runner factory, and the execution that waits for its start signal.
Make(k) ==
  /\ At(k, "make")
  /\ \/ task' = [task EXCEPT ![k].exec = "parked", ![k].starter = "register"] /\ NoFault
     \/ Fault /\ Goto(k, "fail")
  /\ UNCHANGED <<durable, registry, stopping, phase, crashes>>

\* Mutant: the child is registered as it was when it was recorded.
RegisterAsRecorded(k) == [put |-> TRUE, told |-> "none", aborted |-> FALSE]

\* What registration makes of the durable state it reads under the lock: an ended
\* child is not registered but aborted, a yielding one is told.
RegisterAs(k) ==
  [put |-> Live(k), aborted |-> ~Live(k),
   told |-> IF kid[k].state = "yielding" THEN "yield" ELSE "none"]

\* If the durable state cannot be read the start signal is dropped unsent.
Register(k) ==
  /\ At(k, "register") /\ ~Locked
  /\ \/ /\ registry' = IF RegisterAs(k).put THEN [registry EXCEPT ![k] = "attached"] ELSE registry
        /\ task' = [task EXCEPT ![k].told = RegisterAs(k).told,
                                ![k].aborted = RegisterAs(k).aborted,
                                ![k].fin = "wait",
                                ![k].starter = IF task[k].detach THEN "detach" ELSE "start"]
        /\ NoFault
     \/ /\ Fault
        /\ task' = [task EXCEPT ![k].exec = "cancelled", ![k].starter = "unwind"]
        /\ UNCHANGED registry
  /\ UNCHANGED <<durable, stopping, phase, crashes>>

\* continue_in_background: the registered child is committed as detached.
Detach(k) ==
  /\ At(k, "detach") /\ ~Locked
  /\ \/ /\ registry[k] # "absent" /\ kid[k].state \in {"running", "yielding"}
        /\ kid' = [kid EXCEPT ![k].detached = TRUE, ![k].state = "background"]
        /\ Goto(k, "publish") /\ NoFault
     \/ /\ registry[k] = "absent" \/ kid[k].state \in Terminal
        /\ Goto(k, "rollback") /\ NoFault /\ UNCHANGED kid
     \/ Fault /\ Goto(k, "rollback") /\ UNCHANGED kid
  /\ UNCHANGED <<lease, parent, registry, stopping, phase, crashes>>

\* The registry learns of the detachment in a critical section of its own.
Publish(k) ==
  /\ At(k, "publish") /\ ~Locked
  /\ registry' = [registry EXCEPT ![k] = "detached"]
  /\ Goto(k, "start")
  /\ UNCHANGED <<durable, stopping, phase, faults, crashes>>

\* The start signal; an attached caller then waits for the finisher.
SendStart(k) ==
  /\ At(k, "start")
  /\ task' = [task EXCEPT
       ![k].exec = IF @ = "parked" /\ ~task[k].aborted THEN "running" ELSE @,
       ![k].starter = IF task[k].detach THEN "done" ELSE "waiting"]
  /\ UNCHANGED <<durable, registry, stopping, phase, faults, crashes>>

\* cancel_attached_child: leaves a child that the registry knows as detached.
CancelAttached(k) ==
  IF registry[k] = "attached" THEN [task[k] EXCEPT !.told = "cancel", !.aborted = TRUE]
                              ELSE task[k]

\* A failed detachment: the start signal is dropped and the child is cancelled.
Rollback(k) ==
  /\ At(k, "rollback") /\ ~Locked
  /\ task' = [task EXCEPT ![k] = [CancelAttached(k) EXCEPT
       !.exec = IF @ = "parked" THEN "cancelled" ELSE @, !.starter = "done"]]
  /\ UNCHANGED <<durable, registry, stopping, phase, faults, crashes>>

\* The parent's engine drops the call (SpawnCallerGuard::drop).
CallerDropped(k) ==
  /\ At(k, "waiting") /\ ~Locked
  /\ task' = [task EXCEPT ![k] = [CancelAttached(k) EXCEPT !.starter = "done"]]
  /\ UNCHANGED <<durable, registry, stopping, phase, faults, crashes>>

\* cancel_child: a team whose start failed cancels the members it had started.
CancelChild(k) ==
  /\ At(k, "done") /\ ~Locked
  /\ task[k].detach /\ registry[k] # "absent" /\ MayEnd(k)
  /\ End({k}, "cancelled")
  /\ task' = [task EXCEPT ![k].tell = "cancel", ![k].starter = "rolled_back"]
  /\ UNCHANGED <<parent, registry, stopping, phase, faults, crashes>>

-----------------------------------------------------------------------------
(* The execution and its finisher *)

\* The child's engine asks for a permission or an answer on the child's stream.
Ask(k) ==
  /\ Up /\ task[k].exec = "running" /\ kid[k].run = "running"
  /\ kid' = [kid EXCEPT ![k].run = "waiting"]
  /\ UNCHANGED <<lease, parent, task, registry, stopping, phase, faults, crashes>>

Settle(k) ==
  /\ Up /\ kid[k].run = "waiting"
  /\ kid' = [kid EXCEPT ![k].run = "running"]
  /\ UNCHANGED <<lease, parent, task, registry, stopping, phase, faults, crashes>>

\* A waiting engine ends only by its budget or by its control token.
ExecEnd(k, o) ==
  /\ Up /\ task[k].exec = "running"
  /\ o = "cancelled" => task[k].told # "none"
  /\ o = "failed" => kid[k].run # "waiting"
  /\ task' = [task EXCEPT ![k].exec = o]
  /\ UNCHANGED <<durable, registry, stopping, phase, faults, crashes>>

ExecAborted(k) ==
  /\ Up /\ task[k].aborted /\ task[k].exec \in {"parked", "running"}
  /\ task' = [task EXCEPT ![k].exec = "cancelled"]
  /\ UNCHANGED <<durable, registry, stopping, phase, faults, crashes>>

FinishAt(k, pc) == Up /\ task[k].fin = pc
Finishing(k, pc, res) == task' = [task EXCEPT ![k].fin = pc, ![k].result = res]

\* finish_child reads the child: one that is already terminal is not recorded again.
FinishRead(k) ==
  /\ FinishAt(k, "wait") /\ task[k].exec \in Ended /\ ~Locked
  /\ \/ Live(k) /\ NoFault /\ Finishing(k, "apply", "none")
     \/ ~Live(k) /\ NoFault /\ Finishing(k, "release", "error")
     \/ Fault /\ Finishing(k, "release", "error")
  /\ UNCHANGED <<durable, registry, stopping, phase, crashes>>

\* Mutant: the caller gets the execution's result although it was not recorded.
FinishApplyOptimistic(k) ==
  /\ FinishAt(k, "apply")
  /\ Finishing(k, "release", IF task[k].exec = "ok" THEN "ok" ELSE "error")
  /\ IF MayEnd(k) THEN End({k}, IF task[k].exec = "ok" THEN "completed" ELSE task[k].exec)
                  ELSE UNCHANGED <<kid, lease>>
  /\ UNCHANGED <<parent, registry, stopping, phase, faults, crashes>>

\* The end of the execution becomes the child's terminal state, or is refused.
FinishApply(k) ==
  /\ FinishAt(k, "apply")
  /\ \/ /\ MayEnd(k) /\ NoFault
        /\ End({k}, IF task[k].exec = "ok" THEN "completed" ELSE task[k].exec)
        /\ Finishing(k, "release", IF task[k].exec = "ok" THEN "ok" ELSE "error")
     \/ /\ ~MayEnd(k) /\ NoFault
        /\ Finishing(k, "release", "error") /\ UNCHANGED <<kid, lease>>
     \/ Fault /\ Finishing(k, "release", "error") /\ UNCHANGED <<kid, lease>>
  /\ UNCHANGED <<parent, registry, stopping, phase, crashes>>

\* Mutant: the lease is released whether or not the end could be recorded.
FinishReleaseAlways(k) ==
  /\ FinishAt(k, "release")
  /\ Release(k)
  /\ Finishing(k, "remove", task[k].result)
  /\ UNCHANGED <<kid, parent, registry, stopping, phase, faults, crashes>>

\* Only the lease of a child recorded as ended is released.
FinishRelease(k) ==
  /\ FinishAt(k, "release")
  /\ \/ ~Live(k) /\ Release(k) /\ NoFault /\ Finishing(k, "remove", task[k].result)
     \/ Live(k) /\ NoFault /\ Finishing(k, "remove", task[k].result) /\ UNCHANGED lease
     \/ Fault /\ Finishing(k, "remove", "error") /\ UNCHANGED lease
  /\ UNCHANGED <<kid, parent, registry, stopping, phase, crashes>>

FinishRemove(k) ==
  /\ FinishAt(k, "remove") /\ ~Locked
  /\ task' = [task EXCEPT ![k].fin = "done",
                          ![k].starter = IF @ = "waiting" THEN "done" ELSE @]
  /\ registry' = [registry EXCEPT ![k] = "absent"]
  /\ UNCHANGED <<durable, stopping, phase, faults, crashes>>

-----------------------------------------------------------------------------
(* Stopping the parent: task_actor.rs, request_parent_stop, the supervisor *)

StopIn(pcs) == Up /\ stop.pc \in pcs

\* A stop or a promotion is accepted: the run yields and the stop is propagated.
ParentStop(force) ==
  /\ Up /\ actor = "up"
  /\ \/ parent = "running" /\ stop.pc = "idle"
     \/ parent = "yielding" /\ force /\ ~stop.force /\ stop.pc = "done"
  /\ parent' = "yielding"
  /\ stop' = [NoStop EXCEPT !.pc = "read", !.force = force]
  /\ UNCHANGED <<kid, lease, task, registry, actor, phase, faults, crashes>>

\* Mutant: the stop goes by what the registry holds.
StoppableRegistered(k) == registry[k] # "detached" /\ Live(k)

\* A child that a stop of its parent ends: not detached and not terminal.
Stoppable(k) == ~kid[k].detached /\ Live(k)

\* The actor tries a stop three times and then fails; the supervisor's
\* compensation is tried again at every tick.
StopFails ==
  /\ IF actor = "failed"
     THEN stop' = [stop EXCEPT !.pc = "retry"] /\ UNCHANGED actor
     ELSE IF stop.tries < 2
     THEN stop' = [stop EXCEPT !.pc = "read", !.tries = @ + 1] /\ UNCHANGED actor
     ELSE stop' = [NoStop EXCEPT !.pc = "read", !.force = TRUE] /\ actor' = "failed"

\* Takes the registry lock and lists the children to stop, with their states.
StopRead ==
  /\ StopIn({"read"})
  /\ \/ /\ NoFault /\ UNCHANGED actor
        /\ stop' = [stop EXCEPT !.pc = "commit",
                       !.seen = [k \in Kids |->
                          IF Stoppable(k) /\ (stop.force \/ kid[k].state \in {"starting", "running"})
                          THEN kid[k].state ELSE "none"]]
     \/ Fault /\ StopFails
  /\ UNCHANGED <<durable, task, registry, phase, crashes>>

\* One transaction over all listed children that are still to be stopped; a
\* state other than the listed one, or a refused end, rolls all of it back.
StopCommit ==
  LET K == {k \in Kids : stop.seen[k] # "none" /\ Stoppable(k)}
      fits == \A k \in K : kid[k].state = stop.seen[k] /\ (stop.force => MayEnd(k)) IN
  /\ StopIn({"commit"})
  /\ \/ /\ fits /\ NoFault
        /\ IF stop.force
           THEN End(K, "cancelled")
           ELSE /\ kid' = [k \in Kids |-> IF k \in K THEN [kid[k] EXCEPT !.state = "yielding"] ELSE kid[k]]
                /\ UNCHANGED lease
        /\ task' = [k \in Kids |-> IF k \in K /\ registry[k] # "absent"
                       THEN [task[k] EXCEPT !.tell = IF stop.force THEN "cancel" ELSE "yield"]
                       ELSE task[k]]
        /\ stop' = [stop EXCEPT !.pc = "tell", !.seen = [k \in Kids |-> "none"]]
        /\ UNCHANGED actor
     \/ ~fits /\ NoFault /\ StopFails /\ UNCHANGED <<kid, lease, task>>
     \/ Fault /\ StopFails /\ UNCHANGED <<kid, lease, task>>
  /\ UNCHANGED <<parent, registry, phase, crashes>>

\* After the lock: request_yield, or cancel and abort.
Tell(k) ==
  /\ Up /\ task[k].tell # "none"
  /\ task' = [task EXCEPT ![k].tell = "none",
                          ![k].told = IF @ = "cancel" THEN @ ELSE task[k].tell,
                          ![k].aborted = @ \/ task[k].tell = "cancel"]
  /\ UNCHANGED <<durable, registry, stopping, phase, faults, crashes>>

StopDone ==
  /\ StopIn({"tell"})
  /\ \A k \in Kids : task[k].tell = "none"
  /\ stop' = [stop EXCEPT !.pc = "done"]
  /\ UNCHANGED <<durable, task, registry, actor, phase, faults, crashes>>

\* The tick that retries pending parent stop compensations.
StopRetry ==
  /\ StopIn({"retry"})
  /\ stop' = [stop EXCEPT !.pc = "read"]
  /\ UNCHANGED <<durable, task, registry, actor, phase, faults, crashes>>

\* The actor fails for a reason of its own; the supervisor force-stops the children.
ActorFails ==
  /\ Fault /\ Up /\ actor = "up" /\ parent # "ended" /\ stop.pc \in {"idle", "done"}
  /\ actor' = "failed"
  /\ stop' = [NoStop EXCEPT !.pc = "read", !.force = TRUE]
  /\ UNCHANGED <<durable, task, registry, phase, crashes>>

\* persist_actor_failure, once the compensation was tried.
ParentFails ==
  /\ Up /\ actor = "failed" /\ parent # "ended"
  /\ stop.pc \in {"tell", "done", "retry"}
  /\ parent' = "ended"
  /\ UNCHANGED <<kid, lease, task, registry, stopping, phase, faults, crashes>>

\* The parent's engine ends when the calls it waits for have returned.
ParentEnds ==
  /\ Up /\ actor = "up" /\ parent # "ended" /\ stop.pc \in {"idle", "done"}
  /\ \A k \in Kids : task[k].starter \in {"idle", "done", "rolled_back"}
  /\ parent' = "ended"
  /\ UNCHANGED <<kid, lease, task, registry, stopping, phase, faults, crashes>>

-----------------------------------------------------------------------------
(* Crash and restart *)

Crash ==
  /\ Up /\ crashes < MaxCrashes
  /\ crashes' = crashes + 1
  /\ phase' = "down"
  /\ task' = [k \in Kids |-> IF task[k].starter = "idle" THEN NoTask
                             ELSE [NoTask EXCEPT !.starter = "done"]]
  /\ registry' = [k \in Kids |-> "absent"]
  /\ stop' = NoStop /\ actor' = "up"
  /\ UNCHANGED <<durable, faults>>

\* recover_startup ends the run of every task, a child's as well as the parent's.
RecoverStartup ==
  /\ phase = "down"
  /\ phase' = "recovered"
  /\ parent' = "ended"
  /\ kid' = [k \in Kids |-> [kid[k] EXCEPT !.run = IF @ \in {"running", "waiting"} THEN "interrupted" ELSE @]]
  /\ UNCHANGED <<lease, task, registry, stopping, faults, crashes>>

\* Supervisor::start: recover_subagent_actor of each child that is not terminal;
\* one that is refused ends the daemon.
RecoverSubagent(k) ==
  /\ phase = "recovered" /\ Live(k)
  /\ IF MayEnd(k)
     THEN /\ kid' = [kid EXCEPT ![k].state = "failed", ![k].run = "ended"]
          /\ IF kid[k].recorded THEN Release(k) ELSE UNCHANGED lease
          /\ UNCHANGED phase
     ELSE phase' = "down" /\ UNCHANGED <<kid, lease>>
  /\ UNCHANGED <<parent, task, registry, stopping, faults, crashes>>

\* recover_terminal_task_leases: the leases of ended task are released.
Boot ==
  /\ phase = "recovered" /\ \A k \in Kids : ~Live(k)
  /\ lease' \in {l \in [Kids -> Leases] :
       \A k \in Kids : IF lease[k] \in {"none", "released"} THEN l[k] = lease[k]
                       ELSE l[k] \in {"released", "cleanup_blocked"}}
  /\ phase' = "up"
  /\ UNCHANGED <<kid, parent, task, registry, stopping, faults, crashes>>

-----------------------------------------------------------------------------
Starting(k) ==
  \/ \E d \in BOOLEAN : Start(k, d)
  \/ Acquire(k) \/ Record(k) \/ Fail(k) \/ Unwind(k) \/ Make(k) \/ Register(k)
  \/ Detach(k) \/ Publish(k) \/ SendStart(k) \/ Rollback(k)
  \/ CallerDropped(k) \/ CancelChild(k)

Running(k) ==
  \/ Ask(k) \/ Settle(k) \/ ExecAborted(k)
  \/ \E o \in Ended : ExecEnd(k, o)
  \/ FinishRead(k) \/ FinishApply(k) \/ FinishRelease(k) \/ FinishRemove(k)

Stopping ==
  \/ \E force \in BOOLEAN : ParentStop(force)
  \/ StopRead \/ StopCommit \/ StopDone \/ StopRetry
  \/ \E k \in Kids : Tell(k)
  \/ ActorFails \/ ParentFails \/ ParentEnds

Restarting == Crash \/ RecoverStartup \/ Boot \/ \E k \in Kids : RecoverSubagent(k)

Next == Stopping \/ Restarting \/ \E k \in Kids : Starting(k) \/ Running(k)

Spec == Init /\ [][Next]_vars

\* Threads that have begun go on, an aborted or cancelled execution ends, a
\* finisher runs to its end, and a daemon that is down is started again.
FairSpec ==
  /\ Spec
  /\ WF_vars(StopRead) /\ WF_vars(StopCommit) /\ WF_vars(StopDone)
  /\ WF_vars(RecoverStartup) /\ WF_vars(Boot)
  /\ \A k \in Kids :
       /\ WF_vars(Acquire(k) \/ Record(k) \/ Fail(k) \/ Unwind(k) \/ Make(k))
       /\ SF_vars(Register(k) \/ Detach(k) \/ Publish(k) \/ SendStart(k) \/ Rollback(k))
       /\ WF_vars(Tell(k)) /\ WF_vars(RecoverSubagent(k))
       /\ WF_vars(ExecAborted(k)) /\ WF_vars(task[k].told # "none" /\ \E o \in Ended : ExecEnd(k, o))
       /\ SF_vars(FinishRead(k) \/ FinishApply(k) \/ FinishRelease(k) \/ FinishRemove(k))

-----------------------------------------------------------------------------
(* Properties *)

\* The variables keep their types.
TypeOK ==
  /\ kid \in [Kids -> [state : States, detached : BOOLEAN, recorded : BOOLEAN,
                       run : {"none", "running", "waiting", "interrupted", "ended"}]]
  /\ lease \in [Kids -> Leases]
  /\ parent \in {"running", "yielding", "ended"}
  /\ task \in [Kids -> [starter : Starters, detach : BOOLEAN,
                        exec : Ended \cup {"none", "parked", "running"},
                        told : {"none", "yield", "cancel"}, tell : {"none", "yield", "cancel"},
                        aborted : BOOLEAN, result : {"none", "ok", "error"},
                        fin : {"none", "wait", "apply", "release", "remove", "done"}]]
  /\ registry \in [Kids -> {"absent", "attached", "detached"}]
  /\ stop \in [pc : {"idle", "read", "commit", "tell", "done", "retry"}, force : BOOLEAN,
               tries : 0..2, seen : [Kids -> Nonterminal \cup {"none"}]]
  /\ actor \in {"up", "failed"} /\ phase \in {"up", "down", "recovered"}
  /\ faults \in 0..MaxFaults /\ crashes \in 0..MaxCrashes

\* Once request_parent_stop has returned, every attached child that has not
\* ended is yielding, and its execution was told or will be when it registers.
StopHeeded ==
  stop.pc = "done" /\ actor = "up" /\ parent = "yielding" =>
    \A k \in Kids : Live(k) /\ ~kid[k].detached =>
      /\ ~stop.force /\ kid[k].state = "yielding"
      /\ registry[k] # "absent" => task[k].told # "none"

\* The execution of a child the user let go on in the background is aborted
\* only when the start of its team is rolled back, never by a stop of the parent
\* or by a caller that gave up (continue_in_background, cancel_attached_child).
DetachedSpared ==
  \A k \in Kids : kid[k].detached /\ task[k].aborted => task[k].starter = "rolled_back"

\* A child's terminal state is final: a finisher, a force stop and a recovery that
\* read the child before never record a second end.
TerminalFinal ==
  [][\A k \in Kids : kid[k].state \in Terminal => kid'[k].state = kid[k].state]_vars

\* A child whose finisher could not record its end keeps its worktree lease, so
\* that a later recovery finds the work (finish_child).
UnrecordedKeepsLease ==
  \A k \in Kids : task[k].fin # "none" /\ Live(k) => lease[k] = "active"

\* The caller of a child is told of success only if the success is durable.
SuccessDurable ==
  \A k \in Kids : task[k].result = "ok" => kid[k].state = "completed"

\* The execution of a child that was durably cancelled ends, whether the stop came
\* before or after the child was registered.
CancelledStops ==
  \A k \in Kids : kid[k].state = "cancelled" ~> task[k].exec \notin {"parked", "running"}

\* Without store errors, a child that ends while its starter or its finisher has
\* not given up its lease loses the lease to cleanup (released, or blocked by its
\* changes), also when a force stop overtook the start.
EndedReleases ==
  \A k \in Kids : (kid[k].state \in Terminal /\ task[k].fin \notin {"remove", "done"}) ~>
    (lease[k] \notin {"active", "cleanup_pending"} \/ faults > 0 \/ phase # "up")

\* Supervisor start recovers children that cannot be reconnected, so a daemon that
\* went down comes up again.
Reboots == phase = "down" ~> phase = "up"

\* A stop ends or yields the children; no state of a child makes the parent's
\* actor fail.  Checked without store errors.
StopNeverFailsActor == actor # "failed"
=============================================================================
