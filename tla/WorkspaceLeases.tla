--------------------------- MODULE WorkspaceLeases ---------------------------
(***************************************************************************)
(* Workspace leases of the daemon: the lease table of the task store       *)
(* (task_store.rs), the coordinator that drives it (workspace.rs) and the  *)
(* threads that run inside it: tool dispatches, the creation of a managed  *)
(* worktree and its cleanup.                                               *)
(*                                                                         *)
(* A step is one SQLite transaction, one git or file-system call, or one   *)
(* critical section of an in-memory mutex.  Time is the set `due' of the   *)
(* leases whose expires_at has passed.                                     *)
(***************************************************************************)
EXTENDS Naturals, FiniteSets

CONSTANTS Leases,      \* lease identifiers that may ever be allocated
          Roots,       \* canonical workspace roots
          Threads,     \* threads that call the coordinator
          Modes,       \* modes a request may ask for (non-git roots: no managed)
          Expiries,    \* whether a request may carry an expires_at
          MaxCrashes,  \* bound on daemon crashes
          NoLease

ASSUME ModesAssumption == Modes \subseteq {"current", "managed"}
ASSUME ExpiriesAssumption == Expiries \subseteq BOOLEAN
ASSUME RootsAssumption == Roots # {}
ASSUME NoLeaseAssumption == NoLease \notin Leases

VARIABLES lease,       \* workspace_leases table
          nextRow,     \* next SQLite rowid
          due,         \* leases whose expires_at is in the past
          tree,        \* the managed worktree directory of each lease
          thread,      \* what each thread is doing
          guards,      \* workspace_dispatches: who holds a dispatch guard
          inflight,    \* threads with a file operation in flight
          phase,       \* "up", or the stage WorkspaceCoordinator::new is in
          crashes

vars == <<lease, nextRow, due, tree, thread, guards, inflight, phase, crashes>>

LeaseStates == {"free", "preparing", "waiting", "active", "cleanup_pending",
                "cleanup_blocked", "released", "expired"}
LeaseRecord == [state : LeaseStates, root : Roots, mode : {"current", "managed"},
                writable : BOOLEAN, expires : BOOLEAN, row : Nat]

Steps == {"idle",
          "create", "activate", "abandon", "discard",             \* acquire, managed
          "expired", "inspect", "remove", "block", "release",     \* cleanup_managed
          "authorized", "begun", "executing", "draining"}         \* dispatch_tool
Kinds == {"none", "managed", "read", "write", "override"}
ThreadRecord == [step : Steps, lease : Leases \cup {NoLease}, kind : Kinds]

Idle == [step |-> "idle", lease |-> NoLease, kind |-> "none"]
At(step, l, kind) == [step |-> step, lease |-> l, kind |-> kind]

\* What a managed worktree holds of its tools' work: nothing, changes that git status shows,
\* or only work it does not show, in files git ignores and in commits on the tree's branch.
Contents == {"clean", "dirty", "hidden"}

FreeLease == [state |-> "free", root |-> CHOOSE r \in Roots : TRUE, mode |-> "current",
              writable |-> FALSE, expires |-> FALSE, row |-> 0]

Init ==
  /\ lease = [l \in Leases |-> FreeLease]
  /\ nextRow = 1
  /\ due = {}
  /\ tree = [l \in Leases |-> "absent"]
  /\ thread = [t \in Threads |-> Idle]
  /\ guards = [l \in Leases |-> {}]
  /\ inflight = {}
  /\ phase = "up"
  /\ crashes = 0

-----------------------------------------------------------------------------
(* The lease table *)

Active(table, r) == {l \in Leases : table[l].state = "active" /\ table[l].root = r}
ActiveCurrent(table, r) == {l \in Active(table, r) : table[l].mode = "current"}
Waiters(table, r) ==
  {l \in Leases : table[l].state = "waiting" /\ table[l].root = r /\ table[l].mode = "current"}

\* Mutant: a reader no longer queues behind a waiting writer.
HasConflictNoQueue(r, writable) ==
  \E m \in ActiveCurrent(lease, r) : writable \/ lease[m].writable
\* Mutant: a writer is granted next to active readers.
HasConflictReadersIgnored(r, writable) ==
  \E m \in ActiveCurrent(lease, r) : lease[m].writable

\* has_conflict of acquire_workspace_lease: only leases of mode "current" count.
HasConflict(r, writable) ==
  \/ \E m \in ActiveCurrent(lease, r) : writable \/ lease[m].writable
  \/ ~writable /\ \E m \in Waiters(lease, r) : lease[m].writable

\* The loop over the waiters of a root, in rowid order, after a lease of that
\* root has left the table.  The loop ends at the first waiter that has not
\* expired and is either blocked or a writer; an expired waiter it meets is
\* expired, and the others are admitted.  Here, unlike in HasConflict, the
\* active leases of every mode count.
StopsWalk(table, r, w) ==
  /\ w \in Waiters(table, r) \ due
  /\ table[w].writable \/ \E m \in Active(table, r) : table[m].writable

Reached(table, r) ==
  {w \in Waiters(table, r) :
     \A s \in Waiters(table, r) : StopsWalk(table, r, s) => table[w].row <= table[s].row}

Admitted(table, r) ==
  {w \in Reached(table, r) \ due :
     IF table[w].writable
     THEN Active(table, r) = {} /\ \A v \in Reached(table, r) \ due : v = w
     ELSE \A m \in Active(table, r) : ~table[m].writable}

\* Mutant: the state column gets the name of the event.
WalkWaitersEventName(table, r) ==
  [l \in Leases |->
     IF l \in Admitted(table, r) THEN [table[l] EXCEPT !.state = "acquired"]
     ELSE IF l \in Reached(table, r) \cap due THEN [table[l] EXCEPT !.state = "expired"]
     ELSE table[l]]
\* Mutant: nobody is told of the release.
WalkWaitersNobody(table, r) == table

WalkWaiters(table, r) ==
  [l \in Leases |->
     IF l \in Admitted(table, r) THEN [table[l] EXCEPT !.state = "active"]
     ELSE IF l \in Reached(table, r) \cap due THEN [table[l] EXCEPT !.state = "expired"]
     ELSE table[l]]

\* Mutant: a release that forgets the dispatches in flight.
ReleasableUnfenced(l) ==
  lease[l].state \in {"active", "waiting", "preparing", "cleanup_pending"}

\* transition_workspace_lease: leave the table, then serve the waiters.
Releasable(l) ==
  /\ guards[l] = {}
  /\ lease[l].state \in {"active", "waiting", "preparing", "cleanup_pending"}
Transition(l, terminal) ==
  lease' = WalkWaiters([lease EXCEPT ![l].state = terminal], lease[l].root)

SetState(l, state) == lease' = [lease EXCEPT ![l].state = state]

Insert(l, r, mode, writable, expires, state) ==
  /\ lease[l].state = "free"
  /\ lease' = [lease EXCEPT ![l] = [state |-> state, root |-> r, mode |-> mode,
                 writable |-> writable, expires |-> expires, row |-> nextRow]]
  /\ nextRow' = nextRow + 1

-----------------------------------------------------------------------------
(* Coordinator operations on leases of mode "current": one transaction each *)

AcquireCurrent(l, r, writable, expires) ==
  /\ phase = "up" /\ "current" \in Modes
  /\ Insert(l, r, "current", writable, expires,
            IF HasConflict(r, writable) THEN "waiting" ELSE "active")
  /\ UNCHANGED <<due, tree, thread, guards, inflight, phase, crashes>>

ReleaseCurrent(l) ==
  /\ phase = "up"
  /\ lease[l].mode = "current" /\ Releasable(l)
  /\ Transition(l, "released")
  /\ UNCHANGED <<nextRow, due, tree, thread, guards, inflight, phase, crashes>>

-----------------------------------------------------------------------------
(* Managed worktrees: acquire, expire_stale and cleanup_managed, each of     *)
(* several transactions and git calls that other threads interleave with.    *)

Go(t, step) == thread' = [thread EXCEPT ![t].step = step]
Stop(t) == thread' = [thread EXCEPT ![t] = Idle]
OnLease(t, step) == thread[t].step = step

PrepareManaged(t, l, r, writable, expires) ==
  /\ phase = "up" /\ thread[t] = Idle /\ "managed" \in Modes
  /\ Insert(l, r, "managed", writable, expires, "preparing")
  /\ thread' = [thread EXCEPT ![t] = At("create", l, "managed")]
  /\ UNCHANGED <<due, tree, guards, inflight, phase, crashes>>

\* git worktree add refuses an existing path; a failure may leave a partial tree.
CreateWorktree(t) ==
  LET l == thread[t].lease IN
  /\ OnLease(t, "create")
  /\ \/ tree[l] = "absent" /\ tree' = [tree EXCEPT ![l] = "clean"] /\ Go(t, "activate")
     \/ UNCHANGED tree /\ Go(t, "abandon")
     \/ tree[l] = "absent" /\ tree' = [tree EXCEPT ![l] = "clean"] /\ Go(t, "abandon")
  /\ UNCHANGED <<lease, nextRow, due, guards, inflight, phase, crashes>>

ActivateManaged(t) ==
  LET l == thread[t].lease IN
  /\ OnLease(t, "activate")
  /\ IF lease[l].state = "preparing" THEN SetState(l, "active") ELSE UNCHANGED lease
  /\ Stop(t)
  /\ UNCHANGED <<nextRow, due, tree, guards, inflight, phase, crashes>>

CleanupSteps == {"inspect", "remove", "block", "release", "discard"}
CleanupStates == {"active", "preparing", "expired", "cleanup_blocked", "cleanup_pending"}
CanMarkPending(l) ==
  guards[l] = {} /\ lease[l].mode = "managed" /\ lease[l].state \in CleanupStates

\* Creation failed: mark_workspace_cleanup_pending, discard, release; each
\* step only if the one before it succeeded.
AbandonWorktree(t) ==
  LET l == thread[t].lease IN
  /\ OnLease(t, "abandon")
  /\ IF CanMarkPending(l) THEN SetState(l, "cleanup_pending") /\ Go(t, "discard")
                          ELSE UNCHANGED lease /\ Stop(t)
  /\ UNCHANGED <<nextRow, due, tree, guards, inflight, phase, crashes>>

DiscardPartialWorktree(t) ==
  LET l == thread[t].lease IN
  /\ OnLease(t, "discard")
  /\ \/ tree' = [tree EXCEPT ![l] = "absent"] /\ Go(t, "release")
     \/ UNCHANGED tree /\ Stop(t)
  /\ UNCHANGED <<lease, nextRow, due, guards, inflight, phase, crashes>>

BeginCleanup(t, l) ==
  /\ thread[t] = Idle
  /\ \/ phase = "up"
     \/ phase = "reconciling" /\ lease[l].state \in {"expired", "cleanup_pending"}
  /\ CanMarkPending(l)
  /\ SetState(l, "cleanup_pending")
  /\ thread' = [thread EXCEPT ![t] = At("inspect", l, "managed")]
  /\ UNCHANGED <<nextRow, due, tree, guards, inflight, phase, crashes>>

\* expire_workspace_leases for one lease; the coordinator cleans up after a
\* managed one.  A lease with a dispatch in flight is skipped until later.
ExpireLease(t, l) ==
  /\ thread[t] = Idle /\ phase \in {"up", "expiring"}
  /\ l \in due /\ guards[l] = {}
  /\ lease[l].state \in {"active", "waiting", "preparing"}
  /\ Transition(l, "expired")
  /\ thread' = IF lease[l].mode = "managed"
               THEN [thread EXCEPT ![t] = At("expired", l, "managed")] ELSE thread
  /\ UNCHANGED <<nextRow, due, tree, guards, inflight, phase, crashes>>

CleanupExpired(t) ==
  LET l == thread[t].lease IN
  /\ OnLease(t, "expired")
  /\ IF CanMarkPending(l) THEN SetState(l, "cleanup_pending") /\ Go(t, "inspect")
                          ELSE UNCHANGED lease /\ Stop(t)
  /\ UNCHANGED <<nextRow, due, tree, guards, inflight, phase, crashes>>

\* Mutant: the tree is removed as soon as its patch has been written.
AfterInspectionRemoveDirty(l) == IF tree[l] = "absent" THEN "release" ELSE "remove"

\* is_path_dirty_for_cleanup: git status --porcelain names a path.
StatusShows(l) == tree[l] = "dirty"

\* A tree git status shows changes of gets a patch artifact and stays, any other is
\* removed, with its branch; a git error ends the cleanup and leaves the lease
\* cleanup_pending.
AfterInspection(l) ==
  CASE tree[l] = "absent"                    -> "release"
    [] tree[l] # "absent" /\ StatusShows(l)  -> "block"
    [] tree[l] # "absent" /\ ~StatusShows(l) -> "remove"

InspectWorktree(t) ==
  LET l == thread[t].lease IN
  /\ OnLease(t, "inspect")
  /\ \/ Go(t, AfterInspection(l))
     \/ tree[l] # "absent" /\ Stop(t)
  /\ UNCHANGED <<lease, nextRow, due, tree, guards, inflight, phase, crashes>>

RemoveWorktree(t) ==
  LET l == thread[t].lease IN
  /\ OnLease(t, "remove")
  /\ \/ tree' = [tree EXCEPT ![l] = "absent"] /\ Go(t, "release")
     \/ UNCHANGED tree /\ Stop(t)
  /\ UNCHANGED <<lease, nextRow, due, guards, inflight, phase, crashes>>

ReleaseManaged(t) ==
  LET l == thread[t].lease IN
  /\ OnLease(t, "release")
  /\ IF Releasable(l) THEN Transition(l, "released") ELSE UNCHANGED lease
  /\ Stop(t)
  /\ UNCHANGED <<nextRow, due, tree, guards, inflight, phase, crashes>>

\* mark_workspace_cleanup_blocked does not serve the waiters.
BlockCleanup(t) ==
  LET l == thread[t].lease IN
  /\ OnLease(t, "block")
  /\ IF guards[l] = {} /\ lease[l].state \in {"active", "cleanup_pending"}
     THEN SetState(l, "cleanup_blocked") ELSE UNCHANGED lease
  /\ Stop(t)
  /\ UNCHANGED <<nextRow, due, tree, guards, inflight, phase, crashes>>

\* The user throws the retained changes away or commits them; the lease may be cleaned up
\* again.
UserDiscardsChanges(l) ==
  /\ phase = "up"
  /\ lease[l].state = "cleanup_blocked" /\ tree[l] = "dirty"
  /\ \E left \in {"clean", "hidden"} : tree' = [tree EXCEPT ![l] = left]
  /\ UNCHANGED <<lease, nextRow, due, thread, guards, inflight, phase, crashes>>

\* A subagent reaches a terminal state: the transaction that records it detaches
\* the child's worktree, and unlike mark_workspace_cleanup_pending it does not ask
\* whether a dispatch is in flight.  A child's lease is writable and never expires.
DetachSubagentWorktree(l) ==
  /\ phase = "up"
  /\ lease[l].mode = "managed" /\ lease[l].writable /\ ~lease[l].expires
  /\ lease[l].state \in CleanupStates \ {"cleanup_pending"}
  /\ SetState(l, "cleanup_pending")
  /\ UNCHANGED <<nextRow, due, tree, thread, guards, inflight, phase, crashes>>

-----------------------------------------------------------------------------
(* Tool dispatch: authorize, take the guard, authorize again, execute.  The  *)
(* executor may hand its authorization to other tasks, so returning seals it *)
(* and waits for their file operations before the guard is dropped.          *)

\* Mutant: authorization that looks at the active leases but not at this one's access.
AuthorizedAnyAccess(l, kind) == lease[l].state = "active"

\* authorize_tool: exclusivity looks at the active leases of every mode.
Authorized(l, kind) ==
  /\ lease[l].state = "active"
  /\ kind = "write" =>
       /\ lease[l].writable
       /\ lease[l].mode = "managed" \/ Active(lease, lease[l].root) = {l}

AuthorizeTool(t, l, kind) ==
  /\ phase = "up" /\ thread[t] = Idle
  /\ kind \in {"read", "write"} /\ Authorized(l, kind)
  /\ thread' = [thread EXCEPT ![t] = At("authorized", l, kind)]
  /\ UNCHANGED <<lease, nextRow, due, tree, guards, inflight, phase, crashes>>

\* dispatch_override: an audited write without the exclusivity check.
AuthorizeOverride(t, l) ==
  /\ phase = "up" /\ thread[t] = Idle
  /\ lease[l].state = "active" /\ lease[l].mode = "current"
  /\ thread' = [thread EXCEPT ![t] = At("authorized", l, "override")]
  /\ UNCHANGED <<lease, nextRow, due, tree, guards, inflight, phase, crashes>>

BeginDispatch(t) ==
  LET l == thread[t].lease IN
  /\ OnLease(t, "authorized")
  /\ IF lease[l].state = "active"
     THEN guards' = [guards EXCEPT ![l] = @ \cup {t}] /\ Go(t, "begun")
     ELSE UNCHANGED guards /\ Stop(t)
  /\ UNCHANGED <<lease, nextRow, due, tree, inflight, phase, crashes>>

DropGuard(t, l) == guards' = [guards EXCEPT ![l] = @ \ {t}]

Reauthorize(t) ==
  LET l == thread[t].lease IN
  /\ OnLease(t, "begun")
  /\ IF Authorized(l, thread[t].kind)
     THEN UNCHANGED guards /\ Go(t, "executing")
     ELSE DropGuard(t, l) /\ Stop(t)
  /\ UNCHANGED <<lease, nextRow, due, tree, inflight, phase, crashes>>

BeginFileOperation(t) ==
  /\ OnLease(t, "executing") /\ t \notin inflight
  /\ inflight' = inflight \cup {t}
  /\ UNCHANGED <<lease, nextRow, due, tree, thread, guards, phase, crashes>>

FinishFileOperation(t) ==
  LET l == thread[t].lease IN
  /\ t \in inflight
  /\ inflight' = inflight \ {t}
  /\ IF lease[l].mode = "managed" /\ thread[t].kind = "write"
     THEN \E left \in Contents : tree' = [tree EXCEPT ![l] = left]
     ELSE UNCHANGED tree
  /\ UNCHANGED <<lease, nextRow, due, thread, guards, phase, crashes>>

SealAuthorization(t) ==
  /\ OnLease(t, "executing")
  /\ Go(t, "draining")
  /\ UNCHANGED <<lease, nextRow, due, tree, guards, inflight, phase, crashes>>

EndDispatch(t) ==
  /\ OnLease(t, "draining") /\ t \notin inflight
  /\ DropGuard(t, thread[t].lease) /\ Stop(t)
  /\ UNCHANGED <<lease, nextRow, due, tree, inflight, phase, crashes>>

-----------------------------------------------------------------------------
(* Time, crashes and the startup of WorkspaceCoordinator::new *)

ClockPasses(l) ==
  /\ lease[l].state # "free" /\ lease[l].expires /\ l \notin due
  /\ due' = due \cup {l}
  /\ UNCHANGED <<lease, nextRow, tree, thread, guards, inflight, phase, crashes>>

\* The table and the worktrees survive; guards, threads and operations do not.
Crash ==
  /\ crashes < MaxCrashes
  /\ crashes' = crashes + 1
  /\ phase' = "expiring"
  /\ thread' = [t \in Threads |-> Idle]
  /\ guards' = [l \in Leases |-> {}]
  /\ inflight' = {}
  /\ UNCHANGED <<lease, nextRow, due, tree>>

\* new: expire_stale first, then reconcile_managed_worktrees.
AllIdle == \A t \in Threads : thread[t] = Idle
ExpiryDone ==
  /\ phase = "expiring" /\ AllIdle
  /\ \A l \in due : lease[l].state \notin {"active", "waiting", "preparing"}
  /\ phase' = "reconciling"
  /\ UNCHANGED <<lease, nextRow, due, tree, thread, guards, inflight, crashes>>

\* A preparing lease: keep a valid worktree or make a new one, then activate.
ReconcilePreparing(l) ==
  /\ phase = "reconciling" /\ lease[l].state = "preparing"
  /\ tree' = [tree EXCEPT ![l] = "clean"]
  /\ SetState(l, "active")
  /\ UNCHANGED <<nextRow, due, thread, guards, inflight, phase, crashes>>

\* recoverable_managed_workspace_leases
Recoverable(l) ==
  lease[l].mode = "managed" /\ lease[l].state \in {"preparing", "expired", "cleanup_pending"}

StartupDone ==
  /\ phase = "reconciling" /\ AllIdle
  /\ \A l \in Leases : ~Recoverable(l)
  /\ phase' = "up"
  /\ UNCHANGED <<lease, nextRow, due, tree, thread, guards, inflight, crashes>>

-----------------------------------------------------------------------------
ThreadStep(t) ==
  \/ CreateWorktree(t) \/ ActivateManaged(t) \/ AbandonWorktree(t)
  \/ DiscardPartialWorktree(t) \/ CleanupExpired(t) \/ InspectWorktree(t)
  \/ RemoveWorktree(t) \/ ReleaseManaged(t) \/ BlockCleanup(t)
  \/ BeginDispatch(t) \/ Reauthorize(t) \/ BeginFileOperation(t)
  \/ FinishFileOperation(t) \/ SealAuthorization(t) \/ EndDispatch(t)

Next ==
  \/ \E l \in Leases, r \in Roots, writable \in BOOLEAN, expires \in Expiries :
       \/ AcquireCurrent(l, r, writable, expires)
       \/ \E t \in Threads : PrepareManaged(t, l, r, writable, expires)
  \/ \E l \in Leases : \/ ReleaseCurrent(l)
                       \/ UserDiscardsChanges(l)
                       \/ DetachSubagentWorktree(l)
                       \/ ClockPasses(l)
                       \/ ReconcilePreparing(l)
                       \/ \E t \in Threads :
                            \/ BeginCleanup(t, l)
                            \/ ExpireLease(t, l)
                            \/ AuthorizeOverride(t, l)
                            \/ \E kind \in {"read", "write"} : AuthorizeTool(t, l, kind)
  \/ \E t \in Threads : ThreadStep(t)
  \/ Crash
  \/ ExpiryDone
  \/ StartupDone

Spec == Init /\ [][Next]_vars

\* Every active lease is released in the end: its run ends, its actor releases
\* the leases of the task and retries each second while a dispatch is in flight,
\* and a terminal run starts no further dispatch.  Threads and startup go on.
FairSpec ==
  /\ Spec
  /\ \A l \in Leases : SF_vars(ReleaseCurrent(l) /\ lease[l].state = "active")
  /\ \A t \in Threads : /\ WF_vars(BeginDispatch(t)) /\ WF_vars(Reauthorize(t))
                        /\ WF_vars(FinishFileOperation(t))
                        /\ WF_vars(SealAuthorization(t)) /\ WF_vars(EndDispatch(t))
  /\ WF_vars(ExpiryDone) /\ WF_vars(StartupDone)
  /\ \A l \in Leases, t \in Threads : WF_vars(ExpireLease(t, l))

-----------------------------------------------------------------------------
(* Properties *)

\* Types of the lease table, the threads and the guards of the store.
TypeOK ==
  /\ lease \in [Leases -> LeaseRecord]
  /\ nextRow \in Nat
  /\ due \subseteq Leases
  /\ tree \in [Leases -> Contents \cup {"absent"}]
  /\ thread \in [Threads -> ThreadRecord]
  /\ guards \in [Leases -> SUBSET Threads]
  /\ inflight \subseteq Threads
  /\ phase \in {"up", "expiring", "reconciling"}
  /\ crashes \in Nat

\* An active write lease on the user's own checkout excludes every other active
\* lease on it, however grants, releases, expiries, waiter promotions and
\* restarts interleave (acquire_workspace_lease, transition_workspace_lease).
WriterExclusion ==
  \A l, m \in Leases :
    /\ l # m
    /\ lease[l].state = "active" /\ lease[l].mode = "current"
    /\ lease[m].state = "active" /\ lease[m].mode = "current"
    /\ lease[l].root = lease[m].root
    => ~lease[l].writable

\* No lease is released, expired or cleaned up under a running tool: until the last
\* file operation of a dispatch has drained its lease stays active, or is detached
\* because its subagent ended, and then nobody inspects or removes the worktree yet
\* (begin_workspace_dispatch against transition_workspace_lease and cleanup_managed).
InUse(t) == thread[t].step \in {"executing", "draining"} \/ t \in inflight
Usable(l) ==
  \/ lease[l].state = "active"
  \/ lease[l].mode = "managed" /\ lease[l].state = "cleanup_pending"
DispatchFenced ==
  \A t \in Threads : InUse(t) =>
    /\ Usable(thread[t].lease)
    /\ \A u \in Threads : thread[u].step \in CleanupSteps => thread[u].lease # thread[t].lease

\* While a tool writes to a checkout no tool of another lease touches it, although
\* exclusivity is checked before the guard is taken and the table can change
\* between the two (dispatch_tool).
WriteIsolation ==
  \A t, u \in Threads :
    LET l == thread[t].lease  m == thread[u].lease IN
    /\ InUse(t) /\ thread[t].kind = "write" /\ lease[l].mode = "current"
    /\ InUse(u) /\ lease[m].mode = "current"
    /\ lease[l].root = lease[m].root
    => l = m

\* Cleanup looks at a worktree in one step and removes it with --force in a later one, yet
\* work of a tool goes only in three ways: a tool of the lease changes it, the user does
\* once the patch has been kept, or cleanup_managed removes what git status did not show.
\* The discard of a partial tree and the reconciliation after a crash remove no work at all
\* (cleanup_managed, discard_partial_worktree, reconcile_managed_worktrees).
ByTool(l) == \E t \in inflight : thread[t].lease = l /\ t \notin inflight'
ByUser(l) == lease[l].state = "cleanup_blocked" /\ thread' = thread
Unseen(l) ==
  /\ tree[l] = "hidden"
  /\ \E t \in Threads : thread[t].step = "remove" /\ thread[t].lease = l
ShownWorkKept ==
  [][\A l \in Leases : tree[l] \in {"dirty", "hidden"} /\ tree'[l] # tree[l]
        => ByTool(l) \/ ByUser(l) \/ Unseen(l)]_vars

\* A waiting lease always waits for somebody who has yet to leave the table and
\* will then walk the waiters again: no wakeup is lost, and a task that found the
\* workspace busy gets it once the others are done.
NoStrandedWaiter ==
  \A l \in Leases : lease[l].state = "waiting" =>
    \E m \in Leases : /\ lease[m].root = lease[l].root
                      /\ lease[m].state \in {"active", "preparing", "cleanup_pending"}

\* Leases of one checkout are granted in the order they were asked for: nothing
\* becomes active past an earlier request that is still waiting.
FifoGrants ==
  [][\A l, m \in Leases :
       /\ lease[l].state = "waiting" /\ lease'[l].state = "waiting"
       /\ lease[m].state # "active" /\ lease'[m].state = "active"
       /\ lease'[m].mode = "current" /\ lease'[m].root = lease[l].root
       => lease'[m].row < lease[l].row]_vars

=============================================================================
