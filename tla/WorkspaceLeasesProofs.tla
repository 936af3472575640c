------------------------ MODULE WorkspaceLeasesProofs ------------------------
(***************************************************************************)
(* Proofs about WorkspaceLeases, for any number of leases, roots, threads  *)
(* and crashes.                                                            *)
(***************************************************************************)
EXTENDS WorkspaceLeases, WellFoundedInduction, TLAPS

-----------------------------------------------------------------------------
(* The lease table *)

\* Walking the waiters changes nothing but the state of waiting leases of the
\* root, which become active or expired (transition_workspace_lease).
LEMMA WalkKeeps ==
  ASSUME NEW table \in [Leases -> LeaseRecord], NEW r \in Roots
  PROVE  /\ WalkWaiters(table, r) \in [Leases -> LeaseRecord]
         /\ \A m \in Leases :
              LET w == WalkWaiters(table, r)[m] IN
              /\ w.root = table[m].root /\ w.mode = table[m].mode
              /\ w.writable = table[m].writable /\ w.row = table[m].row
              /\ \/ w = table[m]
                 \/ /\ m \in Waiters(table, r)
                    /\ m \in Admitted(table, r) /\ w.state = "active"
                 \/ m \in Waiters(table, r) /\ w.state = "expired"
  <1> DEFINE W == WalkWaiters(table, r)
  <1>1. Admitted(table, r) \subseteq Waiters(table, r) /\ Reached(table, r) \subseteq Waiters(table, r)
    BY DEF Admitted, Reached
  <1>2. ASSUME NEW m \in Leases
        PROVE  /\ W[m] \in LeaseRecord
               /\ W[m].root = table[m].root /\ W[m].mode = table[m].mode
               /\ W[m].writable = table[m].writable /\ W[m].row = table[m].row
               /\ \/ W[m] = table[m]
                  \/ /\ m \in Waiters(table, r)
                     /\ m \in Admitted(table, r) /\ W[m].state = "active"
                  \/ m \in Waiters(table, r) /\ W[m].state = "expired"
    <2>1. table[m] \in LeaseRecord
      OBVIOUS
    <2>2. CASE m \in Admitted(table, r)
      <3>1. W[m] = [table[m] EXCEPT !.state = "active"]
        BY <2>2 DEF WalkWaiters
      <3> QED  BY <1>1, <2>1, <2>2, <3>1 DEF LeaseRecord, LeaseStates
    <2>3. CASE m \notin Admitted(table, r) /\ m \in Reached(table, r) \cap due
      <3>1. W[m] = [table[m] EXCEPT !.state = "expired"]
        BY <2>3 DEF WalkWaiters
      <3> QED  BY <1>1, <2>1, <2>3, <3>1 DEF LeaseRecord, LeaseStates
    <2>4. CASE m \notin Admitted(table, r) /\ m \notin Reached(table, r) \cap due
      <3>1. W[m] = table[m]
        BY <2>4 DEF WalkWaiters
      <3> QED  BY <2>1, <3>1
    <2> QED  BY <2>2, <2>3, <2>4
  <1>3. W \in [Leases -> LeaseRecord]
    BY <1>2 DEF WalkWaiters
  <1> QED  BY <1>2, <1>3

-----------------------------------------------------------------------------
(* Type correctness *)

\* A thread that is doing something works for some lease.
Placed == \A t \in Threads : thread[t].step # "idle" => thread[t].lease \in Leases
Typed == TypeOK /\ Placed

LEMMA InitTyped == Init => Typed
  BY RootsAssumption DEF Init, Typed, TypeOK, Placed, LeaseRecord, LeaseStates, FreeLease,
     ThreadRecord, Steps, Kinds, Idle

LEMMA StopTyped ==
  ASSUME Typed, NEW t \in Threads, Stop(t)
  PROVE  thread' \in [Threads -> ThreadRecord] /\ Placed'
  BY DEF Typed, Placed, TypeOK, Stop, Idle, ThreadRecord, Steps, Kinds

LEMMA GoTyped ==
  ASSUME Typed, NEW t \in Threads, NEW step \in Steps, Go(t, step), thread[t].step # "idle"
  PROVE  thread' \in [Threads -> ThreadRecord] /\ Placed'
  BY DEF Typed, Placed, TypeOK, Go, ThreadRecord

LEMMA AtTyped ==
  ASSUME Typed, NEW t \in Threads, NEW step \in Steps, NEW l \in Leases, NEW kind \in Kinds,
         thread' = [thread EXCEPT ![t] = At(step, l, kind)]
  PROVE  thread' \in [Threads -> ThreadRecord] /\ Placed'
  BY DEF Typed, Placed, TypeOK, At, ThreadRecord

LEMMA SetStateTyped ==
  ASSUME TypeOK, NEW l \in Leases, NEW state \in LeaseStates, SetState(l, state)
  PROVE  lease' \in [Leases -> LeaseRecord]
  BY DEF TypeOK, SetState, LeaseRecord

LEMMA InsertTyped ==
  ASSUME TypeOK, NEW l \in Leases, NEW r \in Roots, NEW mode \in {"current", "managed"},
         NEW writable \in BOOLEAN, NEW expires \in Expiries, NEW state \in LeaseStates,
         Insert(l, r, mode, writable, expires, state)
  PROVE  lease' \in [Leases -> LeaseRecord] /\ nextRow' \in Nat
  BY ExpiriesAssumption DEF TypeOK, Insert, LeaseRecord

\* What a lease leaving the table does to it and to the others.
LEMMA TransitionEffect ==
  ASSUME TypeOK, NEW l \in Leases, NEW terminal \in {"released", "expired"},
         Transition(l, terminal)
  PROVE  /\ lease' \in [Leases -> LeaseRecord]
         /\ lease'[l].state = terminal
         /\ \A m \in Leases :
              /\ lease'[m].root = lease[m].root /\ lease'[m].mode = lease[m].mode
              /\ lease'[m].writable = lease[m].writable /\ lease'[m].row = lease[m].row
              /\ m # l => \/ lease'[m].state = lease[m].state
                          \/ /\ lease[m].state = "waiting" /\ lease[m].mode = "current"
                             /\ lease'[m].state \in {"active", "expired"}
  <1> DEFINE T == [lease EXCEPT ![l].state = terminal]
  <1>1. T \in [Leases -> LeaseRecord] /\ lease[l].root \in Roots
    BY DEF TypeOK, LeaseRecord, LeaseStates
  <1>2. \A m \in Leases : /\ T[m].root = lease[m].root /\ T[m].mode = lease[m].mode
                          /\ T[m].writable = lease[m].writable /\ T[m].row = lease[m].row
                          /\ T[m].state = IF m = l THEN terminal ELSE lease[m].state
    BY DEF TypeOK, LeaseRecord
  <1>3. lease' = WalkWaiters(T, lease[l].root)
    BY DEF Transition
  <1> HIDE DEF T
  <1>4. \A m \in Waiters(T, lease[l].root) :
          m # l /\ lease[m].state = "waiting" /\ lease[m].mode = "current"
    BY <1>2 DEF Waiters
  <1> QED  BY <1>1, <1>2, <1>3, <1>4, WalkKeeps

\* Every thread step keeps the types.
LEMMA ThreadStepTyped ==
  ASSUME Typed, NEW t \in Threads, ThreadStep(t)
  PROVE  Typed'
  <1> DEFINE l == thread[t].lease
  <1>l. thread[t].step # "idle" => l \in Leases
    BY DEF Typed, Placed
  <1>s. \A step \in Steps : thread[t].step # "idle" /\ Go(t, step)
                              => thread' \in [Threads -> ThreadRecord] /\ Placed'
    BY GoTyped
  <1>i. Stop(t) => thread' \in [Threads -> ThreadRecord] /\ Placed'
    BY StopTyped
  <1>c. \A state \in LeaseStates : l \in Leases /\ SetState(l, state)
                                    => lease' \in [Leases -> LeaseRecord]
    BY SetStateTyped DEF Typed
  <1>d. TypeOK
    BY DEF Typed
  <1> USE <1>l, <1>s, <1>i, <1>c, <1>d
  <1> HIDE DEF l
  <1>1. CASE CreateWorktree(t)
    BY <1>1 DEF CreateWorktree, OnLease, Typed, TypeOK, Steps, l, Contents
  <1>2. CASE ActivateManaged(t)
    BY <1>2 DEF ActivateManaged, OnLease, Typed, TypeOK, LeaseStates, l
  <1>3. CASE AbandonWorktree(t)
    BY <1>3 DEF AbandonWorktree, OnLease, Typed, TypeOK, LeaseStates, Steps, l
  <1>4. CASE DiscardPartialWorktree(t)
    BY <1>4 DEF DiscardPartialWorktree, OnLease, Typed, TypeOK, Steps, l
  <1>5. CASE CleanupExpired(t)
    BY <1>5 DEF CleanupExpired, OnLease, Typed, TypeOK, LeaseStates, Steps, l
  <1>6. CASE InspectWorktree(t)
    <2>1. AfterInspection(l) \in {"release", "block", "remove"}
      BY <1>6 DEF InspectWorktree, OnLease, AfterInspection, TypeOK
    <2> QED  BY <1>6, <2>1 DEF InspectWorktree, OnLease, Typed, TypeOK, Steps, l
  <1>7. CASE RemoveWorktree(t)
    BY <1>7 DEF RemoveWorktree, OnLease, Typed, TypeOK, Steps, l
  <1>8. CASE ReleaseManaged(t)
    <2>1. l \in Leases
      BY <1>8 DEF ReleaseManaged, OnLease
    <2>2. lease' \in [Leases -> LeaseRecord]
      BY <1>8, <2>1, TransitionEffect DEF ReleaseManaged, TypeOK, l
    <2> QED  BY <1>8, <2>2 DEF ReleaseManaged, Typed, TypeOK
  <1>9. CASE BlockCleanup(t)
    BY <1>9 DEF BlockCleanup, OnLease, Typed, TypeOK, LeaseStates, l
  <1>10. CASE BeginDispatch(t)
    BY <1>10 DEF BeginDispatch, OnLease, Typed, TypeOK, Steps, l
  <1>11. CASE Reauthorize(t)
    BY <1>11 DEF Reauthorize, OnLease, DropGuard, Typed, TypeOK, Steps, l
  <1>12. CASE BeginFileOperation(t)
    BY <1>12 DEF BeginFileOperation, Typed, TypeOK, Placed
  <1>13. CASE FinishFileOperation(t)
    BY <1>13 DEF FinishFileOperation, Typed, TypeOK, Placed
  <1>14. CASE SealAuthorization(t)
    BY <1>14 DEF SealAuthorization, OnLease, Typed, TypeOK, Steps
  <1>15. CASE EndDispatch(t)
    BY <1>15 DEF EndDispatch, DropGuard, Typed, TypeOK
  <1> QED
    BY <1>1, <1>2, <1>3, <1>4, <1>5, <1>6, <1>7, <1>8, <1>9, <1>10, <1>11, <1>12,
       <1>13, <1>14, <1>15 DEF ThreadStep

\* Steps on one lease that no thread goes on with.
LEMMA LeaseStepTyped ==
  ASSUME Typed, NEW l \in Leases
  PROVE  /\ \A r \in Roots, writable \in BOOLEAN, expires \in Expiries :
              AcquireCurrent(l, r, writable, expires) => Typed'
         /\ ReleaseCurrent(l) => Typed'
         /\ UserDiscardsChanges(l) => Typed'
         /\ DetachSubagentWorktree(l) => Typed'
         /\ ClockPasses(l) => Typed'
         /\ ReconcilePreparing(l) => Typed'
  <1> USE DEF Typed, TypeOK, Placed
  <1>0. ASSUME NEW r \in Roots, NEW writable \in BOOLEAN, NEW expires \in Expiries,
               AcquireCurrent(l, r, writable, expires)
        PROVE  Typed'
    <2>1. lease' \in [Leases -> LeaseRecord] /\ nextRow' \in Nat
      BY <1>0, InsertTyped DEF AcquireCurrent, LeaseStates
    <2> QED  BY <1>0, <2>1 DEF AcquireCurrent
  <1>1. ReleaseCurrent(l) => Typed'
    BY TransitionEffect DEF ReleaseCurrent
  <1>2. UserDiscardsChanges(l) => Typed'
    BY DEF UserDiscardsChanges, Contents
  <1>3. ClockPasses(l) => Typed'
    BY DEF ClockPasses
  <1>4. ReconcilePreparing(l) => Typed'
    BY SetStateTyped DEF ReconcilePreparing, LeaseStates, Contents
  <1>5. DetachSubagentWorktree(l) => Typed'
    BY SetStateTyped DEF DetachSubagentWorktree, LeaseStates
  <1> QED  BY <1>0, <1>1, <1>2, <1>3, <1>4, <1>5

\* Steps with which a thread takes a lease up.
LEMMA TakeUpTyped ==
  ASSUME Typed, NEW l \in Leases, NEW t \in Threads
  PROVE  /\ \A r \in Roots, writable \in BOOLEAN, expires \in Expiries :
              PrepareManaged(t, l, r, writable, expires) => Typed'
         /\ BeginCleanup(t, l) => Typed'
         /\ ExpireLease(t, l) => Typed'
         /\ AuthorizeOverride(t, l) => Typed'
         /\ \A kind \in {"read", "write"} : AuthorizeTool(t, l, kind) => Typed'
  <1>d. TypeOK
    BY DEF Typed
  <1>a. \A step \in Steps, kind \in Kinds :
          thread' = [thread EXCEPT ![t] = At(step, l, kind)]
            => thread' \in [Threads -> ThreadRecord] /\ Placed'
    BY AtTyped
  <1> USE <1>d, <1>a
  <1>1. ASSUME NEW r \in Roots, NEW writable \in BOOLEAN, NEW expires \in Expiries,
               PrepareManaged(t, l, r, writable, expires)
        PROVE  Typed'
    <2>1. lease' \in [Leases -> LeaseRecord] /\ nextRow' \in Nat
      BY <1>1, InsertTyped DEF PrepareManaged, LeaseStates
    <2> QED  BY <1>1, <2>1 DEF PrepareManaged, Steps, Kinds, Typed, TypeOK
  <1>2. BeginCleanup(t, l) => Typed'
    BY SetStateTyped DEF BeginCleanup, LeaseStates, Steps, Kinds, Typed, TypeOK
  <1>3. ExpireLease(t, l) => Typed'
    BY TransitionEffect DEF ExpireLease, Steps, Kinds, Typed, TypeOK, Placed
  <1>4. AuthorizeOverride(t, l) => Typed'
    BY DEF AuthorizeOverride, Steps, Kinds, Typed, TypeOK
  <1>5. \A kind \in {"read", "write"} : AuthorizeTool(t, l, kind) => Typed'
    BY DEF AuthorizeTool, Steps, Kinds, Typed, TypeOK
  <1> QED  BY <1>1, <1>2, <1>3, <1>4, <1>5

LEMMA NextTyped == Typed /\ [Next]_vars => Typed'
  <1> SUFFICES ASSUME Typed, [Next]_vars PROVE Typed'
    OBVIOUS
  <1>1. ASSUME NEW t \in Threads, ThreadStep(t) PROVE Typed'
    BY <1>1, ThreadStepTyped
  <1>2. CASE Crash
    BY <1>2 DEF Crash, Typed, TypeOK, Placed, Idle, ThreadRecord, Steps, Kinds
  <1>3. CASE ExpiryDone \/ StartupDone
    BY <1>3 DEF ExpiryDone, StartupDone, Typed, TypeOK, Placed
  <1>4. CASE UNCHANGED vars
    BY <1>4 DEF vars, Typed, TypeOK, Placed
  <1> QED  BY <1>1, <1>2, <1>3, <1>4, LeaseStepTyped, TakeUpTyped DEF Next

\* The lease table, the worktrees, the threads and the dispatch guards have their
\* types, and a working thread has a lease, in every state the daemon reaches.
THEOREM TypeCorrect == Spec => []TypeOK
  <1>1. Typed => TypeOK
    BY DEF Typed
  <1> QED  BY <1>1, InitTyped, NextTyped, PTL DEF Spec

-----------------------------------------------------------------------------
(* Exclusion of writers *)

\* Only a managed lease is ever prepared, so activating one after its worktree
\* was made adds no reader or writer to the user's checkout.
PreparingManaged == \A l \in Leases : lease[l].state = "preparing" => lease[l].mode = "managed"
Exclusion == WriterExclusion /\ PreparingManaged

\* Admitting waiters behind a lease that left lets in one writer, alone, or
\* readers, next to readers.
LEMMA TransitionExcludes ==
  ASSUME Typed, Exclusion, NEW l \in Leases, NEW terminal \in {"released", "expired"},
         Transition(l, terminal)
  PROVE  Exclusion'
  <1> DEFINE T == [lease EXCEPT ![l].state = terminal]
             r == lease[l].root
  <1>1. T \in [Leases -> LeaseRecord] /\ r \in Roots
    BY DEF Typed, TypeOK, LeaseRecord, LeaseStates
  <1>2. \A m \in Leases : /\ T[m].root = lease[m].root /\ T[m].mode = lease[m].mode
                          /\ T[m].writable = lease[m].writable
                          /\ T[m].state = IF m = l THEN terminal ELSE lease[m].state
    BY DEF Typed, TypeOK, LeaseRecord
  <1>3. lease' = WalkWaiters(T, r)
    BY DEF Transition
  <1> HIDE DEF T, r
  <1>4. ASSUME NEW m \in Leases, lease'[m].state = "active"
        PROVE  \/ m # l /\ T[m].state = "active" /\ lease[m].state = "active"
               \/ m \in Admitted(T, r) /\ T[m].root = r
    <2>1. \/ lease'[m] = T[m]
          \/ m \in Waiters(T, r) /\ m \in Admitted(T, r)
      BY <1>1, <1>3, <1>4, WalkKeeps
    <2> QED  BY <1>2, <1>4, <2>1 DEF Waiters
  <1>5. \A m \in Leases : /\ lease'[m].root = lease[m].root /\ lease'[m].mode = lease[m].mode
                          /\ lease'[m].writable = lease[m].writable
    BY TransitionEffect DEF Typed
  <1>6. WriterExclusion'
    <2> SUFFICES ASSUME NEW x \in Leases, NEW y \in Leases, x # y,
                        lease'[x].state = "active", lease'[x].mode = "current",
                        lease'[y].state = "active", lease'[y].mode = "current",
                        lease'[x].root = lease'[y].root, lease[x].writable
                 PROVE  FALSE
      BY <1>5 DEF WriterExclusion
    <2>1. lease[x].root = lease[y].root
      BY <1>5
    <2>2. CASE lease[x].state = "active" /\ lease[y].state = "active"
      BY <1>5, <2>1, <2>2 DEF Exclusion, WriterExclusion
    <2>3. CASE T[x].state = "active" /\ y \in Admitted(T, r) /\ T[y].root = r
      <3>1. x \in Active(T, r) /\ T[x].writable
        BY <1>2, <2>1, <2>3 DEF Active
      <3> QED  BY <2>3, <3>1 DEF Admitted
    <2>4. CASE x \in Admitted(T, r) /\ T[x].root = r /\ T[y].state = "active"
      <3>1. y \in Active(T, r) /\ T[x].writable
        BY <1>2, <2>1, <2>4 DEF Active
      <3> QED  BY <2>4, <3>1 DEF Admitted
    <2>5. CASE x \in Admitted(T, r) /\ y \in Admitted(T, r)
      BY <1>2, <2>5 DEF Admitted
    <2> QED  BY <1>4, <2>2, <2>3, <2>4, <2>5
  <1>7. PreparingManaged'
    BY TransitionEffect DEF Typed, Exclusion, PreparingManaged
  <1> QED  BY <1>6, <1>7 DEF Exclusion

LEMMA SetStateExcludes ==
  ASSUME Typed, Exclusion, NEW l \in Leases,
         NEW state \in {"active", "cleanup_pending", "cleanup_blocked"},
         state = "active" => lease[l].mode = "managed", SetState(l, state)
  PROVE  Exclusion'
  BY DEF Typed, TypeOK, LeaseRecord, SetState, Exclusion, WriterExclusion, PreparingManaged

LEMMA InsertExcludes ==
  ASSUME Typed, Exclusion, NEW l \in Leases, NEW r \in Roots, NEW writable \in BOOLEAN,
         NEW expires \in Expiries
  PROVE  /\ AcquireCurrent(l, r, writable, expires) => Exclusion'
         /\ Insert(l, r, "managed", writable, expires, "preparing") => Exclusion'
  <1>1. ASSUME AcquireCurrent(l, r, writable, expires) PROVE Exclusion'
    <2> DEFINE s == IF HasConflict(r, writable) THEN "waiting" ELSE "active"
    <2>1. /\ lease'[l].state = s /\ lease'[l].mode = "current" /\ lease'[l].root = r
          /\ lease'[l].writable = writable
          /\ \A m \in Leases \ {l} : lease'[m] = lease[m]
      BY <1>1 DEF AcquireCurrent, Insert, Typed, TypeOK
    <2>2. s = "active" => \A m \in ActiveCurrent(lease, r) : ~writable /\ ~lease[m].writable
      BY DEF HasConflict
    <2>3. s \in {"waiting", "active"}
      OBVIOUS
    <2> HIDE DEF s
    <2>4. \A m \in Leases \ {l} :
            /\ lease'[m].state = "active" /\ lease'[m].mode = "current" /\ lease'[m].root = r
            => m \in ActiveCurrent(lease, r)
      BY <2>1 DEF ActiveCurrent, Active
    <2> QED  BY <2>1, <2>2, <2>3, <2>4 DEF Exclusion, WriterExclusion, PreparingManaged
  <1>2. ASSUME Insert(l, r, "managed", writable, expires, "preparing") PROVE Exclusion'
    <2>1. /\ lease'[l].state = "preparing" /\ lease'[l].mode = "managed"
          /\ \A m \in Leases \ {l} : lease'[m] = lease[m]
      BY <1>2 DEF Insert, Typed, TypeOK
    <2> QED  BY <2>1 DEF Exclusion, WriterExclusion, PreparingManaged
  <1> QED  BY <1>1, <1>2

\* Every step changes the table in one of these ways or not at all.
LEMMA ThreadStepExcludes ==
  ASSUME Typed, Exclusion, NEW t \in Threads, ThreadStep(t)
  PROVE  Exclusion'
  <1> DEFINE l == thread[t].lease
  <1>0. thread[t].step # "idle" => l \in Leases
    BY DEF Typed, Placed
  <1>1. CASE lease' = lease
    BY <1>1 DEF Exclusion, WriterExclusion, PreparingManaged
  <1>2. CASE ActivateManaged(t) /\ lease' # lease
    BY <1>0, <1>2, SetStateExcludes DEF ActivateManaged, OnLease, Exclusion, PreparingManaged
  <1>3. CASE (AbandonWorktree(t) \/ CleanupExpired(t)) /\ lease' # lease
    BY <1>0, <1>3, SetStateExcludes DEF AbandonWorktree, CleanupExpired, OnLease
  <1>4. CASE ReleaseManaged(t) /\ lease' # lease
    BY <1>0, <1>4, TransitionExcludes DEF ReleaseManaged, OnLease
  <1>5. CASE BlockCleanup(t) /\ lease' # lease
    BY <1>0, <1>5, SetStateExcludes DEF BlockCleanup, OnLease
  <1>6. \/ CreateWorktree(t) \/ DiscardPartialWorktree(t) \/ InspectWorktree(t)
        \/ RemoveWorktree(t) \/ BeginDispatch(t) \/ Reauthorize(t) \/ BeginFileOperation(t)
        \/ FinishFileOperation(t) \/ SealAuthorization(t) \/ EndDispatch(t)
        => lease' = lease
    BY DEF CreateWorktree, DiscardPartialWorktree, InspectWorktree, RemoveWorktree,
       BeginDispatch, Reauthorize, BeginFileOperation, FinishFileOperation,
       SealAuthorization, EndDispatch
  <1> QED  BY <1>1, <1>2, <1>3, <1>4, <1>5, <1>6 DEF ThreadStep

LEMMA NextExcludes == Typed /\ Exclusion /\ [Next]_vars => Exclusion'
  <1> SUFFICES ASSUME Typed, Exclusion, [Next]_vars PROVE Exclusion'
    OBVIOUS
  <1>1. lease' = lease => Exclusion'
    BY DEF Exclusion, WriterExclusion, PreparingManaged
  <1>2. ASSUME NEW l \in Leases, NEW t \in Threads
        PROVE  /\ \A r \in Roots, writable \in BOOLEAN, expires \in Expiries :
                    PrepareManaged(t, l, r, writable, expires) => Exclusion'
               /\ BeginCleanup(t, l) => Exclusion'
               /\ ExpireLease(t, l) => Exclusion'
               /\ AuthorizeOverride(t, l) => Exclusion'
               /\ \A kind \in {"read", "write"} : AuthorizeTool(t, l, kind) => Exclusion'
    BY <1>1, InsertExcludes, SetStateExcludes, TransitionExcludes
       DEF PrepareManaged, BeginCleanup, ExpireLease, AuthorizeOverride, AuthorizeTool
  <1>3. ASSUME NEW l \in Leases
        PROVE  /\ ReleaseCurrent(l) => Exclusion'
               /\ ReconcilePreparing(l) => Exclusion'
               /\ UserDiscardsChanges(l) => Exclusion'
               /\ DetachSubagentWorktree(l) => Exclusion'
               /\ ClockPasses(l) => Exclusion'
    BY <1>1, SetStateExcludes, TransitionExcludes
       DEF ReleaseCurrent, ReconcilePreparing, Exclusion, PreparingManaged,
           UserDiscardsChanges, DetachSubagentWorktree, ClockPasses
  <1>4. Crash \/ ExpiryDone \/ StartupDone \/ UNCHANGED vars => Exclusion'
    BY <1>1 DEF Crash, ExpiryDone, StartupDone, vars
  <1> QED  BY <1>2, <1>3, <1>4, ThreadStepExcludes, InsertExcludes DEF Next

\* An active write lease on a checkout excludes every other active lease on it
\* (acquire_workspace_lease, transition_workspace_lease).
THEOREM WritersExclude == Spec => []WriterExclusion
  <1>1. Init => Exclusion
    BY DEF Init, FreeLease, Exclusion, WriterExclusion, PreparingManaged
  <1>2. Exclusion => WriterExclusion
    BY DEF Exclusion
  <1> QED  BY <1>1, <1>2, InitTyped, NextTyped, NextExcludes, PTL DEF Spec

-----------------------------------------------------------------------------
(* Dispatches keep their lease *)

Using == {"begun", "executing", "draining"}
Detached == {"cleanup_pending", "cleanup_blocked", "released"}

\* From the moment it has its guard until it drops it, a dispatch is listed in
\* the guards of its lease, and that lease is active or detached by its subagent.
Guarded ==
  \A t \in Threads : thread[t].step \in Using =>
    t \in guards[thread[t].lease] /\ Usable(thread[t].lease)
\* A file operation belongs to a dispatch that still waits for it.
OperationsDispatched == \A t \in inflight : thread[t].step \in {"executing", "draining"}
\* Only a lease with write access is written through.
WritersWritable ==
  \A t \in Threads : thread[t].step \in {"executing", "draining"} /\ thread[t].kind = "write"
    => lease[thread[t].lease].writable
\* A lease under cleanup has no dispatch, and never becomes active again to get one.
CleanupFenced ==
  \A t \in Threads : thread[t].step \in CleanupSteps =>
    lease[thread[t].lease].state \in Detached /\ guards[thread[t].lease] = {}
Fence == Guarded /\ OperationsDispatched /\ WritersWritable /\ CleanupFenced

\* A lease somebody uses stays usable, and a detached one stays detached.
Safe ==
  \A m \in Leases :
    /\ guards[m] # {} /\ Usable(m) => Usable(m)' /\ lease'[m].writable = lease[m].writable
    /\ lease[m].state \in Detached => lease'[m].state \in Detached

\* A thread enters no dispatch, leaves none, and cleans up what has no dispatch only.
Bystander(u) ==
  /\ thread'[u].step \in Using \/ thread[u].step \in Using => thread'[u] = thread[u]
  /\ thread'[u].step \in CleanupSteps =>
       \/ thread[u].step \in CleanupSteps /\ thread'[u].lease = thread[u].lease
       \/ /\ thread'[u].lease \in Leases /\ guards[thread'[u].lease] = {}
          /\ lease'[thread'[u].lease].state \in Detached

\* A step that takes no guarded lease out of service, starts no dispatch and leaves
\* the dispatches alone keeps the fence.
LEMMA FenceKept ==
  ASSUME Typed, Fence, guards' = guards, inflight' = inflight, Safe,
         \A u \in Threads : Bystander(u)
  PROVE  Fence'
  <1>1. \A u \in Threads : thread[u].step \in Using \cup CleanupSteps => thread[u].lease \in Leases
    BY DEF Typed, Placed, Using, CleanupSteps
  <1>2. Guarded'
    BY <1>1 DEF Fence, Guarded, Safe, Bystander, Usable
  <1>3. OperationsDispatched'
    BY DEF Typed, TypeOK, Fence, OperationsDispatched, Bystander, Using
  <1>4. WritersWritable'
    BY <1>1 DEF Fence, Guarded, WritersWritable, Safe, Bystander, Using
  <1>5. CleanupFenced'
    BY <1>1 DEF Fence, CleanupFenced, Safe, Bystander
  <1> QED  BY <1>2, <1>3, <1>4, <1>5 DEF Fence

\* The table only takes leases without guards out of use.
LEMMA TransitionFences ==
  ASSUME Typed, NEW l \in Leases, NEW terminal \in {"released", "expired"}, guards[l] = {},
         terminal = "expired" => lease[l].state \notin Detached, Transition(l, terminal)
  PROVE  Safe
  BY TransitionEffect DEF Typed, Safe, Usable, Detached

LEMMA SetStateFences ==
  ASSUME Typed, NEW l \in Leases, NEW state \in LeaseStates, SetState(l, state),
         \/ guards[l] = {} \/ state = "active"
         \/ lease[l].mode = "managed" /\ state = "cleanup_pending",
         lease[l].state \in Detached => state \in Detached
  PROVE  Safe
  BY DEF Typed, TypeOK, LeaseRecord, SetState, Safe, Usable

LEMMA InsertFences ==
  ASSUME Typed, NEW l \in Leases, NEW r, NEW mode, NEW writable, NEW expires, NEW state,
         Insert(l, r, mode, writable, expires, state)
  PROVE  Safe
  BY DEF Typed, TypeOK, Insert, Safe, Usable, Detached

LEMMA ThreadStepFences ==
  ASSUME Typed, Fence, NEW t \in Threads, ThreadStep(t)
  PROVE  Fence'
  <1> DEFINE l == thread[t].lease
  <1>0. thread[t].step # "idle" => l \in Leases
    BY DEF Typed, Placed
  <1>f. TypeOK /\ thread \in [Threads -> ThreadRecord]
    BY DEF Typed, TypeOK
  <1>m. ASSUME thread[t].step \notin Using, guards' = guards, inflight' = inflight, Safe,
               \/ Stop(t)
               \/ \E step \in Steps \ Using :
                    /\ Go(t, step)
                    /\ step \in CleanupSteps =>
                         \/ thread[t].step \in CleanupSteps
                         \/ l \in Leases /\ guards[l] = {} /\ lease'[l].state \in Detached
        PROVE  Fence'
    <2>1. \A u \in Threads : Bystander(u)
      BY <1>f, <1>m DEF Stop, Go, Idle, Using, CleanupSteps, ThreadRecord, Bystander
    <2> QED  BY <1>m, <2>1, FenceKept
  <1>s. lease' = lease => Safe
    BY DEF Safe, Usable
  <1>p. l \in Leases /\ SetState(l, "cleanup_pending") => lease'[l].state \in Detached
    BY DEF SetState, Typed, TypeOK, LeaseRecord, Detached
  <1>1. CASE CreateWorktree(t)
    BY <1>1, <1>m, <1>s DEF CreateWorktree, OnLease, Using, Steps, CleanupSteps
  <1>2. CASE ActivateManaged(t)
    <2>1. Safe
      BY <1>0, <1>2, <1>s, SetStateFences DEF ActivateManaged, OnLease, LeaseStates, Detached
    <2> QED  BY <1>2, <1>m, <2>1 DEF ActivateManaged, OnLease, Using
  <1>3. CASE AbandonWorktree(t)
    <2>1. Safe
      BY <1>0, <1>3, <1>s, SetStateFences DEF AbandonWorktree, CanMarkPending, OnLease, LeaseStates, Detached
    <2> QED  BY <1>0, <1>3, <1>m, <1>p, <2>1 DEF AbandonWorktree, CanMarkPending, OnLease, Using, Steps
  <1>4. CASE DiscardPartialWorktree(t)
    BY <1>4, <1>m, <1>s DEF DiscardPartialWorktree, OnLease, Using, Steps, CleanupSteps
  <1>5. CASE CleanupExpired(t)
    <2>1. Safe
      BY <1>0, <1>5, <1>s, SetStateFences DEF CleanupExpired, CanMarkPending, OnLease, LeaseStates, Detached
    <2> QED  BY <1>0, <1>5, <1>m, <1>p, <2>1 DEF CleanupExpired, CanMarkPending, OnLease, Using, Steps
  <1>6. CASE InspectWorktree(t)
    <2>1. AfterInspection(l) \in {"release", "block", "remove"}
      BY <1>0, <1>6 DEF InspectWorktree, OnLease, AfterInspection, Typed, TypeOK
    <2> QED  BY <1>6, <1>m, <1>s, <2>1 DEF InspectWorktree, OnLease, Using, Steps, CleanupSteps
  <1>7. CASE RemoveWorktree(t)
    BY <1>7, <1>m, <1>s DEF RemoveWorktree, OnLease, Using, Steps, CleanupSteps
  <1>8. CASE ReleaseManaged(t)
    <2>1. Safe
      BY <1>0, <1>8, <1>s, TransitionFences DEF ReleaseManaged, Releasable, OnLease
    <2> QED  BY <1>8, <1>m, <2>1 DEF ReleaseManaged, OnLease, Using
  <1>9. CASE BlockCleanup(t)
    <2>1. Safe
      BY <1>0, <1>9, <1>s, SetStateFences DEF BlockCleanup, OnLease, LeaseStates, Detached
    <2> QED  BY <1>9, <1>m, <2>1 DEF BlockCleanup, OnLease, Using
  <1>10. CASE BeginDispatch(t)
    <2>1. CASE lease[l].state = "active"
      <3>1. /\ l \in Leases /\ guards' = [guards EXCEPT ![l] = @ \cup {t}]
            /\ thread' = [thread EXCEPT ![t].step = "begun"]
            /\ lease' = lease /\ inflight' = inflight /\ thread[t].step = "authorized"
        BY <1>0, <1>10, <2>1 DEF BeginDispatch, OnLease, Go
      <3>2. /\ thread'[t].step = "begun" /\ thread'[t].lease = l
            /\ \A u \in Threads \ {t} : thread'[u] = thread[u]
            /\ t \in guards'[l] /\ \A m \in Leases : guards[m] \subseteq guards'[m]
            /\ \A m \in Leases \ {l} : guards'[m] = guards[m]
        BY <1>f, <3>1 DEF TypeOK, ThreadRecord
      <3>3. \A u \in Threads : thread[u].step \in Using => thread[u].lease \in Leases
        BY DEF Typed, Placed, Using
      <3>4. Guarded'
        BY <2>1, <3>1, <3>2, <3>3 DEF Fence, Guarded, Usable, Using
      <3>6. CleanupFenced'
        BY <2>1, <3>1, <3>2 DEF Typed, Placed, Fence, CleanupFenced, CleanupSteps, Detached
      <3>5. OperationsDispatched' /\ WritersWritable'
        BY <1>f, <3>1, <3>2 DEF TypeOK, Fence, OperationsDispatched, WritersWritable
      <3> QED  BY <3>4, <3>5, <3>6 DEF Fence
    <2>2. CASE lease[l].state # "active"
      BY <1>m, <1>s, <1>10, <2>2 DEF BeginDispatch, OnLease, Using
    <2> QED  BY <2>1, <2>2
  <1>11. CASE Reauthorize(t)
    <2>0. thread[t].step = "begun" /\ l \in Leases /\ lease' = lease /\ inflight' = inflight
      BY <1>0, <1>11 DEF Reauthorize, OnLease
    <2>3. \A u \in Threads : thread[u].step \in Using => thread[u].lease \in Leases
      BY DEF Typed, Placed, Using
    <2>1. CASE Authorized(l, thread[t].kind)
      <3>1. guards' = guards /\ thread' = [thread EXCEPT ![t].step = "executing"]
        BY <1>11, <2>1 DEF Reauthorize, Go
      <3>2. /\ thread'[t].step = "executing" /\ thread'[t].lease = l
            /\ thread'[t].kind = thread[t].kind
            /\ \A u \in Threads \ {t} : thread'[u] = thread[u]
        BY <1>f, <3>1 DEF ThreadRecord
      <3>3. thread[t].kind = "write" => lease[l].writable
        BY <2>1 DEF Authorized
      <3>4. Guarded' /\ WritersWritable'
        BY <2>0, <3>1, <3>2, <3>3 DEF Fence, Guarded, WritersWritable, Usable, Using
      <3>6. CleanupFenced'
        BY <2>0, <3>1, <3>2 DEF Fence, CleanupFenced, CleanupSteps
      <3>5. OperationsDispatched'
        BY <1>f, <2>0, <3>2 DEF TypeOK, Fence, OperationsDispatched
      <3> QED  BY <3>4, <3>5, <3>6 DEF Fence
    <2>2. CASE ~Authorized(l, thread[t].kind)
      <3>1. guards' = [guards EXCEPT ![l] = @ \ {t}] /\ thread' = [thread EXCEPT ![t] = Idle]
        BY <1>11, <2>2 DEF Reauthorize, DropGuard, Stop
      <3>2. /\ thread'[t].step = "idle" /\ \A u \in Threads \ {t} : thread'[u] = thread[u]
            /\ \A m \in Leases, u \in Threads \ {t} : u \in guards[m] => u \in guards'[m]
            /\ \A m \in Leases : guards'[m] \subseteq guards[m]
        BY <1>f, <3>1 DEF TypeOK, Idle
      <3>3. Guarded' /\ WritersWritable'
        BY <2>0, <2>3, <3>2 DEF Fence, Guarded, WritersWritable, Usable, Using
      <3>5. CleanupFenced'
        BY <2>0, <3>2 DEF Typed, Placed, Fence, CleanupFenced, CleanupSteps
      <3>4. OperationsDispatched'
        BY <1>f, <2>0, <3>2 DEF TypeOK, Fence, OperationsDispatched
      <3> QED  BY <3>3, <3>4, <3>5 DEF Fence
    <2> QED  BY <2>1, <2>2
  <1>12. CASE BeginFileOperation(t)
    BY <1>12 DEF BeginFileOperation, OnLease, Fence, Guarded, OperationsDispatched, WritersWritable,
       CleanupFenced, Usable
  <1>13. CASE FinishFileOperation(t)
    BY <1>13 DEF FinishFileOperation, Fence, Guarded, OperationsDispatched, WritersWritable,
       CleanupFenced, Usable
  <1>14. CASE SealAuthorization(t)
    BY <1>f, <1>14 DEF SealAuthorization, OnLease, Go, Using, TypeOK, ThreadRecord,
       Fence, Guarded, OperationsDispatched, WritersWritable, CleanupFenced, CleanupSteps, Usable
  <1>15. CASE EndDispatch(t)
    <2>1. Guarded' /\ OperationsDispatched' /\ WritersWritable'
      BY <1>0, <1>f, <1>15 DEF EndDispatch, OnLease, Stop, Idle, DropGuard, Using, TypeOK,
         ThreadRecord, Fence, Guarded, OperationsDispatched, WritersWritable, Usable
    <2>2. CleanupFenced'
      BY <1>0, <1>f, <1>15 DEF EndDispatch, OnLease, Stop, Idle, DropGuard, TypeOK, Typed, Placed,
         ThreadRecord, Fence, CleanupFenced, CleanupSteps
    <2> QED  BY <2>1, <2>2 DEF Fence
  <1> QED
    BY <1>1, <1>2, <1>3, <1>4, <1>5, <1>6, <1>7, <1>8, <1>9, <1>10, <1>11, <1>12,
       <1>13, <1>14, <1>15 DEF ThreadStep

LEMMA NextFences == Typed /\ Fence /\ [Next]_vars => Fence'
  <1> SUFFICES ASSUME Typed, Fence, [Next]_vars PROVE Fence'
    OBVIOUS
  <1>1. Safe /\ UNCHANGED <<thread, guards, inflight>> => Fence'
    BY FenceKept DEF Bystander
  <1>2. ASSUME NEW t \in Threads, NEW l \in Leases, NEW step \in Steps \ Using, NEW kind,
               thread[t] = Idle, thread' = [thread EXCEPT ![t] = At(step, l, kind)],
               step \in CleanupSteps => guards[l] = {} /\ lease'[l].state \in Detached,
               Safe, UNCHANGED <<guards, inflight>>
        PROVE  Fence'
    <2>1. \A u \in Threads : Bystander(u)
      BY <1>2 DEF Typed, TypeOK, Idle, At, Using, Bystander
    <2> QED  BY <1>2, <2>1, FenceKept
  <1>s. lease' = lease => Safe
    BY DEF Safe, Usable
  <1>3. ASSUME NEW l \in Leases, NEW t \in Threads
        PROVE  /\ \A r \in Roots, writable \in BOOLEAN, expires \in Expiries :
                    PrepareManaged(t, l, r, writable, expires) => Fence'
               /\ BeginCleanup(t, l) => Fence'
               /\ ExpireLease(t, l) => Fence'
               /\ AuthorizeOverride(t, l) => Fence'
               /\ \A kind \in {"read", "write"} : AuthorizeTool(t, l, kind) => Fence'
    <2>1. ASSUME NEW r \in Roots, NEW writable \in BOOLEAN, NEW expires \in Expiries,
                 PrepareManaged(t, l, r, writable, expires)
          PROVE  Fence'
      <3>1. Safe
        BY <2>1, InsertFences DEF PrepareManaged
      <3> QED  BY <1>2, <2>1, <3>1 DEF PrepareManaged, Steps, Using, CleanupSteps
    <2>2. ASSUME BeginCleanup(t, l) PROVE Fence'
      <3>1. Safe
        BY <2>2, SetStateFences DEF BeginCleanup, CanMarkPending, LeaseStates, Detached
      <3>2. lease'[l].state \in Detached
        BY <2>2 DEF BeginCleanup, SetState, Typed, TypeOK, LeaseRecord, Detached
      <3> QED  BY <1>2, <2>2, <3>1, <3>2 DEF BeginCleanup, CanMarkPending, Steps, Using
    <2>3. ASSUME ExpireLease(t, l) PROVE Fence'
      <3>1. Safe
        BY <2>3, TransitionFences DEF ExpireLease, Detached
      <3> QED  BY <1>1, <1>2, <2>3, <3>1 DEF ExpireLease, Steps, Using, CleanupSteps
    <2>4. ASSUME AuthorizeOverride(t, l) PROVE Fence'
      <3>1. Safe
        BY <1>s, <2>4 DEF AuthorizeOverride
      <3> QED  BY <1>2, <2>4, <3>1 DEF AuthorizeOverride, Steps, Using, CleanupSteps
    <2>5. ASSUME NEW kind \in {"read", "write"}, AuthorizeTool(t, l, kind) PROVE Fence'
      <3>1. Safe
        BY <1>s, <2>5 DEF AuthorizeTool
      <3> QED  BY <1>2, <2>5, <3>1 DEF AuthorizeTool, Steps, Using, CleanupSteps
    <2> QED  BY <2>1, <2>2, <2>3, <2>4, <2>5
  <1>4. ASSUME NEW l \in Leases
        PROVE  /\ \A r \in Roots, writable \in BOOLEAN, expires \in Expiries :
                    AcquireCurrent(l, r, writable, expires) => Fence'
               /\ ReleaseCurrent(l) => Fence'
               /\ ReconcilePreparing(l) => Fence'
               /\ UserDiscardsChanges(l) => Fence'
               /\ DetachSubagentWorktree(l) => Fence'
               /\ ClockPasses(l) => Fence'
    <2>1. ASSUME NEW r \in Roots, NEW writable \in BOOLEAN, NEW expires \in Expiries,
                 AcquireCurrent(l, r, writable, expires)
          PROVE  Fence'
      <3>1. Safe
        BY <2>1, InsertFences DEF AcquireCurrent
      <3> QED  BY <1>1, <2>1, <3>1 DEF AcquireCurrent
    <2>2. ASSUME ReleaseCurrent(l) PROVE Fence'
      <3>1. Safe
        BY <2>2, TransitionFences DEF ReleaseCurrent, Releasable
      <3> QED  BY <1>1, <2>2, <3>1 DEF ReleaseCurrent
    <2>3. ASSUME ReconcilePreparing(l) PROVE Fence'
      <3>1. Safe
        BY <2>3, SetStateFences DEF ReconcilePreparing, LeaseStates, Detached
      <3> QED  BY <1>1, <2>3, <3>1 DEF ReconcilePreparing
    <2>4. UserDiscardsChanges(l) \/ ClockPasses(l) => Fence'
      BY <1>1, <1>s DEF UserDiscardsChanges, ClockPasses
    <2>5. ASSUME DetachSubagentWorktree(l) PROVE Fence'
      <3>1. Safe
        BY <2>5, SetStateFences DEF DetachSubagentWorktree, LeaseStates, Detached
      <3> QED  BY <1>1, <2>5, <3>1 DEF DetachSubagentWorktree
    <2> QED  BY <2>1, <2>2, <2>3, <2>4, <2>5
  <1>5. Crash => Fence'
    BY DEF Crash, Idle, Fence, Guarded, OperationsDispatched, WritersWritable, CleanupFenced,
       CleanupSteps, Using
  <1>6. ExpiryDone \/ StartupDone \/ UNCHANGED vars => Fence'
    BY <1>1, <1>s DEF ExpiryDone, StartupDone, vars
  <1> QED  BY <1>3, <1>4, <1>5, <1>6, ThreadStepFences DEF Next

LEMMA InitFences == Init => Fence
  BY DEF Init, Idle, Fence, Guarded, OperationsDispatched, WritersWritable, CleanupFenced,
     CleanupSteps, Using

\* No lease is released, expired or cleaned up under a running tool, also when its
\* subagent ended meanwhile (begin_workspace_dispatch against
\* transition_workspace_lease and cleanup_managed).
THEOREM DispatchesFenced == Spec => []DispatchFenced
  <1>1. Typed /\ Fence => DispatchFenced
    BY DEF Typed, TypeOK, Fence, Guarded, OperationsDispatched, CleanupFenced, DispatchFenced,
       InUse, Using
  <1> QED  BY <1>1, InitTyped, NextTyped, InitFences, NextFences, PTL DEF Spec

\* While a tool writes to a checkout no tool of another lease touches it
\* (dispatch_tool): the two leases would both be active, and one of them writable.
THEOREM WritesIsolated == Spec => []WriteIsolation
  <1>1. Typed /\ Exclusion /\ Fence => WriteIsolation
    <2> SUFFICES ASSUME Typed, Exclusion, Fence, NEW t \in Threads, NEW u \in Threads,
                        InUse(t), thread[t].kind = "write", InUse(u),
                        lease[thread[t].lease].mode = "current",
                        lease[thread[u].lease].mode = "current",
                        lease[thread[t].lease].root = lease[thread[u].lease].root
                 PROVE  thread[t].lease = thread[u].lease
      BY DEF WriteIsolation
    <2>1. thread[t].step \in {"executing", "draining"} /\ thread[u].step \in {"executing", "draining"}
      BY DEF InUse, Fence, OperationsDispatched
    <2>2. thread[t].lease \in Leases /\ thread[u].lease \in Leases
      BY <2>1 DEF Typed, Placed
    <2>3. /\ lease[thread[t].lease].state = "active" /\ lease[thread[t].lease].writable
          /\ lease[thread[u].lease].state = "active"
      BY <2>1 DEF Fence, Guarded, WritersWritable, Usable, Using
    <2> QED  BY <2>2, <2>3 DEF Exclusion, WriterExclusion
  <1>2. Init => Exclusion
    BY DEF Init, FreeLease, Exclusion, WriterExclusion, PreparingManaged
  <1> QED
    BY <1>1, <1>2, InitTyped, NextTyped, NextExcludes, InitFences, NextFences, PTL DEF Spec

-----------------------------------------------------------------------------
(* The queue of waiters *)

\* A set of rowids has a first one.
LEMMA FirstRow ==
  ASSUME NEW S \in SUBSET Nat, S # {}
  PROVE  \E x \in S : \A y \in S : x <= y
  <1>1. PICK x \in S : \A y \in S : ~(<<y, x>> \in OpToRel(<, Nat))
    BY NatLessThanWellFounded, WFMin
  <1>2. \A y \in S : ~(y < x)
    BY <1>1 DEF OpToRel
  <1> QED  BY <1>2

\* What the walk makes of a waiter.
LEMMA WalkOutcome ==
  ASSUME NEW table \in [Leases -> LeaseRecord], NEW r \in Roots, NEW w \in Waiters(table, r)
  PROVE  /\ w \in Leases /\ table[w].row \in Nat /\ table[w].root = r
         /\ table[w].writable \in BOOLEAN
         /\ w \in Admitted(table, r) => WalkWaiters(table, r)[w].state = "active"
         /\ WalkWaiters(table, r)[w].state = "waiting" =>
              w \notin Admitted(table, r) /\ w \notin Reached(table, r) \cap due
         /\ w \notin due => WalkWaiters(table, r)[w].state \in {"active", "waiting"}
  <1>1. /\ w \in Leases /\ table[w] \in LeaseRecord /\ table[w].state = "waiting"
        /\ table[w].root = r
    BY DEF Waiters
  <1>2. CASE w \in Admitted(table, r)
    <2>1. WalkWaiters(table, r)[w] = [table[w] EXCEPT !.state = "active"]
      BY <1>1, <1>2 DEF WalkWaiters
    <2> QED  BY <1>1, <1>2, <2>1 DEF LeaseRecord
  <1>3. CASE w \notin Admitted(table, r) /\ w \in Reached(table, r) \cap due
    <2>1. WalkWaiters(table, r)[w] = [table[w] EXCEPT !.state = "expired"]
      BY <1>1, <1>3 DEF WalkWaiters
    <2> QED  BY <1>1, <1>3, <2>1 DEF LeaseRecord
  <1>4. CASE w \notin Admitted(table, r) /\ w \notin Reached(table, r) \cap due
    <2>1. WalkWaiters(table, r)[w] = table[w]
      BY <1>1, <1>4 DEF WalkWaiters
    <2> QED  BY <1>1, <1>4, <2>1 DEF LeaseRecord
  <1> QED  BY <1>2, <1>3, <1>4

\* An active lease stays active.
LEMMA WalkKeepsActive ==
  ASSUME NEW table \in [Leases -> LeaseRecord], NEW r \in Roots, NEW m \in Active(table, r)
  PROVE  m \in Leases /\ table[m].root = r /\ WalkWaiters(table, r)[m].state = "active"
  BY WalkKeeps DEF Active, Waiters

\* When nothing is active, the first waiter that would stop the walk is reached, and it or a
\* reader before it is admitted.
LEMMA WalkAdmits ==
  ASSUME NEW table \in [Leases -> LeaseRecord], NEW r \in Roots,
         \A v, w \in Waiters(table, r) : v # w => table[v].row # table[w].row,
         Active(table, r) = {}, NEW s \in Waiters(table, r), StopsWalk(table, r, s)
  PROVE  Admitted(table, r) # {}
  <1> DEFINE S == {w \in Waiters(table, r) : StopsWalk(table, r, w)}
             rows == {table[w].row : w \in S}
  <1>1. \A w \in Waiters(table, r) : table[w].row \in Nat /\ table[w].writable \in BOOLEAN
    BY WalkOutcome
  <1>r. rows \in SUBSET Nat /\ rows # {}
    BY <1>1
  <1>2. PICK x \in rows : \A y \in rows : x <= y
    <2> HIDE DEF rows
    <2> QED  BY <1>r, FirstRow
  <1>3. PICK f \in S : x = table[f].row
    BY <1>2
  <1>4. \A w \in S : table[f].row <= table[w].row
    BY <1>2, <1>3
  <1>5. f \in Reached(table, r) \ due /\ table[f].writable
    BY <1>4 DEF Reached, StopsWalk
  <1>6. CASE \A v \in Reached(table, r) \ due : v = f
    BY <1>5, <1>6 DEF Admitted
  <1>7. ASSUME NEW v \in Reached(table, r) \ due, v # f
        PROVE  v \in Admitted(table, r)
    <2>1. v \in Waiters(table, r) /\ table[v].row <= table[f].row
      BY <1>3, <1>7 DEF Reached
    <2>2. ~table[v].writable
      <3> SUFFICES ASSUME table[v].writable PROVE FALSE
        BY <1>1, <2>1
      <3>1. v \in S
        BY <1>7, <2>1 DEF StopsWalk
      <3>2. table[v].row = table[f].row
        BY <1>1, <1>4, <2>1, <3>1
      <3> QED  BY <1>3, <1>7, <2>1, <3>2
    <2> QED  BY <1>7, <2>2 DEF Admitted
  <1> QED  BY <1>6, <1>7

\* A waiter the walk leaves waiting was reached and stops it, or follows one that does; nobody
\* behind it was admitted.
LEMMA WalkLeaves ==
  ASSUME NEW table \in [Leases -> LeaseRecord], NEW r \in Roots,
         \A v, w \in Waiters(table, r) : v # w => table[v].row # table[w].row,
         NEW l \in Waiters(table, r), WalkWaiters(table, r)[l].state = "waiting"
  PROVE  /\ \E s \in Waiters(table, r) : StopsWalk(table, r, s) /\ table[s].row <= table[l].row
         /\ \A m \in Admitted(table, r) : table[m].row < table[l].row
  <1>0. \A w \in Waiters(table, r) : table[w].row \in Nat /\ table[w].writable \in BOOLEAN
    BY WalkOutcome
  <1>1. l \notin Admitted(table, r) /\ l \notin Reached(table, r) \cap due
    BY WalkOutcome
  <1>2. \A m \in Admitted(table, r) : m \in Reached(table, r) /\ m \in Waiters(table, r)
    BY DEF Admitted, Reached
  <1>3. CASE l \notin Reached(table, r)
    <2>1. PICK s \in Waiters(table, r) :
            StopsWalk(table, r, s) /\ ~(table[l].row <= table[s].row)
      BY <1>3 DEF Reached
    <2>2. table[s].row < table[l].row
      BY <1>0, <2>1
    <2>3. \A m \in Admitted(table, r) : table[m].row <= table[s].row
      BY <1>2, <2>1 DEF Reached
    <2>4. \A m \in Admitted(table, r) : table[m].row < table[l].row
      BY <1>0, <1>2, <2>2, <2>3
    <2> QED  BY <1>0, <2>1, <2>2, <2>4
  <1>4. CASE l \in Reached(table, r)
    <2>1. l \in Reached(table, r) \ due
      BY <1>1, <1>4
    <2>2. StopsWalk(table, r, l)
      <3>1. CASE table[l].writable
        BY <2>1, <3>1 DEF StopsWalk
      <3>2. CASE ~table[l].writable
        BY <1>1, <2>1, <3>2 DEF Admitted, StopsWalk
      <3> QED  BY <3>1, <3>2
    <2>3. \A m \in Admitted(table, r) : table[m].row <= table[l].row /\ m # l
      BY <1>1, <1>2, <2>2 DEF Reached
    <2>4. \A m \in Admitted(table, r) : table[m].row < table[l].row
      <3> TAKE m \in Admitted(table, r)
      <3>1. table[m].row # table[l].row /\ table[m].row \in Nat /\ table[l].row \in Nat
        BY <1>0, <1>2, <2>3
      <3> QED  BY <2>3, <3>1
    <2> QED  BY <1>0, <2>2, <2>4
  <1> QED  BY <1>3, <1>4

\* A waiter the walk leaves waiting has somebody to wait for, and a reader a writer.
LEMMA WalkServes ==
  ASSUME NEW table \in [Leases -> LeaseRecord], NEW r \in Roots,
         \A v, w \in Waiters(table, r) : v # w => table[v].row # table[w].row,
         NEW l \in Waiters(table, r), WalkWaiters(table, r)[l].state = "waiting"
  PROVE  /\ \E m \in Leases : table[m].root = r /\ WalkWaiters(table, r)[m].state = "active"
         /\ \E m \in Leases : /\ table[m].root = r /\ table[m].writable
                              /\ WalkWaiters(table, r)[m].state \in {"active", "waiting"}
  <1>1. PICK s \in Waiters(table, r) : StopsWalk(table, r, s)
    BY WalkLeaves
  <1>2. \E m \in Leases : table[m].root = r /\ WalkWaiters(table, r)[m].state = "active"
    <2>1. CASE Active(table, r) # {}
      BY <2>1, WalkKeepsActive
    <2>2. CASE Active(table, r) = {}
      <3>1. PICK m : m \in Admitted(table, r)
        BY <1>1, <2>2, WalkAdmits
      <3>2. m \in Waiters(table, r)
        BY <3>1 DEF Admitted, Reached
      <3> QED  BY <3>1, <3>2, WalkOutcome
    <2> QED  BY <2>1, <2>2
  <1>3. \E m \in Leases : /\ table[m].root = r /\ table[m].writable
                          /\ WalkWaiters(table, r)[m].state \in {"active", "waiting"}
    <2>1. CASE table[s].writable
      BY <1>1, <2>1, WalkOutcome DEF StopsWalk
    <2>2. CASE ~table[s].writable
      <3>1. PICK m \in Active(table, r) : table[m].writable
        BY <1>1, <2>2 DEF StopsWalk
      <3> QED  BY <3>1, WalkKeepsActive
    <2> QED  BY <2>1, <2>2
  <1> QED  BY <1>2, <1>3

-----------------------------------------------------------------------------
(* Waiting for somebody *)

\* The rows of the table, and the roots nobody ever asked a managed worktree of.
Kept == {l \in Leases : lease[l].state # "free"}
Plain(r) == \A l \in Kept : lease[l].root = r => lease[l].mode = "current"

\* SQLite hands out rowids in the order of the requests.
Ordered ==
  /\ \A l \in Kept : lease[l].row < nextRow
  /\ \A l, m \in Kept : l # m => lease[l].row # lease[m].row

\* Only a lease on the checkout itself waits.
WaitingCurrent == \A l \in Leases : lease[l].state = "waiting" => lease[l].mode = "current"

\* A thread that makes or cleans up a worktree works on a managed lease.
Tending == {"create", "activate", "abandon", "discard", "expired", "inspect", "remove", "block",
            "release"}
Tenders ==
  \A t \in Threads : thread[t].step \in Tending =>
    thread[t].lease \in Kept /\ lease[thread[t].lease].mode = "managed"

\* Somebody is active on the root of a waiter, and a writer is active or waits there.  A new
\* request is then never granted past the waiter.
Awaited(l) ==
  /\ \E m \in Leases : lease[m].root = lease[l].root /\ lease[m].state = "active"
  /\ \E m \in Leases : /\ lease[m].root = lease[l].root /\ lease[m].writable
                       /\ lease[m].state \in {"active", "waiting"}
Queued == \A l \in Leases : lease[l].state = "waiting" /\ Plain(lease[l].root) => Awaited(l)

QueueInv == Ordered /\ WaitingCurrent /\ Tenders /\ Queued

\* Nothing on a plain root becomes active past an earlier request that goes on waiting.
InOrder ==
  \A l, m \in Leases :
    /\ lease[l].state = "waiting" /\ lease'[l].state = "waiting"
    /\ lease[m].state # "active" /\ lease'[m].state = "active"
    /\ lease'[m].mode = "current" /\ lease'[m].root = lease[l].root /\ Plain(lease[l].root)
    => lease'[m].row < lease[l].row

\* What a row keeps as long as it is in the table.
RowsStay ==
  \A m \in Kept : /\ lease'[m].state # "free" /\ lease'[m].root = lease[m].root
                  /\ lease'[m].mode = lease[m].mode /\ lease'[m].writable = lease[m].writable
                  /\ lease'[m].row = lease[m].row

\* The steps of the table: none, a request for the checkout, a request for a worktree, a new
\* state of a managed lease, or a lease that leaves.
Inserted(l) ==
  \E r \in Roots, writable \in BOOLEAN, expires \in Expiries :
    \/ AcquireCurrent(l, r, writable, expires)
    \/ "managed" \in Modes /\ Insert(l, r, "managed", writable, expires, "preparing")
Restated(l) ==
  /\ l \in Kept /\ lease[l].mode = "managed" /\ nextRow' = nextRow
  /\ \E state \in LeaseStates \ {"free", "waiting"} : SetState(l, state)
Left(l) ==
  /\ l \in Kept /\ nextRow' = nextRow
  /\ \E terminal \in {"released", "expired"} : Transition(l, terminal)
Untouched == lease' = lease /\ nextRow' = nextRow
TableStep == Untouched \/ \E l \in Leases : Inserted(l) \/ Restated(l) \/ Left(l)

LEMMA ThreadTableStep ==
  ASSUME Typed, QueueInv, NEW t \in Threads, ThreadStep(t)
  PROVE  TableStep
  <1> DEFINE l == thread[t].lease
  <1>1. thread[t].step \in Tending => l \in Kept /\ l \in Leases /\ lease[l].mode = "managed"
    BY DEF QueueInv, Tenders, Kept
  <1>2. ASSUME thread[t].step \in Tending, nextRow' = nextRow,
               NEW state \in LeaseStates \ {"free", "waiting"}, SetState(l, state)
        PROVE  TableStep
    BY <1>1, <1>2 DEF TableStep, Restated
  <1>3. CASE ActivateManaged(t)
    BY <1>2, <1>3 DEF ActivateManaged, OnLease, Tending, LeaseStates, TableStep, Untouched
  <1>4. CASE AbandonWorktree(t) \/ CleanupExpired(t)
    BY <1>2, <1>4 DEF AbandonWorktree, CleanupExpired, OnLease, Tending, LeaseStates, TableStep,
       Untouched
  <1>5. CASE BlockCleanup(t)
    BY <1>2, <1>5 DEF BlockCleanup, OnLease, Tending, LeaseStates, TableStep, Untouched
  <1>6. CASE ReleaseManaged(t)
    BY <1>1, <1>6 DEF ReleaseManaged, OnLease, Tending, TableStep, Untouched, Left
  <1>7. CASE \/ CreateWorktree(t) \/ DiscardPartialWorktree(t) \/ InspectWorktree(t)
             \/ RemoveWorktree(t) \/ BeginDispatch(t) \/ Reauthorize(t) \/ BeginFileOperation(t)
             \/ FinishFileOperation(t) \/ SealAuthorization(t) \/ EndDispatch(t)
    BY <1>7 DEF CreateWorktree, DiscardPartialWorktree, InspectWorktree, RemoveWorktree,
       BeginDispatch, Reauthorize, BeginFileOperation, FinishFileOperation, SealAuthorization,
       EndDispatch, TableStep, Untouched
  <1> QED  BY <1>3, <1>4, <1>5, <1>6, <1>7 DEF ThreadStep

LEMMA NextTableStep ==
  ASSUME Typed, Exclusion, QueueInv, [Next]_vars
  PROVE  TableStep
  <1>1. ASSUME NEW l \in Leases, NEW r \in Roots, NEW writable \in BOOLEAN,
               NEW expires \in Expiries,
               \/ AcquireCurrent(l, r, writable, expires)
               \/ \E t \in Threads : PrepareManaged(t, l, r, writable, expires)
        PROVE  TableStep
    BY <1>1 DEF PrepareManaged, TableStep, Inserted
  <1>2. ASSUME NEW l \in Leases
        PROVE  /\ ReleaseCurrent(l) => TableStep
               /\ UserDiscardsChanges(l) \/ ClockPasses(l) => TableStep
               /\ DetachSubagentWorktree(l) => TableStep
               /\ ReconcilePreparing(l) => TableStep
    <2>1. ReleaseCurrent(l) => TableStep
      BY DEF ReleaseCurrent, Releasable, Kept, TableStep, Left
    <2>2. UserDiscardsChanges(l) \/ ClockPasses(l) => TableStep
      BY DEF UserDiscardsChanges, ClockPasses, TableStep, Untouched
    <2>3. DetachSubagentWorktree(l) => TableStep
      BY DEF DetachSubagentWorktree, CleanupStates, Kept, TableStep, Restated, LeaseStates
    <2>4. ReconcilePreparing(l) => TableStep
      BY DEF ReconcilePreparing, Exclusion, PreparingManaged, Kept, TableStep, Restated,
         LeaseStates
    <2> QED  BY <2>1, <2>2, <2>3, <2>4
  <1>3. ASSUME NEW l \in Leases, NEW t \in Threads
        PROVE  /\ BeginCleanup(t, l) => TableStep
               /\ ExpireLease(t, l) => TableStep
               /\ AuthorizeOverride(t, l) => TableStep
               /\ \A kind \in {"read", "write"} : AuthorizeTool(t, l, kind) => TableStep
    <2>1. BeginCleanup(t, l) => TableStep
      BY DEF BeginCleanup, CanMarkPending, CleanupStates, Kept, TableStep, Restated, LeaseStates
    <2>2. ExpireLease(t, l) => TableStep
      BY DEF ExpireLease, Kept, TableStep, Left
    <2>3. AuthorizeOverride(t, l) => TableStep
      BY DEF AuthorizeOverride, TableStep, Untouched
    <2>4. \A kind \in {"read", "write"} : AuthorizeTool(t, l, kind) => TableStep
      BY DEF AuthorizeTool, TableStep, Untouched
    <2> QED  BY <2>1, <2>2, <2>3, <2>4
  <1>4. Crash \/ ExpiryDone \/ StartupDone \/ UNCHANGED vars => TableStep
    BY DEF Crash, ExpiryDone, StartupDone, vars, TableStep, Untouched
  <1> QED  BY <1>1, <1>2, <1>3, <1>4, ThreadTableStep DEF Next

LEMMA InsertOrders ==
  ASSUME Typed, Ordered, NEW l \in Leases, NEW r \in Roots, NEW mode, NEW writable \in BOOLEAN,
         NEW expires, NEW state, Insert(l, r, mode, writable, expires, state)
  PROVE  Ordered' /\ RowsStay
  <1>1. /\ l \notin Kept /\ lease'[l].row = nextRow /\ nextRow' = nextRow + 1
        /\ \A m \in Leases : m # l => lease'[m] = lease[m]
    BY DEF Insert, Kept, Typed, TypeOK
  <1>2. \A m \in Leases : lease[m].row \in Nat /\ nextRow \in Nat
    BY DEF Typed, TypeOK, LeaseRecord
  <1>3. \A m \in Kept' : m = l \/ m \in Kept
    BY <1>1 DEF Kept
  <1>4. \A m \in Kept : m \in Leases /\ m # l /\ lease'[m] = lease[m]
    BY <1>1 DEF Kept
  <1>5. RowsStay
    BY <1>4 DEF RowsStay, Kept
  <1>6. \A m \in Kept : lease'[m].row < nextRow
    BY <1>4 DEF Ordered
  <1>7. ASSUME NEW m \in Kept'
        PROVE  lease'[m].row < nextRow'
    <2>1. CASE m = l
      BY <1>1, <1>2, <2>1
    <2>2. CASE m \in Kept
      BY <1>1, <1>2, <1>4, <1>6, <2>2
    <2> QED  BY <1>3, <2>1, <2>2
  <1>8. ASSUME NEW m \in Kept', NEW n \in Kept', m # n
        PROVE  lease'[m].row # lease'[n].row
    <2>1. CASE m \in Kept /\ n \in Kept
      BY <1>4, <1>8, <2>1 DEF Ordered
    <2>2. CASE m = l /\ n \in Kept
      BY <1>1, <1>2, <1>4, <1>6, <2>2
    <2>3. CASE m \in Kept /\ n = l
      BY <1>1, <1>2, <1>4, <1>6, <2>3
    <2> QED  BY <1>3, <1>8, <2>1, <2>2, <2>3
  <1> QED  BY <1>5, <1>7, <1>8 DEF Ordered

\* Rows that stay are still in order when none is added.
LEMMA StayingOrdered ==
  ASSUME Ordered, RowsStay, nextRow' = nextRow, \A m \in Kept' : m \in Kept
  PROVE  Ordered'
  BY DEF Ordered, RowsStay

LEMMA RestatedRows ==
  ASSUME Typed, NEW l \in Leases, Restated(l)
  PROVE  /\ RowsStay /\ \A m \in Kept' : m \in Kept
         /\ lease'[l].state # "waiting" /\ lease'[l].state # "free"
         /\ \A m \in Leases : m # l => lease'[m] = lease[m]
  <1>1. PICK state \in LeaseStates \ {"free", "waiting"} :
          lease' = [lease EXCEPT ![l].state = state]
    BY DEF Restated, SetState
  <1>2. /\ lease'[l].state = state /\ lease'[l].root = lease[l].root
        /\ lease'[l].mode = lease[l].mode /\ lease'[l].writable = lease[l].writable
        /\ lease'[l].row = lease[l].row
    BY <1>1 DEF Typed, TypeOK, LeaseRecord
  <1>3. \A m \in Leases : m # l => lease'[m] = lease[m]
    BY <1>1 DEF Typed, TypeOK
  <1>4. \A m \in Kept' : m \in Kept
    BY <1>3 DEF Kept, Restated
  <1>5. RowsStay
    BY <1>2, <1>3 DEF RowsStay, Kept
  <1> QED  BY <1>2, <1>3, <1>4, <1>5

LEMMA LeftRows ==
  ASSUME Typed, NEW l \in Leases, Left(l)
  PROVE  /\ RowsStay /\ \A m \in Kept' : m \in Kept
         /\ \A m \in Leases : lease'[m].state = "waiting" => lease[m].state = "waiting"
  <1>1. PICK terminal \in {"released", "expired"} : Transition(l, terminal)
    BY DEF Left
  <1>2. /\ lease'[l].state = terminal
        /\ \A m \in Leases :
              /\ lease'[m].root = lease[m].root /\ lease'[m].mode = lease[m].mode
              /\ lease'[m].writable = lease[m].writable /\ lease'[m].row = lease[m].row
              /\ m # l => \/ lease'[m].state = lease[m].state
                          \/ /\ lease[m].state = "waiting" /\ lease[m].mode = "current"
                             /\ lease'[m].state \in {"active", "expired"}
    BY <1>1, TransitionEffect DEF Typed
  <1>3. \A m \in Leases : m # l => (lease'[m].state = "free" <=> lease[m].state = "free")
    BY <1>2
  <1>4. l \in Kept
    BY DEF Left
  <1> QED  BY <1>2, <1>3, <1>4 DEF RowsStay, Kept

\* Rows stay in order and waiting stays with the checkout.
LEMMA RowsOrdered ==
  ASSUME Typed, QueueInv, TableStep
  PROVE  Ordered' /\ WaitingCurrent' /\ RowsStay
  <1>0. Ordered /\ WaitingCurrent
    BY DEF QueueInv
  <1>1. CASE Untouched
    BY <1>0, <1>1 DEF Untouched, Ordered, WaitingCurrent, RowsStay, Kept
  <1>2. ASSUME NEW l \in Leases, Inserted(l)
        PROVE  Ordered' /\ WaitingCurrent' /\ RowsStay
    <2>1. ASSUME NEW r \in Roots, NEW mode, NEW writable \in BOOLEAN, NEW expires, NEW state,
                 Insert(l, r, mode, writable, expires, state),
                 mode = "current" \/ state = "preparing"
          PROVE  Ordered' /\ WaitingCurrent' /\ RowsStay
      <3>1. /\ lease'[l].state = state /\ lease'[l].mode = mode
            /\ \A m \in Leases : m # l => lease'[m] = lease[m]
        BY <2>1 DEF Insert, Kept, Typed, TypeOK
      <3>2. WaitingCurrent'
        BY <1>0, <2>1, <3>1 DEF WaitingCurrent
      <3> QED  BY <1>0, <2>1, <3>2, InsertOrders
    <2>2. PICK r \in Roots, writable \in BOOLEAN, expires \in Expiries :
            \/ AcquireCurrent(l, r, writable, expires)
            \/ "managed" \in Modes /\ Insert(l, r, "managed", writable, expires, "preparing")
      BY <1>2 DEF Inserted
    <2>3. CASE AcquireCurrent(l, r, writable, expires)
      <3>1. PICK state : Insert(l, r, "current", writable, expires, state)
        BY <2>3 DEF AcquireCurrent
      <3> QED  BY <2>1, <3>1
    <2>4. CASE Insert(l, r, "managed", writable, expires, "preparing")
      BY <2>1, <2>4
    <2> QED  BY <2>2, <2>3, <2>4
  <1>3. ASSUME NEW l \in Leases, Restated(l)
        PROVE  Ordered' /\ WaitingCurrent' /\ RowsStay
    BY <1>0, <1>3, RestatedRows, StayingOrdered DEF Restated, WaitingCurrent
  <1>4. ASSUME NEW l \in Leases, Left(l)
        PROVE  Ordered' /\ WaitingCurrent' /\ RowsStay
    <2>1. RowsStay /\ \A m \in Kept' : m \in Kept
      BY <1>4, LeftRows
    <2>2. Ordered'
      BY <1>0, <1>4, <2>1, StayingOrdered DEF Left
    <2>3. WaitingCurrent'
      BY <1>0, <1>4, <2>1, LeftRows DEF WaitingCurrent, RowsStay, Kept
    <2> QED  BY <2>1, <2>2, <2>3
  <1> QED  BY <1>1, <1>2, <1>3, <1>4 DEF TableStep

\* A root that is plain after a step was plain before it.
LEMMA PlainBefore ==
  ASSUME RowsStay, NEW r, Plain(r)'
  PROVE  Plain(r)
  BY DEF Plain, RowsStay, Kept

LEMMA AcquireQueues ==
  ASSUME Typed, QueueInv, RowsStay, NEW l \in Leases, NEW r \in Roots, NEW writable \in BOOLEAN,
         NEW expires \in Expiries, AcquireCurrent(l, r, writable, expires)
  PROVE  Queued' /\ InOrder
  <1> DEFINE s == IF HasConflict(r, writable) THEN "waiting" ELSE "active"
  <1>1. Insert(l, r, "current", writable, expires, s)
    BY DEF AcquireCurrent
  <1>2. s \in {"waiting", "active"} /\ (s = "waiting" <=> HasConflict(r, writable))
    OBVIOUS
  <1> HIDE DEF s
  <1>3. /\ l \notin Kept /\ lease'[l].state = s /\ lease'[l].root = r
        /\ lease'[l].writable = writable
        /\ \A m \in Leases : m # l => lease'[m] = lease[m]
    BY <1>1 DEF Insert, Kept, Typed, TypeOK
  <1>4. \A m \in Leases : lease[m].state # "free" => m # l /\ lease'[m] = lease[m]
    BY <1>3 DEF Kept
  <1>5. ASSUME NEW w \in Leases, Awaited(w), lease'[w].root = lease[w].root
        PROVE  Awaited(w)'
    BY <1>4, <1>5 DEF Awaited
  <1>6. Queued'
    <2> SUFFICES ASSUME NEW w \in Leases, lease'[w].state = "waiting", Plain(lease[w].root)'
                 PROVE  Awaited(w)'
      BY DEF Queued
    <2>1. CASE w # l
      <3>1. lease'[w] = lease[w] /\ Plain(lease[w].root)
        BY <1>3, <2>1, PlainBefore
      <3> QED  BY <1>5, <3>1 DEF QueueInv, Queued
    <2>2. CASE w = l
      <3>1. Plain(r) /\ HasConflict(r, writable)
        BY <1>2, <1>3, <2>2, PlainBefore
      <3>2. CASE \E m \in ActiveCurrent(lease, r) : writable \/ lease[m].writable
        <4>1. PICK m \in Leases : /\ lease[m].state = "active" /\ lease[m].root = r
                                  /\ writable \/ lease[m].writable
          BY <3>2 DEF ActiveCurrent, Active
        <4> QED  BY <1>2, <1>3, <1>4, <2>2, <4>1 DEF Awaited
      <3>3. CASE \E m \in Waiters(lease, r) : lease[m].writable
        <4>1. PICK m \in Leases : /\ lease[m].state = "waiting" /\ lease[m].root = r
                                  /\ lease[m].writable
          BY <3>3 DEF Waiters
        <4>2. Awaited(m)
          BY <3>1, <4>1 DEF QueueInv, Queued
        <4> QED  BY <1>3, <1>4, <2>2, <4>1, <4>2 DEF Awaited
      <3> QED  BY <3>1, <3>2, <3>3 DEF HasConflict
    <2> QED  BY <2>1, <2>2
  <1>7. InOrder
    <2> SUFFICES ASSUME NEW w \in Leases, NEW m \in Leases,
                        lease[w].state = "waiting", lease[m].state # "active",
                        lease'[m].state = "active", lease'[m].root = lease[w].root,
                        Plain(lease[w].root)
                 PROVE  FALSE
      BY DEF InOrder
    <2>1. m = l /\ s = "active" /\ lease[w].root = r
      BY <1>3
    <2>2. Awaited(w) /\ ~HasConflict(r, writable) /\ Plain(r)
      BY <1>2, <2>1 DEF QueueInv, Queued
    <2>3. PICK a \in Leases : lease[a].root = r /\ lease[a].state = "active"
      BY <2>1, <2>2 DEF Awaited
    <2>4. PICK b \in Leases : /\ lease[b].root = r /\ lease[b].writable
                              /\ lease[b].state \in {"active", "waiting"}
      BY <2>1, <2>2 DEF Awaited
    <2>5. lease[a].mode = "current" /\ lease[b].mode = "current"
      BY <2>2, <2>3, <2>4 DEF Plain, Kept
    <2>6. a \in ActiveCurrent(lease, r)
      BY <2>3, <2>5 DEF ActiveCurrent, Active
    <2>7. b \in ActiveCurrent(lease, r) \/ b \in Waiters(lease, r)
      BY <2>4, <2>5 DEF ActiveCurrent, Active, Waiters
    <2> QED  BY <2>2, <2>4, <2>6, <2>7 DEF HasConflict
  <1> QED  BY <1>6, <1>7

\* A worktree is asked for, or a managed lease changes: what waits on plain roots is left alone.
LEMMA ElsewhereQueues ==
  ASSUME Typed, QueueInv, RowsStay, NEW l \in Leases, lease'[l].mode = "managed",
         lease'[l].state \notin {"free", "waiting"},
         \A m \in Leases : m # l => lease'[m] = lease[m]
  PROVE  Queued' /\ InOrder
  <1>1. Queued'
    <2> SUFFICES ASSUME NEW w \in Leases, lease'[w].state = "waiting", Plain(lease[w].root)'
                 PROVE  Awaited(w)'
      BY DEF Queued
    <2>1. w # l /\ lease'[w] = lease[w] /\ Plain(lease[w].root)
      BY PlainBefore
    <2>2. lease'[l].root # lease[w].root
      BY <2>1 DEF Plain, Kept
    <2>3. Awaited(w)
      BY <2>1 DEF QueueInv, Queued
    <2>4. PICK a \in Leases : lease[a].root = lease[w].root /\ lease[a].state = "active"
      BY <2>3 DEF Awaited
    <2>5. PICK b \in Leases : /\ lease[b].root = lease[w].root /\ lease[b].writable
                              /\ lease[b].state \in {"active", "waiting"}
      BY <2>3 DEF Awaited
    <2>6. a # l /\ b # l
      BY <2>2, <2>4, <2>5 DEF RowsStay, Kept
    <2> QED  BY <2>1, <2>4, <2>5, <2>6 DEF Awaited
  <1>2. InOrder
    BY DEF InOrder
  <1> QED  BY <1>1, <1>2

LEMMA LeftQueues ==
  ASSUME Typed, QueueInv, RowsStay, NEW l \in Leases, Left(l)
  PROVE  Queued' /\ InOrder
  <1>1. PICK terminal \in {"released", "expired"} : Transition(l, terminal)
    BY DEF Left
  <1> DEFINE T == [lease EXCEPT ![l].state = terminal]
             r == lease[l].root
  <1>2. T \in [Leases -> LeaseRecord] /\ r \in Roots
    BY DEF Typed, TypeOK, LeaseRecord, LeaseStates
  <1>3. \A m \in Leases : /\ T[m].root = lease[m].root /\ T[m].mode = lease[m].mode
                          /\ T[m].writable = lease[m].writable /\ T[m].row = lease[m].row
                          /\ T[m].state = IF m = l THEN terminal ELSE lease[m].state
    BY DEF Typed, TypeOK, LeaseRecord
  <1>4. lease' = WalkWaiters(T, r)
    BY <1>1 DEF Transition
  <1> HIDE DEF T, r
  <1>5. \A m \in Leases : /\ lease'[m].root = lease[m].root /\ lease'[m].mode = lease[m].mode
                          /\ lease'[m].writable = lease[m].writable
                          /\ lease'[m].row = lease[m].row
    BY <1>1, TransitionEffect DEF Typed
  <1>6. \A v, w \in Waiters(T, r) : v # w => T[v].row # T[w].row
    <2>1. \A w \in Waiters(T, r) : w \in Kept /\ T[w].row = lease[w].row
      BY <1>3 DEF Waiters, Kept
    <2> QED  BY <2>1 DEF QueueInv, Ordered
  <1>7. ASSUME NEW w \in Leases, lease'[w].state = "waiting"
        PROVE  /\ w # l /\ lease[w].state = "waiting"
               /\ lease[w].root = r => w \in Waiters(T, r)
    <2>1. lease'[w] = T[w]
      BY <1>2, <1>4, <1>7, WalkKeeps
    <2>2. w # l /\ lease[w].state = "waiting"
      BY <1>3, <1>7, <2>1
    <2> QED  BY <1>3, <2>2 DEF QueueInv, WaitingCurrent, Waiters
  <1>8. ASSUME NEW m \in Leases, lease[m].root # r
        PROVE  lease'[m].state = lease[m].state
    <2>1. m \notin Waiters(T, r)
      BY <1>3, <1>8 DEF Waiters
    <2>2. m # l
      BY <1>8 DEF r
    <2> QED  BY <1>2, <1>3, <1>4, <2>1, <2>2, WalkKeeps
  <1>9. Queued'
    <2> SUFFICES ASSUME NEW w \in Leases, lease'[w].state = "waiting", Plain(lease[w].root)'
                 PROVE  Awaited(w)'
      BY DEF Queued
    <2>1. CASE lease[w].root = r
      <3>1. w \in Waiters(T, r)
        BY <1>7, <2>1
      <3>2. /\ \E m \in Leases : T[m].root = r /\ WalkWaiters(T, r)[m].state = "active"
            /\ \E m \in Leases : /\ T[m].root = r /\ T[m].writable
                                 /\ WalkWaiters(T, r)[m].state \in {"active", "waiting"}
        BY <1>2, <1>4, <1>6, <3>1, WalkServes
      <3> QED  BY <1>3, <1>4, <1>5, <2>1, <3>2 DEF Awaited
    <2>2. CASE lease[w].root # r
      <3>1. lease[w].state = "waiting" /\ Plain(lease[w].root)
        BY <1>5, <1>7, PlainBefore
      <3>2. Awaited(w)
        BY <3>1 DEF QueueInv, Queued
      <3> QED  BY <1>5, <1>8, <2>2, <3>2 DEF Awaited
    <2> QED  BY <2>1, <2>2
  <1>10. InOrder
    <2> SUFFICES ASSUME NEW w \in Leases, NEW m \in Leases,
                        lease[w].state = "waiting", lease'[w].state = "waiting",
                        lease[m].state # "active", lease'[m].state = "active",
                        lease'[m].root = lease[w].root
                 PROVE  lease'[m].row < lease[w].row
      BY DEF InOrder
    <2>1. lease[w].root = r
      BY <1>5, <1>8
    <2>2. m \in Admitted(T, r)
      <3>1. \/ lease'[m] = T[m]
            \/ m \in Admitted(T, r)
            \/ lease'[m].state = "expired"
        BY <1>2, <1>4, WalkKeeps
      <3>2. T[m].state # "active"
        BY <1>3
      <3> QED  BY <3>1, <3>2
    <2>3. T[m].row < T[w].row
      BY <1>2, <1>4, <1>6, <1>7, <2>1, <2>2, WalkLeaves
    <2> QED  BY <1>3, <1>5, <2>3
  <1> QED  BY <1>9, <1>10

LEMMA TableQueues ==
  ASSUME Typed, QueueInv, TableStep, RowsStay
  PROVE  Queued' /\ InOrder
  <1>1. CASE Untouched
    BY <1>1 DEF Untouched, QueueInv, Queued, Awaited, Plain, Kept, InOrder
  <1>2. ASSUME NEW l \in Leases, Inserted(l)
        PROVE  Queued' /\ InOrder
    <2>1. PICK r \in Roots, writable \in BOOLEAN, expires \in Expiries :
            \/ AcquireCurrent(l, r, writable, expires)
            \/ "managed" \in Modes /\ Insert(l, r, "managed", writable, expires, "preparing")
      BY <1>2 DEF Inserted
    <2>2. CASE Insert(l, r, "managed", writable, expires, "preparing")
      <3>1. /\ lease'[l].mode = "managed" /\ lease'[l].state = "preparing"
            /\ \A m \in Leases : m # l => lease'[m] = lease[m]
        BY <2>2 DEF Insert, Kept, Typed, TypeOK
      <3> QED  BY <3>1, ElsewhereQueues
    <2> QED  BY <2>1, <2>2, AcquireQueues
  <1>3. ASSUME NEW l \in Leases, Restated(l)
        PROVE  Queued' /\ InOrder
    <2>1. /\ lease'[l].state # "waiting" /\ lease'[l].state # "free"
          /\ \A m \in Leases : m # l => lease'[m] = lease[m]
      BY <1>3, RestatedRows
    <2>2. lease'[l].mode = "managed"
      BY <1>3 DEF Restated, RowsStay
    <2> QED  BY <2>1, <2>2, ElsewhereQueues
  <1> QED  BY <1>1, <1>2, <1>3, LeftQueues DEF TableStep

-----------------------------------------------------------------------------
(* Who tends to worktrees *)

\* A thread goes on with the lease it has, or takes up a managed one.
TendsOn(u) ==
  thread'[u].step \in Tending =>
    \/ thread[u].step \in Tending /\ thread'[u].lease = thread[u].lease
    \/ thread'[u].lease \in Kept' /\ lease'[thread'[u].lease].mode = "managed"

LEMMA TendersKept ==
  ASSUME Tenders, RowsStay, \A u \in Threads : TendsOn(u)
  PROVE  Tenders'
  BY DEF Tenders, TendsOn, RowsStay, Kept

LEMMA ThreadStepTends ==
  ASSUME Typed, QueueInv, NEW t \in Threads, ThreadStep(t), NEW u \in Threads
  PROVE  TendsOn(u)
  <1>1. thread \in [Threads -> ThreadRecord]
    BY DEF Typed, TypeOK
  <1>2. CASE Stop(t) \/ thread' = thread
    BY <1>1, <1>2 DEF Stop, Idle, TendsOn, Tending
  <1>3. ASSUME NEW step, Go(t, step), step \in Tending => thread[t].step \in Tending
        PROVE  TendsOn(u)
    BY <1>1, <1>3 DEF Go, TendsOn, ThreadRecord
  <1>4. CASE \/ CreateWorktree(t) \/ AbandonWorktree(t) \/ DiscardPartialWorktree(t)
             \/ CleanupExpired(t) \/ InspectWorktree(t) \/ RemoveWorktree(t)
    <2>1. thread[t].step \in Tending /\ (Stop(t) \/ \E step : Go(t, step))
      BY <1>4 DEF CreateWorktree, AbandonWorktree, DiscardPartialWorktree, CleanupExpired,
         InspectWorktree, RemoveWorktree, OnLease, Tending
    <2> QED  BY <1>2, <1>3, <2>1
  <1>5. CASE \/ ActivateManaged(t) \/ ReleaseManaged(t) \/ BlockCleanup(t) \/ EndDispatch(t)
             \/ BeginFileOperation(t) \/ FinishFileOperation(t)
    BY <1>2, <1>5 DEF ActivateManaged, ReleaseManaged, BlockCleanup, EndDispatch,
       BeginFileOperation, FinishFileOperation
  <1>6. CASE BeginDispatch(t) \/ Reauthorize(t) \/ SealAuthorization(t)
    <2>1. Stop(t) \/ \E step \in {"begun", "executing", "draining"} : Go(t, step)
      BY <1>6 DEF BeginDispatch, Reauthorize, SealAuthorization
    <2> QED  BY <1>2, <1>3, <2>1 DEF Tending
  <1> QED  BY <1>4, <1>5, <1>6 DEF ThreadStep

LEMMA NextTends ==
  ASSUME Typed, QueueInv, [Next]_vars, RowsStay
  PROVE  Tenders'
  <1>1. Tenders
    BY DEF QueueInv
  <1>2. CASE thread' = thread
    BY <1>1, <1>2, TendersKept DEF TendsOn
  <1>3. ASSUME NEW t \in Threads, NEW l \in Leases, NEW step, NEW kind,
               thread' = [thread EXCEPT ![t] = At(step, l, kind)],
               step \in Tending => l \in Kept' /\ lease'[l].mode = "managed"
        PROVE  Tenders'
    <2>1. \A u \in Threads : TendsOn(u)
      BY <1>3 DEF Typed, TypeOK, TendsOn, At
    <2> QED  BY <1>1, <2>1, TendersKept
  <1>4. ASSUME NEW t \in Threads, NEW l \in Leases
        PROVE  /\ \A r \in Roots, writable \in BOOLEAN, expires \in Expiries :
                    PrepareManaged(t, l, r, writable, expires) => Tenders'
               /\ BeginCleanup(t, l) => Tenders'
               /\ ExpireLease(t, l) => Tenders'
               /\ AuthorizeOverride(t, l) => Tenders'
               /\ \A kind \in {"read", "write"} : AuthorizeTool(t, l, kind) => Tenders'
    <2>1. ASSUME NEW r \in Roots, NEW writable \in BOOLEAN, NEW expires \in Expiries,
                 PrepareManaged(t, l, r, writable, expires)
          PROVE  Tenders'
      <3>1. l \in Kept' /\ lease'[l].mode = "managed"
        BY <2>1 DEF PrepareManaged, Insert, Kept, Typed, TypeOK
      <3> QED  BY <1>3, <2>1, <3>1 DEF PrepareManaged
    <2>2. ASSUME BeginCleanup(t, l) PROVE Tenders'
      <3>1. l \in Kept /\ lease[l].mode = "managed"
        BY <2>2 DEF BeginCleanup, CanMarkPending, CleanupStates, Kept
      <3>2. l \in Kept' /\ lease'[l].mode = "managed"
        BY <3>1 DEF RowsStay, Kept
      <3> QED  BY <1>3, <2>2, <3>2 DEF BeginCleanup
    <2>3. ASSUME ExpireLease(t, l) PROVE Tenders'
      <3>1. l \in Kept
        BY <2>3 DEF ExpireLease, Kept
      <3>2. l \in Kept' /\ lease'[l].mode = lease[l].mode
        BY <3>1 DEF RowsStay, Kept
      <3> QED  BY <1>2, <1>3, <2>3, <3>2 DEF ExpireLease
    <2>4. ASSUME AuthorizeOverride(t, l) PROVE Tenders'
      <3>1. /\ thread' = [thread EXCEPT ![t] = At("authorized", l, "override")]
            /\ "authorized" \notin Tending
        BY <2>4 DEF AuthorizeOverride, Tending
      <3> QED  BY <1>3, <3>1
    <2>5. \A kind \in {"read", "write"} : AuthorizeTool(t, l, kind) => Tenders'
      BY <1>3 DEF AuthorizeTool, Tending
    <2> QED  BY <2>1, <2>2, <2>3, <2>4, <2>5
  <1>5. ASSUME NEW l \in Leases
        PROVE  /\ \A r \in Roots, writable \in BOOLEAN, expires \in Expiries :
                    AcquireCurrent(l, r, writable, expires) => Tenders'
               /\ \/ ReleaseCurrent(l) \/ UserDiscardsChanges(l) \/ DetachSubagentWorktree(l)
                  \/ ClockPasses(l) \/ ReconcilePreparing(l)
                  => Tenders'
    BY <1>2 DEF AcquireCurrent, ReleaseCurrent, UserDiscardsChanges, DetachSubagentWorktree,
       ClockPasses, ReconcilePreparing
  <1>6. Crash => Tenders'
    BY DEF Crash, Idle, Tenders, Tending
  <1>7. ExpiryDone \/ StartupDone \/ UNCHANGED vars => Tenders'
    BY <1>2 DEF ExpiryDone, StartupDone, vars
  <1>8. \A t \in Threads : ThreadStep(t) => Tenders'
    BY <1>1, ThreadStepTends, TendersKept
  <1> QED  BY <1>4, <1>5, <1>6, <1>7, <1>8 DEF Next

LEMMA NextQueues == Typed /\ Exclusion /\ QueueInv /\ [Next]_vars => QueueInv' /\ InOrder
  <1> SUFFICES ASSUME Typed, Exclusion, QueueInv, [Next]_vars PROVE QueueInv' /\ InOrder
    OBVIOUS
  <1>1. TableStep
    BY NextTableStep
  <1>2. Ordered' /\ WaitingCurrent' /\ RowsStay
    BY <1>1, RowsOrdered
  <1>3. Queued' /\ InOrder
    BY <1>1, <1>2, TableQueues
  <1>4. Tenders'
    BY <1>2, NextTends
  <1> QED  BY <1>2, <1>3, <1>4 DEF QueueInv

LEMMA InitQueues == Init => QueueInv
  BY DEF Init, FreeLease, Idle, QueueInv, Ordered, WaitingCurrent, Tenders, Tending, Queued, Kept

LEMMA QueueInvariant == Spec => [](Typed /\ Exclusion /\ QueueInv)
  <1>1. Init => Exclusion
    BY DEF Init, FreeLease, Exclusion, WriterExclusion, PreparingManaged
  <1> QED
    BY <1>1, InitTyped, NextTyped, NextExcludes, InitQueues, NextQueues, PTL DEF Spec

\* A lease that waits for a checkout of which no managed worktree was asked waits for an
\* active lease, whose release walks the waiters again (transition_workspace_lease).
THEOREM WaitersAwaited ==
  Spec => [](\A l \in Leases : lease[l].state = "waiting" /\ Plain(lease[l].root) => Awaited(l))
  <1>1. QueueInv => \A l \in Leases : lease[l].state = "waiting" /\ Plain(lease[l].root) => Awaited(l)
    BY DEF QueueInv, Queued
  <1> QED  BY <1>1, QueueInvariant, PTL

\* On such a checkout nothing becomes active past an earlier request that goes on waiting,
\* neither a new request nor a waiter behind it (acquire_workspace_lease).
THEOREM GrantedInOrder == Spec => [][InOrder]_vars
  <1>1. Typed /\ Exclusion /\ QueueInv /\ [Next]_vars => [InOrder]_vars
    BY NextQueues
  <1> QED  BY <1>1, QueueInvariant, PTL DEF Spec

\* Where no request asks for a managed worktree, every root is plain.
AllCurrent == \A l \in Kept : lease[l].mode = "current"

LEMMA NextCurrent ==
  ASSUME "managed" \notin Modes
  PROVE  Typed /\ Exclusion /\ QueueInv /\ AllCurrent /\ [Next]_vars => AllCurrent'
  <1> SUFFICES ASSUME Typed, Exclusion, QueueInv, AllCurrent, [Next]_vars PROVE AllCurrent'
    OBVIOUS
  <1>1. TableStep /\ RowsStay
    BY NextTableStep, RowsOrdered
  <1>2. (\A m \in Kept' : m \in Kept) => AllCurrent'
    BY <1>1 DEF AllCurrent, RowsStay
  <1>3. ASSUME NEW l \in Leases, Inserted(l)
        PROVE  AllCurrent'
    <2>1. PICK r \in Roots, writable \in BOOLEAN, expires \in Expiries :
            AcquireCurrent(l, r, writable, expires)
      BY <1>3 DEF Inserted
    <2>2. lease'[l].mode = "current" /\ \A m \in Leases : m # l => lease'[m] = lease[m]
      BY <2>1 DEF AcquireCurrent, Insert, Typed, TypeOK
    <2> QED  BY <2>2 DEF AllCurrent, Kept
  <1>4. CASE Untouched
    BY <1>2, <1>4 DEF Untouched, Kept
  <1>5. ASSUME NEW l \in Leases, Restated(l) \/ Left(l)
        PROVE  AllCurrent'
    BY <1>2, <1>5, RestatedRows, LeftRows
  <1> QED  BY <1>1, <1>3, <1>4, <1>5 DEF TableStep

LEMMA CurrentInvariant ==
  ASSUME "managed" \notin Modes
  PROVE  Spec => [](AllCurrent /\ QueueInv /\ Typed /\ Exclusion)
  <1>1. Init => AllCurrent
    BY DEF Init, FreeLease, AllCurrent, Kept
  <1>2. Typed /\ Exclusion /\ QueueInv /\ AllCurrent /\ [Next]_vars => AllCurrent'
    BY NextCurrent
  <1> QED  BY <1>1, <1>2, QueueInvariant, PTL DEF Spec

\* Where worktrees are not managed (a root without git), a waiting lease always waits for
\* somebody who has yet to leave the table and will then walk the waiters again
\* (transition_workspace_lease): no wakeup is lost.
THEOREM NobodyStranded ==
  ASSUME "managed" \notin Modes
  PROVE  Spec => []NoStrandedWaiter
  <1>1. AllCurrent /\ QueueInv => NoStrandedWaiter
    BY DEF AllCurrent, QueueInv, Queued, Awaited, Plain, NoStrandedWaiter
  <1> QED  BY <1>1, CurrentInvariant, PTL

\* Where worktrees are not managed, leases of a checkout are granted in the order they were
\* asked for: nothing becomes active past an earlier request that goes on waiting
\* (acquire_workspace_lease, transition_workspace_lease).
THEOREM GrantsInOrder ==
  ASSUME "managed" \notin Modes
  PROVE  Spec => FifoGrants
  <1>1. AllCurrent /\ QueueInv /\ Typed /\ Exclusion /\ [Next]_vars =>
          [\A l, m \in Leases :
             /\ lease[l].state = "waiting" /\ lease'[l].state = "waiting"
             /\ lease[m].state # "active" /\ lease'[m].state = "active"
             /\ lease'[m].mode = "current" /\ lease'[m].root = lease[l].root
             => lease'[m].row < lease[l].row]_vars
    BY NextQueues DEF AllCurrent, Plain, InOrder
  <1> QED  BY <1>1, CurrentInvariant, PTL DEF Spec, FifoGrants
=============================================================================
