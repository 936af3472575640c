---------------------------- MODULE WorktreeProofs ----------------------------
(***************************************************************************)
(* Proof of what happens to the work of tools in managed worktrees:        *)
(* cleanup never removes changes that git status shows, and nothing but    *)
(* cleanup removes work that it does not show, for any number of leases,   *)
(* roots, threads and crashes.                                             *)
(***************************************************************************)
EXTENDS WorkspaceLeasesProofs

Creating == {"create", "activate", "abandon"}
Fresh == {"free", "preparing"}
Worked == {"dirty", "hidden"}

\* The thread that makes a worktree is the only one that can activate its lease.
CreatorAlone ==
  \A t \in Threads : thread[t].step \in Creating =>
    /\ phase = "up"
    /\ lease[thread[t].lease].state \notin {"free", "waiting", "active"}
    /\ tree[thread[t].lease] \notin Worked /\ guards[thread[t].lease] = {}
    /\ \A u \in Threads : thread[u].step \in Creating /\ thread[u].lease = thread[t].lease
                          => u = t
\* A lease under cleanup never becomes active again.
CleaningDetached ==
  \A t \in Threads : thread[t].step \in CleanupSteps => lease[thread[t].lease].state \in Detached
\* What a thread is about to remove has no changes git status would show, and a partial tree
\* that it is about to discard holds no work.
RemovesClean ==
  \A t \in Threads :
    /\ thread[t].step = "remove" => tree[thread[t].lease] # "dirty"
    /\ thread[t].step = "discard" => tree[thread[t].lease] \notin Worked
\* No dispatch and no write came before the lease became active.
FreshClean ==
  \A l \in Leases : lease[l].state \in Fresh => tree[l] \notin Worked /\ guards[l] = {}
Keeping == CreatorAlone /\ CleaningDetached /\ RemovesClean /\ FreshClean

-----------------------------------------------------------------------------
(* What the steps have in common *)

\* A thread stays where it is, is neither making nor removing a worktree, goes on
\* making the one it makes, or goes on cleaning up what it may clean up.
Continues(u) ==
  \/ thread'[u] = thread[u]
  \/ thread'[u].step \notin Creating \cup CleanupSteps
  \/ /\ thread'[u].step \in Creating /\ thread[u].step \in Creating
     /\ thread'[u].lease = thread[u].lease
  \/ /\ thread'[u].step \in CleanupSteps
     /\ lease'[thread'[u].lease].state \in Detached
     /\ thread'[u].step = "remove" => tree'[thread'[u].lease] # "dirty"
     /\ thread'[u].step = "discard" => tree'[thread'[u].lease] \notin Worked

\* What may happen to a lease: once detached it stays so, it is never fresh again, its
\* tree is written to by a dispatch only, or by the user once it shows changes, and a dispatch
\* begins on an active lease only.
Keeps(m) ==
  /\ lease[m].state \in Detached => lease'[m].state \in Detached
  /\ lease'[m].state \in Fresh => lease[m].state \in Fresh
  /\ tree'[m] \in Worked => \/ tree[m] \in {tree'[m], "dirty"}
                            \/ guards[m] # {} /\ lease'[m].state \notin Fresh
  /\ guards'[m] # {} => \/ guards[m] # {}
                        \/ lease[m].state = "active" /\ lease'[m].state = "active"

\* Nobody's worktree is put into use while it is being made.
MakersKeep ==
  \A u \in Threads : thread'[u].step \in Creating
    => phase' = "up" /\ lease'[thread'[u].lease].state \notin {"free", "waiting", "active"}

LEMMA KeptBy ==
  ASSUME Typed, Fence, Keeping, \A m \in Leases : Keeps(m), \A u \in Threads : Continues(u), MakersKeep
  PROVE  Keeping'
  <1>1. \A u \in Threads : thread[u].step \in Creating \cup CleanupSteps => thread[u].lease \in Leases
    BY DEF Typed, Placed, Creating, CleanupSteps
  <1>2. \A u \in Threads : thread'[u].step \in Creating
          => thread[u].step \in Creating /\ thread'[u].lease = thread[u].lease
    BY DEF Continues, Creating, CleanupSteps
  <1>3. CreatorAlone'
    <2> SUFFICES ASSUME NEW u \in Threads, thread'[u].step \in Creating
                 PROVE  /\ tree'[thread'[u].lease] \notin Worked /\ guards'[thread'[u].lease] = {}
                        /\ \A v \in Threads :
                             thread'[v].step \in Creating /\ thread'[v].lease = thread'[u].lease
                               => v = u
      BY DEF CreatorAlone, MakersKeep
    <2>1. /\ thread[u].step \in Creating /\ thread'[u].lease = thread[u].lease
          /\ thread[u].lease \in Leases
      BY <1>1, <1>2
    <2>2. /\ tree[thread[u].lease] \notin Worked /\ guards[thread[u].lease] = {}
          /\ lease[thread[u].lease].state # "active"
      BY <2>1 DEF Keeping, CreatorAlone
    <2>3. tree'[thread[u].lease] \notin Worked /\ guards'[thread[u].lease] = {}
      BY <2>1, <2>2 DEF Keeps, Worked
    <2>4. \A v \in Threads : thread'[v].step \in Creating /\ thread'[v].lease = thread'[u].lease
            => v = u
      BY <1>2, <2>1 DEF Keeping, CreatorAlone
    <2> QED  BY <2>1, <2>3, <2>4
  <1>4. CleaningDetached'
    BY <1>1 DEF Keeping, CleaningDetached, Keeps, Continues, Creating, CleanupSteps
  <1>5. RemovesClean'
    <2> SUFFICES ASSUME NEW u \in Threads, thread'[u].step \in {"remove", "discard"}
                 PROVE  /\ thread'[u].step = "remove" => tree'[thread'[u].lease] # "dirty"
                        /\ thread'[u].step = "discard" => tree'[thread'[u].lease] \notin Worked
      BY DEF RemovesClean
    <2>1. CASE thread'[u] = thread[u]
      <3>1. /\ thread[u].lease \in Leases /\ lease[thread[u].lease].state \in Detached
            /\ thread[u].step = "remove" => tree[thread[u].lease] # "dirty"
            /\ thread[u].step = "discard" => tree[thread[u].lease] \notin Worked
            /\ guards[thread[u].lease] = {}
        BY <1>1, <2>1 DEF Fence, CleanupFenced, Keeping, CleaningDetached, RemovesClean, CleanupSteps
      <3>2. /\ tree'[thread[u].lease] = "dirty" => tree[thread[u].lease] = "dirty"
            /\ tree'[thread[u].lease] \in Worked => tree[thread[u].lease] \in Worked
        BY <3>1 DEF Keeps, Worked
      <3> QED  BY <2>1, <3>1, <3>2
    <2> QED  BY <2>1 DEF Continues, Creating, CleanupSteps
  <1>6. FreshClean'
    BY DEF Keeping, FreshClean, Keeps, Fresh, Worked
  <1> QED  BY <1>3, <1>4, <1>5, <1>6 DEF Keeping

\* The ways the table changes.
LEMMA TableKeeps ==
  ASSUME Typed, NEW l \in Leases, tree' = tree, guards' = guards
  PROVE  /\ lease' = lease => \A m \in Leases : Keeps(m)
         /\ \A state \in Detached : SetState(l, state) => \A m \in Leases : Keeps(m)
         /\ \A terminal \in {"released", "expired"} :
              Transition(l, terminal) /\ (terminal = "expired" => lease[l].state \notin Detached)
                => \A m \in Leases : Keeps(m)
  <1>1. lease' = lease => \A m \in Leases : Keeps(m)
    BY DEF Keeps
  <1>2. ASSUME NEW state \in Detached, SetState(l, state) PROVE \A m \in Leases : Keeps(m)
    BY <1>2 DEF SetState, Keeps, Detached, Fresh, Typed, TypeOK, LeaseRecord
  <1>3. ASSUME NEW terminal \in {"released", "expired"}, Transition(l, terminal),
               terminal = "expired" => lease[l].state \notin Detached
        PROVE  \A m \in Leases : Keeps(m)
    BY <1>3, TransitionEffect DEF Keeps, Detached, Fresh, Typed
  <1> QED  BY <1>1, <1>2, <1>3

\* The makers that are left after a step, and their leases.
LEMMA MakersKept ==
  ASSUME Typed, Keeping, NEW l \in Leases, phase' = phase,
         \A u \in Threads : Continues(u)
  PROVE  /\ lease' = lease => MakersKeep
         /\ \A state \in Detached : SetState(l, state) => MakersKeep
         /\ \A terminal \in {"released", "expired"} : Transition(l, terminal) => MakersKeep
  <1>1. \A u \in Threads : thread'[u].step \in Creating
          => /\ thread'[u].lease = thread[u].lease /\ thread[u].lease \in Leases
             /\ phase = "up"
             /\ lease[thread[u].lease].state \notin {"free", "waiting", "active"}
    BY DEF Continues, Creating, CleanupSteps, Typed, Placed, Keeping, CreatorAlone
  <1>2. lease' = lease => MakersKeep
    BY <1>1 DEF MakersKeep
  <1>3. ASSUME NEW state \in Detached, SetState(l, state) PROVE MakersKeep
    BY <1>1, <1>3 DEF SetState, MakersKeep, Detached, Typed, TypeOK, LeaseRecord
  <1>4. ASSUME NEW terminal \in {"released", "expired"}, Transition(l, terminal) PROVE MakersKeep
    BY <1>1, <1>4, TransitionEffect DEF MakersKeep, Typed
  <1> QED  BY <1>2, <1>3, <1>4

\* A thread goes on, or stops: the others stay where they are.
LEMMA OneThread ==
  ASSUME Typed, NEW t \in Threads
  PROVE  /\ Stop(t) => \A u \in Threads : Continues(u)
         /\ \A step \in Steps \ (Creating \cup CleanupSteps) :
              Go(t, step) => \A u \in Threads : Continues(u)
         /\ \A step \in Creating : Go(t, step) /\ thread[t].step \in Creating
              => \A u \in Threads : Continues(u)
         /\ \A step \in CleanupSteps :
              /\ Go(t, step) /\ lease'[thread[t].lease].state \in Detached
              /\ step = "remove" => tree'[thread[t].lease] # "dirty"
              /\ step = "discard" => tree'[thread[t].lease] \notin Worked
              => \A u \in Threads : Continues(u)
  <1>1. thread \in [Threads -> ThreadRecord]
    BY DEF Typed, TypeOK
  <1>2. Stop(t) => \A u \in Threads : Continues(u)
    BY <1>1 DEF Stop, Idle, Continues, Creating, CleanupSteps
  <1>3. ASSUME NEW step, Go(t, step)
        PROVE  /\ thread'[t].step = step /\ thread'[t].lease = thread[t].lease
               /\ \A u \in Threads \ {t} : thread'[u] = thread[u]
    BY <1>1, <1>3 DEF Go, ThreadRecord
  <1> QED  BY <1>2, <1>3 DEF Continues

-----------------------------------------------------------------------------
(* Steps of a thread *)

LEMMA ThreadStepKeeps ==
  ASSUME Typed, Fence, Keeping, NEW t \in Threads, ThreadStep(t)
  PROVE  Keeping'
  <1> DEFINE l == thread[t].lease
             Others == \A u \in Threads : Continues(u)
             Table == \A m \in Leases : Keeps(m)
  <1>0. thread[t].step # "idle" => l \in Leases
    BY DEF Typed, Placed
  <1>a. Others /\ Table /\ MakersKeep => Keeping'
    BY KeptBy
  <1>b. ASSUME l \in Leases, tree' = tree, guards' = guards, phase' = phase, Others,
               \/ lease' = lease
               \/ \E state \in Detached : SetState(l, state)
               \/ Transition(l, "released")
        PROVE  Keeping'
    BY <1>a, <1>b, TableKeeps, MakersKept
  <1>c. ASSUME l \in Leases, lease' = lease, phase' = phase, Others,
               \A m \in Leases :
                 /\ tree'[m] \in Worked => \/ tree[m] = tree'[m]
                                           \/ guards[m] # {} /\ lease[m].state \notin Fresh
                 /\ guards'[m] # {} => guards[m] # {} \/ lease[m].state = "active"
        PROVE  Keeping'
    <2>1. Table
      BY <1>c DEF Keeps
    <2> QED  BY <1>a, <1>c, <2>1, MakersKept
  <1>d. thread[t].step \in Creating => tree[l] \notin Worked
    BY DEF Keeping, CreatorAlone
  <1>e. thread[t].step \in CleanupSteps => lease[l].state \in Detached
    BY DEF Keeping, CleaningDetached
  <1> HIDE DEF Others, Table
  <1>1. CASE CreateWorktree(t)
    <2>1. /\ l \in Leases /\ thread[t].step \in Creating /\ lease' = lease /\ phase' = phase
          /\ Go(t, "activate") \/ Go(t, "abandon")
      BY <1>0, <1>1 DEF CreateWorktree, OnLease, Creating
    <2>2. Others
      BY <2>1, OneThread DEF Others, Creating
    <2>3. guards' = guards /\ \A m \in Leases : tree'[m] \in Worked => tree[m] = tree'[m]
      BY <1>1, <2>1 DEF CreateWorktree, Worked, Typed, TypeOK
    <2> QED  BY <1>c, <2>1, <2>2, <2>3
  <1>2. CASE ActivateManaged(t)
    <2>1. CASE lease[l].state = "preparing"
      <3>1. /\ l \in Leases /\ thread[t].step \in Creating /\ SetState(l, "active") /\ Stop(t)
            /\ tree' = tree /\ guards' = guards /\ phase' = phase
        BY <1>0, <1>2, <2>1 DEF ActivateManaged, OnLease, Creating
      <3>2. lease'[l].state = "active" /\ \A m \in Leases \ {l} : lease'[m] = lease[m]
        BY <3>1 DEF SetState, Typed, TypeOK, LeaseRecord
      <3>3. Table
        BY <2>1, <3>1, <3>2 DEF Table, Keeps, Detached, Fresh
      <3>4. thread'[t].step = "idle" /\ \A u \in Threads \ {t} : thread'[u] = thread[u]
        BY <3>1 DEF Stop, Idle, Typed, TypeOK
      <3>5. MakersKeep
        BY <3>1, <3>2, <3>4 DEF MakersKeep, Keeping, CreatorAlone, Creating, Typed, Placed
      <3> QED  BY <1>a, <3>1, <3>3, <3>5, OneThread DEF Others
    <2>2. CASE lease[l].state # "preparing"
      BY <1>0, <1>2, <1>b, <2>2, OneThread DEF ActivateManaged, OnLease, Others
    <2> QED  BY <2>1, <2>2
  <1>3. CASE AbandonWorktree(t)
    <2>1. /\ l \in Leases /\ thread[t].step \in Creating
          /\ tree' = tree /\ guards' = guards /\ phase' = phase
      BY <1>0, <1>3 DEF AbandonWorktree, OnLease, Creating
    <2>2. CASE SetState(l, "cleanup_pending") /\ Go(t, "discard")
      <3>1. lease'[l].state \in Detached
        BY <2>1, <2>2 DEF SetState, Detached, Typed, TypeOK, LeaseRecord
      <3>2. Others
        BY <1>d, <2>1, <2>2, <3>1, OneThread DEF Others, CleanupSteps
      <3> QED  BY <1>b, <2>1, <2>2, <3>2 DEF Detached
    <2>3. CASE lease' = lease /\ Stop(t)
      BY <1>b, <2>1, <2>3, OneThread DEF Others
    <2> QED  BY <1>3, <2>2, <2>3 DEF AbandonWorktree
  <1>4. CASE DiscardPartialWorktree(t) \/ RemoveWorktree(t)
    <2>1. /\ l \in Leases /\ thread[t].step \in CleanupSteps /\ lease' = lease /\ phase' = phase
          /\ Go(t, "release") \/ Stop(t)
      BY <1>0, <1>4 DEF DiscardPartialWorktree, RemoveWorktree, OnLease, CleanupSteps
    <2>2. Others
      BY <1>e, <2>1, OneThread DEF Others, CleanupSteps
    <2>3. guards' = guards /\ \A m \in Leases : tree'[m] \in Worked => tree[m] = tree'[m]
      BY <1>4, <2>1 DEF DiscardPartialWorktree, RemoveWorktree, Worked, Typed, TypeOK
    <2> QED  BY <1>c, <2>1, <2>2, <2>3
  <1>5. CASE CleanupExpired(t)
    <2>1. l \in Leases /\ tree' = tree /\ guards' = guards /\ phase' = phase
      BY <1>0, <1>5 DEF CleanupExpired, OnLease
    <2>2. CASE SetState(l, "cleanup_pending") /\ Go(t, "inspect")
      <3>1. lease'[l].state \in Detached
        BY <2>1, <2>2 DEF SetState, Detached, Typed, TypeOK, LeaseRecord
      <3>2. Others
        BY <2>1, <2>2, <3>1, OneThread DEF Others, CleanupSteps
      <3> QED  BY <1>b, <2>1, <2>2, <3>2 DEF Detached
    <2>3. CASE lease' = lease /\ Stop(t)
      BY <1>b, <2>1, <2>3, OneThread DEF Others
    <2> QED  BY <1>5, <2>2, <2>3 DEF CleanupExpired
  <1>6. CASE InspectWorktree(t)
    <2>1. /\ l \in Leases /\ thread[t].step \in CleanupSteps /\ lease' = lease /\ tree' = tree
          /\ guards' = guards /\ phase' = phase /\ (Go(t, AfterInspection(l)) \/ Stop(t))
      BY <1>0, <1>6 DEF InspectWorktree, OnLease, CleanupSteps
    <2>2. /\ AfterInspection(l) \in {"release", "block", "remove"}
          /\ AfterInspection(l) = "remove" => tree[l] # "dirty"
      BY <2>1 DEF AfterInspection, StatusShows, Typed, TypeOK
    <2>3. Others
      BY <1>e, <2>1, <2>2, OneThread DEF Others, CleanupSteps
    <2> QED  BY <1>b, <2>1, <2>3
  <1>7. CASE ReleaseManaged(t)
    <2>1. /\ l \in Leases /\ tree' = tree /\ guards' = guards /\ phase' = phase /\ Stop(t)
          /\ lease' = lease \/ Transition(l, "released")
      BY <1>0, <1>7 DEF ReleaseManaged, OnLease
    <2> QED  BY <1>b, <2>1, OneThread DEF Others
  <1>8. CASE BlockCleanup(t)
    <2>1. /\ l \in Leases /\ tree' = tree /\ guards' = guards /\ phase' = phase /\ Stop(t)
          /\ lease' = lease \/ SetState(l, "cleanup_blocked")
      BY <1>0, <1>8 DEF BlockCleanup, OnLease
    <2> QED  BY <1>b, <2>1, OneThread DEF Others, Detached
  <1>9. CASE BeginDispatch(t) \/ Reauthorize(t) \/ SealAuthorization(t) \/ EndDispatch(t)
    <2>1. /\ l \in Leases /\ lease' = lease /\ tree' = tree /\ phase' = phase
          /\ Stop(t) \/ Go(t, "begun") \/ Go(t, "executing") \/ Go(t, "draining")
      BY <1>0, <1>9 DEF BeginDispatch, Reauthorize, SealAuthorization, EndDispatch, OnLease
    <2>2. Others
      BY <2>1, OneThread DEF Others, Steps, Creating, CleanupSteps
    <2>3. \A m \in Leases : guards'[m] # {} => guards[m] # {} \/ lease[m].state = "active"
      BY <1>9, <2>1 DEF BeginDispatch, Reauthorize, SealAuthorization, EndDispatch, DropGuard,
         Typed, TypeOK
    <2> QED  BY <1>c, <2>1, <2>2, <2>3
  <1>10. CASE BeginFileOperation(t)
    <2>1. Others
      BY <1>10 DEF BeginFileOperation, Others, Continues
    <2> QED  BY <1>0, <1>b, <1>10, <2>1 DEF BeginFileOperation, OnLease
  <1>11. CASE FinishFileOperation(t)
    <2>1. Others
      BY <1>11 DEF FinishFileOperation, Others, Continues
    <2>2. l \in Leases /\ guards[l] # {} /\ lease[l].state \notin Fresh
      BY <1>0, <1>11 DEF FinishFileOperation, Fence, OperationsDispatched, Guarded, Usable, Using, Fresh
    <2>3. guards' = guards /\ \A m \in Leases \ {l} : tree'[m] = tree[m]
      BY <1>11, <2>2 DEF FinishFileOperation, Typed, TypeOK
    <2> QED  BY <1>c, <1>11, <2>1, <2>2, <2>3 DEF FinishFileOperation
  <1> QED
    BY <1>1, <1>2, <1>3, <1>4, <1>5, <1>6, <1>7, <1>8, <1>9, <1>10, <1>11 DEF ThreadStep

-----------------------------------------------------------------------------
(* The other steps *)

\* A thread takes a lease up, to clean it up or to use it.
LEMMA TakeUpKeeps ==
  ASSUME Typed, Fence, Keeping, NEW l \in Leases, NEW t \in Threads
  PROVE  /\ \A r \in Roots, writable \in BOOLEAN, expires \in Expiries :
              PrepareManaged(t, l, r, writable, expires) => Keeping'
         /\ BeginCleanup(t, l) => Keeping'
         /\ ExpireLease(t, l) => Keeping'
         /\ AuthorizeOverride(t, l) => Keeping'
         /\ \A kind \in {"read", "write"} : AuthorizeTool(t, l, kind) => Keeping'
  <1>0. thread \in [Threads -> ThreadRecord]
    BY DEF Typed, TypeOK
  <1>a. ASSUME NEW step, NEW kind, thread' = [thread EXCEPT ![t] = At(step, l, kind)]
        PROVE  /\ thread'[t].step = step /\ thread'[t].lease = l
               /\ \A u \in Threads \ {t} : thread'[u] = thread[u]
    BY <1>0, <1>a DEF At
  <1>1. ASSUME NEW r \in Roots, NEW writable \in BOOLEAN, NEW expires \in Expiries,
               PrepareManaged(t, l, r, writable, expires)
        PROVE  Keeping'
    <2>1. /\ thread'[t].step = "create" /\ thread'[t].lease = l
          /\ \A u \in Threads \ {t} : thread'[u] = thread[u]
      BY <1>1, <1>a DEF PrepareManaged
    <2>2. /\ lease[l].state = "free" /\ lease'[l].state = "preparing"
          /\ \A m \in Leases \ {l} : lease'[m] = lease[m]
          /\ tree' = tree /\ guards' = guards /\ phase' = phase /\ phase = "up"
      BY <1>1 DEF PrepareManaged, Insert, Typed, TypeOK
    <2>3. \A u \in Threads : thread[u].step \in Creating \cup CleanupSteps
            => thread[u].lease \in Leases \ {l}
      BY <2>2 DEF Keeping, CreatorAlone, CleaningDetached, Typed, Placed, Creating, CleanupSteps, Detached
    <2>4. CreatorAlone'
      BY <2>1, <2>2, <2>3 DEF Keeping, CreatorAlone, FreshClean, Fresh
    <2>5. CleaningDetached' /\ RemovesClean'
      BY <2>1, <2>2, <2>3 DEF Keeping, CleaningDetached, RemovesClean, CleanupSteps
    <2>6. FreshClean'
      BY <2>2 DEF Keeping, FreshClean, Fresh
    <2> QED  BY <2>4, <2>5, <2>6 DEF Keeping
  <1>2. ASSUME BeginCleanup(t, l) PROVE Keeping'
    <2>1. /\ SetState(l, "cleanup_pending") /\ tree' = tree /\ guards' = guards /\ phase' = phase
          /\ thread'[t].step = "inspect" /\ thread'[t].lease = l
          /\ \A u \in Threads \ {t} : thread'[u] = thread[u]
      BY <1>2, <1>a DEF BeginCleanup
    <2>2. lease'[l].state \in Detached
      BY <2>1 DEF SetState, Detached, Typed, TypeOK, LeaseRecord
    <2>3. \A u \in Threads : Continues(u)
      BY <2>1, <2>2 DEF Continues, CleanupSteps
    <2> QED  BY <2>1, <2>3, KeptBy, TableKeeps, MakersKept DEF Detached
  <1>3. ASSUME ExpireLease(t, l) PROVE Keeping'
    <2>1. /\ Transition(l, "expired") /\ tree' = tree /\ guards' = guards /\ phase' = phase
          /\ lease[l].state \notin Detached
      BY <1>3 DEF ExpireLease, Detached
    <2>2. \A u \in Threads : Continues(u)
      BY <1>3, <1>a DEF ExpireLease, Continues, Creating, CleanupSteps
    <2> QED  BY <2>1, <2>2, KeptBy, TableKeeps, MakersKept
  <1>4. ASSUME AuthorizeOverride(t, l) \/ \E kind \in {"read", "write"} : AuthorizeTool(t, l, kind)
        PROVE  Keeping'
    <2>1. lease' = lease /\ tree' = tree /\ guards' = guards /\ phase' = phase
      BY <1>4 DEF AuthorizeOverride, AuthorizeTool
    <2>2. \A u \in Threads : Continues(u)
      BY <1>4, <1>a DEF AuthorizeOverride, AuthorizeTool, Continues, Creating, CleanupSteps
    <2> QED  BY <2>1, <2>2, KeptBy, TableKeeps, MakersKept
  <1> QED  BY <1>1, <1>2, <1>3, <1>4

\* Steps on one lease that no thread goes on with.
LEMMA LeaseStepKeeps ==
  ASSUME Typed, Fence, Keeping, NEW l \in Leases
  PROVE  /\ \A r \in Roots, writable \in BOOLEAN, expires \in Expiries :
              AcquireCurrent(l, r, writable, expires) => Keeping'
         /\ ReleaseCurrent(l) => Keeping'
         /\ UserDiscardsChanges(l) => Keeping'
         /\ DetachSubagentWorktree(l) => Keeping'
         /\ ClockPasses(l) => Keeping'
         /\ ReconcilePreparing(l) => Keeping'
  <1>0. thread' = thread => \A u \in Threads : Continues(u)
    BY DEF Continues
  <1>m. \A u \in Threads : thread[u].step \in Creating
          => /\ thread[u].lease \in Leases /\ phase = "up"
             /\ lease[thread[u].lease].state \notin {"free", "waiting", "active"}
    BY DEF Keeping, CreatorAlone, Typed, Placed, Creating
  <1>1. ASSUME NEW r \in Roots, NEW writable \in BOOLEAN, NEW expires \in Expiries,
               AcquireCurrent(l, r, writable, expires)
        PROVE  Keeping'
    <2>1. /\ lease[l].state = "free" /\ lease'[l].state \in {"waiting", "active"}
          /\ \A m \in Leases \ {l} : lease'[m] = lease[m]
          /\ tree' = tree /\ guards' = guards /\ phase' = phase /\ thread' = thread
      BY <1>1 DEF AcquireCurrent, Insert, Typed, TypeOK
    <2>2. \A m \in Leases : Keeps(m)
      BY <2>1 DEF Keeps, Detached, Fresh
    <2>3. MakersKeep
      BY <1>m, <2>1 DEF MakersKeep
    <2> QED  BY <1>0, <2>1, <2>2, <2>3, KeptBy
  <1>2. ASSUME ReleaseCurrent(l) PROVE Keeping'
    BY <1>0, <1>2, KeptBy, TableKeeps, MakersKept DEF ReleaseCurrent
  <1>3. ASSUME UserDiscardsChanges(l) PROVE Keeping'
    <2>1. /\ lease' = lease /\ guards' = guards /\ phase' = phase /\ thread' = thread
          /\ \A m \in Leases : tree'[m] \in Worked => tree[m] \in {tree'[m], "dirty"}
      BY <1>3 DEF UserDiscardsChanges, Typed, TypeOK
    <2>2. \A m \in Leases : Keeps(m)
      BY <2>1 DEF Keeps
    <2> QED  BY <1>0, <2>1, <2>2, KeptBy, MakersKept
  <1>4. ASSUME ClockPasses(l) PROVE Keeping'
    BY <1>0, <1>4, KeptBy, TableKeeps, MakersKept DEF ClockPasses
  <1>5. ASSUME ReconcilePreparing(l) PROVE Keeping'
    <2>1. /\ lease[l].state = "preparing" /\ lease'[l].state = "active"
          /\ \A m \in Leases \ {l} : lease'[m] = lease[m]
          /\ thread' = thread /\ guards' = guards /\ phase = "reconciling"
          /\ \A m \in Leases : tree'[m] \in Worked => tree[m] = tree'[m]
      BY <1>5 DEF ReconcilePreparing, SetState, Worked, Typed, TypeOK, LeaseRecord
    <2>2. \A m \in Leases : Keeps(m)
      BY <2>1 DEF Keeps, Detached, Fresh
    <2>3. MakersKeep
      BY <1>m, <2>1 DEF MakersKeep
    <2> QED  BY <1>0, <2>1, <2>2, <2>3, KeptBy
  <1>6. ASSUME DetachSubagentWorktree(l) PROVE Keeping'
    BY <1>0, <1>6, KeptBy, TableKeeps, MakersKept DEF DetachSubagentWorktree, Detached
  <1> QED  BY <1>1, <1>2, <1>3, <1>4, <1>5, <1>6

LEMMA NextKeeps == Typed /\ Fence /\ Keeping /\ [Next]_vars => Keeping'
  <1> SUFFICES ASSUME Typed, Fence, Keeping, [Next]_vars PROVE Keeping'
    OBVIOUS
  <1>1. Crash => Keeping'
    BY DEF Crash, Idle, Keeping, CreatorAlone, CleaningDetached, RemovesClean, FreshClean,
       Creating, CleanupSteps
  <1>2. ExpiryDone \/ StartupDone => Keeping'
    BY DEF ExpiryDone, StartupDone, AllIdle, Idle, Keeping, CreatorAlone, CleaningDetached,
       RemovesClean, FreshClean, Creating, CleanupSteps
  <1>3. UNCHANGED vars => Keeping'
    BY DEF vars, Keeping, CreatorAlone, CleaningDetached, RemovesClean, FreshClean
  <1> QED  BY <1>1, <1>2, <1>3, ThreadStepKeeps, TakeUpKeeps, LeaseStepKeeps DEF Next

-----------------------------------------------------------------------------
\* How the work in a tree can change or go.
LEMMA WorkStays ==
  ASSUME Typed, Fence, Keeping, Next, NEW l \in Leases, tree[l] \in Worked, tree'[l] # tree[l]
  PROVE  ByTool(l) \/ ByUser(l) \/ Unseen(l)
  <1>t. tree \in [Leases -> Contents \cup {"absent"}] /\ tree[l] # "absent"
    BY DEF Typed, TypeOK, Worked
  <1>1. ASSUME NEW t \in Threads, ThreadStep(t) PROVE ByTool(l) \/ Unseen(l)
    <2> DEFINE m == thread[t].lease
    <2>1. CASE CreateWorktree(t)
      BY <1>t, <2>1 DEF CreateWorktree
    <2>2. CASE DiscardPartialWorktree(t)
      <3>1. tree[m] \notin Worked
        BY <2>2 DEF DiscardPartialWorktree, OnLease, Keeping, RemovesClean
      <3> QED  BY <1>t, <2>2, <3>1 DEF DiscardPartialWorktree
    <2>3. CASE RemoveWorktree(t)
      <3>1. thread[t].step = "remove" /\ tree[m] # "dirty" /\ m = l
        BY <1>t, <2>3 DEF RemoveWorktree, OnLease, Keeping, RemovesClean
      <3> QED  BY <3>1 DEF Unseen, Worked
    <2>4. CASE FinishFileOperation(t)
      <3>1. t \in inflight /\ t \notin inflight' /\ m = l
        BY <1>t, <2>4 DEF FinishFileOperation
      <3> QED  BY <3>1 DEF ByTool
    <2>5. tree' # tree
      OBVIOUS
    <2> QED
      BY <1>1, <2>1, <2>2, <2>3, <2>4, <2>5
         DEF ThreadStep, ActivateManaged, AbandonWorktree, CleanupExpired, InspectWorktree,
             ReleaseManaged, BlockCleanup, BeginDispatch, Reauthorize, BeginFileOperation,
             SealAuthorization, EndDispatch
  <1>2. ASSUME NEW m \in Leases, ReconcilePreparing(m) PROVE FALSE
    BY <1>t, <1>2 DEF ReconcilePreparing, Keeping, FreshClean, Fresh
  <1>3. ASSUME NEW m \in Leases, UserDiscardsChanges(m) PROVE ByUser(l)
    BY <1>t, <1>3 DEF UserDiscardsChanges, ByUser
  <1>4. tree' # tree
    OBVIOUS
  <1> QED
    BY <1>1, <1>2, <1>3, <1>4
       DEF Next, AcquireCurrent, PrepareManaged, ReleaseCurrent, ClockPasses, BeginCleanup,
           DetachSubagentWorktree,
           ExpireLease, AuthorizeOverride, AuthorizeTool, Crash, ExpiryDone, StartupDone

\* Cleanup removes worktrees with --force, yet never one whose changes git status shows, and
\* neither a failed creation nor reconciliation removes work of a tool, shown or not, however
\* cleanup, expiry, dispatches and restarts interleave (cleanup_managed,
\* discard_partial_worktree, reconcile_managed_worktrees).
THEOREM WorkKept == Spec => ShownWorkKept
  <1>1. Init => Keeping
    BY DEF Init, Idle, Keeping, CreatorAlone, CleaningDetached, RemovesClean, FreshClean,
       Creating, CleanupSteps, Worked
  <1>2. Typed /\ Fence /\ Keeping /\ [Next]_vars
          => [\A l \in Leases : tree[l] \in {"dirty", "hidden"} /\ tree'[l] # tree[l]
                => ByTool(l) \/ ByUser(l) \/ Unseen(l)]_vars
    BY WorkStays DEF Worked
  <1> QED
    BY <1>1, <1>2, InitTyped, NextTyped, InitFences, NextFences, NextKeeps, PTL
       DEF Spec, ShownWorkKept
=============================================================================
