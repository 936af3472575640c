----------------------------- MODULE ScheduledTasks -----------------------------
(***************************************************************************)
(* The scheduler of one scheduled task (scheduled_task.rs): the loop that  *)
(* ticks, and clients that save, enable, delete and run the schedule, over *)
(* a configuration file, a schedule-state row and the run records.  Only   *)
(* run_scheduled_task holds operation_lock; every other read and write of  *)
(* the row and of the file is a step of its own.                           *)
(*                                                                         *)
(* Time is relative: `wait' is a due time minus the clock, `age' the clock *)
(* minus the `now' a handler was called with.  A wait below Floor decides  *)
(* what Floor decides, so the clock itself is unbounded.                   *)
(***************************************************************************)
EXTENDS Integers, FiniteSets, FiniteSetsExt

CONSTANTS Tick,        \* the scheduler loop
          Clients,     \* client connections
          Slots,       \* task ids; one nothing refers to any more is used again
          None,        \* no schedule, no row, no task, nobody
          Interval,    \* the schedule's interval
          MaxDelay,    \* bound on the time a handler takes: less than an interval
          MaxEdits,    \* bound on saves, enablings and deletions
          MaxFaults    \* bound on failed store calls, submissions and crashes

ASSUME ScheduleAssumption ==
  /\ Tick \notin Clients
  /\ None \notin Slots \cup Clients \cup {Tick}
  /\ None \notin [wait : Int, active : Slots \cup {None}]
  /\ None \notin [enabled : BOOLEAN, policy : {"skip", "run_once"}, wait : Int]
  /\ Interval \in Nat /\ MaxDelay \in Nat /\ MaxDelay < Interval

VARIABLES file,     \* the schedule in scheduled-tasks.json
          row,      \* its row of scheduled_task_schedule_state
          task,     \* state of each task: none, idle (created, nothing submitted), pending
                    \* (its run's start is still in the outbox), live or ended
          record,   \* the run record of each task
          lock,     \* holder of operation_lock
          woken,    \* the loop's interval has elapsed or a permit of `wake' is there
          caller,   \* program counter and locals of the loop and of each client
          since,    \* history: time since the `now' of the loop's last run
          excused,  \* history: a run was lost sight of (see OverlapExplained)
          edits, faults

store == <<file, row, task, record>>
history == <<since, excused>>
bounds == <<edits, faults>>
vars == <<store, lock, woken, caller, history, bounds>>

Callers == Clients \cup {Tick}
Policies == {"skip", "run_once"}
UnderWay == {"pending", "live"}
Floor == -(Interval + MaxDelay)
Top == Interval + MaxDelay

Spec(enabled, policy) ==
  [enabled |-> enabled, policy |-> policy, wait |-> Interval]

Idle ==
  [pc |-> "idle", spec |-> None, row |-> None, age |-> 0, task |-> None, ok |-> FALSE]

\* The schedule was just saved for the first time.
Init ==
  /\ file \in {Spec(TRUE, policy) : policy \in Policies}
  /\ row = None /\ lock = None /\ woken = TRUE
  /\ task = [t \in Slots |-> "none"]
  /\ record = [t \in Slots |-> "none"]
  /\ caller = [c \in Callers |-> Idle]
  /\ since = Top /\ excused = FALSE
  /\ edits = 0 /\ faults = 0

At(c, pc) == caller[c].pc = pc

Goto(c, pc) == caller' = [caller EXCEPT ![c].pc = pc]

Done(c) == caller' = [caller EXCEPT ![c] = Idle]

(***************************************************************************)
(* What the store and the clock tell a handler.                            *)
(***************************************************************************)
\* Mutant: a run whose start was not delivered yet counts as over.
TerminalPending(t) == task[t] \in {"ended", "pending"}

\* scheduled_task_terminal_status, for a task the store has.
Terminal(t) == task[t] = "ended"

Active(state) == IF state = None THEN None ELSE state.active

\* complete_scheduled_task_run_for_task: the task's record, if it has one.
Complete(t) ==
  record' = [record EXCEPT ![t] = IF @ = "none" THEN @ ELSE "done"]

\* now + interval
NextDue(c) == Interval - caller[c].age

Due(c, state) == state.wait <= -caller[c].age

MissedMultiple(c, state) == state.wait + Interval <= -caller[c].age

\* Mutant: missed_run_policy is not looked at.
DecideSkips(c, state) ==
  CASE ~Due(c, state) -> [pc |-> "save", row |-> state]
    [] MissedMultiple(c, state) ->
         [pc |-> "save", row |-> [state EXCEPT !.wait = NextDue(c)]]
    [] OTHER -> [pc |-> "lock", row |-> None]

\* What a tick does of the state it read: save it, save it advanced, or run.
Decide(c, state) ==
  CASE ~Due(c, state) -> [pc |-> "save", row |-> state]
    [] MissedMultiple(c, state) /\ caller[c].spec.policy = "skip" ->
         [pc |-> "save", row |-> [state EXCEPT !.wait = NextDue(c)]]
    [] OTHER -> [pc |-> "lock", row |-> None]

(***************************************************************************)
(* The loop of start, and tick_at for an enabled schedule.                 *)
(***************************************************************************)
TickLoad ==
  /\ At(Tick, "idle") /\ woken
  /\ woken' = FALSE
  /\ IF file # None /\ file.enabled
     THEN caller' = [caller EXCEPT ![Tick] = [Idle EXCEPT !.pc = "loaded", !.spec = file]]
     ELSE UNCHANGED caller
  /\ UNCHANGED <<store, lock, history, bounds>>

TickRead ==
  /\ At(Tick, "loaded")
  /\ caller' = [caller EXCEPT ![Tick].pc = "read",
                              ![Tick].row = IF row # None THEN row
                                ELSE [wait |-> caller[Tick].spec.wait, active |-> None]]
  /\ UNCHANGED <<woken, store, lock, history, bounds>>

TickActive ==
  /\ At(Tick, "read")
  /\ LET t == caller[Tick].row.active IN
       /\ t # None /\ ~Terminal(t)
       /\ caller' = [caller EXCEPT ![Tick].pc = "save", ![Tick].spec = None]
  /\ UNCHANGED <<woken, store, lock, history, bounds>>

TickDecide ==
  /\ At(Tick, "read")
  /\ LET t == caller[Tick].row.active
         d == Decide(Tick, [caller[Tick].row EXCEPT !.active = None])
     IN  /\ t # None => Terminal(t)
         /\ IF t = None THEN UNCHANGED record ELSE Complete(t)
         /\ caller' = [caller EXCEPT ![Tick].pc = d.pc, ![Tick].row = d.row,
                                     ![Tick].spec = None]
  /\ UNCHANGED <<woken, file, row, task, lock, history, bounds>>

\* A save forgets a run that is under way and that it did not see.
Forgets(state) ==
  Active(row) # None /\ ~Terminal(Active(row)) /\ state.active # Active(row)

\* save_scheduled_task_schedule_state outside of operation_lock.
Save(c) ==
  /\ At(c, "save")
  /\ row' = caller[c].row
  /\ excused' = (excused \/ Forgets(caller[c].row))
  /\ woken' = (woken \/ c # Tick)
  /\ Done(c)
  /\ UNCHANGED <<file, task, record, lock, since, bounds>>

(***************************************************************************)
(* run_scheduled_task, under operation_lock.                               *)
(***************************************************************************)
RunRead(c) ==
  /\ At(c, "lock") /\ lock = None
  /\ lock' = c
  /\ caller' = [caller EXCEPT ![c].pc = "locked", ![c].row = row]
  /\ UNCHANGED <<woken, store, history, bounds>>

\* A Rejected record is appended; it names no task.
RunReject(c) ==
  /\ At(c, "locked")
  /\ Active(caller[c].row) # None /\ ~Terminal(Active(caller[c].row))
  /\ lock' = None
  /\ Done(c)
  /\ UNCHANGED <<woken, store, history, bounds>>

RunProceed(c) ==
  /\ At(c, "locked")
  /\ LET t == Active(caller[c].row) IN
       /\ t # None => Terminal(t)
       /\ IF t = None THEN UNCHANGED record ELSE Complete(t)
  /\ caller' = [caller EXCEPT ![c].pc = "create", ![c].row = None]
  /\ UNCHANGED <<woken, file, row, task, lock, history, bounds>>

Referenced == {Active(row)} \cup
  UNION {{caller[c].task, Active(caller[c].row)} : c \in Callers}

Unused(t) == task[t] = "none" \/ (task[t] \notin UnderWay /\ t \notin Referenced)

\* When all ids are taken, a run the schedule has lost sight of gives up its own.
Fresh(t) == Unused(t) \/ (t \notin Referenced /\ \A u \in Slots : ~Unused(u))

\* create_task
Create(c) ==
  /\ At(c, "create")
  /\ \E t \in Slots : Fresh(t)
  /\ LET t == CHOOSE t \in Slots : Fresh(t) IN
       /\ task' = [task EXCEPT ![t] = "idle"]
       /\ record' = [record EXCEPT ![t] = "none"]
       /\ caller' = [caller EXCEPT ![c].pc = "submit", ![c].task = t]
  /\ since' = IF c = Tick THEN caller[c].age ELSE since
  /\ UNCHANGED <<woken, file, row, lock, excused, bounds>>

Submit(c) ==
  /\ At(c, "submit")
  /\ task' = [task EXCEPT ![caller[c].task] = "pending"]
  /\ caller' = [caller EXCEPT ![c].pc = "append", ![c].ok = TRUE]
  /\ UNCHANGED <<woken, file, row, record, lock, history, bounds>>

\* The submission is refused, or accepted by an actor whose answer is lost.
SubmitFails(c) ==
  /\ At(c, "submit") /\ faults < MaxFaults
  /\ \E state \in {"idle", "pending"} : task' = [task EXCEPT ![caller[c].task] = state]
  /\ Goto(c, "append")
  /\ excused' = TRUE
  /\ faults' = faults + 1
  /\ UNCHANGED <<woken, file, row, record, lock, since, edits>>

Append(c) ==
  /\ At(c, "append")
  /\ record' = [record EXCEPT ![caller[c].task] =
                  IF caller[c].ok THEN "started" ELSE "failed"]
  /\ Goto(c, "finish")
  /\ UNCHANGED <<woken, file, row, task, lock, history, bounds>>

\* Mutant: the state is saved without the task it started.
RunStateUntracked(c) == [wait |-> NextDue(c), active |-> None]

\* Mutant: the next due time is counted from the last one, not from now.
RunStateReplays(c) ==
  [wait |-> IF row = None \/ row.wait > 0 THEN NextDue(c) ELSE row.wait + Interval,
   active |-> IF caller[c].ok THEN caller[c].task ELSE None]

RunState(c) ==
  [wait |-> NextDue(c), active |-> IF caller[c].ok THEN caller[c].task ELSE None]

RunSave(c) ==
  /\ At(c, "finish")
  /\ row' = RunState(c)
  /\ lock' = None
  /\ Done(c)
  /\ UNCHANGED <<woken, file, task, record, history, bounds>>

(***************************************************************************)
(* The clients' requests (handle).                                         *)
(***************************************************************************)
RunNow(c) ==
  /\ At(c, "idle") /\ file # None
  /\ caller' = [caller EXCEPT ![c] = [Idle EXCEPT !.pc = "lock"]]
  /\ UNCHANGED <<woken, store, lock, history, bounds>>

Edit(c) ==
  /\ At(c, "idle") /\ edits < MaxEdits
  /\ edits' = edits + 1
  /\ UNCHANGED <<woken, row, task, record, lock, history, faults>>

\* save_scheduled_task writes the file, then reads and writes the row.
SaveFile(c) ==
  /\ Edit(c)
  /\ \E policy \in Policies : file' = Spec(TRUE, policy)
  /\ caller' = [caller EXCEPT ![c] = [Idle EXCEPT !.pc = "saved", !.spec = file']]

SaveRead(c) ==
  /\ At(c, "saved")
  /\ woken' = (woken \/ row = None)
  /\ IF row = None THEN Done(c)
     ELSE caller' = [caller EXCEPT ![c].pc = "save", ![c].spec = None,
                                   ![c].row = [row EXCEPT !.wait = caller[c].spec.wait]]
  /\ UNCHANGED <<store, lock, history, bounds>>

\* set_enabled reads the file and writes it back.
SetEnabled(c) ==
  /\ Edit(c) /\ file # None
  /\ \E enabled \in BOOLEAN :
       caller' = [caller EXCEPT ![c] =
         [Idle EXCEPT !.pc = "write", !.spec = Spec(enabled, file.policy)]]
  /\ UNCHANGED file

WriteFile(c) ==
  /\ At(c, "write")
  /\ file' = caller[c].spec
  /\ woken' = TRUE
  /\ Done(c)
  /\ UNCHANGED <<row, task, record, lock, history, bounds>>

\* delete_scheduled_task reads the file, writes it without the schedule and
\* deletes the row.
Delete(c) ==
  /\ Edit(c) /\ file # None
  /\ caller' = [caller EXCEPT ![c] = [Idle EXCEPT !.pc = "drop"]]
  /\ UNCHANGED file

DeleteFile(c) ==
  /\ At(c, "drop")
  /\ file' = None
  /\ Goto(c, "delete_row")
  /\ UNCHANGED <<woken, row, task, record, lock, history, bounds>>

DeleteRow(c) ==
  /\ At(c, "delete_row")
  /\ row' = None
  /\ since' = Top /\ excused' = TRUE
  /\ woken' = TRUE
  /\ Done(c)
  /\ UNCHANGED <<file, task, record, lock, bounds>>

(***************************************************************************)
(* Faults, the tasks themselves, and time.                                 *)
(***************************************************************************)
\* A store call fails and the handler returns its error.
StoreFails(c) ==
  /\ ~At(c, "idle") /\ faults < MaxFaults
  /\ faults' = faults + 1
  /\ lock' = IF lock = c THEN None ELSE lock
  /\ Done(c)
  /\ since' = Top /\ excused' = TRUE
  /\ UNCHANGED <<woken, store, edits>>

\* Startup recovery interrupts the runs, but for those whose start is still in the
\* outbox; nothing is delivered of these before a client sends the task a command.
Crash ==
  /\ faults < MaxFaults
  /\ faults' = faults + 1
  /\ task' = [t \in Slots |-> IF task[t] = "live" THEN "ended" ELSE task[t]]
  /\ caller' = [c \in Callers |-> Idle]
  /\ lock' = None /\ woken' = TRUE
  /\ since' = Top /\ excused' = TRUE
  /\ UNCHANGED <<file, row, record, edits>>

\* The actor delivers the start of the run: at once, or after a restart when a client
\* sends the task a command.
TaskStarts(t) ==
  /\ task[t] = "pending"
  /\ task' = [task EXCEPT ![t] = "live"]
  /\ UNCHANGED <<woken, file, row, record, lock, caller, history, bounds>>

\* The run completes, fails or is stopped, or its task is removed.
TaskEnds(t) ==
  /\ task[t] \in UnderWay
  /\ task' = [task EXCEPT ![t] = "ended"]
  /\ UNCHANGED <<woken, file, row, record, lock, caller, history, bounds>>

Older(s) == IF s = None THEN s ELSE [s EXCEPT !.wait = Max({@ - 1, Floor})]

Pass ==
  /\ \A c \in Callers : At(c, "idle") \/ caller[c].age < MaxDelay
  /\ file' = Older(file)
  /\ row' = Older(row)
  /\ caller' = [c \in Callers |-> IF At(c, "idle") THEN Idle ELSE
       [caller[c] EXCEPT !.age = @ + 1, !.spec = Older(@), !.row = Older(@)]]
  /\ woken' = TRUE
  /\ since' = Min({since + 1, Top})
  /\ UNCHANGED <<task, record, lock, excused, bounds>>

TickSteps == TickLoad \/ TickRead \/ TickActive \/ TickDecide

RunSteps(c) ==
  \/ RunRead(c) \/ RunReject(c) \/ RunProceed(c) \/ Create(c) \/ Submit(c)
  \/ Append(c) \/ RunSave(c)

EditSteps(c) == SaveRead(c) \/ WriteFile(c) \/ DeleteFile(c) \/ DeleteRow(c)

Requests(c) == RunNow(c) \/ SaveFile(c) \/ SetEnabled(c) \/ Delete(c)

Next ==
  \/ TickSteps
  \/ \E c \in Callers : Save(c) \/ RunSteps(c) \/ SubmitFails(c) \/ StoreFails(c)
  \/ \E c \in Clients : EditSteps(c) \/ Requests(c)
  \/ \E t \in Slots : TaskStarts(t) \/ TaskEnds(t)
  \/ Crash
  \/ Pass

Behaviour == Init /\ [][Next]_vars

\* The runtime runs the loop and every handler it has begun, and time passes.  No client
\* has to ask for anything, and no run has to start or to end: a model or a tool may
\* hang, a question stay unanswered, a start wait in the outbox for a client.
FairBehaviour ==
  /\ Behaviour
  /\ WF_vars(Pass)
  /\ WF_vars(TickSteps \/ Save(Tick) \/ RunSteps(Tick))
  /\ \A c \in Clients : WF_vars(EditSteps(c) \/ Save(c) \/ RunSteps(c))

--------------------------------------------------------------------------------
\* Type correctness: every variable has its type, the lock is held exactly by
\* the caller that is inside run_scheduled_task, and a row names a task that
\* was created (scheduled_task.rs, run_scheduled_task).
TypeOK ==
  /\ \/ file = None
     \/ file \in [enabled : BOOLEAN, policy : Policies, wait : Floor..Interval]
  /\ row = None \/ row \in [wait : Floor..Interval, active : Slots \cup {None}]
  /\ task \in [Slots -> UnderWay \cup {"none", "idle", "ended"}]
  /\ record \in [Slots -> {"none", "started", "failed", "done"}]
  /\ \A c \in Callers :
       lock = c <=> caller[c].pc \in {"locked", "create", "submit", "append", "finish"}
  /\ Active(row) # None => task[Active(row)] # "none"

\* A run is closed in the history only after its task reached a terminal
\* state: neither a tick nor run_now completes the record of a run that is
\* still queued, waiting or running (complete_scheduled_task_run_for_task).
ClosedAfterEnd ==
  \A t \in Slots : record[t] = "done" => task[t] = "ended"

\* Two runs of the schedule are under way at once only after the row lost
\* sight of one of them: a crash, a failed store call or submission, a deletion,
\* or a save outside of operation_lock that overwrote the row with an older copy.
\* With none of these the lock and the second read of the row in
\* run_scheduled_task keep runs apart, whatever run_now and ticks interleave.
OverlapExplained ==
  excused \/ Cardinality({t \in Slots : task[t] \in UnderWay}) <= 1

\* Two runs of one schedule are never under way at once.  This is what the design says of
\* the scheduler; it does not hold: a tick that read the row before run_now took
\* operation_lock saves it back after, and the run run_now started is forgotten (tick_at).
OneRunAtATime == Cardinality({t \in Slots : task[t] \in UnderWay}) <= 1

\* However many intervals were missed, the loop catches up with one run: two
\* runs the loop starts are an interval apart, less what a handler with an older
\* `now' was late in saving, unless a crash, a failed store call or a deletion
\* lost the due time in between (tick_at, next_due_at).
CatchUpOnce ==
  [][At(Tick, "create") /\ caller'[Tick].pc = "submit"
       => since - caller[Tick].age >= Interval - MaxDelay]_vars

\* The run that the row names is under way, which every tick waits for.
StandsStill == Active(row) # None /\ task[Active(row)] \in UnderWay

\* An enabled run_once schedule stands still only behind its own run.  Once clients leave
\* it enabled it is run again and again, or in the end its row always names a run that is
\* under way: a rejected run, an interrupted or failed task, a lost row or a run the row
\* has lost sight of never stops it (tick_at, run_scheduled_task).
GoesOnRunning ==
  <>[](file # None /\ file.enabled /\ file.policy = "run_once")
    => \/ []<>(\E c \in Callers : At(c, "submit"))
       \/ <>[]StandsStill
================================================================================
