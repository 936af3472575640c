------------------------- MODULE ScheduledTasksProofs -------------------------
(***************************************************************************)
(* Theorems about the scheduler of one schedule, for any number of clients *)
(* and tasks, any interval and delay, and any number of edits and faults.  *)
(***************************************************************************)
EXTENDS ScheduledTasks, FiniteSetTheorems, TLAPS

-----------------------------------------------------------------------------
(* The inductive invariant *)

Rows == [wait : Int, active : Slots \cup {None}]
Specs == [enabled : BOOLEAN, policy : Policies, wait : Int]
MaybeRow == Rows \cup {None}
MaybeSpec == Specs \cup {None}
MaybeTask == Slots \cup {None}
Outside == {"idle", "loaded", "read", "save", "lock", "saved", "write", "drop", "delete_row"}
Inside == {"locked", "create", "submit", "append", "finish"}
Pcs == Outside \cup Inside
TaskStates == UnderWay \cup {"none", "idle", "ended"}
Records == {"none", "started", "failed", "done"}
Locals == [pc : Pcs, spec : MaybeSpec, row : MaybeRow, age : Int, task : MaybeTask, ok : BOOLEAN]

Typed ==
  /\ file \in MaybeSpec /\ row \in MaybeRow
  /\ task \in [Slots -> TaskStates] /\ record \in [Slots -> Records]
  /\ lock \in Callers \cup {None} /\ caller \in [Callers -> Locals]

\* A handler has what its next step reads.
Loaded(x) ==
  /\ x.pc \in {"loaded", "saved"} => x.spec # None
  /\ x.pc \in {"read", "save"} => x.row # None
  /\ x.pc \in {"submit", "append", "finish"} => x.task # None

\* The lock is held by the handler inside run_scheduled_task, and a record is opened only
\* when its task was submitted.
Handler(c) ==
  /\ lock = c <=> caller[c].pc \in Inside
  /\ Loaded(caller[c])
  /\ caller[c].pc = "submit" => record[caller[c].task] = "none"
  /\ caller[c].pc \in {"append", "finish"} => caller[c].ok \/ excused

Closed(t) == record[t] = "done" => task[t] = "ended"

\* A run under way is the one that the holder of the lock has just started, or the one the row
\* names, and then a holder that looks for it has seen it.
Known(t) ==
  task[t] \in UnderWay /\ ~excused =>
    \/ lock # None /\ caller[lock].pc \in {"append", "finish"} /\ caller[lock].task = t
    \/ /\ Active(row) = t
       /\ lock # None => caller[lock].pc = "locked" /\ Active(caller[lock].row) = t

ScheduleInv ==
  /\ Typed
  /\ \A c \in Callers : Handler(c)
  /\ \A t \in Slots : Closed(t) /\ Known(t)

-----------------------------------------------------------------------------
(* Values *)

LEMMA Members ==
  /\ Outside \subseteq Pcs /\ Inside \subseteq Pcs
  /\ {"idle", "loaded", "read", "save", "lock", "saved", "write", "drop", "delete_row"} \subseteq Outside
  /\ {"locked", "create", "submit", "append", "finish"} \subseteq Inside
  /\ \A pc : ~(pc \in Outside /\ pc \in Inside)
  /\ None \in MaybeRow /\ None \in MaybeSpec /\ None \in MaybeTask
  /\ Rows \subseteq MaybeRow /\ Specs \subseteq MaybeSpec /\ Slots \subseteq MaybeTask
  /\ None \notin Rows /\ None \notin Specs /\ None \notin Slots /\ None \notin Callers
  /\ Tick \in Callers /\ Clients \subseteq Callers
  BY ScheduleAssumption
  DEF Outside, Inside, Pcs, MaybeRow, MaybeSpec, MaybeTask, Rows, Specs, Policies, Callers

LEMMA RowFields ==
  ASSUME NEW r \in Rows
  PROVE  /\ r \in MaybeRow /\ r # None /\ r.wait \in Int /\ r.active \in MaybeTask
         /\ Active(r) = r.active
  BY Members DEF Rows, Active, MaybeTask

LEMMA RowMade ==
  ASSUME NEW w \in Int, NEW a \in MaybeTask, NEW r, r = [wait |-> w, active |-> a]
  PROVE  r \in Rows /\ r.active = a
  BY DEF Rows, MaybeTask

LEMMA RowUpdated ==
  ASSUME NEW r \in Rows, NEW w \in Int
  PROVE  /\ [r EXCEPT !.wait = w] \in Rows /\ [r EXCEPT !.wait = w].active = r.active
         /\ [r EXCEPT !.active = None] \in Rows
  BY DEF Rows

\* A due time comes nearer by one, or stays where it decides the same.
LEMMA Later ==
  ASSUME NEW w \in Int
  PROVE  Max({w - 1, Floor}) \in Int /\ Max({w - 1, Floor}) >= w - 1
  <1>1. Floor \in Int
    BY ScheduleAssumption DEF Floor
  <1>2. \E x \in {w - 1, Floor} : \A y \in {w - 1, Floor} : x >= y
    BY <1>1
  <1>3. /\ Max({w - 1, Floor}) \in {w - 1, Floor}
        /\ \A y \in {w - 1, Floor} : Max({w - 1, Floor}) >= y
    BY <1>2 DEF Max
  <1> QED
    BY <1>1, <1>3

LEMMA OlderRow ==
  ASSUME NEW r \in MaybeRow
  PROVE  Older(r) \in MaybeRow /\ Active(Older(r)) = Active(r) /\ (Older(r) = None => r = None)
  <1>1. CASE r = None
    BY <1>1, Members DEF Older
  <1>2. CASE r # None
    <2>1. r \in Rows
      BY <1>2 DEF MaybeRow
    <2>2. PICK w \in Int : w = Max({r.wait - 1, Floor})
      BY <2>1, RowFields, Later
    <2>3. Older(r) = [r EXCEPT !.wait = w]
      BY <1>2, <2>2 DEF Older
    <2> QED
      BY <2>1, <2>3, RowUpdated, RowFields
  <1> QED
    BY <1>1, <1>2

LEMMA OlderSpec ==
  ASSUME NEW r \in MaybeSpec
  PROVE  Older(r) \in MaybeSpec /\ (Older(r) = None => r = None)
  <1>1. CASE r = None
    BY <1>1, Members DEF Older
  <1>2. CASE r # None
    <2>1. r \in Specs /\ r.wait \in Int
      BY <1>2 DEF MaybeSpec, Specs
    <2>2. PICK w \in Int : w = Max({r.wait - 1, Floor})
      BY <2>1, Later
    <2>3. Older(r) = [r EXCEPT !.wait = w]
      BY <1>2, <2>2 DEF Older
    <2>4. Older(r) \in Specs
      BY <2>1, <2>3 DEF Specs
    <2> QED
      BY <2>4, Members
  <1> QED
    BY <1>1, <1>2

LEMMA SpecMade ==
  ASSUME NEW e \in BOOLEAN, NEW p \in Policies
  PROVE  Spec(e, p) \in Specs
  BY ScheduleAssumption DEF Spec, Specs

LEMMA IdleLocal ==
  /\ Idle \in Locals /\ Idle.pc = "idle" /\ Idle.row = None
  BY Members DEF Idle, Locals

\* A handler's step, on its own locals only.
LEMMA LocalStep ==
  ASSUME Typed, NEW c \in Callers, NEW x \in Locals, caller' = [caller EXCEPT ![c] = x]
  PROVE  /\ caller' \in [Callers -> Locals] /\ caller'[c] = x
         /\ \A d \in Callers : d # c => caller'[d] = caller[d]
  BY DEF Typed

LEMMA LocalFields ==
  ASSUME NEW x \in Locals
  PROVE  /\ x.pc \in Pcs /\ x.spec \in MaybeSpec /\ x.row \in MaybeRow /\ x.age \in Int
         /\ x.task \in MaybeTask /\ x.ok \in BOOLEAN
  BY DEF Locals

LEMMA FreshLocal ==
  ASSUME NEW pc \in Pcs, NEW s \in MaybeSpec
  PROVE  /\ [Idle EXCEPT !.pc = pc] \in Locals /\ [Idle EXCEPT !.pc = pc].pc = pc
         /\ [Idle EXCEPT !.pc = pc, !.spec = s] \in Locals
         /\ [Idle EXCEPT !.pc = pc, !.spec = s].pc = pc
         /\ [Idle EXCEPT !.pc = pc, !.spec = s].spec = s
  BY IdleLocal DEF Locals

-----------------------------------------------------------------------------
(* Steps of a handler outside of the lock *)

\* The record of a task that has ended may be closed.
Closing == UNCHANGED record \/ \E t \in Slots : Terminal(t) /\ Complete(t)

Apart(c, x) ==
  /\ caller[c].pc \in Outside /\ x \in Locals /\ x.pc \in Outside /\ Loaded(x)
  /\ caller' = [caller EXCEPT ![c] = x] /\ UNCHANGED <<lock, task>>
  /\ file' \in MaybeSpec /\ row' \in MaybeRow
  /\ Closing
  /\ excused => excused'
  /\ ~excused' => \A t \in Slots : task[t] \in UnderWay /\ Active(row) = t => Active(row') = t

LEMMA ClosingKeeps ==
  ASSUME ScheduleInv, Closing, UNCHANGED task
  PROVE  /\ record' \in [Slots -> Records]
         /\ \A t \in Slots : (record[t] = "none" => record'[t] = "none") /\ Closed(t)'
  BY DEF ScheduleInv, Typed, Closing, Complete, Terminal, Closed, Records

LEMMA ApartKeeps ==
  ASSUME ScheduleInv, NEW c \in Callers, NEW x, Apart(c, x)
  PROVE  ScheduleInv'
  <1>1. Typed /\ \A d \in Callers : Handler(d)
    BY DEF ScheduleInv
  <1>2. /\ caller' \in [Callers -> Locals] /\ caller'[c] = x
        /\ \A d \in Callers : d # c => caller'[d] = caller[d]
    BY <1>1, LocalStep DEF Apart
  <1>3. lock # c /\ lock' = lock /\ task' = task /\ x.pc \notin Inside
    BY <1>1, Members DEF Handler, Apart
  <1>4. /\ record' \in [Slots -> Records]
        /\ \A t \in Slots : (record[t] = "none" => record'[t] = "none") /\ Closed(t)'
    BY <1>3, ClosingKeeps DEF Apart
  <1>5. Typed'
    BY <1>1, <1>2, <1>3, <1>4 DEF Typed, Apart
  <1>6. ASSUME NEW d \in Callers
        PROVE  Handler(d)'
    <2>1. CASE d = c
      <3>1. x.pc \notin {"submit", "append", "finish"}
        BY <1>3, Members
      <3> QED
        BY <1>2, <1>3, <2>1, <3>1 DEF Handler, Apart
    <2>2. CASE d # c
      <3>1. caller[d] \in Locals /\ caller'[d] = caller[d]
        BY <1>1, <1>2, <2>2 DEF Typed
      <3>2. caller[d].pc = "submit" => caller[d].task \in Slots
        BY <1>1, <3>1, LocalFields DEF Handler, Loaded, MaybeTask
      <3> QED
        BY <1>1, <1>3, <1>4, <3>1, <3>2 DEF Handler, Apart
    <2> QED
      BY <2>1, <2>2
  <1>7. ASSUME NEW t \in Slots
        PROVE  Known(t)'
    <2>1. Known(t) /\ (lock # None => lock \in Callers /\ caller'[lock] = caller[lock])
      BY <1>1, <1>2, <1>3 DEF ScheduleInv, Typed
    <2> QED
      BY <1>3, <2>1 DEF Known, Apart
  <1> QED
    BY <1>4, <1>5, <1>6, <1>7 DEF ScheduleInv

LEMMA ApartUnseen ==
  ASSUME ScheduleInv, NEW c \in Callers, NEW x \in Locals,
         caller[c].pc \in Outside, x.pc \in Outside, Loaded(x),
         caller' = [caller EXCEPT ![c] = x], UNCHANGED <<lock, task, row, excused>>,
         file' \in MaybeSpec, Closing
  PROVE  Apart(c, x)
  BY DEF Apart, ScheduleInv, Typed

LEMMA IdleIsOutside ==
  Idle \in Locals /\ Idle.pc \in Outside /\ Loaded(Idle)
  BY IdleLocal, Members DEF Loaded

LEMMA TickLoadApart ==
  ASSUME ScheduleInv, TickLoad
  PROVE  \E x : Apart(Tick, x)
  <1>1. /\ Typed /\ Tick \in Callers /\ file \in MaybeSpec /\ caller[Tick] \in Locals
        /\ caller[Tick].pc = "idle" /\ UNCHANGED <<lock, task, row, excused, file, record>>
    BY Members DEF ScheduleInv, Typed, TickLoad, At, store, history
  <1>2. CASE file # None /\ file.enabled
    <2> DEFINE x == [Idle EXCEPT !.pc = "loaded", !.spec = file]
    <2>1. x \in Locals /\ x.pc = "loaded" /\ x.spec = file
      BY <1>1, Members, FreshLocal
    <2>2. caller' = [caller EXCEPT ![Tick] = x]
      BY <1>2 DEF TickLoad
    <2> HIDE DEF x
    <2>3. Apart(Tick, x)
      BY <1>1, <1>2, <2>1, <2>2, Members, ApartUnseen DEF Closing, Loaded
    <2> QED
      BY <2>3
  <1>3. CASE ~(file # None /\ file.enabled)
    <2>1. caller' = [caller EXCEPT ![Tick] = caller[Tick]]
      BY <1>1, <1>3 DEF TickLoad, Typed
    <2>2. Loaded(caller[Tick])
      BY <1>1 DEF Loaded
    <2>3. Apart(Tick, caller[Tick])
      BY <1>1, <2>1, <2>2, Members, ApartUnseen DEF Closing
    <2> QED
      BY <2>3
  <1> QED
    BY <1>2, <1>3

LEMMA TickReadApart ==
  ASSUME ScheduleInv, TickRead
  PROVE  \E x : Apart(Tick, x)
  <1>1. /\ Typed /\ Tick \in Callers /\ file \in MaybeSpec /\ caller[Tick] \in Locals
        /\ caller[Tick].pc = "loaded" /\ UNCHANGED <<lock, task, row, excused, file, record>>
    BY Members DEF ScheduleInv, Typed, TickRead, At, store, history
  <1> DEFINE r == IF row # None THEN row ELSE [wait |-> caller[Tick].spec.wait, active |-> None]
             x == [caller[Tick] EXCEPT !.pc = "read", !.row = r]
  <1>2. caller[Tick].spec.wait \in Int
    <2>1. Loaded(caller[Tick])
      BY <1>1 DEF ScheduleInv, Handler
    <2>2. caller[Tick].spec \in Specs
      BY <1>1, <2>1, LocalFields DEF Loaded, MaybeSpec
    <2> QED
      BY <2>2 DEF Specs
  <1>3. r \in MaybeRow /\ r # None
    <2>1. CASE row # None
      BY <1>1, <2>1 DEF Typed
    <2>2. CASE row = None
      BY <1>2, <2>2, RowMade, RowFields, Members
    <2> QED
      BY <2>1, <2>2
  <1>4. caller' = [caller EXCEPT ![Tick] = x]
    BY <1>1 DEF TickRead, Typed
  <1> HIDE DEF r
  <1>5. x \in Locals /\ x.pc = "read" /\ x.row = r
    BY <1>1, <1>3, Members DEF Locals
  <1> HIDE DEF x
  <1>6. Apart(Tick, x)
    BY <1>1, <1>3, <1>4, <1>5, Members, ApartUnseen DEF Closing, Loaded
  <1> QED
    BY <1>6

LEMMA TickActiveApart ==
  ASSUME ScheduleInv, TickActive
  PROVE  \E x : Apart(Tick, x)
  <1>1. /\ Typed /\ Tick \in Callers /\ file \in MaybeSpec /\ caller[Tick] \in Locals
        /\ caller[Tick].pc = "read" /\ UNCHANGED <<lock, task, row, excused, file, record>>
    BY Members DEF ScheduleInv, Typed, TickActive, At, store, history
  <1> DEFINE x == [caller[Tick] EXCEPT !.pc = "save", !.spec = None]
  <1>2. caller[Tick].row # None
    BY <1>1 DEF ScheduleInv, Handler, Loaded
  <1>3. caller' = [caller EXCEPT ![Tick] = x]
    BY <1>1 DEF TickActive, Typed
  <1>4. x \in Locals /\ x.pc = "save" /\ x.row = caller[Tick].row
    BY <1>1, Members DEF Locals
  <1> HIDE DEF x
  <1>5. Apart(Tick, x)
    BY <1>1, <1>2, <1>3, <1>4, Members, ApartUnseen DEF Closing, Loaded
  <1> QED
    BY <1>5

LEMMA Decides ==
  ASSUME NEW c \in Callers, caller[c] \in Locals, NEW r \in Rows, NEW d, d = Decide(c, r)
  PROVE  \/ d.pc = "save" /\ d.row \in Rows
         \/ d.pc = "lock" /\ d.row = None
  <1>1. NextDue(c) \in Int
    BY ScheduleAssumption, LocalFields DEF NextDue
  <1>2. [r EXCEPT !.wait = NextDue(c)] \in Rows
    BY <1>1, RowUpdated
  <1>3. CASE ~Due(c, r)
    <2>1. ~MissedMultiple(c, r)
      BY <1>3, ScheduleAssumption, RowFields, LocalFields DEF Due, MissedMultiple
    <2>2. d = [pc |-> "save", row |-> r]
      BY <1>3, <2>1 DEF Decide
    <2> QED
      BY <2>2
  <1>4. CASE Due(c, r)
    <2>1. \/ d = [pc |-> "save", row |-> [r EXCEPT !.wait = NextDue(c)]]
          \/ d = [pc |-> "lock", row |-> None]
      BY <1>4 DEF Decide
    <2> QED
      BY <1>2, <2>1
  <1> QED
    BY <1>3, <1>4

LEMMA TickDecideApart ==
  ASSUME ScheduleInv, TickDecide
  PROVE  \E x : Apart(Tick, x)
  <1>1. /\ Typed /\ Tick \in Callers /\ file \in MaybeSpec /\ caller[Tick] \in Locals
        /\ caller[Tick].pc = "read" /\ UNCHANGED <<lock, task, row, excused, file>>
    BY Members DEF ScheduleInv, Typed, TickDecide, At, history
  <1>2. caller[Tick].row \in Rows
    BY <1>1, LocalFields DEF ScheduleInv, Handler, Loaded, MaybeRow
  <1> DEFINE r == [caller[Tick].row EXCEPT !.active = None]
             d == Decide(Tick, r)
             x == [caller[Tick] EXCEPT !.pc = d.pc, !.row = d.row, !.spec = None]
  <1>3. \/ d.pc = "save" /\ d.row \in Rows
        \/ d.pc = "lock" /\ d.row = None
    <2>1. r \in Rows
      BY <1>2 DEF Rows
    <2> QED
      BY <1>1, <2>1, Decides
  <1>4. caller' = [caller EXCEPT ![Tick] = x]
    BY <1>1 DEF TickDecide, Typed
  <1>5. Closing
    <2>1. caller[Tick].row.active \in MaybeTask
      BY <1>2, RowFields
    <2> QED
      BY <2>1 DEF TickDecide, Closing, MaybeTask
  <1> HIDE DEF d
  <1>6. x \in Locals /\ x.pc = d.pc /\ x.row = d.row
    BY <1>1, <1>3, Members DEF Locals
  <1> HIDE DEF x
  <1>7. Loaded(x) /\ x.pc \in Outside
    BY <1>3, <1>6, Members DEF Loaded
  <1>8. Apart(Tick, x)
    BY <1>1, <1>4, <1>5, <1>6, <1>7, Members, ApartUnseen
  <1> QED
    BY <1>8

LEMMA SaveApart ==
  ASSUME ScheduleInv, NEW c \in Callers, Save(c)
  PROVE  \E x : Apart(c, x)
  <1>1. /\ Typed /\ caller[c] \in Locals /\ caller[c].pc = "save"
        /\ UNCHANGED <<lock, task, file, record>> /\ row' = caller[c].row
        /\ caller' = [caller EXCEPT ![c] = Idle]
    BY DEF ScheduleInv, Typed, Save, At, Done
  <1>2. row' \in MaybeRow /\ row' \in Rows /\ file' \in MaybeSpec
    BY <1>1, LocalFields DEF ScheduleInv, Handler, Loaded, MaybeRow, Typed
  <1>3. (excused => excused') /\ (~excused' => ~Forgets(caller[c].row))
    BY DEF Save
  <1>4. ASSUME ~excused', NEW t \in Slots, task[t] \in UnderWay, Active(row) = t
        PROVE  Active(row') = t
    <2>1. row'.active = t
      BY <1>1, <1>3, <1>4, Members DEF Forgets, Terminal, UnderWay
    <2> QED
      BY <1>2, <2>1, RowFields
  <1>5. Apart(c, Idle)
    BY <1>1, <1>2, <1>3, <1>4, IdleIsOutside, Members DEF Apart, Closing
  <1> QED
    BY <1>5

LEMMA RunNowApart ==
  ASSUME ScheduleInv, NEW c \in Callers, RunNow(c)
  PROVE  \E x : Apart(c, x)
  <1>1. /\ Typed /\ caller[c].pc = "idle" /\ UNCHANGED <<lock, task, row, excused, file, record>>
        /\ file \in MaybeSpec /\ caller' = [caller EXCEPT ![c] = [Idle EXCEPT !.pc = "lock"]]
    BY DEF ScheduleInv, Typed, RunNow, At, store, history
  <1>2. PICK x \in Locals : x = [Idle EXCEPT !.pc = "lock"] /\ x.pc = "lock"
    BY FreshLocal, Members
  <1>3. Apart(c, x)
    BY <1>1, <1>2, Members, ApartUnseen DEF Closing, Loaded
  <1> QED
    BY <1>3

\* The handlers that edit the file first take a copy of it.
LEMMA EditApart ==
  ASSUME ScheduleInv, NEW c \in Callers, SaveFile(c) \/ SetEnabled(c) \/ Delete(c)
  PROVE  \E x : Apart(c, x)
  <1>1. Typed /\ caller[c].pc = "idle" /\ UNCHANGED <<lock, task, row, excused, record>>
    BY DEF ScheduleInv, Typed, SaveFile, SetEnabled, Delete, Edit, At, history
  <1>2. CASE SaveFile(c)
    <2>1. PICK s \in Specs : file' = s
      BY <1>2, SpecMade DEF SaveFile
    <2> DEFINE x == [Idle EXCEPT !.pc = "saved", !.spec = s]
    <2>2. x \in Locals /\ x.pc = "saved" /\ x.spec = s
      <3>1. s \in MaybeSpec /\ "saved" \in Pcs
        BY Members
      <3> QED
        BY <3>1, FreshLocal
    <2>3. caller' = [caller EXCEPT ![c] = x]
      BY <1>2, <2>1 DEF SaveFile
    <2> HIDE DEF x
    <2>4. Apart(c, x)
      BY <1>1, <2>1, <2>2, <2>3, Members, ApartUnseen DEF Closing, Loaded
    <2> QED
      BY <2>4
  <1>3. CASE SetEnabled(c)
    <2>1. file' \in MaybeSpec /\ file.policy \in Policies
      BY <1>1, <1>3 DEF Typed, SetEnabled, MaybeSpec, Specs
    <2>2. PICK s \in Specs :
            caller' = [caller EXCEPT ![c] = [Idle EXCEPT !.pc = "write", !.spec = s]]
      BY <1>3, <2>1, SpecMade DEF SetEnabled
    <2>3. PICK x \in Locals : x = [Idle EXCEPT !.pc = "write", !.spec = s] /\ x.pc = "write"
      <3>1. s \in MaybeSpec /\ "write" \in Pcs
        BY Members
      <3> QED
        BY <3>1, FreshLocal
    <2>4. Apart(c, x)
      BY <1>1, <2>1, <2>2, <2>3, Members, ApartUnseen DEF Closing, Loaded
    <2> QED
      BY <2>4
  <1>4. CASE Delete(c)
    <2>1. PICK x \in Locals : x = [Idle EXCEPT !.pc = "drop"] /\ x.pc = "drop"
      BY FreshLocal, Members
    <2>2. file' \in MaybeSpec /\ caller' = [caller EXCEPT ![c] = x]
      BY <1>1, <1>4, <2>1 DEF Delete, Typed
    <2>3. Apart(c, x)
      BY <1>1, <2>1, <2>2, Members, ApartUnseen DEF Closing, Loaded
    <2> QED
      BY <2>3
  <1> QED
    BY <1>2, <1>3, <1>4

LEMMA EditStepApart ==
  ASSUME ScheduleInv, NEW c \in Callers, EditSteps(c)
  PROVE  \E x : Apart(c, x)
  <1>1. Typed /\ caller[c] \in Locals /\ UNCHANGED <<lock, task, record>> /\ file \in MaybeSpec
        /\ row \in MaybeRow
    BY DEF ScheduleInv, Typed, EditSteps, SaveRead, WriteFile, DeleteFile, DeleteRow, store
  <1>2. CASE SaveRead(c)
    <2>1. caller[c].pc = "saved" /\ UNCHANGED <<row, excused, file>>
      BY <1>2 DEF SaveRead, At, store, history
    <2>2. CASE row = None
      <3>1. caller' = [caller EXCEPT ![c] = Idle]
        BY <1>2, <2>2 DEF SaveRead, Done
      <3>2. Apart(c, Idle)
        BY <1>1, <2>1, <3>1, IdleIsOutside, Members, ApartUnseen DEF Closing
      <3> QED
        BY <3>2
    <2>3. CASE row # None
      <3> DEFINE w == caller[c].spec.wait
                 r == [row EXCEPT !.wait = w]
                 x == [caller[c] EXCEPT !.pc = "save", !.spec = None, !.row = r]
      <3>1. caller[c].spec \in Specs
        BY <1>1, <2>1, LocalFields DEF ScheduleInv, Handler, Loaded, MaybeSpec
      <3>2. w \in Int /\ row \in Rows
        BY <1>1, <2>3, <3>1 DEF Specs, MaybeRow
      <3>3. caller' = [caller EXCEPT ![c] = x]
        BY <1>1, <1>2, <2>3 DEF SaveRead, Typed
      <3> HIDE DEF w
      <3>4. r \in Rows
        BY <3>2, RowUpdated
      <3> HIDE DEF r
      <3>5. x \in Locals /\ x.pc = "save" /\ x.row = r
        BY <1>1, <3>4, Members DEF Locals
      <3> HIDE DEF x
      <3>6. Apart(c, x)
        BY <1>1, <2>1, <3>3, <3>4, <3>5, Members, ApartUnseen DEF Closing, Loaded
      <3> QED
        BY <3>6
    <2> QED
      BY <2>2, <2>3
  <1>3. CASE WriteFile(c)
    <2>1. /\ caller[c].pc = "write" /\ UNCHANGED <<row, excused>> /\ file' \in MaybeSpec
          /\ caller' = [caller EXCEPT ![c] = Idle]
      BY <1>1, <1>3, LocalFields DEF WriteFile, At, history, Done
    <2>2. Apart(c, Idle)
      BY <1>1, <2>1, IdleIsOutside, Members, ApartUnseen DEF Closing
    <2> QED
      BY <2>2
  <1>4. CASE DeleteFile(c)
    <2> DEFINE x == [caller[c] EXCEPT !.pc = "delete_row"]
    <2>1. /\ caller[c].pc = "drop" /\ UNCHANGED <<row, excused>> /\ file' \in MaybeSpec
      BY <1>4, Members DEF DeleteFile, At, history
    <2>2. caller' = [caller EXCEPT ![c] = x]
      BY <1>1, <1>4 DEF DeleteFile, Goto, Typed
    <2>3. x \in Locals /\ x.pc = "delete_row"
      BY <1>1, Members DEF Locals
    <2> HIDE DEF x
    <2>4. Apart(c, x)
      BY <1>1, <2>1, <2>2, <2>3, Members, ApartUnseen DEF Closing, Loaded
    <2> QED
      BY <2>4
  <1>5. CASE DeleteRow(c)
    <2>1. /\ caller[c].pc = "delete_row" /\ excused' /\ row' \in MaybeRow /\ file' \in MaybeSpec
          /\ caller' = [caller EXCEPT ![c] = Idle]
      BY <1>1, <1>5, Members DEF DeleteRow, At, Done
    <2>2. Apart(c, Idle)
      BY <1>1, <2>1, IdleIsOutside, Members DEF Apart, Closing
    <2> QED
      BY <2>2
  <1> QED
    BY <1>2, <1>3, <1>4, <1>5 DEF EditSteps

-----------------------------------------------------------------------------
(* Steps of the handler that takes, has or gives back the lock *)

Holds(c, x) ==
  /\ lock \in {None, c} /\ lock' = IF x.pc \in Inside THEN c ELSE None
  /\ x \in Locals /\ Loaded(x) /\ caller' = [caller EXCEPT ![c] = x]
  /\ UNCHANGED file /\ row' \in MaybeRow
  /\ task' \in [Slots -> TaskStates] /\ record' \in [Slots -> Records]
  /\ x.pc = "submit" => record'[x.task] = "none"
  /\ x.pc \in {"append", "finish"} => x.ok \/ excused'
  /\ \A t \in Slots : record'[t] = "done" => task'[t] = "ended"
  /\ \A t \in Slots : task'[t] \in UnderWay /\ ~excused' =>
       \/ x.pc \in {"append", "finish"} /\ x.task = t
       \/ Active(row') = t /\ (x.pc \in Inside => x.pc = "locked" /\ Active(x.row) = t)

LEMMA HoldsKeeps ==
  ASSUME ScheduleInv, NEW c \in Callers, NEW x, Holds(c, x)
  PROVE  ScheduleInv'
  <1>1. Typed /\ \A d \in Callers : Handler(d)
    BY DEF ScheduleInv
  <1>2. /\ caller' \in [Callers -> Locals] /\ caller'[c] = x
        /\ \A d \in Callers : d # c => caller'[d] = caller[d]
    BY <1>1, LocalStep DEF Holds
  <1>3. Typed'
    BY <1>1, <1>2 DEF Typed, Holds
  <1>4. ASSUME NEW d \in Callers
        PROVE  Handler(d)'
    <2>1. CASE d = c
      BY <1>2, <2>1, Members DEF Handler, Holds
    <2>2. CASE d # c
      <3>1. lock # d /\ lock' # d
        BY <2>2, Members DEF Holds
      <3>2. caller[d].pc \notin Inside /\ Loaded(caller[d])
        BY <1>1, <3>1 DEF Handler
      <3> QED
        BY <1>2, <2>2, <3>1, <3>2, Members DEF Handler
    <2> QED
      BY <2>1, <2>2
  <1>5. ASSUME NEW t \in Slots
        PROVE  Closed(t)' /\ Known(t)'
    <2>1. Closed(t)'
      BY DEF Holds, Closed
    <2>2. x.pc \in {"append", "finish"} => x.pc \in Inside
      BY Members
    <2>3. lock' # None => lock' = c /\ x.pc \in Inside
      BY DEF Holds
    <2>4. x.pc \in Inside => lock' = c /\ lock' # None
      BY Members DEF Holds
    <2>5. Known(t)'
      BY <1>2, <2>2, <2>3, <2>4 DEF Holds, Known
    <2> QED
      BY <2>1, <2>5
  <1> QED
    BY <1>3, <1>4, <1>5 DEF ScheduleInv

\* While a handler has the lock, what is under way is what it has seen or has started.
LEMMA HolderKnows ==
  ASSUME ScheduleInv, NEW c \in Callers, caller[c].pc \in Inside
  PROVE  /\ lock = c /\ caller[c] \in Locals
         /\ \A t \in Slots : task[t] \in UnderWay /\ ~excused =>
              \/ caller[c].pc \in {"append", "finish"} /\ caller[c].task = t
              \/ Active(row) = t /\ caller[c].pc = "locked" /\ Active(caller[c].row) = t
  BY Members DEF ScheduleInv, Handler, Known, Typed

LEMMA RunReadHolds ==
  ASSUME ScheduleInv, NEW c \in Callers, RunRead(c)
  PROVE  \E x : Holds(c, x)
  <1>1. /\ Typed /\ caller[c] \in Locals /\ lock = None /\ lock' = c
        /\ UNCHANGED <<file, row, task, record, excused>> /\ row \in MaybeRow
    BY DEF ScheduleInv, Typed, RunRead, store, history
  <1> DEFINE x == [caller[c] EXCEPT !.pc = "locked", !.row = row]
  <1>2. caller' = [caller EXCEPT ![c] = x]
    BY <1>1 DEF RunRead, Typed
  <1>3. x \in Locals /\ x.pc = "locked" /\ x.row = row
    BY <1>1, Members DEF Locals
  <1> HIDE DEF x
  <1>4. \A t \in Slots : task[t] \in UnderWay /\ ~excused => Active(row) = t
    BY <1>1 DEF ScheduleInv, Known
  <1>5. Loaded(x) /\ x.pc \in Inside
    BY <1>3, Members DEF Loaded
  <1>6. Holds(c, x)
    BY <1>1, <1>2, <1>3, <1>4, <1>5 DEF Holds, ScheduleInv, Closed, Typed
  <1> QED
    BY <1>6

LEMMA RunRejectHolds ==
  ASSUME ScheduleInv, NEW c \in Callers, RunReject(c)
  PROVE  \E x : Holds(c, x)
  <1>1. /\ Typed /\ lock' = None /\ caller[c].pc = "locked" /\ row \in MaybeRow
        /\ UNCHANGED <<file, row, task, record, excused>> /\ caller' = [caller EXCEPT ![c] = Idle]
    BY DEF ScheduleInv, Typed, RunReject, At, Done, store, history
  <1>2. lock = c /\ \A t \in Slots : task[t] \in UnderWay /\ ~excused => Active(row) = t
    BY <1>1, HolderKnows, Members
  <1>3. Idle.pc \notin Inside /\ Idle.pc \notin {"submit", "append", "finish"}
    BY IdleIsOutside, Members
  <1>4. Holds(c, Idle)
    BY <1>1, <1>2, <1>3, IdleIsOutside DEF Holds, ScheduleInv, Closed, Typed
  <1> QED
    BY <1>4

LEMMA RunProceedHolds ==
  ASSUME ScheduleInv, NEW c \in Callers, RunProceed(c)
  PROVE  \E x : Holds(c, x)
  <1>1. /\ Typed /\ caller[c].pc = "locked" /\ row \in MaybeRow
        /\ UNCHANGED <<lock, file, row, task, excused>>
    BY DEF ScheduleInv, Typed, RunProceed, At, history
  <1>2. /\ lock = c /\ caller[c] \in Locals
        /\ \A t \in Slots : task[t] \in UnderWay /\ ~excused => Active(caller[c].row) = t
    BY <1>1, HolderKnows, Members
  <1> DEFINE x == [caller[c] EXCEPT !.pc = "create", !.row = None]
  <1>3. caller' = [caller EXCEPT ![c] = x]
    BY <1>1 DEF RunProceed, Typed
  <1>4. x \in Locals /\ x.pc = "create"
    BY <1>2, Members DEF Locals
  <1> HIDE DEF x
  <1>5. Active(caller[c].row) \in MaybeTask
    <2>1. CASE caller[c].row = None
      BY <2>1, Members DEF Active
    <2>2. CASE caller[c].row # None
      BY <1>2, <2>2, LocalFields, RowFields DEF MaybeRow
    <2> QED
      BY <2>1, <2>2
  <1>6. Closing
    BY <1>5 DEF RunProceed, Closing, MaybeTask
  <1>7. /\ record' \in [Slots -> Records] /\ \A t \in Slots : Closed(t)'
    BY <1>1, <1>6, ClosingKeeps
  <1>8. \A t \in Slots : task[t] \in UnderWay => excused
    BY <1>2, Members DEF RunProceed, Terminal, UnderWay
  <1>9. Loaded(x) /\ x.pc \in Inside
    BY <1>4, Members DEF Loaded
  <1>10. Holds(c, x)
    BY <1>1, <1>2, <1>3, <1>4, <1>7, <1>8, <1>9 DEF Holds, Closed, Typed
  <1> QED
    BY <1>10

LEMMA CreateHolds ==
  ASSUME ScheduleInv, NEW c \in Callers, Create(c)
  PROVE  \E x : Holds(c, x)
  <1>1. /\ Typed /\ caller[c].pc = "create" /\ row \in MaybeRow
        /\ UNCHANGED <<lock, file, row, excused>>
    BY DEF ScheduleInv, Typed, Create, At
  <1>2. /\ lock = c /\ caller[c] \in Locals /\ \A t \in Slots : task[t] \in UnderWay => excused
    BY <1>1, HolderKnows, Members
  <1>3. PICK n \in Slots : /\ task' = [task EXCEPT ![n] = "idle"]
                           /\ record' = [record EXCEPT ![n] = "none"]
                           /\ caller' = [caller EXCEPT ![c].pc = "submit", ![c].task = n]
    BY DEF Create
  <1> DEFINE x == [caller[c] EXCEPT !.pc = "submit", !.task = n]
  <1>4. caller' = [caller EXCEPT ![c] = x]
    BY <1>1, <1>3 DEF Typed
  <1>5. x \in Locals /\ x.pc = "submit" /\ x.task = n
    BY <1>2, Members DEF Locals
  <1> HIDE DEF x
  <1>6. /\ task' \in [Slots -> TaskStates] /\ record' \in [Slots -> Records]
        /\ record'[n] = "none" /\ \A t \in Slots : task'[t] \in UnderWay => task[t] \in UnderWay
        /\ \A t \in Slots : record'[t] = "done" => task'[t] = "ended"
    BY <1>1, <1>3 DEF ScheduleInv, Typed, TaskStates, UnderWay, Records, Closed
  <1>7. Loaded(x) /\ x.pc \in Inside
    BY <1>5, Members DEF Loaded
  <1>8. Holds(c, x)
    BY <1>1, <1>2, <1>4, <1>5, <1>6, <1>7 DEF Holds, Typed
  <1> QED
    BY <1>8

LEMMA SubmitHolds ==
  ASSUME ScheduleInv, NEW c \in Callers, Submit(c) \/ SubmitFails(c)
  PROVE  \E x : Holds(c, x)
  <1>1. /\ Typed /\ caller[c].pc = "submit" /\ row \in MaybeRow
        /\ UNCHANGED <<lock, file, row, record>>
    BY DEF ScheduleInv, Typed, Submit, SubmitFails, At
  <1>2. /\ lock = c /\ caller[c] \in Locals /\ \A t \in Slots : task[t] \in UnderWay => excused
    BY <1>1, HolderKnows, Members
  <1>3. caller[c].task \in Slots /\ caller[c].task # None /\ record[caller[c].task] = "none"
    BY <1>1, <1>2, LocalFields DEF ScheduleInv, Handler, Loaded, MaybeTask
  <1>4. PICK st \in {"idle", "pending"} : task' = [task EXCEPT ![caller[c].task] = st]
    BY DEF Submit, SubmitFails
  <1>5. PICK x \in Locals :
          /\ caller' = [caller EXCEPT ![c] = x] /\ x.pc = "append" /\ x.task = caller[c].task
          /\ x.ok \/ excused'
    <2>1. CASE Submit(c)
      <3> DEFINE x == [caller[c] EXCEPT !.pc = "append", !.ok = TRUE]
      <3>1. caller' = [caller EXCEPT ![c] = x]
        BY <1>1, <2>1 DEF Submit, Typed
      <3>2. x \in Locals /\ x.pc = "append" /\ x.task = caller[c].task /\ x.ok
        BY <1>2, Members DEF Locals
      <3> QED
        BY <3>1, <3>2
    <2>2. CASE SubmitFails(c)
      <3> DEFINE x == [caller[c] EXCEPT !.pc = "append"]
      <3>1. caller' = [caller EXCEPT ![c] = x] /\ excused'
        BY <1>1, <2>2 DEF SubmitFails, Goto, Typed
      <3>2. x \in Locals /\ x.pc = "append" /\ x.task = caller[c].task
        BY <1>2, Members DEF Locals
      <3> QED
        BY <3>1, <3>2
    <2> QED
      BY <2>1, <2>2
  <1>6. excused => excused'
    BY DEF Submit, SubmitFails, history
  <1>7. /\ task' \in [Slots -> TaskStates] /\ record' \in [Slots -> Records]
        /\ \A t \in Slots : task'[t] \in UnderWay => task[t] \in UnderWay \/ x.task = t
        /\ \A t \in Slots : record'[t] = "done" => task'[t] = "ended"
    BY <1>1, <1>3, <1>4, <1>5 DEF ScheduleInv, Typed, TaskStates, UnderWay, Closed
  <1>8. Loaded(x) /\ x.pc \in Inside
    BY <1>3, <1>5, Members DEF Loaded
  <1>9. Holds(c, x)
    BY <1>1, <1>2, <1>5, <1>6, <1>7, <1>8 DEF Holds, Typed
  <1> QED
    BY <1>9

LEMMA AppendHolds ==
  ASSUME ScheduleInv, NEW c \in Callers, Append(c)
  PROVE  \E x : Holds(c, x)
  <1>1. /\ Typed /\ caller[c].pc = "append" /\ row \in MaybeRow
        /\ UNCHANGED <<lock, file, row, task, excused>>
    BY DEF ScheduleInv, Typed, Append, At, history
  <1>2. /\ lock = c /\ caller[c] \in Locals
        /\ \A t \in Slots : task[t] \in UnderWay /\ ~excused => caller[c].task = t
    BY <1>1, HolderKnows, Members
  <1>3. caller[c].task \in Slots /\ caller[c].task # None /\ (caller[c].ok \/ excused)
    BY <1>1, <1>2, LocalFields DEF ScheduleInv, Handler, Loaded, MaybeTask
  <1> DEFINE x == [caller[c] EXCEPT !.pc = "finish"]
  <1>4. caller' = [caller EXCEPT ![c] = x]
    BY <1>1 DEF Append, Goto, Typed
  <1>5. x \in Locals /\ x.pc = "finish" /\ x.task = caller[c].task /\ x.ok = caller[c].ok
    BY <1>2, Members DEF Locals
  <1> HIDE DEF x
  <1>6. PICK n \in {"started", "failed"} : record' = [record EXCEPT ![caller[c].task] = n]
    BY DEF Append
  <1>7. /\ record' \in [Slots -> Records]
        /\ \A t \in Slots : record'[t] = "done" => task[t] = "ended"
    BY <1>1, <1>3, <1>6 DEF ScheduleInv, Typed, Records, Closed
  <1>8. Loaded(x) /\ x.pc \in Inside
    BY <1>3, <1>5, Members DEF Loaded
  <1>9. Holds(c, x)
    BY <1>1, <1>2, <1>3, <1>4, <1>5, <1>7, <1>8 DEF Holds, Typed
  <1> QED
    BY <1>9

LEMMA RunSaveHolds ==
  ASSUME ScheduleInv, NEW c \in Callers, RunSave(c)
  PROVE  \E x : Holds(c, x)
  <1>1. /\ Typed /\ lock' = None /\ caller[c].pc = "finish" /\ row' = RunState(c)
        /\ UNCHANGED <<file, task, record, excused>> /\ caller' = [caller EXCEPT ![c] = Idle]
    BY DEF ScheduleInv, Typed, RunSave, At, Done, history
  <1>2. /\ lock = c /\ caller[c] \in Locals
        /\ \A t \in Slots : task[t] \in UnderWay /\ ~excused => caller[c].task = t
    BY <1>1, HolderKnows, Members
  <1>3. caller[c].task \in MaybeTask /\ (caller[c].ok \/ excused) /\ caller[c].age \in Int
    BY <1>1, <1>2, LocalFields DEF ScheduleInv, Handler
  <1>4. row' \in Rows /\ row'.active = IF caller[c].ok THEN caller[c].task ELSE None
    <2>1. NextDue(c) \in Int
      BY <1>3, ScheduleAssumption DEF NextDue
    <2>2. (IF caller[c].ok THEN caller[c].task ELSE None) \in MaybeTask
      BY <1>3, Members
    <2> QED
      BY <1>1, <2>1, <2>2, RowMade DEF RunState
  <1>5. row' \in MaybeRow /\ Active(row') = IF caller[c].ok THEN caller[c].task ELSE None
    BY <1>4, RowFields
  <1>6. Idle.pc \notin Inside /\ Idle.pc \notin {"submit", "append", "finish"}
    BY IdleIsOutside, Members
  <1>7. Holds(c, Idle)
    BY <1>1, <1>2, <1>3, <1>5, <1>6, IdleIsOutside DEF Holds, ScheduleInv, Closed, Typed
  <1> QED
    BY <1>7

-----------------------------------------------------------------------------
(* Faults, the tasks and time *)

LEMMA StoreFailsKeeps ==
  ASSUME ScheduleInv, NEW c \in Callers, StoreFails(c)
  PROVE  ScheduleInv'
  <1>1. /\ Typed /\ excused' /\ UNCHANGED <<file, row, task, record>>
        /\ caller' = [caller EXCEPT ![c] = Idle]
    BY DEF ScheduleInv, StoreFails, Done, store
  <1>2. Idle.pc \notin Inside /\ Idle.pc \notin {"submit", "append", "finish"}
    BY IdleIsOutside, Members
  <1>3. CASE lock = c
    <2>1. lock' = None
      BY <1>3 DEF StoreFails
    <2>2. Holds(c, Idle)
      BY <1>1, <1>2, <1>3, <2>1, IdleIsOutside DEF Holds, ScheduleInv, Closed, Typed
    <2> QED
      BY <2>2, HoldsKeeps
  <1>4. CASE lock # c
    <2>1. lock' = lock
      BY <1>4 DEF StoreFails
    <2>2. caller[c].pc \in Outside
      BY <1>1, <1>4, LocalFields DEF ScheduleInv, Handler, Typed, Pcs
    <2>3. Apart(c, Idle)
      BY <1>1, <2>1, <2>2, IdleIsOutside DEF Apart, Closing, Typed
    <2> QED
      BY <2>3, ApartKeeps
  <1> QED
    BY <1>3, <1>4

LEMMA CrashKeeps ==
  ASSUME ScheduleInv, Crash
  PROVE  ScheduleInv'
  <1>1. /\ Typed /\ excused' /\ UNCHANGED <<file, row, record>> /\ lock' = None
        /\ caller' = [c \in Callers |-> Idle]
    BY DEF ScheduleInv, Crash
  <1>2. /\ task' \in [Slots -> TaskStates]
        /\ \A t \in Slots : task[t] = "ended" => task'[t] = "ended"
    BY <1>1 DEF Crash, Typed, TaskStates
  <1>3. Typed'
    BY <1>1, <1>2, IdleLocal DEF Typed
  <1>4. ASSUME NEW c \in Callers
        PROVE  Handler(c)'
    <2>1. caller'[c] = Idle /\ lock' # c
      BY <1>1, Members
    <2>2. Idle.pc \notin Inside /\ Idle.pc \notin {"submit", "append", "finish"}
      BY IdleIsOutside, Members
    <2> QED
      BY <2>1, <2>2, IdleIsOutside DEF Handler
  <1>5. ASSUME NEW t \in Slots
        PROVE  Closed(t)' /\ Known(t)'
    BY <1>1, <1>2 DEF ScheduleInv, Closed, Known
  <1> QED
    BY <1>3, <1>4, <1>5 DEF ScheduleInv

LEMMA TaskMovesKeeps ==
  ASSUME ScheduleInv, NEW n \in Slots, TaskStarts(n) \/ TaskEnds(n)
  PROVE  ScheduleInv'
  <1>1. /\ Typed /\ UNCHANGED <<file, row, record, lock, caller, excused>>
        /\ task[n] \in UnderWay
        /\ \E state \in {"live", "ended"} : task' = [task EXCEPT ![n] = state]
    BY DEF ScheduleInv, TaskStarts, TaskEnds, UnderWay, history
  <1>2. /\ task' \in [Slots -> TaskStates]
        /\ \A t \in Slots : /\ task'[t] \in UnderWay => task[t] \in UnderWay
                            /\ task[t] = "ended" => task'[t] = "ended"
    BY <1>1 DEF Typed, TaskStates, UnderWay
  <1>3. Typed'
    BY <1>1, <1>2 DEF Typed
  <1>4. ASSUME NEW c \in Callers
        PROVE  Handler(c)'
    BY <1>1 DEF ScheduleInv, Handler
  <1>5. ASSUME NEW t \in Slots
        PROVE  Closed(t)' /\ Known(t)'
    BY <1>1, <1>2 DEF ScheduleInv, Closed, Known
  <1> QED
    BY <1>3, <1>4, <1>5 DEF ScheduleInv

\* What a handler holds grows older.
LEMMA AgedLocal ==
  ASSUME NEW x \in Locals, Loaded(x), NEW y,
         y = IF x.pc = "idle" THEN Idle
             ELSE [x EXCEPT !.age = @ + 1, !.spec = Older(@), !.row = Older(@)]
  PROVE  /\ y \in Locals /\ y.pc = x.pc /\ Loaded(y)
         /\ x.pc # "idle" => y.task = x.task /\ y.ok = x.ok /\ Active(y.row) = Active(x.row)
  <1>1. CASE x.pc = "idle"
    BY <1>1, IdleLocal, IdleIsOutside
  <1>2. CASE x.pc # "idle"
    <2> DEFINE s == Older(x.spec)
               r == Older(x.row)
    <2>1. /\ s \in MaybeSpec /\ (s = None => x.spec = None)
          /\ r \in MaybeRow /\ Active(r) = Active(x.row) /\ (r = None => x.row = None)
          /\ x.age + 1 \in Int
      BY LocalFields, OlderSpec, OlderRow
    <2>2. y = [x EXCEPT !.age = x.age + 1, !.spec = s, !.row = r]
      BY <1>2
    <2> HIDE DEF s, r
    <2>3. /\ y \in Locals /\ y.pc = x.pc /\ y.spec = s /\ y.row = r /\ y.task = x.task
          /\ y.ok = x.ok
      BY <2>1, <2>2 DEF Locals
    <2> QED
      BY <2>1, <2>3 DEF Loaded
  <1> QED
    BY <1>1, <1>2

LEMMA PassKeeps ==
  ASSUME ScheduleInv, Pass
  PROVE  ScheduleInv'
  <1>1. /\ Typed /\ UNCHANGED <<task, record, lock, excused>> /\ file' = Older(file)
        /\ row' = Older(row)
    BY DEF ScheduleInv, Pass
  <1>2. file' \in MaybeSpec /\ row' \in MaybeRow /\ Active(row') = Active(row)
    BY <1>1, OlderRow, OlderSpec DEF Typed
  <1>3. ASSUME NEW c \in Callers
        PROVE  /\ caller'[c] \in Locals /\ caller'[c].pc = caller[c].pc /\ Loaded(caller'[c])
               /\ caller[c].pc # "idle" =>
                    /\ caller'[c].task = caller[c].task /\ caller'[c].ok = caller[c].ok
                    /\ Active(caller'[c].row) = Active(caller[c].row)
    <2>1. caller[c] \in Locals /\ Loaded(caller[c])
      BY <1>1 DEF ScheduleInv, Typed, Handler
    <2>2. caller'[c] = IF caller[c].pc = "idle" THEN Idle
                       ELSE [caller[c] EXCEPT !.age = @ + 1, !.spec = Older(@), !.row = Older(@)]
      BY DEF Pass, At
    <2>3. PICK x, y : x = caller[c] /\ y = caller'[c]
      OBVIOUS
    <2> QED
      BY <2>1, <2>2, <2>3, AgedLocal
  <1>4. Typed'
    <2>1. caller' \in [Callers -> Locals]
      <3>1. DOMAIN caller' = Callers /\ caller' = [c \in Callers |-> caller'[c]]
        BY DEF Pass
      <3> QED
        BY <1>3, <3>1
    <2> QED
      BY <1>1, <1>2, <2>1 DEF Typed
  <1>5. ASSUME NEW c \in Callers
        PROVE  Handler(c)'
    BY <1>1, <1>3 DEF ScheduleInv, Handler
  <1>6. ASSUME NEW t \in Slots
        PROVE  Closed(t)' /\ Known(t)'
    <2>1. Closed(t) /\ Known(t) /\ (lock # None => lock \in Callers)
      BY <1>1 DEF ScheduleInv, Typed
    <2> QED
      BY <1>1, <1>2, <1>3, <2>1 DEF Closed, Known
  <1> QED
    BY <1>4, <1>5, <1>6 DEF ScheduleInv

-----------------------------------------------------------------------------
(* Theorems *)

LEMMA ScheduleInit == Init => ScheduleInv
  <1> SUFFICES ASSUME Init
               PROVE  ScheduleInv
    OBVIOUS
  <1>1. file \in MaybeSpec
    BY SpecMade, Members DEF Init
  <1>2. Typed
    BY <1>1, Members, IdleLocal DEF Init, Typed, TaskStates, Records
  <1>3. ASSUME NEW c \in Callers
        PROVE  Handler(c)
    <2>1. caller[c] = Idle /\ lock # c
      BY Members DEF Init
    <2>2. Idle.pc \notin Inside /\ Idle.pc \notin {"submit", "append", "finish"}
      BY IdleIsOutside, Members
    <2> QED
      BY <2>1, <2>2, IdleIsOutside DEF Handler
  <1>4. ASSUME NEW t \in Slots
        PROVE  Closed(t) /\ Known(t)
    BY DEF Init, Closed, Known, UnderWay
  <1> QED
    BY <1>2, <1>3, <1>4 DEF ScheduleInv

LEMMA ScheduleStep == ScheduleInv /\ [Next]_vars => ScheduleInv'
  <1> SUFFICES ASSUME ScheduleInv, [Next]_vars
               PROVE  ScheduleInv'
    OBVIOUS
  <1>1. CASE \E c \in Callers : \E x : Apart(c, x)
    BY <1>1, ApartKeeps
  <1>2. CASE \E c \in Callers : \E x : Holds(c, x)
    BY <1>2, HoldsKeeps
  <1>3. CASE TickSteps
    BY <1>1, <1>3, TickLoadApart, TickReadApart, TickActiveApart, TickDecideApart, Members
    DEF TickSteps
  <1>4. ASSUME NEW c \in Callers, Save(c) \/ RunSteps(c) \/ SubmitFails(c) \/ StoreFails(c)
        PROVE  ScheduleInv'
    <2>1. CASE Save(c)
      BY <1>1, <2>1, SaveApart
    <2>2. CASE RunSteps(c) \/ SubmitFails(c)
      BY <1>2, <2>2, RunReadHolds, RunRejectHolds, RunProceedHolds, CreateHolds, SubmitHolds,
         AppendHolds, RunSaveHolds DEF RunSteps
    <2>3. CASE StoreFails(c)
      BY <2>3, StoreFailsKeeps
    <2> QED
      BY <1>4, <2>1, <2>2, <2>3
  <1>5. ASSUME NEW c \in Clients, EditSteps(c) \/ Requests(c)
        PROVE  ScheduleInv'
    <2>1. c \in Callers
      BY Members
    <2> QED
      BY <1>1, <1>5, <2>1, EditStepApart, RunNowApart, EditApart DEF Requests
  <1>6. CASE UNCHANGED vars
    <2>1. UNCHANGED <<file, row, task, record, lock, caller, excused>>
      BY <1>6 DEF vars, store, history
    <2>2. Typed'
      BY <2>1 DEF ScheduleInv, Typed
    <2>3. ASSUME NEW c \in Callers
          PROVE  Handler(c)'
      BY <2>1 DEF ScheduleInv, Handler
    <2>4. ASSUME NEW t \in Slots
          PROVE  Closed(t)' /\ Known(t)'
      BY <2>1 DEF ScheduleInv, Closed, Known
    <2> QED
      BY <2>2, <2>3, <2>4 DEF ScheduleInv
  <1> QED
    BY <1>3, <1>4, <1>5, <1>6, TaskMovesKeeps, CrashKeeps, PassKeeps DEF Next

\* The inductive invariant holds in every state: operation_lock is held inside
\* run_scheduled_task, and what runs is known to the row or to the holder of the lock.
THEOREM Invariant == Behaviour => []ScheduleInv
  BY ScheduleInit, ScheduleStep, PTL DEF Behaviour

\* The record of a run is closed only after its task has ended, however ticks, run_now and
\* edits interleave and whatever fails (complete_scheduled_task_run_for_task).
THEOREM RecordsClosed == Behaviour => []ClosedAfterEnd
  <1>1. ScheduleInv => ClosedAfterEnd
    BY DEF ScheduleInv, Closed, ClosedAfterEnd
  <1> QED
    BY <1>1, Invariant, PTL

\* Two runs of a schedule are under way at once only after the row lost sight of one: the lock
\* and the second read of the row keep them apart (run_scheduled_task).
THEOREM RunsApart == Behaviour => []OverlapExplained
  <1>1. ScheduleInv => OverlapExplained
    <2> SUFFICES ASSUME ScheduleInv, ~excused
                 PROVE  Cardinality({t \in Slots : task[t] \in UnderWay}) <= 1
      BY DEF OverlapExplained
    <2> DEFINE live == {t \in Slots : task[t] \in UnderWay}
    <2>1. \A t, u \in live : t = u
      BY DEF ScheduleInv, Known
    <2>2. CASE live = {}
      BY <2>2, FS_EmptySet
    <2>3. CASE live # {}
      <3>1. PICK t : t \in live
        BY <2>3
      <3>2. live = {t}
        BY <2>1, <3>1
      <3>3. Cardinality({t}) = 1
        BY FS_Singleton
      <3> QED
        BY <3>2, <3>3
    <2> QED
      BY <2>2, <2>3
  <1> QED
    BY <1>1, Invariant, PTL

-----------------------------------------------------------------------------
(* The pace of the loop *)

Launched == {"submit", "append", "finish"}
Committed == {"lock", "locked", "create"}

\* A due time that lies an interval after the loop's last run, but for a handler's delay.
Paced(w) == since = Top \/ w + since >= Interval - MaxDelay

\* What a handler holds is as old as it, and a client counts the interval from its own `now'.
Punctual(c, x) ==
  /\ x.age \in 0..MaxDelay
  /\ x.pc = "saved" => x.spec.wait >= Interval - x.age
  /\ c # Tick /\ x.pc = "save" => x.row.wait >= Interval - x.age

\* The loop goes on to a run only if that run is due, and counts from the run it launched.
LoopPaced(x) ==
  /\ x.pc \in {"read", "save"} => Paced(x.row.wait)
  /\ x.pc \in Committed => since - x.age >= Interval - MaxDelay
  /\ x.pc \in Launched => since \in {Top, x.age}

RowPaced ==
  caller[Tick].pc \in Launched \/ (IF row = None THEN since = Top ELSE Paced(row.wait))

PaceInv ==
  /\ since \in 0..Top
  /\ \A c \in Callers : Punctual(c, caller[c])
  /\ LoopPaced(caller[Tick]) /\ RowPaced

LEMMA Durations ==
  /\ Interval \in Nat /\ MaxDelay \in Nat /\ MaxDelay < Interval /\ Top = Interval + MaxDelay
  /\ Top \in Nat
  BY ScheduleAssumption DEF Top

\* When the due time is lost, nothing is left to keep.
LEMMA FarPaced ==
  ASSUME ScheduleInv', since' = Top, \A c \in Callers : Punctual(c, caller'[c])
  PROVE  PaceInv'
  <1>1. caller'[Tick] \in Locals /\ caller'[Tick].age \in 0..MaxDelay
    BY Members DEF ScheduleInv, Typed, Punctual
  <1>2. LoopPaced(caller[Tick])'
    BY <1>1, Durations DEF LoopPaced, Paced
  <1>3. RowPaced'
    BY DEF RowPaced, Paced
  <1>4. Punctual(Tick, caller[Tick])' /\ \A c \in Callers : Punctual(c, caller[c])'
    BY Members DEF Punctual
  <1> QED
    BY <1>2, <1>3, <1>4, Durations DEF PaceInv

\* A step of a client leaves the row to the loop, or counts it from the client's `now'.
LEMMA ClientPaced ==
  ASSUME PaceInv, NEW c \in Clients, since' = since, Punctual(c, caller'[c]),
         \A d \in Callers : d # c => caller'[d] = caller[d],
         row' = row \/ (row' \in Rows /\ row'.wait >= Interval - MaxDelay)
  PROVE  PaceInv'
  <1>1. Tick # c /\ Tick \in Callers
    BY ScheduleAssumption, Members
  <1>2. caller'[Tick] = caller[Tick]
    BY <1>1
  <1>3. \A d \in Callers : Punctual(d, caller[d])'
    BY DEF PaceInv, Punctual
  <1>4. LoopPaced(caller[Tick])'
    BY <1>2 DEF PaceInv, LoopPaced, Paced
  <1>5. RowPaced'
    <2>1. CASE row' = row
      BY <1>2, <2>1 DEF PaceInv, RowPaced, Paced
    <2>2. CASE row' \in Rows /\ row'.wait >= Interval - MaxDelay
      <3>1. row' # None /\ row'.wait \in Int
        BY <2>2, RowFields
      <3> QED
        BY <2>2, <3>1, Durations DEF PaceInv, RowPaced, Paced
    <2> QED
      BY <2>1, <2>2
  <1> QED
    BY <1>3, <1>4, <1>5 DEF PaceInv

\* A step of the loop is to keep what is said of the loop and of the row.
LEMMA LoopSteps ==
  ASSUME PaceInv, since' \in 0..Top, caller'[Tick].age \in 0..MaxDelay,
         caller'[Tick].pc # "saved",
         \A d \in Callers : d # Tick => caller'[d] = caller[d],
         LoopPaced(caller[Tick])', RowPaced'
  PROVE  PaceInv'
  <1>1. \A d \in Callers : Punctual(d, caller[d])'
    BY DEF PaceInv, Punctual
  <1> QED
    BY <1>1 DEF PaceInv

\* One caller takes the step.
LEMMA OneCaller ==
  ASSUME ScheduleInv, NEW c \in Callers,
         (\E x : Apart(c, x)) \/ (\E x : Holds(c, x)) \/ StoreFails(c)
  PROVE  /\ ScheduleInv' /\ caller[c] \in Locals /\ caller'[c] \in Locals
         /\ \A d \in Callers : d # c => caller'[d] = caller[d]
  <1>1. ScheduleInv'
    BY ApartKeeps, HoldsKeeps, StoreFailsKeeps
  <1>2. \E x : caller' = [caller EXCEPT ![c] = x]
    BY DEF Apart, Holds, StoreFails, Done
  <1> QED
    BY <1>1, <1>2 DEF ScheduleInv, Typed

LEMMA IdlePunctual == \A c : Punctual(c, Idle)
  BY Durations DEF Idle, Punctual

LEMMA RunKind ==
  ASSUME ScheduleInv, NEW c \in Callers,
         Save(c) \/ RunSteps(c) \/ SubmitFails(c)
  PROVE  (\E x : Apart(c, x)) \/ (\E x : Holds(c, x))
  BY SaveApart, RunReadHolds, RunRejectHolds, RunProceedHolds, CreateHolds, SubmitHolds,
     AppendHolds, RunSaveHolds DEF RunSteps

\* The steps under the lock change the age of nothing and launch one after the other.
LEMMA RunLocals ==
  ASSUME ScheduleInv, NEW c \in Callers
  PROVE  /\ RunRead(c) => /\ caller[c].pc = "lock" /\ caller'[c].pc = "locked"
                          /\ caller'[c].age = caller[c].age
         /\ RunReject(c) => caller[c].pc = "locked" /\ caller'[c] = Idle
         /\ RunProceed(c) => /\ caller[c].pc = "locked" /\ caller'[c].pc = "create"
                             /\ caller'[c].age = caller[c].age
         /\ Create(c) => /\ caller[c].pc = "create" /\ caller'[c].pc = "submit"
                         /\ caller'[c].age = caller[c].age
         /\ Submit(c) \/ SubmitFails(c) => /\ caller[c].pc = "submit" /\ caller'[c].pc = "append"
                                           /\ caller'[c].age = caller[c].age
         /\ Append(c) => /\ caller[c].pc = "append" /\ caller'[c].pc = "finish"
                         /\ caller'[c].age = caller[c].age
         /\ RunSave(c) \/ Save(c) => caller'[c] = Idle
  <1>1. caller \in [Callers -> Locals]
    BY DEF ScheduleInv, Typed
  <1>2. caller[c] \in Locals
    BY <1>1
  <1>3. RunRead(c) => /\ caller[c].pc = "lock" /\ caller'[c].pc = "locked"
                      /\ caller'[c].age = caller[c].age
    BY <1>1, <1>2 DEF RunRead, At, Locals
  <1>4. RunReject(c) => caller[c].pc = "locked" /\ caller'[c] = Idle
    BY <1>1 DEF RunReject, At, Done
  <1>5. RunProceed(c) => /\ caller[c].pc = "locked" /\ caller'[c].pc = "create"
                         /\ caller'[c].age = caller[c].age
    BY <1>1, <1>2 DEF RunProceed, At, Locals
  <1>6. ASSUME Create(c)
        PROVE  /\ caller[c].pc = "create" /\ caller'[c].pc = "submit"
               /\ caller'[c].age = caller[c].age
    <2>1. PICK n : caller' = [caller EXCEPT ![c].pc = "submit", ![c].task = n]
      BY <1>6 DEF Create
    <2> QED
      BY <1>1, <1>2, <1>6, <2>1 DEF Create, At, Locals
  <1>7. Submit(c) \/ SubmitFails(c) => /\ caller[c].pc = "submit" /\ caller'[c].pc = "append"
                                       /\ caller'[c].age = caller[c].age
    BY <1>1, <1>2 DEF Submit, SubmitFails, Goto, At, Locals
  <1>8. Append(c) => /\ caller[c].pc = "append" /\ caller'[c].pc = "finish"
                     /\ caller'[c].age = caller[c].age
    BY <1>1, <1>2 DEF Append, Goto, At, Locals
  <1>9. RunSave(c) \/ Save(c) => caller'[c] = Idle
    BY <1>1 DEF RunSave, Save, Done
  <1> QED
    BY <1>3, <1>4, <1>5, <1>6, <1>7, <1>8, <1>9

LEMMA RunStatePaced ==
  ASSUME ScheduleInv, NEW c \in Callers
  PROVE  RunState(c).wait = Interval - caller[c].age /\ RunState(c) # None
  <1>1. RunState(c).wait = Interval - caller[c].age
    BY DEF RunState, NextDue
  <1>2. caller[c].age \in Int /\ caller[c].task \in MaybeTask /\ caller[c].ok \in BOOLEAN
    BY LocalFields DEF ScheduleInv, Typed
  <1>3. NextDue(c) \in Int /\ (IF caller[c].ok THEN caller[c].task ELSE None) \in MaybeTask
    BY <1>2, Durations, Members DEF NextDue
  <1>4. RunState(c) \in Rows
    BY <1>3, RowMade DEF RunState
  <1> QED
    BY <1>1, <1>4, Members

LEMMA ClientRuns ==
  ASSUME ScheduleInv, PaceInv, NEW c \in Clients, Save(c) \/ RunSteps(c) \/ SubmitFails(c)
  PROVE  PaceInv'
  <1>1. c \in Callers /\ c # Tick
    BY ScheduleAssumption, Members
  <1>2. /\ ScheduleInv' /\ caller[c] \in Locals
        /\ \A d \in Callers : d # c => caller'[d] = caller[d]
    BY <1>1, RunKind, OneCaller
  <1>3. since' = since
    BY <1>1 DEF Save, RunSteps, RunRead, RunReject, RunProceed, Create, Submit, SubmitFails, Append,
                RunSave, history
  <1>4. Punctual(c, caller[c]) /\ caller[c].age \in 0..MaxDelay
    BY <1>1 DEF PaceInv, Punctual
  <1>5. Punctual(c, caller'[c])
    <2>1. CASE Save(c) \/ RunReject(c) \/ RunSave(c)
      BY <1>1, <2>1, RunLocals, IdlePunctual
    <2>2. CASE ~(Save(c) \/ RunReject(c) \/ RunSave(c))
      BY <1>1, <1>4, <2>2, RunLocals DEF RunSteps, Punctual
    <2> QED
      BY <2>1, <2>2
  <1>6. row' = row \/ (row' \in Rows /\ row'.wait >= Interval - MaxDelay)
    <2>1. CASE Save(c)
      <3>1. caller[c].pc = "save" /\ row' = caller[c].row
        BY <2>1 DEF Save, At
      <3>2. row' \in Rows
        BY <1>1, <1>2, <3>1, LocalFields DEF ScheduleInv, Handler, Loaded, MaybeRow
      <3>3. row'.wait >= Interval - caller[c].age /\ row'.wait \in Int
        BY <1>1, <1>4, <3>1, <3>2, RowFields DEF Punctual
      <3> QED
        BY <1>4, <3>2, <3>3, Durations
    <2>2. CASE RunSave(c)
      <3>1. row' = RunState(c) /\ row'.wait = Interval - caller[c].age /\ row' # None
        BY <1>1, <2>2, RunStatePaced DEF RunSave
      <3>2. row' \in Rows
        BY <1>2, <3>1 DEF ScheduleInv, Typed, MaybeRow
      <3> QED
        BY <1>4, <3>1, <3>2, Durations
    <2>3. CASE ~Save(c) /\ ~RunSave(c)
      BY <2>3 DEF RunSteps, RunRead, RunReject, RunProceed, Create, Submit, SubmitFails, Append, store
    <2> QED
      BY <2>1, <2>2, <2>3
  <1> QED
    BY <1>2, <1>3, <1>5, <1>6, ClientPaced

LEMMA ClientEdits ==
  ASSUME ScheduleInv, PaceInv, NEW c \in Clients, EditSteps(c) \/ Requests(c)
  PROVE  PaceInv'
  <1>1. c \in Callers /\ c # Tick
    BY ScheduleAssumption, Members
  <1>2. /\ ScheduleInv' /\ caller[c] \in Locals /\ caller \in [Callers -> Locals]
        /\ \A d \in Callers : d # c => caller'[d] = caller[d]
    BY <1>1, EditStepApart, RunNowApart, EditApart, OneCaller DEF Requests, ScheduleInv, Typed
  <1>3. Punctual(c, caller[c]) /\ caller[c].age \in 0..MaxDelay
    BY <1>1 DEF PaceInv, Punctual
  <1>4. Punctual(c, caller'[c])
    <2>1. CASE SaveRead(c)
      <3>1. CASE row = None
        BY <1>1, <1>2, <2>1, <3>1, IdlePunctual DEF SaveRead, Done
      <3>2. CASE row # None
        <4>1. row \in Rows /\ caller[c].pc = "saved"
          BY <2>1, <3>2 DEF ScheduleInv, Typed, MaybeRow, SaveRead, At
        <4>2. PICK r : r = [row EXCEPT !.wait = caller[c].spec.wait]
          OBVIOUS
        <4>3. r.wait = caller[c].spec.wait
          BY <4>1, <4>2 DEF Rows
        <4>4. caller' = [caller EXCEPT ![c].pc = "save", ![c].spec = None, ![c].row = r]
          BY <2>1, <3>2, <4>2 DEF SaveRead
        <4>5. caller'[c].pc = "save" /\ caller'[c].row = r /\ caller'[c].age = caller[c].age
          BY <1>1, <1>2, <4>4 DEF Locals
        <4> QED
          BY <1>3, <4>1, <4>3, <4>5 DEF Punctual
      <3> QED
        BY <3>1, <3>2
    <2>2. CASE WriteFile(c) \/ DeleteRow(c)
      BY <1>1, <1>2, <2>2, IdlePunctual DEF WriteFile, DeleteRow, Done
    <2>3. CASE DeleteFile(c)
      BY <1>1, <1>2, <1>3, <2>3 DEF DeleteFile, Goto, Locals, Punctual
    <2>4. CASE RunNow(c) \/ SetEnabled(c) \/ Delete(c)
      <3>1. \E pc \in {"lock", "write", "drop"} :
              \/ caller' = [caller EXCEPT ![c] = [Idle EXCEPT !.pc = pc]]
              \/ \E s : caller' = [caller EXCEPT ![c] = [Idle EXCEPT !.pc = pc, !.spec = s]]
        BY <2>4 DEF RunNow, SetEnabled, Delete
      <3>2. \E pc \in {"lock", "write", "drop"} :
              \/ caller'[c] = [Idle EXCEPT !.pc = pc]
              \/ \E s : caller'[c] = [Idle EXCEPT !.pc = pc, !.spec = s]
        BY <1>1, <1>2, <3>1
      <3>3. caller'[c].pc \in {"lock", "write", "drop"} /\ caller'[c].age = 0
        BY <3>2 DEF Idle
      <3> QED
        BY <3>3, Durations DEF Punctual
    <2>5. CASE SaveFile(c)
      <3>1. file'.wait = Interval
        BY <2>5 DEF SaveFile, Spec
      <3>2. caller'[c] = [Idle EXCEPT !.pc = "saved", !.spec = file']
        BY <1>1, <1>2, <2>5 DEF SaveFile
      <3>3. caller'[c].pc = "saved" /\ caller'[c].spec = file' /\ caller'[c].age = 0
        BY <3>2 DEF Idle
      <3> QED
        BY <3>1, <3>3, Durations DEF Punctual
    <2> QED
      BY <2>1, <2>2, <2>3, <2>4, <2>5 DEF EditSteps, Requests
  <1>5. CASE DeleteRow(c)
    <2>1. \A d \in Callers : Punctual(d, caller'[d])
      BY <1>2, <1>4 DEF PaceInv
    <2> QED
      BY <1>2, <1>5, <2>1, FarPaced DEF DeleteRow
  <1>6. CASE ~DeleteRow(c)
    <2>1. since' = since /\ row' = row
      BY <1>6 DEF EditSteps, Requests, SaveRead, WriteFile, DeleteFile, RunNow, SaveFile, SetEnabled,
                  Delete, Edit, store, history
    <2> QED
      BY <1>2, <1>4, <2>1, ClientPaced
  <1> QED
    BY <1>5, <1>6

-----------------------------------------------------------------------------
(* Steps of the loop *)

LEMMA LoopState ==
  ASSUME ScheduleInv, PaceInv
  PROVE  /\ Tick \in Callers /\ caller \in [Callers -> Locals] /\ caller[Tick] \in Locals
         /\ caller[Tick].age \in 0..MaxDelay /\ since \in 0..Top
         /\ LoopPaced(caller[Tick]) /\ RowPaced
         /\ caller[Tick].pc \in {"read", "save"} =>
              caller[Tick].row \in Rows /\ caller[Tick].row.wait \in Int
  <1>1. Tick \in Callers /\ caller \in [Callers -> Locals] /\ Loaded(caller[Tick])
    BY Members DEF ScheduleInv, Typed, Handler
  <1>2. caller[Tick].age \in 0..MaxDelay
    BY <1>1 DEF PaceInv, Punctual
  <1>3. caller[Tick].pc \in {"read", "save"} => caller[Tick].row \in Rows
    BY <1>1, LocalFields DEF Loaded, MaybeRow
  <1> QED
    BY <1>1, <1>2, <1>3, RowFields DEF PaceInv

\* Nothing of the row's pace is lost by a step that does not touch the row.
LEMMA RowLeft ==
  ASSUME RowPaced, row' = row, since' = since,
         caller[Tick].pc \notin Launched \/ caller'[Tick].pc \in Launched
  PROVE  RowPaced'
  BY DEF RowPaced, Paced

LEMMA LoopLoads ==
  ASSUME ScheduleInv, PaceInv, TickLoad
  PROVE  PaceInv'
  <1>1. \E x : Apart(Tick, x)
    BY TickLoadApart
  <1>2. \A d \in Callers : d # Tick => caller'[d] = caller[d]
    BY <1>1, Members, OneCaller
  <1>3. caller[Tick].pc = "idle" /\ row' = row /\ since' = since
    BY DEF TickLoad, At, store, history
  <1>4. caller'[Tick] = caller[Tick] \/ caller'[Tick] = [Idle EXCEPT !.pc = "loaded", !.spec = file]
    BY LoopState DEF TickLoad
  <1>5. caller'[Tick].pc \in {"idle", "loaded"} /\ caller'[Tick].age \in 0..MaxDelay
    <2>1. CASE caller'[Tick] = caller[Tick]
      BY <1>3, <2>1, LoopState
    <2>2. CASE caller'[Tick] = [Idle EXCEPT !.pc = "loaded", !.spec = file]
      <3>1. caller'[Tick].pc = "loaded" /\ caller'[Tick].age = 0
        BY <2>2 DEF Idle
      <3> QED
        BY <3>1, Durations
    <2> QED
      BY <1>4, <2>1, <2>2
  <1>6. LoopPaced(caller[Tick])'
    BY <1>5 DEF LoopPaced, Committed, Launched
  <1>7. RowPaced'
    BY <1>3, LoopState, RowLeft DEF Launched
  <1> QED
    BY <1>2, <1>3, <1>5, <1>6, <1>7, LoopState, LoopSteps

LEMMA LoopReads ==
  ASSUME ScheduleInv, PaceInv, TickRead
  PROVE  PaceInv'
  <1>1. \E x : Apart(Tick, x)
    BY TickReadApart
  <1>2. \A d \in Callers : d # Tick => caller'[d] = caller[d]
    BY <1>1, Members, OneCaller
  <1>3. caller[Tick].pc = "loaded" /\ row' = row /\ since' = since
    BY DEF TickRead, At, store, history
  <1>4. PICK r : /\ r = IF row # None THEN row
                         ELSE [wait |-> caller[Tick].spec.wait, active |-> None]
                 /\ caller' = [caller EXCEPT ![Tick].pc = "read", ![Tick].row = r]
    BY DEF TickRead
  <1>5. caller'[Tick].pc = "read" /\ caller'[Tick].row = r /\ caller'[Tick].age = caller[Tick].age
    BY <1>4, LoopState DEF Locals
  <1>6. Paced(r.wait)
    BY <1>3, <1>4, LoopState DEF RowPaced, Launched, Paced
  <1>7. LoopPaced(caller[Tick])'
    BY <1>3, <1>5, <1>6 DEF LoopPaced, Committed, Launched, Paced
  <1>8. RowPaced'
    BY <1>3, LoopState, RowLeft DEF Launched
  <1> QED
    BY <1>2, <1>3, <1>5, <1>7, <1>8, LoopState, LoopSteps

LEMMA LoopSeesRun ==
  ASSUME ScheduleInv, PaceInv, TickActive
  PROVE  PaceInv'
  <1>1. \E x : Apart(Tick, x)
    BY TickActiveApart
  <1>2. \A d \in Callers : d # Tick => caller'[d] = caller[d]
    BY <1>1, Members, OneCaller
  <1>3. caller[Tick].pc = "read" /\ row' = row /\ since' = since
    BY DEF TickActive, At, store, history
  <1>4. caller' = [caller EXCEPT ![Tick].pc = "save", ![Tick].spec = None]
    BY DEF TickActive
  <1>5. /\ caller'[Tick].pc = "save" /\ caller'[Tick].row = caller[Tick].row
        /\ caller'[Tick].age = caller[Tick].age
    BY <1>4, LoopState DEF Locals
  <1>6. LoopPaced(caller[Tick])'
    BY <1>3, <1>5, LoopState DEF LoopPaced, Committed, Launched, Paced
  <1>7. RowPaced'
    BY <1>3, LoopState, RowLeft DEF Launched
  <1> QED
    BY <1>2, <1>3, <1>5, <1>6, <1>7, LoopState, LoopSteps

\* A run is decided on only when it is due; a missed one is counted from the loop's `now'.
LEMMA DecidesPaced ==
  ASSUME ScheduleInv, PaceInv, caller[Tick].pc = "read",
         NEW r \in Rows, r.wait = caller[Tick].row.wait, NEW d, d = Decide(Tick, r)
  PROVE  \/ d.pc = "save" /\ Paced(d.row.wait)
         \/ d.pc = "lock" /\ since - caller[Tick].age >= Interval - MaxDelay
  <1>1. r.wait \in Int /\ Paced(r.wait) /\ caller[Tick].age \in 0..MaxDelay /\ since \in 0..Top
    BY LoopState DEF LoopPaced
  <1>2. CASE ~Due(Tick, r)
    <2>1. ~MissedMultiple(Tick, r)
      BY <1>1, <1>2, Durations DEF Due, MissedMultiple
    <2>2. d = [pc |-> "save", row |-> r]
      BY <1>2, <2>1 DEF Decide
    <2> QED
      BY <1>1, <2>2
  <1>3. CASE Due(Tick, r) /\ MissedMultiple(Tick, r) /\ caller[Tick].spec.policy = "skip"
    <2>1. PICK s : s = [r EXCEPT !.wait = NextDue(Tick)]
      OBVIOUS
    <2>2. s.wait = Interval - caller[Tick].age
      BY <2>1 DEF Rows, NextDue
    <2>3. d = [pc |-> "save", row |-> s]
      BY <1>3, <2>1 DEF Decide
    <2>4. Paced(s.wait)
      BY <1>1, <2>2, Durations DEF Paced
    <2> QED
      BY <2>3, <2>4
  <1>4. CASE Due(Tick, r) /\ ~(MissedMultiple(Tick, r) /\ caller[Tick].spec.policy = "skip")
    <2>1. d = [pc |-> "lock", row |-> None]
      BY <1>4 DEF Decide
    <2>2. r.wait <= -caller[Tick].age
      BY <1>4 DEF Due
    <2>3. since - caller[Tick].age >= Interval - MaxDelay
      BY <1>1, <2>2, Durations DEF Paced
    <2> QED
      BY <2>1, <2>3
  <1> QED
    BY <1>2, <1>3, <1>4

LEMMA LoopDecides ==
  ASSUME ScheduleInv, PaceInv, TickDecide
  PROVE  PaceInv'
  <1>1. \E x : Apart(Tick, x)
    BY TickDecideApart
  <1>2. \A d \in Callers : d # Tick => caller'[d] = caller[d]
    BY <1>1, Members, OneCaller
  <1>3. caller[Tick].pc = "read" /\ row' = row /\ since' = since
    BY DEF TickDecide, At, history
  <1>4. PICK r : r = [caller[Tick].row EXCEPT !.active = None]
    OBVIOUS
  <1>5. r \in Rows /\ r.wait = caller[Tick].row.wait
    BY <1>3, <1>4, LoopState DEF Rows
  <1>6. PICK d : /\ d = Decide(Tick, r)
                 /\ caller' = [caller EXCEPT ![Tick].pc = d.pc, ![Tick].row = d.row,
                                             ![Tick].spec = None]
    BY <1>4 DEF TickDecide
  <1>7. /\ caller'[Tick].pc = d.pc /\ caller'[Tick].row = d.row
        /\ caller'[Tick].age = caller[Tick].age
    BY <1>6, LoopState DEF Locals
  <1>8. \/ d.pc = "save" /\ Paced(d.row.wait)
        \/ d.pc = "lock" /\ since - caller[Tick].age >= Interval - MaxDelay
    BY <1>3, <1>5, <1>6, DecidesPaced
  <1>9. LoopPaced(caller[Tick])' /\ caller'[Tick].pc # "saved"
    BY <1>3, <1>7, <1>8 DEF LoopPaced, Committed, Launched, Paced
  <1>10. RowPaced'
    BY <1>3, LoopState, RowLeft DEF Launched
  <1> QED
    BY <1>2, <1>3, <1>7, <1>9, <1>10, LoopState, LoopSteps

LEMMA LoopRuns ==
  ASSUME ScheduleInv, PaceInv, Save(Tick) \/ RunSteps(Tick) \/ SubmitFails(Tick)
  PROVE  PaceInv'
  <1>1. \A d \in Callers : d # Tick => caller'[d] = caller[d]
    BY Members, RunKind, OneCaller
  <1>2. CASE Save(Tick)
    <2>1. caller[Tick].pc = "save" /\ row' = caller[Tick].row /\ since' = since
      BY <1>2 DEF Save, At
    <2>2. Paced(caller[Tick].row.wait) /\ row' # None
      BY <2>1, LoopState, RowFields DEF LoopPaced
    <2>3. RowPaced'
      BY <2>1, <2>2 DEF RowPaced, Paced
    <2>4. caller'[Tick] = Idle
      BY <1>2, LoopState, RunLocals
    <2>5. LoopPaced(caller[Tick])' /\ caller'[Tick].pc = "idle" /\ caller'[Tick].age \in 0..MaxDelay
      BY <2>4, Durations DEF Idle, LoopPaced, Committed, Launched
    <2> QED
      BY <1>1, <2>1, <2>3, <2>5, LoopState, LoopSteps
  <1>3. CASE RunReject(Tick)
    <2>1. row' = row /\ since' = since
      BY <1>3 DEF RunReject, store, history
    <2>2. caller'[Tick] = Idle /\ caller[Tick].pc = "locked"
      BY <1>3, LoopState, RunLocals
    <2>3. LoopPaced(caller[Tick])' /\ caller'[Tick].pc = "idle" /\ caller'[Tick].age \in 0..MaxDelay
      BY <2>2, Durations DEF Idle, LoopPaced, Committed, Launched
    <2>4. RowPaced'
      BY <2>1, <2>2, LoopState, RowLeft DEF Launched
    <2> QED
      BY <1>1, <2>1, <2>3, <2>4, LoopState, LoopSteps
  <1>4. CASE RunRead(Tick) \/ RunProceed(Tick)
    <2>1. row' = row /\ since' = since
      BY <1>4 DEF RunRead, RunProceed, store, history
    <2>2. /\ caller[Tick].pc \in {"lock", "locked"} /\ caller'[Tick].pc \in {"locked", "create"}
          /\ caller'[Tick].age = caller[Tick].age
      BY <1>4, LoopState, RunLocals
    <2>3. LoopPaced(caller[Tick])'
      BY <2>1, <2>2, LoopState DEF LoopPaced, Committed, Launched
    <2>4. RowPaced'
      BY <2>1, <2>2, LoopState, RowLeft DEF Launched
    <2> QED
      BY <1>1, <2>1, <2>2, <2>3, <2>4, LoopState, LoopSteps
  <1>5. CASE Create(Tick)
    <2>1. row' = row /\ since' = caller[Tick].age
      BY <1>5 DEF Create
    <2>2. caller'[Tick].pc = "submit" /\ caller'[Tick].age = caller[Tick].age
      BY <1>5, LoopState, RunLocals
    <2>3. LoopPaced(caller[Tick])' /\ RowPaced'
      BY <2>1, <2>2 DEF LoopPaced, RowPaced, Committed, Launched
    <2>4. since' \in 0..Top
      BY <2>1, LoopState, Durations
    <2> QED
      BY <1>1, <2>2, <2>3, <2>4, LoopState, LoopSteps
  <1>6. CASE Submit(Tick) \/ SubmitFails(Tick) \/ Append(Tick)
    <2>1. row' = row /\ since' = since
      BY <1>6 DEF Submit, SubmitFails, Append, history
    <2>2. /\ caller[Tick].pc \in {"submit", "append"} /\ caller'[Tick].pc \in {"append", "finish"}
          /\ caller'[Tick].age = caller[Tick].age
      BY <1>6, LoopState, RunLocals
    <2>3. LoopPaced(caller[Tick])'
      BY <2>1, <2>2, LoopState DEF LoopPaced, Committed, Launched
    <2>4. RowPaced'
      BY <2>1, <2>2, LoopState, RowLeft DEF Launched
    <2> QED
      BY <1>1, <2>1, <2>2, <2>3, <2>4, LoopState, LoopSteps
  <1>7. CASE RunSave(Tick)
    <2>1. caller[Tick].pc = "finish" /\ row' = RunState(Tick) /\ since' = since
      BY <1>7 DEF RunSave, At, history
    <2>2. row'.wait = Interval - caller[Tick].age /\ row' # None
      BY <2>1, LoopState, RunStatePaced
    <2>3. since \in {Top, caller[Tick].age}
      BY <2>1, LoopState DEF LoopPaced, Launched
    <2>4. Paced(row.wait)'
      BY <2>1, <2>2, <2>3, LoopState, Durations DEF Paced
    <2>5. caller'[Tick] = Idle
      BY <1>7, LoopState, RunLocals
    <2>6. LoopPaced(caller[Tick])' /\ caller'[Tick].pc = "idle" /\ caller'[Tick].age \in 0..MaxDelay
      BY <2>5, Durations DEF Idle, LoopPaced, Committed, Launched
    <2>7. RowPaced'
      BY <2>2, <2>4 DEF RowPaced
    <2> QED
      BY <1>1, <2>1, <2>6, <2>7, LoopState, LoopSteps
  <1> QED
    BY <1>2, <1>3, <1>4, <1>5, <1>6, <1>7 DEF RunSteps

-----------------------------------------------------------------------------
(* Faults and time *)

LEMMA FaultsPaced ==
  ASSUME ScheduleInv, PaceInv, Crash \/ \E c \in Callers : StoreFails(c)
  PROVE  PaceInv'
  <1>1. CASE Crash
    <2>1. ScheduleInv' /\ since' = Top /\ \A c \in Callers : caller'[c] = Idle
      BY <1>1, CrashKeeps DEF Crash
    <2> QED
      BY <2>1, IdlePunctual, FarPaced
  <1>2. ASSUME NEW c \in Callers, StoreFails(c)
        PROVE  PaceInv'
    <2>1. ScheduleInv' /\ since' = Top /\ \A d \in Callers : d # c => caller'[d] = caller[d]
      BY <1>2, OneCaller DEF StoreFails
    <2>2. caller'[c] = Idle
      BY <1>2 DEF StoreFails, Done, ScheduleInv, Typed
    <2>3. \A d \in Callers : Punctual(d, caller'[d])
      BY <2>1, <2>2, IdlePunctual DEF PaceInv
    <2> QED
      BY <2>1, <2>3, FarPaced
  <1> QED
    BY <1>1, <1>2

LEMMA OlderWait ==
  ASSUME NEW r \in Rows \cup Specs
  PROVE  Older(r).wait \in Int /\ Older(r).wait >= r.wait - 1 /\ r.wait \in Int
  <1>1. r # None /\ r.wait \in Int
    BY Members DEF Rows, Specs
  <1>2. PICK w \in Int : w = Max({r.wait - 1, Floor}) /\ w >= r.wait - 1
    BY <1>1, Later
  <1>3. Older(r) = [r EXCEPT !.wait = w]
    BY <1>1, <1>2 DEF Older
  <1>4. Older(r).wait = w
    BY <1>3 DEF Rows, Specs
  <1> QED
    BY <1>1, <1>2, <1>4

LEMMA SinceGrows ==
  ASSUME NEW s \in 0..Top
  PROVE  Min({s + 1, Top}) = IF s = Top THEN Top ELSE s + 1
  <1>1. \E x \in {s + 1, Top} : \A y \in {s + 1, Top} : x <= y
    BY Durations
  <1>2. /\ Min({s + 1, Top}) \in {s + 1, Top}
        /\ \A y \in {s + 1, Top} : Min({s + 1, Top}) <= y
    BY <1>1 DEF Min
  <1> QED
    BY <1>2, Durations

LEMMA TimePaced ==
  ASSUME ScheduleInv, PaceInv, Pass
  PROVE  PaceInv'
  <1>1. /\ Typed /\ since \in 0..Top /\ row' = Older(row)
        /\ since' = IF since = Top THEN Top ELSE since + 1
    BY SinceGrows DEF ScheduleInv, PaceInv, Pass
  <1>2. since' \in 0..Top
    BY <1>1, Durations
  <1>3. \A w, v \in Int : v >= w - 1 /\ Paced(w) => (since' = Top \/ v + since' >= Interval - MaxDelay)
    BY <1>1, Durations DEF Paced
  <1>4. ASSUME NEW c \in Callers, caller[c].pc # "idle"
        PROVE  /\ caller[c] \in Locals /\ caller[c].age \in 0..MaxDelay
               /\ caller'[c].pc = caller[c].pc
               /\ caller'[c].age = caller[c].age + 1 /\ caller'[c].age \in 0..MaxDelay
               /\ caller'[c].spec = Older(caller[c].spec) /\ caller'[c].row = Older(caller[c].row)
    <2>1. caller[c] \in Locals /\ caller[c].age \in 0..MaxDelay
      BY <1>1 DEF Typed, PaceInv, Punctual
    <2>2. caller[c].age < MaxDelay
      BY <1>4 DEF Pass, At
    <2>3. caller'[c] = [caller[c] EXCEPT !.age = caller[c].age + 1, !.spec = Older(caller[c].spec),
                                         !.row = Older(caller[c].row)]
      BY <1>4 DEF Pass, At
    <2>4. /\ caller'[c].pc = caller[c].pc /\ caller'[c].age = caller[c].age + 1
          /\ caller'[c].spec = Older(caller[c].spec) /\ caller'[c].row = Older(caller[c].row)
      BY <2>1, <2>3 DEF Locals
    <2> QED
      BY <2>1, <2>2, <2>4, Durations
  <1>5. ASSUME NEW c \in Callers, caller[c].pc = "idle"
        PROVE  caller'[c] = Idle
    BY <1>5 DEF Pass, At
  <1>6. ASSUME NEW c \in Callers
        PROVE  Punctual(c, caller'[c])
    <2>1. CASE caller[c].pc = "idle"
      BY <1>5, <2>1, IdlePunctual
    <2>2. CASE caller[c].pc # "idle"
      <3>1. Punctual(c, caller[c]) /\ Loaded(caller[c])
        BY DEF PaceInv, ScheduleInv, Handler
      <3>2. caller[c].pc = "saved" => /\ caller'[c].spec.wait >= caller[c].spec.wait - 1
                                     /\ caller'[c].spec.wait \in Int /\ caller[c].spec.wait \in Int
        BY <1>4, <2>2, <3>1, LocalFields, OlderWait DEF Loaded, MaybeSpec
      <3>3. caller[c].pc = "save" => /\ caller'[c].row.wait >= caller[c].row.wait - 1
                                     /\ caller'[c].row.wait \in Int /\ caller[c].row.wait \in Int
        BY <1>4, <2>2, <3>1, LocalFields, OlderWait DEF Loaded, MaybeRow
      <3> QED
        BY <1>4, <2>2, <3>1, <3>2, <3>3, Durations DEF Punctual
    <2> QED
      BY <2>1, <2>2
  <1>7. LoopPaced(caller[Tick])'
    <2>1. CASE caller[Tick].pc = "idle"
      <3>1. caller'[Tick].pc = "idle"
        BY <1>5, <2>1, LoopState, IdleLocal
      <3> QED
        BY <3>1 DEF LoopPaced, Committed, Launched
    <2>2. CASE caller[Tick].pc # "idle"
      <3>1. /\ caller'[Tick].pc = caller[Tick].pc /\ caller'[Tick].age = caller[Tick].age + 1
            /\ caller'[Tick].age \in 0..MaxDelay /\ caller'[Tick].row = Older(caller[Tick].row)
        BY <1>4, <2>2, LoopState
      <3>2. caller[Tick].pc \in {"read", "save"} => Paced(caller[Tick].row.wait)'
        BY <1>3, <3>1, LoopState, OlderWait DEF LoopPaced, Paced
      <3>3. caller[Tick].pc \in Committed => since' - caller'[Tick].age >= Interval - MaxDelay
        BY <1>1, <3>1, LoopState, Durations DEF LoopPaced
      <3>4. caller[Tick].pc \in Launched => since' \in {Top, caller'[Tick].age}
        BY <1>1, <3>1, LoopState, Durations DEF LoopPaced
      <3> QED
        BY <3>1, <3>2, <3>3, <3>4 DEF LoopPaced
    <2> QED
      BY <2>1, <2>2
  <1>8. RowPaced'
    <2>1. CASE caller[Tick].pc \in Launched
      BY <1>4, <2>1, LoopState DEF RowPaced, Launched
    <2>2. CASE caller[Tick].pc \notin Launched /\ row = None
      BY <1>1, <2>2, LoopState DEF RowPaced, Older
    <2>3. CASE caller[Tick].pc \notin Launched /\ row # None
      <3>1. row \in Rows /\ Paced(row.wait)
        BY <1>1, <2>3, LoopState DEF Typed, MaybeRow, RowPaced
      <3>2. row' # None
        BY <1>1, <2>3, OlderRow DEF Typed
      <3>3. Paced(row.wait)'
        BY <1>1, <1>3, <3>1, OlderWait DEF Paced
      <3> QED
        BY <3>2, <3>3 DEF RowPaced
    <2> QED
      BY <2>1, <2>2, <2>3
  <1>9. \A c \in Callers : Punctual(c, caller[c])'
    BY <1>6 DEF Punctual
  <1> QED
    BY <1>2, <1>7, <1>8, <1>9 DEF PaceInv

LEMMA PaceInit == Init => PaceInv
  <1> SUFFICES ASSUME Init
               PROVE  PaceInv
    OBVIOUS
  <1>1. \A c \in Callers : caller[c] = Idle
    BY DEF Init
  <1>2. LoopPaced(caller[Tick])
    BY <1>1, IdleLocal, Members DEF LoopPaced, Committed, Launched
  <1>3. RowPaced
    BY DEF RowPaced, Init
  <1> QED
    BY <1>1, <1>2, <1>3, IdlePunctual, Durations DEF PaceInv, Init

LEMMA PaceStep == ScheduleInv /\ PaceInv /\ [Next]_vars => PaceInv'
  <1> SUFFICES ASSUME ScheduleInv, PaceInv, [Next]_vars
               PROVE  PaceInv'
    OBVIOUS
  <1>1. CASE TickSteps
    BY <1>1, LoopLoads, LoopReads, LoopSeesRun, LoopDecides DEF TickSteps
  <1>2. ASSUME NEW c \in Callers, Save(c) \/ RunSteps(c) \/ SubmitFails(c) \/ StoreFails(c)
        PROVE  PaceInv'
    <2>1. CASE StoreFails(c)
      BY <2>1, FaultsPaced
    <2>2. CASE ~StoreFails(c) /\ c = Tick
      BY <1>2, <2>2, LoopRuns
    <2>3. CASE ~StoreFails(c) /\ c # Tick
      BY <1>2, <2>3, ClientRuns DEF Callers
    <2> QED
      BY <2>1, <2>2, <2>3
  <1>3. CASE (\E t \in Slots : TaskStarts(t) \/ TaskEnds(t)) \/ UNCHANGED vars
    <2>1. UNCHANGED <<row, caller, since>>
      BY <1>3 DEF TaskStarts, TaskEnds, vars, store, history
    <2> QED
      BY <2>1 DEF PaceInv, Punctual, LoopPaced, RowPaced, Paced
  <1> QED
    BY <1>1, <1>2, <1>3, ClientEdits, FaultsPaced, TimePaced DEF Next

\* Two runs the loop starts are an interval apart, less what a handler with an older `now' was
\* late in saving, whatever was missed in between and however run_now and edits interleave
\* (tick_at, next_due_at).
THEOREM CatchesUpOnce == Behaviour => CatchUpOnce
  <1>1. ScheduleInv /\ PaceInv /\ [Next]_vars =>
          [At(Tick, "create") /\ caller'[Tick].pc = "submit"
             => since - caller[Tick].age >= Interval - MaxDelay]_vars
    BY DEF PaceInv, LoopPaced, Committed, At
  <1> QED
    BY <1>1, PaceInit, PaceStep, Invariant, PTL DEF Behaviour, CatchUpOnce

-----------------------------------------------------------------------------
(* Bounds of the due times, and tasks that exist *)

Within(x) == x = None \/ x.wait \in Floor..Interval
Created(t) == t = None \/ task[t] # "none"
Fine(x) == Within(x.spec) /\ Within(x.row) /\ Created(Active(x.row)) /\ Created(x.task)

InBounds ==
  /\ Within(file) /\ Within(row) /\ Created(Active(row))
  /\ \A c \in Callers : Fine(caller[c])

\* A task that was created stays in the store.
TasksStay == \A t \in Slots : task[t] # "none" => task'[t] # "none"

LEMMA Bounds ==
  /\ Floor \in Int /\ Interval \in Int /\ Interval \in Floor..Interval
  /\ \A a \in 0..MaxDelay : Interval - a \in Floor..Interval
  BY ScheduleAssumption DEF Floor

LEMMA IdleFine == Fine(Idle) /\ Fine(Idle)'
  BY DEF Idle, Fine, Within, Created, Active

LEMMA ActiveTask ==
  ASSUME NEW r \in MaybeRow
  PROVE  Active(r) \in MaybeTask
  BY RowFields, Members DEF Active, MaybeRow

LEMMA StillCreated ==
  ASSUME TasksStay, NEW t \in MaybeTask, Created(t)
  PROVE  Created(t)'
  BY DEF TasksStay, Created, MaybeTask

LEMMA StillFine ==
  ASSUME TasksStay, NEW x \in Locals, Fine(x)
  PROVE  Within(x.spec) /\ Within(x.row) /\ Created(Active(x.row))' /\ Created(x.task)'
  BY LocalFields, ActiveTask, StillCreated DEF Fine

\* A step of one caller, which leaves the file and the row within bounds.
LEMMA OneFine ==
  ASSUME ScheduleInv, InBounds, TasksStay, NEW c \in Callers,
         \A d \in Callers : d # c => caller'[d] = caller[d],
         Fine(caller[c])', Within(file)',
         row' = row \/ (Within(row)' /\ Created(Active(row))')
  PROVE  InBounds'
  <1>1. ASSUME NEW d \in Callers
        PROVE  Fine(caller[d])'
    <2>1. CASE d = c
      BY <2>1
    <2>2. CASE d # c
      <3>1. caller[d] \in Locals /\ Fine(caller[d]) /\ caller'[d] = caller[d]
        BY <2>2 DEF ScheduleInv, Typed, InBounds
      <3>2. /\ Within(caller[d].spec) /\ Within(caller[d].row)
            /\ Created(Active(caller[d].row))' /\ Created(caller[d].task)'
        BY <3>1, StillFine DEF Created, Active
      <3> QED
        BY <3>1, <3>2 DEF Fine, Within, Created, Active
    <2> QED
      BY <2>1, <2>2
  <1>2. Within(row)' /\ Created(Active(row))'
    <2>1. CASE row' = row
      <3>1. Active(row) \in MaybeTask /\ Created(Active(row)) /\ Within(row)
        BY ActiveTask DEF ScheduleInv, Typed, InBounds
      <3>2. Created(Active(row))'
        BY <2>1, <3>1 DEF Created, TasksStay, Active, MaybeTask
      <3> QED
        BY <2>1, <3>1, <3>2 DEF Within
    <2> QED
      BY <2>1
  <1> QED
    BY <1>1, <1>2 DEF InBounds

LEMMA Of ==
  ASSUME ScheduleInv, InBounds, NEW c \in Callers
  PROVE  /\ caller \in [Callers -> Locals] /\ caller[c] \in Locals /\ Fine(caller[c])
         /\ caller[c].row \in MaybeRow /\ caller[c].task \in MaybeTask /\ Loaded(caller[c])
         /\ Active(caller[c].row) \in MaybeTask /\ row \in MaybeRow /\ Active(row) \in MaybeTask
  BY LocalFields, ActiveTask DEF ScheduleInv, Typed, Handler, InBounds

\* The steps of the loop outside of the lock.
LEMMA TickFine ==
  ASSUME ScheduleInv, PaceInv, InBounds, TickSteps
  PROVE  InBounds'
  <1>1. Tick \in Callers
    BY Members
  <1>2. \A d \in Callers : d # Tick => caller'[d] = caller[d]
    BY <1>1, OneCaller, TickLoadApart, TickReadApart, TickActiveApart, TickDecideApart DEF TickSteps
  <1>3. task' = task /\ file' = file /\ row' = row /\ TasksStay
    BY DEF TickSteps, TickLoad, TickRead, TickActive, TickDecide, store, TasksStay
  <1>4. Within(file)'
    BY <1>3 DEF InBounds, Within
  <1>5. Fine(caller[Tick])'
    <2>0. /\ caller \in [Callers -> Locals] /\ caller[Tick] \in Locals /\ Fine(caller[Tick])
          /\ Loaded(caller[Tick]) /\ caller[Tick].row \in MaybeRow
      BY <1>1, Of
    <2>1. CASE TickLoad
      <3>1. CASE caller' = caller
        BY <1>3, <2>0, <3>1 DEF Fine, Within, Created, Active
      <3>2. CASE caller' = [caller EXCEPT ![Tick] = [Idle EXCEPT !.pc = "loaded", !.spec = file]]
        <4>1. caller'[Tick] = [Idle EXCEPT !.pc = "loaded", !.spec = file]
          BY <1>1, <2>0, <3>2
        <4>2. caller'[Tick].spec = file /\ caller'[Tick].row = None /\ caller'[Tick].task = None
          BY <4>1 DEF Idle
        <4> QED
          BY <4>2 DEF Fine, Within, Created, Active, InBounds
      <3> QED
        BY <2>1, <3>1, <3>2 DEF TickLoad
    <2>2. CASE TickRead
      <3>1. PICK r : /\ r = IF row # None THEN row
                             ELSE [wait |-> caller[Tick].spec.wait, active |-> None]
                     /\ caller' = [caller EXCEPT ![Tick].pc = "read", ![Tick].row = r]
        BY <2>2 DEF TickRead
      <3>2. /\ caller'[Tick].row = r /\ caller'[Tick].spec = caller[Tick].spec
            /\ caller'[Tick].task = caller[Tick].task
        BY <1>1, <2>0, <3>1 DEF Locals
      <3>3. caller[Tick].spec # None
        BY <2>0, <2>2 DEF TickRead, At, Loaded
      <3>4. Within(r) /\ (Active(r) = Active(row) \/ Active(r) = None)
        BY <2>0, <3>1, <3>3 DEF Fine, InBounds, Within, Active
      <3> QED
        BY <1>3, <2>0, <3>2, <3>4 DEF Fine, InBounds, Within, Created, Active
    <2>3. CASE TickActive
      <3>1. caller' = [caller EXCEPT ![Tick].pc = "save", ![Tick].spec = None]
        BY <2>3 DEF TickActive
      <3>2. /\ caller'[Tick].row = caller[Tick].row /\ caller'[Tick].spec = None
            /\ caller'[Tick].task = caller[Tick].task
        BY <1>1, <2>0, <3>1 DEF Locals
      <3> QED
        BY <1>3, <2>0, <3>2 DEF Fine, Within, Created, Active
    <2>4. CASE TickDecide
      <3>1. PICK r : r = [caller[Tick].row EXCEPT !.active = None]
        OBVIOUS
      <3>2. PICK d : /\ d = Decide(Tick, r)
                     /\ caller' = [caller EXCEPT ![Tick].pc = d.pc, ![Tick].row = d.row,
                                                 ![Tick].spec = None]
        BY <2>4, <3>1 DEF TickDecide
      <3>3. /\ caller'[Tick].row = d.row /\ caller'[Tick].spec = None
            /\ caller'[Tick].task = caller[Tick].task
        BY <1>1, <2>0, <3>2 DEF Locals
      <3>4. caller[Tick].row \in Rows /\ caller[Tick].row # None
        BY <2>0, <2>4 DEF TickDecide, At, Loaded, MaybeRow
      <3>5. r \in Rows /\ r.active = None /\ r.wait \in Floor..Interval
        BY <2>0, <3>1, <3>4 DEF Rows, Fine, Within
      <3>6. NextDue(Tick) \in Floor..Interval
        BY LoopState, Bounds DEF NextDue
      <3>7. PICK q : q = [r EXCEPT !.wait = NextDue(Tick)]
        OBVIOUS
      <3>8. q.active = None /\ q.wait \in Floor..Interval
        BY <3>5, <3>6, <3>7 DEF Rows
      <3>9. Due(Tick, r) \/ ~MissedMultiple(Tick, r)
        BY <3>5, LoopState, Durations, Bounds DEF Due, MissedMultiple
      <3>10. d.row \in {r, q, None}
        BY <3>2, <3>7, <3>9 DEF Decide
      <3>11. Within(d.row) /\ Active(d.row) = None
        BY <3>5, <3>8, <3>10 DEF Within, Active
      <3> QED
        BY <1>3, <2>0, <3>3, <3>11 DEF Fine, Within, Created, Active
    <2> QED
      BY <2>1, <2>2, <2>3, <2>4 DEF TickSteps
  <1> QED
    BY <1>1, <1>2, <1>3, <1>4, <1>5, OneFine

\* The steps under the lock, and the save outside of it.
LEMMA RunFine ==
  ASSUME ScheduleInv, PaceInv, InBounds, NEW c \in Callers,
         Save(c) \/ RunSteps(c) \/ SubmitFails(c)
  PROVE  InBounds'
  <1>1. \A d \in Callers : d # c => caller'[d] = caller[d]
    BY RunKind, OneCaller
  <1>2. file' = file /\ Within(file)'
    BY DEF Save, RunSteps, RunRead, RunReject, RunProceed, Create, Submit, SubmitFails, Append, RunSave,
           store, InBounds, Within
  <1>0. /\ caller \in [Callers -> Locals] /\ caller[c] \in Locals /\ Fine(caller[c])
        /\ Loaded(caller[c]) /\ caller[c].row \in MaybeRow /\ caller[c].task \in MaybeTask
        /\ task \in [Slots -> TaskStates]
    BY Of DEF ScheduleInv, Typed
  <1>3. CASE Save(c)
    <2>1. task' = task /\ TasksStay /\ row' = caller[c].row
      BY <1>3 DEF Save, TasksStay
    <2>2. caller'[c] = Idle
      BY <1>3, RunLocals
    <2>3. Within(row)' /\ Created(Active(row))'
      BY <1>0, <2>1 DEF Fine, Within, Created, Active
    <2>4. Fine(caller[c])'
      BY <2>2 DEF Idle, Fine, Within, Created, Active
    <2> QED
      BY <1>1, <1>2, <2>1, <2>3, <2>4, OneFine
  <1>4. CASE RunRead(c)
    <2>1. task' = task /\ TasksStay /\ row' = row
      BY <1>4 DEF RunRead, TasksStay, store
    <2>2. caller' = [caller EXCEPT ![c].pc = "locked", ![c].row = row]
      BY <1>4 DEF RunRead
    <2>3. /\ caller'[c].spec = caller[c].spec /\ caller'[c].row = row
          /\ caller'[c].task = caller[c].task
      BY <1>0, <2>2 DEF Locals
    <2>4. Fine(caller[c])'
      BY <1>0, <2>1, <2>3 DEF Fine, InBounds, Within, Created, Active
    <2> QED
      BY <1>1, <1>2, <2>1, <2>4, OneFine
  <1>5. CASE RunReject(c)
    <2>1. task' = task /\ TasksStay /\ row' = row
      BY <1>5 DEF RunReject, TasksStay, store
    <2>2. caller'[c] = Idle
      BY <1>5, RunLocals
    <2>3. Fine(caller[c])'
      BY <2>2 DEF Idle, Fine, Within, Created, Active
    <2> QED
      BY <1>1, <1>2, <2>1, <2>3, OneFine
  <1>6. CASE RunProceed(c)
    <2>1. task' = task /\ TasksStay /\ row' = row
      BY <1>6 DEF RunProceed, TasksStay
    <2>2. caller' = [caller EXCEPT ![c].pc = "create", ![c].row = None]
      BY <1>6 DEF RunProceed
    <2>3. /\ caller'[c].spec = caller[c].spec /\ caller'[c].row = None
          /\ caller'[c].task = caller[c].task
      BY <1>0, <2>2 DEF Locals
    <2>4. Fine(caller[c])'
      BY <1>0, <2>1, <2>3 DEF Fine, Within, Created, Active
    <2> QED
      BY <1>1, <1>2, <2>1, <2>4, OneFine
  <1>7. CASE Create(c)
    <2>1. PICK n \in Slots : /\ task' = [task EXCEPT ![n] = "idle"]
                             /\ caller' = [caller EXCEPT ![c].pc = "submit", ![c].task = n]
      BY <1>7 DEF Create
    <2>2. TasksStay /\ task'[n] # "none" /\ row' = row
      BY <1>0, <1>7, <2>1 DEF Create, TasksStay
    <2>3. caller'[c].spec = caller[c].spec /\ caller'[c].row = caller[c].row /\ caller'[c].task = n
      BY <1>0, <2>1 DEF Locals
    <2>4. Fine(caller[c])'
      BY <1>0, <2>2, <2>3, StillFine DEF Fine, Within, Created, Active
    <2> QED
      BY <1>1, <1>2, <2>2, <2>4, OneFine
  <1>8. CASE Submit(c) \/ SubmitFails(c)
    <2>1. PICK state \in {"idle", "pending"} : task' = [task EXCEPT ![caller[c].task] = state]
      BY <1>8 DEF Submit, SubmitFails
    <2>2. TasksStay /\ row' = row
      BY <1>0, <1>8, <2>1 DEF Submit, SubmitFails, TasksStay
    <2>3. /\ caller'[c].spec = caller[c].spec /\ caller'[c].row = caller[c].row
          /\ caller'[c].task = caller[c].task
      BY <1>0, <1>8 DEF Submit, SubmitFails, Goto, Locals
    <2>4. Fine(caller[c])'
      BY <1>0, <2>2, <2>3, StillFine DEF Fine, Within, Created, Active
    <2> QED
      BY <1>1, <1>2, <2>2, <2>4, OneFine
  <1>9. CASE Append(c)
    <2>1. task' = task /\ TasksStay /\ row' = row
      BY <1>9 DEF Append, TasksStay
    <2>2. /\ caller'[c].spec = caller[c].spec /\ caller'[c].row = caller[c].row
          /\ caller'[c].task = caller[c].task
      BY <1>0, <1>9 DEF Append, Goto, Locals
    <2>3. Fine(caller[c])'
      BY <1>0, <2>1, <2>2 DEF Fine, Within, Created, Active
    <2> QED
      BY <1>1, <1>2, <2>1, <2>3, OneFine
  <1>10. CASE RunSave(c)
    <2>1. task' = task /\ TasksStay /\ row' = RunState(c)
      BY <1>10 DEF RunSave, TasksStay
    <2>2. caller'[c] = Idle
      BY <1>10, RunLocals
    <2>3. caller[c].age \in 0..MaxDelay
      BY DEF PaceInv, Punctual
    <2>4. row'.wait \in Floor..Interval
      BY <2>1, <2>3, RunStatePaced, Bounds
    <2>5. row' # None /\ row'.active \in {caller[c].task, None}
      BY <2>1, RunStatePaced DEF RunState
    <2>6. Within(row)' /\ Created(Active(row))'
      BY <1>0, <2>1, <2>4, <2>5 DEF Fine, Within, Created, Active
    <2>7. Fine(caller[c])'
      BY <2>2 DEF Idle, Fine, Within, Created, Active
    <2> QED
      BY <1>1, <1>2, <2>1, <2>6, <2>7, OneFine
  <1> QED
    BY <1>3, <1>4, <1>5, <1>6, <1>7, <1>8, <1>9, <1>10 DEF RunSteps

\* The clients' edits.
LEMMA EditFine ==
  ASSUME ScheduleInv, InBounds, NEW c \in Clients, EditSteps(c) \/ Requests(c)
  PROVE  InBounds'
  <1>1. c \in Callers
    BY Members
  <1>2. \A d \in Callers : d # c => caller'[d] = caller[d]
    BY <1>1, EditStepApart, RunNowApart, EditApart, OneCaller DEF Requests
  <1>0. /\ caller \in [Callers -> Locals] /\ caller[c] \in Locals /\ Fine(caller[c])
        /\ Loaded(caller[c]) /\ row \in MaybeRow
    BY <1>1, Of
  <1>3. task' = task /\ TasksStay
    BY DEF EditSteps, Requests, SaveRead, WriteFile, DeleteFile, DeleteRow, RunNow, SaveFile,
           SetEnabled, Delete, Edit, store, TasksStay
  <1>4. row' = row \/ (Within(row)' /\ Created(Active(row))')
    BY DEF EditSteps, Requests, SaveRead, WriteFile, DeleteFile, DeleteRow, RunNow, SaveFile,
           SetEnabled, Delete, Edit, store, Within, Created, Active
  <1>5. Within(file)'
    <2>1. CASE WriteFile(c)
      BY <1>0, <2>1 DEF WriteFile, Fine, Within
    <2>2. CASE SaveFile(c)
      <3>1. file'.wait = Interval
        BY <2>2 DEF SaveFile, Spec
      <3> QED
        BY <3>1, Bounds DEF Within
    <2>3. CASE DeleteFile(c)
      BY <2>3 DEF DeleteFile, Within
    <2>4. CASE SaveRead(c) \/ DeleteRow(c) \/ RunNow(c) \/ SetEnabled(c) \/ Delete(c)
      <3>1. file' = file
        BY <2>4 DEF SaveRead, DeleteRow, RunNow, SetEnabled, Delete, store
      <3> QED
        BY <3>1 DEF InBounds, Within
    <2> QED
      BY <2>1, <2>2, <2>3, <2>4 DEF EditSteps, Requests
  <1>6. Fine(caller[c])'
    <2>1. CASE SaveRead(c)
      <3>1. CASE row = None
        <4>1. caller'[c] = Idle
          BY <1>0, <1>1, <2>1, <3>1 DEF SaveRead, Done
        <4> QED
          BY <4>1 DEF Idle, Fine, Within, Created, Active
      <3>2. CASE row # None
        <4>1. row \in Rows /\ caller[c].spec # None
          BY <1>0, <2>1, <3>2 DEF MaybeRow, SaveRead, At, Loaded
        <4>2. PICK r : r = [row EXCEPT !.wait = caller[c].spec.wait]
          OBVIOUS
        <4>3. r.wait = caller[c].spec.wait /\ r.active = row.active
          BY <4>1, <4>2 DEF Rows
        <4>4. caller' = [caller EXCEPT ![c].pc = "save", ![c].spec = None, ![c].row = r]
          BY <2>1, <3>2, <4>2 DEF SaveRead
        <4>5. caller'[c].spec = None /\ caller'[c].row = r /\ caller'[c].task = caller[c].task
          BY <1>0, <1>1, <4>4 DEF Locals
        <4>6. Within(r)
          BY <1>0, <4>1, <4>3 DEF Fine, Within
        <4>7. Created(Active(r))
          BY <3>2, <4>3 DEF InBounds, Created, Active
        <4> QED
          BY <1>0, <1>3, <4>5, <4>6, <4>7 DEF Fine, Within, Created, Active
      <3> QED
        BY <3>1, <3>2
    <2>2. CASE WriteFile(c) \/ DeleteRow(c)
      <3>1. caller'[c] = Idle
        BY <1>0, <1>1, <2>2 DEF WriteFile, DeleteRow, Done
      <3> QED
        BY <3>1 DEF Idle, Fine, Within, Created, Active
    <2>3. CASE DeleteFile(c)
      <3>1. /\ caller'[c].spec = caller[c].spec /\ caller'[c].row = caller[c].row
            /\ caller'[c].task = caller[c].task
        BY <1>0, <1>1, <2>3 DEF DeleteFile, Goto, Locals
      <3> QED
        BY <1>0, <1>3, <3>1 DEF Fine, Within, Created, Active
    <2>4. CASE Requests(c)
      <3>1. \E pc : \/ caller' = [caller EXCEPT ![c] = [Idle EXCEPT !.pc = pc]]
                    \/ \E s : /\ s.wait = Interval
                             /\ caller' = [caller EXCEPT ![c] = [Idle EXCEPT !.pc = pc, !.spec = s]]
        <4>1. CASE RunNow(c) \/ Delete(c)
          BY <4>1 DEF RunNow, Delete
        <4>2. CASE SaveFile(c)
          <5>1. file'.wait = Interval
            BY <4>2 DEF SaveFile, Spec
          <5> QED
            BY <4>2, <5>1 DEF SaveFile
        <4>3. CASE SetEnabled(c)
          <5>1. PICK e \in BOOLEAN : caller' = [caller EXCEPT ![c] =
                   [Idle EXCEPT !.pc = "write", !.spec = Spec(e, file.policy)]]
            BY <4>3 DEF SetEnabled
          <5>2. Spec(e, file.policy).wait = Interval
            BY DEF Spec
          <5> QED
            BY <5>1, <5>2
        <4> QED
          BY <2>4, <4>1, <4>2, <4>3 DEF Requests
      <3>2. /\ caller'[c].row = None /\ caller'[c].task = None
            /\ caller'[c].spec = None \/ caller'[c].spec.wait = Interval
        <4>1. ASSUME NEW pc, caller' = [caller EXCEPT ![c] = [Idle EXCEPT !.pc = pc]]
              PROVE  caller'[c].row = None /\ caller'[c].task = None /\ caller'[c].spec = None
          <5>1. caller'[c] = [Idle EXCEPT !.pc = pc]
            BY <1>0, <1>1, <4>1
          <5> QED
            BY <5>1 DEF Idle
        <4>2. ASSUME NEW pc, NEW s, caller' = [caller EXCEPT ![c] = [Idle EXCEPT !.pc = pc, !.spec = s]]
              PROVE  caller'[c].row = None /\ caller'[c].task = None /\ caller'[c].spec = s
          <5>1. caller'[c] = [Idle EXCEPT !.pc = pc, !.spec = s]
            BY <1>0, <1>1, <4>2
          <5> QED
            BY <5>1 DEF Idle
        <4> QED
          BY <3>1, <4>1, <4>2
      <3> QED
        BY <3>2, Bounds DEF Fine, Within, Created, Active
    <2> QED
      BY <2>1, <2>2, <2>3, <2>4 DEF EditSteps
  <1> QED
    BY <1>1, <1>2, <1>3, <1>4, <1>5, <1>6, OneFine

LEMMA FaultFine ==
  ASSUME ScheduleInv, InBounds,
         Crash \/ (\E c \in Callers : StoreFails(c))
           \/ \E t \in Slots : TaskStarts(t) \/ TaskEnds(t)
  PROVE  InBounds'
  <1>0. task \in [Slots -> TaskStates]
    BY DEF ScheduleInv, Typed
  <1>1. CASE Crash
    <2>1. file' = file /\ row' = row /\ \A c \in Callers : caller'[c] = Idle
      BY <1>1 DEF Crash
    <2>2. TasksStay
      BY <1>1 DEF Crash, TasksStay
    <2>3. \A c \in Callers : Fine(caller[c])'
      BY <2>1 DEF Idle, Fine, Within, Created, Active
    <2>4. Active(row) \in MaybeTask /\ Created(Active(row)) /\ Within(row) /\ Within(file)
      BY ActiveTask DEF ScheduleInv, Typed, InBounds
    <2>5. Created(Active(row))'
      BY <2>1, <2>2, <2>4 DEF Created, TasksStay, Active, MaybeTask
    <2> QED
      BY <2>1, <2>3, <2>4, <2>5 DEF InBounds, Within
  <1>2. ASSUME NEW c \in Callers, StoreFails(c)
        PROVE  InBounds'
    <2>1. task' = task /\ TasksStay /\ row' = row /\ file' = file
      BY <1>2 DEF StoreFails, store, TasksStay
    <2>2. \A d \in Callers : d # c => caller'[d] = caller[d]
      BY <1>2, OneCaller
    <2>3. caller'[c] = Idle
      BY <1>2 DEF StoreFails, Done, ScheduleInv, Typed
    <2>4. Fine(caller[c])'
      BY <2>3 DEF Idle, Fine, Within, Created, Active
    <2>5. Within(file)'
      BY <2>1 DEF InBounds, Within
    <2> QED
      BY <2>1, <2>2, <2>4, <2>5, OneFine
  <1>3. ASSUME NEW t \in Slots, TaskStarts(t) \/ TaskEnds(t)
        PROVE  InBounds'
    <2>1. /\ row' = row /\ file' = file /\ caller' = caller /\ Tick \in Callers
          /\ \E state \in {"live", "ended"} : task' = [task EXCEPT ![t] = state]
      BY <1>3, Members DEF TaskStarts, TaskEnds
    <2>2. TasksStay
      BY <1>0, <2>1 DEF TasksStay
    <2>3. Fine(caller[Tick])'
      <3>1. /\ Within(caller[Tick].spec) /\ Within(caller[Tick].row)
            /\ Created(Active(caller[Tick].row))' /\ Created(caller[Tick].task)'
        BY <2>1, <2>2, Of, StillFine DEF Created, Active
      <3> QED
        BY <2>1, <3>1 DEF Fine, Within, Created, Active
    <2>4. Within(file)'
      BY <2>1 DEF InBounds, Within
    <2> QED
      BY <2>1, <2>2, <2>3, <2>4, OneFine
  <1> QED
    BY <1>1, <1>2, <1>3

\* Time brings a due time nearer, and no further than Floor.
LEMMA OlderWithin ==
  ASSUME NEW x \in MaybeRow \cup MaybeSpec, Within(x)
  PROVE  Within(Older(x))
  <1>1. CASE x = None
    BY <1>1 DEF Older, Within
  <1>2. CASE x # None
    <2>1. x \in Rows \cup Specs /\ x.wait \in Floor..Interval
      BY <1>2 DEF MaybeRow, MaybeSpec, Within
    <2>2. \E v \in {x.wait - 1, Floor} : \A y \in {x.wait - 1, Floor} : v >= y
      BY <2>1, Bounds
    <2>3. /\ Max({x.wait - 1, Floor}) \in {x.wait - 1, Floor}
          /\ \A y \in {x.wait - 1, Floor} : Max({x.wait - 1, Floor}) >= y
      BY <2>2 DEF Max
    <2>4. PICK w : w = Max({x.wait - 1, Floor}) /\ w \in Floor..Interval
      BY <2>1, <2>3, Bounds
    <2>5. Older(x) = [x EXCEPT !.wait = w]
      BY <1>2, <2>4 DEF Older
    <2>6. Older(x).wait = w
      BY <2>1, <2>5 DEF Rows, Specs
    <2> QED
      BY <2>4, <2>6 DEF Within
  <1> QED
    BY <1>1, <1>2

LEMMA TimeFine ==
  ASSUME ScheduleInv, InBounds, Pass
  PROVE  InBounds'
  <1>1. /\ Typed /\ task' = task /\ file' = Older(file) /\ row' = Older(row)
    BY DEF ScheduleInv, Pass
  <1>2. Within(file)' /\ Within(row)'
    <2>1. Within(Older(file)) /\ Within(Older(row))
      BY <1>1, OlderWithin DEF Typed, InBounds
    <2> QED
      BY <1>1, <2>1 DEF Within
  <1>3. Created(Active(row))'
    BY <1>1, OlderRow DEF Typed, InBounds, Created, Active
  <1>4. ASSUME NEW c \in Callers
        PROVE  Fine(caller[c])'
    <2>1. CASE caller[c].pc = "idle"
      <3>1. caller'[c] = Idle
        BY <2>1 DEF Pass, At
      <3> QED
        BY <3>1 DEF Idle, Fine, Within, Created, Active
    <2>2. CASE caller[c].pc # "idle"
      <3>1. caller[c] \in Locals /\ Fine(caller[c])
        BY Of
      <3>2. caller'[c] = [caller[c] EXCEPT !.age = caller[c].age + 1, !.spec = Older(caller[c].spec),
                                           !.row = Older(caller[c].row)]
        BY <2>2 DEF Pass, At
      <3>3. /\ caller'[c].task = caller[c].task
            /\ caller'[c].spec = Older(caller[c].spec) /\ caller'[c].row = Older(caller[c].row)
        BY <3>1, <3>2 DEF Locals
      <3>4. /\ Within(Older(caller[c].spec)) /\ Within(Older(caller[c].row))
            /\ Active(Older(caller[c].row)) = Active(caller[c].row)
        BY <3>1, LocalFields, OlderRow, OlderWithin DEF Fine
      <3> QED
        BY <1>1, <3>1, <3>3, <3>4 DEF Fine, Within, Created, Active
    <2> QED
      BY <2>1, <2>2
  <1> QED
    BY <1>2, <1>3, <1>4 DEF InBounds

LEMMA BoundsStep == ScheduleInv /\ PaceInv /\ InBounds /\ [Next]_vars => InBounds'
  <1> SUFFICES ASSUME ScheduleInv, PaceInv, InBounds, [Next]_vars
               PROVE  InBounds'
    OBVIOUS
  <1>1. ASSUME NEW c \in Callers, Save(c) \/ RunSteps(c) \/ SubmitFails(c) \/ StoreFails(c)
        PROVE  InBounds'
    BY <1>1, RunFine, FaultFine
  <1>2. CASE UNCHANGED vars
    <2>1. UNCHANGED <<file, row, task, caller>>
      BY <1>2 DEF vars, store
    <2> QED
      BY <2>1 DEF InBounds, Fine, Within, Created, Active
  <1> QED
    BY <1>1, <1>2, TickFine, EditFine, FaultFine, TimeFine DEF Next

\* The file, the row, the tasks and the records have their types and the due times their
\* bounds, operation_lock is held exactly inside of run_scheduled_task, and the row names a
\* task that was created.
THEOREM TypeCorrect == Behaviour => []TypeOK
  <1>1. Init => InBounds
    <2> SUFFICES ASSUME Init PROVE InBounds
      OBVIOUS
    <2>1. \A c \in Callers : Fine(caller[c])
      BY IdleFine DEF Init
    <2>2. file.wait = Interval
      BY DEF Init, Spec
    <2> QED
      BY <2>1, <2>2, Bounds DEF Init, InBounds, Within, Created, Active
  <1>2. ScheduleInv /\ InBounds => TypeOK
    <2> SUFFICES ASSUME ScheduleInv, InBounds PROVE TypeOK
      OBVIOUS
    <2>1. \/ file = None
          \/ file \in [enabled : BOOLEAN, policy : Policies, wait : Floor..Interval]
      BY DEF ScheduleInv, Typed, MaybeSpec, Specs, InBounds, Within
    <2>2. row = None \/ row \in [wait : Floor..Interval, active : Slots \cup {None}]
      BY DEF ScheduleInv, Typed, MaybeRow, Rows, InBounds, Within
    <2>3. Active(row) # None => task[Active(row)] # "none"
      BY DEF InBounds, Created
    <2> QED
      BY <2>1, <2>2, <2>3 DEF ScheduleInv, Typed, Handler, Inside, TaskStates, Records, TypeOK
  <1> QED
    BY <1>1, <1>2, BoundsStep, PaceInit, PaceStep, Invariant, PTL DEF Behaviour

=============================================================================
