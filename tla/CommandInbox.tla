------------------------------ MODULE CommandInbox ------------------------------
(***************************************************************************)
(* The command inbox of the task store (task_store.rs): every command is   *)
(* decided, applied and remembered in one immediate transaction, so a step *)
(* is a transaction.  A command may arrive any number of times, in any     *)
(* order and from several connections, and the answer to it may be lost.   *)
(*                                                                         *)
(* A key stands for the principal and its idempotency key, a body for what *)
(* command_hash covers besides the task and the expected version.          *)
(***************************************************************************)
EXTENDS Naturals, Sequences, FiniteSets

CONSTANTS Ids, Tasks, Keys, Bodies,
          NoRow,        \* no row under a command id, no command
          BatchMax,     \* bound on the events of one command
          MaxEvents     \* bound on the events of the store

ASSUME InboxAssumption ==
  /\ NoRow \notin Ids
  /\ BatchMax \in Nat \ {0} /\ MaxEvents \in Nat

VARIABLES inbox,     \* command_inbox, by command id
          stream,    \* event_log of each task: who wrote each event, and its offset
          offset,    \* the last global offset
          removed,   \* the tasks whose projection is removed
          answer     \* the last command answered and its answer

vars == <<inbox, stream, offset, removed, answer>>

Commands ==
  [id : Ids, task : Tasks, key : Keys, body : Bodies, expected : 0..MaxEvents]

Accepted(c, events, result) ==
  [status |-> "accepted", id |-> c.id, events |-> events, version |-> result,
   offset |-> offset + events]

\* reason: "version" for WrongExpectedVersion, "command" for every other one.
Rejected(c, reason, actual) ==
  [status |-> "rejected", id |-> c.id, events |-> 0, version |-> actual,
   offset |-> offset, reason |-> reason]

Failure(why) == [status |-> why]

Init ==
  /\ inbox = [i \in Ids |-> NoRow]
  /\ stream = [t \in Tasks |-> <<>>]
  /\ offset = 0
  /\ removed = {}
  /\ answer = [cmd |-> NoRow, outcome |-> Failure("none")]

Version(t) == Len(stream[t])

Answer(c, outcome) == answer' = [cmd |-> c, outcome |-> outcome]

(***************************************************************************)
(* stored_command_outcome: what the inbox says of a command.               *)
(***************************************************************************)
SameKey(row, c) == row.task = c.task /\ row.key = c.key

\* Mutant: the row is looked up by command id alone.
MatchingId(c) == {i \in Ids : inbox[i] # NoRow /\ i = c.id}

Matching(c) ==
  {i \in Ids : inbox[i] # NoRow /\ (i = c.id \/ SameKey(inbox[i], c))}

\* A row of the command itself: its id or a new one, the same key and hash.
Replays(c, i) ==
  /\ SameKey(inbox[i], c)
  /\ inbox[i].body = c.body /\ inbox[i].expected = c.expected

\* validate_stored_command_facts
FactsHold(row) ==
  LET o == row.outcome
      written == {n \in DOMAIN stream[row.task] : n > row.expected /\ n <= o.version}
  IN  IF o.status = "accepted"
      THEN /\ o.events > 0 /\ o.version = row.expected + o.events
           /\ Cardinality(written) = o.events
           /\ stream[row.task][o.version].offset = o.offset
      ELSE o.reason = "command" => o.version = row.expected

Lookup(c) ==
  IF Cardinality(Matching(c)) # 1 THEN Failure("conflict")
  ELSE LET i == CHOOSE i \in Matching(c) : TRUE IN
       IF ~Replays(c, i) THEN Failure("conflict")
       ELSE IF FactsHold(inbox[i]) THEN inbox[i].outcome ELSE Failure("integrity")

(***************************************************************************)
(* transact_command.                                                       *)
(***************************************************************************)
Fresh(c) == Matching(c) = {}

Replay(c) ==
  /\ ~Fresh(c)
  /\ Answer(c, Lookup(c))
  /\ UNCHANGED <<inbox, stream, offset, removed>>

\* INSERT INTO command_inbox and finish_command
Finish(c, outcome) ==
  /\ inbox' = [inbox EXCEPT ![c.id] =
       [task |-> c.task, key |-> c.key, body |-> c.body,
        expected |-> c.expected, outcome |-> outcome]]
  /\ Answer(c, outcome)

\* Mutant: only a version from the future is refused.
WrongVersionAhead(c) == c.expected > Version(c.task)

WrongVersion(c) == Version(c.task) # c.expected

RejectVersion(c) ==
  /\ Fresh(c) /\ WrongVersion(c)
  /\ Finish(c, Rejected(c, "version", Version(c.task)))
  /\ UNCHANGED <<stream, offset, removed>>

\* The task is removed, the workspace authority is stale, the permission id was
\* used, decide refuses or emits nothing, or a blob is missing.
RejectCommand(c) ==
  /\ Fresh(c) /\ ~WrongVersion(c)
  /\ Finish(c, Rejected(c, "command", Version(c.task)))
  /\ UNCHANGED <<stream, offset, removed>>

Batch(writer, n) == [k \in 1..n |-> [writer |-> writer, offset |-> offset + k]]

\* append_in_transaction
Write(t, writer, n) ==
  /\ offset + n <= MaxEvents
  /\ stream' = [stream EXCEPT ![t] = @ \o Batch(writer, n)]
  /\ offset' = offset + n

Accept(c) ==
  /\ Fresh(c) /\ ~WrongVersion(c) /\ c.task \notin removed
  /\ \E n \in 1..BatchMax :
       /\ Write(c.task, c.id, n)
       /\ Finish(c, Accepted(c, n, Version(c.task) + n))
  /\ removed' \in {removed, removed \cup {c.task}}

\* Invalid events, a projector that refuses one, a failed statement: the
\* transaction is rolled back and nothing is remembered.
RollBack(c) ==
  /\ Fresh(c) /\ ~WrongVersion(c) /\ c.task \notin removed
  /\ Answer(c, Failure("error"))
  /\ UNCHANGED <<inbox, stream, offset, removed>>

\* Events that no command writes: engine and supervisor appends.
AppendEvent(t) ==
  /\ Write(t, NoRow, 1)
  /\ UNCHANGED <<inbox, removed, answer>>

Next ==
  \/ \E c \in Commands :
       \/ Replay(c) \/ RejectVersion(c) \/ RejectCommand(c) \/ Accept(c) \/ RollBack(c)
  \/ \E t \in Tasks : AppendEvent(t)

Spec == Init /\ [][Next]_vars

--------------------------------------------------------------------------------
Outcomes ==
  [status : {"accepted"}, id : Ids, events : 1..BatchMax, version : 1..MaxEvents,
   offset : 1..MaxEvents]
  \cup [status : {"rejected"}, id : Ids, events : {0}, version : 0..MaxEvents,
        offset : 0..MaxEvents, reason : {"version", "command"}]

Rows ==
  [task : Tasks, key : Keys, body : Bodies, expected : 0..MaxEvents, outcome : Outcomes]

Events == [writer : Ids \cup {NoRow}, offset : 1..MaxEvents]

\* Type correctness of the inbox, the event log and the answers
\* (task_schema.rs, command_inbox and event_log).
TypeOK ==
  /\ \A i \in Ids : inbox[i] = NoRow \/ inbox[i] \in Rows
  /\ \A t \in Tasks : \A n \in DOMAIN stream[t] : stream[t][n] \in Events
  /\ offset \in 0..MaxEvents /\ removed \subseteq Tasks
  /\ answer.cmd = NoRow \/ answer.cmd \in Commands

Written(t, i) == {n \in DOMAIN stream[t] : stream[t][n].writer = i}

\* An accepted command's events are in its task's log, all of them, in one run that
\* starts right after the version the command expected when it reached the store; a
\* rejected one, and a command without a row, has none (transact_command_inner,
\* append_in_transaction).  The supervisor may have moved the version a client sent
\* past the acquisition of the task's workspace (prepare_command_workspace).
AppliedAsSeen ==
  \A t \in Tasks, i \in Ids :
    Written(t, i) =
      IF inbox[i] # NoRow /\ inbox[i].task = t /\ inbox[i].outcome.status = "accepted"
      THEN (inbox[i].expected + 1)..inbox[i].outcome.version
      ELSE {}

(***************************************************************************)
(* The inbox keeps the contract.  A request is what a client means to send *)
(* once: a task, a key, a body and the version it expects.                 *)
(***************************************************************************)
Intents == [task : Tasks, key : Keys, body : Bodies, expected : 0..MaxEvents]

\* NULL is neither a row, an outcome nor what a client sent.
ASSUME NoRowAssumption == NoRow \notin Rows \cup Outcomes \cup Commands \cup Intents

Intent(c) == [task |-> c.task, key |-> c.key, body |-> c.body, expected |-> c.expected]

RowsOf(r) == {i \in Ids : inbox[i] # NoRow /\ Intent(inbox[i]) = r}

Decided == [r \in Intents |->
  IF RowsOf(r) = {} THEN NoRow ELSE inbox[CHOOSE i \in RowsOf(r) : TRUE].outcome]

Effects == [r \in Intents |-> Cardinality({i \in RowsOf(r) :
  \E n \in DOMAIN stream[r.task] : stream[r.task][n].writer = i})]

Told == <<IF answer.cmd = NoRow THEN NoRow ELSE Intent(answer.cmd), answer.outcome>>

Contract == INSTANCE CommandContract WITH
  Requests <- Intents,
  Undecided <- NoRow,
  Outcomes <- Outcomes,
  Refusals <- {Failure("conflict"), Failure("error")},
  decided <- Decided,
  effects <- Effects,
  answer <- Told

\* The inbox implements the contract: a request is decided once and applied at
\* most once however often, under whatever ids and in whatever order it arrives,
\* and each answer but a conflict or an error is the decision.  A repeated command
\* is never answered with a ProjectionIntegrity error: the facts stored with an
\* outcome stay true of the log as it grows (transact_command_inner,
\* stored_command_outcome, validate_stored_command_facts).
DecidedOnce == Contract!Spec
================================================================================
