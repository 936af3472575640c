-------------------------- MODULE CommandInboxProofs --------------------------
(***************************************************************************)
(* Theorems about the command inbox, for any number of commands, tasks,    *)
(* keys, bodies and events.                                                *)
(***************************************************************************)
EXTENDS CommandInbox, SequenceTheorems, FiniteSetTheorems, TLAPS

Typed ==
  /\ inbox \in [Ids -> Rows \cup {NoRow}]
  /\ stream \in [Tasks -> Seq(Events)]
  /\ offset \in 0..MaxEvents /\ removed \subseteq Tasks
  /\ answer.cmd = NoRow \/ answer.cmd \in Commands
  /\ \A t \in Tasks : Len(stream[t]) <= offset

\* The unique index of command_inbox: a task and a key are decided under one id.
KeysUnique ==
  \A i, j \in Ids :
    inbox[i] # NoRow /\ inbox[j] # NoRow /\ SameKey(inbox[i], inbox[j]) => i = j

\* The facts that a row's outcome states of the log, as far as the log can grow.
RowStands(row) ==
  /\ row.outcome.status = "accepted" =>
       /\ row.outcome.version = row.expected + row.outcome.events
       /\ row.outcome.version <= Len(stream[row.task])
       /\ stream[row.task][row.outcome.version].offset = row.outcome.offset
  /\ row.outcome.status # "accepted" /\ row.outcome.reason = "command" =>
       row.outcome.version = row.expected

RowsStand == \A i \in Ids : inbox[i] # NoRow => RowStands(inbox[i])

InboxInv == Typed /\ KeysUnique /\ RowsStand /\ AppliedAsSeen

-----------------------------------------------------------------------------
(* The operators *)

\* append_in_transaction adds a batch behind what a log holds, and to no other log.
LEMMA Appended ==
  ASSUME Typed, NEW t \in Tasks, NEW w \in Ids \cup {NoRow}, NEW n \in Nat \ {0}, Write(t, w, n)
  PROVE  /\ stream' \in [Tasks -> Seq(Events)]
         /\ \A u \in Tasks : u # t => stream'[u] = stream[u]
         /\ Len(stream'[t]) = Len(stream[t]) + n
         /\ \A k \in 1..Len(stream[t]) : stream'[t][k] = stream[t][k]
         /\ \A k \in Len(stream[t]) + 1..Len(stream[t]) + n : stream'[t][k].writer = w
         /\ stream'[t][Len(stream[t]) + n].offset = offset + n
         /\ offset' = offset + n /\ offset' \in 0..MaxEvents
         /\ \A u \in Tasks : Len(stream'[u]) <= offset'
  <1> USE InboxAssumption DEF Typed
  <1>1. offset \in Nat /\ offset' = offset + n /\ offset + n <= MaxEvents /\ MaxEvents \in Nat
    BY DEF Write
  <1>2. Batch(w, n) \in Seq(Events) /\ Len(Batch(w, n)) = n
    <2>1. \A k \in 1..n : [writer |-> w, offset |-> offset + k] \in Events
      BY <1>1 DEF Events
    <2>2. Batch(w, n) \in [1..n -> Events]
      BY <2>1 DEF Batch
    <2> HIDE DEF Events
    <2>3. Batch(w, n) \in Seq(Events)
      BY <2>2, SeqDef
    <2>4. Len(Batch(w, n)) \in Nat /\ 1..Len(Batch(w, n)) = 1..n
      BY <2>2, <2>3, LenProperties
    <2>5. \A m \in Nat : 1..m = 1..n => m = n
      <3> SUFFICES ASSUME NEW m \in Nat, 1..m = 1..n PROVE m = n
        OBVIOUS
      <3>1. n \in 1..m
        OBVIOUS
      <3>2. m \in 1..n
        BY <3>1
      <3> QED
        BY <3>1, <3>2
    <2> QED
      BY <2>3, <2>4, <2>5
  <1>3. \A k \in 1..n : Batch(w, n)[k] = [writer |-> w, offset |-> offset + k]
    BY DEF Batch
  <1>4. stream[t] \in Seq(Events) /\ Len(stream[t]) \in Nat
    OBVIOUS
  <1>5. stream' = [stream EXCEPT ![t] = stream[t] \o Batch(w, n)]
    BY DEF Write
  <1> HIDE DEF Events
  <1>6. /\ stream[t] \o Batch(w, n) \in Seq(Events)
        /\ Len(stream[t] \o Batch(w, n)) = Len(stream[t]) + n
        /\ \A k \in 1..Len(stream[t]) : (stream[t] \o Batch(w, n))[k] = stream[t][k]
        /\ \A k \in Len(stream[t]) + 1..Len(stream[t]) + n :
             (stream[t] \o Batch(w, n))[k] = Batch(w, n)[k - Len(stream[t])]
    <2> DEFINE s == stream[t]
               b == Batch(w, n)
    <2> HIDE DEF s, b
    <2>1. s \in Seq(Events) /\ b \in Seq(Events) /\ Len(s) \in Nat /\ Len(b) = n
      BY <1>2, <1>4 DEF s, b
    <2>2. /\ s \o b \in Seq(Events) /\ Len(s \o b) = Len(s) + n
          /\ \A k \in 1..Len(s) + n : (s \o b)[k] = IF k <= Len(s) THEN s[k] ELSE b[k - Len(s)]
      BY <2>1, ConcatProperties
    <2>3. /\ \A k \in 1..Len(s) : (s \o b)[k] = s[k]
          /\ \A k \in Len(s) + 1..Len(s) + n : (s \o b)[k] = b[k - Len(s)]
      BY <2>1, <2>2
    <2> QED
      BY <2>2, <2>3 DEF s, b
  <1>7. stream' \in [Tasks -> Seq(Events)] /\ stream'[t] = stream[t] \o Batch(w, n)
        /\ \A u \in Tasks : u # t => stream'[u] = stream[u]
    BY <1>5, <1>6
  <1>8. ASSUME NEW k \in Len(stream[t]) + 1..Len(stream[t]) + n
        PROVE  /\ stream'[t][k].writer = w
               /\ stream'[t][k].offset = offset + (k - Len(stream[t]))
    <2>1. k - Len(stream[t]) \in 1..n
      BY <1>4
    <2>2. stream'[t][k] = [writer |-> w, offset |-> offset + (k - Len(stream[t]))]
      BY <1>3, <1>6, <1>7, <2>1
    <2> QED
      BY <2>2
  <1>9. \A u \in Tasks : Len(stream'[u]) <= offset'
    <2>1. \A u \in Tasks : Len(stream[u]) \in Nat /\ Len(stream[u]) <= offset
      BY LenProperties
    <2>2. Len(stream'[t]) <= offset'
      BY <1>1, <1>6, <1>7, <2>1
    <2>3. \A u \in Tasks : u # t => Len(stream'[u]) <= offset'
      BY <1>1, <1>7, <2>1
    <2> QED
      BY <2>2, <2>3
  <1>10. offset' \in 0..MaxEvents
    BY <1>1
  <1>11. \A k \in Len(stream[t]) + 1..Len(stream[t]) + n : stream'[t][k].writer = w
    BY <1>8
  <1>12. stream'[t][Len(stream[t]) + n].offset = offset + n
    <2>1. Len(stream[t]) + n \in Len(stream[t]) + 1..Len(stream[t]) + n
      BY <1>4
    <2>2. Len(stream[t]) + n - Len(stream[t]) = n
      BY <1>4
    <2> QED
      BY <1>8, <2>1, <2>2
  <1> QED
    BY <1>1, <1>6, <1>7, <1>9, <1>10, <1>11, <1>12

\* A command that matches no row gets one, and every other row stays.
LEMMA Recorded ==
  ASSUME Typed, NEW c \in Commands, Fresh(c), NEW o \in Outcomes, Finish(c, o)
  PROVE  /\ c.id \in Ids /\ c.task \in Tasks
         /\ inbox[c.id] = NoRow
         /\ \A i \in Ids : inbox[i] # NoRow => inbox[i] \in Rows /\ ~SameKey(inbox[i], c)
         /\ inbox' \in [Ids -> Rows \cup {NoRow}]
         /\ inbox'[c.id] # NoRow
         /\ inbox'[c.id] = [task |-> c.task, key |-> c.key, body |-> c.body,
                            expected |-> c.expected, outcome |-> o]
         /\ \A i \in Ids : i # c.id => inbox'[i] = inbox[i]
         /\ answer' = [cmd |-> c, outcome |-> o]
  <1> DEFINE row == [task |-> c.task, key |-> c.key, body |-> c.body,
                     expected |-> c.expected, outcome |-> o]
  <1>1. c.id \in Ids /\ c.task \in Tasks /\ row \in Rows
    BY DEF Commands, Rows
  <1>2. row # NoRow
    BY <1>1, NoRowAssumption
  <1>3. inbox' = [inbox EXCEPT ![c.id] = row] /\ answer' = [cmd |-> c, outcome |-> o]
    BY DEF Finish, Answer
  <1>4. \A i \in Ids : inbox[i] # NoRow => i # c.id /\ ~SameKey(inbox[i], c)
    BY DEF Fresh, Matching
  <1> HIDE DEF row
  <1>5. /\ inbox' \in [Ids -> Rows \cup {NoRow}] /\ inbox'[c.id] = row
        /\ \A i \in Ids : i # c.id => inbox'[i] = inbox[i]
    BY <1>1, <1>3 DEF Typed
  <1> QED
    BY <1>1, <1>2, <1>3, <1>4, <1>5 DEF row, Typed

\* A rejection is an outcome, it writes nothing, and unless the version was wrong it
\* states the version that was expected.
LEMMA Rejects ==
  ASSUME Typed, NEW c \in Commands, RejectVersion(c) \/ RejectCommand(c)
  PROVE  \E o \in Outcomes :
           /\ o.status = "rejected" /\ (o.reason = "command" => o.version = c.expected)
           /\ Fresh(c) /\ Finish(c, o) /\ UNCHANGED <<stream, offset, removed>>
  <1>1. c.id \in Ids /\ c.task \in Tasks
    BY DEF Commands
  <1>2. Version(c.task) \in 0..MaxEvents
    BY <1>1, LenProperties, InboxAssumption DEF Typed, Version
  <1>3. \A r \in {"version", "command"} :
          /\ Rejected(c, r, Version(c.task)) \in Outcomes
          /\ Rejected(c, r, Version(c.task)).status = "rejected"
          /\ Rejected(c, r, Version(c.task)).reason = r
          /\ Rejected(c, r, Version(c.task)).version = Version(c.task)
    BY <1>1, <1>2 DEF Typed, Rejected, Outcomes
  <1>4. CASE RejectVersion(c)
    <2>1. Rejected(c, "version", Version(c.task)) \in Outcomes
      BY <1>3
    <2> WITNESS Rejected(c, "version", Version(c.task)) \in Outcomes
    <2> QED
      BY <1>3, <1>4 DEF RejectVersion
  <1>5. CASE RejectCommand(c)
    <2>1. Rejected(c, "command", Version(c.task)) \in Outcomes
      BY <1>3
    <2> WITNESS Rejected(c, "command", Version(c.task)) \in Outcomes
    <2> QED
      BY <1>3, <1>5 DEF RejectCommand, WrongVersion
  <1> QED
    BY <1>4, <1>5

\* An acceptance is an outcome that states what is written.
LEMMA Accepts ==
  ASSUME Typed, NEW c \in Commands, Accept(c)
  PROVE  \E n \in Nat \ {0}, o \in Outcomes :
           /\ o.status = "accepted" /\ o.events = n /\ o.version = c.expected + n
           /\ o.offset = offset + n /\ c.expected = Len(stream[c.task])
           /\ Fresh(c) /\ Finish(c, o) /\ Write(c.task, c.id, n)
           /\ removed' \subseteq Tasks
  <1>1. c.id \in Ids /\ c.task \in Tasks
    BY DEF Commands
  <1>2. Len(stream[c.task]) \in Nat /\ Len(stream[c.task]) <= offset /\ offset \in Nat
    BY <1>1, LenProperties, InboxAssumption DEF Typed
  <1>3. PICK n \in 1..BatchMax :
          Write(c.task, c.id, n) /\ Finish(c, Accepted(c, n, Version(c.task) + n))
    BY DEF Accept
  <1>4. n \in Nat \ {0} /\ offset + n <= MaxEvents /\ MaxEvents \in Nat
    BY <1>3, InboxAssumption DEF Write
  <1>5. Accepted(c, n, Version(c.task) + n) \in Outcomes
    <2>1. offset + n \in 1..MaxEvents /\ Version(c.task) + n \in 1..MaxEvents
      BY <1>2, <1>4 DEF Version
    <2> QED
      BY <1>1, <1>3, <2>1 DEF Accepted, Outcomes
  <1>6. c.expected = Len(stream[c.task]) /\ Fresh(c)
    BY DEF Accept, WrongVersion, Version
  <1>7. removed' \subseteq Tasks
    BY <1>1 DEF Accept, Typed
  <1> WITNESS n \in Nat \ {0}, Accepted(c, n, Version(c.task) + n) \in Outcomes
  <1> QED
    BY <1>3, <1>6, <1>7 DEF Accepted, Version

\* What a batch adds to the events of its writer, and of nobody else.
LEMMA WrittenAfter ==
  ASSUME Typed, NEW t \in Tasks, NEW w \in Ids \cup {NoRow}, NEW n \in Nat \ {0}, Write(t, w, n),
         NEW u \in Tasks, NEW i \in Ids
  PROVE  Written(u, i)' = IF u = t /\ i = w
                          THEN Written(u, i) \cup (Len(stream[t]) + 1..Len(stream[t]) + n)
                          ELSE Written(u, i)
  <1>1. /\ stream \in [Tasks -> Seq(Events)] /\ stream' \in [Tasks -> Seq(Events)]
        /\ \A v \in Tasks : v # t => stream'[v] = stream[v]
        /\ Len(stream'[t]) = Len(stream[t]) + n
        /\ \A k \in 1..Len(stream[t]) : stream'[t][k] = stream[t][k]
        /\ \A k \in Len(stream[t]) + 1..Len(stream[t]) + n : stream'[t][k].writer = w
    <2>1. stream \in [Tasks -> Seq(Events)]
      BY DEF Typed
    <2> QED
      BY <2>1, Appended
  <1>2. Len(stream[t]) \in Nat /\ DOMAIN stream[t] = 1..Len(stream[t])
        /\ DOMAIN (stream'[t]) = 1..Len(stream[t]) + n
    BY <1>1, LenProperties
  <1>3. CASE u # t
    BY <1>1, <1>3 DEF Written
  <1>4. CASE u = t
    <2>1. \A k : k \in Written(t, i)' <=>
                   k \in 1..Len(stream[t]) + n /\ stream'[t][k].writer = i
      BY <1>2 DEF Written
    <2>2. \A k : k \in Written(t, i) <=> k \in 1..Len(stream[t]) /\ stream[t][k].writer = i
      BY <1>2 DEF Written
    <2>3. \A k : k \in 1..Len(stream[t]) + n <=>
                   k \in 1..Len(stream[t]) \/ k \in Len(stream[t]) + 1..Len(stream[t]) + n
      BY <1>2
    <2>4. \A k : k \in Written(t, i)' <=>
                   \/ k \in Written(t, i)
                   \/ k \in Len(stream[t]) + 1..Len(stream[t]) + n /\ w = i
      <3> HIDE DEF Written
      <3>1. \A k \in 1..Len(stream[t]) :
              ~(k \in Len(stream[t]) + 1..Len(stream[t]) + n)
        BY <1>2
      <3> TAKE k
      <3>2. CASE k \in 1..Len(stream[t])
        BY <1>1, <2>1, <2>2, <2>3, <3>1, <3>2
      <3>3. CASE k \in Len(stream[t]) + 1..Len(stream[t]) + n
        BY <1>1, <2>1, <2>2, <2>3, <3>1, <3>3
      <3> QED
        BY <2>1, <2>2, <2>3, <3>2, <3>3
    <2> QED
      BY <1>4, <2>4 DEF Written
  <1> QED
    BY <1>3, <1>4

\* A row's facts are about events that exist, so they stand when the log grows.
LEMMA StandsAfter ==
  ASSUME Typed, NEW t \in Tasks, NEW w \in Ids \cup {NoRow}, NEW n \in Nat \ {0}, Write(t, w, n),
         NEW row \in Rows, RowStands(row)
  PROVE  RowStands(row)'
  <1>1. row.task \in Tasks /\ row.outcome \in Outcomes /\ row.expected \in Nat
    BY InboxAssumption DEF Rows
  <1>2. Len(stream[row.task]) \in Nat
    BY <1>1, LenProperties DEF Typed
  <1>3. row.outcome.status = "accepted" => row.outcome.version \in Nat \ {0}
    BY <1>1, InboxAssumption DEF Outcomes
  <1>4. /\ \A v \in Tasks : v # t => stream'[v] = stream[v]
        /\ Len(stream'[t]) = Len(stream[t]) + n
        /\ \A k \in 1..Len(stream[t]) : stream'[t][k] = stream[t][k]
    BY Appended
  <1>5. CASE row.task # t
    BY <1>1, <1>4, <1>5 DEF RowStands
  <1>6. CASE row.task = t
    BY <1>1, <1>2, <1>3, <1>4, <1>6 DEF RowStands
  <1> QED
    BY <1>5, <1>6

-----------------------------------------------------------------------------
(* Steps *)

LEMMA InitInbox == Init => InboxInv
  <1> SUFFICES ASSUME Init PROVE InboxInv
    OBVIOUS
  <1>1. /\ inbox = [i \in Ids |-> NoRow] /\ stream = [t \in Tasks |-> <<>>]
        /\ offset = 0 /\ removed = {} /\ answer.cmd = NoRow
    BY DEF Init
  <1>2. <<>> \in Seq(Events) /\ Len(<<>>) = 0 /\ DOMAIN <<>> = {}
    BY EmptySeq
  <1>3. Typed
    BY <1>1, <1>2, InboxAssumption DEF Typed
  <1>4. KeysUnique /\ RowsStand
    BY <1>1 DEF KeysUnique, RowsStand
  <1>5. AppliedAsSeen
    BY <1>1, <1>2 DEF AppliedAsSeen, Written
  <1> QED
    BY <1>3, <1>4, <1>5 DEF InboxInv

\* A repeated command and a transaction that is rolled back change nothing but the answer.
LEMMA QuietKeeps ==
  ASSUME InboxInv, UNCHANGED <<inbox, stream, offset, removed>>,
         answer'.cmd = NoRow \/ answer'.cmd \in Commands
  PROVE  InboxInv'
  BY DEF InboxInv, Typed, KeysUnique, RowsStand, RowStands, AppliedAsSeen, Written, SameKey

LEMMA RejectKeeps ==
  ASSUME InboxInv, NEW c \in Commands, RejectVersion(c) \/ RejectCommand(c)
  PROVE  InboxInv'
  <1> USE DEF InboxInv
  <1>1. PICK o \in Outcomes :
          /\ o.status = "rejected" /\ (o.reason = "command" => o.version = c.expected)
          /\ Fresh(c) /\ Finish(c, o) /\ UNCHANGED <<stream, offset, removed>>
    BY Rejects
  <1> DEFINE row == [task |-> c.task, key |-> c.key, body |-> c.body,
                     expected |-> c.expected, outcome |-> o]
  <1>2. /\ c.id \in Ids /\ c.task \in Tasks
        /\ inbox[c.id] = NoRow /\ inbox'[c.id] = row /\ inbox'[c.id] # NoRow
        /\ inbox' \in [Ids -> Rows \cup {NoRow}]
        /\ \A i \in Ids : i # c.id => inbox'[i] = inbox[i]
        /\ \A i \in Ids : inbox[i] # NoRow => ~SameKey(inbox[i], c)
        /\ answer' = [cmd |-> c, outcome |-> o]
    BY <1>1, Recorded
  <1>3. Typed'
    BY <1>1, <1>2 DEF Typed
  <1>4. KeysUnique'
    BY <1>2 DEF KeysUnique, SameKey
  <1>5. RowsStand'
    <2>1. RowStands(row)'
      BY <1>1 DEF RowStands
    <2>2. ASSUME NEW i \in Ids, i # c.id, inbox'[i] # NoRow PROVE RowStands(inbox[i])'
      <3>1. RowStands(inbox[i]) /\ inbox'[i] = inbox[i]
        BY <1>2, <2>2 DEF RowsStand
      <3> QED
        BY <1>1, <3>1 DEF RowStands
    <2>3. RowStands(inbox[c.id])'
      BY <1>2, <2>1 DEF RowStands
    <2> QED
      BY <2>2, <2>3 DEF RowsStand
  <1>6. AppliedAsSeen'
    BY <1>1, <1>2 DEF AppliedAsSeen, Written
  <1> QED
    BY <1>3, <1>4, <1>5, <1>6

LEMMA AcceptKeeps ==
  ASSUME InboxInv, NEW c \in Commands, Accept(c)
  PROVE  InboxInv'
  <1> USE DEF InboxInv
  <1>1. PICK n \in Nat \ {0}, o \in Outcomes :
           /\ o.status = "accepted" /\ o.events = n /\ o.version = c.expected + n
           /\ o.offset = offset + n /\ c.expected = Len(stream[c.task])
           /\ Fresh(c) /\ Finish(c, o) /\ Write(c.task, c.id, n)
           /\ removed' \subseteq Tasks
    BY Accepts
  <1> DEFINE row == [task |-> c.task, key |-> c.key, body |-> c.body,
                     expected |-> c.expected, outcome |-> o]
  <1>2. /\ c.id \in Ids /\ c.task \in Tasks
        /\ inbox[c.id] = NoRow /\ inbox'[c.id] = row /\ inbox'[c.id] # NoRow
        /\ inbox' \in [Ids -> Rows \cup {NoRow}]
        /\ \A i \in Ids : i # c.id => inbox'[i] = inbox[i]
        /\ \A i \in Ids : inbox[i] # NoRow => inbox[i] \in Rows /\ ~SameKey(inbox[i], c)
        /\ answer' = [cmd |-> c, outcome |-> o]
    BY <1>1, Recorded
  <1>3. Typed'
    BY <1>1, <1>2, Appended DEF Typed
  <1>4. KeysUnique'
    BY <1>2 DEF KeysUnique, SameKey
  <1>5. RowsStand'
    <2>1. RowStands(row)'
      <3>1. Len(stream[c.task]) \in Nat
        BY <1>2, LenProperties DEF Typed
      <3>2. /\ Len(stream'[c.task]) = Len(stream[c.task]) + n
            /\ stream'[c.task][Len(stream[c.task]) + n].offset = offset + n
        BY <1>1, <1>2, Appended
      <3>3. row.task = c.task /\ row.expected = c.expected /\ row.outcome = o
        OBVIOUS
      <3> HIDE DEF row
      <3> QED
        BY <1>1, <3>1, <3>2, <3>3 DEF RowStands
    <2>2. ASSUME NEW i \in Ids, i # c.id, inbox'[i] # NoRow PROVE RowStands(inbox[i])'
      <3>1. PICK r \in Rows : r = inbox[i] /\ inbox'[i] = r
        BY <1>2, <2>2
      <3>2. RowStands(r)
        BY <1>2, <2>2, <3>1 DEF RowsStand
      <3>3. RowStands(r)'
        BY <1>1, <1>2, <3>2, StandsAfter
      <3> QED
        BY <3>1, <3>3 DEF RowStands
    <2>3. RowStands(inbox[c.id])'
      BY <1>2, <2>1 DEF RowStands
    <2> QED
      BY <2>2, <2>3 DEF RowsStand
  <1>6. AppliedAsSeen'
    <2> SUFFICES ASSUME NEW t \in Tasks, NEW i \in Ids
                 PROVE  Written(t, i)' =
                          IF inbox'[i] # NoRow /\ inbox'[i].task = t
                             /\ inbox'[i].outcome.status = "accepted"
                          THEN (inbox'[i].expected + 1)..inbox'[i].outcome.version
                          ELSE {}
      BY DEF AppliedAsSeen
    <2>1. CASE i # c.id
      <3>1. Written(t, i)' = Written(t, i)
        BY <1>1, <1>2, <2>1, WrittenAfter
      <3> QED
        BY <1>2, <2>1, <3>1 DEF AppliedAsSeen
    <2>2. CASE i = c.id
      <3>1. Written(t, i) = {}
        BY <1>2, <2>2 DEF AppliedAsSeen
      <3>2. Written(t, i)' = IF t = c.task THEN c.expected + 1..c.expected + n ELSE {}
        <4>1. Written(t, i)' = IF t = c.task /\ i = c.id
                THEN Written(t, i) \cup (Len(stream[c.task]) + 1..Len(stream[c.task]) + n)
                ELSE Written(t, i)
          BY <1>1, <1>2, WrittenAfter
        <4> QED
          BY <1>1, <2>2, <3>1, <4>1
      <3> QED
        BY <1>1, <1>2, <2>2, <3>2
    <2> QED
      BY <2>1, <2>2
  <1> QED
    BY <1>3, <1>4, <1>5, <1>6

LEMMA AppendKeeps ==
  ASSUME InboxInv, NEW t \in Tasks, AppendEvent(t)
  PROVE  InboxInv'
  <1> USE DEF InboxInv
  <1>1. Write(t, NoRow, 1) /\ UNCHANGED <<inbox, removed, answer>>
    BY DEF AppendEvent
  <1>2. Typed'
    <2>1. /\ stream' \in [Tasks -> Seq(Events)]
          /\ offset' \in 0..MaxEvents
          /\ \A u \in Tasks : Len(stream'[u]) <= offset'
      BY <1>1, Appended
    <2> QED
      BY <1>1, <2>1 DEF Typed
  <1>3. KeysUnique'
    BY <1>1 DEF KeysUnique, SameKey
  <1>4. RowsStand'
    <2>1. ASSUME NEW i \in Ids, inbox'[i] # NoRow PROVE RowStands(inbox[i])'
      <3>1. PICK r \in Rows : r = inbox[i] /\ inbox'[i] = r
        BY <1>1, <2>1 DEF Typed
      <3>2. RowStands(r)
        BY <1>1, <2>1, <3>1 DEF RowsStand
      <3>3. RowStands(r)'
        BY <1>1, <3>2, StandsAfter
      <3> QED
        BY <3>1, <3>3 DEF RowStands
    <2> QED
      BY <2>1 DEF RowsStand
  <1>5. AppliedAsSeen'
    <2>1. \A u \in Tasks, i \in Ids : Written(u, i)' = Written(u, i)
      BY <1>1, WrittenAfter, InboxAssumption
    <2> QED
      BY <1>1, <2>1 DEF AppliedAsSeen
  <1> QED
    BY <1>2, <1>3, <1>4, <1>5

LEMMA StepInbox == InboxInv /\ [Next]_vars => InboxInv'
  <1> SUFFICES ASSUME InboxInv, [Next]_vars PROVE InboxInv'
    OBVIOUS
  <1>1. CASE UNCHANGED vars
    BY <1>1, QuietKeeps DEF vars, InboxInv, Typed
  <1>2. ASSUME NEW c \in Commands, Replay(c) \/ RollBack(c) PROVE InboxInv'
    <2>1. UNCHANGED <<inbox, stream, offset, removed>> /\ answer'.cmd = c
      BY <1>2 DEF Replay, RollBack, Answer
    <2> QED
      BY <2>1, QuietKeeps
  <1>3. ASSUME NEW c \in Commands, RejectVersion(c) \/ RejectCommand(c) PROVE InboxInv'
    BY <1>3, RejectKeeps
  <1>4. ASSUME NEW c \in Commands, Accept(c) PROVE InboxInv'
    BY <1>4, AcceptKeeps
  <1>5. ASSUME NEW t \in Tasks, AppendEvent(t) PROVE InboxInv'
    BY <1>5, AppendKeeps
  <1> QED
    BY <1>1, <1>2, <1>3, <1>4, <1>5 DEF Next

LEMMA InboxInvariant == Spec => []InboxInv
  BY InitInbox, StepInbox, PTL DEF Spec

\* The rows of the inbox, the events of the logs, the offset and the answers have their types
\* after any sequence of commands and appends (task_schema.rs, command_inbox and event_log).
THEOREM TypeCorrect == Spec => []TypeOK
  <1>1. InboxInv => TypeOK
    <2> SUFFICES ASSUME InboxInv PROVE TypeOK
      OBVIOUS
    <2>1. ASSUME NEW t \in Tasks, NEW n \in DOMAIN stream[t]
          PROVE  stream[t][n] \in Events
      <3>1. stream[t] \in Seq(Events)
        BY DEF InboxInv, Typed
      <3>2. n \in 1..Len(stream[t])
        BY <3>1, LenProperties
      <3> QED
        BY <3>1, <3>2, ElementOfSeq
    <2> QED
      BY <2>1 DEF InboxInv, Typed, TypeOK
  <1> QED
    BY <1>1, InboxInvariant, PTL

\* Whatever the commands, their order and their repetitions: what an accepted command
\* wrote is its batch, complete, in one piece and right after the version that the client
\* expected, and nothing else was written in a command's name (transact_command_inner).
THEOREM Applied == Spec => []AppliedAsSeen
  <1>1. InboxInv => AppliedAsSeen
    BY DEF InboxInv
  <1> QED
    BY <1>1, InboxInvariant, PTL

\* validate_stored_command_facts never fails: the facts stored with a row stay true of the
\* log as it grows (stored_command_outcome).
RowsHold == \A i \in Ids : inbox[i] # NoRow => FactsHold(inbox[i])

LEMMA FactsOfRows == InboxInv => RowsHold
  <1> SUFFICES ASSUME InboxInv, NEW i \in Ids, inbox[i] # NoRow
               PROVE  FactsHold(inbox[i])
    BY DEF RowsHold
  <1> DEFINE row == inbox[i]
             o == row.outcome
             written == {n \in DOMAIN stream[row.task] : n > row.expected /\ n <= o.version}
  <1>1. row \in Rows /\ RowStands(row)
    BY DEF InboxInv, Typed, RowsStand
  <1>2. row.task \in Tasks /\ o \in Outcomes /\ row.expected \in Nat
    BY <1>1, InboxAssumption DEF Rows
  <1>3. CASE o.status = "accepted"
    <2>1. /\ o.events \in Nat \ {0} /\ o.version \in Nat
          /\ o.version = row.expected + o.events
          /\ o.version <= Len(stream[row.task])
          /\ stream[row.task][o.version].offset = o.offset
      BY <1>1, <1>2, <1>3, InboxAssumption DEF RowStands, Outcomes
    <2>2. Len(stream[row.task]) \in Nat /\ DOMAIN stream[row.task] = 1..Len(stream[row.task])
      BY <1>2, LenProperties DEF InboxInv, Typed
    <2>3. written = row.expected + 1..o.version
      BY <1>2, <2>1, <2>2
    <2>4. Cardinality(row.expected + 1..o.version) = o.events
      <3>1. /\ row.expected + 1 \in Int /\ o.version \in Int
            /\ ~(row.expected + 1 > o.version)
            /\ o.version - (row.expected + 1) + 1 = o.events
        BY <1>2, <2>1
      <3> QED
        BY <3>1, FS_Interval
    <2>5. FactsHold(row) = (/\ o.events > 0 /\ o.version = row.expected + o.events
                            /\ Cardinality(written) = o.events
                            /\ stream[row.task][o.version].offset = o.offset)
      BY <1>3, Zenon DEF FactsHold
    <2> HIDE DEF written, o, row
    <2>6. o.events > 0
      BY <2>1
    <2>7. Cardinality(written) = o.events
      BY <2>3, <2>4
    <2>8. FactsHold(row)
      BY <2>1, <2>5, <2>6, <2>7
    <2> QED
      BY <2>8 DEF row
  <1>4. CASE o.status # "accepted"
    BY <1>1, <1>4 DEF RowStands, FactsHold
  <1> QED
    BY <1>3, <1>4

-----------------------------------------------------------------------------
(* The contract *)

\* What the inbox stands for in the contract: a request has at most one row, it is decided
\* by it, and it took effect once if the row is accepted.
Mapped ==
  \A r \in Intents :
    /\ \A i \in RowsOf(r) : RowsOf(r) = {i} /\ Decided[r] = inbox[i].outcome
    /\ RowsOf(r) = {} => Decided[r] = NoRow
    /\ Effects[r] = IF \E i \in RowsOf(r) : inbox[i].outcome.status = "accepted" THEN 1 ELSE 0

LEMMA InboxMapped == InboxInv => Mapped
  <1> SUFFICES ASSUME InboxInv, NEW r \in Intents
               PROVE  /\ \A i \in RowsOf(r) : RowsOf(r) = {i} /\ Decided[r] = inbox[i].outcome
                      /\ RowsOf(r) = {} => Decided[r] = NoRow
                      /\ Effects[r] =
                           IF \E i \in RowsOf(r) : inbox[i].outcome.status = "accepted"
                           THEN 1 ELSE 0
    BY DEF Mapped
  <1>1. \A i \in RowsOf(r) : i \in Ids /\ inbox[i] \in Rows /\ inbox[i] # NoRow
                             /\ inbox[i].task = r.task /\ inbox[i].key = r.key
    BY DEF RowsOf, Intent, InboxInv, Typed
  <1>2. \A i \in RowsOf(r) : RowsOf(r) = {i}
    BY <1>1 DEF InboxInv, KeysUnique, SameKey
  <1>3. \A i \in RowsOf(r) : Decided[r] = inbox[i].outcome
    BY <1>2 DEF Decided
  <1>4. RowsOf(r) = {} => Decided[r] = NoRow
    BY DEF Decided
  <1> DEFINE writers == {i \in RowsOf(r) :
                           \E n \in DOMAIN stream[r.task] : stream[r.task][n].writer = i}
  <1>5. Effects[r] = Cardinality(writers)
    BY DEF Effects
  <1>6. \A i \in RowsOf(r) : i \in writers <=> inbox[i].outcome.status = "accepted"
    <2> SUFFICES ASSUME NEW i \in RowsOf(r)
                 PROVE  i \in writers <=> inbox[i].outcome.status = "accepted"
      OBVIOUS
    <2>1. r.task \in Tasks /\ inbox[i].expected \in Nat
      BY <1>1, InboxAssumption DEF Intents, Rows
    <2>2. i \in writers <=> Written(r.task, i) # {}
      BY DEF Written
    <2>3. Written(r.task, i) = IF inbox[i].outcome.status = "accepted"
                               THEN (inbox[i].expected + 1)..inbox[i].outcome.version
                               ELSE {}
      BY <1>1, <2>1 DEF InboxInv, AppliedAsSeen
    <2>4. inbox[i].outcome.status = "accepted" =>
            inbox[i].outcome.version \in (inbox[i].expected + 1)..inbox[i].outcome.version
      <3> SUFFICES ASSUME inbox[i].outcome.status = "accepted"
                   PROVE  inbox[i].outcome.version
                            \in (inbox[i].expected + 1)..inbox[i].outcome.version
        OBVIOUS
      <3>1. RowStands(inbox[i]) /\ inbox[i].outcome \in Outcomes
        BY <1>1 DEF InboxInv, RowsStand, Rows
      <3>2. /\ inbox[i].outcome.events \in Nat \ {0}
            /\ inbox[i].outcome.version = inbox[i].expected + inbox[i].outcome.events
        BY <3>1, InboxAssumption DEF RowStands, Outcomes
      <3> QED
        BY <2>1, <3>2
    <2> QED
      BY <2>2, <2>3, <2>4
  <1> HIDE DEF writers
  <1>7. CASE \E i \in RowsOf(r) : inbox[i].outcome.status = "accepted"
    <2>1. PICK i \in RowsOf(r) : inbox[i].outcome.status = "accepted"
      BY <1>7
    <2>2. writers = {i}
      BY <1>2, <1>6, <2>1 DEF writers
    <2> QED
      BY <1>2, <1>3, <1>4, <1>5, <1>7, <2>2, FS_Singleton
  <1>8. CASE ~ \E i \in RowsOf(r) : inbox[i].outcome.status = "accepted"
    <2>1. writers = {}
      BY <1>6, <1>8 DEF writers
    <2> QED
      BY <1>2, <1>3, <1>4, <1>5, <1>8, <2>1, FS_EmptySet
  <1> QED
    BY <1>7, <1>8

\* A command that gets a row decides its request and no other one.
LEMMA DecidesNow ==
  ASSUME Typed, Mapped, Mapped', NEW c \in Commands, Fresh(c), NEW o \in Outcomes, Finish(c, o)
  PROVE  Contract!Next
  <1> DEFINE r == Intent(c)
  <1>1. r \in Intents /\ c.id \in Ids /\ c # NoRow
    BY NoRowAssumption DEF Intent, Intents, Commands
  <1>2. /\ inbox[c.id] = NoRow /\ inbox'[c.id] # NoRow
        /\ Intent(inbox'[c.id]) = r /\ inbox'[c.id].outcome = o
        /\ \A i \in Ids : i # c.id => inbox'[i] = inbox[i]
        /\ answer' = [cmd |-> c, outcome |-> o]
    <2>1. inbox'[c.id] = [task |-> c.task, key |-> c.key, body |-> c.body,
                          expected |-> c.expected, outcome |-> o]
      BY Recorded
    <2>2. Intent(inbox'[c.id]) = r /\ inbox'[c.id].outcome = o
      BY <2>1 DEF Intent
    <2> HIDE DEF r
    <2> QED
      BY <2>2, Recorded
  <1>3. RowsOf(r) = {}
    <2>1. \A i \in Ids : inbox[i] # NoRow => ~SameKey(inbox[i], c)
      BY Recorded
    <2> QED
      BY <2>1 DEF RowsOf, SameKey, Intent
  <1> HIDE DEF r
  <1>4. RowsOf(r)' = {c.id}
    <2>1. c.id \in RowsOf(r)'
      BY <1>1, <1>2 DEF RowsOf
    <2> QED
      BY <1>1, <1>2, <1>3, <2>1 DEF RowsOf
  <1>5. \A s \in Intents : s # r => RowsOf(s)' = RowsOf(s)
    BY <1>1, <1>2 DEF RowsOf
  <1>6. Decided[r] = NoRow /\ Effects[r] = 0
    BY <1>1, <1>3 DEF Mapped
  <1>7. Decided'[r] = o /\ Effects'[r] = IF o.status = "accepted" THEN 1 ELSE 0
    <2>1. Decided'[r] = inbox'[c.id].outcome
      BY <1>1, <1>4 DEF Mapped
    <2>2. (\E i \in RowsOf(r)' : inbox'[i].outcome.status = "accepted") <=> o.status = "accepted"
      BY <1>2, <1>4
    <2>3. Effects'[r] = IF \E i \in RowsOf(r)' : inbox'[i].outcome.status = "accepted"
                        THEN 1 ELSE 0
      BY <1>1 DEF Mapped
    <2> QED
      BY <1>2, <2>1, <2>2, <2>3
  <1>8. ASSUME NEW s \in Intents, s # r
        PROVE  Decided'[s] = Decided[s] /\ Effects'[s] = Effects[s]
    <2>1. \A i \in RowsOf(s) : inbox'[i] = inbox[i]
      BY <1>2 DEF RowsOf
    <2>2. RowsOf(s)' = RowsOf(s)
      BY <1>5, <1>8
    <2>3. Decided'[s] = Decided[s]
      <3>1. CASE RowsOf(s) = {}
        BY <2>2, <3>1 DEF Mapped
      <3>2. CASE RowsOf(s) # {}
        <4>1. PICK i \in RowsOf(s) : TRUE
          BY <3>2
        <4> QED
          BY <2>1, <2>2, <4>1 DEF Mapped
      <3> QED
        BY <3>1, <3>2
    <2>4. (\E i \in RowsOf(s)' : inbox'[i].outcome.status = "accepted")
            <=> \E i \in RowsOf(s) : inbox[i].outcome.status = "accepted"
      BY <2>1, <2>2
    <2>5. /\ Effects'[s] = IF \E i \in RowsOf(s)' : inbox'[i].outcome.status = "accepted"
                           THEN 1 ELSE 0
          /\ Effects[s] = IF \E i \in RowsOf(s) : inbox[i].outcome.status = "accepted"
                          THEN 1 ELSE 0
      BY DEF Mapped
    <2> QED
      BY <2>3, <2>4, <2>5
  <1>9. /\ Decided = [s \in Intents |-> Decided[s]] /\ Decided' = [s \in Intents |-> Decided'[s]]
        /\ Effects = [s \in Intents |-> Effects[s]] /\ Effects' = [s \in Intents |-> Effects'[s]]
    BY DEF Decided, Effects
  <1>10. Decided' = [Decided EXCEPT ![r] = o]
    BY <1>1, <1>7, <1>8, <1>9
  <1>11. Effects' = [Effects EXCEPT ![r] = IF o.status = "accepted" THEN @ + 1 ELSE @]
    BY <1>1, <1>6, <1>7, <1>8, <1>9
  <1>12. Told' = <<r, o>>
    BY <1>1, <1>2 DEF Told, r
  <1>13. Contract!Decide(r, o)
    BY <1>6, <1>10, <1>11 DEF Contract!Decide
  <1>14. Contract!Answer(r, Told'[2])
    BY <1>12, <1>13 DEF Contract!Answer
  <1> QED
    BY <1>1, <1>14 DEF Contract!Next

\* A command that matches a row is answered by the decision of its request, or refused;
\* the row's facts are found to hold.
LEMMA RepeatsNow ==
  ASSUME InboxInv, Mapped, NEW c \in Commands, Replay(c)
  PROVE  Contract!Next
  <1> DEFINE r == Intent(c)
  <1>1. r \in Intents /\ c # NoRow
    BY NoRowAssumption DEF Intent, Intents, Commands
  <1>2. UNCHANGED <<inbox, stream>> /\ answer' = [cmd |-> c, outcome |-> Lookup(c)]
    BY DEF Replay, Answer
  <1>3. Told' = <<r, Lookup(c)>>
    BY <1>1, <1>2 DEF Told
  <1>4. UNCHANGED <<Decided, Effects>>
    BY <1>2 DEF Decided, Effects, RowsOf
  <1>5. Lookup(c) = Failure("conflict") \/ (Decided[r] # NoRow /\ Lookup(c) = Decided[r])
    <2> DEFINE i == CHOOSE i \in Matching(c) : TRUE
    <2>1. i \in Matching(c)
      BY DEF Replay, Fresh
    <2>2. i \in Ids /\ inbox[i] # NoRow /\ inbox[i] \in Rows
      BY <2>1 DEF Matching, InboxInv, Typed
    <2>3. Lookup(c) = IF Cardinality(Matching(c)) # 1 THEN Failure("conflict")
                      ELSE IF ~Replays(c, i) THEN Failure("conflict")
                      ELSE IF FactsHold(inbox[i]) THEN inbox[i].outcome
                      ELSE Failure("integrity")
      BY Zenon DEF Lookup
    <2> HIDE DEF i
    <2>4. FactsHold(inbox[i])
      BY <2>2, FactsOfRows DEF RowsHold
    <2>5. CASE Replays(c, i)
      <3>1. i \in RowsOf(r)
        BY <2>2, <2>5 DEF RowsOf, Replays, SameKey, Intent
      <3>2. Decided[r] = inbox[i].outcome
        BY <1>1, <3>1 DEF Mapped
      <3>3. inbox[i].outcome # NoRow
        BY <2>2, NoRowAssumption DEF Rows
      <3> QED
        BY <2>3, <2>4, <2>5, <3>2, <3>3
    <2> QED
      BY <2>3, <2>5
  <1> HIDE DEF r
  <1>6. Contract!Repeat(r, Lookup(c)) \/ Contract!Refuse(Lookup(c))
    BY <1>4, <1>5 DEF Contract!Repeat, Contract!Refuse
  <1>7. Contract!Answer(r, Told'[2])
    BY <1>3, <1>6 DEF Contract!Answer
  <1> QED
    BY <1>1, <1>7 DEF Contract!Next

LEMMA RefusesNow ==
  ASSUME NEW c \in Commands, RollBack(c)
  PROVE  Contract!Next
  <1>1. Intent(c) \in Intents /\ c # NoRow
    BY NoRowAssumption DEF Intent, Intents, Commands
  <1>2. UNCHANGED <<inbox, stream>> /\ answer' = [cmd |-> c, outcome |-> Failure("error")]
    BY DEF RollBack, Answer
  <1>3. Told' = <<Intent(c), Failure("error")>>
    BY <1>1, <1>2 DEF Told
  <1>4. UNCHANGED <<Decided, Effects>>
    BY <1>2 DEF Decided, Effects, RowsOf
  <1>5. Contract!Answer(Intent(c), Told'[2])
    BY <1>3, <1>4 DEF Contract!Answer, Contract!Refuse
  <1> QED
    BY <1>1, <1>5 DEF Contract!Next

LEMMA StepContract ==
  ASSUME InboxInv, Mapped, Mapped', [Next]_vars
  PROVE  [Contract!Next]_(Contract!vars)
  <1>1. CASE UNCHANGED vars
    BY <1>1 DEF vars, Contract!vars, Decided, Effects, Told, RowsOf
  <1>2. ASSUME NEW c \in Commands, Replay(c) PROVE Contract!Next
    BY <1>2, RepeatsNow
  <1>3. ASSUME NEW c \in Commands, RollBack(c) PROVE Contract!Next
    BY <1>3, RefusesNow
  <1>4. ASSUME NEW c \in Commands, RejectVersion(c) \/ RejectCommand(c) PROVE Contract!Next
    <2>1. PICK o \in Outcomes : Fresh(c) /\ Finish(c, o)
      BY <1>4, Rejects DEF InboxInv
    <2> QED
      BY <2>1, DecidesNow DEF InboxInv
  <1>5. ASSUME NEW c \in Commands, Accept(c) PROVE Contract!Next
    <2>1. PICK o \in Outcomes : Fresh(c) /\ Finish(c, o)
      BY <1>5, Accepts DEF InboxInv
    <2> QED
      BY <2>1, DecidesNow DEF InboxInv
  <1>6. ASSUME NEW t \in Tasks, AppendEvent(t) PROVE UNCHANGED Contract!vars
    <2>1. UNCHANGED <<inbox, answer>>
      BY <1>6 DEF AppendEvent
    <2>2. Decided' = Decided /\ Told' = Told /\ \A r \in Intents : RowsOf(r)' = RowsOf(r)
      BY <2>1 DEF Decided, Told, RowsOf
    <2>3. \A r \in Intents : Effects'[r] = Effects[r]
      BY <2>1, <2>2 DEF Mapped
    <2>4. Effects = [s \in Intents |-> Effects[s]] /\ Effects' = [s \in Intents |-> Effects'[s]]
      BY DEF Effects
    <2>5. Effects' = Effects
      BY <2>3, <2>4
    <2> QED
      BY <2>2, <2>5 DEF Contract!vars
  <1> QED
    BY <1>1, <1>2, <1>3, <1>4, <1>5, <1>6 DEF Next

\* The inbox implements the contract, for any number of commands, retries and ids: a
\* request is decided once and applied at most once, every answer but a refusal is the
\* decision, and the answer to a repeated command is never a ProjectionIntegrity error
\* (transact_command_inner, stored_command_outcome, validate_stored_command_facts).
THEOREM DecidesOnce == Spec => DecidedOnce
  <1>1. Init => Contract!Init
    <2> SUFFICES ASSUME Init PROVE Contract!Init
      OBVIOUS
    <2>1. InboxInv /\ Mapped
      BY InitInbox, InboxMapped
    <2>2. \A r \in Intents : RowsOf(r) = {}
      BY DEF Init, RowsOf
    <2>3. \A r \in Intents : Decided[r] = NoRow /\ Effects[r] = 0
      BY <2>1, <2>2 DEF Mapped
    <2>4. Decided = [s \in Intents |-> Decided[s]] /\ Effects = [s \in Intents |-> Effects[s]]
      BY DEF Decided, Effects
    <2>5. Told[1] = NoRow
      BY DEF Init, Told
    <2> QED
      BY <2>3, <2>4, <2>5, NoRowAssumption DEF Contract!Init
  <1>2. InboxInv /\ Mapped /\ Mapped' /\ [Next]_vars => [Contract!Next]_(Contract!vars)
    BY StepContract
  <1> QED
    BY <1>1, <1>2, InboxInvariant, InboxMapped, PTL DEF Spec, DecidedOnce, Contract!Spec
=============================================================================
