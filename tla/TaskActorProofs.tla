--------------------------- MODULE TaskActorProofs ---------------------------
(***************************************************************************)
(* Theorems about a task, its actor and the engines of its segments, for   *)
(* any queue items and limit, and any number of segments, edits, crashes,  *)
(* faults and outrun transactions.                                         *)
(***************************************************************************)
EXTENDS TaskActor, FiniteSetTheorems, TLAPS

-----------------------------------------------------------------------------
(* Sound projections, and what a transaction makes of the current segment *)

\* A run waits for the interaction that is pending.
Waits(p) ==
  /\ p.run = "waiting_permission" <=> p.pending = "permission"
  /\ p.run = "waiting_input" <=> p.pending = "question"

\* At most one message is promoted, the run yields to it and there is room for its segment.
Owned(p) ==
  /\ \A i, j \in Promoting(p) : i = j
  /\ Promoting(p) # {} => p.run = "yielding" /\ p.seg < MaxSegs

\* The active run is that of the last segment, which has not ended.
Numbered(p) ==
  /\ IsActive(p) => p.seg \in Segs /\ p.ended[p.seg] = "none"
  /\ \A s \in Segs : s > p.seg => p.ended[s] = "none"

Sound(p) == p \in Projection /\ p.run # "refused" /\ Waits(p) /\ Owned(p) /\ Numbered(p)

\* The run goes on, begins, ends, hands over to the next one, or is given up.
Stays(p, q) == q.seg = p.seg /\ q.ended = p.ended /\ (IsActive(q) <=> IsActive(p))
Starts(p, q) == ~IsActive(p) /\ q.seg = p.seg + 1 /\ q.ended = p.ended /\ IsActive(q)
Ends(p, q, reason) ==
  q.seg = p.seg /\ q.ended = [p.ended EXCEPT ![p.seg] = reason] /\ ~IsActive(q)
Passes(p, q, reason) ==
  q.seg = p.seg + 1 /\ q.ended = [p.ended EXCEPT ![p.seg] = reason] /\ IsActive(q)
GivesUp(p, q) == q.seg = p.seg /\ q.ended = p.ended /\ ~IsActive(q)

\* QueueItemsFinal of one transaction.
Finals(p, q) ==
  \A i \in Items :
    /\ p.item[i] = "promoting" => q.rev[i] = p.rev[i]
    /\ p.item[i] \in {"consumed", "deleted"} => q.item[i] = p.item[i] /\ q.by[i] = p.by[i]

\* No message comes into the queue.
Shrinks(p, q) == Queue(q) \subseteq Queue(p)

\* A run that has just begun.
Fresh(q) == q.run = "running" /\ q.mode = "none"

-----------------------------------------------------------------------------
(* The reducer: what each event makes of a projection *)

SameQueue(p, q) ==
  q.item = p.item /\ q.rev = p.rev /\ q.at = p.at /\ q.by = p.by /\ q.clock = p.clock

SameRun(p, q) ==
  /\ q.seg = p.seg /\ q.run = p.run /\ q.mode = p.mode /\ q.reason = p.reason
  /\ q.ended = p.ended /\ q.pending = p.pending

LEMMA States ==
  /\ {"none", "refused", "running", "waiting_permission", "waiting_input", "yielding",
      "completed", "failed", "interrupted"} \subseteq RunStates
  /\ ActiveStates \subseteq RunStates /\ "refused" \notin ActiveStates
  /\ {"none", "completed", "failed", "superseded", "forced_interruption",
      "interrupted_by_restart", "cancelled"} \subseteq Reasons
  /\ {"absent", "queued", "promoting", "consumed", "deleted"} \subseteq ItemStates
  BY DEF RunStates, ActiveStates, TerminalStates, Reasons, ItemStates

LEMMA Refusal ==
  ASSUME NEW p \in Projection
  PROVE  [p EXCEPT !.run = "refused"] \in Projection
  BY States DEF Projection

\* What Reduce returns, for any event.
LEMMA Reduces ==
  ASSUME NEW p \in Projection, NEW accepted \in BOOLEAN, NEW r
  PROVE  IF p.run # "refused" /\ accepted THEN Reduce(p, accepted, r) = r
         ELSE Reduce(p, accepted, r) \in Projection /\ Reduce(p, accepted, r).run = "refused"
  <1>1. [p EXCEPT !.run = "refused"].run = "refused"
    BY DEF Projection
  <1> QED
    BY <1>1, Refusal DEF Reduce

LEMMA RunStartedDoes ==
  ASSUME NEW p \in Projection, p.seg < MaxSegs, NEW q, q = RunStarted(p)
  PROVE  /\ q \in Projection
         /\ IF p.run # "refused" /\ p.pending = "none" /\ ~IsActive(p)
            THEN /\ q.seg = p.seg + 1 /\ q.run = "running" /\ q.mode = "none"
                 /\ q.reason = "none" /\ q.ended = p.ended /\ q.pending = p.pending
                 /\ SameQueue(p, q)
            ELSE q.run = "refused"
  <1> DEFINE a == p.pending = "none" /\ ~IsActive(p)
             r == [p EXCEPT !.seg = p.seg + 1, !.run = "running", !.mode = "none",
                            !.reason = "none"]
  <1>1. q = Reduce(p, a, r)
    BY DEF RunStarted
  <1>2. a \in BOOLEAN
    OBVIOUS
  <1>3. p.seg + 1 \in 0..MaxSegs
    BY MaxSegsAssumption DEF Projection
  <1>4. /\ r \in Projection
        /\ r.seg = p.seg + 1 /\ r.run = "running" /\ r.mode = "none"
        /\ r.reason = "none" /\ r.ended = p.ended /\ r.pending = p.pending
        /\ SameQueue(p, r)
    BY <1>3, States DEF Projection, SameQueue
  <1> HIDE DEF r
  <1> QED
    BY <1>1, <1>2, <1>4, Reduces

LEMMA RunCompletedDoes ==
  ASSUME NEW p \in Projection, NEW s \in Segs, NEW reason \in Reasons, NEW q,
         q = RunCompleted(p, s, reason)
  PROVE  /\ q \in Projection
         /\ IF p.pending = "none" /\ p.seg = s /\ p.run \in {"running", "yielding"}
            THEN /\ q.seg = p.seg /\ q.run = TerminalState(reason) /\ q.mode = p.mode
                 /\ q.reason = reason /\ q.ended = [p.ended EXCEPT ![s] = reason]
                 /\ q.pending = p.pending /\ SameQueue(p, q)
            ELSE q.run = "refused"
  <1> DEFINE a == p.pending = "none" /\ p.seg = s /\ p.run \in {"running", "yielding"}
             e == [p.ended EXCEPT ![s] = reason]
             t == TerminalState(reason)
             r == [p EXCEPT !.run = t, !.reason = reason, !.ended = e]
  <1>1. q = Reduce(p, a, r)
    BY DEF RunCompleted
  <1>2. a \in BOOLEAN
    OBVIOUS
  <1>3. t \in RunStates /\ e \in [Segs -> Reasons]
    BY States DEF Projection, TerminalState
  <1> HIDE DEF t, e
  <1>4. /\ r \in Projection
        /\ r.seg = p.seg /\ r.run = t /\ r.mode = p.mode
        /\ r.reason = reason /\ r.ended = e /\ r.pending = p.pending /\ SameQueue(p, r)
    BY <1>3 DEF Projection, SameQueue
  <1> HIDE DEF r, a
  <1>5. IF p.run # "refused" /\ a THEN q = r ELSE q \in Projection /\ q.run = "refused"
    BY <1>1, <1>2, Reduces
  <1>6. a <=> p.pending = "none" /\ p.seg = s /\ p.run \in {"running", "yielding"}
    BY DEF a
  <1> QED
    BY <1>4, <1>5, <1>6 DEF t, e

LEMMA RunYieldRequestedDoes ==
  ASSUME NEW p \in Projection, NEW mode \in Modes, NEW q, q = RunYieldRequested(p, mode)
  PROVE  /\ q \in Projection
         /\ IF p.run = "running"
            THEN /\ q.seg = p.seg /\ q.run = "yielding" /\ q.mode = mode
                 /\ q.reason = p.reason /\ q.ended = p.ended /\ q.pending = p.pending
                 /\ SameQueue(p, q)
            ELSE q.run = "refused"
  <1> DEFINE a == p.run = "running"
             r == [p EXCEPT !.run = "yielding", !.mode = mode]
  <1>1. q = Reduce(p, a, r)
    BY DEF RunYieldRequested
  <1>2. /\ r \in Projection
        /\ r.seg = p.seg /\ r.run = "yielding" /\ r.mode = mode
        /\ r.reason = p.reason /\ r.ended = p.ended /\ r.pending = p.pending /\ SameQueue(p, r)
    BY States DEF Projection, SameQueue, Modes
  <1> HIDE DEF r
  <1> QED
    BY <1>1, <1>2, Reduces

\* The events that only assert something of the run.
LEMMA AssertionsDo ==
  ASSUME NEW p \in Projection, NEW s, NEW mode, NEW q,
         \/ q = RunSafePointReached(p, s, mode)
         \/ q = RunForceStopTimedOut(p, s)
  PROVE  q \in Projection /\ (q = p \/ q.run = "refused")
  <1>1. CASE q = RunSafePointReached(p, s, mode)
    <2> DEFINE a == p.seg = s /\ p.run = "yielding" /\ p.mode = mode
    <2>1. q = Reduce(p, a, p) /\ a \in BOOLEAN
      BY <1>1 DEF RunSafePointReached
    <2> HIDE DEF a
    <2> QED
      BY <2>1, Reduces
  <1>2. CASE q = RunForceStopTimedOut(p, s)
    <2> DEFINE a == p.seg = s /\ p.run = "yielding" /\ p.mode = "force_stop"
    <2>1. q = Reduce(p, a, p) /\ a \in BOOLEAN
      BY <1>2 DEF RunForceStopTimedOut
    <2> HIDE DEF a
    <2> QED
      BY <2>1, Reduces
  <1> QED
    BY <1>1, <1>2

LEMMA InteractionRequestedDoes ==
  ASSUME NEW p \in Projection, NEW kind \in {"permission", "question"}, NEW q,
         q = InteractionRequested(p, kind)
  PROVE  /\ q \in Projection
         /\ IF p.pending = "none" /\ p.run = "running"
            THEN /\ q.seg = p.seg /\ q.run = WaitingFor(kind) /\ q.mode = p.mode
                 /\ q.reason = p.reason /\ q.ended = p.ended /\ q.pending = kind
                 /\ SameQueue(p, q)
            ELSE q.run = "refused"
  <1> DEFINE a == p.pending = "none" /\ p.run = "running"
             w == WaitingFor(kind)
             r == [p EXCEPT !.pending = kind, !.run = w]
  <1>1. q = Reduce(p, a, r)
    BY DEF InteractionRequested
  <1>2. w \in RunStates
    BY States DEF WaitingFor
  <1> HIDE DEF w
  <1>3. /\ r \in Projection
        /\ r.seg = p.seg /\ r.run = w /\ r.mode = p.mode
        /\ r.reason = p.reason /\ r.ended = p.ended /\ r.pending = kind /\ SameQueue(p, r)
    BY <1>2 DEF Projection, SameQueue
  <1> HIDE DEF r
  <1> QED
    BY <1>1, <1>3, Reduces DEF w

LEMMA InteractionClosedDoes ==
  ASSUME NEW p \in Projection, NEW q, q = InteractionClosed(p)
  PROVE  /\ q \in Projection
         /\ IF p.pending # "none" /\ p.run = WaitingFor(p.pending)
            THEN /\ q.seg = p.seg /\ q.run = "running" /\ q.mode = p.mode
                 /\ q.reason = p.reason /\ q.ended = p.ended /\ q.pending = "none"
                 /\ SameQueue(p, q)
            ELSE q.run = "refused"
  <1> DEFINE a == p.pending # "none" /\ p.run = WaitingFor(p.pending)
             r == [p EXCEPT !.pending = "none", !.run = "running"]
  <1>1. q = Reduce(p, a, r)
    BY DEF InteractionClosed
  <1>2. /\ r \in Projection
        /\ r.seg = p.seg /\ r.run = "running" /\ r.mode = p.mode
        /\ r.reason = p.reason /\ r.ended = p.ended /\ r.pending = "none" /\ SameQueue(p, r)
    BY States DEF Projection, SameQueue
  <1>3. a => p.run # "refused"
    BY DEF WaitingFor
  <1> HIDE DEF r
  <1> QED
    BY <1>1, <1>2, <1>3, Reduces

LEMMA MessageQueuedDoes ==
  ASSUME NEW p \in Projection, NEW i \in Items, NEW q, q = MessageQueued(p, i)
  PROVE  /\ q \in Projection
         /\ IF p.run # "refused" /\ Cardinality(Queue(p)) < QueueLimit /\ i \notin Queue(p)
            THEN /\ SameRun(p, q) /\ q.item = [p.item EXCEPT ![i] = "queued"]
                 /\ q.rev = [p.rev EXCEPT ![i] = 1] /\ q.by = p.by
            ELSE q.run = "refused"
  <1> DEFINE a == Cardinality(Queue(p)) < QueueLimit /\ i \notin Queue(p)
             n == p.clock + 1
             x == [p.item EXCEPT ![i] = "queued"]
             y == [p.rev EXCEPT ![i] = 1]
             z == [p.at EXCEPT ![i] = n]
             r == [p EXCEPT !.item = x, !.rev = y, !.at = z, !.clock = n]
  <1>1. q = Reduce(p, a, r)
    BY DEF MessageQueued
  <1>2. a \in BOOLEAN
    OBVIOUS
  <1>3. n \in Nat
    BY DEF Projection
  <1> HIDE DEF n
  <1>4. x \in [Items -> ItemStates] /\ y \in [Items -> Nat] /\ z \in [Items -> Nat]
    BY <1>3, States DEF Projection
  <1> HIDE DEF x, y, z
  <1>5. r \in Projection /\ SameRun(p, r) /\ r.item = x /\ r.rev = y /\ r.by = p.by
    BY <1>3, <1>4 DEF Projection, SameRun
  <1> HIDE DEF r, a
  <1>6. IF p.run # "refused" /\ a THEN q = r ELSE q \in Projection /\ q.run = "refused"
    BY <1>1, <1>2, Reduces
  <1>7. a <=> Cardinality(Queue(p)) < QueueLimit /\ i \notin Queue(p)
    BY DEF a
  <1> QED
    BY <1>5, <1>6, <1>7 DEF x, y

\* The events that move one item of the queue and leave its revision alone.
LEMMA ItemMoved ==
  ASSUME NEW p \in Projection, NEW i \in Items, NEW st \in ItemStates, NEW a \in BOOLEAN, NEW q,
         q = Reduce(p, a, [p EXCEPT !.item[i] = st])
  PROVE  /\ q \in Projection
         /\ IF p.run # "refused" /\ a
            THEN /\ SameRun(p, q) /\ q.item = [p.item EXCEPT ![i] = st]
                 /\ q.rev = p.rev /\ q.by = p.by
            ELSE q.run = "refused"
  <1> DEFINE x == [p.item EXCEPT ![i] = st]
             r == [p EXCEPT !.item = x]
  <1>1. q = Reduce(p, a, r)
    OBVIOUS
  <1>2. x \in [Items -> ItemStates]
    BY DEF Projection
  <1> HIDE DEF x
  <1>3. r \in Projection /\ SameRun(p, r) /\ r.item = x /\ r.rev = p.rev /\ r.by = p.by
    BY <1>2 DEF Projection, SameRun
  <1> HIDE DEF r
  <1> QED
    BY <1>1, <1>3, Reduces DEF x

LEMMA MessageEditedDoes ==
  ASSUME NEW p \in Projection, NEW i \in Items, NEW rev \in Nat, NEW q,
         q = MessageEdited(p, i, rev)
  PROVE  /\ q \in Projection
         /\ IF p.run # "refused" /\ p.item[i] = "queued" /\ rev = p.rev[i] + 1
            THEN /\ SameRun(p, q) /\ q.item = p.item
                 /\ q.rev = [p.rev EXCEPT ![i] = rev] /\ q.by = p.by
            ELSE q.run = "refused"
  <1> DEFINE a == p.item[i] = "queued" /\ rev = p.rev[i] + 1
             x == [p.rev EXCEPT ![i] = rev]
             r == [p EXCEPT !.rev = x]
  <1>1. q = Reduce(p, a, r)
    BY DEF MessageEdited
  <1>2. x \in [Items -> Nat]
    BY DEF Projection
  <1> HIDE DEF x
  <1>3. r \in Projection /\ SameRun(p, r) /\ r.item = p.item /\ r.rev = x /\ r.by = p.by
    BY <1>2 DEF Projection, SameRun
  <1>4. a \in BOOLEAN
    OBVIOUS
  <1> HIDE DEF r, a
  <1>5. IF p.run # "refused" /\ a THEN q = r ELSE q \in Projection /\ q.run = "refused"
    BY <1>1, <1>4, Reduces
  <1>6. a <=> p.item[i] = "queued" /\ rev = p.rev[i] + 1
    BY DEF a
  <1> QED
    BY <1>3, <1>5, <1>6 DEF x

LEMMA MessageConsumedDoes ==
  ASSUME NEW p \in Projection, NEW i \in Items, NEW rev, NEW s \in Segs, NEW q,
         q = MessageConsumed(p, i, rev, s)
  PROVE  /\ q \in Projection
         /\ IF p.run = "running" /\ p.seg = s /\ i \in Queue(p) /\ rev = p.rev[i]
            THEN /\ SameRun(p, q) /\ q.item = [p.item EXCEPT ![i] = "consumed"]
                 /\ q.rev = p.rev /\ q.by = [p.by EXCEPT ![i] = s]
            ELSE q.run = "refused"
  <1> DEFINE a == p.run = "running" /\ p.seg = s /\ i \in Queue(p) /\ rev = p.rev[i]
             x == [p.item EXCEPT ![i] = "consumed"]
             y == [p.by EXCEPT ![i] = s]
             r == [p EXCEPT !.item = x, !.by = y]
  <1>1. q = Reduce(p, a, r)
    BY DEF MessageConsumed
  <1>2. a \in BOOLEAN
    OBVIOUS
  <1>3. x \in [Items -> ItemStates] /\ y \in [Items -> Nat]
    BY States DEF Projection, Segs
  <1> HIDE DEF x, y
  <1>4. r \in Projection /\ SameRun(p, r) /\ r.item = x /\ r.rev = p.rev /\ r.by = y
    BY <1>3 DEF Projection, SameRun
  <1> HIDE DEF r, a
  <1>5. IF p.run # "refused" /\ a THEN q = r ELSE q \in Projection /\ q.run = "refused"
    BY <1>1, <1>2, Reduces
  <1>6. a <=> p.run = "running" /\ p.seg = s /\ i \in Queue(p) /\ rev = p.rev[i]
    BY DEF a
  <1> QED
    BY <1>4, <1>5, <1>6 DEF x, y

LEMMA MessagePromotedDoes ==
  ASSUME NEW p \in Projection, NEW i \in Items, NEW rev, NEW q, q = MessagePromoted(p, i, rev)
  PROVE  /\ q \in Projection
         /\ IF p.run # "refused" /\ p.item[i] = "queued" /\ rev = p.rev[i]
            THEN /\ SameRun(p, q) /\ q.item = [p.item EXCEPT ![i] = "promoting"]
                 /\ q.rev = p.rev /\ q.by = p.by
            ELSE q.run = "refused"
  <1> DEFINE a == p.item[i] = "queued" /\ rev = p.rev[i]
  <1>1. q = Reduce(p, a, [p EXCEPT !.item[i] = "promoting"]) /\ a \in BOOLEAN
    BY DEF MessagePromoted
  <1>2. "promoting" \in ItemStates
    BY States
  <1> HIDE DEF a
  <1>3. /\ q \in Projection
        /\ IF p.run # "refused" /\ a
           THEN /\ SameRun(p, q) /\ q.item = [p.item EXCEPT ![i] = "promoting"]
                /\ q.rev = p.rev /\ q.by = p.by
           ELSE q.run = "refused"
    BY <1>1, <1>2, ItemMoved
  <1> QED
    BY <1>3 DEF a

LEMMA MessageRecoveredDoes ==
  ASSUME NEW p \in Projection, NEW i \in Items, NEW rev, NEW q, q = MessageRecovered(p, i, rev)
  PROVE  /\ q \in Projection
         /\ IF p.run # "refused" /\ p.item[i] = "promoting" /\ rev = p.rev[i]
            THEN /\ SameRun(p, q) /\ q.item = [p.item EXCEPT ![i] = "queued"]
                 /\ q.rev = p.rev /\ q.by = p.by
            ELSE q.run = "refused"
  <1> DEFINE a == p.item[i] = "promoting" /\ rev = p.rev[i]
  <1>1. q = Reduce(p, a, [p EXCEPT !.item[i] = "queued"]) /\ a \in BOOLEAN
    BY DEF MessageRecovered
  <1>2. "queued" \in ItemStates
    BY States
  <1> HIDE DEF a
  <1>3. /\ q \in Projection
        /\ IF p.run # "refused" /\ a
           THEN /\ SameRun(p, q) /\ q.item = [p.item EXCEPT ![i] = "queued"]
                /\ q.rev = p.rev /\ q.by = p.by
           ELSE q.run = "refused"
    BY <1>1, <1>2, ItemMoved
  <1> QED
    BY <1>3 DEF a

LEMMA MessageDeletedDoes ==
  ASSUME NEW p \in Projection, NEW i \in Items, NEW rev, NEW q, q = MessageDeleted(p, i, rev)
  PROVE  /\ q \in Projection
         /\ IF p.run # "refused" /\ p.item[i] = "queued" /\ rev = p.rev[i]
            THEN /\ SameRun(p, q) /\ q.item = [p.item EXCEPT ![i] = "deleted"]
                 /\ q.rev = p.rev /\ q.by = p.by
            ELSE q.run = "refused"
  <1> DEFINE a == p.item[i] = "queued" /\ rev = p.rev[i]
  <1>1. q = Reduce(p, a, [p EXCEPT !.item[i] = "deleted"]) /\ a \in BOOLEAN
    BY DEF MessageDeleted
  <1>2. "deleted" \in ItemStates
    BY States
  <1> HIDE DEF a
  <1>3. /\ q \in Projection
        /\ IF p.run # "refused" /\ a
           THEN /\ SameRun(p, q) /\ q.item = [p.item EXCEPT ![i] = "deleted"]
                /\ q.rev = p.rev /\ q.by = p.by
           ELSE q.run = "refused"
    BY <1>1, <1>2, ItemMoved
  <1> QED
    BY <1>3 DEF a

LEMMA InvalidatedDoes ==
  ASSUME NEW p \in Projection, Waits(p), NEW q, q = Invalidated(p)
  PROVE  /\ q \in Projection /\ q.seg = p.seg /\ q.mode = p.mode /\ q.reason = p.reason
         /\ q.ended = p.ended /\ q.pending = "none" /\ SameQueue(p, q)
         /\ q.run = IF p.pending = "none" THEN p.run ELSE "running"
  <1>1. CASE p.pending = "none"
    BY <1>1 DEF Invalidated, SameQueue
  <1>2. CASE p.pending # "none"
    <2>1. p.pending \in {"permission", "question"}
      BY <1>2 DEF Projection
    <2>2. p.run = WaitingFor(p.pending)
      BY <2>1 DEF Waits, WaitingFor
    <2> QED
      BY <1>2, <2>2, InteractionClosedDoes DEF Invalidated
  <1> QED
    BY <1>1, <1>2

\* The message that a run was yielding to is back in the queue.
LEMMA AllRecoveredDoes ==
  ASSUME NEW p \in Projection, \A i, j \in Promoting(p) : i = j, NEW q, q = AllRecovered(p)
  PROVE  /\ q \in Projection
         /\ IF p.run = "refused" THEN q.run = "refused"
            ELSE /\ SameRun(p, q) /\ q.rev = p.rev /\ q.by = p.by
                 /\ \A i \in Items : q.item[i] = IF p.item[i] = "promoting" THEN "queued"
                                                 ELSE p.item[i]
  <1>1. CASE Promoting(p) = {}
    <2>1. q = p
      BY <1>1 DEF AllRecovered
    <2>2. \A i \in Items : p.item[i] # "promoting"
      BY <1>1 DEF Promoting
    <2> QED
      BY <2>1, <2>2 DEF SameRun
  <1>2. CASE Promoting(p) # {}
    <2> DEFINE i == CHOOSE j \in Promoting(p) : TRUE
    <2>1. i \in Promoting(p)
      BY <1>2
    <2>2. q = MessageRecovered(p, i, p.rev[i])
      BY <1>2 DEF AllRecovered
    <2> HIDE DEF i
    <2>3. i \in Items /\ p.item[i] = "promoting"
      BY <2>1 DEF Promoting
    <2>4. \A j \in Items : p.item[j] = "promoting" => j = i
      BY <2>1 DEF Promoting
    <2>5. /\ q \in Projection
          /\ IF p.run # "refused"
             THEN /\ SameRun(p, q) /\ q.item = [p.item EXCEPT ![i] = "queued"]
                  /\ q.rev = p.rev /\ q.by = p.by
             ELSE q.run = "refused"
      BY <2>2, <2>3, MessageRecoveredDoes
    <2>6. p.item \in [Items -> ItemStates]
      BY DEF Projection
    <2> QED
      BY <2>3, <2>4, <2>5, <2>6
  <1> QED
    BY <1>1, <1>2

-----------------------------------------------------------------------------
(* Transactions on a sound projection *)

LEMMA QueueTransaction ==
  ASSUME NEW p, Sound(p), NEW i \in Items, p.item[i] = "absent",
         Cardinality(Queue(p)) < QueueLimit, NEW q, q = MessageQueued(p, i)
  PROVE  Sound(q) /\ Stays(p, q) /\ Finals(p, q)
  <1>1. p \in Projection /\ i \notin Queue(p) /\ p.run # "refused"
    BY DEF Sound, Queue
  <1>2. /\ q \in Projection
        /\ SameRun(p, q) /\ q.item = [p.item EXCEPT ![i] = "queued"]
        /\ q.rev = [p.rev EXCEPT ![i] = 1] /\ q.by = p.by
    BY <1>1, MessageQueuedDoes
  <1> QED
    BY <1>1, <1>2 DEF Sound, SameRun, Waits, Owned, Numbered, Stays, Finals, IsActive, Promoting,
                      Projection

LEMMA EditTransaction ==
  ASSUME NEW p, Sound(p), NEW i \in Items, p.item[i] = "queued", NEW q,
         q = MessageEdited(p, i, p.rev[i] + 1) \/ q = MessageDeleted(p, i, p.rev[i])
  PROVE  Sound(q) /\ Stays(p, q) /\ Finals(p, q)
  <1>1. p \in Projection /\ p.run # "refused" /\ p.rev[i] + 1 \in Nat
    BY DEF Sound, Projection
  <1>2. /\ q \in Projection /\ SameRun(p, q) /\ q.by = p.by
        /\ q.item = p.item \/ q.item = [p.item EXCEPT ![i] = "deleted"]
        /\ \A j \in Items : j # i => q.rev[j] = p.rev[j]
    <2>1. CASE q = MessageEdited(p, i, p.rev[i] + 1)
      <3>1. /\ q \in Projection /\ SameRun(p, q) /\ q.item = p.item /\ q.by = p.by
            /\ q.rev = [p.rev EXCEPT ![i] = p.rev[i] + 1]
        BY <1>1, <2>1, MessageEditedDoes
      <3> QED
        BY <1>1, <3>1 DEF Projection
    <2>2. CASE q = MessageDeleted(p, i, p.rev[i])
      BY <1>1, <2>2, MessageDeletedDoes
    <2> QED
      BY <2>1, <2>2
  <1> QED
    BY <1>1, <1>2 DEF Sound, SameRun, Waits, Owned, Numbered, Stays, Finals, IsActive, Promoting,
                      Projection

LEMMA StartTransaction ==
  ASSUME NEW p, Sound(p), ~IsActive(p), p.seg < MaxSegs, NEW q, q = RunStarted(p)
  PROVE  Sound(q) /\ Starts(p, q) /\ Finals(p, q) /\ q.run = "running" /\ SameQueue(p, q)
         /\ Promoting(q) = {}
  <1>1. p \in Projection /\ p.run # "refused" /\ p.pending = "none" /\ Promoting(p) = {}
    BY DEF Sound, Waits, Owned, IsActive, ActiveStates, Projection
  <1>2. /\ q \in Projection /\ q.seg = p.seg + 1 /\ q.run = "running"
        /\ q.ended = p.ended /\ q.pending = p.pending /\ SameQueue(p, q)
    BY <1>1, RunStartedDoes
  <1>3. q.seg \in Segs /\ p.seg \in Nat
    BY <1>1, <1>2 DEF Segs, Projection
  <1>4. Promoting(q) = {}
    BY <1>1, <1>2 DEF Promoting, SameQueue
  <1>5. Waits(q) /\ Owned(q)
    BY <1>1, <1>2, <1>4 DEF Waits, Owned
  <1>6. Numbered(q)
    BY <1>2, <1>3 DEF Sound, Numbered, Segs
  <1>7. IsActive(q)
    BY <1>2 DEF IsActive, ActiveStates
  <1> QED
    BY <1>2, <1>4, <1>5, <1>6, <1>7 DEF Sound, Starts, Finals, SameQueue

\* A message of the queue is consumed by the run that has just begun.
LEMMA ConsumeTransaction ==
  ASSUME NEW p, Sound(p), p.run = "running", Promoting(p) \subseteq {}, NEW i \in Items, NEW rev,
         NEW q, q = MessageConsumed(p, i, rev, p.seg), q.run # "refused"
  PROVE  Sound(q) /\ Stays(p, q) /\ Finals(p, q) /\ q.run = "running"
  <1>1. p \in Projection /\ p.seg \in Segs
    BY DEF Sound, Numbered, IsActive, ActiveStates
  <1>2. /\ q \in Projection /\ SameRun(p, q) /\ q.item = [p.item EXCEPT ![i] = "consumed"]
        /\ q.rev = p.rev /\ q.by = [p.by EXCEPT ![i] = p.seg] /\ i \in Queue(p)
    BY <1>1, MessageConsumedDoes
  <1>3. p.item \in [Items -> ItemStates] /\ p.by \in [Items -> Nat]
    BY <1>1 DEF Projection
  <1>4. Promoting(q) = {}
    BY <1>2, <1>3 DEF Promoting
  <1>5. Finals(p, q)
    BY <1>2, <1>3 DEF Finals, Queue
  <1> QED
    BY <1>1, <1>2, <1>4, <1>5 DEF Sound, SameRun, Waits, Owned, Numbered, Stays, IsActive

LEMMA NextSegment ==
  ASSUME NEW p \in Projection, p.seg < MaxSegs
  PROVE  p.seg + 1 \in Segs
  BY MaxSegsAssumption DEF Projection, Segs

LEMMA SubmitTransaction ==
  ASSUME NEW p, Sound(p), ~IsActive(p), p.seg < MaxSegs, NEW i \in Items, p.item[i] = "absent",
         NEW q, q = SubmitAndStart(p, i)
  PROVE  q.run # "refused" => Sound(q) /\ Starts(p, q) /\ Finals(p, q)
  <1> DEFINE r == RunStarted(p)
             m == MessageQueued(r, i)
  <1>1. Sound(r) /\ Starts(p, r) /\ Finals(p, r) /\ r.run = "running" /\ SameQueue(p, r)
        /\ Promoting(r) = {}
    BY StartTransaction
  <1>2. q = MessageConsumed(m, i, 1, p.seg + 1)
    BY DEF SubmitAndStart
  <1> HIDE DEF r
  <1>3. r \in Projection /\ r.item[i] = "absent" /\ i \notin Queue(r)
    BY <1>1 DEF Sound, SameQueue, Queue
  <1>4. /\ m \in Projection
        /\ IF Cardinality(Queue(r)) < QueueLimit
           THEN /\ SameRun(r, m) /\ m.item = [r.item EXCEPT ![i] = "queued"]
                /\ m.rev = [r.rev EXCEPT ![i] = 1] /\ m.by = r.by
           ELSE m.run = "refused"
    BY <1>1, <1>3, MessageQueuedDoes
  <1>5. CASE Cardinality(Queue(r)) < QueueLimit
    <2>1. Sound(m) /\ Stays(r, m) /\ Finals(r, m)
      BY <1>1, <1>3, <1>5, QueueTransaction
    <2> HIDE DEF m
    <2>2. m.run = "running" /\ m.seg = p.seg + 1
      BY <1>1, <1>4, <1>5 DEF SameRun, Starts
    <2>3. Promoting(m) = {}
      BY <1>1, <1>3, <1>4, <1>5 DEF Promoting, Projection
    <2>4. q.run # "refused" => Sound(q) /\ Stays(m, q) /\ Finals(m, q)
      BY <1>2, <2>1, <2>2, <2>3, ConsumeTransaction
    <2>5. \A j \in Items : p.item[j] # "promoting"
      BY <1>1 DEF Promoting, SameQueue
    <2> QED
      BY <1>1, <2>1, <2>4, <2>5 DEF Starts, Stays, Finals
  <1>6. CASE ~(Cardinality(Queue(r)) < QueueLimit)
    <2>1. p.seg + 1 \in Segs
      BY NextSegment DEF Sound
    <2>2. m \in Projection /\ m.run = "refused"
      BY <1>4, <1>6
    <2> HIDE DEF m
    <2>3. q = [m EXCEPT !.run = "refused"]
      BY <1>2, <2>2 DEF MessageConsumed, Reduce
    <2>4. q.run = "refused"
      BY <2>2, <2>3 DEF Projection
    <2> QED
      BY <2>4
  <1> QED
    BY <1>5, <1>6

LEMMA ConsumeNextTransaction ==
  ASSUME NEW p, Sound(p), ~IsActive(p), p.seg < MaxSegs, NEW i \in Oldest(p),
         NEW q, q = ConsumeNext(p, i)
  PROVE  Sound(q) /\ Starts(p, q) /\ Finals(p, q)
  <1> DEFINE r == RunStarted(p)
  <1>1. Sound(r) /\ Starts(p, r) /\ Finals(p, r) /\ r.run = "running" /\ SameQueue(p, r)
        /\ Promoting(r) = {}
    BY StartTransaction
  <1>2. q = MessageConsumed(r, i, p.rev[i], p.seg + 1)
    BY DEF ConsumeNext
  <1> HIDE DEF r
  <1>3. /\ r \in Projection /\ r.seg = p.seg + 1 /\ p.seg + 1 \in Segs
        /\ i \in Items /\ i \in Queue(r) /\ p.rev[i] = r.rev[i]
    BY <1>1 DEF Sound, Starts, SameQueue, Queue, Oldest, Segs, Projection
  <1>4. q.run # "refused"
    <2>1. SameRun(r, q)
      BY <1>1, <1>2, <1>3, MessageConsumedDoes
    <2> QED
      BY <1>1, <2>1 DEF SameRun
  <1>5. Sound(q) /\ Stays(r, q) /\ Finals(r, q)
    BY <1>1, <1>2, <1>3, <1>4, ConsumeTransaction
  <1>6. \A j \in Items : p.item[j] # "promoting"
    BY <1>1 DEF Promoting, SameQueue
  <1> QED
    BY <1>1, <1>5, <1>6 DEF Starts, Stays, Finals

LEMMA StopTransaction ==
  ASSUME NEW p, Sound(p), Stoppable(p), NEW mode \in Modes, NEW q, q = StopEvents(p, mode)
  PROVE  Sound(q) /\ Stays(p, q) /\ Finals(p, q)
  <1> DEFINE r == Invalidated(p)
  <1>1. p \in Projection /\ Waits(p) /\ Promoting(p) = {}
    BY DEF Sound, Owned, Stoppable
  <1>2. /\ r \in Projection /\ r.seg = p.seg /\ r.ended = p.ended /\ r.pending = "none"
        /\ SameQueue(p, r) /\ r.run = "running"
    <2>1. p.pending = "none" => p.run = "running"
      BY DEF Sound, Waits, Stoppable
    <2> QED
      BY <1>1, <2>1, InvalidatedDoes
  <1>3. q = RunYieldRequested(r, mode)
    BY DEF StopEvents
  <1> HIDE DEF r
  <1>4. /\ q \in Projection /\ q.seg = p.seg /\ q.run = "yielding" /\ q.ended = p.ended
        /\ q.pending = "none" /\ SameQueue(p, q)
    BY <1>2, <1>3, RunYieldRequestedDoes DEF SameQueue
  <1>5. IsActive(p) /\ IsActive(q)
    BY <1>4 DEF Stoppable, IsActive, ActiveStates
  <1>6. Promoting(q) = {}
    BY <1>1, <1>4 DEF Promoting, SameQueue
  <1>7. Waits(q) /\ Owned(q) /\ Numbered(q)
    BY <1>4, <1>5, <1>6 DEF Sound, Waits, Owned, Numbered
  <1> QED
    BY <1>4, <1>5, <1>7 DEF Sound, Stays, Finals, SameQueue

LEMMA PromoteTransaction ==
  ASSUME NEW p, Sound(p), Stoppable(p), p.seg < MaxSegs, NEW i \in Items, p.item[i] = "queued",
         NEW mode \in Modes, NEW q, q = PromoteEvents(p, i, p.rev[i], mode)
  PROVE  Sound(q) /\ Stays(p, q) /\ Finals(p, q)
  <1> DEFINE r == Invalidated(p)
             m == MessagePromoted(r, i, p.rev[i])
  <1>1. p \in Projection /\ Waits(p) /\ Promoting(p) = {}
    BY DEF Sound, Owned, Stoppable
  <1>2. /\ r \in Projection /\ r.seg = p.seg /\ r.ended = p.ended /\ r.pending = "none"
        /\ SameQueue(p, r) /\ r.run = "running"
    <2>1. p.pending = "none" => p.run = "running"
      BY DEF Sound, Waits, Stoppable
    <2> QED
      BY <1>1, <2>1, InvalidatedDoes
  <1>3. q = RunYieldRequested(m, mode)
    BY DEF PromoteEvents
  <1> HIDE DEF r
  <1>4. /\ m \in Projection /\ SameRun(r, m) /\ m.item = [p.item EXCEPT ![i] = "promoting"]
        /\ m.rev = p.rev /\ m.by = p.by
    BY <1>2, MessagePromotedDoes DEF SameQueue
  <1> HIDE DEF m
  <1>5. /\ q \in Projection /\ q.seg = p.seg /\ q.run = "yielding" /\ q.ended = p.ended
        /\ q.pending = "none" /\ q.item = [p.item EXCEPT ![i] = "promoting"]
        /\ q.rev = p.rev /\ q.by = p.by
    BY <1>2, <1>3, <1>4, RunYieldRequestedDoes DEF SameQueue, SameRun
  <1>6. IsActive(p) /\ IsActive(q)
    BY <1>5 DEF Stoppable, IsActive, ActiveStates
  <1>7. p.item \in [Items -> ItemStates]
    BY <1>1 DEF Projection
  <1>8. Promoting(q) = {i}
    BY <1>1, <1>5, <1>7 DEF Promoting
  <1>9. Waits(q) /\ Owned(q) /\ Numbered(q)
    BY <1>5, <1>6, <1>8 DEF Sound, Waits, Owned, Numbered
  <1>10. Finals(p, q)
    BY <1>5, <1>7 DEF Finals
  <1> QED
    BY <1>5, <1>6, <1>9, <1>10 DEF Sound, Stays

\* r is p with its run ended, or refused.
Ended(p, r, reason) ==
  /\ r \in Projection
  /\ r.run = "refused" \/ /\ p.seg \in Segs /\ r.run \in TerminalStates /\ r.seg = p.seg
                          /\ r.ended = [p.ended EXCEPT ![p.seg] = reason]
                          /\ r.pending = "none" /\ SameQueue(p, r)

LEMMA EndedBy ==
  ASSUME NEW p \in Projection, NEW s \in Segs, NEW reason \in Reasons, NEW r,
         \/ r = RunCompleted(p, s, reason)
         \/ \E mode : r = RunCompleted(RunSafePointReached(p, s, mode), s, reason)
         \/ r = RunCompleted(RunForceStopTimedOut(p, s), s, reason)
  PROVE  Ended(p, r, reason)
  <1>1. PICK m \in Projection : r = RunCompleted(m, s, reason) /\ (m = p \/ m.run = "refused")
    BY AssertionsDo
  <1>2. /\ r \in Projection
        /\ IF m.pending = "none" /\ m.seg = s /\ m.run \in {"running", "yielding"}
           THEN /\ r.seg = m.seg /\ r.run = TerminalState(reason)
                /\ r.ended = [m.ended EXCEPT ![s] = reason]
                /\ r.pending = m.pending /\ SameQueue(m, r)
           ELSE r.run = "refused"
    BY <1>1, RunCompletedDoes
  <1>3. TerminalState(reason) \in TerminalStates
    BY DEF TerminalState, TerminalStates
  <1> QED
    BY <1>1, <1>2, <1>3 DEF Ended

LEMMA EndTransaction ==
  ASSUME NEW p, Sound(p), NEW reason \in Reasons, NEW q, Ended(p, q, reason),
         Promoting(p) = {}, q.run # "refused"
  PROVE  Sound(q) /\ Ends(p, q, reason) /\ Finals(p, q) /\ Shrinks(p, q)
  <1>1. ~IsActive(q)
    BY DEF Ended, IsActive, ActiveStates, TerminalStates
  <1>2. Waits(q)
    BY DEF Ended, Waits, TerminalStates
  <1>3. Promoting(q) = {} /\ Owned(q)
    BY DEF Ended, Owned, Promoting, SameQueue
  <1>4. Numbered(q)
    <2>1. p.seg \in Segs /\ q.seg = p.seg /\ q.ended = [p.ended EXCEPT ![p.seg] = reason]
      BY DEF Ended
    <2>2. \A s \in Segs : s > p.seg => s # p.seg /\ p.ended[s] = "none"
      BY <2>1 DEF Sound, Numbered, Segs
    <2>3. p.ended \in [Segs -> Reasons]
      BY DEF Sound, Projection
    <2> QED
      BY <1>1, <2>1, <2>2, <2>3 DEF Numbered
  <1>5. Finals(p, q) /\ Shrinks(p, q)
    BY DEF Finals, Shrinks, Queue, Ended, SameQueue
  <1> QED
    BY <1>1, <1>2, <1>3, <1>4, <1>5 DEF Sound, Ends, Ended

LEMMA HandoverTransaction ==
  ASSUME NEW p, Sound(p), NEW reason \in Reasons, NEW r, Ended(p, r, reason),
         NEW i \in Promoting(p), NEW q, q = Handover(r, i), q.run # "refused"
  PROVE  Sound(q) /\ Passes(p, q, reason) /\ Finals(p, q) /\ Shrinks(p, q) /\ Fresh(q)
  <1>1. r \in Projection /\ p.seg < MaxSegs /\ i \in Items /\ p \in Projection
    BY DEF Ended, Sound, Owned, Promoting
  <1>2. CASE r.run = "refused"
    <2> DEFINE m == RunStarted(r)
    <2>1. m \in Projection /\ m.run = "refused"
      <3>1. CASE r.seg < MaxSegs
        BY <1>1, <1>2, <3>1, RunStartedDoes
      <3>2. CASE ~(r.seg < MaxSegs)
        BY <1>1, <1>2, Refusal DEF RunStarted, Reduce, Projection
      <3> QED
        BY <3>1, <3>2
    <2>2. q = MessageConsumed(m, i, r.rev[i], r.seg + 1)
      BY DEF Handover
    <2> HIDE DEF m
    <2>3. q = [m EXCEPT !.run = "refused"]
      BY <2>1, <2>2 DEF MessageConsumed, Reduce
    <2>4. q.run = "refused"
      BY <2>1, <2>3 DEF Projection
    <2> QED
      BY <2>4
  <1>3. CASE r.run # "refused"
    <2> DEFINE m == RunStarted(r)
    <2>1. /\ p.seg \in Segs /\ r.seg = p.seg /\ r.run \in TerminalStates /\ r.pending = "none"
          /\ r.ended = [p.ended EXCEPT ![p.seg] = reason] /\ SameQueue(p, r)
      BY <1>3 DEF Ended
    <2>2. ~IsActive(r)
      BY <2>1 DEF IsActive, ActiveStates, TerminalStates
    <2>3. /\ m \in Projection /\ m.seg = p.seg + 1 /\ m.run = "running" /\ m.mode = "none"
          /\ m.ended = [p.ended EXCEPT ![p.seg] = reason] /\ m.pending = "none"
          /\ SameQueue(p, m)
      BY <1>1, <1>3, <2>1, <2>2, RunStartedDoes DEF SameQueue
    <2>4. q = MessageConsumed(m, i, r.rev[i], p.seg + 1)
      BY <2>1 DEF Handover
    <2> HIDE DEF m
    <2>5. p.seg + 1 \in Segs
      BY <1>1, NextSegment
    <2>6. /\ q \in Projection /\ SameRun(m, q) /\ q.item = [p.item EXCEPT ![i] = "consumed"]
          /\ q.rev = p.rev /\ q.by = [p.by EXCEPT ![i] = p.seg + 1]
      BY <1>1, <2>3, <2>4, <2>5, MessageConsumedDoes DEF SameQueue
    <2>7. p.item \in [Items -> ItemStates] /\ p.by \in [Items -> Nat]
      BY <1>1 DEF Projection
    <2>8. Promoting(q) = {}
      BY <1>1, <2>6, <2>7 DEF Promoting, Sound, Owned
    <2>9. /\ q.seg = p.seg + 1 /\ q.run = "running" /\ q.mode = "none" /\ q.pending = "none"
          /\ q.ended = [p.ended EXCEPT ![p.seg] = reason]
      BY <2>3, <2>6 DEF SameRun
    <2>10. IsActive(q) /\ Waits(q) /\ Owned(q)
      BY <2>8, <2>9 DEF IsActive, ActiveStates, Waits, Owned
    <2>11. Numbered(q)
      BY <1>1, <2>1, <2>5, <2>9 DEF Sound, Numbered, Projection, Segs
    <2>12. Finals(p, q)
      BY <2>6, <2>7 DEF Finals, Promoting
    <2>13. Shrinks(p, q)
      BY <2>6, <2>7 DEF Shrinks, Queue
    <2> QED
      BY <2>6, <2>9, <2>10, <2>11, <2>12, <2>13 DEF Sound, Passes, Fresh
  <1> QED
    BY <1>2, <1>3

LEMMA RecoverTransaction ==
  ASSUME NEW p, Sound(p), NEW reason \in Reasons, NEW r, Ended(p, r, reason),
         NEW q, q = AllRecovered(r), q.run # "refused"
  PROVE  Sound(q) /\ Ends(p, q, reason) /\ Finals(p, q) /\ Shrinks(p, q)
  <1>1. r \in Projection /\ p \in Projection
    BY DEF Ended, Sound
  <1>2. CASE r.run = "refused"
    <2>1. CASE Promoting(r) = {}
      BY <1>2, <2>1 DEF AllRecovered
    <2>2. CASE Promoting(r) # {}
      <3>1. \E i : q = MessageRecovered(r, i, r.rev[i])
        BY <2>2 DEF AllRecovered
      <3>2. q = [r EXCEPT !.run = "refused"]
        BY <1>2, <3>1 DEF MessageRecovered, Reduce
      <3>3. q.run = "refused"
        BY <1>1, <3>2 DEF Projection
      <3> QED
        BY <3>3
    <2> QED
      BY <2>1, <2>2
  <1>3. CASE r.run # "refused"
    <2>1. /\ p.seg \in Segs /\ r.seg = p.seg /\ r.run \in TerminalStates /\ r.pending = "none"
          /\ r.ended = [p.ended EXCEPT ![p.seg] = reason] /\ SameQueue(p, r)
      BY <1>3 DEF Ended
    <2>2. \A i, j \in Promoting(r) : i = j
      BY <2>1 DEF Sound, Owned, Promoting, SameQueue
    <2>3. /\ q \in Projection /\ SameRun(r, q) /\ q.rev = r.rev /\ q.by = r.by
          /\ \A i \in Items : q.item[i] = IF r.item[i] = "promoting" THEN "queued" ELSE r.item[i]
      BY <1>1, <1>3, <2>2, AllRecoveredDoes
    <2>4. Promoting(q) = {}
      BY <2>3 DEF Promoting
    <2>5. ~IsActive(q) /\ Waits(q) /\ Owned(q)
      BY <2>1, <2>3, <2>4
      DEF SameRun, IsActive, ActiveStates, TerminalStates, Waits, Owned
    <2>6. Numbered(q)
      BY <1>1, <2>1, <2>3, <2>5 DEF SameRun, Sound, Numbered, Projection, Segs
    <2>7. Finals(p, q)
      BY <2>1, <2>3 DEF Finals, SameQueue
    <2>8. Shrinks(p, q)
      BY <2>1, <2>3 DEF Shrinks, Queue, SameQueue
    <2>9. q.run # "refused"
      BY <2>1, <2>3 DEF SameRun, TerminalStates
    <2> QED
      BY <2>1, <2>3, <2>5, <2>6, <2>7, <2>8, <2>9 DEF Sound, Ends, SameRun
  <1> QED
    BY <1>2, <1>3

LEMMA RestartTransaction ==
  ASSUME NEW p, Sound(p), IsActive(p), NEW q, q = RestartRecovered(p)
  PROVE  Sound(q) /\ Ends(p, q, "interrupted_by_restart") /\ Finals(p, q)
         /\ Shrinks(p, q)
  <1> DEFINE r == IF p.run = "yielding" THEN AllRecovered(p) ELSE Invalidated(p)
  <1>1. p \in Projection /\ Waits(p) /\ p.seg \in Segs /\ \A i, j \in Promoting(p) : i = j
    BY DEF Sound, Numbered, Owned
  <1>2. /\ r \in Projection /\ r.seg = p.seg /\ r.ended = p.ended /\ r.pending = "none"
        /\ r.run \in {"running", "yielding"} /\ r.rev = p.rev /\ r.by = p.by
        /\ \A i \in Items : r.item[i] = IF p.item[i] = "promoting" THEN "queued" ELSE p.item[i]
    <2>1. CASE p.run = "yielding"
      <3>1. p.pending = "none"
        BY <1>1, <2>1 DEF Waits, Projection
      <3> QED
        BY <1>1, <2>1, <3>1, AllRecoveredDoes DEF SameRun
    <2>2. CASE p.run # "yielding"
      <3>1. \A i \in Items : p.item[i] # "promoting"
        BY <2>2 DEF Sound, Owned, Promoting
      <3>2. p.pending = "none" => p.run = "running"
        BY <2>2 DEF IsActive, ActiveStates, Sound, Waits
      <3> QED
        BY <1>1, <2>2, <3>1, <3>2, InvalidatedDoes DEF SameQueue
    <2> QED
      BY <2>1, <2>2
  <1>3. q = RunCompleted(r, p.seg, "interrupted_by_restart")
    BY DEF RestartRecovered
  <1> HIDE DEF r
  <1>4. /\ q \in Projection /\ q.seg = p.seg /\ q.run = "interrupted" /\ q.pending = "none"
        /\ q.ended = [p.ended EXCEPT ![p.seg] = "interrupted_by_restart"] /\ SameQueue(r, q)
    BY <1>1, <1>2, <1>3, States, RunCompletedDoes DEF TerminalState
  <1>5. Promoting(q) = {}
    BY <1>2, <1>4 DEF Promoting, SameQueue
  <1>6. ~IsActive(q) /\ Waits(q) /\ Owned(q)
    BY <1>4, <1>5 DEF IsActive, ActiveStates, Waits, Owned
  <1>7. Numbered(q)
    <2>1. \A s \in Segs : s > p.seg => s # p.seg /\ p.ended[s] = "none"
      BY <1>1 DEF Sound, Numbered, Segs
    <2>2. p.ended \in [Segs -> Reasons]
      BY <1>1 DEF Projection
    <2> QED
      BY <1>4, <1>6, <2>1, <2>2 DEF Numbered
  <1>8. Finals(p, q)
    BY <1>2, <1>4 DEF Finals, SameQueue
  <1>9. Shrinks(p, q)
    BY <1>2, <1>4 DEF Shrinks, Queue, SameQueue
  <1> QED
    BY <1>4, <1>6, <1>7, <1>8, <1>9 DEF Sound, Ends

\* persist_actor_failure: of the active run, or of a task that is idle.
LEMMA FailTransaction ==
  ASSUME NEW p, Sound(p), NEW q, q = TaskActorFailed(p, ActiveSegmentOf(p))
  PROVE  Sound(q) /\ GivesUp(p, q) /\ Finals(p, q) /\ Shrinks(p, q)
  <1>1. p \in Projection /\ p.run # "refused"
    BY DEF Sound
  <1>2. CASE IsActive(p)
    <2>1. p.seg \in Segs /\ p.seg # 0 /\ ActiveSegmentOf(p) = p.seg
      BY <1>2 DEF Sound, Numbered, ActiveSegmentOf, Segs
    <2> DEFINE x == [i \in Items |-> IF p.run = "yielding" /\ i \in Promoting(p)
                                     THEN "queued" ELSE p.item[i]]
               r == [p EXCEPT !.run = "failed", !.reason = "failed", !.pending = "none",
                              !.item = x]
    <2>2. q = r
      BY <1>1, <1>2, <2>1 DEF TaskActorFailed, Reduce
    <2>3. x \in [Items -> ItemStates]
      BY <1>1, States DEF Projection
    <2>4. \A i \in Items : x[i] = IF p.item[i] = "promoting" THEN "queued" ELSE p.item[i]
      BY DEF Sound, Owned, Promoting
    <2> HIDE DEF x
    <2>5. /\ r \in Projection /\ r.run = "failed" /\ r.pending = "none" /\ r.item = x
          /\ r.seg = p.seg /\ r.ended = p.ended /\ r.rev = p.rev /\ r.by = p.by
      BY <1>1, <2>3, States DEF Projection
    <2> HIDE DEF r
    <2>6. Promoting(q) = {} /\ ~IsActive(q) /\ Waits(q)
      BY <2>2, <2>4, <2>5 DEF Promoting, IsActive, ActiveStates, Waits
    <2>7. Finals(p, q) /\ Numbered(q) /\ Owned(q)
      BY <2>2, <2>4, <2>5, <2>6 DEF Finals, Sound, Numbered, Owned
    <2>8. Shrinks(p, q)
      BY <2>2, <2>4, <2>5 DEF Shrinks, Queue
    <2> QED
      BY <2>2, <2>5, <2>6, <2>7, <2>8 DEF Sound, GivesUp
  <1>3. CASE ~IsActive(p)
    <2>1. q = [p EXCEPT !.pending = "none"] /\ p.pending = "none"
      BY <1>1, <1>3 DEF TaskActorFailed, ActiveSegmentOf, Reduce, Sound, Waits, IsActive,
                        ActiveStates, Projection
    <2>2. q = p
      BY <1>1, <2>1 DEF Projection
    <2> QED
      BY <1>3, <2>2 DEF GivesUp, Finals, Shrinks
  <1> QED
    BY <1>2, <1>3

LEMMA InteractionTransaction ==
  ASSUME NEW p, Sound(p), NEW q,
         \/ p.run = "running" /\ \E kind \in {"permission", "question"} :
                                   q = InteractionRequested(p, kind)
         \/ p.pending # "none" /\ q = InteractionClosed(p)
  PROVE  Sound(q) /\ Stays(p, q) /\ Finals(p, q)
  <1>1. p \in Projection /\ IsActive(p) /\ Promoting(p) = {}
    BY DEF Sound, Waits, Owned, IsActive, ActiveStates, Projection
  <1>2. /\ q \in Projection /\ q.seg = p.seg /\ q.ended = p.ended /\ SameQueue(p, q)
        /\ \/ q.run = "running" /\ q.pending = "none"
           \/ q.run = "waiting_permission" /\ q.pending = "permission"
           \/ q.run = "waiting_input" /\ q.pending = "question"
    <2>1. CASE p.run = "running" /\ \E kind \in {"permission", "question"} :
                                      q = InteractionRequested(p, kind)
      <3>1. PICK kind \in {"permission", "question"} : q = InteractionRequested(p, kind)
        BY <2>1
      <3>2. p.pending = "none"
        BY <1>1, <2>1 DEF Sound, Waits, Projection
      <3> QED
        BY <1>1, <2>1, <3>1, <3>2, InteractionRequestedDoes DEF WaitingFor
    <2>2. CASE p.pending # "none" /\ q = InteractionClosed(p)
      <3>1. p.run = WaitingFor(p.pending)
        BY <1>1, <2>2 DEF Sound, Waits, Projection, WaitingFor
      <3> QED
        BY <1>1, <2>2, <3>1, InteractionClosedDoes
    <2> QED
      BY <2>1, <2>2
  <1>3. IsActive(q) /\ Waits(q) /\ Promoting(q) = {}
    BY <1>1, <1>2 DEF IsActive, ActiveStates, Waits, Promoting, SameQueue
  <1> QED
    BY <1>1, <1>2, <1>3 DEF Sound, Stays, Owned, Numbered, Finals, SameQueue

-----------------------------------------------------------------------------
(* The inductive invariant *)

Listeners == {"idle", "checkpoint", "spawn", "deliver"}

\* The actor is on its way to listen to the segment that was started last.
Starting ==
  \/ actor.pc \in {"spawn", "deliver"}
  \/ actor.pc = "checkpoint" /\ actor.path \in {"handover", "consume"}

\* What the actor holds belongs to the active run.
Placed ==
  /\ Starting => actor.seg = proj.seg /\ IsActive(proj)
  /\ actor.pc = "deliver" => actor.path \in {"live", "replay", "closed"}
  /\ actor.pc = "deliver" /\ actor.path # "live" => engine[actor.seg] = "off"
  /\ active # 0 => \/ actor.pc = "idle" /\ active = proj.seg /\ IsActive(proj)
                   \/ actor.pc = "checkpoint"

\* Nothing was executed under a claim that nobody took.
Claimed(s) == claim[s] = "none" => starts[s] = 0 /\ engine[s] = "off" /\ outcome[s] = "none"

Once(s) == starts[s] <= 1

\* A success in the store is one of an engine that came to its end.
Ran(s) == claim[s] = "completed" \/ proj.ended[s] = "completed" => s \in completed

\* A forwarder is one of an actor that lives, never of the segment still to be
\* delivered; one that replays an end has no engine behind it.
Listening(s) ==
  attached[s] # "no" => /\ actor.pc \in Listeners /\ s <= proj.seg
                        /\ Starting => s # actor.seg
                        /\ attached[s] # "live" => engine[s] = "off"

\* Unless an actor failed, the engine at work is that of the active run.
Works(s) ==
  /\ outcome[s] # "none" => engine[s] # "running"
  /\ engine[s] = "running" =>
       /\ s <= proj.seg /\ proj.ended[s] \in {"none", "interrupted_by_restart"}
       /\ faults = 0 => /\ s = proj.seg /\ IsActive(proj)
                        /\ actor.pc \in {"idle", "spawn", "deliver"}

Segment(s) == Claimed(s) /\ Once(s) /\ Ran(s) /\ Listening(s) /\ Works(s)

TaskInv == TypeOK /\ Sound(proj) /\ Placed /\ \A s \in Segs : Segment(s)

-----------------------------------------------------------------------------
(* The kinds of steps: what the actions have in common *)

\* A committed transaction, or none.
Moved == Sound(proj') /\ Finals(proj, proj')

EnginesKept == UNCHANGED <<claim, engine, outcome, starts, completed>>

\* The run goes on and the actor is where it was; a forwarder may be gone.
Quiet ==
  /\ Stays(proj, proj') /\ UNCHANGED <<actor, active, faults>> /\ EnginesKept
  /\ \A s \in Segs : attached'[s] \in {attached[s], "no"}

\* An idle task starts its next segment.
Begins ==
  /\ actor.pc = "idle" /\ Starts(proj, proj') /\ actor'.seg = proj'.seg
  /\ actor'.pc = "spawn" \/ (actor'.pc = "checkpoint" /\ actor'.path = "consume")
  /\ UNCHANGED <<active, attached, faults>> /\ EnginesKept

\* The event of the active segment ends its run.
EndsRun(reason) ==
  /\ actor.pc = "idle" /\ active = proj.seg /\ IsActive(proj)
  /\ engine[proj.seg] # "running"
  /\ reason = "completed" => proj.seg \in completed
  /\ actor'.pc = "checkpoint"
  /\ \/ Ends(proj, proj', reason) /\ actor'.path \notin {"handover", "consume"}
     \/ Passes(proj, proj', reason) /\ actor'.path = "handover" /\ actor'.seg = proj'.seg
  /\ attached' = [attached EXCEPT ![proj.seg] = "no"]
  /\ UNCHANGED <<active, faults>> /\ EnginesKept

\* The actor fails; without a fault no engine was left at work.
Stumbles ==
  /\ Stays(proj, proj') /\ ActorFails /\ EnginesKept
  /\ faults' = 0 => \A s \in Segs : engine[s] # "running"

\* The supervisor acts in the place of an actor that is gone.
Supervises ==
  /\ actor.pc \in {"failed", "absent", "down"}
  /\ \/ Stays(proj, proj') \/ GivesUp(proj, proj')
     \/ proj.seg \in Segs /\ Ends(proj, proj', "interrupted_by_restart")
  /\ \/ actor'.pc \in {"idle", "absent"}
     \/ actor'.pc = "spawn" /\ actor'.seg = proj'.seg /\ IsActive(proj')
  /\ faults' = 0 => faults = 0
  /\ UNCHANGED <<active, attached>> /\ EnginesKept

-----------------------------------------------------------------------------
(* Every action is of a kind *)

LEMMA StaysPut ==
  ASSUME NEW p, NEW q, Sound(p), q = p
  PROVE  Sound(q) /\ Finals(p, q) /\ Stays(p, q)
  BY DEF Finals, Stays

\* A transaction that keeps the run.
LEMMA KeepingCommit ==
  ASSUME NEW q, Sound(q) /\ Stays(proj, q) /\ Finals(proj, q),
         Commit(q, UNCHANGED <<actor, memory>>)
  PROVE  Moved /\ Stays(proj, proj') /\ UNCHANGED <<actor, active, attached, slot, startNext>>
  BY DEF Commit, Sound, Moved, memory

LEMMA KeepsQuiet ==
  ASSUME Stays(proj, proj'), UNCHANGED <<actor, active, attached, faults>>, EnginesKept
  PROVE  Quiet
  BY DEF Quiet

LEMMA NoneWorks ==
  ASSUME TaskInv, faults = 0, ~IsActive(proj) \/ actor.pc = "checkpoint"
  PROVE  \A s \in Segs : engine[s] # "running"
  BY DEF TaskInv, Segment, Works

\* A transaction of an idle task that starts a segment, or that the reducer refuses.
LEMMA BeginningCommit ==
  ASSUME TaskInv, actor = Ready, ~IsActive(proj), NEW q,
         q.run # "refused" => Sound(q) /\ Starts(proj, q) /\ Finals(proj, q),
         Commit(q, BeginSegment), EnginesKept, UNCHANGED faults
  PROVE  Moved /\ (Begins \/ Stumbles)
  <1>1. CASE q.run = "refused"
    <2>1. UNCHANGED proj /\ ActorFails
      BY <1>1 DEF Commit
    <2>2. Moved /\ Stays(proj, proj')
      BY <2>1, StaysPut DEF Moved, TaskInv
    <2> QED
      BY <2>1, <2>2, NoneWorks DEF Stumbles
  <1>2. CASE q.run # "refused"
    <2>1. proj' = q /\ BeginSegment
      BY <1>2 DEF Commit
    <2>2. Moved /\ Starts(proj, proj')
      BY <1>2, <2>1 DEF Moved
    <2>3. actor'.pc = "spawn" /\ actor'.seg = proj.seg + 1 /\ actor.pc = "idle"
      BY <2>1 DEF BeginSegment, Do, Ready
    <2> QED
      BY <2>1, <2>2, <2>3 DEF Begins, BeginSegment, Starts
  <1> QED
    BY <1>1, <1>2

LEMMA SubmitKind ==
  ASSUME TaskInv, NEW i \in Items, Submit(i)
  PROVE  Moved /\ (Quiet \/ Begins \/ Stumbles)
  <1>1. Sound(proj) /\ EnginesKept /\ UNCHANGED faults
    BY DEF TaskInv, Submit, EnginesKept, engines, bounds
  <1>2. CASE /\ Cardinality(Queue(proj)) < QueueLimit
             /\ Commit(MessageQueued(proj, i), UNCHANGED <<actor, memory>>)
    <2>1. PICK q : q = MessageQueued(proj, i)
      OBVIOUS
    <2>2. Sound(q) /\ Stays(proj, q) /\ Finals(proj, q)
      BY <1>1, <1>2, <2>1, QueueTransaction DEF Submit
    <2> QED
      BY <1>1, <1>2, <2>1, <2>2, KeepingCommit, KeepsQuiet
  <1>3. CASE ~IsActive(proj) /\ Room /\ Commit(SubmitAndStart(proj, i), BeginSegment)
    <2>1. PICK q : q = SubmitAndStart(proj, i)
      OBVIOUS
    <2>2. q.run # "refused" => Sound(q) /\ Starts(proj, q) /\ Finals(proj, q)
      BY <1>1, <1>3, <2>1, SubmitTransaction DEF Submit, Room
    <2> QED
      BY <1>1, <1>3, <2>1, <2>2, BeginningCommit DEF Submit
  <1> QED
    BY <1>2, <1>3 DEF Submit

LEMMA StartSegmentKind ==
  ASSUME TaskInv, StartSegment
  PROVE  Moved /\ (Begins \/ Stumbles)
  <1>1. Sound(proj) /\ EnginesKept /\ UNCHANGED faults
    BY DEF TaskInv, StartSegment, EnginesKept, engines, bounds
  <1>2. PICK q : q = RunStarted(proj)
    OBVIOUS
  <1>3. Sound(q) /\ Starts(proj, q) /\ Finals(proj, q)
    BY <1>1, <1>2, StartTransaction DEF StartSegment, Room
  <1> QED
    BY <1>1, <1>2, <1>3, BeginningCommit DEF StartSegment

LEMMA EditKind ==
  ASSUME TaskInv, NEW i \in Items, Edit(i) \/ Delete(i)
  PROVE  Moved /\ Quiet
  <1>1. Sound(proj) /\ EnginesKept /\ UNCHANGED faults /\ proj.item[i] = "queued"
    BY DEF TaskInv, Edit, Delete, EnginesKept, engines, bounds
  <1>2. PICK q : /\ q = MessageEdited(proj, i, proj.rev[i] + 1)
                    \/ q = MessageDeleted(proj, i, proj.rev[i])
                 /\ Commit(q, UNCHANGED <<actor, memory>>)
    BY DEF Edit, Delete
  <1>3. Sound(q) /\ Stays(proj, q) /\ Finals(proj, q)
    BY <1>1, <1>2, EditTransaction
  <1> QED
    BY <1>1, <1>2, <1>3, KeepingCommit, KeepsQuiet

LEMMA StopKind ==
  ASSUME TaskInv, NEW mode \in Modes,
         StopRun(mode) \/ \E i \in Items : Promote(i, mode)
  PROVE  Moved /\ Quiet
  <1>1. Sound(proj) /\ EnginesKept /\ UNCHANGED faults /\ Stoppable(proj)
    BY DEF TaskInv, StopRun, Promote, Propagate, EnginesKept, bounds
  <1>2. PICK q : /\ \/ q = StopEvents(proj, mode)
                    \/ \E i \in Items : /\ q = PromoteEvents(proj, i, proj.rev[i], mode)
                                        /\ proj.item[i] = "queued" /\ proj.seg < MaxSegs
                 /\ Commit(q, UNCHANGED <<actor, memory>>)
    BY DEF StopRun, Promote, Room
  <1>3. Sound(q) /\ Stays(proj, q) /\ Finals(proj, q)
    BY <1>1, <1>2, StopTransaction, PromoteTransaction
  <1> QED
    BY <1>1, <1>2, <1>3, KeepingCommit, KeepsQuiet

LEMMA UnpropagatedKind ==
  ASSUME TaskInv, NEW mode \in Modes,
         StopRunUnpropagated(mode) \/ \E i \in Items : PromoteUnpropagated(i, mode)
  PROVE  Moved /\ Stumbles
  <1>1. PICK q : /\ \/ q = StopEvents(proj, mode)
                    \/ \E i \in Items : /\ q = PromoteEvents(proj, i, proj.rev[i], mode)
                                        /\ proj.item[i] = "queued" /\ proj.seg < MaxSegs
                 /\ PropagationFails(q)
    BY DEF StopRunUnpropagated, PromoteUnpropagated, Room
  <1>2. /\ Sound(proj) /\ EnginesKept /\ Stoppable(proj) /\ ActorFails /\ proj' = q
        /\ faults' = faults + 1 /\ faults \in Nat
    BY <1>1, BoundsAssumption DEF TaskInv, TypeOK, PropagationFails, EnginesKept, engines
  <1>3. Sound(q) /\ Stays(proj, q) /\ Finals(proj, q)
    BY <1>1, <1>2, StopTransaction, PromoteTransaction
  <1>4. faults' # 0
    BY <1>2
  <1> QED
    BY <1>2, <1>3, <1>4 DEF Moved, Stumbles

\* What the event of the active segment commits: the end of its run, for a reason that is
\* a success only if the engine came to its end.
LEMMA RunEventEnds ==
  ASSUME TaskInv, NEW s \in Segs, EventReady(s), proj.seg = s, NEW e \in RunEventOf(s),
         e.q.run # "refused"
  PROVE  \E reason \in Reasons :
           /\ Sound(e.q) /\ Finals(proj, e.q)
           /\ reason = "completed" => s \in completed
           /\ Shrinks(proj, e.q)
           /\ \/ Ends(proj, e.q, reason) /\ e.path \in {"terminal", "ended"}
              \/ Passes(proj, e.q, reason) /\ e.path = "handover" /\ Fresh(e.q)
  <1>1. PICK p : p = proj
    OBVIOUS
  <1>2. Sound(p) /\ p \in Projection
    BY <1>1 DEF TaskInv, Sound
  <1>3. EventReason(s) \in Reasons /\ (EventReason(s) = "completed" => s \in completed)
    BY States DEF EventReason, TaskInv, TypeOK, Claims, Segment, Ran
  <1>4. PICK reason \in Reasons, r \in Projection :
          /\ Ended(p, r, reason) /\ (reason = "completed" => s \in completed)
          /\ \/ e.path = "handover" /\ \E i \in Promoting(p) : e.q = Handover(r, i)
             \/ e.path \in {"terminal", "ended"} /\ e.q = r /\ (p.run = "yielding" => Promoting(p) = {})
             \/ e.path = "ended" /\ e.q = AllRecovered(r)
    <2>1. CASE Event(s) = "completed"
      <3> DEFINE r == RunCompleted(p, s, EventReason(s))
      <3>1. Ended(p, r, EventReason(s)) /\ r \in Projection
        BY <1>2, <1>3, EndedBy DEF Ended
      <3>2. \/ e.path = "handover" /\ \E i \in Promoting(p) : e.q = Handover(r, i)
            \/ e.path = "terminal" /\ e.q = r /\ (p.run = "yielding" => Promoting(p) = {})
        BY <1>1, <2>1 DEF RunEventOf
      <3> HIDE DEF r
      <3> QED
        BY <1>3, <3>1, <3>2
    <2>2. CASE Event(s) = "timed_out"
      <3> DEFINE r == RunCompleted(RunForceStopTimedOut(p, s), s, "failed")
      <3>1. Ended(p, r, "failed") /\ r \in Projection
        BY <1>2, States, EndedBy DEF Ended
      <3>2. e.path = "ended" /\ e.q = AllRecovered(r)
        BY <1>1, <2>2 DEF RunEventOf
      <3> HIDE DEF r
      <3> QED
        BY <3>1, <3>2, States
    <2>3. CASE Event(s) \notin {"completed", "timed_out"}
      <3> DEFINE kept == IF Event(s) = "forced" THEN "forced_interruption" ELSE "cancelled"
                 passed == IF Event(s) = "forced" THEN "forced_interruption" ELSE "superseded"
                 reason == IF Promoting(p) = {} THEN kept ELSE passed
                 m == RunSafePointReached(p, s, StopModeOf(Event(s)))
                 r == RunCompleted(m, s, reason)
      <3>1. \/ e.path = "handover" /\ \E i \in Promoting(p) : e.q = Handover(r, i)
            \/ e.path = "ended" /\ e.q = r /\ Promoting(p) = {}
        <4>1. CASE Promoting(p) = {}
          <5>1. e = [path |-> "ended", q |-> RunCompleted(m, s, kept)]
            BY <1>1, <2>3, <4>1 DEF RunEventOf
          <5> QED
            BY <4>1, <5>1
        <4>2. CASE Promoting(p) # {}
          <5>1. \E i \in Promoting(p) :
                  e = [path |-> "handover", q |-> Handover(RunCompleted(m, s, passed), i)]
            BY <1>1, <2>3, <4>2 DEF RunEventOf
          <5> QED
            BY <4>2, <5>1
        <4> QED
          BY <4>1, <4>2
      <3>2. reason \in Reasons /\ reason # "completed"
        BY States
      <3> HIDE DEF reason
      <3>3. Ended(p, r, reason) /\ r \in Projection
        BY <1>2, <3>2, EndedBy DEF Ended
      <3> HIDE DEF r
      <3> QED
        BY <3>1, <3>2, <3>3
    <2> QED
      BY <2>1, <2>2, <2>3
  <1>5. CASE e.path = "handover" /\ \E i \in Promoting(p) : e.q = Handover(r, i)
    BY <1>1, <1>2, <1>4, <1>5, HandoverTransaction
  <1>6. CASE e.path \in {"terminal", "ended"} /\ e.q = r /\ (p.run = "yielding" => Promoting(p) = {})
    <2>1. Promoting(p) = {}
      BY <1>2, <1>6 DEF Sound, Owned
    <2> QED
      BY <1>1, <1>2, <1>4, <1>6, <2>1, EndTransaction
  <1>7. CASE e.path = "ended" /\ e.q = AllRecovered(r)
    BY <1>1, <1>2, <1>4, <1>7, RecoverTransaction
  <1> QED
    BY <1>4, <1>5, <1>6, <1>7

LEMMA EventOfStopped ==
  ASSUME TaskInv, NEW s \in Segs, EventReady(s)
  PROVE  engine[s] # "running"
  BY DEF EventReady, TaskInv, Segment, Works, Listening

LEMMA ActiveIsCurrent ==
  ASSUME TaskInv, NEW s \in Segs, actor = Ready, active = s
  PROVE  proj.seg = s /\ IsActive(proj) /\ actor.pc = "idle"
  BY DEF TaskInv, Placed, Ready, Segs

LEMMA TakeIsFewer ==
  ASSUME TaskInv, NEW s \in Segs, Take(s)
  PROVE  \A t \in Segs : attached'[t] \in {attached[t], "no"}
  BY DEF TaskInv, TypeOK, Take

LEMMA RunEventKind ==
  ASSUME TaskInv, NEW s \in Segs, HandleRunEvent(s)
  PROVE  Moved /\ (Quiet \/ Stumbles \/ \E reason \in Reasons : EndsRun(reason))
  <1>1. Sound(proj) /\ EnginesKept /\ UNCHANGED faults /\ actor = Ready /\ EventReady(s)
    BY DEF TaskInv, HandleRunEvent, EnginesKept, engines, bounds
  <1>2. CASE ~(active = s /\ RunEventOf(s) # {})
    <2>1. Take(s) /\ UNCHANGED <<proj, actor, active>>
      BY <1>2 DEF HandleRunEvent
    <2>2. Moved /\ Stays(proj, proj')
      BY <1>1, <2>1, StaysPut DEF Moved
    <2> QED
      BY <1>1, <2>1, <2>2, TakeIsFewer DEF Quiet
  <1>3. CASE active = s /\ RunEventOf(s) # {}
    <2>1. PICK e \in RunEventOf(s) : Commit(e.q, Take(s) /\ Checkpoint(e.path, e.q.seg))
      BY <1>3 DEF HandleRunEvent
    <2>2. proj.seg = s /\ IsActive(proj) /\ actor.pc = "idle" /\ engine[s] # "running"
      BY <1>1, <1>3, ActiveIsCurrent, EventOfStopped
    <2>3. CASE e.q.run = "refused"
      <3>1. UNCHANGED proj /\ ActorFails
        BY <2>1, <2>3 DEF Commit
      <3>2. Moved /\ Stays(proj, proj')
        BY <1>1, <3>1, StaysPut DEF Moved
      <3>3. faults = 0 => \A t \in Segs : engine[t] # "running"
        BY <2>2 DEF TaskInv, Segment, Works
      <3> QED
        BY <1>1, <3>1, <3>2, <3>3 DEF Stumbles
    <2>4. CASE e.q.run # "refused"
      <3>1. proj' = e.q /\ Take(s) /\ Checkpoint(e.path, e.q.seg)
        BY <2>1, <2>4 DEF Commit
      <3>2. PICK reason \in Reasons :
              /\ Sound(e.q) /\ Finals(proj, e.q)
              /\ reason = "completed" => s \in completed
              /\ \/ Ends(proj, e.q, reason) /\ e.path \in {"terminal", "ended"}
                 \/ Passes(proj, e.q, reason) /\ e.path = "handover"
        BY <1>1, <2>2, <2>4, RunEventEnds
      <3>3. /\ actor'.pc = "checkpoint" /\ actor'.path = e.path /\ actor'.seg = proj'.seg
            /\ UNCHANGED active
        BY <3>1 DEF Checkpoint, Do
      <3>4. EndsRun(reason)
        BY <1>1, <1>3, <2>2, <3>1, <3>2, <3>3 DEF EndsRun, Take
      <3> QED
        BY <3>1, <3>2, <3>4 DEF Moved
    <2> QED
      BY <2>3, <2>4
  <1> QED
    BY <1>2, <1>3

LEMMA GivenUpKind ==
  ASSUME TaskInv, StartNextQueuedOutrun \/ \E s \in Segs : HandleRunEventOutrun(s)
  PROVE  Moved /\ Quiet
  <1>1. Sound(proj) /\ EnginesKept /\ UNCHANGED <<faults, proj, actor, active>>
    BY DEF TaskInv, StartNextQueuedOutrun, HandleRunEventOutrun, EnginesKept, engines, durable
  <1>2. Moved /\ Stays(proj, proj')
    BY <1>1, StaysPut DEF Moved
  <1>3. \A t \in Segs : attached'[t] \in {attached[t], "no"}
    BY TakeIsFewer DEF StartNextQueuedOutrun, HandleRunEventOutrun
  <1> QED
    BY <1>1, <1>2, <1>3 DEF Quiet

LEMMA StartNextKind ==
  ASSUME TaskInv, StartNextQueued
  PROVE  Moved /\ (Quiet \/ Begins)
  <1>1. Sound(proj) /\ EnginesKept /\ UNCHANGED <<faults, active, attached>> /\ actor.pc = "idle"
    BY DEF TaskInv, StartNextQueued, EnginesKept, engines, bounds, Ready
  <1>2. CASE UNCHANGED <<proj, actor>>
    <2>1. Moved /\ Stays(proj, proj')
      BY <1>1, <1>2, StaysPut DEF Moved
    <2> QED
      BY <1>1, <1>2, <2>1 DEF Quiet
  <1>3. CASE /\ ~IsActive(proj) /\ Room
             /\ \E i \in Oldest(proj) : /\ proj' = ConsumeNext(proj, i)
                                        /\ actor' = Do("checkpoint", "consume", proj'.seg)
    <2>1. PICK q : q = proj' /\ \E i \in Oldest(proj) : q = ConsumeNext(proj, i)
      BY <1>3
    <2>2. Sound(q) /\ Starts(proj, q) /\ Finals(proj, q)
      BY <1>1, <1>3, <2>1, ConsumeNextTransaction DEF Room
    <2>3. actor'.pc = "checkpoint" /\ actor'.path = "consume" /\ actor'.seg = proj'.seg
      BY <1>3 DEF Do
    <2> QED
      BY <1>1, <2>1, <2>2, <2>3 DEF Moved, Begins
  <1> QED
    BY <1>2, <1>3 DEF StartNextQueued

LEMMA InteractionKind ==
  ASSUME TaskInv,
         \/ ResolveInteraction
         \/ \E s \in Segs, kind \in {"permission", "question"} : RequestInteraction(s, kind)
  PROVE  Moved /\ Quiet
  <1>1. Sound(proj) /\ EnginesKept /\ UNCHANGED <<faults, actor, active, attached>>
    BY DEF TaskInv, ResolveInteraction, RequestInteraction, EnginesKept, engines, bounds, memory
  <1>2. PICK q : q = proj'
    OBVIOUS
  <1>3. \/ proj.run = "running" /\ \E kind \in {"permission", "question"} :
                                     q = InteractionRequested(proj, kind)
        \/ proj.pending # "none" /\ q = InteractionClosed(proj)
    BY <1>2 DEF ResolveInteraction, RequestInteraction
  <1>4. Sound(q) /\ Stays(proj, q) /\ Finals(proj, q)
    BY <1>1, <1>3, InteractionTransaction
  <1> QED
    BY <1>1, <1>2, <1>4, KeepsQuiet DEF Moved

LEMMA FaultKind ==
  ASSUME TaskInv, ActorFault \/ PersistCheckpointOutrun
  PROVE  Moved /\ Stumbles
  <1>1. Sound(proj) /\ EnginesKept /\ UNCHANGED proj /\ ActorFails /\ faults \in Nat
    BY BoundsAssumption DEF TaskInv, TypeOK, ActorFault, PersistCheckpointOutrun, EnginesKept,
                            engines, durable
  <1>2. Moved /\ Stays(proj, proj')
    BY <1>1, StaysPut DEF Moved
  <1>3. faults' = 0 => \A s \in Segs : engine[s] # "running"
    BY <1>1, NoneWorks DEF ActorFault, PersistCheckpointOutrun
  <1> QED
    BY <1>1, <1>2, <1>3 DEF Stumbles

\* An actor that is started is idle or spawns the active segment again.
LEMMA StartedActor ==
  ASSUME NEW p, p = proj', StartActor(p)
  PROVE  \/ actor'.pc \in {"idle", "absent"}
         \/ actor'.pc = "spawn" /\ actor'.seg = proj'.seg /\ IsActive(proj')
  BY DEF StartActor, Do, Ready

\* recover_projection interrupts the active run, or leaves the task alone.
LEMMA Recovers ==
  ASSUME Sound(proj), RecoverProjection
  PROVE  /\ Moved
         /\ \/ Stays(proj, proj')
            \/ proj.seg \in Segs /\ Ends(proj, proj', "interrupted_by_restart")
  <1>1. CASE UNCHANGED proj
    BY <1>1, StaysPut DEF Moved
  <1>2. CASE IsActive(proj) /\ proj' = RestartRecovered(proj)
    <2>1. PICK q : q = proj' /\ q = RestartRecovered(proj)
      BY <1>2
    <2>2. Sound(q) /\ Ends(proj, q, "interrupted_by_restart") /\ Finals(proj, q)
      BY <1>2, <2>1, RestartTransaction
    <2>3. proj.seg \in Segs
      BY <1>2 DEF Sound, Numbered
    <2> QED
      BY <2>1, <2>2, <2>3 DEF Moved
  <1> QED
    BY <1>1, <1>2 DEF RecoverProjection

LEMMA SupervisorKind ==
  ASSUME TaskInv, SuperviseExit \/ SuperviseExitUnrecorded \/ Route \/ RouteOutrun \/ Boot
  PROVE  Moved /\ Supervises
  <1>1. Sound(proj) /\ EnginesKept /\ UNCHANGED <<active, attached>> /\ faults \in Nat
    BY BoundsAssumption
    DEF TaskInv, TypeOK, SuperviseExit, SuperviseExitUnrecorded, Route, RouteOutrun, Boot,
        EnginesKept, engines, bounds, durable, memory
  <1>2. actor.pc \in {"failed", "absent", "down"} /\ (faults' = 0 => faults = 0)
    BY <1>1 DEF SuperviseExit, SuperviseExitUnrecorded, Route, RouteOutrun, Boot, bounds
  <1>3. CASE SuperviseExit
    <2>1. CASE StartActor(proj) /\ UNCHANGED proj
      <3>1. Moved /\ Stays(proj, proj')
        BY <1>1, <2>1, StaysPut DEF Moved
      <3>2. PICK p : p = proj' /\ StartActor(p)
        BY <2>1
      <3> QED
        BY <1>1, <1>2, <3>1, <3>2, StartedActor DEF Supervises
    <2>2. CASE /\ ActiveSegmentOf(proj) = slot /\ proj' = TaskActorFailed(proj, slot)
               /\ actor' = Ready
      <3>1. PICK q : q = proj' /\ q = TaskActorFailed(proj, ActiveSegmentOf(proj))
        BY <2>2
      <3>2. Sound(q) /\ GivesUp(proj, q) /\ Finals(proj, q)
        BY <1>1, <3>1, FailTransaction
      <3>3. actor'.pc = "idle"
        BY <2>2 DEF Ready
      <3> QED
        BY <1>1, <1>2, <3>1, <3>2, <3>3 DEF Supervises, Moved
    <2>3. CASE actor' = [Ready EXCEPT !.pc = "absent"] /\ UNCHANGED proj
      <3>1. Moved /\ Stays(proj, proj')
        BY <1>1, <2>3, StaysPut DEF Moved
      <3>2. actor'.pc = "absent"
        BY <2>3 DEF Ready
      <3> QED
        BY <1>1, <1>2, <3>1, <3>2 DEF Supervises
    <2> QED
      BY <1>3, <2>1, <2>2, <2>3 DEF SuperviseExit
  <1>4. CASE SuperviseExitUnrecorded
    <2>1. Moved /\ Stays(proj, proj')
      BY <1>1, <1>4, StaysPut DEF Moved, SuperviseExitUnrecorded, durable
    <2>2. actor'.pc = "absent"
      BY <1>4 DEF SuperviseExitUnrecorded, Ready
    <2> QED
      BY <1>1, <1>2, <2>1, <2>2 DEF Supervises
  <1>5. CASE Route
    <2>1. PICK p : p = proj' /\ StartActor(p)
      BY <1>5 DEF Route
    <2>2. \/ actor'.pc \in {"idle", "absent"}
          \/ actor'.pc = "spawn" /\ actor'.seg = proj'.seg /\ IsActive(proj')
      BY <2>1, StartedActor
    <2>3. /\ Moved
          /\ \/ Stays(proj, proj')
             \/ proj.seg \in Segs /\ Ends(proj, proj', "interrupted_by_restart")
      BY <1>1, <1>5, Recovers DEF Route
    <2> QED
      BY <1>1, <1>2, <2>2, <2>3 DEF Supervises
  <1>6. CASE RouteOutrun
    <2>1. Moved /\ Stays(proj, proj')
      BY <1>1, <1>6, StaysPut DEF Moved, RouteOutrun
    <2>2. PICK p : p = proj' /\ StartActor(p)
      BY <1>6 DEF RouteOutrun
    <2> QED
      BY <1>1, <1>2, <2>1, <2>2, StartedActor DEF Supervises
  <1>7. CASE Boot
    <2>1. /\ Moved
          /\ \/ Stays(proj, proj')
             \/ proj.seg \in Segs /\ Ends(proj, proj', "interrupted_by_restart")
      BY <1>1, <1>7, Recovers DEF Boot
    <2>2. actor'.pc = "absent"
      BY <1>7 DEF Boot, Ready
    <2> QED
      BY <1>1, <1>2, <2>1, <2>2 DEF Supervises
  <1> QED
    BY <1>3, <1>4, <1>5, <1>6, <1>7

\* The steps that are each of a kind of their own leave the projection alone.
Others ==
  \/ PersistCheckpoint \/ SpawnIdempotent \/ SpawnClosed \/ MarkDelivered \/ Crash
  \/ \E s \in Segs : EngineFinish(s) \/ EngineReturn(s) \/ EngineReturnUnrecorded(s)

LEMMA OthersKeep ==
  ASSUME TaskInv, Others
  PROVE  UNCHANGED proj /\ Moved
  <1>1. UNCHANGED proj
    BY DEF Others, PersistCheckpoint, SpawnIdempotent, SpawnClosed, MarkDelivered, Crash,
           EngineFinish, EngineReturn, EngineReturnUnrecorded, durable
  <1> QED
    BY <1>1, StaysPut DEF Moved, TaskInv

LEMMA Kinds ==
  ASSUME TaskInv, Next
  PROVE  /\ Moved
         /\ \/ Quiet \/ Begins \/ Stumbles \/ Supervises \/ Others
            \/ \E reason \in Reasons : EndsRun(reason)
  <1>1. CASE Command
    <2>1. CASE StartSegment
      BY <2>1, StartSegmentKind
    <2>2. CASE \E mode \in Modes : StopRun(mode) \/ \E i \in Items : Promote(i, mode)
      BY <2>2, StopKind
    <2>3. CASE \E mode \in Modes : \/ StopRunUnpropagated(mode)
                                   \/ \E i \in Items : PromoteUnpropagated(i, mode)
      BY <2>3, UnpropagatedKind
    <2>4. CASE \E i \in Items : Submit(i)
      BY <2>4, SubmitKind
    <2>5. CASE \E i \in Items : Edit(i) \/ Delete(i)
      BY <2>5, EditKind
    <2> QED
      BY <1>1, <2>1, <2>2, <2>3, <2>4, <2>5 DEF Command
  <1>2. CASE \E s \in Segs : HandleRunEvent(s)
    BY <1>2, RunEventKind
  <1>3. CASE StartNextQueuedOutrun \/ \E s \in Segs : HandleRunEventOutrun(s)
    BY <1>3, GivenUpKind
  <1>4. CASE \/ ResolveInteraction
             \/ \E s \in Segs, kind \in {"permission", "question"} : RequestInteraction(s, kind)
    BY <1>4, InteractionKind
  <1>5. CASE StartNextQueued
    BY <1>5, StartNextKind
  <1>6. CASE ActorFault \/ PersistCheckpointOutrun
    BY <1>6, FaultKind
  <1>7. CASE SuperviseExit \/ SuperviseExitUnrecorded \/ Route \/ RouteOutrun \/ Boot
    BY <1>7, SupervisorKind
  <1>8. CASE Others
    BY <1>8, OthersKeep
  <1> QED
    BY <1>1, <1>2, <1>3, <1>4, <1>5, <1>6, <1>7, <1>8 DEF Next, EngineStep, Others

-----------------------------------------------------------------------------
(* Every kind of step keeps the invariant *)

LEMMA FailedActor ==
  ASSUME ActorFails
  PROVE  actor'.pc = "failed" /\ active' = 0 /\ \A s \in Segs : attached'[s] = "no"
  BY DEF ActorFails, Ready

LEMMA QuietPlaced ==
  ASSUME TaskInv, Quiet
  PROVE  Placed'
  BY DEF TaskInv, Quiet, Placed, Starting, Stays, EnginesKept

LEMMA BeginsPlaced ==
  ASSUME TaskInv, Begins
  PROVE  Placed'
  <1>1. active = 0
    BY DEF TaskInv, Begins, Placed, Starts
  <1> QED
    BY <1>1 DEF Begins, Placed, Starting, Starts

LEMMA EndsPlaced ==
  ASSUME TaskInv, NEW reason, EndsRun(reason)
  PROVE  Placed'
  BY DEF EndsRun, Placed, Starting, Ends, Passes

LEMMA StumblesPlaced ==
  ASSUME TaskInv, Stumbles
  PROVE  Placed'
  BY FailedActor DEF Stumbles, Placed, Starting

LEMMA SupervisesPlaced ==
  ASSUME TaskInv, Supervises
  PROVE  Placed'
  <1>1. active = 0
    BY DEF TaskInv, Supervises, Placed
  <1> QED
    BY <1>1 DEF Supervises, Placed, Starting

LEMMA OthersPlaced ==
  ASSUME TaskInv, Others
  PROVE  Placed'
  <1>1. UNCHANGED proj
    BY OthersKeep
  <1>2. CASE PersistCheckpoint
    <2>1. active' = 0
      BY <1>2 DEF PersistCheckpoint
    <2>2. \/ actor.path \in {"handover", "consume"} /\ actor'.pc = "spawn" /\ actor'.seg = actor.seg
          \/ actor'.pc = "idle"
      BY <1>2 DEF PersistCheckpoint, Do, Ready
    <2> QED
      BY <1>1, <1>2, <2>1, <2>2 DEF TaskInv, PersistCheckpoint, Placed, Starting
  <1>3. CASE SpawnIdempotent \/ SpawnClosed
    <2>1. /\ actor.pc = "spawn" /\ actor'.pc = "deliver" /\ actor'.seg = actor.seg
          /\ \/ actor'.path = "live"
             \/ actor'.path \in {"replay", "closed"} /\ engine[actor.seg] = "off" /\ engine' = engine
          /\ UNCHANGED active
      BY <1>3 DEF SpawnIdempotent, SpawnClosed, Do, engines, memory
    <2>2. active = 0
      BY <2>1 DEF TaskInv, Placed
    <2> QED
      BY <1>1, <2>1, <2>2 DEF TaskInv, Placed, Starting
  <1>4. CASE MarkDelivered
    <2>1. actor.pc = "deliver" /\ actor'.pc = "idle" /\ active' = actor.seg
      BY <1>4 DEF MarkDelivered, Ready
    <2> QED
      BY <1>1, <2>1 DEF TaskInv, Placed, Starting
  <1>5. CASE Crash
    <2>1. actor'.pc = "down" /\ active' = 0
      BY <1>5 DEF Crash, Ready
    <2> QED
      BY <1>1, <2>1 DEF Placed, Starting
  <1>6. CASE \E s \in Segs : EngineFinish(s) \/ EngineReturn(s) \/ EngineReturnUnrecorded(s)
    <2>1. PICK s \in Segs : EngineFinish(s) \/ EngineReturn(s) \/ EngineReturnUnrecorded(s)
      BY <1>6
    <2>2. UNCHANGED <<actor, active>>
      BY <2>1 DEF EngineFinish, EngineReturn, EngineReturnUnrecorded, memory
    <2>3. engine[s] # "off" /\ \A t \in Segs : t # s => engine'[t] = engine[t]
      BY <2>1 DEF EngineFinish, EngineReturn, EngineReturnUnrecorded, TaskInv, TypeOK
    <2>4. actor.pc = "deliver" => actor.seg \in Segs
      BY DEF TaskInv, Placed, Starting, Sound, Numbered
    <2> QED
      BY <1>1, <2>2, <2>3, <2>4 DEF TaskInv, Placed, Starting
  <1> QED
    BY <1>2, <1>3, <1>4, <1>5, <1>6 DEF Others

-----------------------------------------------------------------------------
(* ... of every segment *)

LEMMA QuietSegment ==
  ASSUME TaskInv, Quiet, NEW s \in Segs
  PROVE  Segment(s)'
  <1>1. Segment(s)
    BY DEF TaskInv
  <1>2. Claimed(s)' /\ Once(s)' /\ Ran(s)'
    BY <1>1 DEF Segment, Quiet, EnginesKept, Stays, Claimed, Once, Ran
  <1>3. Listening(s)'
    BY <1>1 DEF Segment, Quiet, EnginesKept, Stays, Listening, Starting
  <1>4. Works(s)'
    BY <1>1 DEF Segment, Quiet, EnginesKept, Stays, Works
  <1> QED
    BY <1>2, <1>3, <1>4 DEF Segment

LEMMA BeginsSegment ==
  ASSUME TaskInv, Begins, NEW s \in Segs
  PROVE  Segment(s)'
  <1>1. Segment(s) /\ proj.seg \in Nat /\ s \in Nat
    BY DEF TaskInv, Sound, Projection, Segs
  <1>2. Claimed(s)' /\ Once(s)' /\ Ran(s)'
    BY <1>1 DEF Segment, Begins, EnginesKept, Starts, Claimed, Once, Ran
  <1>3. Listening(s)'
    BY <1>1 DEF Segment, Begins, EnginesKept, Starts, Listening, Starting, Listeners
  <1>4. Works(s)'
    BY <1>1 DEF Segment, Begins, EnginesKept, Starts, Works
  <1> QED
    BY <1>2, <1>3, <1>4 DEF Segment

LEMMA EndsSegment ==
  ASSUME TaskInv, NEW reason \in Reasons, EndsRun(reason), NEW s \in Segs
  PROVE  Segment(s)'
  <1>1. /\ Segment(s) /\ proj.seg \in Segs /\ proj.seg \in Nat /\ s \in Nat
        /\ proj.ended \in [Segs -> Reasons]
    BY DEF TaskInv, Sound, Projection, Segs, EndsRun, Numbered
  <1>2. /\ proj'.seg \in {proj.seg, proj.seg + 1}
        /\ proj'.ended = [proj.ended EXCEPT ![proj.seg] = reason]
    BY DEF EndsRun, Ends, Passes
  <1>3. Claimed(s)' /\ Once(s)'
    BY <1>1 DEF Segment, EndsRun, EnginesKept, Claimed, Once
  <1>4. Ran(s)'
    BY <1>1, <1>2 DEF Segment, EndsRun, EnginesKept, Ran
  <1>5. Listening(s)'
    <2>1. attached'[s] # "no" => attached'[s] = attached[s] /\ attached[s] # "no"
      BY DEF EndsRun, TaskInv, TypeOK
    <2>2. Starting' => actor'.seg = proj.seg + 1
      BY DEF EndsRun, Starting, Passes
    <2> QED
      BY <1>1, <1>2, <2>1, <2>2 DEF Segment, EndsRun, EnginesKept, Listening, Listeners
  <1>6. Works(s)'
    <2>1. s = proj.seg => engine[s] # "running"
      BY DEF EndsRun
    <2> QED
      BY <1>1, <1>2, <2>1 DEF Segment, EndsRun, EnginesKept, Works
  <1> QED
    BY <1>3, <1>4, <1>5, <1>6 DEF Segment

LEMMA StumblesSegment ==
  ASSUME TaskInv, Stumbles, NEW s \in Segs
  PROVE  Segment(s)'
  <1>1. Segment(s) /\ actor'.pc = "failed" /\ attached'[s] = "no"
    BY FailedActor DEF TaskInv, Stumbles
  <1>2. Claimed(s)' /\ Once(s)' /\ Ran(s)'
    BY <1>1 DEF Segment, Stumbles, EnginesKept, Stays, Claimed, Once, Ran
  <1>3. Listening(s)'
    BY <1>1 DEF Listening
  <1>4. Works(s)'
    BY <1>1 DEF Segment, Stumbles, EnginesKept, Stays, Works
  <1> QED
    BY <1>2, <1>3, <1>4 DEF Segment

LEMMA SupervisesSegment ==
  ASSUME TaskInv, Supervises, NEW s \in Segs
  PROVE  Segment(s)'
  <1>1. Segment(s) /\ attached[s] = "no" /\ proj.ended \in [Segs -> Reasons]
    BY DEF TaskInv, Supervises, Segment, Listening, Listeners, Sound, Projection
  <1>2. /\ proj'.seg = proj.seg
        /\ proj'.ended[s] \in {proj.ended[s], "interrupted_by_restart"}
    BY <1>1 DEF Supervises, Stays, GivesUp, Ends
  <1>3. Claimed(s)' /\ Once(s)' /\ Ran(s)'
    BY <1>1, <1>2 DEF Segment, Supervises, EnginesKept, Claimed, Once, Ran
  <1>4. Listening(s)'
    BY <1>1 DEF Listening, Supervises
  <1>5. Works(s)'
    <2>1. faults' = 0 => engine[s] # "running"
      BY <1>1 DEF Segment, Supervises, Works
    <2> QED
      BY <1>1, <1>2, <2>1 DEF Segment, Supervises, EnginesKept, Works
  <1> QED
    BY <1>3, <1>4, <1>5 DEF Segment

LEMMA PersistSegment ==
  ASSUME TaskInv, PersistCheckpoint, UNCHANGED proj, NEW s \in Segs
  PROVE  Segment(s)'
  <1>1. Segment(s) /\ UNCHANGED <<claim, engine, outcome, starts, completed, attached, faults>>
    BY DEF TaskInv, PersistCheckpoint, durable, engines, bounds
  <1>2. Starting' => Starting /\ actor'.seg = actor.seg
    BY DEF PersistCheckpoint, Starting, Do, Ready
  <1>3. actor'.pc \in {"idle", "spawn"} /\ actor.pc = "checkpoint"
    BY DEF PersistCheckpoint, Do, Ready
  <1>4. Claimed(s)' /\ Once(s)' /\ Ran(s)'
    BY <1>1 DEF Segment, Claimed, Once, Ran
  <1>5. Listening(s)'
    BY <1>1, <1>2, <1>3 DEF Segment, Listening, Listeners
  <1>6. Works(s)'
    BY <1>1, <1>3 DEF Segment, Works
  <1> QED
    BY <1>4, <1>5, <1>6 DEF Segment

LEMMA SpawnSegment ==
  ASSUME TaskInv, SpawnIdempotent \/ SpawnClosed, UNCHANGED proj, NEW s \in Segs
  PROVE  Segment(s)'
  <1> DEFINE a == actor.seg
  <1>1. Segment(s) /\ Segment(a) /\ a = proj.seg /\ IsActive(proj) /\ a \in Segs /\ a \in Nat
        /\ proj.ended[a] = "none"
    BY DEF TaskInv, SpawnIdempotent, SpawnClosed, Placed, Starting, Sound, Numbered, Segs
  <1>2. actor.pc = "spawn" /\ actor'.pc = "deliver" /\ actor'.seg = a /\ UNCHANGED attached
    BY DEF SpawnIdempotent, SpawnClosed, Do, memory
  <1>3. faults' = 0 => faults = 0
    BY BoundsAssumption DEF TaskInv, TypeOK, SpawnIdempotent, SpawnClosed, bounds
  <1>4. Starting /\ (Starting' => actor'.seg = actor.seg)
    BY <1>2 DEF Starting
  <1>5. CASE UNCHANGED <<claim, engine, outcome, starts, completed>>
    <2>1. Claimed(s)' /\ Once(s)' /\ Ran(s)'
      BY <1>1, <1>5 DEF Segment, Claimed, Once, Ran
    <2>2. Listening(s)'
      BY <1>1, <1>2, <1>4, <1>5 DEF Segment, Listening, Listeners
    <2>3. Works(s)'
      BY <1>1, <1>2, <1>3, <1>5 DEF Segment, Works
    <2> QED
      BY <2>1, <2>2, <2>3 DEF Segment
  <1>6. CASE /\ claim[a] = "none" /\ claim' = [claim EXCEPT ![a] = "in_progress"]
             /\ engine' = [engine EXCEPT ![a] = "running"]
             /\ starts' = [starts EXCEPT ![a] = @ + 1] /\ UNCHANGED <<outcome, completed>>
    <2>1. starts[a] = 0 /\ outcome[a] = "none" /\ attached[a] = "no"
      BY <1>1, <1>2, <1>4, <1>6 DEF Segment, Claimed, Listening
    <2>2. CASE s = a
      <3>1. claim'[s] = "in_progress" /\ engine'[s] = "running" /\ starts'[s] = 1
        BY <1>1, <1>6, <2>1, <2>2 DEF TaskInv, TypeOK
      <3>2. Claimed(s)' /\ Once(s)' /\ Ran(s)'
        BY <1>1, <1>6, <2>2, <3>1 DEF Segment, Claimed, Once, Ran
      <3>3. Listening(s)'
        BY <1>2, <2>1, <2>2 DEF Listening
      <3>4. Works(s)'
        BY <1>1, <1>2, <1>6, <2>1, <2>2 DEF Works
      <3> QED
        BY <3>2, <3>3, <3>4 DEF Segment
    <2>3. CASE s # a
      <3>1. claim'[s] = claim[s] /\ engine'[s] = engine[s] /\ starts'[s] = starts[s]
        BY <1>1, <1>6, <2>3 DEF TaskInv, TypeOK
      <3>2. Claimed(s)' /\ Once(s)' /\ Ran(s)'
        BY <1>1, <1>6, <3>1 DEF Segment, Claimed, Once, Ran
      <3>3. Listening(s)'
        BY <1>1, <1>2, <1>4, <3>1 DEF Segment, Listening, Listeners
      <3>4. Works(s)'
        BY <1>1, <1>2, <1>3, <1>6, <3>1 DEF Segment, Works
      <3> QED
        BY <3>2, <3>3, <3>4 DEF Segment
    <2> QED
      BY <2>2, <2>3
  <1>7. CASE /\ claim[a] # "none" /\ claim' = [claim EXCEPT ![a] = Replayed(@)]
             /\ UNCHANGED <<engine, outcome, starts, completed>>
    <2>1. \/ claim'[s] = claim[s]
          \/ s = a /\ claim[s] # "none" /\ claim'[s] = "failed"
      BY <1>1, <1>7 DEF TaskInv, TypeOK, Replayed
    <2>2. Claimed(s)' /\ Once(s)' /\ Ran(s)'
      BY <1>1, <1>7, <2>1 DEF Segment, Claimed, Once, Ran
    <2>3. Listening(s)'
      BY <1>1, <1>2, <1>4, <1>7 DEF Segment, Listening, Listeners
    <2>4. Works(s)'
      BY <1>1, <1>2, <1>3, <1>7 DEF Segment, Works
    <2> QED
      BY <2>2, <2>3, <2>4 DEF Segment
  <1> QED
    BY <1>5, <1>6, <1>7 DEF SpawnIdempotent, SpawnClosed, Claimable, engines, durable

LEMMA DeliverSegment ==
  ASSUME TaskInv, MarkDelivered, UNCHANGED proj, NEW s \in Segs
  PROVE  Segment(s)'
  <1>1. Segment(s) /\ UNCHANGED <<claim, engine, outcome, starts, completed, faults>>
    BY DEF TaskInv, MarkDelivered, engines, bounds
  <1>2. actor.pc = "deliver" /\ actor'.pc = "idle" /\ ~Starting'
    BY DEF MarkDelivered, Ready, Starting
  <1>3. actor.seg = proj.seg /\ proj.seg \in Segs /\ proj.seg \in Nat
        /\ (actor.path # "live" => engine[actor.seg] = "off")
    BY <1>2 DEF TaskInv, Placed, Starting, Sound, Numbered, Segs
  <1>4. attached'[s] = IF s = actor.seg THEN actor.path ELSE attached[s]
    BY DEF TaskInv, TypeOK, MarkDelivered
  <1>5. Claimed(s)' /\ Once(s)' /\ Ran(s)'
    BY <1>1 DEF Segment, Claimed, Once, Ran
  <1>6. Listening(s)'
    BY <1>1, <1>2, <1>3, <1>4 DEF Segment, Listening, Listeners
  <1>7. Works(s)'
    BY <1>1, <1>2 DEF Segment, Works
  <1> QED
    BY <1>5, <1>6, <1>7 DEF Segment

LEMMA CrashSegment ==
  ASSUME TaskInv, Crash, UNCHANGED proj, NEW s \in Segs
  PROVE  Segment(s)'
  <1>1. /\ Segment(s) /\ UNCHANGED <<claim, starts, completed>>
        /\ engine'[s] = "off" /\ outcome'[s] = "none" /\ attached'[s] = "no"
    BY DEF TaskInv, Crash, durable
  <1> QED
    BY <1>1 DEF Segment, Claimed, Once, Ran, Listening, Works

LEMMA ReasonsGiven ==
  ASSUME TaskInv, NEW s \in Segs, NEW reason \in TerminalReasons(s)
  PROVE  reason \in Reasons \ {"none"}
  <1>1. proj.ended[s] \in Reasons /\ outcome[s] \in Outcomes
    BY DEF TaskInv, TypeOK, Sound, Projection
  <1> QED
    BY <1>1, States DEF TerminalReasons, Outcomes

LEMMA EngineSegment ==
  ASSUME TaskInv, UNCHANGED proj, NEW s \in Segs, NEW t \in Segs,
         EngineFinish(t) \/ EngineReturn(t) \/ EngineReturnUnrecorded(t)
  PROVE  Segment(s)'
  <1>1. Segment(s) /\ engine[t] # "off" /\ UNCHANGED <<actor, attached, starts>>
    BY DEF TaskInv, EngineFinish, EngineReturn, EngineReturnUnrecorded, memory
  <1>2. faults' = 0 => faults = 0
    BY BoundsAssumption
    DEF TaskInv, TypeOK, EngineFinish, EngineReturn, EngineReturnUnrecorded, bounds
  <1>3. IF s = t THEN engine'[s] \in {"off", "finished"} ELSE engine'[s] = engine[s]
    BY DEF TaskInv, TypeOK, EngineFinish, EngineReturn, EngineReturnUnrecorded
  <1>4. engine[s] = "off" => engine'[s] = "off"
    BY <1>1, <1>3
  <1>5. s # t => outcome'[s] = outcome[s] /\ claim'[s] = claim[s]
    BY DEF TaskInv, TypeOK, EngineFinish, EngineReturn, EngineReturnUnrecorded, durable
  <1>6. /\ claim'[s] = "none" => claim[s] = "none"
        /\ claim'[s] = "completed" => claim[s] = "completed" \/ s \in completed'
        /\ completed \subseteq completed'
    <2>1. CASE EngineReturn(t)
      <3>1. PICK reason \in TerminalReasons(t) :
              /\ claim' = [claim EXCEPT ![t] = reason]
              /\ completed' = IF reason = "completed" THEN completed \cup {t} ELSE completed
        BY <2>1 DEF EngineReturn
      <3>2. reason # "none"
        BY ReasonsGiven
      <3>3. claim'[s] = IF s = t THEN reason ELSE claim[s]
        BY <3>1 DEF TaskInv, TypeOK
      <3> QED
        BY <3>1, <3>2, <3>3
    <2>2. CASE EngineFinish(t) \/ EngineReturnUnrecorded(t)
      BY <2>2 DEF EngineFinish, EngineReturnUnrecorded, durable
    <2> QED
      BY <2>1, <2>2
  <1>7. Claimed(s)' /\ Once(s)' /\ Ran(s)'
    <2>1. Claimed(s)'
      BY <1>1, <1>4, <1>5, <1>6 DEF Segment, Claimed
    <2> QED
      BY <1>1, <1>6, <2>1 DEF Segment, Once, Ran
  <1>8. Listening(s)'
    BY <1>1, <1>4 DEF Segment, Listening, Starting
  <1>9. Works(s)'
    BY <1>1, <1>2, <1>3, <1>5 DEF Segment, Works
  <1> QED
    BY <1>7, <1>8, <1>9 DEF Segment

-----------------------------------------------------------------------------
(* Types *)

TypedStore ==
  /\ outbox \subseteq Segs /\ poisoned \subseteq Segs /\ claim \in [Segs -> Claims]
TypedEngines ==
  /\ engine \in [Segs -> {"off", "running", "finished"}] /\ control \in [Segs -> Controls]
  /\ outcome \in [Segs -> Outcomes] /\ starts \in [Segs -> Nat] /\ completed \subseteq Segs
TypedActor ==
  /\ actor \in [pc : Pcs, path : Paths, seg : 0..MaxSegs]
  /\ active \in 0..MaxSegs /\ slot \in 0..MaxSegs
  /\ attached \in [Segs -> {"no", "live", "replay", "closed"}] /\ startNext \in Nat
TypedBounds ==
  crashes \in 0..MaxCrashes /\ faults \in 0..MaxFaults /\ appends \in 0..MaxAppends
Typed == TypedStore /\ TypedEngines /\ TypedActor /\ TypedBounds

LEMMA TypedParts == TypeOK <=> proj \in Projection /\ proj.run # "refused" /\ Typed
  BY DEF TypeOK, Typed, TypedStore, TypedEngines, TypedActor, TypedBounds

LEMMA Dos ==
  ASSUME NEW pc \in Pcs, NEW path \in Paths, NEW s \in 0..MaxSegs
  PROVE  /\ Do(pc, path, s) \in [pc : Pcs, path : Paths, seg : 0..MaxSegs]
         /\ [Ready EXCEPT !.pc = pc] \in [pc : Pcs, path : Paths, seg : 0..MaxSegs]
         /\ Ready \in [pc : Pcs, path : Paths, seg : 0..MaxSegs]
  BY MaxSegsAssumption DEF Do, Ready, Pcs, Paths

LEMMA Resets ==
  /\ Ready \in [pc : Pcs, path : Paths, seg : 0..MaxSegs]
  /\ [Ready EXCEPT !.pc = "failed"] \in [pc : Pcs, path : Paths, seg : 0..MaxSegs]
  /\ [Ready EXCEPT !.pc = "absent"] \in [pc : Pcs, path : Paths, seg : 0..MaxSegs]
  /\ [Ready EXCEPT !.pc = "down"] \in [pc : Pcs, path : Paths, seg : 0..MaxSegs]
  /\ 0 \in 0..MaxSegs
  BY MaxSegsAssumption DEF Ready, Pcs, Paths

LEMMA TypedFailure ==
  ASSUME ActorFails, TypedActor
  PROVE  TypedActor'
  BY Resets DEF ActorFails, TypedActor

LEMMA SoundSeg ==
  ASSUME NEW p, Sound(p)
  PROVE  p.seg \in 0..MaxSegs /\ (IsActive(p) => p.seg \in Segs)
  BY DEF Sound, Projection, Numbered

\* A transaction puts the segment it starts in the outbox, and no other.
Listed == outbox' = outbox \/ (proj'.seg > proj.seg /\ outbox' = outbox \cup {proj'.seg})

LEMMA TypedOutbox ==
  ASSUME TypedStore, Sound(proj), Sound(proj'), Listed
  PROVE  outbox' \subseteq Segs
  <1>1. proj.seg \in 0..MaxSegs /\ proj'.seg \in 0..MaxSegs
    BY SoundSeg
  <1>2. proj'.seg > proj.seg => proj'.seg \in Segs
    BY <1>1, MaxSegsAssumption DEF Segs
  <1> QED
    BY <1>2 DEF TypedStore, Listed

LEMMA TypedStoreStep ==
  ASSUME TaskInv, Next, Moved
  PROVE  TypedStore'
  <1>1. TypedStore /\ Sound(proj) /\ Sound(proj')
    BY DEF TaskInv, TypeOK, TypedStore, Moved
  <1>2. CASE Command
    <2>1. UNCHANGED <<claim, poisoned>>
      BY <1>2 DEF Command, StartSegment, StopRun, StopRunUnpropagated, Submit, Edit, Delete, Promote,
                  PromoteUnpropagated, PropagationFails
    <2>2. Listed
      BY <1>2 DEF Command, StartSegment, StopRun, StopRunUnpropagated, Submit, Edit, Delete, Promote,
                  PromoteUnpropagated, PropagationFails, Commit, Listed
    <2> QED
      BY <1>1, <2>1, <2>2, TypedOutbox DEF TypedStore
  <1>3. CASE \E s \in Segs : HandleRunEvent(s) \/ HandleRunEventOutrun(s)
    <2>1. UNCHANGED <<claim, poisoned>> /\ Listed
      BY <1>3 DEF HandleRunEvent, HandleRunEventOutrun, durable, Commit, Listed
    <2> QED
      BY <1>1, <2>1, TypedOutbox DEF TypedStore
  <1>4. CASE StartNextQueued
    <2>1. UNCHANGED <<claim, poisoned>>
      BY <1>4 DEF StartNextQueued
    <2>2. Listed
      <3>1. CASE UNCHANGED outbox
        BY <3>1 DEF Listed
      <3>2. CASE /\ ~IsActive(proj) /\ Room /\ outbox' = outbox \cup {proj'.seg}
                 /\ \E i \in Oldest(proj) : proj' = ConsumeNext(proj, i)
        <4>1. PICK q : q = proj' /\ \E i \in Oldest(proj) : q = ConsumeNext(proj, i)
          BY <3>2
        <4>2. q.seg = proj.seg + 1 /\ proj.seg \in Nat
          BY <1>1, <3>2, <4>1, SoundSeg, ConsumeNextTransaction DEF Room, Starts
        <4> QED
          BY <3>2, <4>1, <4>2 DEF Listed
      <3> QED
        BY <1>4, <3>1, <3>2 DEF StartNextQueued
    <2> QED
      BY <1>1, <2>1, <2>2, TypedOutbox DEF TypedStore
  <1>5. CASE SpawnIdempotent
    <2>1. UNCHANGED <<outbox, poisoned>>
      BY <1>5 DEF SpawnIdempotent
    <2>2. \A c \in Claims : Replayed(c) \in Claims
      BY States DEF Replayed, Claims
    <2>3. claim \in [Segs -> Claims] /\ actor.seg \in Segs /\ "in_progress" \in Claims
      BY <1>1, <1>5 DEF TypedStore, SpawnIdempotent, TaskInv, Placed, Starting, Sound, Numbered, Claims
    <2>4. \/ claim' = claim
          \/ \E c \in Claims : claim' = [claim EXCEPT ![actor.seg] = c]
      BY <1>5, <2>2, <2>3 DEF SpawnIdempotent
    <2>5. claim' \in [Segs -> Claims]
      BY <2>3, <2>4
    <2> QED
      BY <1>1, <2>1, <2>5 DEF TypedStore
  <1>6. CASE \E s \in Segs : EngineReturn(s)
    <2>1. PICK s \in Segs : EngineReturn(s)
      BY <1>6
    <2>2. PICK reason \in TerminalReasons(s) : claim' = [claim EXCEPT ![s] = reason]
      BY <2>1 DEF EngineReturn
    <2>3. reason \in Claims
      BY ReasonsGiven DEF Claims
    <2> QED
      BY <1>1, <2>1, <2>2, <2>3 DEF EngineReturn, TypedStore
  <1>7. CASE RouteOutrun \/ MarkDelivered
    <2>1. IsActive(proj) => proj.seg \in Segs
      BY <1>1, SoundSeg
    <2> QED
      BY <1>1, <1>7, <2>1 DEF RouteOutrun, MarkDelivered, TypedStore
  <1>8. CASE \/ StartNextQueuedOutrun \/ PersistCheckpoint \/ PersistCheckpointOutrun
             \/ SpawnClosed \/ ActorFault \/ SuperviseExit \/ SuperviseExitUnrecorded \/ Route
             \/ ResolveInteraction \/ Crash \/ Boot
             \/ \E s \in Segs : \/ EngineFinish(s) \/ EngineReturnUnrecorded(s)
                                \/ \E kind \in {"permission", "question"} : RequestInteraction(s, kind)
    <2>1. UNCHANGED <<outbox, poisoned, claim>>
      BY <1>8
      DEF StartNextQueuedOutrun, PersistCheckpoint, PersistCheckpointOutrun, SpawnClosed,
          ActorFault, SuperviseExit, SuperviseExitUnrecorded, Route, ResolveInteraction, Crash,
          Boot, EngineFinish, EngineReturnUnrecorded, RequestInteraction, durable
    <2> QED
      BY <1>1, <2>1 DEF TypedStore
  <1> QED
    BY <1>2, <1>3, <1>4, <1>5, <1>6, <1>7, <1>8 DEF Next, EngineStep

LEMMA TypedEnginesStep ==
  ASSUME TaskInv, Next
  PROVE  TypedEngines'
  <1>1. TypedEngines
    BY DEF TaskInv, TypeOK, TypedEngines
  <1>2. CASE UNCHANGED engines
    BY <1>1, <1>2 DEF engines, TypedEngines
  <1>3. CASE \E mode \in Modes : Propagate(proj.seg, mode)
    <2>1. PICK mode \in Modes : Propagate(proj.seg, mode)
      BY <1>3
    <2>2. Requested(mode) \in Controls
      BY DEF Requested, Controls
    <2> QED
      BY <1>1, <2>1, <2>2 DEF Propagate, TypedEngines
  <1>4. CASE SpawnIdempotent
    BY <1>1, <1>4 DEF SpawnIdempotent, engines, TypedEngines
  <1>5. CASE Crash
    BY <1>1, <1>5 DEF Crash, TypedEngines, Controls, Outcomes
  <1>6. CASE \E s \in Segs : EngineFinish(s) \/ EngineReturn(s) \/ EngineReturnUnrecorded(s)
    BY <1>1, <1>6 DEF EngineFinish, EngineReturn, EngineReturnUnrecorded, TypedEngines, Outcomes
  <1>7. CASE Command
    BY <1>2, <1>3, <1>7
    DEF Command, StartSegment, StopRun, StopRunUnpropagated, Submit, Edit, Delete, Promote,
        PromoteUnpropagated, PropagationFails
  <1> QED
    BY <1>2, <1>4, <1>5, <1>6, <1>7
    DEF Next, EngineStep, HandleRunEvent, HandleRunEventOutrun, StartNextQueued,
        StartNextQueuedOutrun, PersistCheckpoint, PersistCheckpointOutrun, SpawnClosed,
        MarkDelivered, ActorFault, SuperviseExit, SuperviseExitUnrecorded, Route, RouteOutrun,
        ResolveInteraction, RequestInteraction, Boot

LEMMA TypedBoundsStep ==
  ASSUME TaskInv, Next
  PROVE  TypedBounds'
  <1>1. TypedBounds /\ MaxCrashes \in Nat /\ MaxFaults \in Nat /\ MaxAppends \in Nat
    BY BoundsAssumption DEF TaskInv, TypeOK, TypedBounds
  <1>2. \/ UNCHANGED bounds
        \/ crashes < MaxCrashes /\ crashes' = crashes + 1 /\ UNCHANGED <<faults, appends>>
        \/ faults < MaxFaults /\ faults' = faults + 1 /\ UNCHANGED <<crashes, appends>>
        \/ appends < MaxAppends /\ appends' = appends + 1 /\ UNCHANGED <<crashes, faults>>
    <2>1. CASE Command
      BY <2>1
      DEF Command, StartSegment, StopRun, StopRunUnpropagated, Submit, Edit, Delete, Promote,
          PromoteUnpropagated, PropagationFails
    <2>2. CASE \E s \in Segs : HandleRunEvent(s) \/ HandleRunEventOutrun(s) \/ EngineStep(s)
      BY <2>2
      DEF HandleRunEvent, HandleRunEventOutrun, EngineStep, RequestInteraction, EngineFinish,
          EngineReturn, EngineReturnUnrecorded, Outrun
    <2> QED
      BY <2>1, <2>2
      DEF Next, StartNextQueued, StartNextQueuedOutrun, PersistCheckpoint,
          PersistCheckpointOutrun, SpawnIdempotent, SpawnClosed, MarkDelivered, ActorFault,
          SuperviseExit, SuperviseExitUnrecorded, Route, RouteOutrun, ResolveInteraction, Crash,
          Boot, Outrun
  <1> QED
    BY <1>1, <1>2 DEF TypedBounds, bounds

LEMMA TypedActorStep ==
  ASSUME TaskInv, Next, Moved
  PROVE  TypedActor'
  <1> DEFINE A == [pc : Pcs, path : Paths, seg : 0..MaxSegs]
  <1>1. TypedActor /\ Sound(proj) /\ Sound(proj')
    BY DEF TaskInv, TypeOK, TypedActor, Moved
  <1>2. CASE UNCHANGED <<actor, memory>>
    BY <1>1, <1>2 DEF TypedActor, memory
  <1>3. CASE ActorFails
    BY <1>1, <1>3, TypedFailure
  <1>4. CASE BeginSegment /\ Room
    <2>1. proj.seg + 1 \in 0..MaxSegs
      BY <1>1, <1>4, SoundSeg, MaxSegsAssumption DEF Room
    <2>2. actor' \in A
      BY <1>4, <2>1, Dos DEF BeginSegment, Pcs, Paths
    <2> QED
      BY <1>1, <1>4, <2>1, <2>2 DEF BeginSegment, TypedActor
  <1>5. CASE Command
    <2>1. CASE StartSegment
      BY <1>3, <1>4, <2>1 DEF StartSegment, Commit
    <2>2. CASE \E i \in Items : Submit(i)
      BY <1>2, <1>3, <1>4, <2>2 DEF Submit, Commit
    <2>3. CASE \E i \in Items : Edit(i) \/ Delete(i)
      BY <1>2, <1>3, <2>3 DEF Edit, Delete, Commit
    <2>4. CASE \E mode \in Modes : StopRun(mode) \/ \E i \in Items : Promote(i, mode)
      BY <1>2, <1>3, <2>4 DEF StopRun, Promote, Commit
    <2>5. CASE \E mode \in Modes : \/ StopRunUnpropagated(mode)
                                   \/ \E i \in Items : PromoteUnpropagated(i, mode)
      BY <1>3, <2>5 DEF StopRunUnpropagated, PromoteUnpropagated, PropagationFails
    <2> QED
      BY <1>5, <2>1, <2>2, <2>3, <2>4, <2>5 DEF Command
  <1>6. CASE \E s \in Segs : HandleRunEvent(s)
    <2>1. PICK s \in Segs : HandleRunEvent(s)
      BY <1>6
    <2>2. CASE Take(s) /\ UNCHANGED <<actor, active, slot, startNext>>
      BY <1>1, <2>2 DEF Take, TypedActor
    <2>3. CASE \E e \in RunEventOf(s) : /\ proj' = e.q
                                        /\ Take(s) /\ Checkpoint(e.path, e.q.seg)
      <3>1. PICK e \in RunEventOf(s) : proj' = e.q /\ Take(s) /\ Checkpoint(e.path, e.q.seg)
        BY <2>3
      <3>2. e.path \in {"handover", "terminal", "ended"}
        BY DEF RunEventOf
      <3>3. e.q.seg \in 0..MaxSegs
        BY <1>1, <3>1, SoundSeg
      <3>4. actor' \in A
        BY <3>1, <3>2, <3>3, Dos DEF Checkpoint, Pcs, Paths
      <3> QED
        BY <1>1, <3>1, <3>4 DEF Take, Checkpoint, TypedActor
    <2> QED
      BY <1>3, <2>1, <2>2, <2>3 DEF HandleRunEvent, Commit
  <1>7. CASE \E s \in Segs : HandleRunEventOutrun(s)
    BY <1>1, <1>7 DEF HandleRunEventOutrun, Take, TypedActor
  <1>8. CASE StartNextQueued \/ StartNextQueuedOutrun
    <2>1. /\ startNext' \in Nat /\ UNCHANGED <<active, slot, attached>>
          /\ actor' = actor \/ actor' = Do("checkpoint", "consume", proj'.seg)
      BY <1>1, <1>8 DEF StartNextQueued, StartNextQueuedOutrun, TypedActor
    <2>2. actor' \in A
      BY <1>1, <2>1, SoundSeg, Dos DEF TypedActor, Pcs, Paths
    <2> QED
      BY <1>1, <2>1, <2>2 DEF TypedActor
  <1>9. CASE PersistCheckpoint
    <2>1. actor.seg \in 0..MaxSegs
      BY <1>1 DEF TypedActor
    <2>2. actor' \in A
      BY <1>9, <2>1, Dos, Resets DEF PersistCheckpoint, Pcs, Paths
    <2> QED
      BY <1>1, <1>9, <2>1, <2>2, Resets DEF PersistCheckpoint, TypedActor
  <1>10. CASE SpawnIdempotent \/ SpawnClosed
    <2>1. actor.seg \in 0..MaxSegs
      BY <1>1 DEF TypedActor
    <2>2. actor' \in A
      BY <1>10, <2>1, Dos DEF SpawnIdempotent, SpawnClosed, Pcs, Paths
    <2> QED
      BY <1>1, <1>10, <2>2 DEF SpawnIdempotent, SpawnClosed, memory, TypedActor
  <1>11. CASE MarkDelivered
    <2>1. actor.seg \in 0..MaxSegs /\ actor.path \in {"live", "replay", "closed"}
      BY <1>1, <1>11 DEF TypedActor, MarkDelivered, TaskInv, Placed
    <2> QED
      BY <1>1, <1>11, <2>1, Resets DEF MarkDelivered, TypedActor
  <1>12. CASE SuperviseExit \/ SuperviseExitUnrecorded \/ Route \/ RouteOutrun
    <2>1. UNCHANGED <<active, attached, startNext>>
      BY <1>12 DEF SuperviseExit, SuperviseExitUnrecorded, Route, RouteOutrun
    <2>2. proj.seg \in 0..MaxSegs /\ proj'.seg \in 0..MaxSegs
      BY <1>1, SoundSeg
    <2>3. \/ actor' \in {Ready, [Ready EXCEPT !.pc = "absent"]} /\ slot' = 0
          \/ actor' = Do("spawn", "none", proj.seg) /\ slot' = proj.seg
          \/ actor' = Do("spawn", "none", proj'.seg) /\ slot' = proj'.seg
      BY <1>12 DEF SuperviseExit, SuperviseExitUnrecorded, Route, RouteOutrun, StartActor
    <2>4. actor' \in A
      BY <2>2, <2>3, Dos, Resets DEF Pcs, Paths
    <2> QED
      BY <1>1, <2>1, <2>2, <2>3, <2>4, Resets DEF TypedActor
  <1>13. CASE Crash \/ Boot
    BY <1>1, <1>13, Resets DEF Crash, Boot, memory, TypedActor
  <1>14. CASE ActorFault \/ PersistCheckpointOutrun
    BY <1>3, <1>14 DEF ActorFault, PersistCheckpointOutrun
  <1>15. CASE ResolveInteraction \/ \E s \in Segs : EngineStep(s)
    BY <1>2, <1>15 DEF ResolveInteraction, EngineStep, RequestInteraction, EngineFinish,
                       EngineReturn, EngineReturnUnrecorded
  <1> QED
    BY <1>5, <1>6, <1>7, <1>8, <1>9, <1>10, <1>11, <1>12, <1>13, <1>14, <1>15 DEF Next

-----------------------------------------------------------------------------
(* Theorems *)

LEMMA TaskInvInit == Init => TaskInv
  <1> SUFFICES ASSUME Init
               PROVE  TaskInv
    OBVIOUS
  <1>1. /\ proj.seg = 0 /\ proj.run = "none" /\ proj.pending = "none"
        /\ proj.ended = [s \in Segs |-> "none"] /\ proj.item = [i \in Items |-> "absent"]
    BY DEF Init, EmptyProjection
  <1>2. proj \in Projection
    BY States, MaxSegsAssumption DEF Init, EmptyProjection, Projection
  <1>3. Promoting(proj) = {} /\ ~IsActive(proj)
    BY <1>1 DEF Promoting, IsActive, ActiveStates
  <1>4. Sound(proj)
    BY <1>1, <1>2, <1>3 DEF Sound, Waits, Owned, Numbered
  <1>5. TypeOK
    <2>1. TypedActor
      BY Resets DEF Init, TypedActor
    <2>2. TypedStore /\ TypedEngines /\ TypedBounds
      BY BoundsAssumption DEF Init, TypedStore, TypedEngines, TypedBounds, Claims, Controls, Outcomes
    <2> QED
      BY <1>1, <1>2, <2>1, <2>2, TypedParts DEF Typed
  <1>6. actor.pc = "absent" /\ active = 0
    BY DEF Init, Ready
  <1>7. Placed
    BY <1>6 DEF Placed, Starting
  <1>8. ASSUME NEW s \in Segs
        PROVE  Segment(s)
    BY <1>1 DEF Init, Segment, Claimed, Once, Ran, Listening, Works
  <1> QED
    BY <1>4, <1>5, <1>7, <1>8 DEF TaskInv

LEMMA TaskInvStep == TaskInv /\ [Next]_vars => TaskInv' /\ Finals(proj, proj')
  <1>1. CASE TaskInv /\ Next
    <2>1. /\ Moved
          /\ \/ Quiet \/ Begins \/ Stumbles \/ Supervises \/ Others
             \/ \E reason \in Reasons : EndsRun(reason)
      BY <1>1, Kinds
    <2>2. Sound(proj') /\ Finals(proj, proj')
      BY <2>1 DEF Moved
    <2>3. TypeOK'
      <3>1. Typed'
        BY <1>1, <2>1, TypedStoreStep, TypedEnginesStep, TypedActorStep, TypedBoundsStep DEF Typed
      <3>2. proj' \in Projection /\ proj'.run # "refused"
        BY <2>2 DEF Sound
      <3> QED
        BY <3>1, <3>2
        DEF TypeOK, Typed, TypedStore, TypedEngines, TypedActor, TypedBounds
    <2>4. Placed'
      BY <1>1, <2>1, QuietPlaced, BeginsPlaced, StumblesPlaced, SupervisesPlaced, OthersPlaced,
         EndsPlaced
    <2>5. ASSUME NEW s \in Segs
          PROVE  Segment(s)'
      <3>1. CASE Others
        BY <1>1, <3>1, OthersKeep, PersistSegment, SpawnSegment, DeliverSegment, CrashSegment,
           EngineSegment DEF Others
      <3> QED
        BY <1>1, <2>1, <3>1, QuietSegment, BeginsSegment, StumblesSegment, SupervisesSegment,
           EndsSegment
    <2> QED
      BY <2>2, <2>3, <2>4, <2>5 DEF TaskInv
  <1>2. CASE TaskInv /\ UNCHANGED vars
    <2>1. /\ UNCHANGED <<proj, outbox, claim, poisoned, engine, control, outcome, starts, completed>>
          /\ UNCHANGED <<actor, active, slot, attached, startNext, crashes, faults, appends>>
      BY <1>2 DEF vars, durable, engines, memory, bounds
    <2>2. Finals(proj, proj')
      BY <1>2, <2>1, StaysPut DEF TaskInv
    <2>3. TypeOK' /\ Sound(proj') /\ Placed'
      BY <1>2, <2>1 DEF TaskInv, TypeOK, Placed, Starting
    <2>4. ASSUME NEW s \in Segs
          PROVE  Segment(s)'
      BY <1>2, <2>1 DEF TaskInv, Segment, Claimed, Once, Ran, Listening, Works, Starting
    <2> QED
      BY <2>2, <2>3, <2>4 DEF TaskInv
  <1> QED
    BY <1>1, <1>2

\* The inductive invariant holds in every state of the daemon: what the store says of the run,
\* what the actor holds and where the engines are agree (task_actor.rs, supervisor.rs).
THEOREM Invariant == Spec => []TaskInv
  BY TaskInvInit, TaskInvStep, PTL DEF Spec

\* The projection, the store's delivery tables and the actor always have their types; in
\* particular no transaction commits a projection that the reducer refused (reduce_task).
THEOREM TypeCorrect == Spec => []TypeOK
  <1>1. TaskInv => TypeOK
    BY DEF TaskInv
  <1> QED
    BY <1>1, Invariant, PTL

\* A segment's engine is started at most once, however often its start is delivered again
\* (spawn_idempotent, claim_segment_execution).
THEOREM StartedOnce == Spec => []ExecutedOnce
  <1>1. TaskInv => ExecutedOnce
    BY DEF TaskInv, Segment, Once, ExecutedOnce
  <1> QED
    BY <1>1, Invariant, PTL

\* A run is reported completed only if its engine came to its end (handle_run_event,
\* segment_terminal_reason).
THEOREM SuccessRan == Spec => []CompletedRan
  <1>1. TaskInv => CompletedRan
    BY DEF TaskInv, Segment, Ran, CompletedRan
  <1> QED
    BY <1>1, Invariant, PTL

\* At most one message is promoted, and only while the run yields to it (decide_queue,
\* handle_run_event, recover_projection).
THEOREM PromotedOwned == Spec => []PromotionOwned
  <1>1. TaskInv => PromotionOwned
    <2> SUFFICES ASSUME TaskInv
                 PROVE  PromotionOwned
      OBVIOUS
    <2>1. Owned(proj)
      BY DEF TaskInv, Sound
    <2>2. Cardinality(Promoting(proj)) <= 1
      <3>1. CASE Promoting(proj) = {}
        BY <3>1, FS_EmptySet
      <3>2. CASE Promoting(proj) # {}
        <4>1. PICK i : i \in Promoting(proj)
          BY <3>2
        <4>2. Promoting(proj) = {i}
          BY <2>1, <4>1 DEF Owned
        <4>3. Cardinality({i}) = 1
          BY FS_Singleton
        <4> QED
          BY <4>2, <4>3
      <3> QED
        BY <3>1, <3>2
    <2> QED
      BY <2>1, <2>2 DEF PromotionOwned, Owned
  <1> QED
    BY <1>1, Invariant, PTL

\* Unless an actor failed, two engines of a task never work at a time; an engine left behind
\* is one whose run was given up or recovered as interrupted (spawn_idempotent).
THEOREM ForegroundAlone == Spec => []OneForegroundSegment
  <1>1. TaskInv => OneForegroundSegment
    <2> SUFFICES ASSUME TaskInv, NEW s \in Segs, NEW t \in Segs, engine[s] = "running",
                        engine[t] = "running", s < t
                 PROVE  faults > 0 /\ proj.ended[s] \in {"none", "interrupted_by_restart"}
      BY DEF OneForegroundSegment
    <2>1. Works(s) /\ Works(t) /\ faults \in Nat
      BY BoundsAssumption DEF TaskInv, TypeOK, Segment
    <2>2. faults # 0
      BY <2>1 DEF Works, Segs
    <2> QED
      BY <2>1, <2>2 DEF Works
  <1> QED
    BY <1>1, Invariant, PTL

\* A promoted message is frozen, and one that left the queue never comes back, whatever
\* transaction follows (queue events of reduce_task).
THEOREM FinalItems == Spec => QueueItemsFinal
  <1>1. TaskInv /\ [Next]_vars =>
          [\A i \in Items :
             /\ proj.item[i] = "promoting" => proj'.rev[i] = proj.rev[i]
             /\ proj.item[i] \in {"consumed", "deleted"}
                  => proj'.item[i] = proj.item[i] /\ proj'.by[i] = proj.by[i]]_vars
    BY TaskInvStep DEF Finals
  <1> QED
    BY <1>1, Invariant, PTL DEF Spec, QueueItemsFinal

-----------------------------------------------------------------------------
(* The mode of a stop and the limit of the queue *)

\* A run that yields has a mode, and no other active run has.
Moded(p) == IsActive(p) => (p.run = "yielding" <=> p.mode # "none")

Bounded(p) == IsFiniteSet(Queue(p)) /\ Cardinality(Queue(p)) <= QueueLimit

Fit(p) == Moded(p) /\ Bounded(p)

\* The run goes on as before, or is told to stop.
Calm(p, q) ==
  /\ q.seg = p.seg /\ q.mode = p.mode /\ (q.run = "yielding" <=> p.run = "yielding")
  /\ IsActive(q) <=> IsActive(p)
Halts(q, mode) == q.run = "yielding" /\ q.mode = mode

LEMMA ModedBy ==
  ASSUME NEW p, Moded(p), NEW q, NEW mode \in Modes,
         Calm(p, q) \/ Fresh(q) \/ Halts(q, mode) \/ ~IsActive(q)
  PROVE  Moded(q)
  BY DEF Moded, Calm, Fresh, Halts, Modes

LEMMA BoundedBy ==
  ASSUME NEW p, Bounded(p), NEW q, Shrinks(p, q)
  PROVE  Bounded(q)
  <1>1. IsFiniteSet(Queue(q)) /\ Cardinality(Queue(q)) <= Cardinality(Queue(p))
    BY FS_Subset DEF Bounded, Shrinks
  <1>2. Cardinality(Queue(q)) \in Nat /\ Cardinality(Queue(p)) \in Nat /\ QueueLimit \in Nat
    BY <1>1, FS_CardinalityType, QueueLimitAssumption DEF Bounded
  <1> QED
    BY <1>1, <1>2 DEF Bounded

LEMMA SameQueueShrinks ==
  ASSUME NEW p, NEW q, q.item = p.item
  PROVE  Shrinks(p, q)
  BY DEF Shrinks, Queue

LEMMA QueueFits ==
  ASSUME NEW p, Sound(p), Fit(p), NEW i \in Items, p.item[i] = "absent",
         Cardinality(Queue(p)) < QueueLimit, NEW q, q = MessageQueued(p, i)
  PROVE  Fit(q) /\ Calm(p, q)
  <1>1. p \in Projection /\ p.run # "refused" /\ i \notin Queue(p)
    BY DEF Sound, Queue
  <1>2. SameRun(p, q) /\ q.item = [p.item EXCEPT ![i] = "queued"]
    BY <1>1, MessageQueuedDoes
  <1>3. Calm(p, q) /\ Moded(q)
    BY <1>2 DEF SameRun, Calm, Fit, Moded, IsActive
  <1>4. Queue(q) = Queue(p) \cup {i}
    BY <1>1, <1>2 DEF Queue, Projection
  <1>5. IsFiniteSet(Queue(q)) /\ Cardinality(Queue(q)) = Cardinality(Queue(p)) + 1
    BY <1>1, <1>4, FS_AddElement DEF Fit, Bounded
  <1>6. Cardinality(Queue(p)) \in Nat /\ QueueLimit \in Nat
    BY FS_CardinalityType, QueueLimitAssumption DEF Fit, Bounded
  <1>7. Bounded(q)
    BY <1>5, <1>6 DEF Bounded
  <1> QED
    BY <1>3, <1>7 DEF Fit

LEMMA EditCalm ==
  ASSUME NEW p, Sound(p), NEW i \in Items, p.item[i] = "queued", NEW q,
         q = MessageEdited(p, i, p.rev[i] + 1) \/ q = MessageDeleted(p, i, p.rev[i])
  PROVE  Calm(p, q) /\ Shrinks(p, q)
  <1>1. p \in Projection /\ p.run # "refused" /\ p.rev[i] + 1 \in Nat
    BY DEF Sound, Projection
  <1>2. SameRun(p, q) /\ (q.item = p.item \/ q.item = [p.item EXCEPT ![i] = "deleted"])
    BY <1>1, MessageEditedDoes, MessageDeletedDoes
  <1>3. Calm(p, q)
    BY <1>2 DEF SameRun, Calm, IsActive
  <1>4. Shrinks(p, q)
    BY <1>1, <1>2 DEF Shrinks, Queue, Projection
  <1> QED
    BY <1>3, <1>4

LEMMA StartFresh ==
  ASSUME NEW p, Sound(p), ~IsActive(p), p.seg < MaxSegs, NEW q, q = RunStarted(p)
  PROVE  Fresh(q) /\ Shrinks(p, q) /\ q \in Projection /\ q.item = p.item /\ q.rev = p.rev
         /\ q.seg = p.seg + 1
  <1>1. p \in Projection /\ p.run # "refused" /\ p.pending = "none"
    BY DEF Sound, Waits, Projection, IsActive, ActiveStates
  <1>2. q \in Projection /\ q.run = "running" /\ q.mode = "none" /\ SameQueue(p, q) /\ q.seg = p.seg + 1
    BY <1>1, RunStartedDoes
  <1> QED
    BY <1>2, SameQueueShrinks DEF Fresh, SameQueue

\* A run that has consumed its message is as it was before.
LEMMA ConsumedFresh ==
  ASSUME NEW m \in Projection, m.mode = "none", NEW i \in Items, NEW rev, NEW s \in Segs,
         NEW q, q = MessageConsumed(m, i, rev, s), q.run # "refused"
  PROVE  Fresh(q) /\ q.item = [m.item EXCEPT ![i] = "consumed"]
  <1>1. /\ q \in Projection
        /\ IF m.run = "running" /\ m.seg = s /\ i \in Queue(m) /\ rev = m.rev[i]
           THEN /\ SameRun(m, q) /\ q.item = [m.item EXCEPT ![i] = "consumed"]
                /\ q.rev = m.rev /\ q.by = [m.by EXCEPT ![i] = s]
           ELSE q.run = "refused"
    BY MessageConsumedDoes
  <1> QED
    BY <1>1 DEF Fresh, SameRun

LEMMA SubmitFresh ==
  ASSUME NEW p, Sound(p), ~IsActive(p), p.seg < MaxSegs, NEW i \in Items, p.item[i] = "absent",
         NEW q, q = SubmitAndStart(p, i)
  PROVE  IF Cardinality(Queue(p)) < QueueLimit THEN Fresh(q) /\ Shrinks(p, q)
         ELSE q.run = "refused"
  <1>1. PICK m : m = RunStarted(p)
    OBVIOUS
  <1>2. /\ m.run = "running" /\ m.mode = "none" /\ m \in Projection
        /\ m.item = p.item /\ m.rev = p.rev /\ m.seg = p.seg + 1
    BY <1>1, StartFresh DEF Fresh
  <1>3. PICK n : n = MessageQueued(m, i)
    OBVIOUS
  <1>4. Queue(m) = Queue(p) /\ i \notin Queue(m) /\ p \in Projection
    BY <1>2 DEF Queue, Sound
  <1>5. p.seg + 1 \in Segs
    BY <1>4, NextSegment
  <1>6. q = MessageConsumed(n, i, 1, p.seg + 1) /\ n \in Projection
    BY <1>1, <1>2, <1>3, MessageQueuedDoes DEF SubmitAndStart
  <1> DEFINE t == p.seg + 1
  <1> HIDE DEF t
  <1>7. /\ q \in Projection
        /\ IF n.run = "running" /\ n.seg = t /\ i \in Queue(n) /\ 1 = n.rev[i]
           THEN /\ SameRun(n, q) /\ q.item = [n.item EXCEPT ![i] = "consumed"]
                /\ q.rev = n.rev /\ q.by = [n.by EXCEPT ![i] = t]
           ELSE q.run = "refused"
    BY <1>5, <1>6, MessageConsumedDoes DEF t
  <1>8. CASE Cardinality(Queue(p)) < QueueLimit
    <2>1. /\ SameRun(m, n) /\ n.item = [m.item EXCEPT ![i] = "queued"]
          /\ n.rev = [m.rev EXCEPT ![i] = 1]
      BY <1>2, <1>3, <1>4, <1>8, MessageQueuedDoes
    <2>2. n.run = "running" /\ n.seg = p.seg + 1 /\ n.mode = "none"
      BY <1>2, <2>1 DEF SameRun
    <2>3. i \in Queue(n) /\ n.rev[i] = 1
      BY <1>2, <2>1 DEF Queue, Projection
    <2>4. SameRun(n, q) /\ q.item = [n.item EXCEPT ![i] = "consumed"]
      BY <1>7, <2>2, <2>3 DEF t
    <2>5. Fresh(q)
      BY <2>2, <2>4 DEF Fresh, SameRun
    <2>6. Shrinks(p, q)
      BY <1>2, <1>4, <2>1, <2>4 DEF Shrinks, Queue, Projection
    <2> QED
      BY <1>8, <2>5, <2>6
  <1>9. CASE ~(Cardinality(Queue(p)) < QueueLimit)
    <2>1. n.run = "refused"
      BY <1>2, <1>3, <1>4, <1>9, MessageQueuedDoes
    <2>2. q.run = "refused"
      BY <1>7, <2>1
    <2> QED
      BY <1>9, <2>2
  <1> QED
    BY <1>8, <1>9

LEMMA ConsumeFresh ==
  ASSUME NEW p, Sound(p), ~IsActive(p), p.seg < MaxSegs, NEW i \in Oldest(p),
         NEW q, q = ConsumeNext(p, i)
  PROVE  Fresh(q) /\ Shrinks(p, q)
  <1>1. PICK m : m = RunStarted(p)
    OBVIOUS
  <1>2. m.mode = "none" /\ m \in Projection /\ m.item = p.item
    BY <1>1, StartFresh DEF Fresh
  <1>3. q.run # "refused" /\ i \in Items /\ p \in Projection
    BY ConsumeNextTransaction DEF Sound, Oldest
  <1>4. q = MessageConsumed(m, i, p.rev[i], p.seg + 1) /\ p.seg + 1 \in Segs
    BY <1>1, <1>3, NextSegment DEF ConsumeNext
  <1>5. Fresh(q) /\ q.item = [m.item EXCEPT ![i] = "consumed"]
    BY <1>2, <1>3, <1>4, ConsumedFresh
  <1>6. Shrinks(p, q)
    BY <1>2, <1>3, <1>5 DEF Shrinks, Queue, Projection
  <1> QED
    BY <1>5, <1>6

LEMMA StopHalts ==
  ASSUME NEW p, Sound(p), Stoppable(p), NEW mode \in Modes, NEW q,
         \/ q = StopEvents(p, mode)
         \/ \E i \in Items : /\ q = PromoteEvents(p, i, p.rev[i], mode)
                             /\ p.item[i] = "queued" /\ p.seg < MaxSegs
  PROVE  Halts(q, mode) /\ Shrinks(p, q) /\ q.seg = p.seg
  <1>1. PICK n : n = Invalidated(p)
    OBVIOUS
  <1>2. n \in Projection /\ n.item = p.item /\ n.rev = p.rev /\ n.seg = p.seg
    BY <1>1, InvalidatedDoes DEF Sound, SameQueue
  <1>3. q.run # "refused" /\ p \in Projection
    BY StopTransaction, PromoteTransaction DEF Sound
  <1>4. CASE q = StopEvents(p, mode)
    <2>1. q = RunYieldRequested(n, mode)
      BY <1>1, <1>4 DEF StopEvents
    <2>2. q.run = "yielding" /\ q.mode = mode /\ SameQueue(n, q) /\ q.seg = n.seg
      BY <1>2, <1>3, <2>1, RunYieldRequestedDoes
    <2> QED
      BY <1>2, <2>2, SameQueueShrinks DEF Halts, SameQueue
  <1>5. ASSUME NEW i \in Items, q = PromoteEvents(p, i, p.rev[i], mode), p.item[i] = "queued"
        PROVE  Halts(q, mode) /\ Shrinks(p, q) /\ q.seg = p.seg
    <2>1. PICK m : m = MessagePromoted(n, i, p.rev[i])
      OBVIOUS
    <2>2. q = RunYieldRequested(m, mode)
      BY <1>1, <1>5, <2>1 DEF PromoteEvents
    <2>3. m \in Projection /\ (m.run # "refused" => /\ m.item = [n.item EXCEPT ![i] = "promoting"]
                                                   /\ SameRun(n, m))
      BY <1>2, <2>1, MessagePromotedDoes
    <2>4. q.run = "yielding" /\ q.mode = mode /\ SameQueue(m, q) /\ m.run = "running" /\ q.seg = m.seg
      BY <1>3, <2>2, <2>3, RunYieldRequestedDoes
    <2>5. q.item = [p.item EXCEPT ![i] = "promoting"] /\ q.seg = p.seg
      BY <1>2, <2>3, <2>4 DEF SameQueue, SameRun
    <2>6. Shrinks(p, q)
      BY <1>3, <1>5, <2>5 DEF Shrinks, Queue, Projection
    <2> QED
      BY <2>4, <2>5, <2>6 DEF Halts
  <1> QED
    BY <1>4, <1>5

LEMMA InteractionCalm ==
  ASSUME NEW p, Sound(p), NEW q,
         \/ p.run = "running" /\ \E kind \in {"permission", "question"} :
                                   q = InteractionRequested(p, kind)
         \/ p.pending # "none" /\ q = InteractionClosed(p)
  PROVE  Calm(p, q) /\ Shrinks(p, q)
  <1>1. p \in Projection /\ q.run # "refused" /\ Stays(p, q)
    BY InteractionTransaction DEF Sound
  <1>2. /\ q.seg = p.seg /\ q.mode = p.mode /\ SameQueue(p, q)
        /\ p.run # "yielding" /\ q.run # "yielding"
    <2>1. CASE p.run = "running" /\ \E kind \in {"permission", "question"} :
                                      q = InteractionRequested(p, kind)
      BY <1>1, <2>1, InteractionRequestedDoes DEF WaitingFor
    <2>2. CASE p.pending # "none" /\ q = InteractionClosed(p)
      BY <1>1, <2>2, InteractionClosedDoes DEF WaitingFor
    <2> QED
      BY <2>1, <2>2
  <1> QED
    BY <1>1, <1>2, SameQueueShrinks DEF Calm, SameQueue, Stays

LEMMA HandoverAccepted ==
  ASSUME NEW p, Sound(p), NEW reason, NEW r, Ended(p, r, reason), r.run # "refused",
         NEW i \in Promoting(p), NEW q, q = Handover(r, i)
  PROVE  q.run # "refused"
  <1>1. /\ p \in Projection /\ r \in Projection /\ p.seg < MaxSegs /\ i \in Items
        /\ r.seg = p.seg /\ r.pending = "none" /\ ~IsActive(r) /\ r.item = p.item
    BY DEF Ended, Sound, Owned, Promoting, SameQueue, IsActive, ActiveStates, TerminalStates
  <1>2. PICK m : m = RunStarted(r)
    OBVIOUS
  <1>3. /\ m \in Projection /\ m.seg = p.seg + 1 /\ m.run = "running"
        /\ m.item = p.item /\ m.rev = r.rev
    BY <1>1, <1>2, RunStartedDoes DEF SameQueue
  <1>4. i \in Queue(m) /\ p.seg + 1 \in Segs
    BY <1>1, <1>3, NextSegment DEF Queue, Promoting
  <1>5. q = MessageConsumed(m, i, r.rev[i], p.seg + 1)
    BY <1>1, <1>2 DEF Handover
  <1>6. SameRun(m, q)
    BY <1>1, <1>3, <1>4, <1>5, MessageConsumedDoes
  <1> QED
    BY <1>3, <1>6 DEF SameRun

\* The end of a run with no interaction pending.
LEMMA EndAccepted ==
  ASSUME NEW p, Sound(p), p.pending = "none", p.run \in {"running", "yielding"},
         NEW reason \in Reasons, NEW r, r = RunCompleted(p, p.seg, reason)
  PROVE  r.run # "refused" /\ Ended(p, r, reason)
  <1>1. p \in Projection /\ p.seg \in Segs
    BY DEF Sound, Numbered, IsActive, ActiveStates
  <1>2. /\ r \in Projection
        /\ IF p.pending = "none" /\ p.seg = p.seg /\ p.run \in {"running", "yielding"}
           THEN /\ r.seg = p.seg /\ r.run = TerminalState(reason) /\ r.mode = p.mode
                /\ r.reason = reason /\ r.ended = [p.ended EXCEPT ![p.seg] = reason]
                /\ r.pending = p.pending /\ SameQueue(p, r)
           ELSE r.run = "refused"
    BY <1>1, RunCompletedDoes
  <1> QED
    BY <1>1, <1>2, EndedBy DEF TerminalState

\* The reducer accepts the event of the active segment, unless an interaction is pending.
LEMMA RunEventAccepted ==
  ASSUME TaskInv, Moded(proj), NEW s \in Segs, proj.seg = s, IsActive(proj),
         proj.pending = "none", NEW e \in RunEventOf(s)
  PROVE  e.q.run # "refused"
  <1>1. PICK p : p = proj
    OBVIOUS
  <1>2. Sound(p) /\ p \in Projection /\ p.pending = "none" /\ p.seg = s
    BY <1>1 DEF TaskInv, Sound
  <1>3. p.run \in {"running", "yielding"}
    BY <1>1, <1>2 DEF Sound, Waits, IsActive, ActiveStates
  <1>4. ASSUME NEW reason \in Reasons, NEW r, r = RunCompleted(p, s, reason),
               \/ e.q = r \/ e.q = AllRecovered(r)
               \/ \E i \in Promoting(p) : e.q = Handover(r, i)
        PROVE  e.q.run # "refused"
    <2>1. r.run # "refused" /\ Ended(p, r, reason)
      BY <1>2, <1>3, <1>4, EndAccepted
    <2>2. r \in Projection /\ \A i, j \in Promoting(r) : i = j
      BY <1>2, <2>1 DEF Ended, Sound, Owned, Promoting, SameQueue
    <2>3. CASE e.q = AllRecovered(r)
      BY <2>1, <2>2, <2>3, AllRecoveredDoes DEF SameRun
    <2>4. CASE \E i \in Promoting(p) : e.q = Handover(r, i)
      BY <1>2, <2>1, <2>4, HandoverAccepted
    <2> QED
      BY <1>4, <2>1, <2>3, <2>4
  <1>5. CASE Event(s) = "completed"
    <2>1. EventReason(s) \in Reasons
      BY States DEF EventReason, TaskInv, TypeOK, Claims
    <2>2. PICK r : r = RunCompleted(p, s, EventReason(s))
      OBVIOUS
    <2>3. e.q = r \/ \E i \in Promoting(p) : e.q = Handover(r, i)
      BY <1>1, <1>5, <2>2 DEF RunEventOf
    <2> QED
      BY <1>4, <2>1, <2>2, <2>3
  <1>6. CASE Event(s) # "completed"
    <2> DEFINE mode == StopModeOf(Event(s))
    <2>1. p.mode = mode /\ p.run = "yielding"
      BY <1>1, <1>6 DEF RunEventOf, Moded, StopModeOf
    <2>2. RunSafePointReached(p, s, mode) = p
      BY <1>2, <2>1 DEF RunSafePointReached, Reduce
    <2>3. Event(s) = "timed_out" => RunForceStopTimedOut(p, s) = p
      BY <1>2, <2>1 DEF RunForceStopTimedOut, Reduce, StopModeOf
    <2>4. CASE Event(s) = "timed_out"
      <3>1. PICK r : r = RunCompleted(p, s, "failed")
        OBVIOUS
      <3>2. e.q = AllRecovered(r)
        BY <1>1, <2>3, <2>4, <3>1 DEF RunEventOf
      <3> QED
        BY <1>4, <3>1, <3>2, States
    <2>5. CASE Event(s) # "timed_out"
      <3>1. PICK reason \in Reasons :
              \/ e.q = RunCompleted(p, s, reason)
              \/ \E i \in Promoting(p) : e.q = Handover(RunCompleted(p, s, reason), i)
        <4>1. CASE Promoting(p) = {}
          <5>1. e.q = RunCompleted(p, s, IF Event(s) = "forced" THEN "forced_interruption"
                                         ELSE "cancelled")
            BY <1>1, <1>6, <2>2, <2>5, <4>1 DEF RunEventOf
          <5> QED
            BY <5>1, States
        <4>2. CASE Promoting(p) # {}
          <5>1. \E i \in Promoting(p) :
                  e.q = Handover(RunCompleted(p, s, IF Event(s) = "forced"
                                                    THEN "forced_interruption"
                                                    ELSE "superseded"), i)
            BY <1>1, <1>6, <2>2, <2>5, <4>2 DEF RunEventOf
          <5> QED
            BY <5>1, States
        <4> QED
          BY <4>1, <4>2
      <3> QED
        BY <1>4, <3>1
    <2> QED
      BY <2>4, <2>5
  <1> QED
    BY <1>5, <1>6

LEMMA FitBy ==
  ASSUME NEW p, Fit(p), NEW q, Shrinks(p, q),
         Calm(p, q) \/ Fresh(q) \/ (\E mode \in Modes : Halts(q, mode)) \/ ~IsActive(q)
  PROVE  Fit(q)
  <1>1. Moded(q)
    <2>1. "safe_point" \in Modes
      BY DEF Modes
    <2> QED
      BY <2>1, ModedBy DEF Fit
  <1> QED
    BY <1>1, BoundedBy DEF Fit

LEMMA SubmitFit ==
  ASSUME TaskInv, Fit(proj), NEW i \in Items, Submit(i)
  PROVE  /\ Fit(proj')
         /\ actor' # actor /\ actor'.pc = "failed" =>
              ~IsActive(proj) /\ Cardinality(Queue(proj)) = QueueLimit
  <1>1. PICK p : p = proj
    OBVIOUS
  <1>2. Sound(p) /\ Fit(p) /\ p.item[i] = "absent"
    BY <1>1 DEF TaskInv, Submit
  <1>3. CASE /\ Cardinality(Queue(proj)) < QueueLimit
             /\ Commit(MessageQueued(proj, i), UNCHANGED <<actor, memory>>)
    <2>1. PICK q : q = MessageQueued(proj, i)
      OBVIOUS
    <2>2. Sound(q) /\ Fit(q)
      BY <1>1, <1>2, <1>3, <2>1, QueueTransaction, QueueFits
    <2>3. proj' = q /\ UNCHANGED actor
      BY <1>3, <2>1, <2>2 DEF Commit, Sound
    <2> QED
      BY <2>2, <2>3
  <1>4. CASE ~IsActive(proj) /\ Room /\ Commit(SubmitAndStart(proj, i), BeginSegment)
    <2>1. PICK q : q = SubmitAndStart(proj, i)
      OBVIOUS
    <2>2. IF Cardinality(Queue(p)) < QueueLimit THEN Fresh(q) /\ Shrinks(p, q)
          ELSE q.run = "refused"
      BY <1>1, <1>2, <1>4, <2>1, SubmitFresh DEF Room
    <2>3. CASE Cardinality(Queue(p)) < QueueLimit
      <3>1. proj' = q /\ BeginSegment
        BY <1>4, <2>1, <2>2, <2>3 DEF Commit, Fresh
      <3>2. actor'.pc = "spawn"
        BY <3>1 DEF BeginSegment, Do
      <3> QED
        BY <1>2, <2>2, <2>3, <3>1, <3>2, FitBy
    <2>4. CASE ~(Cardinality(Queue(p)) < QueueLimit)
      <3>1. UNCHANGED proj
        BY <1>4, <2>1, <2>2, <2>4 DEF Commit
      <3>2. Cardinality(Queue(p)) \in Nat /\ QueueLimit \in Nat /\ Cardinality(Queue(p)) <= QueueLimit
        BY <1>2, FS_CardinalityType, QueueLimitAssumption DEF Fit, Bounded
      <3>3. Cardinality(Queue(p)) = QueueLimit
        BY <2>4, <3>2
      <3> QED
        BY <1>1, <1>2, <1>4, <3>1, <3>3
    <2> QED
      BY <2>3, <2>4
  <1> QED
    BY <1>3, <1>4 DEF Submit

LEMMA StartFit ==
  ASSUME TaskInv, Fit(proj), StartSegment \/ StartNextQueued
  PROVE  Fit(proj') /\ actor'.pc # "failed"
  <1>1. PICK p : p = proj
    OBVIOUS
  <1>2. Sound(p) /\ Fit(p) /\ actor.pc = "idle"
    BY <1>1 DEF TaskInv, StartSegment, StartNextQueued, Ready
  <1>3. CASE StartSegment
    <2>1. PICK q : q = RunStarted(proj)
      OBVIOUS
    <2>2. Fresh(q) /\ Shrinks(p, q)
      BY <1>1, <1>2, <1>3, <2>1, StartFresh DEF StartSegment, Room
    <2>3. proj' = q /\ BeginSegment
      BY <1>3, <2>1, <2>2 DEF StartSegment, Commit, Fresh
    <2>4. actor'.pc = "spawn"
      BY <2>3 DEF BeginSegment, Do
    <2> QED
      BY <1>2, <2>2, <2>3, <2>4, FitBy
  <1>4. CASE StartNextQueued
    <2>1. CASE UNCHANGED <<proj, actor>>
      BY <1>1, <1>2, <2>1
    <2>2. CASE /\ ~IsActive(proj) /\ Room
               /\ \E i \in Oldest(proj) : proj' = ConsumeNext(proj, i)
               /\ actor'.pc = "checkpoint"
      <3>1. PICK q : q = proj' /\ \E i \in Oldest(proj) : q = ConsumeNext(proj, i)
        BY <2>2
      <3>2. Fresh(q) /\ Shrinks(p, q)
        BY <1>1, <1>2, <2>2, <3>1, ConsumeFresh DEF Room
      <3> QED
        BY <1>2, <2>2, <3>1, <3>2, FitBy
    <2> QED
      BY <1>4, <2>1, <2>2 DEF StartNextQueued, Do
  <1> QED
    BY <1>3, <1>4

LEMMA EditFit ==
  ASSUME TaskInv, Fit(proj), NEW i \in Items, Edit(i) \/ Delete(i)
  PROVE  Fit(proj') /\ UNCHANGED actor
  <1>1. PICK p : p = proj
    OBVIOUS
  <1>2. Sound(p) /\ Fit(p) /\ p.item[i] = "queued"
    BY <1>1 DEF TaskInv, Edit, Delete
  <1>3. PICK q : /\ q = MessageEdited(p, i, p.rev[i] + 1) \/ q = MessageDeleted(p, i, p.rev[i])
                 /\ Commit(q, UNCHANGED <<actor, memory>>)
    BY <1>1 DEF Edit, Delete
  <1>4. Calm(p, q) /\ Shrinks(p, q) /\ Sound(q)
    BY <1>2, <1>3, EditCalm, EditTransaction
  <1>5. proj' = q /\ UNCHANGED actor
    BY <1>3, <1>4 DEF Commit, Sound
  <1> QED
    BY <1>2, <1>4, <1>5, FitBy

LEMMA StopFit ==
  ASSUME TaskInv, Fit(proj), NEW mode \in Modes,
         StopRun(mode) \/ \E i \in Items : Promote(i, mode)
  PROVE  Fit(proj') /\ Halts(proj', mode) /\ proj'.seg = proj.seg /\ UNCHANGED <<actor, memory, outbox>>
  <1>1. PICK p : p = proj
    OBVIOUS
  <1>2. Sound(p) /\ Fit(p) /\ Stoppable(p)
    BY <1>1 DEF TaskInv, StopRun, Promote
  <1>3. PICK q : /\ \/ q = StopEvents(p, mode)
                    \/ \E i \in Items : /\ q = PromoteEvents(p, i, p.rev[i], mode)
                                        /\ p.item[i] = "queued" /\ p.seg < MaxSegs
                 /\ Commit(q, UNCHANGED <<actor, memory>>)
    BY <1>1 DEF StopRun, Promote, Room
  <1>4. Halts(q, mode) /\ Shrinks(p, q) /\ q.seg = p.seg
    BY <1>2, <1>3, StopHalts
  <1>5. proj' = q /\ UNCHANGED <<actor, memory>> /\ UNCHANGED outbox
    BY <1>1, <1>2, <1>3, <1>4 DEF Commit, Halts, Sound, Projection
  <1> QED
    BY <1>1, <1>2, <1>4, <1>5, FitBy

LEMMA UnpropagatedFit ==
  ASSUME TaskInv, Fit(proj), NEW mode \in Modes,
         StopRunUnpropagated(mode) \/ \E i \in Items : PromoteUnpropagated(i, mode)
  PROVE  Fit(proj') /\ faults' # faults /\ Halts(proj', mode) /\ proj'.seg = proj.seg
  <1>1. PICK p : p = proj
    OBVIOUS
  <1>2. PICK q : /\ \/ q = StopEvents(p, mode)
                    \/ \E i \in Items : /\ q = PromoteEvents(p, i, p.rev[i], mode)
                                        /\ p.item[i] = "queued" /\ p.seg < MaxSegs
                 /\ PropagationFails(q)
    BY <1>1 DEF StopRunUnpropagated, PromoteUnpropagated, Room
  <1>3. Sound(p) /\ Fit(p) /\ Stoppable(p) /\ proj' = q /\ faults' = faults + 1 /\ faults \in Nat
    BY <1>1, <1>2, BoundsAssumption DEF TaskInv, TypeOK, PropagationFails
  <1>4. Halts(q, mode) /\ Shrinks(p, q) /\ q.seg = p.seg
    BY <1>2, <1>3, StopHalts
  <1>5. faults' # faults
    BY <1>3
  <1> QED
    BY <1>1, <1>3, <1>4, <1>5, FitBy

LEMMA RunEventFit ==
  ASSUME TaskInv, Fit(proj), NEW s \in Segs, HandleRunEvent(s)
  PROVE  /\ Fit(proj')
         /\ actor' # actor /\ actor'.pc = "failed" => IsActive(proj) /\ proj.pending # "none"
  <1>1. CASE ~(active = s /\ RunEventOf(s) # {})
    BY <1>1 DEF HandleRunEvent
  <1>2. CASE active = s /\ RunEventOf(s) # {}
    <2>1. PICK e \in RunEventOf(s) : Commit(e.q, Take(s) /\ Checkpoint(e.path, e.q.seg))
      BY <1>2 DEF HandleRunEvent
    <2>2. EventReady(s) /\ proj.seg = s /\ IsActive(proj)
      BY <1>2, ActiveIsCurrent DEF HandleRunEvent
    <2>3. CASE e.q.run = "refused"
      <3>1. UNCHANGED proj
        BY <2>1, <2>3 DEF Commit
      <3>2. proj.pending # "none"
        BY <2>2, <2>3, RunEventAccepted DEF Fit
      <3> QED
        BY <2>2, <3>1, <3>2
    <2>4. CASE e.q.run # "refused"
      <3>1. proj' = e.q /\ Checkpoint(e.path, e.q.seg)
        BY <2>1, <2>4 DEF Commit
      <3>2. actor'.pc = "checkpoint"
        BY <3>1 DEF Checkpoint, Do
      <3>3. Shrinks(proj, e.q) /\ (Fresh(e.q) \/ ~IsActive(e.q))
        BY <2>2, <2>4, RunEventEnds DEF Ends
      <3>4. PICK p, q : p = proj /\ q = e.q
        OBVIOUS
      <3>5. Fit(q)
        BY <3>3, <3>4, FitBy
      <3> QED
        BY <3>1, <3>2, <3>4, <3>5
    <2> QED
      BY <2>3, <2>4
  <1> QED
    BY <1>1, <1>2

LEMMA InteractionFit ==
  ASSUME TaskInv, Fit(proj),
         \/ ResolveInteraction
         \/ \E s \in Segs, kind \in {"permission", "question"} : RequestInteraction(s, kind)
  PROVE  Fit(proj') /\ Calm(proj, proj') /\ UNCHANGED actor
  <1>1. PICK p, q : p = proj /\ q = proj'
    OBVIOUS
  <1>2. \/ p.run = "running" /\ \E kind \in {"permission", "question"} :
                                  q = InteractionRequested(p, kind)
        \/ p.pending # "none" /\ q = InteractionClosed(p)
    BY <1>1 DEF ResolveInteraction, RequestInteraction
  <1>3. Calm(p, q) /\ Shrinks(p, q)
    BY <1>1, <1>2, InteractionCalm DEF TaskInv
  <1> QED
    BY <1>1, <1>3, FitBy DEF ResolveInteraction, RequestInteraction

\* What the supervisor commits ends the run.
LEMMA SupervisorEnds ==
  ASSUME TaskInv, SuperviseExit \/ SuperviseExitUnrecorded \/ Route \/ RouteOutrun \/ Boot
  PROVE  UNCHANGED proj \/ (~IsActive(proj') /\ Shrinks(proj, proj') /\ proj'.seg = proj.seg)
  <1>1. PICK p, q : p = proj /\ q = proj'
    OBVIOUS
  <1>2. Sound(p)
    BY <1>1 DEF TaskInv
  <1>3. \/ q = p
        \/ q = TaskActorFailed(p, ActiveSegmentOf(p))
        \/ IsActive(p) /\ q = RestartRecovered(p)
    BY <1>1 DEF SuperviseExit, SuperviseExitUnrecorded, Route, RouteOutrun, Boot,
                RecoverProjection, durable
  <1>4. q = p \/ (~IsActive(q) /\ Shrinks(p, q) /\ q.seg = p.seg)
    BY <1>2, <1>3, FailTransaction, RestartTransaction DEF GivesUp, Ends
  <1> QED
    BY <1>1, <1>4

LEMMA SupervisorFit ==
  ASSUME TaskInv, Fit(proj),
         SuperviseExit \/ SuperviseExitUnrecorded \/ Route \/ RouteOutrun \/ Boot
  PROVE  Fit(proj')
  <1>1. PICK p, q : p = proj /\ q = proj'
    OBVIOUS
  <1>2. q = p \/ (~IsActive(q) /\ Shrinks(p, q))
    BY <1>1, SupervisorEnds
  <1>3. Fit(q)
    BY <1>1, <1>2, FitBy
  <1> QED
    BY <1>1, <1>3

Refuses ==
  actor = Ready /\ actor'.pc = "failed" /\ faults' = faults
    => \/ IsActive(proj) /\ proj.pending # "none"
       \/ ~IsActive(proj) /\ Cardinality(Queue(proj)) = QueueLimit

LEMMA FitStep ==
  ASSUME TaskInv, Fit(proj), [Next]_vars
  PROVE  Fit(proj') /\ Refuses
  <1>1. actor = Ready => actor.pc = "idle"
    BY DEF Ready
  <1>2. CASE Command
    <2>1. CASE StartSegment
      BY <2>1, StartFit DEF Refuses
    <2>2. CASE \E mode \in Modes : StopRun(mode) \/ \E i \in Items : Promote(i, mode)
      BY <1>1, <2>2, StopFit DEF Refuses
    <2>3. CASE \E mode \in Modes : \/ StopRunUnpropagated(mode)
                                   \/ \E i \in Items : PromoteUnpropagated(i, mode)
      BY <2>3, UnpropagatedFit DEF Refuses
    <2>4. CASE \E i \in Items : Submit(i)
      BY <1>1, <2>4, SubmitFit DEF Refuses
    <2>5. CASE \E i \in Items : Edit(i) \/ Delete(i)
      BY <1>1, <2>5, EditFit DEF Refuses
    <2> QED
      BY <1>2, <2>1, <2>2, <2>3, <2>4, <2>5 DEF Command
  <1>3. CASE \E s \in Segs : HandleRunEvent(s)
    BY <1>1, <1>3, RunEventFit DEF Refuses
  <1>4. CASE StartNextQueued
    BY <1>4, StartFit DEF Refuses
  <1>5. CASE \/ ResolveInteraction
             \/ \E s \in Segs, kind \in {"permission", "question"} : RequestInteraction(s, kind)
    BY <1>1, <1>5, InteractionFit DEF Refuses
  <1>6. CASE SuperviseExit \/ SuperviseExitUnrecorded \/ Route \/ RouteOutrun \/ Boot
    BY <1>1, <1>6, SupervisorFit
    DEF Refuses, SuperviseExit, SuperviseExitUnrecorded, Route, RouteOutrun, Boot
  <1>7. CASE ActorFault
    <2>1. faults' = faults + 1 /\ faults \in Nat /\ UNCHANGED proj
      BY <1>7, BoundsAssumption DEF ActorFault, TaskInv, TypeOK, durable
    <2>2. faults' # faults
      BY <2>1
    <2> QED
      BY <2>1, <2>2 DEF Refuses
  <1>8. CASE StartNextQueuedOutrun \/ \E s \in Segs : HandleRunEventOutrun(s)
    BY <1>1, <1>8 DEF Refuses, StartNextQueuedOutrun, HandleRunEventOutrun, durable
  <1>9. CASE PersistCheckpointOutrun \/ PersistCheckpoint \/ SpawnIdempotent \/ SpawnClosed \/ MarkDelivered
    BY <1>1, <1>9 DEF Refuses, PersistCheckpointOutrun, PersistCheckpoint, SpawnIdempotent,
                      SpawnClosed, MarkDelivered, durable
  <1>10. CASE Crash
    BY <1>10 DEF Refuses, Crash, Ready, durable
  <1>11. CASE \E s \in Segs : EngineFinish(s) \/ EngineReturn(s) \/ EngineReturnUnrecorded(s)
    BY <1>1, <1>11 DEF Refuses, EngineFinish, EngineReturn, EngineReturnUnrecorded, durable
  <1>12. CASE UNCHANGED vars
    BY <1>1, <1>12 DEF Refuses, vars, durable
  <1> QED
    BY <1>2, <1>3, <1>4, <1>5, <1>6, <1>7, <1>8, <1>9, <1>10, <1>11, <1>12 DEF Next, EngineStep

LEMMA FitInit == Init => Fit(proj)
  <1> SUFFICES ASSUME Init PROVE Fit(proj)
    OBVIOUS
  <1>1. proj.run = "none" /\ Queue(proj) = {}
    BY DEF Init, EmptyProjection, Queue
  <1>2. IsFiniteSet({}) /\ Cardinality({}) = 0
    BY FS_EmptySet
  <1> QED
    BY <1>1, <1>2, QueueLimitAssumption DEF Fit, Moded, Bounded, IsActive, ActiveStates

\* Without a store error a handler fails its actor in two cases only, a pending interaction
\* of an engine that ended and a message to an idle task with a full queue, whatever the
\* limit (handle_run_event, handle_submit_message).
THEOREM FewRefusals == Spec => HandlersRefuse
  <1>1. TaskInv /\ Fit(proj) /\ [Next]_vars => Fit(proj)' /\ [Refuses]_vars
    BY FitStep
  <1>2. Spec => [][Refuses]_vars
    BY <1>1, FitInit, Invariant, PTL DEF Spec
  <1> QED
    BY <1>2 DEF HandlersRefuse, Refuses

-----------------------------------------------------------------------------
(* Stops and stranded runs, when no transaction is outrun *)

\* Only the start of the active run may be undelivered, and nobody stops that run before;
\* an actor that listens, or that has recorded an end, left nothing undelivered.
Undelivered ==
  /\ outbox \subseteq {proj.seg}
  /\ outbox # {} => IsActive(proj) /\ proj.run # "yielding"
  /\ actor.pc = "idle" => outbox = {}
  /\ Starting => proj.seg \in outbox
  /\ actor.pc = "checkpoint" /\ ~Starting => ~IsActive(proj)

\* An actor that listens listens to the active run.
Attended == actor.pc = "idle" /\ IsActive(proj) => active = proj.seg /\ attached[proj.seg] # "no"

\* A run control is told of a stop when the stop is recorded and not before, and an outcome
\* is the answer to it.
Told(s) ==
  /\ s > proj.seg \/ (s = proj.seg /\ IsActive(proj) /\ proj.run # "yielding")
       => control[s] = "continue"
  /\ s = proj.seg /\ actor.pc = "idle" /\ proj.run = "yielding" /\ attached[s] = "live"
       => control[s] = Requested(proj.mode)
  /\ outcome[s] # "none" => control[s] = IF outcome[s] = "safe_point" THEN "yield" ELSE "force"

StopInv == poisoned = {} /\ Undelivered /\ Attended /\ \A s \in Segs : Told(s)

LEMMA CalmStop ==
  ASSUME TaskInv, StopInv, Calm(proj, proj'),
         UNCHANGED <<actor, active, outbox, poisoned, control, outcome>>,
         \A s \in Segs : attached'[s] = attached[s] \/ (attached'[s] = "no" /\ s # active)
  PROVE  StopInv'
  <1>1. IsActive(proj) => proj.seg \in Segs
    BY DEF TaskInv, Sound, Numbered
  <1>2. Undelivered'
    BY DEF StopInv, Undelivered, Calm, Starting
  <1>3. Attended'
    BY <1>1 DEF StopInv, Attended, Calm
  <1>4. ASSUME NEW s \in Segs PROVE Told(s)'
    BY DEF StopInv, Told, Calm
  <1> QED
    BY <1>2, <1>3, <1>4 DEF StopInv

LEMMA FreshStop ==
  ASSUME TaskInv, StopInv, outbox = {}, Fresh(proj'), proj'.seg = proj.seg + 1,
         outbox' = outbox \cup {proj'.seg}, Starting', actor'.pc # "idle",
         UNCHANGED <<poisoned, control, outcome>>
  PROVE  StopInv'
  <1>1. IsActive(proj') /\ proj'.run # "yielding"
    BY DEF Fresh, IsActive, ActiveStates
  <1>2. Undelivered' /\ Attended'
    BY <1>1 DEF Undelivered, Attended
  <1>3. proj.seg \in Nat
    BY DEF TaskInv, Sound, Projection
  <1>4. ASSUME NEW s \in Segs PROVE Told(s)'
    <2>1. s > proj'.seg \/ s = proj'.seg => s > proj.seg
      BY <1>3 DEF Segs
    <2> QED
      BY <1>1, <2>1 DEF StopInv, Told
  <1> QED
    BY <1>2, <1>4 DEF StopInv

LEMMA FailStop ==
  ASSUME TaskInv, StopInv, ActorFails, UNCHANGED <<outbox, poisoned, control, outcome>>,
         \/ UNCHANGED proj
         \/ outbox = {} /\ proj'.run = "yielding" /\ proj'.seg = proj.seg
  PROVE  StopInv'
  <1>1. actor'.pc = "failed"
    BY DEF ActorFails, Ready
  <1>2. Undelivered' /\ Attended'
    BY <1>1 DEF StopInv, Undelivered, Attended, Starting
  <1>3. ASSUME NEW s \in Segs PROVE Told(s)'
    BY <1>1 DEF StopInv, Told
  <1> QED
    BY <1>2, <1>3 DEF StopInv

LEMMA StopStop ==
  ASSUME TaskInv, StopInv, Fit(proj), NEW mode \in Modes,
         StopRun(mode) \/ \E i \in Items : Promote(i, mode)
  PROVE  StopInv'
  <1>1. /\ proj'.run = "yielding" /\ proj'.mode = mode /\ proj'.seg = proj.seg
        /\ UNCHANGED <<actor, active, attached, outbox>>
    BY StopFit DEF Halts, memory
  <1>2. actor = Ready /\ Stoppable(proj) /\ Propagate(proj.seg, mode) /\ UNCHANGED poisoned
    BY DEF StopRun, Promote
  <1>3. /\ actor.pc = "idle" /\ IsActive(proj) /\ proj.run # "yielding"
        /\ Propagate(proj.seg, mode) /\ UNCHANGED <<poisoned, outcome>>
    <2>1. UNCHANGED outcome
      BY <1>2 DEF Propagate
    <2> QED
      BY <1>2, <2>1 DEF Ready, Stoppable, IsActive, ActiveStates
  <1>4. active = proj.seg /\ outbox = {} /\ proj.seg \in Segs /\ control[proj.seg] = "continue"
    BY <1>3 DEF StopInv, Attended, Undelivered, Told, TaskInv, Sound, Numbered
  <1>5. control \in [Segs -> Controls]
    BY DEF TaskInv, TypeOK
  <1>6. Undelivered' /\ Attended'
    BY <1>1, <1>3, <1>4 DEF StopInv, Undelivered, Attended, Starting
  <1>7. ASSUME NEW s \in Segs PROVE Told(s)'
    <2>1. CASE s = proj.seg
      <3>1. outcome[s] = "none"
        BY <1>4, <2>1 DEF StopInv, Told
      <3>2. attached[s] = "live" => control'[s] = Requested(mode)
        BY <1>3, <1>4, <1>5, <2>1 DEF Propagate
      <3>3. ~(s > proj.seg)
        BY <2>1 DEF Segs
      <3> QED
        BY <1>1, <1>3, <2>1, <3>1, <3>2, <3>3 DEF Told
    <2>2. CASE s # proj.seg
      <3>1. control'[s] = control[s]
        BY <1>3, <1>5, <2>2 DEF Propagate
      <3> QED
        BY <1>1, <1>3, <2>2, <3>1 DEF StopInv, Told
    <2> QED
      BY <2>1, <2>2
  <1> QED
    BY <1>1, <1>3, <1>6, <1>7 DEF StopInv

\* The event of the active run is never ignored: its outcome answers the stop that the
\* store recorded.
LEMMA EventHeard ==
  ASSUME TaskInv, StopInv, Fit(proj), NEW s \in Segs, actor = Ready, active = s
  PROVE  RunEventOf(s) # {}
  <1>1. proj.seg = s /\ IsActive(proj) /\ actor.pc = "idle"
    BY ActiveIsCurrent
  <1>2. CASE Event(s) = "completed"
    BY <1>2 DEF RunEventOf
  <1>3. CASE Event(s) # "completed"
    <2>1. /\ attached[s] = "live" /\ outcome[s] = Event(s)
          /\ outcome[s] \in {"safe_point", "forced", "timed_out"}
      BY <1>3 DEF Event, TaskInv, TypeOK, Outcomes
    <2>2. control[s] = IF outcome[s] = "safe_point" THEN "yield" ELSE "force"
      BY <2>1 DEF StopInv, Told
    <2>3. proj.run = "yielding"
      BY <1>1, <2>2 DEF StopInv, Told
    <2>4. control[s] = Requested(proj.mode)
      BY <1>1, <2>1, <2>3 DEF StopInv, Told
    <2>5. proj.mode \in {"safe_point", "force_stop"}
      BY <1>1, <2>3 DEF Fit, Moded, TaskInv, Sound, Projection
    <2>6. proj.mode = StopModeOf(Event(s))
      BY <2>1, <2>2, <2>4, <2>5 DEF Requested, StopModeOf
    <2> QED
      BY <1>3, <2>6 DEF RunEventOf
  <1> QED
    BY <1>2, <1>3

LEMMA RunEventStop ==
  ASSUME TaskInv, StopInv, Fit(proj), NEW s \in Segs, HandleRunEvent(s)
  PROVE  StopInv'
  <1>1. /\ actor = Ready /\ actor.pc = "idle" /\ outbox = {} /\ EventReady(s)
        /\ UNCHANGED <<poisoned, control, outcome>>
    BY DEF HandleRunEvent, StopInv, Undelivered, Ready, engines
  <1>2. CASE active # s
    <2>1. Take(s) /\ UNCHANGED <<proj, outbox, actor, active>>
      BY <1>2 DEF HandleRunEvent
    <2>2. \A t \in Segs : attached'[t] = attached[t] \/ (attached'[t] = "no" /\ t # active)
      BY <1>2, <2>1 DEF Take, TaskInv, TypeOK
    <2> QED
      BY <1>1, <2>1, <2>2, CalmStop DEF Calm
  <1>3. CASE active = s
    <2>1. PICK e \in RunEventOf(s) : Commit(e.q, Take(s) /\ Checkpoint(e.path, e.q.seg))
      BY <1>1, <1>3, EventHeard DEF HandleRunEvent
    <2>2. proj.seg = s /\ IsActive(proj)
      BY <1>1, <1>3, ActiveIsCurrent
    <2>3. CASE e.q.run = "refused"
      <3>1. UNCHANGED <<proj, outbox>> /\ ActorFails
        BY <2>1, <2>3 DEF Commit
      <3> QED
        BY <1>1, <3>1, FailStop
    <2>4. CASE e.q.run # "refused"
      <3>1. /\ proj' = e.q /\ Checkpoint(e.path, e.q.seg)
            /\ outbox' = IF e.q.seg > proj.seg THEN outbox \cup {e.q.seg} ELSE outbox
        BY <2>1, <2>4 DEF Commit
      <3>2. actor'.pc = "checkpoint" /\ actor'.path = e.path
        BY <3>1 DEF Checkpoint, Do
      <3>3. \/ proj'.seg = proj.seg /\ ~IsActive(proj') /\ e.path \in {"terminal", "ended"}
            \/ proj'.seg = proj.seg + 1 /\ Fresh(proj') /\ e.path = "handover"
        BY <1>1, <2>2, <2>4, <3>1, RunEventEnds DEF Ends, Passes
      <3>4. CASE proj'.seg = proj.seg /\ ~IsActive(proj') /\ e.path \in {"terminal", "ended"}
        <4>1. outbox' = {} /\ ~Starting' /\ proj'.run # "yielding"
          BY <1>1, <2>2, <3>1, <3>2, <3>4 DEF Starting, Segs, IsActive, ActiveStates
        <4>2. Undelivered' /\ Attended'
          BY <3>2, <3>4, <4>1 DEF Undelivered, Attended
        <4>3. ASSUME NEW t \in Segs PROVE Told(t)'
          BY <1>1, <3>4, <4>1 DEF StopInv, Told
        <4> QED
          BY <1>1, <4>2, <4>3 DEF StopInv
      <3>5. CASE proj'.seg = proj.seg + 1 /\ Fresh(proj') /\ e.path = "handover"
        <4>1. outbox' = outbox \cup {proj'.seg}
          BY <2>2, <3>1, <3>5 DEF Segs
        <4>2. Starting' /\ actor'.pc # "idle"
          BY <3>2, <3>5 DEF Starting
        <4> QED
          BY <1>1, <3>5, <4>1, <4>2, FreshStop
      <3> QED
        BY <3>3, <3>4, <3>5
    <2> QED
      BY <2>3, <2>4
  <1> QED
    BY <1>2, <1>3

LEMMA BeginStop ==
  ASSUME TaskInv, StopInv, Fit(proj),
         StartSegment \/ StartNextQueued \/ \E i \in Items : Submit(i)
  PROVE  StopInv'
  <1>1. /\ actor = Ready /\ actor.pc = "idle" /\ outbox = {}
        /\ UNCHANGED <<poisoned, control, outcome>>
    <2>1. actor = Ready /\ UNCHANGED <<poisoned, engines>>
      BY DEF StartSegment, StartNextQueued, Submit
    <2>2. UNCHANGED <<poisoned, control, outcome>>
      BY <2>1 DEF engines
    <2> QED
      BY <2>1, <2>2 DEF StopInv, Undelivered, Ready
  <1>2. PICK p : p = proj
    OBVIOUS
  <1>3. Sound(p) /\ Fit(p) /\ p.seg \in Nat
    BY <1>2 DEF TaskInv, Sound, Projection
  <1>4. ASSUME NEW q, Commit(q, BeginSegment), Fresh(q), q.seg = p.seg + 1
        PROVE  StopInv'
    <2>1. proj' = q /\ BeginSegment /\ outbox' = outbox \cup {proj'.seg}
      BY <1>2, <1>3, <1>4 DEF Commit, Fresh
    <2>2. actor'.pc = "spawn"
      BY <2>1 DEF BeginSegment, Do
    <2>3. Starting' /\ actor'.pc # "idle"
      BY <2>2 DEF Starting
    <2> QED
      BY <1>1, <1>2, <1>4, <2>1, <2>3, FreshStop
  <1>5. CASE StartSegment
    <2>1. PICK q : q = RunStarted(p)
      OBVIOUS
    <2>2. Fresh(q) /\ q.seg = p.seg + 1
      BY <1>2, <1>3, <1>5, <2>1, StartFresh DEF StartSegment, Room
    <2> QED
      BY <1>2, <1>4, <1>5, <2>1, <2>2 DEF StartSegment
  <1>6. CASE StartNextQueued
    <2>1. CASE UNCHANGED <<proj, outbox, actor, active, attached>>
      BY <1>1, <2>1, CalmStop DEF Calm
    <2>2. CASE /\ ~IsActive(proj) /\ Room
               /\ \E i \in Oldest(proj) : proj' = ConsumeNext(proj, i)
               /\ outbox' = outbox \cup {proj'.seg} /\ actor' = Do("checkpoint", "consume", proj'.seg)
      <3>1. PICK q : q = proj' /\ \E i \in Oldest(p) : q = ConsumeNext(p, i)
        BY <1>2, <2>2
      <3>2. Fresh(q) /\ q.seg = p.seg + 1
        BY <1>2, <1>3, <2>2, <3>1, ConsumeFresh, ConsumeNextTransaction DEF Room, Starts
      <3>3. Starting' /\ actor'.pc # "idle"
        BY <2>2 DEF Starting, Do
      <3> QED
        BY <1>1, <1>2, <2>2, <3>1, <3>2, <3>3, FreshStop
    <2> QED
      BY <1>6, <2>1, <2>2 DEF StartNextQueued
  <1>7. ASSUME NEW i \in Items, Submit(i)
        PROVE  StopInv'
    <2>1. p.item[i] = "absent"
      BY <1>2, <1>7 DEF Submit
    <2>2. CASE /\ Cardinality(Queue(proj)) < QueueLimit
               /\ Commit(MessageQueued(proj, i), UNCHANGED <<actor, memory>>)
      <3>1. PICK q : q = MessageQueued(p, i)
        OBVIOUS
      <3>2. Sound(q) /\ Calm(p, q)
        BY <1>2, <1>3, <2>1, <2>2, <3>1, QueueTransaction, QueueFits
      <3>3. proj' = q /\ UNCHANGED <<actor, active, attached, outbox>>
        BY <1>2, <1>3, <2>2, <3>1, <3>2 DEF Commit, Sound, Calm, memory
      <3> QED
        BY <1>1, <1>2, <3>2, <3>3, CalmStop
    <2>3. CASE ~IsActive(proj) /\ Room /\ Commit(SubmitAndStart(proj, i), BeginSegment)
      <3>1. PICK q : q = SubmitAndStart(p, i)
        OBVIOUS
      <3>2. CASE q.run = "refused"
        <4>1. UNCHANGED <<proj, outbox>> /\ ActorFails
          BY <1>2, <2>3, <3>1, <3>2 DEF Commit
        <4> QED
          BY <1>1, <4>1, FailStop
      <3>3. CASE q.run # "refused"
        <4>1. Fresh(q) /\ q.seg = p.seg + 1
          BY <1>2, <1>3, <2>1, <2>3, <3>1, <3>3, SubmitFresh, SubmitTransaction DEF Room, Starts
        <4> QED
          BY <1>2, <1>4, <2>3, <3>1, <4>1
      <3> QED
        BY <3>2, <3>3
    <2> QED
      BY <1>7, <2>2, <2>3 DEF Submit
  <1> QED
    BY <1>5, <1>6, <1>7

LEMMA EditStop ==
  ASSUME TaskInv, StopInv, NEW i \in Items, Edit(i) \/ Delete(i)
  PROVE  StopInv'
  <1>1. PICK p : p = proj
    OBVIOUS
  <1>2. PICK q : /\ q = MessageEdited(p, i, p.rev[i] + 1) \/ q = MessageDeleted(p, i, p.rev[i])
                 /\ Commit(q, UNCHANGED <<actor, memory>>)
    BY <1>1 DEF Edit, Delete
  <1>3. Sound(p) /\ p.item[i] = "queued" /\ UNCHANGED <<poisoned, control, outcome>>
    BY <1>1 DEF TaskInv, Edit, Delete, engines
  <1>4. Calm(p, q) /\ Sound(q) /\ p.seg \in Nat
    BY <1>2, <1>3, EditCalm, EditTransaction DEF Sound, Projection
  <1>5. proj' = q /\ UNCHANGED <<actor, active, attached, outbox>>
    BY <1>1, <1>2, <1>4 DEF Commit, Sound, Calm, memory
  <1> QED
    BY <1>1, <1>3, <1>4, <1>5, CalmStop

LEMMA UnpropagatedStop ==
  ASSUME TaskInv, StopInv, Fit(proj), NEW mode \in Modes,
         StopRunUnpropagated(mode) \/ \E i \in Items : PromoteUnpropagated(i, mode)
  PROVE  StopInv'
  <1>1. proj'.run = "yielding" /\ proj'.seg = proj.seg
    BY UnpropagatedFit DEF Halts
  <1>2. ActorFails /\ actor = Ready /\ UNCHANGED <<outbox, poisoned, control, outcome>>
    BY DEF StopRunUnpropagated, PromoteUnpropagated, PropagationFails, engines
  <1>3. outbox = {}
    BY <1>2 DEF StopInv, Undelivered, Ready
  <1> QED
    BY <1>1, <1>2, <1>3, FailStop

LEMMA InteractionStop ==
  ASSUME TaskInv, StopInv, Fit(proj),
         \/ ResolveInteraction
         \/ \E s \in Segs, kind \in {"permission", "question"} : RequestInteraction(s, kind)
  PROVE  StopInv'
  <1>1. UNCHANGED <<actor, active, attached, outbox, poisoned, control, outcome>>
    BY DEF ResolveInteraction, RequestInteraction, memory, engines
  <1> QED
    BY <1>1, InteractionFit, CalmStop

\* The supervisor leaves an actor that has no run to listen to, or one that is to deliver
\* the start of the active run.
LEMMA SupervisorStop ==
  ASSUME TaskInv, StopInv, appends' = 0,
         SuperviseExit \/ SuperviseExitUnrecorded \/ Route \/ RouteOutrun \/ Boot
  PROVE  StopInv'
  <1>1. UNCHANGED <<outbox, control, outcome, active, attached>> /\ poisoned = {}
    BY DEF SuperviseExit, SuperviseExitUnrecorded, Route, RouteOutrun, Boot, engines, durable,
           memory, StopInv
  <1>2. ~RouteOutrun
    BY DEF RouteOutrun, Outrun, TaskInv, TypeOK
  <1>3. poisoned' = {}
    BY <1>1, <1>2 DEF SuperviseExit, SuperviseExitUnrecorded, Route, Boot, durable
  <1>4. UNCHANGED proj \/ (~IsActive(proj') /\ proj'.seg = proj.seg)
    BY SupervisorEnds
  <1>5. \/ actor'.pc = "absent"
        \/ actor'.pc = "idle" /\ ~IsActive(proj')
        \/ actor'.pc = "spawn" /\ proj.seg \in outbox /\ UNCHANGED proj
    <2>1. CASE SuperviseExit
      <3>1. CASE slot \in outbox /\ StartActor(proj) /\ UNCHANGED proj
        <4>1. IsActive(proj) /\ proj.seg \in outbox
          BY <3>1 DEF StopInv, Undelivered
        <4> QED
          BY <3>1, <4>1 DEF StartActor, Do
      <3>2. CASE proj' = TaskActorFailed(proj, slot) /\ actor' = Ready
                 /\ ActiveSegmentOf(proj) = slot
        <4>1. PICK p, q : p = proj /\ q = proj'
          OBVIOUS
        <4>2. ~IsActive(q)
          BY <3>2, <4>1, FailTransaction DEF TaskInv, GivesUp
        <4> QED
          BY <3>2, <4>1, <4>2 DEF Ready
      <3>3. CASE actor' = [Ready EXCEPT !.pc = "absent"]
        BY <3>3 DEF Ready
      <3> QED
        BY <2>1, <3>1, <3>2, <3>3 DEF SuperviseExit
    <2>2. CASE Route
      <3>1. \/ UNCHANGED proj /\ (PendingRun \/ ~IsActive(proj))
            \/ IsActive(proj) /\ proj' = RestartRecovered(proj)
        BY <2>2 DEF Route, RecoverProjection
      <3>2. CASE UNCHANGED proj /\ (PendingRun \/ ~IsActive(proj))
        BY <2>2, <3>2 DEF Route, StartActor, PendingRun, Do, Ready
      <3>3. CASE IsActive(proj) /\ proj' = RestartRecovered(proj)
        <4>1. PICK p, q : p = proj /\ q = proj'
          OBVIOUS
        <4>2. ~IsActive(q)
          BY <3>3, <4>1, RestartTransaction DEF TaskInv, Ends
        <4> QED
          BY <2>2, <4>1, <4>2 DEF Route, StartActor, Ready
      <3> QED
        BY <3>1, <3>2, <3>3
    <2>3. CASE SuperviseExitUnrecorded \/ Boot
      BY <2>3 DEF SuperviseExitUnrecorded, Boot, Ready
    <2> QED
      BY <1>2, <2>1, <2>2, <2>3
  <1>6. ~IsActive(proj') => outbox = {}
    <2>1. CASE UNCHANGED proj
      BY <2>1 DEF StopInv, Undelivered
    <2>2. CASE proj' # proj
      BY <2>2 DEF SuperviseExit, SuperviseExitUnrecorded, Route, RouteOutrun, Boot, durable,
                  RecoverProjection, PendingRun, StopInv, Undelivered, ActiveSegmentOf
    <2> QED
      BY <2>1, <2>2
  <1>7. Undelivered' /\ Attended'
    BY <1>1, <1>4, <1>5, <1>6 DEF StopInv, Undelivered, Attended, Starting
  <1>8. ASSUME NEW s \in Segs PROVE Told(s)'
    BY <1>1, <1>4, <1>5 DEF StopInv, Told, IsActive, ActiveStates
  <1> QED
    BY <1>3, <1>7, <1>8 DEF StopInv

\* What follows a commit delivers the start of the active run, if there is one.
LEMMA OthersStop ==
  ASSUME TaskInv, StopInv, PersistCheckpoint \/ SpawnIdempotent \/ SpawnClosed \/ MarkDelivered
  PROVE  StopInv'
  <1>1. UNCHANGED <<proj, poisoned, control, outcome>>
    BY DEF PersistCheckpoint, SpawnIdempotent, SpawnClosed, MarkDelivered, durable, engines
  <1>2. CASE PersistCheckpoint
    <2>1. UNCHANGED <<outbox, attached>> /\ actor.pc = "checkpoint"
      BY <1>2 DEF PersistCheckpoint, durable
    <2>2. CASE actor.path \in {"handover", "consume"}
      <3>1. actor'.pc = "spawn" /\ Starting
        BY <1>2, <2>1, <2>2 DEF PersistCheckpoint, Do, Starting
      <3>2. Undelivered' /\ Attended'
        BY <1>1, <2>1, <3>1 DEF StopInv, Undelivered, Attended, Starting
      <3> QED
        BY <1>1, <3>1, <3>2 DEF StopInv, Told
    <2>3. CASE actor.path \notin {"handover", "consume"}
      <3>1. actor'.pc = "idle" /\ ~Starting
        BY <1>2, <2>1, <2>3 DEF PersistCheckpoint, Ready, Starting
      <3>2. ~IsActive(proj) /\ outbox = {}
        BY <2>1, <3>1 DEF StopInv, Undelivered
      <3>3. Undelivered' /\ Attended'
        BY <1>1, <2>1, <3>1, <3>2 DEF Undelivered, Attended, Starting
      <3> QED
        BY <1>1, <3>2, <3>3 DEF StopInv, Told, IsActive, ActiveStates
    <2> QED
      BY <2>2, <2>3
  <1>3. CASE SpawnIdempotent \/ SpawnClosed
    <2>1. /\ UNCHANGED <<outbox, attached>> /\ actor.pc = "spawn" /\ actor'.pc = "deliver"
      BY <1>3 DEF SpawnIdempotent, SpawnClosed, durable, memory, Do
    <2>2. Undelivered' /\ Attended'
      BY <1>1, <2>1 DEF StopInv, Undelivered, Attended, Starting
    <2> QED
      BY <1>1, <2>1, <2>2 DEF StopInv, Told
  <1>4. CASE MarkDelivered
    <2>1. /\ actor.pc = "deliver" /\ actor' = Ready /\ active' = actor.seg
          /\ outbox' = outbox \ {actor.seg}
          /\ attached' = [attached EXCEPT ![actor.seg] = actor.path]
      BY <1>4 DEF MarkDelivered
    <2>2. /\ proj.seg \in outbox /\ IsActive(proj) /\ proj.run # "yielding"
          /\ actor.seg = proj.seg /\ actor.path \in {"live", "replay", "closed"}
      BY <2>1 DEF StopInv, Undelivered, Starting, TaskInv, Placed
    <2>3. outbox' = {} /\ actor'.pc = "idle"
      BY <2>1, <2>2 DEF StopInv, Undelivered, Ready
    <2>4. attached'[proj.seg] = actor.path
      BY <2>1, <2>2 DEF TaskInv, TypeOK
    <2>5. Undelivered' /\ Attended'
      BY <1>1, <2>1, <2>2, <2>3, <2>4 DEF Undelivered, Attended, Starting
    <2> QED
      BY <1>1, <2>2, <2>5 DEF StopInv, Told
  <1> QED
    BY <1>2, <1>3, <1>4

LEMMA CrashStop ==
  ASSUME TaskInv, StopInv, Crash
  PROVE  StopInv'
  <1>1. UNCHANGED <<proj, outbox, poisoned>> /\ actor'.pc = "down"
    BY DEF Crash, durable, Ready
  <1>2. Undelivered' /\ Attended'
    BY <1>1 DEF StopInv, Undelivered, Attended, Starting
  <1>3. ASSUME NEW s \in Segs PROVE Told(s)'
    BY <1>1 DEF Crash, Told
  <1> QED
    BY <1>1, <1>2, <1>3 DEF StopInv

\* An engine's outcome is the answer to what its control asks.
LEMMA EngineStop ==
  ASSUME TaskInv, StopInv, NEW s \in Segs,
         EngineFinish(s) \/ EngineReturn(s) \/ EngineReturnUnrecorded(s)
  PROVE  StopInv'
  <1>1. UNCHANGED <<proj, outbox, poisoned, control, actor, active, attached>>
    BY DEF EngineFinish, EngineReturn, EngineReturnUnrecorded, durable, memory
  <1>2. Undelivered' /\ Attended'
    BY <1>1 DEF StopInv, Undelivered, Attended, Starting
  <1>3. ASSUME NEW t \in Segs PROVE Told(t)'
    <2>1. CASE outcome'[t] = outcome[t]
      BY <1>1, <2>1 DEF StopInv, Told
    <2>2. CASE outcome'[t] # outcome[t]
      <3>1. /\ t = s /\ control[t] \in {"yield", "force"}
            /\ outcome'[t] \in IF control[t] = "yield" THEN {"safe_point"} ELSE {"forced", "timed_out"}
        BY <2>2 DEF EngineFinish, EngineReturn, EngineReturnUnrecorded, TaskInv, TypeOK, Controls
      <3> QED
        BY <1>1, <3>1 DEF StopInv, Told
    <2> QED
      BY <2>1, <2>2
  <1> QED
    BY <1>1, <1>2, <1>3 DEF StopInv

LEMMA StopInit == Init => StopInv
  <1> SUFFICES ASSUME Init PROVE StopInv
    OBVIOUS
  <1>1. /\ poisoned = {} /\ outbox = {} /\ actor.pc = "absent" /\ ~IsActive(proj)
        /\ proj.run # "yielding"
    BY DEF Init, Ready, EmptyProjection, IsActive, ActiveStates
  <1>2. Undelivered /\ Attended
    BY <1>1 DEF Undelivered, Attended, Starting
  <1>3. \A s \in Segs : Told(s)
    BY <1>1 DEF Init, Told
  <1> QED
    BY <1>1, <1>2, <1>3 DEF StopInv

LEMMA StopStep ==
  ASSUME TaskInv, Fit(proj), StopInv, [Next]_vars, appends' = 0
  PROVE  StopInv'
  <1>1. ~Outrun
    BY DEF Outrun, TaskInv, TypeOK
  <1>2. CASE Command
    <2>1. CASE StartSegment \/ \E i \in Items : Submit(i)
      BY <2>1, BeginStop
    <2>2. CASE \E mode \in Modes : StopRun(mode) \/ \E i \in Items : Promote(i, mode)
      BY <2>2, StopStop
    <2>3. CASE \E mode \in Modes : \/ StopRunUnpropagated(mode)
                                   \/ \E i \in Items : PromoteUnpropagated(i, mode)
      BY <2>3, UnpropagatedStop
    <2>4. CASE \E i \in Items : Edit(i) \/ Delete(i)
      BY <2>4, EditStop
    <2> QED
      BY <1>2, <2>1, <2>2, <2>3, <2>4 DEF Command
  <1>3. CASE \E s \in Segs : HandleRunEvent(s)
    BY <1>3, RunEventStop
  <1>4. CASE StartNextQueued
    BY <1>4, BeginStop
  <1>5. CASE \/ ResolveInteraction
             \/ \E s \in Segs, kind \in {"permission", "question"} : RequestInteraction(s, kind)
    BY <1>5, InteractionStop
  <1>6. CASE \E s \in Segs : EngineFinish(s) \/ EngineReturn(s) \/ EngineReturnUnrecorded(s)
    BY <1>6, EngineStop
  <1>7. CASE PersistCheckpoint \/ SpawnIdempotent \/ SpawnClosed \/ MarkDelivered
    BY <1>7, OthersStop
  <1>8. CASE ActorFault
    <2>1. ActorFails /\ UNCHANGED <<proj, outbox, poisoned, control, outcome>>
      BY <1>8 DEF ActorFault, durable, engines
    <2> QED
      BY <2>1, FailStop
  <1>9. CASE SuperviseExit \/ SuperviseExitUnrecorded \/ Route \/ RouteOutrun \/ Boot
    BY <1>9, SupervisorStop
  <1>10. CASE Crash
    BY <1>10, CrashStop
  <1>11. CASE UNCHANGED vars
    <2>1. UNCHANGED <<proj, actor, active, outbox, poisoned, control, outcome, attached>>
      BY <1>11 DEF vars, durable, engines, memory
    <2> QED
      BY <2>1, CalmStop DEF Calm
  <1>12. ~PersistCheckpointOutrun /\ ~StartNextQueuedOutrun /\ \A s \in Segs : ~HandleRunEventOutrun(s)
    BY <1>1 DEF PersistCheckpointOutrun, StartNextQueuedOutrun, HandleRunEventOutrun
  <1> QED
    BY <1>2, <1>3, <1>4, <1>5, <1>6, <1>7, <1>8, <1>9, <1>10, <1>11, <1>12 DEF Next, EngineStep

\* An append that outran a transaction is never forgotten.
LEMMA OutrunKept == TaskInv /\ [Next]_vars /\ appends' = 0 => appends = 0
  <1> SUFFICES ASSUME TaskInv, [Next]_vars, appends' = 0 PROVE appends = 0
    OBVIOUS
  <1>1. appends \in Nat
    BY DEF TaskInv, TypeOK
  <1>2. UNCHANGED appends \/ Outrun
    BY DEF Next, vars, bounds, Command, StartSegment, StopRun, StopRunUnpropagated, Submit, Edit,
           Delete, Promote, PromoteUnpropagated, PropagationFails, EngineStep, RequestInteraction,
           EngineFinish, EngineReturn, EngineReturnUnrecorded, HandleRunEvent,
           HandleRunEventOutrun, StartNextQueued, StartNextQueuedOutrun, PersistCheckpoint,
           PersistCheckpointOutrun, SpawnIdempotent, SpawnClosed, MarkDelivered, ActorFault,
           SuperviseExit, SuperviseExitUnrecorded, Route, RouteOutrun, ResolveInteraction, Crash,
           Boot
  <1> QED
    BY <1>1, <1>2 DEF Outrun

\* Until an append outruns a transaction (the handler then drops what it was to commit), the
\* stops and the runs are in step.
StopInvUnlessOutrun == appends = 0 => StopInv

LEMMA StopInvariant == Spec => [](TaskInv /\ StopInvUnlessOutrun)
  <1>1. TaskInv /\ Fit(proj) /\ StopInvUnlessOutrun /\ [Next]_vars => StopInvUnlessOutrun'
    BY StopStep, OutrunKept DEF StopInvUnlessOutrun
  <1>2. TaskInv /\ Fit(proj) /\ [Next]_vars => Fit(proj)'
    BY FitStep
  <1>3. Init => StopInvUnlessOutrun
    BY StopInit DEF StopInvUnlessOutrun
  <1> QED
    BY <1>1, <1>2, <1>3, FitInit, Invariant, PTL DEF Spec

\* As long as no append outran a transaction, an actor that waits for messages has an event of
\* the active run still to come, whatever crashed or failed before (handle_run_event,
\* spawn_pending_segment, run_task_actor).
THEOREM NoneStranded == Spec => [](appends = 0 => NoStrandedRun)
  <1>1. TaskInv /\ StopInvUnlessOutrun => (appends = 0 => NoStrandedRun)
    BY DEF StopInvUnlessOutrun, StopInv, Attended, NoStrandedRun, Ready
  <1> QED
    BY <1>1, StopInvariant, PTL

\* As long as no append outran a transaction, a stop that the client was told of has reached
\* the engine it is for, and not the handle of a replayed start (StopRun, Promote).
THEOREM StopsDelivered == Spec => [](appends = 0 => StopDelivered)
  <1>1. TaskInv /\ StopInvUnlessOutrun => (appends = 0 => StopDelivered)
    <2> SUFFICES ASSUME TaskInv, StopInv, actor = Ready, proj.run = "yielding",
                        engine[proj.seg] = "running"
                 PROVE  control[proj.seg] # "continue"
      BY DEF StopDelivered, StopInvUnlessOutrun
    <2>1. actor.pc = "idle" /\ IsActive(proj) /\ proj.seg \in Segs
      BY DEF Ready, IsActive, ActiveStates, TaskInv, Sound, Numbered
    <2>2. attached[proj.seg] = "live"
      BY <2>1 DEF StopInv, Attended, TaskInv, Segment, Listening
    <2> QED
      BY <2>1, <2>2 DEF StopInv, Told, Requested
  <1> QED
    BY <1>1, StopInvariant, PTL
=============================================================================
