-------------------------- MODULE InteractionsProofs --------------------------
(***************************************************************************)
(* Theorems about the interactions of a run, for any permissions and       *)
(* questions, any number of clients, retries, outrun appends and crashes.  *)
(***************************************************************************)
EXTENDS Interactions, TLAPS

Pcs == {"idle", "request", "waiting", "invalidate", "lookup", "complete", "try_recv",
        "cancel", "returned", "gone"}
Replies == {"none"} \cup Answers
ClientPcs == {"idle", "commit", "forget", "take", "send"}
Outcomes == {"none", "asked"} \cup Settled
Targets == Requests \cup {NoRequest}

EngineRecords == [pc : Pcs, heard : Replies, tries : Nat]
ClientRecords == [pc : ClientPcs, req : Targets, answer : Answers, context : BOOLEAN]
StopRecords == [pc : {"idle", "forget", "wake"}, req : Targets]

Typed ==
  /\ pending \in Targets
  /\ log \in [Requests -> Outcomes]
  /\ run \in {"running", "stopped", "ended"}
  /\ expired \subseteq Requests /\ contexts \subseteq Requests /\ waiters \subseteq Requests
  /\ channel \in [Requests -> {"empty"} \cup Answers]
  /\ engine \in [Requests -> EngineRecords]
  /\ client \in [Clients -> ClientRecords]
  /\ stopper \in StopRecords
  /\ up \in BOOLEAN /\ appends \in 0..MaxAppends /\ crashes \in 0..MaxCrashes

\* The request that the task's row shows as pending is the one asked and not settled.
Open == \A r \in Requests : log[r] = "asked" <=> pending = r

\* What the program counter of an engine thread says of its request.  A thread takes back
\* its request only after the deadline, when no answer can be committed any more.
Thread(r) ==
  /\ engine[r].heard = "none" <=> engine[r].pc # "returned"
  /\ engine[r].pc \in {"idle", "request"} => log[r] = "none"
  /\ engine[r].pc \in {"invalidate", "lookup"} => r \in expired
  /\ engine[r].pc \in {"complete", "try_recv"} => log[r] \in Answers /\ r \in Permissions
  /\ engine[r].pc = "cancel" => log[r] \notin Answers
  /\ engine[r].pc \in {"lookup", "cancel", "returned"} /\ log[r] = "asked" =>
       engine[r].tries > Retries /\ r \in expired
  /\ r \in Questions /\ engine[r].pc = "returned" /\ log[r] \in Answers =>
       engine[r].heard = log[r]

\* Retries are counted while a transaction is tried, up to their limit.
Counted(r) ==
  /\ engine[r].tries <= Retries + 1
  /\ engine[r].pc \in {"request", "invalidate"} => engine[r].tries <= Retries

\* What was sent to a thread is the durable answer, or the refusal of a withdrawn request.
Sent(r) ==
  channel[r] # "empty" => channel[r] = log[r] \/ (channel[r] = "no" /\ log[r] = "withdrawn")

\* A client that has committed its answer hands over that answer.
Answered(c) ==
  /\ client[c].pc # "idle" => client[c].req \in Requests
  /\ client[c].pc \in {"forget", "take", "send"} => log[client[c].req] = client[c].answer

\* A stop cleans up what it has withdrawn.
Withdrew == stopper.pc # "idle" => stopper.req \in Requests /\ log[stopper.req] = "withdrawn"

InteractionInv ==
  /\ Typed /\ Open /\ Withdrew
  /\ \A r \in Requests : Thread(r) /\ Counted(r) /\ Sent(r)
  /\ \A c \in Clients : Answered(c)

\* What a step makes of a request: nothing, the request, or its settlement.
LogMove(r) ==
  \/ log'[r] = log[r]
  \/ log[r] = "none" /\ log'[r] = "asked"
  \/ log[r] = "asked" /\ log'[r] \in Settled

-----------------------------------------------------------------------------
(* Types *)

LEMMA Members ==
  /\ {"idle", "request", "waiting", "invalidate", "lookup", "complete", "try_recv", "cancel",
      "returned", "gone"} \subseteq Pcs
  /\ "none" \in Replies /\ Answers \subseteq Replies
  /\ {"idle", "commit", "forget", "take", "send"} \subseteq ClientPcs
  /\ "yes" \in Answers /\ "no" \in Answers /\ Answers \subseteq Outcomes
  /\ {"none", "asked", "withdrawn"} \subseteq Outcomes
  /\ NoRequest \in Targets /\ Requests \subseteq Targets
  BY DEF Pcs, Replies, ClientPcs, Answers, Outcomes, Settled, Targets

LEMMA Boolean ==
  ASSUME NEW x, NEW S
  PROVE  (x \in S) \in BOOLEAN
  OBVIOUS

LEMMA EngineTyped ==
  ASSUME Typed, NEW r \in Requests, NEW e \in EngineRecords, engine' = [engine EXCEPT ![r] = e]
  PROVE  engine' \in [Requests -> EngineRecords]
  BY DEF Typed

LEMMA TriesTyped ==
  ASSUME NEW e \in EngineRecords, NEW q \in Pcs
  PROVE  [e EXCEPT !.pc = q, !.tries = e.tries + 1] \in EngineRecords
  <1>1. e.tries + 1 \in Nat
    BY DEF EngineRecords
  <1> DEFINE n == e.tries + 1
  <1> HIDE DEF n
  <1>2. n \in Nat => [e EXCEPT !.pc = q, !.tries = n] \in EngineRecords
    BY DEF EngineRecords
  <1> QED
    BY <1>1, <1>2 DEF n

LEMMA GotoTyped ==
  ASSUME Typed, NEW r \in Requests, NEW pc \in Pcs, Goto(r, pc)
  PROVE  engine' \in [Requests -> EngineRecords]
  <1>1. [engine[r] EXCEPT !.pc = pc, !.tries = 0] \in EngineRecords
    BY DEF Typed, EngineRecords
  <1> QED
    BY <1>1, EngineTyped DEF Goto, Typed

LEMMA ReturnTyped ==
  ASSUME Typed, NEW r \in Requests, NEW h \in Replies, Return(r, h)
  PROVE  engine' \in [Requests -> EngineRecords]
  <1>1. [engine[r] EXCEPT !.pc = "returned", !.heard = h] \in EngineRecords
    BY Members DEF Typed, EngineRecords
  <1> QED
    BY <1>1, EngineTyped DEF Return, Typed

LEMMA RefusedTyped ==
  ASSUME Typed, NEW r \in Requests, Refused(r)
  PROVE  /\ engine' \in [Requests -> EngineRecords] /\ waiters' \subseteq Requests
         /\ contexts' \subseteq Requests /\ pending' \in Targets
         /\ log' \in [Requests -> Outcomes]
  BY Members, ReturnTyped DEF Typed, Refused

LEMMA IdleTyped == Idle \in ClientRecords /\ NoStop \in StopRecords
  BY Members DEF Idle, NoStop, ClientRecords, StopRecords

\* Types are kept.
LEMMA StepTyped ==
  ASSUME Typed, \A j \in Requests : Thread(j), [Next]_vars
  PROVE  Typed'
  <1> USE Members, RequestAssumption DEF Typed, memory, threads, bounds
  <1>1. ASSUME NEW r \in Requests, Reserve(r) PROVE Typed'
    <2>1. engine' \in [Requests -> EngineRecords]
      BY <1>1, GotoTyped DEF Reserve
    <2> QED
      BY <1>1, <2>1 DEF Reserve
  <1>2. ASSUME NEW r \in Requests, Request(r) PROVE Typed'
    <2>1. CASE Refused(r)
      BY <1>2, <2>1, RefusedTyped DEF Request
    <2>2. CASE ~Refused(r)
      <3>1. Goto(r, "waiting") /\ pending' = r /\ log' = [log EXCEPT ![r] = "asked"]
        BY <1>2, <2>2 DEF Request
      <3>2. engine' \in [Requests -> EngineRecords]
        BY <3>1, GotoTyped
      <3> QED
        BY <1>2, <2>2, <3>1, <3>2 DEF Request
    <2> QED
      BY <2>1, <2>2
  <1>3. ASSUME NEW r \in Requests, RequestOutrun(r) PROVE Typed'
    <2>1. CASE Refused(r)
      BY <1>3, <2>1, RefusedTyped DEF RequestOutrun, Outrun
    <2>2. CASE ~Refused(r)
      <3>1. [engine[r] EXCEPT !.tries = engine[r].tries + 1] \in EngineRecords
        BY DEF EngineRecords
      <3>2. engine' \in [Requests -> EngineRecords]
        BY <1>3, <2>2, <3>1, EngineTyped DEF RequestOutrun
      <3> QED
        BY <1>3, <2>2, <3>2 DEF RequestOutrun, Outrun
    <2> QED
      BY <2>1, <2>2
  <1>4. ASSUME NEW r \in Requests, Receive(r) PROVE Typed'
    <2>1. engine' \in [Requests -> EngineRecords]
      BY <1>4, ReturnTyped DEF Receive
    <2> QED
      BY <1>4, <2>1 DEF Receive
  <1>5. ASSUME NEW r \in Requests, Timeout(r) PROVE Typed'
    <2>1. engine' \in [Requests -> EngineRecords]
      BY <1>5, GotoTyped DEF Timeout
    <2> QED
      BY <1>5, <2>1 DEF Timeout
  <1>6. ASSUME NEW r \in Requests, Invalidate(r) PROVE Typed'
    <2>1. engine' \in [Requests -> EngineRecords]
      BY <1>6, GotoTyped DEF Invalidate
    <2>2. pending' \in Targets /\ log' \in [Requests -> Outcomes]
      BY <1>6 DEF Invalidate
    <2> QED
      BY <1>6, <2>1, <2>2 DEF Invalidate
  <1>7. ASSUME NEW r \in Requests, InvalidateOutrun(r) PROVE Typed'
    <2> DEFINE p == IF engine[r].tries < Retries THEN engine[r].pc ELSE "lookup"
    <2>1. p \in Pcs
      BY DEF EngineRecords
    <2>2. [engine[r] EXCEPT !.pc = p, !.tries = engine[r].tries + 1] \in EngineRecords
      BY <2>1, TriesTyped
    <2>3. engine' \in [Requests -> EngineRecords]
      BY <1>7, <2>1, <2>2, EngineTyped DEF InvalidateOutrun
    <2> QED
      BY <1>7, <2>3 DEF InvalidateOutrun, Outrun
  <1>8. ASSUME NEW r \in Requests, Lookup(r) PROVE Typed'
    <2>1. CASE Return(r, log[r]) /\ log[r] \in Answers
      <3>1. engine' \in [Requests -> EngineRecords]
        BY <2>1, ReturnTyped
      <3> QED
        BY <1>8, <3>1 DEF Lookup
    <2>2. CASE ~(Return(r, log[r]) /\ log[r] \in Answers)
      <3>1. engine' \in [Requests -> EngineRecords]
        BY <1>8, <2>2 DEF Lookup, EngineRecords
      <3> QED
        BY <1>8, <3>1 DEF Lookup
    <2> QED
      BY <2>1, <2>2
  <1>9. ASSUME NEW r \in Requests, Complete(r) PROVE Typed'
    <2>1. engine' \in [Requests -> EngineRecords]
      BY <1>9, EngineTyped DEF Complete, EngineRecords
    <2>2. channel' \in [Requests -> {"empty"} \cup Answers]
      BY <1>9 DEF Complete, At, Thread
    <2> QED
      BY <1>9, <2>1, <2>2 DEF Complete
  <1>10. ASSUME NEW r \in Requests, TryRecv(r) PROVE Typed'
    <2>1. \E h \in Replies : Return(r, h)
      BY <1>10 DEF TryRecv
    <2>2. engine' \in [Requests -> EngineRecords]
      BY <2>1, ReturnTyped
    <2> QED
      BY <1>10, <2>2 DEF TryRecv
  <1>11. ASSUME NEW r \in Requests, Cancel(r) PROVE Typed'
    <2>1. engine' \in [Requests -> EngineRecords]
      BY <1>11, ReturnTyped DEF Cancel
    <2> QED
      BY <1>11, <2>1 DEF Cancel
  <1>12. ASSUME NEW r \in Requests, Dropped(r) PROVE Typed'
    <2>1. engine' \in [Requests -> EngineRecords]
      BY <1>12, EngineTyped DEF Dropped, EngineRecords
    <2> QED
      BY <1>12, <2>1 DEF Dropped
  <1>13. ASSUME NEW r \in Requests, Expire(r) PROVE Typed'
    BY <1>13 DEF Expire
  <1>14. ASSUME NEW c \in Clients, NEW r \in Requests, NEW a \in Answers, Look(c, r, a)
        PROVE Typed'
    <2>1. (r \in contexts) \in BOOLEAN
      BY Boolean
    <2>2. [pc |-> "commit", req |-> r, answer |-> a, context |-> r \in contexts] \in ClientRecords
      BY <2>1 DEF ClientRecords
    <2> QED
      BY <1>14, <2>2 DEF Look
  <1>15. ASSUME NEW c \in Clients, Resolve(c) PROVE Typed'
    <2>1. client' \in [Clients -> ClientRecords]
      BY <1>15, IdleTyped DEF Resolve, ClientRecords
    <2>2. pending' \in Targets /\ log' \in [Requests -> Outcomes]
      BY <1>15 DEF Resolve, ClientRecords
    <2> QED
      BY <1>15, <2>1, <2>2 DEF Resolve
  <1>16. ASSUME NEW c \in Clients, Forget(c) PROVE Typed'
    <2>1. client' \in [Clients -> ClientRecords]
      BY <1>16, IdleTyped DEF Forget, ClientRecords
    <2> QED
      BY <1>16, <2>1 DEF Forget
  <1>17. ASSUME NEW c \in Clients, Take(c) PROVE Typed'
    <2>1. client' \in [Clients -> ClientRecords]
      BY <1>17, IdleTyped DEF Take, ClientRecords
    <2>2. channel' \in [Requests -> {"empty"} \cup Answers]
      BY <1>17 DEF Take, ClientRecords
    <2> QED
      BY <1>17, <2>1, <2>2 DEF Take
  <1>18. ASSUME NEW c \in Clients, Send(c) PROVE Typed'
    <2>1. client' \in [Clients -> ClientRecords]
      BY <1>18, IdleTyped DEF Send
    <2>2. channel' \in [Requests -> {"empty"} \cup Answers]
      BY <1>18 DEF Send, ClientRecords
    <2> QED
      BY <1>18, <2>1, <2>2 DEF Send
  <1>19. CASE Stop
    <2>1. log' \in [Requests -> Outcomes]
      BY <1>19 DEF Stop
    <2>2. stopper' \in StopRecords
      BY <1>19, IdleTyped DEF Stop, StopRecords
    <2> QED
      BY <1>19, <2>1, <2>2 DEF Stop
  <1>20. CASE StopForget
    <2>1. stopper' \in StopRecords
      BY <1>20, IdleTyped DEF StopForget, StopRecords
    <2> QED
      BY <1>20, <2>1 DEF StopForget
  <1>21. CASE StopWake
    BY <1>21, IdleTyped DEF StopWake
  <1>22. CASE Crash
    <2>1. engine' \in [Requests -> EngineRecords]
      BY <1>22 DEF Crash, EngineRecords
    <2>2. client' \in [Clients -> ClientRecords] /\ stopper' \in StopRecords
      BY <1>22, IdleTyped DEF Crash
    <2>3. channel' \in [Requests -> {"empty"} \cup Answers]
      BY <1>22 DEF Crash
    <2>4. crashes' \in 0..MaxCrashes
      BY <1>22 DEF Crash
    <2>5. up' \in BOOLEAN
      BY <1>22, Zenon DEF Crash
    <2> QED
      BY <1>22, <2>1, <2>2, <2>3, <2>4, <2>5 DEF Crash
  <1>23. CASE Recover
    BY <1>23 DEF Recover
  <1>24. CASE UNCHANGED vars
    BY <1>24 DEF vars
  <1> QED
    BY <1>1, <1>2, <1>3, <1>4, <1>5, <1>6, <1>7, <1>8, <1>9, <1>10, <1>11, <1>12, <1>13,
       <1>14, <1>15, <1>16, <1>17, <1>18, <1>19, <1>20, <1>21, <1>22, <1>23, <1>24 DEF Next,
       Engine, Answer

\* A request is asked once, and settled once.
LEMMA LogMoves ==
  ASSUME Typed, Open, NEW j \in Requests, Thread(j), [Next]_vars
  PROVE  LogMove(j)
  <1> USE RequestAssumption DEF Typed, memory, threads, bounds, EngineRecords,
      ClientRecords, Targets, Open, Thread, LogMove, Settled, Answers, Outcomes
  <1>1. ASSUME NEW r \in Requests, Reserve(r) PROVE LogMove(j)
    BY <1>1 DEF Reserve, At, Goto
  <1>2. ASSUME NEW r \in Requests, Request(r) PROVE LogMove(j)
    BY <1>2 DEF Request, At, Goto, MayAsk, Refused, Return
  <1>3. ASSUME NEW r \in Requests, RequestOutrun(r) PROVE LogMove(j)
    BY <1>3 DEF RequestOutrun, At, Outrun, Refused, Return
  <1>4. ASSUME NEW r \in Requests, Receive(r) PROVE LogMove(j)
    BY <1>4 DEF Receive, At, Return
  <1>5. ASSUME NEW r \in Requests, Timeout(r) PROVE LogMove(j)
    BY <1>5 DEF Timeout, At, Goto
  <1>6. ASSUME NEW r \in Requests, Invalidate(r) PROVE LogMove(j)
    BY <1>6 DEF Invalidate, At, Goto
  <1>7. ASSUME NEW r \in Requests, InvalidateOutrun(r) PROVE LogMove(j)
    BY <1>7 DEF InvalidateOutrun, At, Outrun
  <1>8. ASSUME NEW r \in Requests, Lookup(r) PROVE LogMove(j)
    BY <1>8 DEF Lookup, At, Return
  <1>9. ASSUME NEW r \in Requests, Complete(r) PROVE LogMove(j)
    BY <1>9 DEF Complete, At
  <1>10. ASSUME NEW r \in Requests, TryRecv(r) PROVE LogMove(j)
    BY <1>10 DEF TryRecv, At, Return
  <1>11. ASSUME NEW r \in Requests, Cancel(r) PROVE LogMove(j)
    BY <1>11 DEF Cancel, At, Return
  <1>12. ASSUME NEW r \in Requests, Dropped(r) PROVE LogMove(j)
    BY <1>12 DEF Dropped, At
  <1>13. ASSUME NEW r \in Requests, Expire(r) PROVE LogMove(j)
    BY <1>13 DEF Expire
  <1>14. ASSUME NEW c \in Clients, NEW r \in Requests, NEW a \in Answers, Look(c, r, a)
        PROVE LogMove(j)
    BY <1>14 DEF Look, ClientAt
  <1>15. ASSUME NEW c \in Clients, Resolve(c) PROVE LogMove(j)
    BY <1>15 DEF Resolve, ClientAt, MayResolve, Req, Idle
  <1>16. ASSUME NEW c \in Clients, Forget(c) PROVE LogMove(j)
    BY <1>16 DEF Forget, ClientAt, Req
  <1>17. ASSUME NEW c \in Clients, Take(c) PROVE LogMove(j)
    BY <1>17 DEF Take, ClientAt, Req, Idle
  <1>18. ASSUME NEW c \in Clients, Send(c) PROVE LogMove(j)
    BY <1>18 DEF Send, ClientAt, Req, Idle
  <1>19. CASE Stop
    BY <1>19 DEF Stop, NoStop
  <1>20. CASE StopForget
    BY <1>20 DEF StopForget
  <1>21. CASE StopWake
    BY <1>21 DEF StopWake, NoStop
  <1>22. CASE Crash
    BY <1>22 DEF Crash, Idle, NoStop
  <1>23. CASE Recover
    BY <1>23 DEF Recover
  <1>24. CASE UNCHANGED vars
    BY <1>24 DEF vars
  <1> QED
    BY <1>1, <1>2, <1>3, <1>4, <1>5, <1>6, <1>7, <1>8, <1>9, <1>10, <1>11, <1>12, <1>13,
       <1>14, <1>15, <1>16, <1>17, <1>18, <1>19, <1>20, <1>21, <1>22, <1>23, <1>24 DEF Next,
       Engine, Answer

\* The pending request stays the one that is asked and not settled.
LEMMA StepOpen ==
  ASSUME Typed, Open, NEW j \in Requests, Thread(j), [Next]_vars
  PROVE  (log[j] = "asked" <=> pending = j)'
  <1> USE RequestAssumption DEF Typed, memory, threads, bounds, EngineRecords,
      ClientRecords, Targets, Requests, Open, Thread, Settled, Answers
  <1>1. ASSUME NEW r \in Requests, Reserve(r) PROVE (log[j] = "asked" <=> pending = j)'
    BY <1>1 DEF Reserve, At, Goto
  <1>2. ASSUME NEW r \in Requests, Request(r) PROVE (log[j] = "asked" <=> pending = j)'
    BY <1>2 DEF Request, At, Goto, MayAsk, Refused, Return
  <1>3. ASSUME NEW r \in Requests, RequestOutrun(r) PROVE (log[j] = "asked" <=> pending =
        j)'
    BY <1>3 DEF RequestOutrun, At, Outrun, Refused, Return
  <1>4. ASSUME NEW r \in Requests, Receive(r) PROVE (log[j] = "asked" <=> pending = j)'
    BY <1>4 DEF Receive, At, Return
  <1>5. ASSUME NEW r \in Requests, Timeout(r) PROVE (log[j] = "asked" <=> pending = j)'
    BY <1>5 DEF Timeout, At, Goto
  <1>6. ASSUME NEW r \in Requests, Invalidate(r) PROVE (log[j] = "asked" <=> pending = j)'
    BY <1>6 DEF Invalidate, At, Goto
  <1>7. ASSUME NEW r \in Requests, InvalidateOutrun(r) PROVE (log[j] = "asked" <=> pending =
        j)'
    BY <1>7 DEF InvalidateOutrun, At, Outrun
  <1>8. ASSUME NEW r \in Requests, Lookup(r) PROVE (log[j] = "asked" <=> pending = j)'
    BY <1>8 DEF Lookup, At, Return
  <1>9. ASSUME NEW r \in Requests, Complete(r) PROVE (log[j] = "asked" <=> pending = j)'
    BY <1>9 DEF Complete, At
  <1>10. ASSUME NEW r \in Requests, TryRecv(r) PROVE (log[j] = "asked" <=> pending = j)'
    BY <1>10 DEF TryRecv, At, Return
  <1>11. ASSUME NEW r \in Requests, Cancel(r) PROVE (log[j] = "asked" <=> pending = j)'
    BY <1>11 DEF Cancel, At, Return
  <1>12. ASSUME NEW r \in Requests, Dropped(r) PROVE (log[j] = "asked" <=> pending = j)'
    BY <1>12 DEF Dropped, At
  <1>13. ASSUME NEW r \in Requests, Expire(r) PROVE (log[j] = "asked" <=> pending = j)'
    BY <1>13 DEF Expire
  <1>14. ASSUME NEW c \in Clients, NEW r \in Requests, NEW a \in Answers, Look(c, r, a)
        PROVE (log[j] = "asked" <=> pending = j)'
    BY <1>14 DEF Look, ClientAt
  <1>15. ASSUME NEW c \in Clients, Resolve(c) PROVE (log[j] = "asked" <=> pending = j)'
    BY <1>15 DEF Resolve, ClientAt, MayResolve, Req, Idle
  <1>16. ASSUME NEW c \in Clients, Forget(c) PROVE (log[j] = "asked" <=> pending = j)'
    BY <1>16 DEF Forget, ClientAt, Req
  <1>17. ASSUME NEW c \in Clients, Take(c) PROVE (log[j] = "asked" <=> pending = j)'
    BY <1>17 DEF Take, ClientAt, Req, Idle
  <1>18. ASSUME NEW c \in Clients, Send(c) PROVE (log[j] = "asked" <=> pending = j)'
    BY <1>18 DEF Send, ClientAt, Req, Idle
  <1>19. CASE Stop
    BY <1>19 DEF Stop, NoStop
  <1>20. CASE StopForget
    BY <1>20 DEF StopForget
  <1>21. CASE StopWake
    BY <1>21 DEF StopWake, NoStop
  <1>22. CASE Crash
    BY <1>22 DEF Crash, Idle, NoStop
  <1>23. CASE Recover
    BY <1>23 DEF Recover
  <1>24. CASE UNCHANGED vars
    BY <1>24 DEF vars
  <1> QED
    BY <1>1, <1>2, <1>3, <1>4, <1>5, <1>6, <1>7, <1>8, <1>9, <1>10, <1>11, <1>12, <1>13,
       <1>14, <1>15, <1>16, <1>17, <1>18, <1>19, <1>20, <1>21, <1>22, <1>23, <1>24 DEF Next,
       Engine, Answer

\* A thread that takes its request back looks for an answer after the deadline, so that it
\* misses none.
LEMMA StepThread ==
  ASSUME Typed, Open, NEW j \in Requests, Thread(j), Sent(j), [Next]_vars
  PROVE  Thread(j)'
  <1> USE RequestAssumption DEF Typed, memory, threads, bounds, EngineRecords,
      ClientRecords, Targets, Requests, Open, Thread, Sent, Settled, Answers, Outcomes
  <1>1. ASSUME NEW r \in Requests, Reserve(r) PROVE Thread(j)'
    BY <1>1 DEF Reserve, At, Goto
  <1>2. ASSUME NEW r \in Requests, Request(r) PROVE Thread(j)'
    BY <1>2 DEF Request, At, Goto, MayAsk, Refused, Return
  <1>3. ASSUME NEW r \in Requests, RequestOutrun(r) PROVE Thread(j)'
    BY <1>3 DEF RequestOutrun, At, Outrun, Refused, Return
  <1>4. ASSUME NEW r \in Requests, Receive(r) PROVE Thread(j)'
    BY <1>4 DEF Receive, At, Return
  <1>5. ASSUME NEW r \in Requests, Timeout(r) PROVE Thread(j)'
    BY <1>5 DEF Timeout, At, Goto
  <1>6. ASSUME NEW r \in Requests, Invalidate(r) PROVE Thread(j)'
    BY <1>6 DEF Invalidate, At, Goto
  <1>7. ASSUME NEW r \in Requests, InvalidateOutrun(r) PROVE Thread(j)'
    BY <1>7 DEF InvalidateOutrun, At, Outrun
  <1>8. ASSUME NEW r \in Requests, Lookup(r) PROVE Thread(j)'
    BY <1>8 DEF Lookup, At, Return
  <1>9. ASSUME NEW r \in Requests, Complete(r) PROVE Thread(j)'
    BY <1>9 DEF Complete, At
  <1>10. ASSUME NEW r \in Requests, TryRecv(r) PROVE Thread(j)'
    BY <1>10 DEF TryRecv, At, Return
  <1>11. ASSUME NEW r \in Requests, Cancel(r) PROVE Thread(j)'
    BY <1>11 DEF Cancel, At, Return
  <1>12. ASSUME NEW r \in Requests, Dropped(r) PROVE Thread(j)'
    BY <1>12 DEF Dropped, At
  <1>13. ASSUME NEW r \in Requests, Expire(r) PROVE Thread(j)'
    BY <1>13 DEF Expire
  <1>14. ASSUME NEW c \in Clients, NEW r \in Requests, NEW a \in Answers, Look(c, r, a)
        PROVE Thread(j)'
    BY <1>14 DEF Look, ClientAt
  <1>15. ASSUME NEW c \in Clients, Resolve(c) PROVE Thread(j)'
    BY <1>15 DEF Resolve, ClientAt, MayResolve, Req, Idle
  <1>16. ASSUME NEW c \in Clients, Forget(c) PROVE Thread(j)'
    BY <1>16 DEF Forget, ClientAt, Req
  <1>17. ASSUME NEW c \in Clients, Take(c) PROVE Thread(j)'
    BY <1>17 DEF Take, ClientAt, Req, Idle
  <1>18. ASSUME NEW c \in Clients, Send(c) PROVE Thread(j)'
    BY <1>18 DEF Send, ClientAt, Req, Idle
  <1>19. CASE Stop
    BY <1>19 DEF Stop, NoStop
  <1>20. CASE StopForget
    BY <1>20 DEF StopForget
  <1>21. CASE StopWake
    BY <1>21 DEF StopWake, NoStop
  <1>22. CASE Crash
    BY <1>22 DEF Crash, Idle, NoStop
  <1>23. CASE Recover
    BY <1>23 DEF Recover
  <1>24. CASE UNCHANGED vars
    BY <1>24 DEF vars
  <1> QED
    BY <1>1, <1>2, <1>3, <1>4, <1>5, <1>6, <1>7, <1>8, <1>9, <1>10, <1>11, <1>12, <1>13,
       <1>14, <1>15, <1>16, <1>17, <1>18, <1>19, <1>20, <1>21, <1>22, <1>23, <1>24 DEF Next,
       Engine, Answer

\* The retry counters stay within their limit.
LEMMA StepCounted ==
  ASSUME Typed, NEW j \in Requests, Counted(j), [Next]_vars
  PROVE  Counted(j)'
  <1> USE RequestAssumption DEF Typed, memory, threads, bounds, EngineRecords, Counted
  <1>1. ASSUME NEW r \in Requests, Reserve(r) PROVE Counted(j)'
    BY <1>1 DEF Reserve, At, Goto
  <1>2. ASSUME NEW r \in Requests, Request(r) PROVE Counted(j)'
    BY <1>2 DEF Request, At, Goto, MayAsk, Refused, Return
  <1>3. ASSUME NEW r \in Requests, RequestOutrun(r) PROVE Counted(j)'
    BY <1>3 DEF RequestOutrun, At, Outrun, Refused, Return
  <1>4. ASSUME NEW r \in Requests, Receive(r) PROVE Counted(j)'
    BY <1>4 DEF Receive, At, Return
  <1>5. ASSUME NEW r \in Requests, Timeout(r) PROVE Counted(j)'
    BY <1>5 DEF Timeout, At, Goto
  <1>6. ASSUME NEW r \in Requests, Invalidate(r) PROVE Counted(j)'
    BY <1>6 DEF Invalidate, At, Goto
  <1>7. ASSUME NEW r \in Requests, InvalidateOutrun(r) PROVE Counted(j)'
    BY <1>7 DEF InvalidateOutrun, At, Outrun
  <1>8. ASSUME NEW r \in Requests, Lookup(r) PROVE Counted(j)'
    BY <1>8 DEF Lookup, At, Return
  <1>9. ASSUME NEW r \in Requests, Complete(r) PROVE Counted(j)'
    BY <1>9 DEF Complete, At
  <1>10. ASSUME NEW r \in Requests, TryRecv(r) PROVE Counted(j)'
    BY <1>10 DEF TryRecv, At, Return
  <1>11. ASSUME NEW r \in Requests, Cancel(r) PROVE Counted(j)'
    BY <1>11 DEF Cancel, At, Return
  <1>12. ASSUME NEW r \in Requests, Dropped(r) PROVE Counted(j)'
    BY <1>12 DEF Dropped, At
  <1>13. ASSUME NEW r \in Requests, Expire(r) PROVE Counted(j)'
    BY <1>13 DEF Expire
  <1>14. ASSUME NEW c \in Clients, NEW r \in Requests, NEW a \in Answers, Look(c, r, a)
        PROVE Counted(j)'
    BY <1>14 DEF Look, ClientAt
  <1>15. ASSUME NEW c \in Clients, Resolve(c) PROVE Counted(j)'
    BY <1>15 DEF Resolve, ClientAt, MayResolve, Req, Idle
  <1>16. ASSUME NEW c \in Clients, Forget(c) PROVE Counted(j)'
    BY <1>16 DEF Forget, ClientAt, Req
  <1>17. ASSUME NEW c \in Clients, Take(c) PROVE Counted(j)'
    BY <1>17 DEF Take, ClientAt, Req, Idle
  <1>18. ASSUME NEW c \in Clients, Send(c) PROVE Counted(j)'
    BY <1>18 DEF Send, ClientAt, Req, Idle
  <1>19. CASE Stop
    BY <1>19 DEF Stop, NoStop
  <1>20. CASE StopForget
    BY <1>20 DEF StopForget
  <1>21. CASE StopWake
    BY <1>21 DEF StopWake, NoStop
  <1>22. CASE Crash
    BY <1>22 DEF Crash, Idle, NoStop
  <1>23. CASE Recover
    BY <1>23 DEF Recover
  <1>24. CASE UNCHANGED vars
    BY <1>24 DEF vars
  <1> QED
    BY <1>1, <1>2, <1>3, <1>4, <1>5, <1>6, <1>7, <1>8, <1>9, <1>10, <1>11, <1>12, <1>13,
       <1>14, <1>15, <1>16, <1>17, <1>18, <1>19, <1>20, <1>21, <1>22, <1>23, <1>24 DEF Next,
       Engine, Answer

\* Only the committed outcome of a request is sent to its thread.
LEMMA StepSent ==
  ASSUME Typed, Open, Withdrew, NEW j \in Requests, Thread(j), Sent(j), \A c \in Clients :
         Answered(c), [Next]_vars
  PROVE  Sent(j)'
  <1> USE RequestAssumption DEF Typed, memory, threads, bounds, EngineRecords,
      ClientRecords, Targets, Requests, Open, Thread, Sent, Answered, Withdrew, Settled,
      Answers, Outcomes
  <1>1. ASSUME NEW r \in Requests, Reserve(r) PROVE Sent(j)'
    BY <1>1 DEF Reserve, At, Goto
  <1>2. ASSUME NEW r \in Requests, Request(r) PROVE Sent(j)'
    BY <1>2 DEF Request, At, Goto, MayAsk, Refused, Return
  <1>3. ASSUME NEW r \in Requests, RequestOutrun(r) PROVE Sent(j)'
    BY <1>3 DEF RequestOutrun, At, Outrun, Refused, Return
  <1>4. ASSUME NEW r \in Requests, Receive(r) PROVE Sent(j)'
    BY <1>4 DEF Receive, At, Return
  <1>5. ASSUME NEW r \in Requests, Timeout(r) PROVE Sent(j)'
    BY <1>5 DEF Timeout, At, Goto
  <1>6. ASSUME NEW r \in Requests, Invalidate(r) PROVE Sent(j)'
    BY <1>6 DEF Invalidate, At, Goto
  <1>7. ASSUME NEW r \in Requests, InvalidateOutrun(r) PROVE Sent(j)'
    BY <1>7 DEF InvalidateOutrun, At, Outrun
  <1>8. ASSUME NEW r \in Requests, Lookup(r) PROVE Sent(j)'
    BY <1>8 DEF Lookup, At, Return
  <1>9. ASSUME NEW r \in Requests, Complete(r) PROVE Sent(j)'
    BY <1>9 DEF Complete, At
  <1>10. ASSUME NEW r \in Requests, TryRecv(r) PROVE Sent(j)'
    BY <1>10 DEF TryRecv, At, Return
  <1>11. ASSUME NEW r \in Requests, Cancel(r) PROVE Sent(j)'
    BY <1>11 DEF Cancel, At, Return
  <1>12. ASSUME NEW r \in Requests, Dropped(r) PROVE Sent(j)'
    BY <1>12 DEF Dropped, At
  <1>13. ASSUME NEW r \in Requests, Expire(r) PROVE Sent(j)'
    BY <1>13 DEF Expire
  <1>14. ASSUME NEW c \in Clients, NEW r \in Requests, NEW a \in Answers, Look(c, r, a)
        PROVE Sent(j)'
    BY <1>14 DEF Look, ClientAt
  <1>15. ASSUME NEW c \in Clients, Resolve(c) PROVE Sent(j)'
    BY <1>15 DEF Resolve, ClientAt, MayResolve, Req, Idle
  <1>16. ASSUME NEW c \in Clients, Forget(c) PROVE Sent(j)'
    BY <1>16 DEF Forget, ClientAt, Req
  <1>17. ASSUME NEW c \in Clients, Take(c) PROVE Sent(j)'
    BY <1>17 DEF Take, ClientAt, Req, Idle
  <1>18. ASSUME NEW c \in Clients, Send(c) PROVE Sent(j)'
    BY <1>18 DEF Send, ClientAt, Req, Idle
  <1>19. CASE Stop
    BY <1>19 DEF Stop, NoStop
  <1>20. CASE StopForget
    BY <1>20 DEF StopForget
  <1>21. CASE StopWake
    BY <1>21 DEF StopWake, NoStop
  <1>22. CASE Crash
    BY <1>22 DEF Crash, Idle, NoStop
  <1>23. CASE Recover
    BY <1>23 DEF Recover
  <1>24. CASE UNCHANGED vars
    BY <1>24 DEF vars
  <1> QED
    BY <1>1, <1>2, <1>3, <1>4, <1>5, <1>6, <1>7, <1>8, <1>9, <1>10, <1>11, <1>12, <1>13,
       <1>14, <1>15, <1>16, <1>17, <1>18, <1>19, <1>20, <1>21, <1>22, <1>23, <1>24 DEF Next,
       Engine, Answer

\* The answer that a client hands over stays the durable one.
LEMMA StepAnswered ==
  ASSUME Typed, Open, \A j \in Requests : LogMove(j), NEW d \in Clients, Answered(d),
         [Next]_vars
  PROVE  Answered(d)'
  <1> USE RequestAssumption DEF Typed, memory, threads, bounds, ClientRecords, Targets,
      Requests, Open, Answered, LogMove, Settled, Answers
  <1>1. ASSUME NEW r \in Requests, Reserve(r) PROVE Answered(d)'
    BY <1>1 DEF Reserve, At, Goto
  <1>2. ASSUME NEW r \in Requests, Request(r) PROVE Answered(d)'
    BY <1>2 DEF Request, At, Goto, MayAsk, Refused, Return
  <1>3. ASSUME NEW r \in Requests, RequestOutrun(r) PROVE Answered(d)'
    BY <1>3 DEF RequestOutrun, At, Outrun, Refused, Return
  <1>4. ASSUME NEW r \in Requests, Receive(r) PROVE Answered(d)'
    BY <1>4 DEF Receive, At, Return
  <1>5. ASSUME NEW r \in Requests, Timeout(r) PROVE Answered(d)'
    BY <1>5 DEF Timeout, At, Goto
  <1>6. ASSUME NEW r \in Requests, Invalidate(r) PROVE Answered(d)'
    BY <1>6 DEF Invalidate, At, Goto
  <1>7. ASSUME NEW r \in Requests, InvalidateOutrun(r) PROVE Answered(d)'
    BY <1>7 DEF InvalidateOutrun, At, Outrun
  <1>8. ASSUME NEW r \in Requests, Lookup(r) PROVE Answered(d)'
    BY <1>8 DEF Lookup, At, Return
  <1>9. ASSUME NEW r \in Requests, Complete(r) PROVE Answered(d)'
    BY <1>9 DEF Complete, At
  <1>10. ASSUME NEW r \in Requests, TryRecv(r) PROVE Answered(d)'
    BY <1>10 DEF TryRecv, At, Return
  <1>11. ASSUME NEW r \in Requests, Cancel(r) PROVE Answered(d)'
    BY <1>11 DEF Cancel, At, Return
  <1>12. ASSUME NEW r \in Requests, Dropped(r) PROVE Answered(d)'
    BY <1>12 DEF Dropped, At
  <1>13. ASSUME NEW r \in Requests, Expire(r) PROVE Answered(d)'
    BY <1>13 DEF Expire
  <1>14. ASSUME NEW c \in Clients, NEW r \in Requests, NEW a \in Answers, Look(c, r, a)
        PROVE Answered(d)'
    BY <1>14 DEF Look, ClientAt
  <1>15. ASSUME NEW c \in Clients, Resolve(c) PROVE Answered(d)'
    BY <1>15 DEF Resolve, ClientAt, MayResolve, Req, Idle
  <1>16. ASSUME NEW c \in Clients, Forget(c) PROVE Answered(d)'
    BY <1>16 DEF Forget, ClientAt, Req
  <1>17. ASSUME NEW c \in Clients, Take(c) PROVE Answered(d)'
    BY <1>17 DEF Take, ClientAt, Req, Idle
  <1>18. ASSUME NEW c \in Clients, Send(c) PROVE Answered(d)'
    BY <1>18 DEF Send, ClientAt, Req, Idle
  <1>19. CASE Stop
    BY <1>19 DEF Stop, NoStop
  <1>20. CASE StopForget
    BY <1>20 DEF StopForget
  <1>21. CASE StopWake
    BY <1>21 DEF StopWake, NoStop
  <1>22. CASE Crash
    BY <1>22 DEF Crash, Idle, NoStop
  <1>23. CASE Recover
    BY <1>23 DEF Recover
  <1>24. CASE UNCHANGED vars
    BY <1>24 DEF vars
  <1> QED
    BY <1>1, <1>2, <1>3, <1>4, <1>5, <1>6, <1>7, <1>8, <1>9, <1>10, <1>11, <1>12, <1>13,
       <1>14, <1>15, <1>16, <1>17, <1>18, <1>19, <1>20, <1>21, <1>22, <1>23, <1>24 DEF Next,
       Engine, Answer

\* The request that a stop cleans up stays withdrawn.
LEMMA StepWithdrew ==
  ASSUME Typed, Open, \A j \in Requests : LogMove(j), Withdrew, [Next]_vars
  PROVE  Withdrew'
  <1> USE RequestAssumption DEF Typed, memory, threads, bounds, StopRecords, Targets,
      Requests, Open, Withdrew, LogMove, Settled, Answers
  <1>1. ASSUME NEW r \in Requests, Reserve(r) PROVE Withdrew'
    BY <1>1 DEF Reserve, At, Goto
  <1>2. ASSUME NEW r \in Requests, Request(r) PROVE Withdrew'
    BY <1>2 DEF Request, At, Goto, MayAsk, Refused, Return
  <1>3. ASSUME NEW r \in Requests, RequestOutrun(r) PROVE Withdrew'
    BY <1>3 DEF RequestOutrun, At, Outrun, Refused, Return
  <1>4. ASSUME NEW r \in Requests, Receive(r) PROVE Withdrew'
    BY <1>4 DEF Receive, At, Return
  <1>5. ASSUME NEW r \in Requests, Timeout(r) PROVE Withdrew'
    BY <1>5 DEF Timeout, At, Goto
  <1>6. ASSUME NEW r \in Requests, Invalidate(r) PROVE Withdrew'
    BY <1>6 DEF Invalidate, At, Goto
  <1>7. ASSUME NEW r \in Requests, InvalidateOutrun(r) PROVE Withdrew'
    BY <1>7 DEF InvalidateOutrun, At, Outrun
  <1>8. ASSUME NEW r \in Requests, Lookup(r) PROVE Withdrew'
    BY <1>8 DEF Lookup, At, Return
  <1>9. ASSUME NEW r \in Requests, Complete(r) PROVE Withdrew'
    BY <1>9 DEF Complete, At
  <1>10. ASSUME NEW r \in Requests, TryRecv(r) PROVE Withdrew'
    BY <1>10 DEF TryRecv, At, Return
  <1>11. ASSUME NEW r \in Requests, Cancel(r) PROVE Withdrew'
    BY <1>11 DEF Cancel, At, Return
  <1>12. ASSUME NEW r \in Requests, Dropped(r) PROVE Withdrew'
    BY <1>12 DEF Dropped, At
  <1>13. ASSUME NEW r \in Requests, Expire(r) PROVE Withdrew'
    BY <1>13 DEF Expire
  <1>14. ASSUME NEW c \in Clients, NEW r \in Requests, NEW a \in Answers, Look(c, r, a)
        PROVE Withdrew'
    BY <1>14 DEF Look, ClientAt
  <1>15. ASSUME NEW c \in Clients, Resolve(c) PROVE Withdrew'
    BY <1>15 DEF Resolve, ClientAt, MayResolve, Req, Idle
  <1>16. ASSUME NEW c \in Clients, Forget(c) PROVE Withdrew'
    BY <1>16 DEF Forget, ClientAt, Req
  <1>17. ASSUME NEW c \in Clients, Take(c) PROVE Withdrew'
    BY <1>17 DEF Take, ClientAt, Req, Idle
  <1>18. ASSUME NEW c \in Clients, Send(c) PROVE Withdrew'
    BY <1>18 DEF Send, ClientAt, Req, Idle
  <1>19. CASE Stop
    BY <1>19 DEF Stop, NoStop
  <1>20. CASE StopForget
    BY <1>20 DEF StopForget
  <1>21. CASE StopWake
    BY <1>21 DEF StopWake, NoStop
  <1>22. CASE Crash
    BY <1>22 DEF Crash, Idle, NoStop
  <1>23. CASE Recover
    BY <1>23 DEF Recover
  <1>24. CASE UNCHANGED vars
    BY <1>24 DEF vars
  <1> QED
    BY <1>1, <1>2, <1>3, <1>4, <1>5, <1>6, <1>7, <1>8, <1>9, <1>10, <1>11, <1>12, <1>13,
       <1>14, <1>15, <1>16, <1>17, <1>18, <1>19, <1>20, <1>21, <1>22, <1>23, <1>24 DEF Next,
       Engine, Answer

-----------------------------------------------------------------------------
(* The invariant *)

LEMMA InitInteractions == Init => InteractionInv
  <1> SUFFICES ASSUME Init PROVE InteractionInv
    OBVIOUS
  <1> USE Members, RequestAssumption DEF Init
  <1>1. [pc |-> "idle", heard |-> "none", tries |-> 0] \in EngineRecords
    BY DEF EngineRecords
  <1>2. engine \in [Requests -> EngineRecords] /\ client \in [Clients -> ClientRecords]
    BY <1>1, IdleTyped
  <1>3. up \in BOOLEAN
    BY Zenon
  <1>4. Typed
    BY <1>2, <1>3, IdleTyped DEF Typed
  <1>5. Open /\ Withdrew
    BY DEF Open, Withdrew, NoStop, Requests
  <1>6. \A r \in Requests : Thread(r) /\ Counted(r) /\ Sent(r)
    BY DEF Thread, Counted, Sent, Answers
  <1>7. \A c \in Clients : Answered(c)
    BY DEF Answered, Idle
  <1> QED
    BY <1>4, <1>5, <1>6, <1>7 DEF InteractionInv

LEMMA StepInteractions == InteractionInv /\ [Next]_vars => InteractionInv'
  <1> SUFFICES ASSUME InteractionInv, [Next]_vars PROVE InteractionInv'
    OBVIOUS
  <1>1. /\ Typed /\ Open /\ Withdrew
        /\ \A r \in Requests : Thread(r) /\ Counted(r) /\ Sent(r)
        /\ \A c \in Clients : Answered(c)
    BY DEF InteractionInv
  <1>2. Typed'
    BY <1>1, StepTyped
  <1>3. \A r \in Requests : LogMove(r)
    BY <1>1, LogMoves
  <1>4. ASSUME NEW r \in Requests
        PROVE  (log[r] = "asked" <=> pending = r)' /\ (Thread(r) /\ Counted(r) /\ Sent(r))'
    BY <1>1, StepOpen, StepThread, StepCounted, StepSent
  <1>5. Open'
    BY <1>4 DEF Open
  <1>6. Withdrew'
    BY <1>1, <1>3, StepWithdrew
  <1>7. ASSUME NEW c \in Clients PROVE Answered(c)'
    BY <1>1, <1>3, StepAnswered
  <1>8. (\A r \in Requests : Thread(r) /\ Counted(r) /\ Sent(r))'
    BY <1>4
  <1>9. (\A c \in Clients : Answered(c))'
    BY <1>7
  <1> QED
    BY <1>2, <1>5, <1>6, <1>8, <1>9 DEF InteractionInv

LEMMA InteractionInvariant == Spec => []InteractionInv
  BY InitInteractions, StepInteractions, PTL DEF Spec

\* The durable request, the maps of the brokers and their threads keep their types, and
\* no request is retried more often than the limit.
THEOREM TypeCorrect == Spec => []TypeOK
  <1>1. InteractionInv => TypeOK
    <2> SUFFICES ASSUME InteractionInv PROVE TypeOK
      OBVIOUS
    <2> USE RequestAssumption DEF InteractionInv, Typed
    <2>1. engine \in [Requests -> [pc : Pcs, heard : Replies, tries : 0..(Retries + 1)]]
      <3>1. ASSUME NEW r \in Requests
            PROVE  engine[r] \in [pc : Pcs, heard : Replies, tries : 0..(Retries + 1)]
        <4>1. engine[r] \in EngineRecords /\ engine[r].tries <= Retries + 1
          BY DEF Counted
        <4> QED
          BY <4>1 DEF EngineRecords
      <3> QED
        BY <3>1
    <2> QED
      BY <2>1 DEF TypeOK, Pcs, Replies, ClientPcs, Outcomes, Targets, ClientRecords, StopRecords
  <1> QED
    BY <1>1, InteractionInvariant, PTL

\* QuestionBroker::ask returns the answer that was committed, also when the answer and the
\* timeout cross: the lookup finds it, or the client's commit was refused as expired.
THEOREM AnswersHeard == Spec => []QuestionAnswerHeard
  <1>1. InteractionInv => QuestionAnswerHeard
    BY DEF InteractionInv, Thread, QuestionAnswerHeard, Requests
  <1> QED
    BY <1>1, InteractionInvariant, PTL

\* decide and ask leave their request pending only when every retry of the withdrawal
\* was outrun.
THEOREM NoneOrphaned == Spec => []NoOrphan
  <1>1. InteractionInv => NoOrphan
    BY DEF InteractionInv, Open, Thread, NoOrphan
  <1> QED
    BY <1>1, InteractionInvariant, PTL

-----------------------------------------------------------------------------
(* The contract of the brokers *)

\* A step that settles nothing and returns to no engine is a stuttering step.
LEMMA Stutters ==
  ASSUME UNCHANGED <<pending, log>>, \A r \in Requests : engine'[r].heard = engine[r].heard
  PROVE  UNCHANGED Contract!vars
  <1>1. Verdict' = Verdict
    BY DEF Verdict
  <1>2. Heard' = Heard
    BY DEF Heard
  <1> QED
    BY <1>1, <1>2 DEF Contract!vars

LEMMA Asks ==
  ASSUME Typed, NEW r \in Requests, log[r] = "none", engine[r].heard = "none",
         pending = NoRequest, pending' = r, log' = [log EXCEPT ![r] = "asked"],
         \A j \in Requests : engine'[j].heard = engine[j].heard
  PROVE  Contract!Next
  <1>1. Verdict' = Verdict /\ Verdict[r] = "none"
    BY DEF Verdict, Typed, Settled, Answers
  <1>2. Heard' = Heard /\ Heard[r] = "none"
    BY DEF Heard
  <1>3. Contract!Ask(r)
    BY <1>1, <1>2 DEF Contract!Ask
  <1> QED
    BY <1>3 DEF Contract!Next

LEMMA Settles ==
  ASSUME Typed, NEW r \in Requests, NEW v \in Settled, pending = r, pending' = NoRequest,
         log' = [log EXCEPT ![r] = v], \A j \in Requests : engine'[j].heard = engine[j].heard
  PROVE  Contract!Next
  <1>1. Verdict' = [Verdict EXCEPT ![r] = v]
    BY DEF Verdict, Typed
  <1>2. Heard' = Heard
    BY DEF Heard
  <1>3. Contract!Settle(r, v)
    BY <1>1, <1>2 DEF Contract!Settle
  <1> QED
    BY <1>3 DEF Contract!Next, Settled, Answers

LEMMA Hears ==
  ASSUME Typed, NEW r \in Requests, NEW h \in Answers, Return(r, h), engine[r].heard = "none",
         h = "yes" => log[r] = "yes", UNCHANGED <<pending, log>>
  PROVE  Contract!Next
  <1>1. Verdict' = Verdict /\ (h = "yes" => Verdict[r] = "yes")
    BY DEF Verdict, Settled, Answers
  <1>2. Heard' = [Heard EXCEPT ![r] = h] /\ Heard[r] = "none"
    BY DEF Heard, Return, Typed, EngineRecords
  <1>3. Contract!Hear(r, h)
    BY <1>1, <1>2 DEF Contract!Hear
  <1> QED
    BY <1>3 DEF Contract!Next, Answers

\* Every step of the brokers is a step of their contract, or leaves it alone.
LEMMA StepContract ==
  ASSUME InteractionInv, [Next]_vars
  PROVE  Contract!Next \/ UNCHANGED Contract!vars
  <1> USE DEF InteractionInv, Typed, memory, threads, bounds
  <1>1. ASSUME NEW r \in Requests, Reserve(r) PROVE Contract!Next \/ UNCHANGED Contract!vars
    BY <1>1, Stutters DEF Reserve, Goto, EngineRecords
  <1>2. ASSUME NEW r \in Requests, Request(r) PROVE Contract!Next \/ UNCHANGED Contract!vars
    <2>1. CASE Refused(r)
      <3>1. Return(r, "no") /\ UNCHANGED <<pending, log>> /\ engine[r].heard = "none"
        BY <1>2, <2>1 DEF Request, At, Refused, Thread
      <3> QED
        BY <3>1, Hears DEF Answers
    <2>2. CASE ~Refused(r)
      <3>1. /\ pending = NoRequest /\ pending' = r /\ log' = [log EXCEPT ![r] = "asked"]
            /\ log[r] = "none" /\ engine[r].heard = "none" /\ Goto(r, "waiting")
        BY <1>2, <2>2 DEF Request, MayAsk, At, Thread
      <3>2. \A j \in Requests : engine'[j].heard = engine[j].heard
        BY <3>1 DEF Goto, EngineRecords
      <3> QED
        BY <3>1, <3>2, Asks
    <2> QED
      BY <2>1, <2>2
  <1>3. ASSUME NEW r \in Requests, RequestOutrun(r) PROVE Contract!Next \/ UNCHANGED
        Contract!vars
    <2>1. CASE Refused(r)
      <3>1. Return(r, "no") /\ UNCHANGED <<pending, log>> /\ engine[r].heard = "none"
        BY <1>3, <2>1 DEF RequestOutrun, At, Refused, Thread
      <3> QED
        BY <3>1, Hears DEF Answers
    <2>2. CASE ~Refused(r)
      BY <1>3, <2>2, Stutters DEF RequestOutrun, EngineRecords
    <2> QED
      BY <2>1, <2>2
  <1>4. ASSUME NEW r \in Requests, Receive(r) PROVE Contract!Next \/ UNCHANGED Contract!vars
    <2>1. Return(r, channel[r]) /\ UNCHANGED <<pending, log>> /\ engine[r].heard = "none"
      BY <1>4 DEF Receive, At, Refused, Thread
    <2>2. channel[r] \in Answers /\ (channel[r] = "yes" => log[r] = "yes")
      BY <1>4 DEF Receive, At, Sent, Thread, Answers
    <2> QED
      BY <2>1, <2>2, Hears
  <1>5. ASSUME NEW r \in Requests, Timeout(r) PROVE Contract!Next \/ UNCHANGED Contract!vars
    BY <1>5, Stutters DEF Timeout, Goto, EngineRecords
  <1>6. ASSUME NEW r \in Requests, Invalidate(r) PROVE Contract!Next \/ UNCHANGED
        Contract!vars
    <2>1. \A j \in Requests : engine'[j].heard = engine[j].heard
      BY <1>6 DEF Invalidate, Goto, EngineRecords
    <2>2. CASE pending = r
      BY <1>6, <2>1, <2>2, Settles DEF Invalidate, Settled
    <2>3. CASE pending # r
      BY <1>6, <2>1, <2>3, Stutters DEF Invalidate
    <2> QED
      BY <2>2, <2>3
  <1>7. ASSUME NEW r \in Requests, InvalidateOutrun(r) PROVE Contract!Next \/ UNCHANGED
        Contract!vars
    BY <1>7, Stutters DEF InvalidateOutrun, EngineRecords
  <1>8. ASSUME NEW r \in Requests, Lookup(r) PROVE Contract!Next \/ UNCHANGED Contract!vars
    <2>1. CASE Return(r, log[r]) /\ log[r] \in Answers
      <3>1. UNCHANGED <<pending, log>> /\ engine[r].heard = "none"
        BY <1>8 DEF Lookup, At, Thread
      <3> QED
        BY <2>1, <3>1, Hears
    <2>2. CASE ~(Return(r, log[r]) /\ log[r] \in Answers)
      BY <1>8, <2>2, Stutters DEF Lookup, EngineRecords
    <2> QED
      BY <2>1, <2>2
  <1>9. ASSUME NEW r \in Requests, Complete(r) PROVE Contract!Next \/ UNCHANGED
        Contract!vars
    BY <1>9, Stutters DEF Complete, EngineRecords
  <1>10. ASSUME NEW r \in Requests, TryRecv(r) PROVE Contract!Next \/ UNCHANGED
        Contract!vars
    <2> DEFINE h == IF channel[r] = "empty" THEN "no" ELSE channel[r]
    <2>1. Return(r, h) /\ UNCHANGED <<pending, log>> /\ engine[r].heard = "none"
      BY <1>10 DEF TryRecv, At, Thread
    <2>2. h \in Answers /\ (h = "yes" => log[r] = "yes")
      BY DEF Sent, Answers
    <2> HIDE DEF h
    <2> QED
      BY <2>1, <2>2, Hears
  <1>11. ASSUME NEW r \in Requests, Cancel(r) PROVE Contract!Next \/ UNCHANGED Contract!vars
    <2>1. Return(r, "no") /\ UNCHANGED <<pending, log>> /\ engine[r].heard = "none"
      BY <1>11 DEF Cancel, At, Refused, Thread
    <2>2. "no" \in Answers /\ ("no" = "yes" => log[r] = "yes")
      BY <1>11 DEF Cancel, At, Sent, Thread, Answers
    <2> QED
      BY <2>1, <2>2, Hears
  <1>12. ASSUME NEW r \in Requests, Dropped(r) PROVE Contract!Next \/ UNCHANGED
        Contract!vars
    BY <1>12, Stutters DEF Dropped, EngineRecords
  <1>13. ASSUME NEW r \in Requests, Expire(r) PROVE Contract!Next \/ UNCHANGED Contract!vars
    BY <1>13, Stutters DEF Expire, threads
  <1>14. ASSUME NEW c \in Clients, NEW r \in Requests, NEW a \in Answers, Look(c, r, a)
        PROVE Contract!Next \/ UNCHANGED Contract!vars
    BY <1>14, Stutters DEF Look, threads
  <1>15. ASSUME NEW c \in Clients, Resolve(c) PROVE Contract!Next \/ UNCHANGED Contract!vars
    <2>1. \A j \in Requests : engine'[j].heard = engine[j].heard
      BY <1>15 DEF Resolve
    <2>2. CASE UNCHANGED <<pending, log>>
      BY <2>1, <2>2, Stutters
    <2>3. CASE ~UNCHANGED <<pending, log>>
      <3>1. /\ pending = Req(c) /\ pending' = NoRequest /\ Req(c) \in Requests
            /\ log' = [log EXCEPT ![Req(c)] = client[c].answer] /\ client[c].answer \in Settled
        BY <1>15, <2>3 DEF Resolve, MayResolve, ClientAt, Req, Answered, ClientRecords, Settled
      <3> QED
        BY <2>1, <3>1, Settles
    <2> QED
      BY <2>2, <2>3
  <1>16. ASSUME NEW c \in Clients, Forget(c) PROVE Contract!Next \/ UNCHANGED Contract!vars
    BY <1>16, Stutters DEF Forget, threads
  <1>17. ASSUME NEW c \in Clients, Take(c) PROVE Contract!Next \/ UNCHANGED Contract!vars
    BY <1>17, Stutters DEF Take, threads
  <1>18. ASSUME NEW c \in Clients, Send(c) PROVE Contract!Next \/ UNCHANGED Contract!vars
    BY <1>18, Stutters DEF Send, threads
  <1>19. CASE Stop
    <2>1. \A j \in Requests : engine'[j].heard = engine[j].heard
      BY <1>19 DEF Stop, threads
    <2>2. /\ pending' = NoRequest
          /\ log' = [j \in Requests |-> IF j = pending THEN "withdrawn" ELSE log[j]]
      BY <1>19 DEF Stop
    <2>3. CASE pending = NoRequest
      <3>1. NoRequest \notin Requests
        BY RequestAssumption DEF Requests
      <3>2. log' = log
        BY <2>2, <2>3, <3>1
      <3> QED
        BY <2>1, <2>2, <2>3, <3>2, Stutters
    <2>4. CASE pending # NoRequest
      <3>1. pending \in Requests
        BY <2>4 DEF Targets
      <3>2. log' = [log EXCEPT ![pending] = "withdrawn"]
        BY <2>2
      <3> QED
        BY <2>1, <2>2, <3>1, <3>2, Settles DEF Settled
    <2> QED
      BY <2>3, <2>4
  <1>20. CASE StopForget
    BY <1>20, Stutters DEF StopForget, threads
  <1>21. CASE StopWake
    BY <1>21, Stutters DEF StopWake, threads
  <1>22. CASE Crash
    BY <1>22, Stutters DEF Crash, EngineRecords
  <1>23. CASE Recover
    <2>1. \A j \in Requests : engine'[j].heard = engine[j].heard
      BY <1>23 DEF Recover, threads
    <2>2. /\ pending' = NoRequest
          /\ log' = [j \in Requests |-> IF j = pending THEN "withdrawn" ELSE log[j]]
      BY <1>23 DEF Recover
    <2>3. CASE pending = NoRequest
      <3>1. NoRequest \notin Requests
        BY RequestAssumption DEF Requests
      <3>2. log' = log
        BY <2>2, <2>3, <3>1
      <3> QED
        BY <2>1, <2>2, <2>3, <3>2, Stutters
    <2>4. CASE pending # NoRequest
      <3>1. pending \in Requests
        BY <2>4 DEF Targets
      <3>2. log' = [log EXCEPT ![pending] = "withdrawn"]
        BY <2>2
      <3> QED
        BY <2>1, <2>2, <3>1, <3>2, Settles DEF Settled
    <2> QED
      BY <2>3, <2>4
  <1>24. CASE UNCHANGED vars
    BY <1>24, Stutters DEF vars
  <1> QED
    BY <1>1, <1>2, <1>3, <1>4, <1>5, <1>6, <1>7, <1>8, <1>9, <1>10, <1>11, <1>12, <1>13,
       <1>14, <1>15, <1>16, <1>17, <1>18, <1>19, <1>20, <1>21, <1>22, <1>23, <1>24 DEF Next,
       Engine, Answer

\* The brokers implement InteractionContract: at most one request is open, each is settled
\* once, and an engine hears an approval only if that is the durable outcome.
THEOREM KeepContract == Spec => Implements
  <1>1. Init => Contract!Init
    BY DEF Init, Contract!Init, Verdict, Heard, Settled, Answers
  <1>2. InteractionInv /\ [Next]_vars => [Contract!Next]_(Contract!vars)
    BY StepContract
  <1> QED
    BY <1>1, <1>2, InteractionInvariant, PTL DEF Spec, Implements, Contract!Spec

=============================================================================
