--------------------------- MODULE EngineTurnProofs ---------------------------
(***************************************************************************)
(* Theorems about the engine's run, for any number of iterations, tool     *)
(* calls and calls in an answer.                                           *)
(***************************************************************************)
EXTENDS EngineTurn, FiniteSetTheorems, TLAPS

Outcomes == {"none", "safe_point", "forced", "timed_out"}
EndReasons == {"completed", "cancelled", "interrupted", "max_iterations", "budget", "error"}
WithTools == {"authorize", "dispatch", "tool", "grace", "draining", "results"}

\* Types; a batch is worked on only if another request can show its results.
Typed ==
  /\ TypeOK
  /\ ending \in [reason : EndReasons \cup {"none"}, outcome : Outcomes]
  /\ ended \in EndReasons \cup {"none"}
  /\ pc \in WithTools => iterations + 1 < MaxIterations

\* The stop that an outcome answers was requested.
Warranted(o) ==
  /\ o = "safe_point" => control # "continue"
  /\ o \in {"forced", "timed_out"} => control = "force"

\* Whatever the engine remembers of a stop was requested, and nothing of the end
\* is visible before append_run_end.
Ends ==
  /\ pc = "ending" => /\ ending.reason # "none"
                      /\ ending.outcome # "none" => ending.reason = "interrupted"
  /\ pc \notin {"cleanup", "done"} => ended = "none" /\ outcome = "none"
  /\ Warranted(ending.outcome)
  /\ after = "yield" => control # "continue"
  /\ after = "force" \/ pc = "grace" \/ indeterminate # {} => control = "force"

\* Where the calls of the answer are while the engine is at its own place.
Stages ==
  /\ \A c \in Calls : c > batch => tool[c] = "none"
  /\ \A c \in Calls : results[c] = IF tool[c] \in {"denied", "returned"} THEN 1 ELSE 0
  /\ pc = "answer" => \A c \in Calls : tool[c] = "none"
  /\ pc = "authorize" => \A c \in Calls : tool[c] \in {"none", "authorized", "denied"}
  /\ pc = "dispatch" => \A c \in 1..batch : tool[c] \in {"authorized", "denied", "returned"}
  /\ Executing => /\ \A c \in 1..batch : tool[c] \notin {"none", "dropped"}
                  /\ ~controlled => \A c \in Calls : tool[c] # "authorized"
  /\ pc = "results" =>
       /\ \A c \in 1..batch : tool[c] \in {"authorized", "denied", "returned", "dropped"}
       /\ \A c \in 1..batch : tool[c] = "dropped" => c \in indeterminate
       /\ after = "continue" => \A c \in 1..batch : tool[c] # "authorized"
  /\ pc \in {"top", "infer", "stream"} =>
       /\ \A c \in 1..batch : tool[c] \in {"denied", "returned"}
       /\ reported = 1..batch

\* With a run control one tool is under way at a time, and after a stop none is
\* about to begin.
Stops ==
  /\ control # "continue" => controlled
  /\ controlled => \A c, d \in Calls : tool[c] = "started" /\ tool[d] = "started" => c = d
  /\ late > 0 => control # "continue" /\ \A c \in Calls : tool[c] # "started"
  /\ late <= 1

Accounted(o) ==
  \A c \in 1..batch : tool[c] \notin {"none", "authorized", "denied"} =>
    c \in reported \/ (o = "timed_out" /\ c \in indeterminate)

\* An outcome accounts for the tools when it is chosen, and they do not move after.
Accounts ==
  /\ pc = "ending" /\ ending.outcome # "none" => Accounted(ending.outcome)
  /\ outcome # "none" => Accounted(outcome)

EngineInv == Typed /\ Ends /\ Stages /\ Stops /\ Accounts

-----------------------------------------------------------------------------
(* Steps *)

\* The first of the calls that are ready exists.
LEMMA FirstExists ==
  ASSUME NEW n \in Nat, NEW S, S \subseteq 1..n, S # {}
  PROVE  \E c \in S : \A d \in S : c <= d
  <1> DEFINE Below == {1..c : c \in S}
  <1>1. IsFiniteSet(1..n)
    BY FS_Interval
  <1>2. Below \subseteq FiniteSubsetsOf(1..n) /\ Below # {}
    <2>1. \A c \in S : 1..c \subseteq 1..n /\ IsFiniteSet(1..c)
      BY FS_Interval
    <2> QED
      BY <2>1 DEF FiniteSubsetsOf
  <1>3. IsWellFoundedOn(StrictSubsetOrdering(1..n), FiniteSubsetsOf(1..n))
    BY <1>1, FS_StrictSubsetOrderingWellFounded
  <1>4. PICK X \in Below : \A Y \in Below : <<Y, X>> \notin StrictSubsetOrdering(1..n)
    <2> HIDE DEF Below
    <2> QED BY <1>2, <1>3, WFMin
  <1>5. PICK c \in S : X = 1..c
    OBVIOUS
  <1>6. ASSUME NEW d \in S, d < c
        PROVE  FALSE
    <2>1. 1..d \subseteq 1..c /\ c \in 1..c /\ c \notin 1..d
      BY <1>6
    <2>2. <<1..d, 1..c>> \in StrictSubsetOrdering(1..n)
      BY <2>1 DEF StrictSubsetOrdering
    <2> QED
      BY <1>4, <1>5, <2>2
  <1> QED
    BY <1>6

LEMMA InitEngine == Init => EngineInv
  <1> SUFFICES ASSUME Init PROVE EngineInv
    OBVIOUS
  <1>1. /\ controlled \in BOOLEAN /\ cancelled \in BOOLEAN /\ spent \in BOOLEAN
        /\ retried \in BOOLEAN /\ interrupt \in BOOLEAN
    BY Zenon DEF Init
  <1> QED
  BY <1>1, EngineConstants
     DEF Init, EngineInv, Typed, TypeOK, Ends, Stages, Stops, Accounts, Warranted, Accounted,
         Calls, NoTools, NoResults, NoEnding, Outcomes, EndReasons, WithTools, Pcs, ToolStates,
         Executing

\* Types are kept.
LEMMA StepTyped ==
  ASSUME Typed, [Next]_vars
  PROVE  Typed'
  <1> USE EngineConstants DEF Calls, requests, final, limits, work, Typed, TypeOK,
        WithTools, Pcs, ToolStates, Outcomes, EndReasons
  <1>1. CASE Request
    BY <1>1 DEF Request
  <1>2. CASE Cancel
    BY <1>2 DEF Cancel
  <1>3. CASE Spend
    BY <1>3 DEF Spend
  <1>4. CASE Infer
    <2>1. retried' \in BOOLEAN
      BY <1>4, Zenon DEF Infer
    <2> QED
      BY <1>4, <2>1 DEF Infer, End
  <1>5. CASE StreamEvent
    BY <1>5 DEF StreamEvent, End, Decision, OutcomeOf
  <1>6. CASE StreamEnds
    <2>1. batch' \in 0..MaxBatch /\ pc' = "answer"
      BY <1>6 DEF StreamEnds
    <2>2. tool' \in [Calls -> ToolStates] /\ results' \in [Calls -> Nat]
      BY <1>6 DEF StreamEnds, NoTools, NoResults
    <2>3. reported' \subseteq Calls /\ indeterminate' \subseteq Calls
      BY <1>6 DEF StreamEnds
    <2>4. interrupt' \in BOOLEAN /\ retried' \in BOOLEAN
      BY <1>6, Zenon DEF StreamEnds
    <2> QED
      BY <1>6, <2>1, <2>2, <2>3, <2>4 DEF StreamEnds
  <1>7. CASE LoopHead
    BY <1>7 DEF LoopHead, End, BudgetExhausted, Decision, OutcomeOf
  <1>8. CASE InferInterrupted
    BY <1>8 DEF InferInterrupted, Interruptible, Interrupted, End
  <1>9. CASE Answer
    BY <1>9 DEF Answer, End, BudgetExhausted, GraceCall
  <1>10. CASE Authorize
    <2>1. CASE InState({"none"}) = {} /\ pc' = "dispatch" /\ UNCHANGED <<tool, results>>
      BY <1>10, <2>1 DEF Authorize
    <2>2. ASSUME NEW c \in First(InState({"none"})), pc' = pc,
                 \/ tool' = [tool EXCEPT ![c] = "authorized"] /\ UNCHANGED results
                 \/ tool' = [tool EXCEPT ![c] = "denied"] /\ results' = AnswerDenied(c)
          PROVE  Typed'
      <3>1. tool' \in [Calls -> ToolStates] /\ results' \in [Calls -> Nat]
        BY <2>2 DEF AnswerDenied, First, InState
      <3> QED
        BY <1>10, <2>2, <3>1 DEF Authorize
    <2> QED
      BY <1>10, <2>1, <2>2 DEF Authorize
  <1>11. CASE Dispatch
    BY <1>11 DEF Dispatch, InState, First, Decision
  <1>12. CASE DispatchReturns
    BY <1>12 DEF DispatchReturns, Collect, Unfinished, InState, Decision
  <1>13. CASE ToolsInterrupted
    BY <1>13 DEF ToolsInterrupted
  <1>14. CASE GraceEnds
    BY <1>14 DEF GraceEnds, Collect, Indeterminate, Unfinished, InState
  <1>15. CASE DrainEnds
    BY <1>15 DEF DrainEnds, Dropped, End
  <1>16. CASE Results
    BY <1>16 DEF Results, End, BudgetExhausted, OutcomeOf
  <1>17. CASE AppendRunEnd
    BY <1>17 DEF AppendRunEnd, NoEnding
  <1>18. CASE Return
    BY <1>18 DEF Return
  <1>19. CASE Fails
    BY <1>19 DEF Fails, Dropped, NoEnding
  <1>20. ASSUME NEW c \in Calls, ToolBegins(c) PROVE Typed'
    BY <1>20 DEF ToolBegins
  <1>21. ASSUME NEW c \in Calls, ToolEnds(c) PROVE Typed'
    <2>1. interrupt' \in BOOLEAN
      BY <1>21, Zenon DEF ToolEnds
    <2> QED
      BY <1>21, <2>1 DEF ToolEnds
  <1>22. CASE UNCHANGED vars
    BY <1>22 DEF vars
  <1> QED
    BY <1>1, <1>2, <1>3, <1>4, <1>5, <1>6, <1>7, <1>8, <1>9, <1>10, <1>11, <1>12, <1>13,
       <1>14, <1>15, <1>16, <1>17, <1>18, <1>19, <1>20, <1>21, <1>22 DEF Next, Engine

\* A stop that is remembered stays requested: the control only rises.
LEMMA StepEnds ==
  ASSUME Typed, Ends, [Next]_vars
  PROVE  Ends'
  <1> USE EngineConstants DEF Calls, requests, final, limits, work, Typed, TypeOK, Ends,
        Warranted, EndReasons, Outcomes
  <1>1. CASE Request
    BY <1>1 DEF Request
  <1>2. CASE Cancel
    BY <1>2 DEF Cancel
  <1>3. CASE Spend
    BY <1>3 DEF Spend
  <1>4. CASE Infer
    BY <1>4 DEF Infer, End
  <1>5. CASE StreamEvent
    BY <1>5 DEF StreamEvent, End, Decision, OutcomeOf
  <1>6. CASE StreamEnds
    BY <1>6 DEF StreamEnds, NoTools, NoResults
  <1>7. CASE LoopHead
    BY <1>7 DEF LoopHead, End, BudgetExhausted, Decision, OutcomeOf
  <1>8. CASE InferInterrupted
    BY <1>8 DEF InferInterrupted, Interruptible, Interrupted, End
  <1>9. CASE Answer
    BY <1>9 DEF Answer, End, BudgetExhausted, GraceCall
  <1>10. CASE Authorize
    BY <1>10 DEF Authorize, InState, First, AnswerDenied
  <1>11. CASE Dispatch
    BY <1>11 DEF Dispatch, InState, First, Decision
  <1>12. CASE DispatchReturns
    BY <1>12 DEF DispatchReturns, Collect, Unfinished, InState, Decision
  <1>13. CASE ToolsInterrupted
    BY <1>13 DEF ToolsInterrupted
  <1>14. CASE GraceEnds
    BY <1>14 DEF GraceEnds, Collect, Indeterminate, Unfinished, InState
  <1>15. CASE DrainEnds
    BY <1>15 DEF DrainEnds, Dropped, End
  <1>16. CASE Results
    BY <1>16 DEF Results, End, BudgetExhausted, OutcomeOf
  <1>17. CASE AppendRunEnd
    BY <1>17 DEF AppendRunEnd, NoEnding
  <1>18. CASE Return
    BY <1>18 DEF Return
  <1>19. CASE Fails
    BY <1>19 DEF Fails, Dropped, NoEnding
  <1>20. ASSUME NEW c \in Calls, ToolBegins(c) PROVE Ends'
    BY <1>20 DEF ToolBegins
  <1>21. ASSUME NEW c \in Calls, ToolEnds(c) PROVE Ends'
    BY <1>21 DEF ToolEnds
  <1>22. CASE UNCHANGED vars
    BY <1>22 DEF vars
  <1> QED
    BY <1>1, <1>2, <1>3, <1>4, <1>5, <1>6, <1>7, <1>8, <1>9, <1>10, <1>11, <1>12, <1>13,
       <1>14, <1>15, <1>16, <1>17, <1>18, <1>19, <1>20, <1>21, <1>22 DEF Next, Engine

\* Calls move with the engine.
LEMMA StepStages ==
  ASSUME Typed, Ends, Stages, [Next]_vars
  PROVE  Stages'
  <1> USE EngineConstants DEF Calls, requests, final, limits, work, Typed, TypeOK, Stages,
        Executing, ToolStates, Pcs
  <1>1. CASE Request
    BY <1>1 DEF Request
  <1>2. CASE Cancel
    BY <1>2 DEF Cancel
  <1>3. CASE Spend
    BY <1>3 DEF Spend
  <1>4. CASE Infer
    BY <1>4 DEF Infer, End
  <1>5. CASE StreamEvent
    BY <1>5 DEF StreamEvent, End, Decision, OutcomeOf
  <1>6. CASE StreamEnds
    BY <1>6 DEF StreamEnds, NoTools, NoResults
  <1>7. CASE LoopHead
    BY <1>7 DEF LoopHead, End, BudgetExhausted, Decision, OutcomeOf
  <1>8. CASE InferInterrupted
    BY <1>8 DEF InferInterrupted, Interruptible, Interrupted, End
  <1>9. CASE Answer
    BY <1>9 DEF Answer, End, BudgetExhausted, GraceCall
  <1>10. CASE Authorize
    <2>1. CASE InState({"none"}) = {} /\ pc' = "dispatch" /\ UNCHANGED <<tool, results>>
      BY <1>10, <2>1 DEF Authorize, InState
    <2>2. ASSUME NEW c \in First(InState({"none"})), pc' = pc,
                 \/ tool' = [tool EXCEPT ![c] = "authorized"] /\ UNCHANGED results
                 \/ tool' = [tool EXCEPT ![c] = "denied"] /\ results' = AnswerDenied(c)
          PROVE  Stages'
      <3>1. c \in 1..batch /\ c \in Calls /\ tool[c] = "none" /\ pc = "authorize"
        BY <1>10, <2>2 DEF First, InState, Authorize
      <3>2. \A d \in Calls : /\ tool'[d] \in {"none", "authorized", "denied"}
                              /\ d > batch => tool'[d] = "none"
        BY <2>2, <3>1
      <3>3. \A d \in Calls : results'[d] = IF tool'[d] \in {"denied", "returned"} THEN 1 ELSE 0
        BY <2>2, <3>1 DEF AnswerDenied
      <3> QED
        BY <1>10, <2>2, <3>1, <3>2, <3>3 DEF Authorize
    <2> QED
      BY <1>10, <2>1, <2>2 DEF Authorize
  <1>11. CASE Dispatch
    <2> DEFINE ready == InState({"authorized"})
               next == IF controlled THEN First(ready) ELSE ready
               stopped == controlled /\ ready # {} /\ Decision # "continue"
    <2>1. next \subseteq ready /\ ready \subseteq 1..batch
      BY DEF First, InState
    <2>2. \A d \in 1..batch : d \in ready <=> tool[d] = "authorized"
      BY DEF InState
    <2>3. CASE stopped
      BY <1>11, <2>3 DEF Dispatch, Decision
    <2>4. CASE ~stopped /\ next = {}
      <3>1. ready = {}
        <4>1. ready # {} => First(ready) # {}
          BY <2>1, FirstExists DEF First
        <4> QED
          BY <2>4, <4>1
      <3>2. pc' = "results" /\ tool' = tool
        BY <1>11, <2>4 DEF Dispatch
      <3> QED
        BY <1>11, <2>2, <3>1, <3>2 DEF Dispatch
    <2>5. CASE ~stopped /\ next # {}
      <3>1. pc' = "tool" /\ tool' = [c \in Calls |-> IF c \in next THEN "started" ELSE tool[c]]
        BY <1>11, <2>5 DEF Dispatch
      <3> HIDE DEF next, ready
      <3>2. \A c \in Calls : tool'[c] = IF c \in next THEN "started" ELSE tool[c]
        BY <3>1
      <3>3. ~controlled => next = ready
        BY DEF next
      <3> QED
        BY <1>11, <2>1, <2>2, <3>1, <3>2, <3>3 DEF Dispatch
    <2> QED
      BY <2>3, <2>4, <2>5
  <1>12. CASE DispatchReturns
    BY <1>12 DEF DispatchReturns, Collect, Unfinished, InState, Decision
  <1>13. CASE ToolsInterrupted
    BY <1>13 DEF ToolsInterrupted
  <1>14. CASE GraceEnds
    BY <1>14 DEF GraceEnds, Collect, Indeterminate, Unfinished, InState
  <1>15. CASE DrainEnds
    BY <1>15 DEF DrainEnds, Dropped, End
  <1>16. CASE Results
    BY <1>16 DEF Results, End, BudgetExhausted, OutcomeOf
  <1>17. CASE AppendRunEnd
    BY <1>17 DEF AppendRunEnd, NoEnding
  <1>18. CASE Return
    BY <1>18 DEF Return
  <1>19. CASE Fails
    BY <1>19 DEF Fails, Dropped, NoEnding
  <1>20. ASSUME NEW c \in Calls, ToolBegins(c) PROVE Stages'
    BY <1>20 DEF ToolBegins
  <1>21. ASSUME NEW c \in Calls, ToolEnds(c) PROVE Stages'
    BY <1>21 DEF ToolEnds
  <1>22. CASE UNCHANGED vars
    BY <1>22 DEF vars
  <1> QED
    BY <1>1, <1>2, <1>3, <1>4, <1>5, <1>6, <1>7, <1>8, <1>9, <1>10, <1>11, <1>12, <1>13,
       <1>14, <1>15, <1>16, <1>17, <1>18, <1>19, <1>20, <1>21, <1>22 DEF Next, Engine

\* A tool begins after a stop only if its start was under way.
LEMMA StepStops ==
  ASSUME Typed, Stages, Stops, [Next]_vars
  PROVE  Stops'
  <1> USE EngineConstants DEF Calls, requests, final, limits, work, Typed, TypeOK, Stages,
        Stops, Executing, ToolStates, Pcs
  <1>1. CASE Request
    BY <1>1 DEF Request
  <1>2. CASE Cancel
    BY <1>2 DEF Cancel
  <1>3. CASE Spend
    BY <1>3 DEF Spend
  <1>4. CASE Infer
    BY <1>4 DEF Infer, End
  <1>5. CASE StreamEvent
    BY <1>5 DEF StreamEvent, End, Decision, OutcomeOf
  <1>6. CASE StreamEnds
    BY <1>6 DEF StreamEnds, NoTools, NoResults
  <1>7. CASE LoopHead
    BY <1>7 DEF LoopHead, End, BudgetExhausted, Decision, OutcomeOf
  <1>8. CASE InferInterrupted
    BY <1>8 DEF InferInterrupted, Interruptible, Interrupted, End
  <1>9. CASE Answer
    BY <1>9 DEF Answer, End, BudgetExhausted, GraceCall
  <1>10. CASE Authorize
    BY <1>10 DEF Authorize, InState, First, AnswerDenied
  <1>11. CASE Dispatch
    <2> DEFINE ready == InState({"authorized"})
               next == IF controlled THEN First(ready) ELSE ready
               stopped == controlled /\ ready # {} /\ Decision # "continue"
    <2>1. \A d \in Calls : tool[d] # "started"
      BY <1>11 DEF Dispatch
    <2>2. tool' = tool \/ (~stopped /\ ready # {} /\
            tool' = [c \in Calls |-> IF c \in next THEN "started" ELSE tool[c]])
      <3>1. CASE stopped
        BY <1>11, <3>1 DEF Dispatch
      <3>2. CASE ~stopped /\ ready # {}
        BY <1>11, <3>2 DEF Dispatch
      <3>3. CASE ready = {}
        <4>1. next = {}
          BY <3>3 DEF First
        <4> QED
          BY <1>11, <3>3, <4>1 DEF Dispatch
      <3> QED
        BY <3>1, <3>2, <3>3
    <2>3. controlled => \A c, d \in next : c = d
      BY DEF First, InState
    <2>4. UNCHANGED <<control, controlled, late>>
      BY <1>11 DEF Dispatch
    <2>5. CASE tool' = tool
      BY <2>4, <2>5
    <2>6. CASE ~stopped /\ ready # {} /\
               tool' = [c \in Calls |-> IF c \in next THEN "started" ELSE tool[c]]
      <3>1. controlled => control = "continue"
        BY <2>6 DEF Decision
      <3> HIDE DEF next, ready
      <3> QED
        BY <2>1, <2>3, <2>4, <2>6, <3>1
    <2> QED
      BY <2>2, <2>5, <2>6
  <1>12. CASE DispatchReturns
    BY <1>12 DEF DispatchReturns, Collect, Unfinished, InState, Decision
  <1>13. CASE ToolsInterrupted
    BY <1>13 DEF ToolsInterrupted
  <1>14. CASE GraceEnds
    BY <1>14 DEF GraceEnds, Collect, Indeterminate, Unfinished, InState
  <1>15. CASE DrainEnds
    BY <1>15 DEF DrainEnds, Dropped, End
  <1>16. CASE Results
    BY <1>16 DEF Results, End, BudgetExhausted, OutcomeOf
  <1>17. CASE AppendRunEnd
    BY <1>17 DEF AppendRunEnd, NoEnding
  <1>18. CASE Return
    BY <1>18 DEF Return
  <1>19. CASE Fails
    BY <1>19 DEF Fails, Dropped, NoEnding
  <1>20. ASSUME NEW c \in Calls, ToolBegins(c) PROVE Stops'
    BY <1>20 DEF ToolBegins
  <1>21. ASSUME NEW c \in Calls, ToolEnds(c) PROVE Stops'
    BY <1>21 DEF ToolEnds
  <1>22. CASE UNCHANGED vars
    BY <1>22 DEF vars
  <1> QED
    BY <1>1, <1>2, <1>3, <1>4, <1>5, <1>6, <1>7, <1>8, <1>9, <1>10, <1>11, <1>12, <1>13,
       <1>14, <1>15, <1>16, <1>17, <1>18, <1>19, <1>20, <1>21, <1>22 DEF Next, Engine

\* An outcome is chosen when every tool is accounted for.
LEMMA StepAccounts ==
  ASSUME Typed, Ends, Stages, Accounts, [Next]_vars
  PROVE  Accounts'
  <1> USE EngineConstants DEF Calls, requests, final, limits, work, Typed, TypeOK, Ends,
        Stages, Accounts, Accounted, Executing, ToolStates, Pcs, Outcomes
  <1>1. CASE Request
    BY <1>1 DEF Request
  <1>2. CASE Cancel
    BY <1>2 DEF Cancel
  <1>3. CASE Spend
    BY <1>3 DEF Spend
  <1>4. CASE Infer
    BY <1>4 DEF Infer, End
  <1>5. CASE StreamEvent
    BY <1>5 DEF StreamEvent, End, Decision, OutcomeOf
  <1>6. CASE StreamEnds
    BY <1>6 DEF StreamEnds, NoTools, NoResults
  <1>7. CASE LoopHead
    BY <1>7 DEF LoopHead, End, BudgetExhausted, Decision, OutcomeOf
  <1>8. CASE InferInterrupted
    BY <1>8 DEF InferInterrupted, Interruptible, Interrupted, End
  <1>9. CASE Answer
    BY <1>9 DEF Answer, End, BudgetExhausted, GraceCall
  <1>10. CASE Authorize
    BY <1>10 DEF Authorize, InState, First, AnswerDenied
  <1>11. CASE Dispatch
    BY <1>11 DEF Dispatch, InState, First, Decision
  <1>12. CASE DispatchReturns
    BY <1>12 DEF DispatchReturns, Collect, Unfinished, InState, Decision
  <1>13. CASE ToolsInterrupted
    BY <1>13 DEF ToolsInterrupted
  <1>14. CASE GraceEnds
    BY <1>14 DEF GraceEnds, Collect, Indeterminate, Unfinished, InState
  <1>15. CASE DrainEnds
    BY <1>15 DEF DrainEnds, Dropped, End
  <1>16. CASE Results
    BY <1>16 DEF Results, End, BudgetExhausted, OutcomeOf
  <1>17. CASE AppendRunEnd
    BY <1>17 DEF AppendRunEnd, NoEnding
  <1>18. CASE Return
    BY <1>18 DEF Return
  <1>19. CASE Fails
    BY <1>19 DEF Fails, Dropped, NoEnding
  <1>20. ASSUME NEW c \in Calls, ToolBegins(c) PROVE Accounts'
    BY <1>20 DEF ToolBegins
  <1>21. ASSUME NEW c \in Calls, ToolEnds(c) PROVE Accounts'
    BY <1>21 DEF ToolEnds
  <1>22. CASE UNCHANGED vars
    BY <1>22 DEF vars
  <1> QED
    BY <1>1, <1>2, <1>3, <1>4, <1>5, <1>6, <1>7, <1>8, <1>9, <1>10, <1>11, <1>12, <1>13,
       <1>14, <1>15, <1>16, <1>17, <1>18, <1>19, <1>20, <1>21, <1>22 DEF Next, Engine

-----------------------------------------------------------------------------
(* Theorems *)

LEMMA StepEngine == EngineInv /\ [Next]_vars => EngineInv'
  BY StepTyped, StepEnds, StepStages, StepStops, StepAccounts DEF EngineInv

LEMMA EngineInvariant == Spec => []EngineInv
  BY InitEngine, StepEngine, PTL DEF Spec

\* The run's state keeps its types, and a run never works on a batch after its last
\* request (run_turn).
THEOREM TypeCorrect == Spec => []TypeOK
  <1>1. EngineInv => TypeOK
    BY DEF EngineInv, Typed
  <1> QED
    BY <1>1, EngineInvariant, PTL

\* Whatever the number of calls in an answer and however they end, a request shows the
\* model exactly one result for each call of its last answer (result_inject).
THEOREM Paired == Spec => []RequestsPaired
  <1>1. EngineInv => RequestsPaired
    BY EngineConstants DEF EngineInv, Stages, RequestsPaired, Calls, Typed, TypeOK
  <1> QED
    BY <1>1, EngineInvariant, PTL

\* However many calls are authorized, at most one tool begins after a stop was
\* requested of a controlled run (the loop over authorized_tool_calls).
THEOREM StopsSoon == Spec => []StopStartsNoMore
  <1>1. EngineInv => StopStartsNoMore
    BY DEF EngineInv, Stops, StopStartsNoMore
  <1> QED
    BY <1>1, EngineInvariant, PTL

\* An outcome accounts for every tool that was started: journalled, or indeterminate
\* and the stop reported as timed out (append_run_control_end).
THEOREM OutcomesAccount == Spec => []OutcomeAccounts
  <1>1. EngineInv => OutcomeAccounts
    BY DEF EngineInv, Accounts, Accounted, OutcomeAccounts
  <1> QED
    BY <1>1, EngineInvariant, PTL

\* Every step of the engine is a step of the engine that the task's actor counts on, or
\* changes nothing that the actor sees.
LEMMA StepContract ==
  ASSUME EngineInv, [Next]_vars
  PROVE  [Contract!Next]_(Contract!vars)
  <1> USE DEF EngineInv, Typed, TypeOK, Ends, requests, final
  <1>1. ASSUME UNCHANGED <<control, outcome, ended>>, pc = "done" <=> pc' = "done"
        PROVE  UNCHANGED Contract!vars
    BY <1>1 DEF Contract!vars
  <1>2. CASE Request
    <2>1. Contract!Request
      BY <1>2 DEF Request, Contract!Request, Contract!Controls
    <2> QED
      BY <2>1 DEF Contract!Next
  <1>3. CASE AppendRunEnd
    <2> DEFINE on == IF pc = "done" THEN "off" ELSE IF outcome = "none" THEN "running"
                     ELSE "finished"
    <2>1. pc = "ending" /\ outcome = "none" /\ ended = "none" /\ on = "running"
      BY <1>3 DEF AppendRunEnd
    <2>2. /\ pc' = "cleanup" /\ control' = control
          /\ ended' = ending.reason /\ outcome' = ending.outcome
      BY <1>3, <2>1 DEF AppendRunEnd
    <2>3. ending.reason \in EndReasons /\ ending.outcome \in Outcomes
      BY <2>1 DEF Outcomes, EndReasons
    <2>4. CASE ending.outcome = "none"
      <3>1. Contract!RunEnds
        BY <2>1, <2>2, <2>3, <2>4 DEF Contract!RunEnds, Contract!EndReasons, EndReasons
      <3> QED
        BY <3>1 DEF Contract!Next
    <2>5. CASE ending.outcome # "none"
      <3>1. Contract!EngineFinish
        BY <2>1, <2>2, <2>3, <2>5 DEF Contract!EngineFinish, Warranted, Outcomes
      <3> QED
        BY <3>1 DEF Contract!Next
    <2> QED
      BY <2>4, <2>5
  <1>4. CASE Return \/ Fails
    <2>1. Contract!EngineReturn
      BY <1>4 DEF Return, Fails, Contract!EngineReturn
    <2> QED
      BY <2>1 DEF Contract!Next
  <1>5. CASE Cancel \/ Spend
    BY <1>1, <1>5 DEF Cancel, Spend
  <1>6. CASE Infer \/ StreamEvent \/ StreamEnds \/ LoopHead \/ InferInterrupted \/ Answer
    BY <1>1, <1>6
       DEF Infer, StreamEvent, StreamEnds, LoopHead, InferInterrupted, Interrupted, Answer, End
  <1>7. CASE Authorize \/ ToolsInterrupted \/ GraceEnds \/ DrainEnds \/ Results
    BY <1>1, <1>7 DEF Authorize, ToolsInterrupted, GraceEnds, DrainEnds, Results, End
  <1>8. CASE Dispatch \/ DispatchReturns
    <2>1. pc \in {"dispatch", "tool"} /\ pc' # "done" /\ UNCHANGED <<control, outcome, ended>>
      BY <1>8 DEF Dispatch, DispatchReturns
    <2> QED
      BY <1>1, <2>1
  <1>9. CASE \E c \in Calls : ToolBegins(c) \/ ToolEnds(c)
    BY <1>1, <1>9 DEF ToolBegins, ToolEnds
  <1>10. CASE UNCHANGED vars
    BY <1>1, <1>10 DEF vars
  <1> QED
    BY <1>2, <1>3, <1>4, <1>5, <1>6, <1>7, <1>8, <1>9, <1>10 DEF Next, Engine

\* The engine's run implements what the task's actor counts on: an outcome is reported
\* once, only to a stop that was requested, and together with a durable end of the run
\* (append_run_end before control.finish); nothing follows run_turn's return.
THEOREM Kept == Spec => KeepsContract
  <1>1. Init => Contract!Init
    BY DEF Init, Contract!Init
  <1>2. EngineInv /\ [Next]_vars => [Contract!Next]_(Contract!vars)
    BY StepContract
  <1> QED
    BY <1>1, <1>2, EngineInvariant, PTL DEF Spec, KeepsContract, Contract!Spec
=============================================================================
