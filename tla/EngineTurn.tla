------------------------------- MODULE EngineTurn -------------------------------
(***************************************************************************)
(* One run of the engine (turn.rs): the loop of model requests and tool    *)
(* batches, with the run control of the daemon (safe_point.rs), the        *)
(* cancellation token (interrupt.rs), the authorization of tool calls and  *)
(* the orchestrator that executes them (orchestrator.rs).                  *)
(*                                                                         *)
(* A step is what the engine does between two points at which it waits.    *)
(* The user, the model and the tools move in between.  A run without a run *)
(* control (a child engine, the SDK alone) dispatches a batch as a whole.  *)
(***************************************************************************)
EXTENDS Naturals, FiniteSets

CONSTANTS MaxIterations,     \* engine.max_iterations
          MaxToolCalls,      \* budget_limits.max_tool_calls
          ConcurrencyLimit,  \* of the orchestrator
          MaxBatch           \* bound on the tool calls of one answer

ASSUME EngineConstants ==
  {MaxIterations, MaxToolCalls, ConcurrencyLimit, MaxBatch} \subseteq Nat

Calls == 1..MaxBatch

VARIABLES pc,
          controlled,   \* the run has a run control
          control, outcome,
          cancelled,    \* the cancellation token has a cause
          spent,        \* a token, time or cost budget is exhausted
          ended,        \* run.ended in the journal
          ending,       \* run.ended about to be appended, and the outcome after it
          iterations, dispatched,
          retried,      \* the prompt was compacted after a context_too_long
          batch,        \* number of tool calls in the answer
          tool,         \* state of each call of the batch
          results,      \* number of results of each call in the next prompt
          reported,     \* calls whose result is in the journal
          interrupt,    \* tool_interrupt of the batch
          after,        \* control_after_tools
          indeterminate,
          late          \* tools begun after a stop was requested (history)

limits == <<iterations, dispatched, spent>>
requests == <<control, cancelled, controlled>>
work == <<batch, tool, results, reported, interrupt, after, indeterminate, late>>
final == <<outcome, ended>>
vars == <<pc, requests, final, ending, limits, retried, work>>

NoTools == [c \in Calls |-> "none"]
NoResults == [c \in Calls |-> 0]
NoEnding == [reason |-> "none", outcome |-> "none"]

Init ==
  /\ pc = "top" /\ controlled \in BOOLEAN
  /\ control = "continue" /\ outcome = "none" /\ cancelled = FALSE /\ spent = FALSE
  /\ ended = "none" /\ ending = NoEnding
  /\ iterations = 0 /\ dispatched = 0 /\ retried = FALSE
  /\ batch = 0 /\ tool = NoTools /\ results = NoResults /\ reported = {} /\ interrupt = FALSE
  /\ after = "continue" /\ indeterminate = {} /\ late = 0

-----------------------------------------------------------------------------
(* The user, the actor and time *)

\* RunControlHandle::request
Request ==
  /\ pc # "done" /\ controlled /\ control # "force"
  /\ control' \in {"yield", "force"} \ {control}
  /\ UNCHANGED <<pc, cancelled, controlled, final, ending, limits, retried, work>>

\* Every cause ends the run in the same way; "cancelled" stands for its end reason.
Cancel ==
  /\ pc # "done" /\ ~cancelled /\ cancelled' = TRUE
  /\ UNCHANGED <<pc, control, controlled, final, ending, limits, retried, work>>

Spend ==
  /\ pc # "done" /\ ~spent /\ spent' = TRUE
  /\ UNCHANGED <<pc, requests, final, ending, iterations, dispatched, retried, work>>

-----------------------------------------------------------------------------
(* Ends *)

\* Mutant: a yield is not looked at.
ForceOnly == IF control = "force" THEN "force" ELSE "continue"
\* RunControlHandle::decision
Decision == control

\* budget_exhausted
BudgetExhausted(calls) == spent \/ calls >= MaxToolCalls

\* append_run_end is next.
End(reason, out) ==
  /\ pc' = "ending"
  /\ ending' = [reason |-> reason, outcome |-> out]

\* append_run_control_end
OutcomeOf(decision) == IF decision = "yield" THEN "safe_point" ELSE "forced"

\* Mutant: the outcome is reported before the end of the run is durable.
AppendRunEndAfterFinish ==
  /\ pc = "ending"
  /\ \/ outcome = "none" /\ ending.outcome # "none" /\ outcome' = ending.outcome
        /\ UNCHANGED <<pc, ended, ending>>
     \/ ended' = ending.reason /\ pc' = "cleanup" /\ ending' = NoEnding /\ UNCHANGED outcome
  /\ UNCHANGED <<requests, limits, retried, work>>

\* append_run_end, then control.finish.
AppendRunEnd ==
  /\ pc = "ending"
  /\ ended' = ending.reason
  /\ outcome' = IF ending.outcome = "none" THEN outcome ELSE ending.outcome
  /\ ending' = NoEnding
  /\ pc' = "cleanup"
  /\ UNCHANGED <<requests, limits, retried, work>>

\* run_turn returns; the session's runner waits for cleanup_run_processes, unless it
\* got an error.
Return ==
  /\ pc = "cleanup" /\ pc' = "done"
  /\ UNCHANGED <<requests, final, ending, limits, retried, work>>

\* The dispatch future is dropped: a tool in it is cut off where it waits.
Dropped ==
  tool' = [c \in Calls |-> IF tool[c] \in {"running", "alone"} THEN "dropped" ELSE tool[c]]

\* The journal, a hook or the context fails: run_turn returns without an end.
Fails ==
  /\ pc \notin {"authorize", "cleanup", "done"}
  /\ pc' = "done" /\ ending' = NoEnding
  /\ Dropped
  /\ UNCHANGED <<requests, final, limits, retried, batch, results, reported, interrupt,
                 after, indeterminate, late>>

-----------------------------------------------------------------------------
(* The model *)

\* The head of the loop up to the request.  The last request is the grace call.
LoopHead ==
  /\ pc = "top"
  /\ \/ BudgetExhausted(dispatched) /\ End("budget", "none")
     \/ ~BudgetExhausted(dispatched) /\ iterations >= MaxIterations
        /\ End("max_iterations", "none")
     \/ /\ ~BudgetExhausted(dispatched) /\ iterations < MaxIterations
        /\ \/ cancelled /\ End("cancelled", "none")
           \/ ~cancelled /\ End("error", "none")    \* before_request middleware
           \/ ~cancelled /\ Decision # "continue" /\ End("interrupted", OutcomeOf(Decision))
           \/ ~cancelled /\ Decision = "continue" /\ pc' = "infer" /\ UNCHANGED ending
  /\ UNCHANGED <<requests, final, limits, retried, work>>

\* Mutant: a request is not interrupted.
NotInterruptible == FALSE
\* The branches of select! beside the model: cancellation and force stop.
Interruptible == cancelled \/ control = "force"

Interrupted ==
  \/ cancelled /\ End("cancelled", "none")
  \/ control = "force" /\ End("interrupted", "forced")

\* infer_or_interrupt; context_too_long is answered by one compacted request.
Infer ==
  /\ pc = "infer"
  /\ \/ pc' = "stream" /\ UNCHANGED <<ending, retried>>
     \/ ~retried /\ retried' = TRUE /\ UNCHANGED <<pc, ending>>
     \/ End("error", "none") /\ UNCHANGED retried
  /\ UNCHANGED <<requests, final, limits, work>>

InferInterrupted ==
  /\ pc \in {"infer", "stream"} /\ Interruptible /\ Interrupted
  /\ UNCHANGED <<requests, final, limits, retried, work>>

\* An event of the stream: the run control is looked at, then the cancellation.
StreamEvent ==
  /\ pc = "stream"
  /\ \/ End("error", "none")
     \/ Decision # "continue" /\ End("interrupted", OutcomeOf(Decision))
     \/ Decision = "continue" /\ cancelled /\ End("cancelled", "none")
  /\ UNCHANGED <<requests, final, limits, retried, work>>

\* The stream ends with an answer; a new batch replaces the one in the prompt.
StreamEnds ==
  /\ pc = "stream" /\ pc' = "answer"
  /\ batch' \in 0..MaxBatch
  /\ tool' = NoTools /\ results' = NoResults /\ reported' = {} /\ interrupt' = FALSE
  /\ after' = "continue" /\ indeterminate' = {} /\ retried' = FALSE
  /\ UNCHANGED <<requests, final, ending, limits, late>>

\* grace_active
GraceCall == iterations + 1 >= MaxIterations

\* Hooks, the assistant message, and what ends the run before any tool.
Answer ==
  /\ pc = "answer"
  /\ \/ cancelled /\ End("cancelled", "none")
     \/ End("error", "none")   \* no stop event, token limit, hook block, unknown tool
     \/ ~cancelled /\ BudgetExhausted(dispatched) /\ End("budget", "none")
     \/ /\ ~cancelled /\ ~BudgetExhausted(dispatched)
        /\ \/ batch = 0 /\ End("completed", "none")
           \/ batch > 0 /\ GraceCall /\ End("max_iterations", "none")
           \/ batch > 0 /\ ~GraceCall /\ pc' = "authorize" /\ UNCHANGED ending
  /\ UNCHANGED <<requests, final, limits, retried, work>>

-----------------------------------------------------------------------------
(* Tools *)

InState(states) == {c \in 1..batch : tool[c] \in states}
First(S) == {c \in S : \A d \in S : c <= d}

\* Mutant: the answer to a denied call is forgotten.
AnswerNothing(c) == results
\* authorization_failures come before the results of what was executed.
AnswerDenied(c) == [results EXCEPT ![c] = @ + 1]

\* authorize_tool_calls: validation, plan, permission and preflight of one call
\* after the other; neither a stop nor a cancellation is heard.
Authorize ==
  /\ pc = "authorize"
  /\ \/ /\ InState({"none"}) = {} /\ pc' = "dispatch" /\ UNCHANGED <<tool, results>>
     \/ \E c \in First(InState({"none"})) :
          /\ \/ tool' = [tool EXCEPT ![c] = "authorized"] /\ UNCHANGED results
             \/ tool' = [tool EXCEPT ![c] = "denied"] /\ results' = AnswerDenied(c)
          /\ UNCHANGED pc
  /\ UNCHANGED <<requests, final, ending, limits, retried, batch, reported, interrupt,
                 after, indeterminate, late>>

\* tool_use.started of the next call, or of all of them without a run control.
Dispatch ==
  /\ pc = "dispatch"
  /\ LET ready == InState({"authorized"})
         next == IF controlled THEN First(ready) ELSE ready
         stopped == controlled /\ ready # {} /\ Decision # "continue"
     IN /\ after' = IF controlled /\ ready # {} THEN Decision ELSE after
        /\ tool' = IF stopped THEN tool
                   ELSE [c \in Calls |-> IF c \in next THEN "started" ELSE tool[c]]
        /\ pc' = IF stopped \/ next = {} THEN "results" ELSE "tool"
  /\ UNCHANGED <<requests, final, ending, limits, retried, batch, results, reported,
                 interrupt, indeterminate, late>>

Executing == pc \in {"tool", "grace", "draining"}

\* dispatch_one begins.  The calls of a dispatch begin in order; those safe to run
\* concurrently run together up to the limit, the others alone.
MayBegin(c, how) ==
  /\ \A d \in 1..(c - 1) : tool[d] # "started"
  /\ InState({"alone"}) = {}
  /\ Cardinality(InState({"running"})) < IF how = "alone" THEN 1 ELSE ConcurrencyLimit

ToolBegins(c) ==
  /\ Executing /\ tool[c] = "started"
  /\ \E how \in {"running", "alone"} :
       /\ MayBegin(c, how)
       /\ tool' = [tool EXCEPT ![c] = IF interrupt THEN "finished" ELSE how]
  /\ late' = IF interrupt \/ control = "continue" THEN late ELSE late + 1
  /\ UNCHANGED <<pc, requests, final, ending, limits, retried, batch, results, reported,
                 interrupt, after, indeterminate>>

\* The tool ends with a result or an error, or its time is up: the token it then
\* sets is the one of the whole batch.
ToolEnds(c) ==
  /\ Executing /\ tool[c] \in {"running", "alone"}
  /\ tool' = [tool EXCEPT ![c] = "finished"]
  /\ interrupt' \in {interrupt, TRUE}
  /\ UNCHANGED <<pc, requests, final, ending, limits, retried, batch, results, reported,
                 after, indeterminate, late>>

Unfinished == InState({"started", "running", "alone"})

\* The results of a dispatch are taken over once; what it left behind is dropped.
Collect ==
  /\ results' = [c \in Calls |-> results[c] + IF tool[c] = "finished" THEN 1 ELSE 0]
  /\ tool' = [c \in Calls |-> CASE tool[c] = "finished" -> "returned"
                               [] tool[c] \in {"started", "running", "alone"} -> "dropped"
                               [] OTHER -> tool[c]]

\* The dispatch returns.  With a run control its decision is read again.
DispatchReturns ==
  /\ pc = "tool" /\ Unfinished = {}
  /\ Collect
  /\ after' = IF controlled THEN Decision ELSE after
  /\ pc' = IF controlled /\ after' = "continue" THEN "dispatch" ELSE "results"
  /\ UNCHANGED <<requests, final, ending, limits, retried, batch, reported, interrupt,
                 indeterminate, late>>

\* select! hears the force stop or the cancellation: the tools are interrupted.
ToolsInterrupted ==
  /\ pc = "tool"
  /\ \/ controlled /\ control = "force" /\ pc' = "grace"
     \/ cancelled /\ pc' = "draining"
  /\ interrupt' = TRUE
  /\ UNCHANGED <<requests, final, ending, limits, retried, batch, tool, results, reported,
                 after, indeterminate, late>>

\* Mutant: what did not end in time is forgotten.
IndeterminateForgotten == {}
\* indeterminate_tool_use_ids after the grace of five seconds.
Indeterminate == Unfinished

\* A force-stopped dispatch returned, or its grace is over.
GraceEnds ==
  /\ pc = "grace"
  /\ Collect
  /\ after' = "force"
  /\ indeterminate' = Indeterminate
  /\ pc' = "results"
  /\ UNCHANGED <<requests, final, ending, limits, retried, batch, reported, interrupt, late>>

\* drain_interrupted_tool_dispatch: what the tools still returned is dropped.
DrainEnds ==
  /\ pc = "draining"
  /\ Dropped
  /\ End("cancelled", "none")
  /\ UNCHANGED <<requests, final, limits, retried, batch, results, reported, interrupt, after,
                 indeterminate, late>>

\* Results to the journal; then a stop, the budget, an error or the next request.
Results ==
  /\ pc = "results"
  /\ reported' = {c \in 1..batch : results[c] > 0}
  /\ LET calls == dispatched + batch IN
     \/ indeterminate # {} /\ End("interrupted", "timed_out")
        /\ UNCHANGED <<iterations, dispatched>>
     \/ indeterminate = {} /\ after # "continue" /\ End("interrupted", OutcomeOf(after))
        /\ UNCHANGED <<iterations, dispatched>>
     \/ /\ indeterminate = {} /\ after = "continue"
        /\ dispatched' = calls
        /\ \/ BudgetExhausted(calls) /\ End("budget", "none") /\ UNCHANGED iterations
           \/ ~BudgetExhausted(calls) /\ End("error", "none") /\ UNCHANGED iterations
           \/ ~BudgetExhausted(calls) /\ pc' = "top" /\ iterations' = iterations + 1
                /\ UNCHANGED ending
  /\ UNCHANGED <<requests, final, spent, retried, batch, tool, results, interrupt, after,
                 indeterminate, late>>

-----------------------------------------------------------------------------
Engine ==
  \/ LoopHead \/ InferInterrupted \/ Answer
  \/ Authorize \/ Dispatch \/ DispatchReturns \/ ToolsInterrupted \/ GraceEnds \/ DrainEnds
  \/ Results \/ AppendRunEnd \/ Return

Next ==
  \/ Request \/ Cancel \/ Spend
  \/ Infer \/ StreamEvent \/ StreamEnds
  \/ \E c \in Calls : ToolBegins(c) \/ ToolEnds(c)
  \/ Engine \/ Fails

Spec == Init /\ [][Next]_vars

\* The engine's own steps go on, and a call's authorization comes to an answer
\* (a stop withdraws what is pending, see Interactions).  Nothing is assumed of
\* the model or of the tools: they may hang.
FairSpec == Spec /\ WF_vars(Engine)

-----------------------------------------------------------------------------
(* Properties *)

ToolStates == {"none", "authorized", "denied", "started", "running", "alone", "finished",
               "returned", "dropped"}
Pcs == {"top", "infer", "stream", "answer", "authorize", "dispatch", "tool", "grace",
        "draining", "results", "ending", "cleanup", "done"}

\* Types of the run's state (run_turn).
TypeOK ==
  /\ pc \in Pcs /\ controlled \in BOOLEAN /\ cancelled \in BOOLEAN /\ spent \in BOOLEAN
  /\ control \in {"continue", "yield", "force"} /\ after \in {"continue", "yield", "force"}
  /\ outcome \in {"none", "safe_point", "forced", "timed_out"}
  /\ iterations \in Nat /\ (iterations > 0 => iterations < MaxIterations)
  /\ dispatched \in Nat /\ retried \in BOOLEAN
  /\ batch \in 0..MaxBatch /\ tool \in [Calls -> ToolStates]
  /\ results \in [Calls -> Nat] /\ reported \subseteq Calls /\ indeterminate \subseteq Calls
  /\ interrupt \in BOOLEAN /\ late \in Nat

\* Every request shows the model exactly one result for each call of its last
\* answer, whether the call was denied, failed, timed out or was interrupted by a
\* sibling (result_inject); providers refuse anything else.
RequestsPaired ==
  pc = "infer" => \A c \in 1..batch : results[c] = 1

\* After a stop was requested of a controlled run at most one more tool begins,
\* the one whose start was already under way, even if the stop came while the
\* calls were being authorized (the loop over authorized_tool_calls).
StopStartsNoMore == late <= 1

\* An outcome accounts for every tool that was started: its result is in the
\* journal, or it is reported indeterminate and the stop as timed out
\* (append_run_control_end, append_force_stop_timeout).
OutcomeAccounts ==
  outcome # "none" =>
    \A c \in 1..batch : tool[c] \notin {"none", "authorized", "denied"} =>
      c \in reported \/ (outcome = "timed_out" /\ c \in indeterminate)

\* A force stop or a cancellation ends the run although the model and the tools may
\* hang (infer_or_interrupt, the select! loops and their grace of five seconds).
StopEnds == (controlled /\ control = "force") \/ cancelled ~> pc = "done"

Contract == INSTANCE EngineContract WITH
  engine <- IF pc = "done" THEN "off" ELSE IF outcome = "none" THEN "running" ELSE "finished"

\* The run is the engine that the task's actor counts on: an outcome is reported
\* once, only to a stop, and when the end of the run is durable.
KeepsContract == Contract!Spec
=============================================================================
