----------------------------- MODULE EngineContract -----------------------------
(***************************************************************************)
(* What the engine of one run promises the actor of its task: the engine   *)
(* that TaskActor takes for granted, with the end of the run in the        *)
(* journal.  An outcome is reported only to a stop that was requested, it  *)
(* is reported once, and it is reported when the end of the run is durable.*)
(***************************************************************************)

VARIABLES control,   \* run control requested of the engine
          outcome,   \* what it answered, if it did
          ended,     \* reason of the run.ended in the journal
          engine     \* running, finished or off

vars == <<control, outcome, ended, engine>>

Controls == {"continue", "yield", "force"}
EndReasons == {"completed", "cancelled", "interrupted", "max_iterations", "budget", "error"}

Init ==
  /\ control = "continue" /\ outcome = "none" /\ ended = "none" /\ engine = "running"

\* The control only rises.
Request ==
  /\ engine # "off" /\ control # "force"
  /\ control' \in Controls \ {"continue", control}
  /\ UNCHANGED <<outcome, ended, engine>>

EngineFinish ==
  /\ engine = "running" /\ control # "continue" /\ ended = "none"
  /\ engine' = "finished" /\ ended' = "interrupted"
  /\ outcome' \in {"safe_point"} \cup IF control = "force" THEN {"forced", "timed_out"} ELSE {}
  /\ UNCHANGED control

\* The run ends on its own account; a run cut off by an error may leave no end.
RunEnds ==
  /\ engine = "running" /\ ended = "none"
  /\ ended' \in EndReasons
  /\ UNCHANGED <<control, outcome, engine>>

EngineReturn ==
  /\ engine # "off" /\ engine' = "off"
  /\ UNCHANGED <<control, outcome, ended>>

Next == Request \/ EngineFinish \/ RunEnds \/ EngineReturn

Spec == Init /\ [][Next]_vars
=============================================================================
