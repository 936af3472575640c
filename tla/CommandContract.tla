---------------------------- MODULE CommandContract ----------------------------
(***************************************************************************)
(* What the command inbox promises a client that sends a request, loses    *)
(* the answer and sends it again, under the same command id or under a new *)
(* one: a request is decided once, an accepted one takes effect once, and  *)
(* every answer but a refusal is the one the request was decided with.     *)
(***************************************************************************)
EXTENDS Naturals

CONSTANTS Requests, Undecided,
          Outcomes,   \* records with a status, accepted or rejected
          Refusals    \* what a client is told when nothing was decided

VARIABLES decided,   \* the outcome of each request
          effects,   \* how often each request took effect
          answer     \* the last answer given: a request and what it was told

vars == <<decided, effects, answer>>

Init ==
  /\ decided = [r \in Requests |-> Undecided]
  /\ effects = [r \in Requests |-> 0]
  /\ answer[1] \notin Requests

\* A request is answered: by the decision it gets now, by the one it got before,
\* or with a refusal.
Decide(r, o) ==
  /\ decided[r] = Undecided /\ o \in Outcomes
  /\ decided' = [decided EXCEPT ![r] = o]
  /\ effects' = [effects EXCEPT ![r] = IF o.status = "accepted" THEN @ + 1 ELSE @]

Repeat(r, o) ==
  /\ decided[r] # Undecided /\ o = decided[r]
  /\ UNCHANGED <<decided, effects>>

Refuse(o) ==
  /\ o \in Refusals
  /\ UNCHANGED <<decided, effects>>

Answer(r, o) ==
  /\ answer' = <<r, o>>
  /\ Decide(r, o) \/ Repeat(r, o) \/ Refuse(o)

Next == \E r \in Requests : Answer(r, answer'[2])

Spec == Init /\ [][Next]_vars
================================================================================
