-------------------------- MODULE InteractionContract --------------------------
(***************************************************************************)
(* What the permission and the question broker promise a run: at most one  *)
(* request is open, an open request is settled once, by an answer or by a  *)
(* withdrawal, and the engine hears an approval (an allowed permission, an *)
(* answered question) only if that is how the request was settled.  What   *)
(* an engine hears otherwise is a refusal, which it may hear at any time.  *)
(***************************************************************************)
CONSTANTS Requests, NoRequest

VARIABLES open, verdict, heard

vars == <<open, verdict, heard>>

Init ==
  /\ open = NoRequest
  /\ verdict = [r \in Requests |-> "none"]
  /\ heard = [r \in Requests |-> "none"]

Ask(r) ==
  /\ open = NoRequest
  /\ verdict[r] = "none" /\ heard[r] = "none"
  /\ open' = r
  /\ UNCHANGED <<verdict, heard>>

Settle(r, v) ==
  /\ open = r
  /\ open' = NoRequest
  /\ verdict' = [verdict EXCEPT ![r] = v]
  /\ UNCHANGED heard

Hear(r, h) ==
  /\ heard[r] = "none"
  /\ h = "yes" => verdict[r] = "yes"
  /\ heard' = [heard EXCEPT ![r] = h]
  /\ UNCHANGED <<open, verdict>>

Next == \E r \in Requests :
  \/ Ask(r)
  \/ \E v \in {"yes", "no", "withdrawn"} : Settle(r, v)
  \/ \E h \in {"yes", "no"} : Hear(r, h)

Spec == Init /\ [][Next]_vars
=============================================================================
