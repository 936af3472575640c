------------------------------ MODULE Interactions ------------------------------
(***************************************************************************)
(* The interactions of one run (permission_broker.rs, question_broker.rs): *)
(* engine threads that ask and wait, clients that answer, the actor's stop *)
(* that withdraws the pending request, the clock, and the maps in memory   *)
(* that connect an answer to the thread that waits for it.                 *)
(*                                                                         *)
(* A step is one store transaction, one critical section of a broker map,  *)
(* or one message on a waiter's oneshot channel.  An answer is "yes" (an   *)
(* option that allows; an answered question) or "no" (an option that       *)
(* denies; a declined question); DenyOnce, Cancelled, TimedOut and errors  *)
(* are what an engine hears as "no".                                       *)
(***************************************************************************)
EXTENDS Naturals

CONSTANTS Permissions, Questions,   \* requests the engine makes, by broker
          Clients,                  \* client connections that answer
          NoRequest,
          Retries,                  \* retries of a request or invalidation (8)
          MaxAppends,               \* bound on appends that outrun a transaction
          MaxCrashes                \* bound on daemon crashes

ASSUME RequestAssumption ==
  /\ Permissions \cap Questions = {}
  /\ NoRequest \notin Permissions \cup Questions
  /\ Retries \in Nat /\ MaxAppends \in Nat /\ MaxCrashes \in Nat

Requests == Permissions \cup Questions
Answers == {"yes", "no"}
Settled == Answers \cup {"withdrawn"}

VARIABLES pending,    \* durable: pending_permission or pending_question of the task
          log,        \* durable: what became of each request
          run,        \* durable: running (or waiting for `pending'), stopped, ended
          expired,    \* requests whose expires_at has passed
          contexts,   \* requests with a validation context
          waiters,    \* requests with a waiter in the map
          channel,    \* what was sent to the waiting thread
          engine,     \* program counter of decide and ask, what they returned, their tries
          client,     \* program counter of a client's answer, and the context it cloned
          stopper,    \* the request a stop has withdrawn and has yet to clean up
          up, appends, crashes

memory == <<contexts, waiters, channel>>
threads == <<engine, client, stopper>>
bounds == <<up, appends, crashes>>
vars == <<pending, log, run, expired, memory, threads, bounds>>

Idle == [pc |-> "idle", req |-> NoRequest, answer |-> "no", context |-> FALSE]
NoStop == [pc |-> "idle", req |-> NoRequest]

Init ==
  /\ pending = NoRequest
  /\ log = [r \in Requests |-> "none"]
  /\ run = "running"
  /\ expired = {} /\ contexts = {} /\ waiters = {}
  /\ channel = [r \in Requests |-> "empty"]
  /\ engine = [r \in Requests |-> [pc |-> "idle", heard |-> "none", tries |-> 0]]
  /\ client = [c \in Clients |-> Idle]
  /\ stopper = NoStop
  /\ up = TRUE /\ appends = 0 /\ crashes = 0

-----------------------------------------------------------------------------
(* The engine's thread: HarnessPermissionBroker::decide, QuestionBroker::ask *)

At(r, pc) == up /\ engine[r].pc = pc
Goto(r, pc) == engine' = [engine EXCEPT ![r].pc = pc, ![r].tries = 0]
Return(r, h) == engine' = [engine EXCEPT ![r].pc = "returned", ![r].heard = h]

\* Waiter and context are in place before the request is visible to anyone.
Reserve(r) ==
  /\ At(r, "idle")
  /\ waiters' = waiters \cup {r}
  /\ contexts' = contexts \cup {r}
  /\ Goto(r, "request")
  /\ UNCHANGED <<pending, log, run, expired, channel, client, stopper, bounds>>

MayAsk(r) == pending = NoRequest /\ run = "running" /\ r \notin expired

Refused(r) ==
  /\ waiters' = waiters \ {r}
  /\ contexts' = contexts \ {r}
  /\ Return(r, "no")
  /\ UNCHANGED <<pending, log>>

\* The request is committed if the run is running and waits for nothing else.
Request(r) ==
  /\ At(r, "request")
  /\ \/ /\ MayAsk(r)
        /\ pending' = r
        /\ log' = [log EXCEPT ![r] = "asked"]
        /\ Goto(r, "waiting")
        /\ UNCHANGED <<waiters, contexts>>
     \/ ~MayAsk(r) /\ Refused(r)
  /\ UNCHANGED <<run, expired, channel, client, stopper, bounds>>

Outrun == appends < MaxAppends /\ appends' = appends + 1

\* Another append moved the stream: retried with the version it reports.
RequestOutrun(r) ==
  /\ At(r, "request") /\ Outrun
  /\ IF engine[r].tries < Retries
     THEN engine' = [engine EXCEPT ![r].tries = @ + 1] /\ UNCHANGED <<pending, log, waiters, contexts>>
     ELSE Refused(r)
  /\ UNCHANGED <<run, expired, channel, client, stopper, up, crashes>>

Receive(r) ==
  /\ At(r, "waiting") /\ channel[r] \in Answers
  /\ Return(r, channel[r])
  /\ UNCHANGED <<pending, log, run, expired, memory, client, stopper, bounds>>

\* Mutant: an expired request is given up without being withdrawn.
TimeoutGivesUp(r) ==
  /\ At(r, "waiting") /\ r \in expired /\ channel[r] = "empty"
  /\ Goto(r, "cancel")
  /\ UNCHANGED <<pending, log, run, expired, memory, client, stopper, bounds>>

Timeout(r) ==
  /\ At(r, "waiting") /\ r \in expired /\ channel[r] = "empty"
  /\ Goto(r, "invalidate")
  /\ UNCHANGED <<pending, log, run, expired, memory, client, stopper, bounds>>

\* invalidate: the pending request is withdrawn; a settled one is looked up.
Invalidate(r) ==
  /\ At(r, "invalidate")
  /\ \/ /\ pending = r
        /\ pending' = NoRequest
        /\ log' = [log EXCEPT ![r] = "withdrawn"]
        /\ Goto(r, "cancel")
     \/ /\ pending # r
        /\ Goto(r, "lookup")
        /\ UNCHANGED <<pending, log>>
  /\ UNCHANGED <<run, expired, memory, client, stopper, bounds>>

InvalidateOutrun(r) ==
  /\ At(r, "invalidate") /\ Outrun
  /\ engine' = [engine EXCEPT ![r].pc = IF engine[r].tries < Retries THEN @ ELSE "lookup",
                              ![r].tries = @ + 1]
  /\ UNCHANGED <<pending, log, run, expired, memory, client, stopper, up, crashes>>

\* Mutant: the late answer is not looked up.
LookupNothing(r) ==
  /\ At(r, "lookup")
  /\ engine' = [engine EXCEPT ![r].pc = "cancel"]
  /\ UNCHANGED <<pending, log, run, expired, memory, client, stopper, bounds>>

\* permission_resolution_option, question_resolution_outcome: an answer that was
\* committed before the withdrawal counts.
Lookup(r) ==
  /\ At(r, "lookup")
  /\ \/ /\ log[r] \in Answers /\ r \in Permissions
        /\ engine' = [engine EXCEPT ![r].pc = "complete"]
        /\ UNCHANGED <<contexts, waiters>>
     \/ /\ log[r] \in Answers /\ r \in Questions
        /\ contexts' = contexts \ {r} /\ waiters' = waiters \ {r}
        /\ Return(r, log[r])
     \/ /\ log[r] \notin Answers
        /\ engine' = [engine EXCEPT ![r].pc = "cancel"]
        /\ UNCHANGED <<contexts, waiters>>
  /\ UNCHANGED <<pending, log, run, expired, channel, client, stopper, bounds>>

\* complete_engine_waiter with the durable option: sends if the waiter is still there.
Complete(r) ==
  /\ At(r, "complete")
  /\ channel' = IF r \in waiters THEN [channel EXCEPT ![r] = log[r]] ELSE channel
  /\ waiters' = waiters \ {r}
  /\ engine' = [engine EXCEPT ![r].pc = "try_recv"]
  /\ UNCHANGED <<pending, log, run, expired, contexts, client, stopper, bounds>>

\* An empty channel is heard as DenyOnce.
TryRecv(r) ==
  /\ At(r, "try_recv")
  /\ Return(r, IF channel[r] = "empty" THEN "no" ELSE channel[r])
  /\ UNCHANGED <<pending, log, run, expired, memory, client, stopper, bounds>>

\* cancel_engine_waiter, release_request.  A permission that could be neither
\* withdrawn nor looked up keeps its validation context.
Cancel(r) ==
  /\ At(r, "cancel")
  /\ waiters' = waiters \ {r}
  /\ contexts' = IF r \in Questions \/ log[r] = "withdrawn" THEN contexts \ {r} ELSE contexts
  /\ Return(r, "no")
  /\ UNCHANGED <<pending, log, run, expired, channel, client, stopper, bounds>>

\* The engine's task is aborted while it waits; nothing is cleaned up.
Dropped(r) ==
  /\ At(r, "waiting")
  /\ engine' = [engine EXCEPT ![r].pc = "gone"]
  /\ UNCHANGED <<pending, log, run, expired, memory, client, stopper, bounds>>

Expire(r) ==
  /\ engine[r].pc # "idle" /\ r \notin expired
  /\ expired' = expired \cup {r}
  /\ UNCHANGED <<pending, log, run, memory, threads, bounds>>

-----------------------------------------------------------------------------
(* A client's answer: resolve_with_command *)

ClientAt(c, pc) == up /\ client[c].pc = pc
Req(c) == client[c].req

\* The client saw the request; the validation context is cloned before the transaction.
Look(c, r, a) ==
  /\ ClientAt(c, "idle")
  /\ log[r] = "asked"
  /\ client' = [client EXCEPT ![c] = [pc |-> "commit", req |-> r, answer |-> a,
                                      context |-> r \in contexts]]
  /\ UNCHANGED <<pending, log, run, expired, memory, engine, stopper, bounds>>

\* Mutant: an answer to a request that was settled meanwhile still counts.
MayResolveLate(c) == client[c].context /\ Req(c) \notin expired

MayResolve(c) == client[c].context /\ Req(c) \notin expired /\ pending = Req(c)

\* An answer may also be rejected for a stale version or a lost workspace lease.
Resolve(c) ==
  /\ ClientAt(c, "commit")
  /\ \/ /\ MayResolve(c)
        /\ pending' = NoRequest
        /\ log' = [log EXCEPT ![Req(c)] = client[c].answer]
        /\ client' = [client EXCEPT ![c].pc = "forget"]
     \/ /\ client' = [client EXCEPT ![c] = Idle]
        /\ UNCHANGED <<pending, log>>
  /\ UNCHANGED <<run, expired, memory, engine, stopper, bounds>>

Forget(c) ==
  /\ ClientAt(c, "forget")
  /\ contexts' = contexts \ {Req(c)}
  /\ client' = [client EXCEPT ![c].pc = "take"]
  /\ UNCHANGED <<pending, log, run, expired, waiters, channel, engine, stopper, bounds>>

\* Taking the waiter out of the map: a question's is sent the answer under the
\* lock, a permission's after it.
Take(c) ==
  /\ ClientAt(c, "take")
  /\ waiters' = waiters \ {Req(c)}
  /\ \/ /\ Req(c) \in waiters /\ Req(c) \in Permissions
        /\ client' = [client EXCEPT ![c].pc = "send"]
        /\ UNCHANGED channel
     \/ /\ Req(c) \in waiters /\ Req(c) \in Questions
        /\ client' = [client EXCEPT ![c] = Idle]
        /\ channel' = [channel EXCEPT ![Req(c)] = client[c].answer]
     \/ /\ Req(c) \notin waiters
        /\ client' = [client EXCEPT ![c] = Idle]
        /\ UNCHANGED channel
  /\ UNCHANGED <<pending, log, run, expired, contexts, engine, stopper, bounds>>

Send(c) ==
  /\ ClientAt(c, "send")
  /\ channel' = [channel EXCEPT ![Req(c)] = client[c].answer]
  /\ client' = [client EXCEPT ![c] = Idle]
  /\ UNCHANGED <<pending, log, run, expired, contexts, waiters, engine, stopper, bounds>>

-----------------------------------------------------------------------------
(* Stop and promotion (transact_invalidating_command), crash and recovery *)

\* One transaction stops the run and withdraws its pending request.
Stop ==
  /\ up /\ run = "running" /\ stopper.pc = "idle"
  /\ run' = "stopped"
  /\ pending' = NoRequest
  /\ log' = [r \in Requests |-> IF r = pending THEN "withdrawn" ELSE log[r]]
  /\ stopper' = IF pending = NoRequest THEN NoStop ELSE [pc |-> "forget", req |-> pending]
  /\ UNCHANGED <<expired, memory, engine, client, bounds>>

\* Mutant: the stop leaves the engine's thread waiting.
StopForgetAsleep ==
  /\ up /\ stopper.pc = "forget"
  /\ contexts' = contexts \ {stopper.req}
  /\ stopper' = NoStop
  /\ UNCHANGED <<pending, log, run, expired, waiters, channel, engine, client, bounds>>

StopForget ==
  /\ up /\ stopper.pc = "forget"
  /\ contexts' = contexts \ {stopper.req}
  /\ stopper' = [stopper EXCEPT !.pc = "wake"]
  /\ UNCHANGED <<pending, log, run, expired, waiters, channel, engine, client, bounds>>

\* cancel_engine_waiter, complete(Cancelled): removed and sent under the lock.
StopWake ==
  /\ up /\ stopper.pc = "wake"
  /\ channel' = IF stopper.req \in waiters THEN [channel EXCEPT ![stopper.req] = "no"] ELSE channel
  /\ waiters' = waiters \ {stopper.req}
  /\ stopper' = NoStop
  /\ UNCHANGED <<pending, log, run, expired, contexts, engine, client, bounds>>

Crash ==
  /\ up /\ crashes < MaxCrashes
  /\ up' = FALSE /\ crashes' = crashes + 1
  /\ contexts' = {} /\ waiters' = {}
  /\ channel' = [r \in Requests |-> "empty"]
  /\ engine' = [r \in Requests |-> IF engine[r].heard = "none" THEN [engine[r] EXCEPT !.pc = "gone"]
                                                              ELSE engine[r]]
  /\ client' = [c \in Clients |-> Idle]
  /\ stopper' = NoStop
  /\ UNCHANGED <<pending, log, run, expired, appends>>

\* recover_startup withdraws what is pending and ends the run.
Recover ==
  /\ ~up /\ up' = TRUE
  /\ pending' = NoRequest
  /\ log' = [r \in Requests |-> IF r = pending THEN "withdrawn" ELSE log[r]]
  /\ run' = "ended"
  /\ UNCHANGED <<expired, memory, threads, appends, crashes>>

-----------------------------------------------------------------------------
Engine(r) ==
  \/ Reserve(r) \/ Request(r) \/ RequestOutrun(r) \/ Receive(r) \/ Timeout(r)
  \/ Invalidate(r) \/ InvalidateOutrun(r) \/ Lookup(r) \/ Complete(r) \/ TryRecv(r)
  \/ Cancel(r) \/ Dropped(r)

Answer(c) ==
  \/ \E r \in Requests, a \in Answers : Look(c, r, a)
  \/ Resolve(c) \/ Forget(c) \/ Take(c) \/ Send(c)

Next ==
  \/ \E r \in Requests : Engine(r) \/ Expire(r)
  \/ \E c \in Clients : Answer(c)
  \/ Stop \/ StopForget \/ StopWake \/ Crash \/ Recover

Spec == Init /\ [][Next]_vars

\* A thread that has begun goes on; the clock, the clients and the user owe nothing.
FairSpec ==
  /\ Spec
  /\ \A r \in Requests :
       /\ WF_vars(Request(r)) /\ WF_vars(Receive(r)) /\ WF_vars(Timeout(r)) /\ WF_vars(Invalidate(r))
       /\ WF_vars(Lookup(r)) /\ WF_vars(Complete(r)) /\ WF_vars(TryRecv(r)) /\ WF_vars(Cancel(r))
  /\ \A c \in Clients : WF_vars(Forget(c)) /\ WF_vars(Take(c)) /\ WF_vars(Send(c))
  /\ WF_vars(StopForget) /\ WF_vars(StopWake)

-----------------------------------------------------------------------------
(* Properties *)

\* The variables keep their types.
TypeOK ==
  /\ pending \in Requests \cup {NoRequest}
  /\ log \in [Requests -> {"none", "asked"} \cup Settled]
  /\ run \in {"running", "stopped", "ended"}
  /\ expired \subseteq Requests /\ contexts \subseteq Requests /\ waiters \subseteq Requests
  /\ channel \in [Requests -> {"empty"} \cup Answers]
  /\ engine \in [Requests -> [pc : {"idle", "request", "waiting", "invalidate", "lookup", "complete",
                                    "try_recv", "cancel", "returned", "gone"},
                              heard : {"none"} \cup Answers, tries : 0..(Retries + 1)]]
  /\ client \in [Clients -> [pc : {"idle", "commit", "forget", "take", "send"},
                             req : Requests \cup {NoRequest}, answer : Answers, context : BOOLEAN]]
  /\ stopper \in [pc : {"idle", "forget", "wake"}, req : Requests \cup {NoRequest}]
  /\ up \in BOOLEAN /\ appends \in 0..MaxAppends /\ crashes \in 0..MaxCrashes

\* The refinement mapping: how each request was settled, and what its engine heard.
Verdict == [r \in Requests |-> IF log[r] \in Settled THEN log[r] ELSE "none"]
Heard == [r \in Requests |-> engine[r].heard]

Contract == INSTANCE InteractionContract WITH
  open <- pending, verdict <- Verdict, heard <- Heard

\* The brokers implement InteractionContract: one open request, settled once, and
\* an approval heard only if it is the durable outcome, whatever the timeout, the
\* stop and the clients do at the same time.
Implements == Contract!Spec

\* A question's committed answer is what ask returns, also when the timeout fired
\* before the answer was handed over.
QuestionAnswerHeard ==
  \A r \in Questions :
    engine[r].pc = "returned" /\ log[r] \in Answers => engine[r].heard = log[r]

\* A request is not left pending, with the run waiting for it, by an engine thread
\* that has returned, unless every try to withdraw it was outrun.  An error of the store
\* in invalidate, which no run has, would leave it pending too.
NoOrphan ==
  \A r \in Requests : pending = r /\ engine[r].pc = "returned" => engine[r].tries > Retries

\* An engine thread whose request was settled wakes up without waiting for the
\* clock: its waiter is registered before the request can be answered.
SettledWakes ==
  \A r \in Requests : (engine[r].pc = "waiting" /\ log[r] \in Settled) ~> engine[r].pc # "waiting"
=============================================================================
