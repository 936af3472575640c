--------------------------- MODULE SubagentsProofs ---------------------------
(***************************************************************************)
(* Theorems about the children of a task, for any number of children,      *)
(* store errors and crashes.                                               *)
(***************************************************************************)
EXTENDS Subagents, TLAPS

Runs == {"none", "running", "waiting", "interrupted", "ended"}
Execs == Ended \cup {"none", "parked", "running"}
Controls == {"none", "yield", "cancel"}
Reports == {"none", "ok", "error"}
Finishers == {"none", "wait", "apply", "release", "remove", "done"}
Entries == {"absent", "attached", "detached"}
StopPcs == {"idle", "read", "commit", "tell", "done", "retry"}
Seens == [Kids -> Nonterminal \cup {"none"}]

KidRecords == [state : States, detached : BOOLEAN, recorded : BOOLEAN, run : Runs]
TaskRecords ==
  [starter : Starters, detach : BOOLEAN, exec : Execs, told : Controls, tell : Controls,
   aborted : BOOLEAN, result : Reports, fin : Finishers]
StopRecords == [pc : StopPcs, force : BOOLEAN, tries : 0..2, seen : Seens]

Typed ==
  /\ kid \in [Kids -> KidRecords] /\ task \in [Kids -> TaskRecords]
  /\ lease \in [Kids -> Leases] /\ registry \in [Kids -> Entries] /\ stop \in StopRecords
  /\ parent \in {"running", "yielding", "ended"}
  /\ actor \in {"up", "failed"} /\ phase \in {"up", "down", "recovered"}
  /\ faults \in 0..MaxFaults /\ crashes \in 0..MaxCrashes

\* A finisher has something to record.
Reporting(k) == task[k].fin = "apply" => task[k].exec \in Ended
Reported == \A k \in Kids : Reporting(k)

\* What a starter that has not registered its child leaves alone.
Early(k) ==
  task[k].starter \in {"idle", "acquire", "record", "fail", "unwind", "make", "register"} =>
    /\ task[k].fin = "none" /\ task[k].result = "none" /\ task[k].tell = "none"
    /\ ~task[k].aborted /\ ~kid[k].detached /\ registry[k] = "absent"
    /\ task[k].starter = "idle" => kid[k].state = "none"

\* Success is reported with the transaction that makes it durable.
Durable(k) == task[k].result = "ok" => kid[k].state = "completed"

\* A child that has not ended keeps its lease from its grant to the end of its finisher,
\* unless its start is unwound.
Leased(k) ==
  Live(k) /\ (task[k].fin # "none" \/ task[k].starter \in {"record", "make", "register"}) =>
    lease[k] = "active"

\* A detached child is in the background until it ends, and whoever could abort it has
\* passed by, except for the rollback of its team.
Detached(k) ==
  /\ kid[k].detached => /\ task[k].starter \in {"publish", "start", "done", "rolled_back"}
                        /\ kid[k].state \in Terminal \cup {"background"}
                        /\ task[k].aborted \/ task[k].tell = "cancel" =>
                             task[k].starter = "rolled_back"
  /\ kid[k].state = "background" => kid[k].detached
  /\ task[k].starter \in {"detach", "publish"} => task[k].detach
  /\ task[k].starter = "publish" => kid[k].detached
  /\ task[k].starter = "start" /\ kid[k].detached => task[k].detach
  /\ task[k].starter = "detach" /\ (task[k].aborted \/ task[k].tell = "cancel") => ~Live(k)

\* A yielding child was told to yield, will be told, or is not registered yet.
Heard(k) ==
  kid[k].state = "yielding" /\ registry[k] # "absent" =>
    task[k].told # "none" \/ task[k].tell # "none"

\* While a stop goes on its parent starts no child.
Halted == actor = "up" /\ stop.pc # "idle" => parent # "running"

\* Every attached child is listed when a stop commits; it is yielding or ended when it
\* has; and it has no message on its way when the stop is done.
Listed(k) ==
  /\ actor = "up" /\ Live(k) /\ ~kid[k].detached =>
       /\ stop.pc = "commit" =>
            stop.seen[k] # "none" \/ (~stop.force /\ kid[k].state = "yielding")
       /\ stop.pc \in {"tell", "done"} => ~stop.force /\ kid[k].state = "yielding"
  /\ stop.pc = "done" /\ Live(k) => task[k].tell = "none"

KidInv(k) == Early(k) /\ Durable(k) /\ Leased(k) /\ Detached(k) /\ Heard(k) /\ Listed(k)

SubagentInv == Typed /\ Reported /\ Halted /\ \A k \in Kids : KidInv(k)

-----------------------------------------------------------------------------
(* Types *)

LEMMA Members ==
  /\ Nonterminal \subseteq States /\ Terminal \subseteq States /\ "none" \in States
  /\ {"starting", "running", "yielding", "background"} \subseteq Nonterminal
  /\ {"completed", "cancelled", "failed"} \subseteq Terminal
  /\ {"starting", "running", "yielding", "background", "completed", "cancelled", "failed"}
       \subseteq States
  /\ {"none", "running", "waiting", "interrupted", "ended"} \subseteq Runs
  /\ {"idle", "acquire", "record", "fail", "unwind", "make", "register", "detach", "publish",
      "rollback", "start", "waiting", "done", "rolled_back"} \subseteq Starters
  /\ Ended \subseteq Execs /\ {"none", "parked", "running", "cancelled"} \subseteq Execs
  /\ {"none", "yield", "cancel"} \subseteq Controls
  /\ {"none", "ok", "error"} \subseteq Reports
  /\ {"none", "wait", "apply", "release", "remove", "done"} \subseteq Finishers
  /\ {"absent", "attached", "detached"} \subseteq Entries
  /\ {"none", "active", "cleanup_pending", "cleanup_blocked", "released"} \subseteq Leases
  /\ {"idle", "read", "commit", "tell", "done", "retry"} \subseteq StopPcs
  /\ \A e \in Ended : e # "ok" => e \in States
  BY DEF Nonterminal, Terminal, States, Runs, Starters, Ended, Execs, Controls, Reports,
         Finishers, Entries, Leases, StopPcs

\* The helpers of the model keep the types.
LEMMA EndTyped ==
  ASSUME Typed, NEW K, NEW s \in States, End(K, s)
  PROVE  kid' \in [Kids -> KidRecords] /\ lease' \in [Kids -> Leases]
  <1>1. \A k \in Kids : [kid[k] EXCEPT !.state = s, !.run = "ended"] \in KidRecords
    BY Members DEF Typed, KidRecords
  <1>2. kid' \in [Kids -> KidRecords]
    BY <1>1 DEF Typed, End
  <1>3. lease' \in [Kids -> Leases]
    BY Members DEF Typed, End
  <1> QED
    BY <1>2, <1>3

LEMMA GotoTyped ==
  ASSUME Typed, NEW k \in Kids, NEW pc \in Starters, Goto(k, pc)
  PROVE  task' \in [Kids -> TaskRecords]
  BY DEF Typed, Goto, TaskRecords

LEMMA CancelTyped ==
  ASSUME Typed, NEW k \in Kids
  PROVE  CancelAttached(k) \in TaskRecords
  <1>1. task[k] \in TaskRecords
    BY DEF Typed
  <1>2. [task[k] EXCEPT !.told = "cancel", !.aborted = TRUE] \in TaskRecords
    BY <1>1, Members DEF TaskRecords
  <1> QED
    BY <1>1, <1>2 DEF CancelAttached

LEMMA TellTyped ==
  ASSUME Typed, NEW k \in Kids, NEW c \in Controls, NEW b \in BOOLEAN,
         task' = [task EXCEPT ![k].tell = "none", ![k].told = c, ![k].aborted = b]
  PROVE  task' \in [Kids -> TaskRecords]
  <1> DEFINE r == [task[k] EXCEPT !.tell = "none", !.told = c, !.aborted = b]
  <1>1. task[k] \in TaskRecords /\ task \in [Kids -> TaskRecords]
    BY DEF Typed
  <1>2. r \in TaskRecords
    BY <1>1, Members DEF TaskRecords
  <1>3. task' = [task EXCEPT ![k] = r]
    OBVIOUS
  <1> HIDE DEF r
  <1> QED
    BY <1>1, <1>2, <1>3

LEMMA NoStopTyped ==
  /\ NoStop \in StopRecords
  /\ \A f \in BOOLEAN : [NoStop EXCEPT !.pc = "read", !.force = f] \in StopRecords
  <1> DEFINE nobody == [k \in Kids |-> "none"]
  <1>1. nobody \in Seens
    BY DEF Seens
  <1>2. NoStop = [pc |-> "idle", force |-> FALSE, tries |-> 0, seen |-> nobody]
    BY DEF NoStop
  <1> HIDE DEF nobody
  <1>3. NoStop \in StopRecords
    BY <1>1, <1>2, Members DEF StopRecords
  <1> QED
    BY <1>3, Members DEF StopRecords

LEMMA StopFailsTyped ==
  ASSUME Typed, StopFails
  PROVE  stop' \in StopRecords /\ actor' \in {"up", "failed"}
  <1>1. stop \in StopRecords
    BY DEF Typed
  <1>2. CASE actor = "failed"
    BY <1>1, <1>2, Members DEF StopFails, StopRecords, Typed
  <1>3. CASE actor # "failed" /\ stop.tries < 2
    <2>1. stop.tries + 1 \in 0..2
      BY <1>1, <1>3 DEF StopRecords
    <2>2. [stop EXCEPT !.pc = "read", !.tries = @ + 1] \in StopRecords
      BY <1>1, <2>1, Members DEF StopRecords
    <2> QED
      BY <1>3, <2>2 DEF StopFails, Typed
  <1>4. CASE actor # "failed" /\ ~(stop.tries < 2)
    BY <1>4, NoStopTyped, Zenon DEF StopFails
  <1> QED
    BY <1>2, <1>3, <1>4

\* Types are kept.
LEMMA StepTyped ==
  ASSUME Typed, Reported, [Next]_vars
  PROVE  Typed'
  <1> USE Members, SubagentConstants DEF Typed, durable, stopping
  <1>1. ASSUME NEW k \in Kids, NEW d \in BOOLEAN, Start(k, d) PROVE Typed'
    <2>1. kid' \in [Kids -> KidRecords]
      BY <1>1 DEF Start, KidRecords
    <2>2. task' \in [Kids -> TaskRecords]
      BY <1>1 DEF Start, TaskRecords
    <2> QED
      BY <1>1, <2>1, <2>2 DEF Start
  <1>2. ASSUME NEW k \in Kids, Acquire(k) PROVE Typed'
    <2>1. kid' \in [Kids -> KidRecords] /\ lease' \in [Kids -> Leases]
      BY <1>2, EndTyped DEF Acquire
    <2>2. task' \in [Kids -> TaskRecords]
      BY <1>2, GotoTyped DEF Acquire
    <2> QED
      BY <1>2, <2>1, <2>2 DEF Acquire, Fault, NoFault
  <1>3. ASSUME NEW k \in Kids, Record(k) PROVE Typed'
    <2>1. Recorded(k) \in KidRecords
      BY DEF Recorded, KidRecords
    <2>2. kid' \in [Kids -> KidRecords]
      BY <1>3, <2>1 DEF Record
    <2>3. task' \in [Kids -> TaskRecords]
      BY <1>3, GotoTyped DEF Record
    <2> QED
      BY <1>3, <2>2, <2>3 DEF Record, Fault, NoFault
  <1>4. ASSUME NEW k \in Kids, Fail(k) PROVE Typed'
    <2>1. kid' \in [Kids -> KidRecords] /\ lease' \in [Kids -> Leases]
      BY <1>4, EndTyped DEF Fail
    <2>2. task' \in [Kids -> TaskRecords]
      BY <1>4, GotoTyped DEF Fail
    <2> QED
      BY <1>4, <2>1, <2>2 DEF Fail, Fault, NoFault
  <1>5. ASSUME NEW k \in Kids, Unwind(k) PROVE Typed'
    <2>1. lease' \in [Kids -> Leases]
      BY <1>5 DEF Unwind, Release
    <2>2. task' \in [Kids -> TaskRecords]
      BY <1>5 DEF Unwind, Goto, TaskRecords
    <2> QED
      BY <1>5, <2>1, <2>2 DEF Unwind
  <1>6. ASSUME NEW k \in Kids, Make(k) PROVE Typed'
    <2>1. task' \in [Kids -> TaskRecords]
      BY <1>6 DEF Make, Goto, TaskRecords
    <2> QED
      BY <1>6, <2>1 DEF Make, Fault, NoFault
  <1>7. ASSUME NEW k \in Kids, Register(k) PROVE Typed'
    <2> DEFINE a == RegisterAs(k).aborted
               c == RegisterAs(k).told
               p == IF task[k].detach THEN "detach" ELSE "start"
    <2>1. a \in BOOLEAN
      BY Zenon DEF RegisterAs
    <2>2. c \in Controls /\ p \in Starters
      BY DEF RegisterAs
    <2>3. \/ task' = [task EXCEPT ![k].told = c, ![k].aborted = a, ![k].fin = "wait",
                                  ![k].starter = p]
          \/ task' = [task EXCEPT ![k].exec = "cancelled", ![k].starter = "unwind"]
      BY <1>7 DEF Register
    <2> HIDE DEF a, c, p
    <2>4. /\ [task[k] EXCEPT !.told = c, !.aborted = a, !.fin = "wait", !.starter = p] \in TaskRecords
          /\ [task[k] EXCEPT !.exec = "cancelled", !.starter = "unwind"] \in TaskRecords
      BY <2>1, <2>2 DEF TaskRecords
    <2>5. task' \in [Kids -> TaskRecords]
      BY <2>3, <2>4
    <2>6. registry' \in [Kids -> Entries]
      BY <1>7 DEF Register
    <2> QED
      BY <1>7, <2>5, <2>6 DEF Register, Fault, NoFault
  <1>8. ASSUME NEW k \in Kids, Detach(k) PROVE Typed'
    <2>1. kid' \in [Kids -> KidRecords]
      BY <1>8 DEF Detach, KidRecords
    <2>2. task' \in [Kids -> TaskRecords]
      BY <1>8, GotoTyped DEF Detach
    <2> QED
      BY <1>8, <2>1, <2>2 DEF Detach, Fault, NoFault
  <1>9. ASSUME NEW k \in Kids, Publish(k) PROVE Typed'
    <2>1. task' \in [Kids -> TaskRecords]
      BY <1>9 DEF Publish, Goto, TaskRecords
    <2>2. registry' \in [Kids -> Entries]
      BY <1>9 DEF Publish
    <2> QED
      BY <1>9, <2>1, <2>2 DEF Publish
  <1>10. ASSUME NEW k \in Kids, SendStart(k) PROVE Typed'
    <2> DEFINE e == IF task[k].exec = "parked" /\ ~task[k].aborted THEN "running" ELSE task[k].exec
               p == IF task[k].detach THEN "done" ELSE "waiting"
    <2>1. e \in Execs /\ p \in Starters
      BY DEF TaskRecords
    <2>2. task' = [task EXCEPT ![k].exec = e, ![k].starter = p]
      BY <1>10 DEF SendStart
    <2> HIDE DEF e, p
    <2>3. task' \in [Kids -> TaskRecords]
      BY <2>1, <2>2 DEF TaskRecords
    <2> QED
      BY <1>10, <2>3 DEF SendStart
  <1>11. ASSUME NEW k \in Kids, Rollback(k) PROVE Typed'
    <2> DEFINE t == CancelAttached(k)
    <2>1. t \in TaskRecords
      BY CancelTyped
    <2>2. task' = [task EXCEPT ![k] = [t EXCEPT
            !.exec = IF @ = "parked" THEN "cancelled" ELSE @, !.starter = "done"]]
      BY <1>11 DEF Rollback
    <2> HIDE DEF t
    <2>3. task' \in [Kids -> TaskRecords]
      BY <2>1, <2>2 DEF TaskRecords
    <2> QED
      BY <1>11, <2>3 DEF Rollback
  <1>12. ASSUME NEW k \in Kids, CallerDropped(k) PROVE Typed'
    <2> DEFINE t == CancelAttached(k)
    <2>1. t \in TaskRecords
      BY CancelTyped
    <2>2. task' = [task EXCEPT ![k] = [t EXCEPT !.starter = "done"]]
      BY <1>12 DEF CallerDropped
    <2> HIDE DEF t
    <2>3. task' \in [Kids -> TaskRecords]
      BY <2>1, <2>2 DEF TaskRecords
    <2> QED
      BY <1>12, <2>3 DEF CallerDropped
  <1>13. ASSUME NEW k \in Kids, CancelChild(k) PROVE Typed'
    <2>1. kid' \in [Kids -> KidRecords] /\ lease' \in [Kids -> Leases]
      BY <1>13, EndTyped DEF CancelChild
    <2>2. task' \in [Kids -> TaskRecords]
      BY <1>13 DEF CancelChild, TaskRecords
    <2> QED
      BY <1>13, <2>1, <2>2 DEF CancelChild
  <1>14. ASSUME NEW k \in Kids, Ask(k) PROVE Typed'
    <2>1. kid' \in [Kids -> KidRecords]
      BY <1>14 DEF Ask, KidRecords
    <2> QED
      BY <1>14, <2>1 DEF Ask
  <1>15. ASSUME NEW k \in Kids, Settle(k) PROVE Typed'
    <2>1. kid' \in [Kids -> KidRecords]
      BY <1>15 DEF Settle, KidRecords
    <2> QED
      BY <1>15, <2>1 DEF Settle
  <1>16. ASSUME NEW k \in Kids, ExecAborted(k) PROVE Typed'
    <2>1. task' \in [Kids -> TaskRecords]
      BY <1>16 DEF ExecAborted, TaskRecords
    <2> QED
      BY <1>16, <2>1 DEF ExecAborted
  <1>17. ASSUME NEW k \in Kids, NEW o \in Ended, ExecEnd(k, o) PROVE Typed'
    <2>1. task' \in [Kids -> TaskRecords]
      BY <1>17 DEF ExecEnd, TaskRecords
    <2> QED
      BY <1>17, <2>1 DEF ExecEnd
  <1>18. ASSUME NEW k \in Kids, FinishRead(k) PROVE Typed'
    <2>1. task' \in [Kids -> TaskRecords]
      BY <1>18 DEF FinishRead, Finishing, Live, TaskRecords
    <2> QED
      BY <1>18, <2>1 DEF FinishRead, Fault, NoFault
  <1>19. ASSUME NEW k \in Kids, FinishApply(k) PROVE Typed'
    <2>1. kid' \in [Kids -> KidRecords] /\ lease' \in [Kids -> Leases]
      <3>1. (IF task[k].exec = "ok" THEN "completed" ELSE task[k].exec) \in States
        BY <1>19 DEF FinishApply, FinishAt, Reported, Reporting, Ended
      <3> QED
        BY <1>19, <3>1, EndTyped DEF FinishApply
    <2>2. task' \in [Kids -> TaskRecords]
      BY <1>19 DEF FinishApply, Finishing, TaskRecords
    <2> QED
      BY <1>19, <2>1, <2>2 DEF FinishApply, Fault, NoFault
  <1>20. ASSUME NEW k \in Kids, FinishRelease(k) PROVE Typed'
    <2>1. lease' \in [Kids -> Leases]
      BY <1>20 DEF FinishRelease, Live, Release
    <2>2. task' \in [Kids -> TaskRecords]
      BY <1>20 DEF FinishRelease, Finishing, Live, TaskRecords
    <2> QED
      BY <1>20, <2>1, <2>2 DEF FinishRelease, Fault, NoFault
  <1>21. ASSUME NEW k \in Kids, FinishRemove(k) PROVE Typed'
    <2> DEFINE p == IF task[k].starter = "waiting" THEN "done" ELSE task[k].starter
    <2>1. p \in Starters
      BY DEF TaskRecords
    <2>2. task' = [task EXCEPT ![k].fin = "done", ![k].starter = p]
      BY <1>21 DEF FinishRemove
    <2> HIDE DEF p
    <2>3. task' \in [Kids -> TaskRecords]
      BY <2>1, <2>2 DEF TaskRecords
    <2>4. registry' \in [Kids -> Entries]
      BY <1>21 DEF FinishRemove
    <2> QED
      BY <1>21, <2>3, <2>4 DEF FinishRemove
  <1>22. ASSUME NEW k \in Kids, Tell(k) PROVE Typed'
    <2> DEFINE c == IF task[k].told = "cancel" THEN task[k].told ELSE task[k].tell
               b == task[k].aborted \/ task[k].tell = "cancel"
    <2>1. c \in Controls
      BY DEF TaskRecords
    <2>2. b \in BOOLEAN
      BY Zenon
    <2>3. task' = [task EXCEPT ![k].tell = "none", ![k].told = c, ![k].aborted = b]
      BY <1>22 DEF Tell
    <2> HIDE DEF c, b
    <2>4. task' \in [Kids -> TaskRecords]
      BY <2>1, <2>2, <2>3, TellTyped
    <2> QED
      BY <1>22, <2>4 DEF Tell
  <1>23. ASSUME NEW k \in Kids, RecoverSubagent(k) PROVE Typed'
    <2>1. kid' \in [Kids -> KidRecords]
      BY <1>23 DEF RecoverSubagent, MayEnd, Live, KidRecords
    <2>2. lease' \in [Kids -> Leases]
      BY <1>23 DEF RecoverSubagent, MayEnd, Live, Release
    <2> QED
      BY <1>23, <2>1, <2>2 DEF RecoverSubagent
  <1>24. ASSUME NEW f \in BOOLEAN, ParentStop(f) PROVE Typed'
    <2>1. stop' \in StopRecords
      BY <1>24, NoStopTyped DEF ParentStop
    <2> QED
      BY <1>24, <2>1 DEF ParentStop
  <1>25. CASE StopRead
    <2>1. stop' \in StopRecords /\ actor' \in {"up", "failed"}
      <3>1. CASE StopFails
        BY <3>1, StopFailsTyped
      <3>2. CASE ~StopFails
        <4> DEFINE seen == [k \in Kids |->
                     IF Stoppable(k) /\ (stop.force \/ kid[k].state \in {"starting", "running"})
                     THEN kid[k].state ELSE "none"]
        <4>1. seen \in Seens
          BY DEF Seens, Stoppable, Live
        <4>2. stop' = [stop EXCEPT !.pc = "commit", !.seen = seen] /\ actor' = actor
          BY <1>25, <3>2 DEF StopRead
        <4> HIDE DEF seen
        <4> QED
          BY <4>1, <4>2 DEF StopRecords
      <3> QED
        BY <3>1, <3>2
    <2> QED
      BY <1>25, <2>1 DEF StopRead, Fault, NoFault
  <1>26. CASE StopCommit
    <2> DEFINE K == {k \in Kids : stop.seen[k] # "none" /\ Stoppable(k)}
    <2>1. CASE StopFails /\ UNCHANGED <<kid, lease, task>>
      BY <1>26, <2>1, StopFailsTyped DEF StopCommit, Fault, NoFault
    <2>2. CASE ~(StopFails /\ UNCHANGED <<kid, lease, task>>)
      <3>1. kid' \in [Kids -> KidRecords] /\ lease' \in [Kids -> Leases]
        <4>1. CASE stop.force
          BY <1>26, <2>2, <4>1, EndTyped DEF StopCommit
        <4>2. CASE ~stop.force
          <5>1. \A k \in Kids : [kid[k] EXCEPT !.state = "yielding"] \in KidRecords
            BY DEF KidRecords
          <5>2. /\ kid' = [k \in Kids |-> IF k \in K THEN [kid[k] EXCEPT !.state = "yielding"]
                                       ELSE kid[k]]
                /\ lease' = lease
            BY <1>26, <2>2, <4>2 DEF StopCommit
          <5> HIDE DEF K
          <5> QED
            BY <5>1, <5>2
        <4> QED
          BY <4>1, <4>2
      <3>2. task' \in [Kids -> TaskRecords]
        <4> DEFINE c == IF stop.force THEN "cancel" ELSE "yield"
        <4>1. \A k \in Kids : [task[k] EXCEPT !.tell = c] \in TaskRecords
          BY DEF TaskRecords
        <4>2. task' = [k \in Kids |-> IF k \in K /\ registry[k] # "absent"
                                     THEN [task[k] EXCEPT !.tell = c] ELSE task[k]]
          BY <1>26, <2>2 DEF StopCommit
        <4> HIDE DEF K, c
        <4> QED
          BY <4>1, <4>2
      <3>3. stop' \in StopRecords /\ actor' = actor
        <4>1. [k \in Kids |-> "none"] \in Seens
          BY DEF Seens
        <4>2. stop' = [stop EXCEPT !.pc = "tell", !.seen = [k \in Kids |-> "none"]] /\ actor' = actor
          BY <1>26, <2>2 DEF StopCommit
        <4> QED
          BY <4>1, <4>2 DEF StopRecords
      <3> QED
        BY <1>26, <3>1, <3>2, <3>3 DEF StopCommit, Fault, NoFault
    <2> QED
      BY <2>1, <2>2
  <1>27. CASE StopDone
    <2>1. stop' \in StopRecords
      BY <1>27 DEF StopDone, StopRecords, Seens
    <2> QED
      BY <1>27, <2>1 DEF StopDone
  <1>28. CASE StopRetry
    <2>1. stop' \in StopRecords
      BY <1>28 DEF StopRetry, StopRecords, Seens
    <2> QED
      BY <1>28, <2>1 DEF StopRetry
  <1>29. CASE ActorFails
    <2>1. stop' \in StopRecords
      BY <1>29, NoStopTyped DEF ActorFails
    <2> QED
      BY <1>29, <2>1 DEF ActorFails, Fault
  <1>30. CASE ParentFails
    <2> QED
      BY <1>30 DEF ParentFails
  <1>31. CASE ParentEnds
    <2> QED
      BY <1>31 DEF ParentEnds
  <1>32. CASE Crash
    <2>1. task' \in [Kids -> TaskRecords]
      BY <1>32 DEF Crash, NoTask, TaskRecords
    <2>2. registry' \in [Kids -> Entries]
      BY <1>32 DEF Crash
    <2>3. stop' \in StopRecords
      BY <1>32 DEF Crash, NoStop, StopRecords, Seens
    <2> QED
      BY <1>32, <2>1, <2>2, <2>3 DEF Crash
  <1>33. CASE RecoverStartup
    <2>1. kid' \in [Kids -> KidRecords]
      BY <1>33 DEF RecoverStartup, KidRecords
    <2> QED
      BY <1>33, <2>1 DEF RecoverStartup
  <1>34. CASE Boot
    <2>1. lease' \in [Kids -> Leases]
      BY <1>34 DEF Boot, Live
    <2> QED
      BY <1>34, <2>1 DEF Boot
  <1>35. CASE UNCHANGED vars
    BY <1>35 DEF vars
  <1> QED
    BY <1>1, <1>2, <1>3, <1>4, <1>5, <1>6, <1>7, <1>8, <1>9, <1>10, <1>11, <1>12, <1>13,
       <1>14, <1>15, <1>16, <1>17, <1>18, <1>19, <1>20, <1>21, <1>22, <1>23, <1>24, <1>25,
       <1>26, <1>27, <1>28, <1>29, <1>30, <1>31, <1>32, <1>33, <1>34, <1>35 DEF Next,
       Stopping, Restarting, Starting, Running

-----------------------------------------------------------------------------
(* What the helpers change of a child *)

LEMMA Elsewhere ==
  ASSUME \/ \E f \in BOOLEAN : ParentStop(f)
         \/ StopRead \/ StopDone \/ StopRetry \/ ActorFails \/ ParentFails \/ ParentEnds
         \/ UNCHANGED vars
  PROVE  UNCHANGED <<kid, lease, task, registry>>
  BY DEF ParentStop, StopRead, StopDone, StopRetry, ActorFails, ParentFails, ParentEnds, vars,
         durable

LEMMA EndDoes ==
  ASSUME Typed, NEW K, NEW s, End(K, s), NEW j \in Kids
  PROVE  /\ kid'[j].state = IF j \in K THEN s ELSE kid[j].state
         /\ kid'[j].detached = kid[j].detached
         /\ j \notin K => lease'[j] = lease[j]
  BY DEF Typed, KidRecords, End

LEMMA GotoDoes ==
  ASSUME Typed, NEW k \in Kids, NEW pc, Goto(k, pc), NEW j \in Kids
  PROVE  /\ task'[j].starter = IF j = k THEN pc ELSE task[j].starter
         /\ task'[j].detach = task[j].detach /\ task'[j].exec = task[j].exec
         /\ task'[j].told = task[j].told /\ task'[j].tell = task[j].tell
         /\ task'[j].aborted = task[j].aborted /\ task'[j].fin = task[j].fin
         /\ task'[j].result = task[j].result
  BY DEF Typed, TaskRecords, Goto

LEMMA FinishingDoes ==
  ASSUME Typed, NEW k \in Kids, NEW pc, NEW r, Finishing(k, pc, r), NEW j \in Kids
  PROVE  /\ task'[j].fin = IF j = k THEN pc ELSE task[j].fin
         /\ task'[j].result = IF j = k THEN r ELSE task[j].result
         /\ task'[j].starter = task[j].starter
         /\ task'[j].detach = task[j].detach /\ task'[j].exec = task[j].exec
         /\ task'[j].told = task[j].told /\ task'[j].tell = task[j].tell
         /\ task'[j].aborted = task[j].aborted
  BY DEF Typed, TaskRecords, Finishing

LEMMA RecordDoes ==
  ASSUME Typed, NEW k \in Kids, Record(k), NEW j \in Kids
  PROVE  /\ \/ kid'[j].state = kid[j].state
            \/ j = k /\ kid[j].state = "starting" /\ kid'[j].state = "running"
         /\ kid'[j].detached = kid[j].detached
         /\ UNCHANGED <<lease, registry, stop, actor, parent>>
         /\ \/ Goto(k, "make") /\ kid[k].state \in {"starting", "yielding"}
            \/ Goto(k, "fail")
  <1> USE DEF Typed, durable, stopping
  <1>1. CASE UNCHANGED kid
    <2>1. UNCHANGED <<lease, registry, stop, actor, parent>>
      BY DEF Record
    <2>2. \/ Goto(k, "make") /\ kid[k].state \in {"starting", "yielding"}
          \/ Goto(k, "fail")
      BY DEF Record
    <2> QED
      BY <1>1, <2>1, <2>2
  <1>2. CASE /\ kid[k].state \in {"starting", "yielding"} /\ Goto(k, "make")
             /\ kid' = [kid EXCEPT ![k] = Recorded(k)]
    <2>1. /\ Recorded(k).state = IF kid[k].state = "starting" THEN "running" ELSE kid[k].state
          /\ Recorded(k).detached = kid[k].detached
      BY DEF Recorded, KidRecords
    <2>2. kid'[j] = IF j = k THEN Recorded(k) ELSE kid[j]
      BY <1>2
    <2>3. UNCHANGED <<lease, registry, stop, actor, parent>>
      BY DEF Record
    <2> QED
      BY <1>2, <2>1, <2>2, <2>3
  <1> QED
    BY <1>1, <1>2 DEF Record

LEMMA AcquireDoes ==
  ASSUME Typed, NEW k \in Kids, Acquire(k) \/ Fail(k), NEW j \in Kids
  PROVE  /\ kid'[j].state = kid[j].state \/ (j = k /\ Live(j) /\ kid'[j].state = "failed")
         /\ kid'[j].detached = kid[j].detached
         /\ UNCHANGED <<registry, stop, actor, parent>>
         /\ j # k => lease'[j] = lease[j]
         /\ \/ task[k].starter = "acquire" /\ Goto(k, "record") /\ lease'[k] = "active"
            \/ task[k].starter = "acquire" /\ Goto(k, "done")
            \/ task[k].starter = "fail" /\ Goto(k, "unwind")
  <1>1. /\ UNCHANGED <<registry, stop, actor, parent>>
        /\ \/ task[k].starter = "acquire" /\ Goto(k, "record") /\ lease' = [lease EXCEPT ![k] = "active"]
           \/ task[k].starter = "acquire" /\ Goto(k, "done")
           \/ task[k].starter = "fail" /\ Goto(k, "unwind")
    BY DEF Acquire, Fail, At, stopping
  <1>2. \/ UNCHANGED kid /\ (lease' = [lease EXCEPT ![k] = "active"] \/ UNCHANGED lease)
        \/ Live(k) /\ End({k}, "failed")
    BY DEF Acquire, Fail, MayEnd
  <1>3. CASE UNCHANGED kid /\ (lease' = [lease EXCEPT ![k] = "active"] \/ UNCHANGED lease)
    BY <1>1, <1>3 DEF Typed
  <1>4. CASE Live(k) /\ End({k}, "failed")
    <2>1. /\ kid'[j].state = IF j \in {k} THEN "failed" ELSE kid[j].state
          /\ kid'[j].detached = kid[j].detached
          /\ j \notin {k} => lease'[j] = lease[j]
      BY <1>4, EndDoes
    <2> QED
      BY <1>1, <1>4, <2>1 DEF Typed
  <1> QED
    BY <1>2, <1>3, <1>4

LEMMA FinishDoes ==
  ASSUME Typed, Reported, NEW k \in Kids, FinishRead(k) \/ FinishApply(k), NEW j \in Kids
  PROVE  /\ kid'[j].state = kid[j].state \/ (j = k /\ Live(j) /\ kid'[j].state \in Terminal)
         /\ kid'[j].detached = kid[j].detached
         /\ Live(j)' => lease'[j] = lease[j]
         /\ task'[j].result = "ok" =>
              (j # k /\ task[j].result = "ok") \/ kid'[j].state = "completed"
         /\ task[k].fin # "none" /\ (j # k => task'[j].fin = task[j].fin)
         /\ task'[j].starter = task[j].starter /\ task'[j].detach = task[j].detach
         /\ task'[j].told = task[j].told /\ task'[j].tell = task[j].tell
         /\ task'[j].aborted = task[j].aborted
         /\ UNCHANGED <<registry, stop, actor, parent>>
  <1>1. UNCHANGED <<registry, stop, actor, parent>> /\ task[k].fin # "none"
    BY DEF FinishRead, FinishApply, FinishAt, durable, stopping
  <1>2. CASE UNCHANGED <<kid, lease>> /\ \E pc, r \in {"none", "error", "apply", "release"} :
               Finishing(k, pc, r)
    <2>1. PICK pc, r \in {"none", "error", "apply", "release"} : Finishing(k, pc, r)
      BY <1>2
    <2> QED
      BY <1>1, <1>2, <2>1, FinishingDoes DEF Live
  <1>3. CASE FinishApply(k) /\ MayEnd(k)
             /\ End({k}, IF task[k].exec = "ok" THEN "completed" ELSE task[k].exec)
             /\ Finishing(k, "release", IF task[k].exec = "ok" THEN "ok" ELSE "error")
    <2> DEFINE s == IF task[k].exec = "ok" THEN "completed" ELSE task[k].exec
               r == IF task[k].exec = "ok" THEN "ok" ELSE "error"
    <2>1. s \in Terminal /\ (r = "ok" => s = "completed")
      BY <1>3 DEF FinishApply, FinishAt, Reported, Reporting, Ended, Terminal
    <2>2. End({k}, s) /\ Finishing(k, "release", r) /\ Live(k)
      BY <1>3 DEF MayEnd
    <2> HIDE DEF s, r
    <2>3. /\ kid'[j].state = IF j \in {k} THEN s ELSE kid[j].state
          /\ kid'[j].detached = kid[j].detached
          /\ j \notin {k} => lease'[j] = lease[j]
      BY <2>2, EndDoes
    <2>4. Live(j)' => lease'[j] = lease[j]
      BY <2>1, <2>3 DEF Live, Nonterminal, Terminal
    <2> QED
      BY <1>1, <2>1, <2>2, <2>3, <2>4, FinishingDoes
  <1>4. CASE FinishRead(k)
    BY <1>2, <1>4 DEF FinishRead, durable
  <1>5. CASE FinishApply(k)
    BY <1>2, <1>3, <1>5 DEF FinishApply
  <1> QED
    BY <1>4, <1>5

LEMMA MakeDoes ==
  ASSUME Typed, NEW k \in Kids, Make(k), NEW j \in Kids
  PROVE  /\ task'[j].starter = task[j].starter
              \/ (j = k /\ task[j].starter = "make" /\ task'[j].starter \in {"register", "fail"})
         /\ task'[j].detach = task[j].detach
         /\ task'[j].told = task[j].told /\ task'[j].tell = task[j].tell
         /\ task'[j].aborted = task[j].aborted /\ task'[j].fin = task[j].fin
         /\ task'[j].result = task[j].result
         /\ UNCHANGED <<kid, lease, registry, stop, actor, parent>>
  <1>1. task[k].starter = "make" /\ UNCHANGED <<kid, lease, registry, stop, actor, parent>>
    BY DEF Make, At, durable, stopping
  <1>2. CASE Goto(k, "fail")
    BY <1>1, <1>2, GotoDoes
  <1>3. CASE task' = [task EXCEPT ![k].exec = "parked", ![k].starter = "register"]
    <2>1. /\ task'[j].starter = IF j = k THEN "register" ELSE task[j].starter
          /\ task'[j].detach = task[j].detach
          /\ task'[j].told = task[j].told /\ task'[j].tell = task[j].tell
          /\ task'[j].aborted = task[j].aborted /\ task'[j].fin = task[j].fin
          /\ task'[j].result = task[j].result
      BY <1>3 DEF Typed, TaskRecords
    <2> QED
      BY <1>1, <2>1
  <1> QED
    BY <1>2, <1>3 DEF Make

LEMMA ReadDoes ==
  ASSUME Typed, StopRead, NEW j \in Kids
  PROVE  /\ UNCHANGED <<kid, lease, task, registry, parent>> /\ stop.pc = "read"
         /\ \/ stop'.pc \in {"read", "retry"}
            \/ /\ stop'.pc = "commit" /\ stop'.force = stop.force /\ actor' = actor
               /\ Stoppable(j) /\ (stop.force \/ kid[j].state \in {"starting", "running"}) =>
                    stop'.seen[j] = kid[j].state
  <1>1. UNCHANGED <<kid, lease, task, registry, parent>> /\ stop.pc = "read"
    BY DEF StopRead, StopIn, durable
  <1>2. CASE StopFails
    BY <1>1, <1>2 DEF StopFails, NoStop, Typed, StopRecords
  <1>3. CASE ~StopFails
    <2> DEFINE seen == [k \in Kids |->
                 IF Stoppable(k) /\ (stop.force \/ kid[k].state \in {"starting", "running"})
                 THEN kid[k].state ELSE "none"]
    <2>1. stop' = [stop EXCEPT !.pc = "commit", !.seen = seen] /\ actor' = actor
      BY <1>3 DEF StopRead
    <2>2. Stoppable(j) /\ (stop.force \/ kid[j].state \in {"starting", "running"}) =>
            seen[j] = kid[j].state
      OBVIOUS
    <2> HIDE DEF seen
    <2>3. stop'.pc = "commit" /\ stop'.force = stop.force /\ stop'.seen = seen
      BY <2>1 DEF Typed, StopRecords
    <2> QED
      BY <1>1, <2>1, <2>2, <2>3
  <1> QED
    BY <1>2, <1>3

LEMMA CommitDoes ==
  ASSUME Typed, StopCommit, NEW j \in Kids
  PROVE  \/ /\ UNCHANGED <<kid, lease, task>> /\ stop'.pc # "tell" /\ stop'.pc # "commit"
            /\ stop'.pc # "done" /\ stop'.pc # "idle"
         \/ /\ stop'.pc = "tell" /\ stop'.force = stop.force /\ actor' = actor
            /\ IF stop.seen[j] # "none" /\ Stoppable(j)
               THEN /\ kid'[j].state = IF stop.force THEN "cancelled" ELSE "yielding"
                    /\ task'[j].tell = IF registry[j] = "absent" THEN task[j].tell
                                       ELSE IF stop.force THEN "cancel" ELSE "yield"
               ELSE kid'[j].state = kid[j].state /\ task'[j].tell = task[j].tell
            /\ kid'[j].detached = kid[j].detached
            /\ Live(j)' => lease'[j] = lease[j]
            /\ task'[j].starter = task[j].starter
            /\ task'[j].detach = task[j].detach /\ task'[j].exec = task[j].exec
            /\ task'[j].told = task[j].told /\ task'[j].aborted = task[j].aborted
            /\ task'[j].fin = task[j].fin /\ task'[j].result = task[j].result
  <1> DEFINE K == {k \in Kids : stop.seen[k] # "none" /\ Stoppable(k)}
  <1>1. CASE StopFails /\ UNCHANGED <<kid, lease, task>>
    BY <1>1 DEF StopFails, NoStop, Typed, StopRecords
  <1>2. CASE ~(StopFails /\ UNCHANGED <<kid, lease, task>>)
    <2>1. stop' = [stop EXCEPT !.pc = "tell", !.seen = [k \in Kids |-> "none"]] /\ actor' = actor
      BY <1>2 DEF StopCommit
    <2>2. stop'.pc = "tell" /\ stop'.force = stop.force
      BY <2>1 DEF Typed, StopRecords
    <2>3. task' = [k \in Kids |-> IF k \in K /\ registry[k] # "absent"
                     THEN [task[k] EXCEPT !.tell = IF stop.force THEN "cancel" ELSE "yield"]
                     ELSE task[k]]
      BY <1>2 DEF StopCommit
    <2>4. IF stop.force THEN End(K, "cancelled")
          ELSE /\ kid' = [k \in Kids |-> IF k \in K THEN [kid[k] EXCEPT !.state = "yielding"]
                                         ELSE kid[k]]
               /\ lease' = lease
      BY <1>2 DEF StopCommit
    <2>5. j \in K <=> stop.seen[j] # "none" /\ Stoppable(j)
      OBVIOUS
    <2> HIDE DEF K
    <2>6. /\ task'[j].tell = IF j \in K /\ registry[j] # "absent"
                             THEN IF stop.force THEN "cancel" ELSE "yield" ELSE task[j].tell
          /\ task'[j].starter = task[j].starter
          /\ task'[j].detach = task[j].detach /\ task'[j].exec = task[j].exec
          /\ task'[j].told = task[j].told /\ task'[j].aborted = task[j].aborted
          /\ task'[j].fin = task[j].fin /\ task'[j].result = task[j].result
      BY <2>3 DEF Typed, TaskRecords
    <2>7. /\ kid'[j].state = IF j \in K THEN IF stop.force THEN "cancelled" ELSE "yielding"
                             ELSE kid[j].state
          /\ kid'[j].detached = kid[j].detached
          /\ (j \in K /\ stop.force) \/ lease'[j] = lease[j]
      <3>1. CASE stop.force
        BY <2>4, <3>1, EndDoes
      <3>2. CASE ~stop.force
        BY <2>4, <3>2 DEF Typed, KidRecords
      <3> QED
        BY <3>1, <3>2
    <2>8. Live(j)' => lease'[j] = lease[j]
      BY <2>7 DEF Live, Nonterminal
    <2> QED
      BY <2>1, <2>2, <2>5, <2>6, <2>7, <2>8
  <1> QED
    BY <1>1, <1>2

-----------------------------------------------------------------------------
(* Steps of a child *)

\* A finisher goes on to record only what its execution has returned.
LEMMA StepReported ==
  ASSUME Typed, NEW j \in Kids, Early(j), Reporting(j), [Next]_vars
  PROVE  Reporting(j)'
  <1> USE DEF Typed, KidRecords, TaskRecords, durable, stopping, Early, Reporting, Ended
  <1>1. ASSUME NEW k \in Kids, NEW d \in BOOLEAN, Start(k, d) PROVE Reporting(j)'
    BY <1>1 DEF Start, At, Up
  <1>2. ASSUME NEW k \in Kids, Acquire(k) PROVE Reporting(j)'
    BY <1>2, AcquireDoes, GotoDoes DEF Live
  <1>3. ASSUME NEW k \in Kids, Record(k) PROVE Reporting(j)'
    BY <1>3, RecordDoes, GotoDoes DEF Record, At, Live
  <1>4. ASSUME NEW k \in Kids, Fail(k) PROVE Reporting(j)'
    BY <1>4, AcquireDoes, GotoDoes DEF Live
  <1>5. ASSUME NEW k \in Kids, Unwind(k) PROVE Reporting(j)'
    BY <1>5, GotoDoes DEF Unwind, At, Up, Release
  <1>6. ASSUME NEW k \in Kids, Make(k) PROVE Reporting(j)'
    BY <1>6, GotoDoes DEF Make, At, Up
  <1>7. ASSUME NEW k \in Kids, Register(k) PROVE Reporting(j)'
    <2>1. task[k].starter = "register"
      BY <1>7 DEF Register, At
    <2>2. j # k => task'[j] = task[j]
      BY <1>7 DEF Register
    <2>3. task'[k].fin = "wait" \/ (task'[k].fin = task[k].fin /\ task'[k].exec = "cancelled")
      BY <1>7 DEF Register
    <2> QED
      BY <2>1, <2>2, <2>3
  <1>8. ASSUME NEW k \in Kids, Detach(k) PROVE Reporting(j)'
    BY <1>8, GotoDoes DEF Detach, At, Up, Locked
  <1>9. ASSUME NEW k \in Kids, Publish(k) PROVE Reporting(j)'
    BY <1>9, GotoDoes DEF Publish, At, Up, Locked
  <1>10. ASSUME NEW k \in Kids, SendStart(k) PROVE Reporting(j)'
    BY <1>10 DEF SendStart, At, Up
  <1>11. ASSUME NEW k \in Kids, Rollback(k) PROVE Reporting(j)'
    BY <1>11 DEF Rollback, At, Up, Locked, CancelAttached
  <1>12. ASSUME NEW k \in Kids, CallerDropped(k) PROVE Reporting(j)'
    BY <1>12 DEF CallerDropped, At, Up, Locked, CancelAttached
  <1>13. ASSUME NEW k \in Kids, CancelChild(k) PROVE Reporting(j)'
    BY <1>13, EndDoes DEF CancelChild, At, Up, Locked, MayEnd, Live
  <1>14. ASSUME NEW k \in Kids, Ask(k) PROVE Reporting(j)'
    BY <1>14 DEF Ask, Up
  <1>15. ASSUME NEW k \in Kids, Settle(k) PROVE Reporting(j)'
    BY <1>15 DEF Settle, Up
  <1>16. ASSUME NEW k \in Kids, ExecAborted(k) PROVE Reporting(j)'
    BY <1>16 DEF ExecAborted, Up
  <1>17. ASSUME NEW k \in Kids, NEW o \in Ended, ExecEnd(k, o) PROVE Reporting(j)'
    BY <1>17 DEF ExecEnd, Up
  <1>18. ASSUME NEW k \in Kids, FinishRead(k) PROVE Reporting(j)'
    BY <1>18, FinishingDoes DEF FinishRead, FinishAt, Up, Locked, Live
  <1>19. ASSUME NEW k \in Kids, FinishApply(k) PROVE Reporting(j)'
    BY <1>19, FinishingDoes, EndDoes DEF FinishApply, FinishAt, Up, MayEnd, Live
  <1>20. ASSUME NEW k \in Kids, FinishRelease(k) PROVE Reporting(j)'
    BY <1>20, FinishingDoes DEF FinishRelease, FinishAt, Up, Live, Release
  <1>21. ASSUME NEW k \in Kids, FinishRemove(k) PROVE Reporting(j)'
    BY <1>21 DEF FinishRemove, FinishAt, Up, Locked
  <1>22. ASSUME NEW k \in Kids, Tell(k) PROVE Reporting(j)'
    BY <1>22 DEF Tell, Up
  <1>23. ASSUME NEW k \in Kids, RecoverSubagent(k) PROVE Reporting(j)'
    BY <1>23 DEF RecoverSubagent, MayEnd, Live, Release
  <1>24. CASE StopCommit
    BY <1>24, CommitDoes DEF StopCommit, StopIn, Stoppable, Live
  <1>25. CASE Crash
    BY <1>25 DEF Crash, Up, NoTask, NoStop
  <1>26. CASE RecoverStartup
    BY <1>26 DEF RecoverStartup
  <1>27. CASE Boot
    BY <1>27 DEF Boot, Live
  <1>28. CASE UNCHANGED <<kid, lease, task, registry>>
    BY <1>28
  <1> QED
    BY <1>1, <1>2, <1>3, <1>4, <1>5, <1>6, <1>7, <1>8, <1>9, <1>10, <1>11, <1>12, <1>13,
       <1>14, <1>15, <1>16, <1>17, <1>18, <1>19, <1>20, <1>21, <1>22, <1>23, <1>24, <1>25,
       <1>26, <1>27, <1>28, Elsewhere DEF Next, Stopping, Restarting, Starting, Running

\* Nobody else touches a child before its starter has registered it.
LEMMA StepEarly ==
  ASSUME Typed, NEW j \in Kids, Early(j), Detached(j), [Next]_vars
  PROVE  Early(j)'
  <1> USE DEF Typed, KidRecords, TaskRecords, durable, stopping, Early
  <1>1. ASSUME NEW k \in Kids, NEW d \in BOOLEAN, Start(k, d) PROVE Early(j)'
    BY <1>1 DEF Start, At, Up
  <1>2. ASSUME NEW k \in Kids, Acquire(k) PROVE Early(j)'
    BY <1>2, AcquireDoes, GotoDoes DEF Live
  <1>3. ASSUME NEW k \in Kids, Record(k) PROVE Early(j)'
    BY <1>3, RecordDoes, GotoDoes DEF Record, At, Live
  <1>4. ASSUME NEW k \in Kids, Fail(k) PROVE Early(j)'
    BY <1>4, AcquireDoes, GotoDoes DEF Live
  <1>5. ASSUME NEW k \in Kids, Unwind(k) PROVE Early(j)'
    BY <1>5, GotoDoes DEF Unwind, At, Up, Release
  <1>6. ASSUME NEW k \in Kids, Make(k) PROVE Early(j)'
    BY <1>6, GotoDoes DEF Make, At, Up
  <1>7. ASSUME NEW k \in Kids, Register(k) PROVE Early(j)'
    BY <1>7 DEF Register, At, Up, Locked, RegisterAs, Live
  <1>8. ASSUME NEW k \in Kids, Detach(k) PROVE Early(j)'
    BY <1>8, GotoDoes DEF Detach, At, Up, Locked
  <1>9. ASSUME NEW k \in Kids, Publish(k) PROVE Early(j)'
    BY <1>9, GotoDoes DEF Publish, At, Up, Locked
  <1>10. ASSUME NEW k \in Kids, SendStart(k) PROVE Early(j)'
    BY <1>10 DEF SendStart, At, Up
  <1>11. ASSUME NEW k \in Kids, Rollback(k) PROVE Early(j)'
    BY <1>11 DEF Rollback, At, Up, Locked, CancelAttached
  <1>12. ASSUME NEW k \in Kids, CallerDropped(k) PROVE Early(j)'
    BY <1>12 DEF CallerDropped, At, Up, Locked, CancelAttached
  <1>13. ASSUME NEW k \in Kids, CancelChild(k) PROVE Early(j)'
    BY <1>13, EndDoes DEF CancelChild, At, Up, Locked, MayEnd, Live
  <1>14. ASSUME NEW k \in Kids, Ask(k) PROVE Early(j)'
    BY <1>14 DEF Ask, Up
  <1>15. ASSUME NEW k \in Kids, Settle(k) PROVE Early(j)'
    BY <1>15 DEF Settle, Up
  <1>16. ASSUME NEW k \in Kids, ExecAborted(k) PROVE Early(j)'
    BY <1>16 DEF ExecAborted, Up
  <1>17. ASSUME NEW k \in Kids, NEW o \in Ended, ExecEnd(k, o) PROVE Early(j)'
    BY <1>17 DEF ExecEnd, Up
  <1>18. ASSUME NEW k \in Kids, FinishRead(k) PROVE Early(j)'
    BY <1>18, FinishingDoes DEF FinishRead, FinishAt, Up, Locked, Live
  <1>19. ASSUME NEW k \in Kids, FinishApply(k) PROVE Early(j)'
    BY <1>19, FinishingDoes, EndDoes DEF FinishApply, FinishAt, Up, MayEnd, Live
  <1>20. ASSUME NEW k \in Kids, FinishRelease(k) PROVE Early(j)'
    BY <1>20, FinishingDoes DEF FinishRelease, FinishAt, Up, Live, Release
  <1>21. ASSUME NEW k \in Kids, FinishRemove(k) PROVE Early(j)'
    BY <1>21 DEF FinishRemove, FinishAt, Up, Locked
  <1>22. ASSUME NEW k \in Kids, Tell(k) PROVE Early(j)'
    BY <1>22 DEF Tell, Up
  <1>23. ASSUME NEW k \in Kids, RecoverSubagent(k) PROVE Early(j)'
    BY <1>23 DEF RecoverSubagent, MayEnd, Live, Release
  <1>24. CASE StopCommit
    BY <1>24, CommitDoes DEF StopCommit, StopIn, Stoppable, Live
  <1>25. CASE Crash
    BY <1>25 DEF Crash, Up, NoTask, NoStop
  <1>26. CASE RecoverStartup
    BY <1>26 DEF RecoverStartup
  <1>27. CASE Boot
    BY <1>27 DEF Boot, Live
  <1>28. CASE UNCHANGED <<kid, lease, task, registry>>
    BY <1>28
  <1> QED
    BY <1>1, <1>2, <1>3, <1>4, <1>5, <1>6, <1>7, <1>8, <1>9, <1>10, <1>11, <1>12, <1>13,
       <1>14, <1>15, <1>16, <1>17, <1>18, <1>19, <1>20, <1>21, <1>22, <1>23, <1>24, <1>25,
       <1>26, <1>27, <1>28, Elsewhere DEF Next, Stopping, Restarting, Starting, Running

\* The success that a finisher reports stays durable.
LEMMA StepDurable ==
  ASSUME Typed, Reported, NEW j \in Kids, Early(j), Durable(j), [Next]_vars
  PROVE  Durable(j)'
  <1> USE DEF Typed, KidRecords, TaskRecords, durable, stopping, Early, Durable, Nonterminal
  <1>1. ASSUME NEW k \in Kids, NEW d \in BOOLEAN, Start(k, d) PROVE Durable(j)'
    BY <1>1 DEF Start, At, Up
  <1>2. ASSUME NEW k \in Kids, Acquire(k) PROVE Durable(j)'
    BY <1>2, AcquireDoes, GotoDoes DEF Live
  <1>3. ASSUME NEW k \in Kids, Record(k) PROVE Durable(j)'
    BY <1>3, RecordDoes, GotoDoes DEF Record, At, Live
  <1>4. ASSUME NEW k \in Kids, Fail(k) PROVE Durable(j)'
    BY <1>4, AcquireDoes, GotoDoes DEF Live
  <1>5. ASSUME NEW k \in Kids, Unwind(k) PROVE Durable(j)'
    BY <1>5, GotoDoes DEF Unwind, At, Up, Release
  <1>6. ASSUME NEW k \in Kids, Make(k) PROVE Durable(j)'
    BY <1>6, MakeDoes DEF Live
  <1>7. ASSUME NEW k \in Kids, Register(k) PROVE Durable(j)'
    BY <1>7 DEF Register, At, Up, Locked, RegisterAs, Live
  <1>8. ASSUME NEW k \in Kids, Detach(k) PROVE Durable(j)'
    BY <1>8, GotoDoes DEF Detach, At, Up, Locked
  <1>9. ASSUME NEW k \in Kids, Publish(k) PROVE Durable(j)'
    BY <1>9, GotoDoes DEF Publish, At, Up, Locked
  <1>10. ASSUME NEW k \in Kids, SendStart(k) PROVE Durable(j)'
    BY <1>10 DEF SendStart, At, Up
  <1>11. ASSUME NEW k \in Kids, Rollback(k) PROVE Durable(j)'
    BY <1>11 DEF Rollback, At, Up, Locked, CancelAttached
  <1>12. ASSUME NEW k \in Kids, CallerDropped(k) PROVE Durable(j)'
    BY <1>12 DEF CallerDropped, At, Up, Locked, CancelAttached
  <1>13. ASSUME NEW k \in Kids, CancelChild(k) PROVE Durable(j)'
    BY <1>13, EndDoes DEF CancelChild, At, Up, Locked, MayEnd, Live
  <1>14. ASSUME NEW k \in Kids, Ask(k) PROVE Durable(j)'
    BY <1>14 DEF Ask, Up
  <1>15. ASSUME NEW k \in Kids, Settle(k) PROVE Durable(j)'
    BY <1>15 DEF Settle, Up
  <1>16. ASSUME NEW k \in Kids, ExecAborted(k) PROVE Durable(j)'
    BY <1>16 DEF ExecAborted, Up
  <1>17. ASSUME NEW k \in Kids, NEW o \in Ended, ExecEnd(k, o) PROVE Durable(j)'
    BY <1>17 DEF ExecEnd, Up
  <1>18. ASSUME NEW k \in Kids, FinishRead(k) PROVE Durable(j)'
    BY <1>18, FinishDoes DEF Live
  <1>19. ASSUME NEW k \in Kids, FinishApply(k) PROVE Durable(j)'
    BY <1>19, FinishDoes DEF Live
  <1>20. ASSUME NEW k \in Kids, FinishRelease(k) PROVE Durable(j)'
    BY <1>20, FinishingDoes DEF FinishRelease, FinishAt, Up, Live, Release
  <1>21. ASSUME NEW k \in Kids, FinishRemove(k) PROVE Durable(j)'
    BY <1>21 DEF FinishRemove, FinishAt, Up, Locked
  <1>22. ASSUME NEW k \in Kids, Tell(k) PROVE Durable(j)'
    BY <1>22 DEF Tell, Up
  <1>23. ASSUME NEW k \in Kids, RecoverSubagent(k) PROVE Durable(j)'
    BY <1>23 DEF RecoverSubagent, MayEnd, Live, Release
  <1>24. CASE StopCommit
    BY <1>24, CommitDoes DEF StopCommit, StopIn, Stoppable, Live
  <1>25. CASE Crash
    BY <1>25 DEF Crash, Up, NoTask, NoStop
  <1>26. CASE RecoverStartup
    BY <1>26 DEF RecoverStartup
  <1>27. CASE Boot
    BY <1>27 DEF Boot, Live
  <1>28. CASE UNCHANGED <<kid, lease, task, registry>>
    BY <1>28
  <1> QED
    BY <1>1, <1>2, <1>3, <1>4, <1>5, <1>6, <1>7, <1>8, <1>9, <1>10, <1>11, <1>12, <1>13,
       <1>14, <1>15, <1>16, <1>17, <1>18, <1>19, <1>20, <1>21, <1>22, <1>23, <1>24, <1>25,
       <1>26, <1>27, <1>28, Elsewhere DEF Next, Stopping, Restarting, Starting, Running

\* The lease of a child that has not ended is kept by every step but the unwinding of
\* a failed start.
LEMMA StepLeased ==
  ASSUME Typed, Reported, NEW j \in Kids, Early(j), Leased(j), [Next]_vars
  PROVE  Leased(j)'
  <1> USE DEF Typed, KidRecords, TaskRecords, durable, stopping, Early, Leased, Live,
      Nonterminal
  <1>1. ASSUME NEW k \in Kids, NEW d \in BOOLEAN, Start(k, d) PROVE Leased(j)'
    BY <1>1 DEF Start, At, Up
  <1>2. ASSUME NEW k \in Kids, Acquire(k) PROVE Leased(j)'
    BY <1>2, AcquireDoes, GotoDoes DEF Live
  <1>3. ASSUME NEW k \in Kids, Record(k) PROVE Leased(j)'
    BY <1>3, RecordDoes, GotoDoes DEF Record, At, Live
  <1>4. ASSUME NEW k \in Kids, Fail(k) PROVE Leased(j)'
    BY <1>4, AcquireDoes, GotoDoes DEF Live
  <1>5. ASSUME NEW k \in Kids, Unwind(k) PROVE Leased(j)'
    BY <1>5, GotoDoes DEF Unwind, At, Up, Release
  <1>6. ASSUME NEW k \in Kids, Make(k) PROVE Leased(j)'
    BY <1>6, MakeDoes DEF Live
  <1>7. ASSUME NEW k \in Kids, Register(k) PROVE Leased(j)'
    BY <1>7 DEF Register, At, Up, Locked, RegisterAs, Live
  <1>8. ASSUME NEW k \in Kids, Detach(k) PROVE Leased(j)'
    BY <1>8, GotoDoes DEF Detach, At, Up, Locked
  <1>9. ASSUME NEW k \in Kids, Publish(k) PROVE Leased(j)'
    BY <1>9, GotoDoes DEF Publish, At, Up, Locked
  <1>10. ASSUME NEW k \in Kids, SendStart(k) PROVE Leased(j)'
    BY <1>10 DEF SendStart, At, Up
  <1>11. ASSUME NEW k \in Kids, Rollback(k) PROVE Leased(j)'
    BY <1>11 DEF Rollback, At, Up, Locked, CancelAttached
  <1>12. ASSUME NEW k \in Kids, CallerDropped(k) PROVE Leased(j)'
    BY <1>12 DEF CallerDropped, At, Up, Locked, CancelAttached
  <1>13. ASSUME NEW k \in Kids, CancelChild(k) PROVE Leased(j)'
    BY <1>13, EndDoes DEF CancelChild, At, Up, Locked, MayEnd, Live
  <1>14. ASSUME NEW k \in Kids, Ask(k) PROVE Leased(j)'
    BY <1>14 DEF Ask, Up
  <1>15. ASSUME NEW k \in Kids, Settle(k) PROVE Leased(j)'
    BY <1>15 DEF Settle, Up
  <1>16. ASSUME NEW k \in Kids, ExecAborted(k) PROVE Leased(j)'
    BY <1>16 DEF ExecAborted, Up
  <1>17. ASSUME NEW k \in Kids, NEW o \in Ended, ExecEnd(k, o) PROVE Leased(j)'
    BY <1>17 DEF ExecEnd, Up
  <1>18. ASSUME NEW k \in Kids, FinishRead(k) PROVE Leased(j)'
    BY <1>18, FinishDoes DEF Live
  <1>19. ASSUME NEW k \in Kids, FinishApply(k) PROVE Leased(j)'
    BY <1>19, FinishDoes DEF Live
  <1>20. ASSUME NEW k \in Kids, FinishRelease(k) PROVE Leased(j)'
    BY <1>20, FinishingDoes DEF FinishRelease, FinishAt, Up, Live, Release
  <1>21. ASSUME NEW k \in Kids, FinishRemove(k) PROVE Leased(j)'
    BY <1>21 DEF FinishRemove, FinishAt, Up, Locked
  <1>22. ASSUME NEW k \in Kids, Tell(k) PROVE Leased(j)'
    BY <1>22 DEF Tell, Up
  <1>23. ASSUME NEW k \in Kids, RecoverSubagent(k) PROVE Leased(j)'
    BY <1>23 DEF RecoverSubagent, MayEnd, Live, Release
  <1>24. CASE StopCommit
    BY <1>24, CommitDoes DEF StopCommit, StopIn, Stoppable, Live
  <1>25. CASE Crash
    BY <1>25 DEF Crash, Up, NoTask, NoStop
  <1>26. CASE RecoverStartup
    BY <1>26 DEF RecoverStartup
  <1>27. CASE Boot
    BY <1>27 DEF Boot, Live
  <1>28. CASE UNCHANGED <<kid, lease, task, registry>>
    BY <1>28
  <1> QED
    BY <1>1, <1>2, <1>3, <1>4, <1>5, <1>6, <1>7, <1>8, <1>9, <1>10, <1>11, <1>12, <1>13,
       <1>14, <1>15, <1>16, <1>17, <1>18, <1>19, <1>20, <1>21, <1>22, <1>23, <1>24, <1>25,
       <1>26, <1>27, <1>28, Elsewhere DEF Next, Stopping, Restarting, Starting, Running

\* A child that is let go on in the background is out of the reach of its callers.
LEMMA StepDetached ==
  ASSUME Typed, Reported, NEW j \in Kids, Early(j), Detached(j), [Next]_vars
  PROVE  Detached(j)'
  <1> USE DEF Typed, KidRecords, TaskRecords, durable, stopping, Early, Detached, Live,
      Nonterminal, Terminal
  <1>1. ASSUME NEW k \in Kids, NEW d \in BOOLEAN, Start(k, d) PROVE Detached(j)'
    BY <1>1 DEF Start, At, Up
  <1>2. ASSUME NEW k \in Kids, Acquire(k) PROVE Detached(j)'
    BY <1>2, AcquireDoes, GotoDoes DEF Live
  <1>3. ASSUME NEW k \in Kids, Record(k) PROVE Detached(j)'
    BY <1>3, RecordDoes, GotoDoes DEF Record, At, Live
  <1>4. ASSUME NEW k \in Kids, Fail(k) PROVE Detached(j)'
    BY <1>4, AcquireDoes, GotoDoes DEF Live
  <1>5. ASSUME NEW k \in Kids, Unwind(k) PROVE Detached(j)'
    BY <1>5, GotoDoes DEF Unwind, At, Up, Release
  <1>6. ASSUME NEW k \in Kids, Make(k) PROVE Detached(j)'
    BY <1>6, MakeDoes DEF Live
  <1>7. ASSUME NEW k \in Kids, Register(k) PROVE Detached(j)'
    BY <1>7 DEF Register, At, Up, Locked, RegisterAs, Live
  <1>8. ASSUME NEW k \in Kids, Detach(k) PROVE Detached(j)'
    BY <1>8, GotoDoes DEF Detach, At, Up, Locked
  <1>9. ASSUME NEW k \in Kids, Publish(k) PROVE Detached(j)'
    BY <1>9, GotoDoes DEF Publish, At, Up, Locked
  <1>10. ASSUME NEW k \in Kids, SendStart(k) PROVE Detached(j)'
    BY <1>10 DEF SendStart, At, Up
  <1>11. ASSUME NEW k \in Kids, Rollback(k) PROVE Detached(j)'
    BY <1>11 DEF Rollback, At, Up, Locked, CancelAttached
  <1>12. ASSUME NEW k \in Kids, CallerDropped(k) PROVE Detached(j)'
    BY <1>12 DEF CallerDropped, At, Up, Locked, CancelAttached
  <1>13. ASSUME NEW k \in Kids, CancelChild(k) PROVE Detached(j)'
    BY <1>13, EndDoes DEF CancelChild, At, Up, Locked, MayEnd, Live
  <1>14. ASSUME NEW k \in Kids, Ask(k) PROVE Detached(j)'
    BY <1>14 DEF Ask, Up
  <1>15. ASSUME NEW k \in Kids, Settle(k) PROVE Detached(j)'
    BY <1>15 DEF Settle, Up
  <1>16. ASSUME NEW k \in Kids, ExecAborted(k) PROVE Detached(j)'
    BY <1>16 DEF ExecAborted, Up
  <1>17. ASSUME NEW k \in Kids, NEW o \in Ended, ExecEnd(k, o) PROVE Detached(j)'
    BY <1>17 DEF ExecEnd, Up
  <1>18. ASSUME NEW k \in Kids, FinishRead(k) PROVE Detached(j)'
    BY <1>18, FinishDoes DEF Live
  <1>19. ASSUME NEW k \in Kids, FinishApply(k) PROVE Detached(j)'
    BY <1>19, FinishDoes DEF Live
  <1>20. ASSUME NEW k \in Kids, FinishRelease(k) PROVE Detached(j)'
    BY <1>20, FinishingDoes DEF FinishRelease, FinishAt, Up, Live, Release
  <1>21. ASSUME NEW k \in Kids, FinishRemove(k) PROVE Detached(j)'
    BY <1>21 DEF FinishRemove, FinishAt, Up, Locked
  <1>22. ASSUME NEW k \in Kids, Tell(k) PROVE Detached(j)'
    BY <1>22 DEF Tell, Up
  <1>23. ASSUME NEW k \in Kids, RecoverSubagent(k) PROVE Detached(j)'
    BY <1>23 DEF RecoverSubagent, MayEnd, Live, Release
  <1>24. CASE StopCommit
    BY <1>24, CommitDoes DEF StopCommit, StopIn, Stoppable, Live
  <1>25. CASE Crash
    BY <1>25 DEF Crash, Up, NoTask, NoStop
  <1>26. CASE RecoverStartup
    BY <1>26 DEF RecoverStartup
  <1>27. CASE Boot
    BY <1>27 DEF Boot, Live
  <1>28. CASE UNCHANGED <<kid, lease, task, registry>>
    BY <1>28
  <1> QED
    BY <1>1, <1>2, <1>3, <1>4, <1>5, <1>6, <1>7, <1>8, <1>9, <1>10, <1>11, <1>12, <1>13,
       <1>14, <1>15, <1>16, <1>17, <1>18, <1>19, <1>20, <1>21, <1>22, <1>23, <1>24, <1>25,
       <1>26, <1>27, <1>28, Elsewhere DEF Next, Stopping, Restarting, Starting, Running

\* Whoever makes a child yield tells it, or its registration does.
LEMMA StepHeard ==
  ASSUME Typed, Reported, NEW j \in Kids, Early(j), Detached(j), Heard(j), [Next]_vars
  PROVE  Heard(j)'
  <1> USE DEF Typed, KidRecords, TaskRecords, durable, stopping, Early, Detached, Heard,
      Terminal
  <1>1. ASSUME NEW k \in Kids, NEW d \in BOOLEAN, Start(k, d) PROVE Heard(j)'
    BY <1>1 DEF Start, At, Up
  <1>2. ASSUME NEW k \in Kids, Acquire(k) PROVE Heard(j)'
    BY <1>2, AcquireDoes, GotoDoes DEF Live
  <1>3. ASSUME NEW k \in Kids, Record(k) PROVE Heard(j)'
    BY <1>3, RecordDoes, GotoDoes DEF Record, At, Live
  <1>4. ASSUME NEW k \in Kids, Fail(k) PROVE Heard(j)'
    BY <1>4, AcquireDoes, GotoDoes DEF Live
  <1>5. ASSUME NEW k \in Kids, Unwind(k) PROVE Heard(j)'
    BY <1>5, GotoDoes DEF Unwind, At, Up, Release
  <1>6. ASSUME NEW k \in Kids, Make(k) PROVE Heard(j)'
    BY <1>6, MakeDoes DEF Live
  <1>7. ASSUME NEW k \in Kids, Register(k) PROVE Heard(j)'
    BY <1>7 DEF Register, At, Up, Locked, RegisterAs, Live
  <1>8. ASSUME NEW k \in Kids, Detach(k) PROVE Heard(j)'
    BY <1>8, GotoDoes DEF Detach, At, Up, Locked
  <1>9. ASSUME NEW k \in Kids, Publish(k) PROVE Heard(j)'
    BY <1>9, GotoDoes DEF Publish, At, Up, Locked
  <1>10. ASSUME NEW k \in Kids, SendStart(k) PROVE Heard(j)'
    BY <1>10 DEF SendStart, At, Up
  <1>11. ASSUME NEW k \in Kids, Rollback(k) PROVE Heard(j)'
    BY <1>11 DEF Rollback, At, Up, Locked, CancelAttached
  <1>12. ASSUME NEW k \in Kids, CallerDropped(k) PROVE Heard(j)'
    BY <1>12 DEF CallerDropped, At, Up, Locked, CancelAttached
  <1>13. ASSUME NEW k \in Kids, CancelChild(k) PROVE Heard(j)'
    BY <1>13, EndDoes DEF CancelChild, At, Up, Locked, MayEnd, Live
  <1>14. ASSUME NEW k \in Kids, Ask(k) PROVE Heard(j)'
    BY <1>14 DEF Ask, Up
  <1>15. ASSUME NEW k \in Kids, Settle(k) PROVE Heard(j)'
    BY <1>15 DEF Settle, Up
  <1>16. ASSUME NEW k \in Kids, ExecAborted(k) PROVE Heard(j)'
    BY <1>16 DEF ExecAborted, Up
  <1>17. ASSUME NEW k \in Kids, NEW o \in Ended, ExecEnd(k, o) PROVE Heard(j)'
    BY <1>17 DEF ExecEnd, Up
  <1>18. ASSUME NEW k \in Kids, FinishRead(k) PROVE Heard(j)'
    BY <1>18, FinishDoes DEF Live
  <1>19. ASSUME NEW k \in Kids, FinishApply(k) PROVE Heard(j)'
    BY <1>19, FinishDoes DEF Live
  <1>20. ASSUME NEW k \in Kids, FinishRelease(k) PROVE Heard(j)'
    BY <1>20, FinishingDoes DEF FinishRelease, FinishAt, Up, Live, Release
  <1>21. ASSUME NEW k \in Kids, FinishRemove(k) PROVE Heard(j)'
    BY <1>21 DEF FinishRemove, FinishAt, Up, Locked
  <1>22. ASSUME NEW k \in Kids, Tell(k) PROVE Heard(j)'
    BY <1>22 DEF Tell, Up
  <1>23. ASSUME NEW k \in Kids, RecoverSubagent(k) PROVE Heard(j)'
    BY <1>23 DEF RecoverSubagent, MayEnd, Live, Release
  <1>24. CASE StopCommit
    BY <1>24, CommitDoes DEF StopCommit, StopIn, Stoppable, Live
  <1>25. CASE Crash
    BY <1>25 DEF Crash, Up, NoTask, NoStop
  <1>26. CASE RecoverStartup
    BY <1>26 DEF RecoverStartup
  <1>27. CASE Boot
    BY <1>27 DEF Boot, Live
  <1>28. CASE UNCHANGED <<kid, lease, task, registry>>
    BY <1>28
  <1> QED
    BY <1>1, <1>2, <1>3, <1>4, <1>5, <1>6, <1>7, <1>8, <1>9, <1>10, <1>11, <1>12, <1>13,
       <1>14, <1>15, <1>16, <1>17, <1>18, <1>19, <1>20, <1>21, <1>22, <1>23, <1>24, <1>25,
       <1>26, <1>27, <1>28, Elsewhere DEF Next, Stopping, Restarting, Starting, Running

\* A stop is accepted from a parent that then yields, and it starts no child after.
LEMMA StepHalted ==
  ASSUME Typed, Halted, [Next]_vars
  PROVE  Halted'
  <1> USE DEF Typed, StopRecords, Halted, durable, stopping
  <1>1. ASSUME NEW k \in Kids, NEW d \in BOOLEAN, Start(k, d) PROVE Halted'
    BY <1>1 DEF Start
  <1>2. ASSUME NEW k \in Kids, Acquire(k) PROVE Halted'
    BY <1>2 DEF Acquire
  <1>3. ASSUME NEW k \in Kids, Record(k) PROVE Halted'
    BY <1>3 DEF Record
  <1>4. ASSUME NEW k \in Kids, Fail(k) PROVE Halted'
    BY <1>4 DEF Fail
  <1>5. ASSUME NEW k \in Kids, Unwind(k) PROVE Halted'
    BY <1>5 DEF Unwind
  <1>6. ASSUME NEW k \in Kids, Make(k) PROVE Halted'
    BY <1>6 DEF Make
  <1>7. ASSUME NEW k \in Kids, Register(k) PROVE Halted'
    BY <1>7 DEF Register
  <1>8. ASSUME NEW k \in Kids, Detach(k) PROVE Halted'
    BY <1>8 DEF Detach
  <1>9. ASSUME NEW k \in Kids, Publish(k) PROVE Halted'
    BY <1>9 DEF Publish
  <1>10. ASSUME NEW k \in Kids, SendStart(k) PROVE Halted'
    BY <1>10 DEF SendStart
  <1>11. ASSUME NEW k \in Kids, Rollback(k) PROVE Halted'
    BY <1>11 DEF Rollback
  <1>12. ASSUME NEW k \in Kids, CallerDropped(k) PROVE Halted'
    BY <1>12 DEF CallerDropped
  <1>13. ASSUME NEW k \in Kids, CancelChild(k) PROVE Halted'
    BY <1>13 DEF CancelChild
  <1>14. ASSUME NEW k \in Kids, Ask(k) PROVE Halted'
    BY <1>14 DEF Ask
  <1>15. ASSUME NEW k \in Kids, Settle(k) PROVE Halted'
    BY <1>15 DEF Settle
  <1>16. ASSUME NEW k \in Kids, ExecAborted(k) PROVE Halted'
    BY <1>16 DEF ExecAborted
  <1>17. ASSUME NEW k \in Kids, NEW o \in Ended, ExecEnd(k, o) PROVE Halted'
    BY <1>17 DEF ExecEnd
  <1>18. ASSUME NEW k \in Kids, FinishRead(k) PROVE Halted'
    BY <1>18 DEF FinishRead
  <1>19. ASSUME NEW k \in Kids, FinishApply(k) PROVE Halted'
    BY <1>19 DEF FinishApply
  <1>20. ASSUME NEW k \in Kids, FinishRelease(k) PROVE Halted'
    BY <1>20 DEF FinishRelease
  <1>21. ASSUME NEW k \in Kids, FinishRemove(k) PROVE Halted'
    BY <1>21 DEF FinishRemove
  <1>22. ASSUME NEW k \in Kids, Tell(k) PROVE Halted'
    BY <1>22 DEF Tell
  <1>23. ASSUME NEW k \in Kids, RecoverSubagent(k) PROVE Halted'
    BY <1>23 DEF RecoverSubagent
  <1>24. ASSUME NEW f \in BOOLEAN, ParentStop(f) PROVE Halted'
    BY <1>24 DEF ParentStop, NoStop
  <1>25. CASE StopRead
    BY <1>25 DEF StopRead, StopFails, NoStop, StopIn
  <1>26. CASE StopCommit
    BY <1>26 DEF StopCommit, StopFails, NoStop, StopIn
  <1>27. CASE StopDone
    BY <1>27 DEF StopDone, StopIn
  <1>28. CASE StopRetry
    BY <1>28 DEF StopRetry, StopIn
  <1>29. CASE ActorFails
    BY <1>29 DEF ActorFails, NoStop
  <1>30. CASE ParentFails
    BY <1>30 DEF ParentFails
  <1>31. CASE ParentEnds
    BY <1>31 DEF ParentEnds
  <1>32. CASE Crash
    BY <1>32 DEF Crash, NoStop
  <1>33. CASE RecoverStartup
    BY <1>33 DEF RecoverStartup
  <1>34. CASE Boot
    BY <1>34 DEF Boot
  <1>35. CASE UNCHANGED vars
    BY <1>35 DEF vars
  <1> QED
    BY <1>1, <1>2, <1>3, <1>4, <1>5, <1>6, <1>7, <1>8, <1>9, <1>10, <1>11, <1>12, <1>13,
       <1>14, <1>15, <1>16, <1>17, <1>18, <1>19, <1>20, <1>21, <1>22, <1>23, <1>24, <1>25,
       <1>26, <1>27, <1>28, <1>29, <1>30, <1>31, <1>32, <1>33, <1>34, <1>35 DEF Next,
       Stopping, Restarting, Starting, Running

\* The stop holds the registry lock from its list to its commit, so the list stays
\* complete: a child can end or detach meanwhile, but none can start.
LEMMA StepListed ==
  ASSUME Typed, Reported, Halted, NEW j \in Kids, Early(j), Detached(j), Listed(j),
         [Next]_vars
  PROVE  Listed(j)'
  <1> USE DEF Typed, KidRecords, TaskRecords, durable, stopping, StopRecords, Early,
      Detached, Listed, Halted, Live, Nonterminal, Terminal
  <1>1. ASSUME NEW k \in Kids, NEW d \in BOOLEAN, Start(k, d) PROVE Listed(j)'
    BY <1>1 DEF Start, At, Up
  <1>2. ASSUME NEW k \in Kids, Acquire(k) PROVE Listed(j)'
    BY <1>2, AcquireDoes, GotoDoes DEF Live
  <1>3. ASSUME NEW k \in Kids, Record(k) PROVE Listed(j)'
    BY <1>3, RecordDoes, GotoDoes DEF Record, At, Live
  <1>4. ASSUME NEW k \in Kids, Fail(k) PROVE Listed(j)'
    BY <1>4, AcquireDoes, GotoDoes DEF Live
  <1>5. ASSUME NEW k \in Kids, Unwind(k) PROVE Listed(j)'
    BY <1>5, GotoDoes DEF Unwind, At, Up, Release
  <1>6. ASSUME NEW k \in Kids, Make(k) PROVE Listed(j)'
    BY <1>6, MakeDoes DEF Live
  <1>7. ASSUME NEW k \in Kids, Register(k) PROVE Listed(j)'
    BY <1>7 DEF Register, At, Up, Locked, RegisterAs, Live
  <1>8. ASSUME NEW k \in Kids, Detach(k) PROVE Listed(j)'
    BY <1>8, GotoDoes DEF Detach, At, Up, Locked
  <1>9. ASSUME NEW k \in Kids, Publish(k) PROVE Listed(j)'
    BY <1>9, GotoDoes DEF Publish, At, Up, Locked
  <1>10. ASSUME NEW k \in Kids, SendStart(k) PROVE Listed(j)'
    BY <1>10 DEF SendStart, At, Up
  <1>11. ASSUME NEW k \in Kids, Rollback(k) PROVE Listed(j)'
    BY <1>11 DEF Rollback, At, Up, Locked, CancelAttached
  <1>12. ASSUME NEW k \in Kids, CallerDropped(k) PROVE Listed(j)'
    BY <1>12 DEF CallerDropped, At, Up, Locked, CancelAttached
  <1>13. ASSUME NEW k \in Kids, CancelChild(k) PROVE Listed(j)'
    BY <1>13, EndDoes DEF CancelChild, At, Up, Locked, MayEnd, Live
  <1>14. ASSUME NEW k \in Kids, Ask(k) PROVE Listed(j)'
    BY <1>14 DEF Ask, Up
  <1>15. ASSUME NEW k \in Kids, Settle(k) PROVE Listed(j)'
    BY <1>15 DEF Settle, Up
  <1>16. ASSUME NEW k \in Kids, ExecAborted(k) PROVE Listed(j)'
    BY <1>16 DEF ExecAborted, Up
  <1>17. ASSUME NEW k \in Kids, NEW o \in Ended, ExecEnd(k, o) PROVE Listed(j)'
    BY <1>17 DEF ExecEnd, Up
  <1>18. ASSUME NEW k \in Kids, FinishRead(k) PROVE Listed(j)'
    BY <1>18, FinishDoes DEF Live
  <1>19. ASSUME NEW k \in Kids, FinishApply(k) PROVE Listed(j)'
    BY <1>19, FinishDoes DEF Live
  <1>20. ASSUME NEW k \in Kids, FinishRelease(k) PROVE Listed(j)'
    BY <1>20, FinishingDoes DEF FinishRelease, FinishAt, Up, Live, Release
  <1>21. ASSUME NEW k \in Kids, FinishRemove(k) PROVE Listed(j)'
    BY <1>21 DEF FinishRemove, FinishAt, Up, Locked
  <1>22. ASSUME NEW k \in Kids, Tell(k) PROVE Listed(j)'
    BY <1>22 DEF Tell, Up
  <1>23. ASSUME NEW k \in Kids, RecoverSubagent(k) PROVE Listed(j)'
    BY <1>23 DEF RecoverSubagent, MayEnd, Live, Release
  <1>24. ASSUME NEW f \in BOOLEAN, ParentStop(f) PROVE Listed(j)'
    BY <1>24 DEF ParentStop, Up, NoStop
  <1>25. CASE StopRead
    BY <1>25, ReadDoes DEF Stoppable, Live
  <1>26. CASE StopCommit
    BY <1>26, CommitDoes DEF StopCommit, StopIn, Stoppable, Live
  <1>27. CASE StopDone
    BY <1>27 DEF StopDone, StopIn, Up
  <1>28. CASE StopRetry
    BY <1>28 DEF StopRetry, StopIn, Up
  <1>29. CASE ActorFails
    BY <1>29 DEF ActorFails, Up, NoStop
  <1>30. CASE ParentFails
    BY <1>30 DEF ParentFails, Up
  <1>31. CASE ParentEnds
    BY <1>31 DEF ParentEnds, Up
  <1>32. CASE Crash
    BY <1>32 DEF Crash, Up, NoTask, NoStop
  <1>33. CASE RecoverStartup
    <2>1. kid'[j].state = kid[j].state /\ kid'[j].detached = kid[j].detached
      BY <1>33 DEF RecoverStartup
    <2> QED
      BY <1>33, <2>1 DEF RecoverStartup
  <1>34. CASE Boot
    BY <1>34 DEF Boot, Live
  <1>35. CASE UNCHANGED vars
    BY <1>35 DEF vars
  <1> QED
    BY <1>1, <1>2, <1>3, <1>4, <1>5, <1>6, <1>7, <1>8, <1>9, <1>10, <1>11, <1>12, <1>13,
       <1>14, <1>15, <1>16, <1>17, <1>18, <1>19, <1>20, <1>21, <1>22, <1>23, <1>24, <1>25,
       <1>26, <1>27, <1>28, <1>29, <1>30, <1>31, <1>32, <1>33, <1>34, <1>35 DEF Next,
       Stopping, Restarting, Starting, Running

\* No step moves a child out of a terminal state.
LEMMA StepTerminal ==
  ASSUME Typed, Reported, NEW j \in Kids, Early(j), kid[j].state \in Terminal, [Next]_vars
  PROVE  kid'[j].state = kid[j].state
  <1> USE DEF Typed, KidRecords, TaskRecords, durable, stopping, Early, Terminal,
      Nonterminal
  <1>1. ASSUME NEW k \in Kids, NEW d \in BOOLEAN, Start(k, d) PROVE kid'[j].state = kid[j].state
    BY <1>1 DEF Start, At, Up
  <1>2. ASSUME NEW k \in Kids, Acquire(k) PROVE kid'[j].state = kid[j].state
    BY <1>2, AcquireDoes, GotoDoes DEF Live
  <1>3. ASSUME NEW k \in Kids, Record(k) PROVE kid'[j].state = kid[j].state
    BY <1>3, RecordDoes, GotoDoes DEF Record, At, Live
  <1>4. ASSUME NEW k \in Kids, Fail(k) PROVE kid'[j].state = kid[j].state
    BY <1>4, AcquireDoes, GotoDoes DEF Live
  <1>5. ASSUME NEW k \in Kids, Unwind(k) PROVE kid'[j].state = kid[j].state
    BY <1>5, GotoDoes DEF Unwind, At, Up, Release
  <1>6. ASSUME NEW k \in Kids, Make(k) PROVE kid'[j].state = kid[j].state
    BY <1>6, MakeDoes DEF Live
  <1>7. ASSUME NEW k \in Kids, Register(k) PROVE kid'[j].state = kid[j].state
    BY <1>7 DEF Register, At, Up, Locked, RegisterAs, Live
  <1>8. ASSUME NEW k \in Kids, Detach(k) PROVE kid'[j].state = kid[j].state
    BY <1>8, GotoDoes DEF Detach, At, Up, Locked
  <1>9. ASSUME NEW k \in Kids, Publish(k) PROVE kid'[j].state = kid[j].state
    BY <1>9, GotoDoes DEF Publish, At, Up, Locked
  <1>10. ASSUME NEW k \in Kids, SendStart(k) PROVE kid'[j].state = kid[j].state
    BY <1>10 DEF SendStart, At, Up
  <1>11. ASSUME NEW k \in Kids, Rollback(k) PROVE kid'[j].state = kid[j].state
    BY <1>11 DEF Rollback, At, Up, Locked, CancelAttached
  <1>12. ASSUME NEW k \in Kids, CallerDropped(k) PROVE kid'[j].state = kid[j].state
    BY <1>12 DEF CallerDropped, At, Up, Locked, CancelAttached
  <1>13. ASSUME NEW k \in Kids, CancelChild(k) PROVE kid'[j].state = kid[j].state
    BY <1>13, EndDoes DEF CancelChild, At, Up, Locked, MayEnd, Live
  <1>14. ASSUME NEW k \in Kids, Ask(k) PROVE kid'[j].state = kid[j].state
    BY <1>14 DEF Ask, Up
  <1>15. ASSUME NEW k \in Kids, Settle(k) PROVE kid'[j].state = kid[j].state
    BY <1>15 DEF Settle, Up
  <1>16. ASSUME NEW k \in Kids, ExecAborted(k) PROVE kid'[j].state = kid[j].state
    BY <1>16 DEF ExecAborted, Up
  <1>17. ASSUME NEW k \in Kids, NEW o \in Ended, ExecEnd(k, o) PROVE kid'[j].state = kid[j].state
    BY <1>17 DEF ExecEnd, Up
  <1>18. ASSUME NEW k \in Kids, FinishRead(k) PROVE kid'[j].state = kid[j].state
    BY <1>18, FinishDoes DEF Live
  <1>19. ASSUME NEW k \in Kids, FinishApply(k) PROVE kid'[j].state = kid[j].state
    BY <1>19, FinishDoes DEF Live
  <1>20. ASSUME NEW k \in Kids, FinishRelease(k) PROVE kid'[j].state = kid[j].state
    BY <1>20, FinishingDoes DEF FinishRelease, FinishAt, Up, Live, Release
  <1>21. ASSUME NEW k \in Kids, FinishRemove(k) PROVE kid'[j].state = kid[j].state
    BY <1>21 DEF FinishRemove, FinishAt, Up, Locked
  <1>22. ASSUME NEW k \in Kids, Tell(k) PROVE kid'[j].state = kid[j].state
    BY <1>22 DEF Tell, Up
  <1>23. ASSUME NEW k \in Kids, RecoverSubagent(k) PROVE kid'[j].state = kid[j].state
    BY <1>23 DEF RecoverSubagent, MayEnd, Live, Release
  <1>24. CASE StopCommit
    BY <1>24, CommitDoes DEF StopCommit, StopIn, Stoppable, Live
  <1>25. CASE Crash
    BY <1>25 DEF Crash, Up, NoTask, NoStop
  <1>26. CASE RecoverStartup
    BY <1>26 DEF RecoverStartup
  <1>27. CASE Boot
    BY <1>27 DEF Boot, Live
  <1>28. CASE UNCHANGED <<kid, lease, task, registry>>
    BY <1>28
  <1> QED
    BY <1>1, <1>2, <1>3, <1>4, <1>5, <1>6, <1>7, <1>8, <1>9, <1>10, <1>11, <1>12, <1>13,
       <1>14, <1>15, <1>16, <1>17, <1>18, <1>19, <1>20, <1>21, <1>22, <1>23, <1>24, <1>25,
       <1>26, <1>27, <1>28, Elsewhere DEF Next, Stopping, Restarting, Starting, Running

-----------------------------------------------------------------------------
(* The invariant *)

LEMMA InitSubagents == Init => SubagentInv
  <1> SUFFICES ASSUME Init PROVE SubagentInv
    OBVIOUS
  <1> USE Members DEF Init
  <1>1. /\ \A k \in Kids : kid[k] = [state |-> "none", detached |-> FALSE, recorded |-> FALSE,
                                     run |-> "none"]
        /\ \A k \in Kids : task[k] = NoTask
    OBVIOUS
  <1>2. kid \in [Kids -> KidRecords]
    BY DEF KidRecords
  <1>3. NoTask \in TaskRecords
    BY DEF NoTask, TaskRecords
  <1>4. task \in [Kids -> TaskRecords]
    BY <1>3
  <1>5. lease \in [Kids -> Leases] /\ registry \in [Kids -> Entries]
    OBVIOUS
  <1>6. stop \in StopRecords
    BY NoStopTyped
  <1>7. Typed
    BY <1>2, <1>4, <1>5, <1>6, SubagentConstants DEF Typed
  <1>8. Reported
    BY <1>1 DEF Reported, Reporting, NoTask
  <1>9. Halted
    BY DEF Halted, NoStop
  <1>10. ASSUME NEW k \in Kids PROVE KidInv(k)
    <2>1. ~Live(k) /\ kid[k].state \notin Terminal
      BY <1>1 DEF Live, Nonterminal, Terminal
    <2>2. registry[k] = "absent" /\ stop.pc = "idle"
      BY DEF NoStop
    <2> QED
      BY <1>1, <2>1, <2>2
      DEF KidInv, Early, Durable, Leased, Detached, Heard, Listed, Live, Nonterminal, NoTask
  <1> QED
    BY <1>7, <1>8, <1>9, <1>10 DEF SubagentInv

LEMMA StepSubagents == SubagentInv /\ [Next]_vars => SubagentInv'
  <1> SUFFICES ASSUME SubagentInv, [Next]_vars PROVE SubagentInv'
    OBVIOUS
  <1>1. Typed /\ Reported /\ Halted /\ \A j \in Kids : KidInv(j)
    BY DEF SubagentInv
  <1>2. Typed'
    BY <1>1, StepTyped
  <1>3. ASSUME NEW j \in Kids PROVE Reporting(j)'
    BY <1>1, StepReported DEF KidInv, Reported
  <1>4. Reported'
    BY <1>3 DEF Reported
  <1>5. Halted'
    BY <1>1, StepHalted
  <1>6. ASSUME NEW j \in Kids PROVE KidInv(j)'
    <2>1. Early(j) /\ Durable(j) /\ Leased(j) /\ Detached(j) /\ Heard(j) /\ Listed(j)
      BY <1>1 DEF KidInv
    <2>2. Early(j)'
      BY <1>1, <2>1, StepEarly
    <2>3. Durable(j)'
      BY <1>1, <2>1, StepDurable
    <2>4. Leased(j)'
      BY <1>1, <2>1, StepLeased
    <2>5. Detached(j)'
      BY <1>1, <2>1, StepDetached
    <2>6. Heard(j)'
      BY <1>1, <2>1, StepHeard
    <2>7. Listed(j)'
      BY <1>1, <2>1, StepListed
    <2> QED
      BY <2>2, <2>3, <2>4, <2>5, <2>6, <2>7 DEF KidInv
  <1>7. (\A j \in Kids : KidInv(j))'
    BY <1>6
  <1> QED
    BY <1>2, <1>4, <1>5, <1>7 DEF SubagentInv

LEMMA SubagentInvariant == Spec => []SubagentInv
  BY InitSubagents, StepSubagents, PTL DEF Spec

\* The durable child, the threads and the stop keep their types (subagent.rs).
THEOREM TypeCorrect == Spec => []TypeOK
  <1>1. SubagentInv => TypeOK
    BY DEF SubagentInv, Typed, TypeOK, KidRecords, TaskRecords, StopRecords, Runs, Execs,
           Controls, Reports, Finishers, Entries, StopPcs, Seens
  <1> QED
    BY <1>1, SubagentInvariant, PTL

\* finish_child tells the caller of a success only when the child's completion is durable,
\* whatever store errors, stops and crashes come between.
THEOREM Succeeded == Spec => []SuccessDurable
  <1>1. SubagentInv => SuccessDurable
    BY DEF SubagentInv, KidInv, Durable, SuccessDurable
  <1> QED
    BY <1>1, SubagentInvariant, PTL

\* finish_child leaves the worktree lease of a child whose end it could not record.
THEOREM KeepsLease == Spec => []UnrecordedKeepsLease
  <1>1. SubagentInv => UnrecordedKeepsLease
    BY DEF SubagentInv, KidInv, Leased, UnrecordedKeepsLease
  <1> QED
    BY <1>1, SubagentInvariant, PTL

\* Nothing but the rollback of its team (cancel_child) aborts a child that
\* continue_in_background has detached.
THEOREM Spared == Spec => []DetachedSpared
  <1>1. SubagentInv => DetachedSpared
    BY DEF SubagentInv, KidInv, Detached, DetachedSpared
  <1> QED
    BY <1>1, SubagentInvariant, PTL

\* When request_parent_stop has returned, every attached child has ended or is yielding
\* and, once registered, has been told.
THEOREM Heeded == Spec => []StopHeeded
  <1>1. SubagentInv => StopHeeded
    <2> SUFFICES ASSUME SubagentInv, stop.pc = "done", actor = "up", NEW k \in Kids, Live(k),
                        ~kid[k].detached
                 PROVE  /\ ~stop.force /\ kid[k].state = "yielding"
                        /\ registry[k] # "absent" => task[k].told # "none"
      BY DEF StopHeeded
    <2>1. Heard(k) /\ Listed(k)
      BY DEF SubagentInv, KidInv
    <2> QED
      BY <2>1 DEF Heard, Listed
  <1> QED
    BY <1>1, SubagentInvariant, PTL

\* A terminal state is never left: finish_child, request_parent_stop, cancel_child and
\* recover_subagent_actor check the state in the transaction that changes it.
THEOREM Final == Spec => TerminalFinal
  <1>1. SubagentInv /\ [Next]_vars =>
          [\A k \in Kids : kid[k].state \in Terminal => kid'[k].state = kid[k].state]_vars
    BY StepTerminal DEF SubagentInv, KidInv
  <1> QED
    BY <1>1, SubagentInvariant, PTL DEF Spec, TerminalFinal

=============================================================================
