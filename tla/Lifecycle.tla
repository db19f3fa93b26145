----------------------------- MODULE Lifecycle ------------------------------
(***************************************************************************)
(* The life of one sandbox across the control plane and the data plane.    *)
(*                                                                         *)
(*   client --RPC--> api-server --conditional put--> sandbox table         *)
(*                        |                                                *)
(*                        +--event--> daemon: indexer -> queue -> worker   *)
(*                        ^                                  |             *)
(*                        +------- UpdateSandbox ------------+             *)
(*                                                                         *)
(* Delivery is as weak as the code's: an emitted event or a sent update    *)
(* stays in its set for ever and may be taken late, repeatedly, out of     *)
(* order, or never.                                                        *)
(***************************************************************************)
EXTENDS SandboxImage, Sequences, FiniteSets

CONSTANTS ClientOps,      \* the operations the clients issue
          MaxVersion,     \* bound: no new request once the row is this old
          MaxCalls,       \* bound: request handlers running at once
          MaxRetries,     \* controller.max-retries
          MaxSnapshots,   \* bound: snapshots that succeed; later ones fail
          MaxFaults       \* bound: failed calls, lost reports and restarts

ASSUME NodesAssumption      == Nodes # {} /\ IsFiniteSet(Nodes)
ASSUME OpsAssumption        == ClientOps \subseteq Ops
ASSUME MaxRetriesAssumption == MaxRetries \in Nat
ASSUME BoundsAssumption     ==
  /\ MaxVersion \in Nat /\ MaxCalls \in Nat
  /\ MaxSnapshots \in Nat /\ MaxFaults \in Nat

VARIABLES
  log,       \* log[v] is the row stored at version v; the last one is current
  events,    \* images published on the event stream
  calls,     \* handlers between their Get and their Update
  updates,   \* images daemons have sent in UpdateSandbox requests
  index,     \* index[n]: the image in daemon n's indexer
  queued,    \* queued[n]: the id is in daemon n's work queue
  retries,   \* retries[n]: NumRequeues of the id
  pc,        \* pc[n]: where daemon n's worker is
  work,      \* work[n]: the image daemon n's worker is about to send
  vm,        \* vm[n]: the microVM as daemon n's provider knows it
  snaps,     \* number of snapshots taken so far, the source of fresh ids
  faults     \* number of faults so far

tableVars  == <<log, events>>
workerVars == <<retries, pc, work, vm, snaps, faults>>
vars == <<log, events, calls, updates, index, queued, retries, pc, work, vm,
          snaps, faults>>

Row == log[Len(log)]

Init ==
  /\ log = <<>> /\ events = {} /\ calls = {} /\ updates = {}
  /\ index   = [n \in Nodes |-> NoImage]
  /\ queued  = [n \in Nodes |-> FALSE]
  /\ retries = [n \in Nodes |-> 0]
  /\ pc      = [n \in Nodes |-> "idle"]
  /\ work    = [n \in Nodes |-> NoImage]
  /\ vm      = [n \in Nodes |-> "none"]
  /\ snaps   = 0
  /\ faults  = 0

-----------------------------------------------------------------------------
(* The sandbox table, behind the decorator that emits an event for every   *)
(* write that returns no error.                                            *)

(* Mutant: the version is not part of the condition.                       *)
ConditionOnPhaseOnly(img) == PriorPhaseAllowed(Row.phase, img.phase)

(* The conditional put: existence is implied, every caller has read a row. *)
ConditionHolds(img) ==
  /\ Row.version = img.version
  /\ PriorPhaseAllowed(Row.phase, img.phase)

(* Update bumps the caller's image before it puts it.  When the condition  *)
(* fails on a row of equal content the call succeeds as a replay, and the  *)
(* bumped image is emitted although nothing was stored.                    *)
Update(img) ==
  LET stamped == [img EXCEPT !.version = img.version + 1]
      replay  == contentDigest(img) = contentDigest(Row)
  IN  /\ log'    = IF ConditionHolds(img) THEN Append(log, stamped) ELSE log
      /\ events' = IF ConditionHolds(img) \/ replay
                   THEN events \cup {stamped} ELSE events

-----------------------------------------------------------------------------
(* The sandbox service.                                                    *)

(* CreateSandbox of an id that does not exist; the scheduler picks n.      *)
CreateSandbox(n) ==
  /\ log = <<>>
  /\ log' = <<NewSandbox(n)>>
  /\ events' = {NewSandbox(n)}
  /\ UNCHANGED <<calls, updates, index, queued, workerVars>>

(* A retried CreateSandbox whose row exists: the scheduler picks a node    *)
(* again, and a row of equal content makes the call a success.             *)
RetryCreateSandbox(n) ==
  /\ log # <<>>
  /\ contentDigest(NewSandbox(n)) = contentDigest(Row)
  /\ events' = events \cup {NewSandbox(n)}
  /\ UNCHANGED <<log, calls, updates, index, queued, workerVars>>

(* A handler starts: the client supplies a version it has seen (v), and    *)
(* the handler reads the current row.                                      *)
StartCall(op, v) ==
  /\ Cardinality(calls) < MaxCalls /\ Len(log) < MaxVersion
  /\ calls' = calls \cup {[op |-> op, version |-> v, base |-> Len(log)]}
  /\ UNCHANGED <<tableVars, updates, index, queued, workerVars>>

(* The client's request fits the image it read at version v.               *)
CheckedCall ==
  \E op \in ClientOps, v \in 1..Len(log) :
    Admits(op, log[v].phase) /\ StartCall(op, v)

(* The command line tool reads the current version only, and asks for the  *)
(* transition whatever the phase is.                                       *)
UncheckedCall ==
  /\ log # <<>>
  /\ \E op \in ClientOps : StartCall(op, Len(log))

(* The handler writes back what it read, changed as the operation says.    *)
FinishCall(c) ==
  /\ c \in calls
  /\ Update(Request(c.op, log[c.base], c.version))
  /\ calls' = calls \ {c}
  /\ UNCHANGED <<updates, index, queued, workerVars>>

(* Mutant: the update is written at whatever version the row has now.      *)
ApplyToLatest(u) ==
  /\ u \in updates
  /\ Update([u EXCEPT !.version = Len(log)])
  /\ UNCHANGED <<calls, updates, index, queued, workerVars>>

(* EstablishSession receives an UpdateSandbox and writes it through.       *)
ApplyUpdate(u) ==
  /\ u \in updates
  /\ Update(u)
  /\ UNCHANGED <<calls, updates, index, queued, workerVars>>

-----------------------------------------------------------------------------
(* The daemon's controller.                                                *)

(* Mutants: any image replaces the indexed one; only a newer one does.     *)
PutAnyVersion(n, img) ==
  /\ index'  = [index EXCEPT ![n] = img]
  /\ queued' = [queued EXCEPT ![n] = TRUE]
  /\ UNCHANGED <<tableVars, calls, updates, workerVars>>
PutOnlyNewer(n, img) ==
  /\ img.version > index[n].version
  /\ index'  = [index EXCEPT ![n] = img]
  /\ queued' = [queued EXCEPT ![n] = TRUE]
  /\ UNCHANGED <<tableVars, calls, updates, workerVars>>

(* indexer.Put followed by queue.Add; an older image is dropped.           *)
PutAndEnqueue(n, img) ==
  /\ img.version >= index[n].version
  /\ index'  = [index EXCEPT ![n] = img]
  /\ queued' = [queued EXCEPT ![n] = TRUE]
  /\ UNCHANGED <<tableVars, calls, updates, workerVars>>

(* Mutant: the session does not filter by node.                            *)
DispatchAnyNode(n, e) == e \in events /\ PutAndEnqueue(n, e)

(* An event for this node arrives on the session stream.                   *)
Dispatch(n, e) == e \in events /\ e.node = n /\ PutAndEnqueue(n, e)

(* The periodic listing of this node's rows; rows without intent skipped.  *)
Resync(n) ==
  /\ log # <<>> /\ Row.node = n /\ Row.intent # NoIntent
  /\ PutAndEnqueue(n, Row)

(* The worker takes the id off the queue and reads the indexer.  Nothing   *)
(* but the worker touches the microVM, so this step and the provider call  *)
(* that follows it are one step.                                           *)
Take(n, phases) ==
  /\ pc[n] = "idle" /\ queued[n]
  /\ index[n] # NoImage /\ index[n].intent # NoIntent
  /\ index[n].phase \in phases
  /\ queued' = [queued EXCEPT ![n] = FALSE]
  /\ UNCHANGED <<tableVars, calls, updates, index, retries>>

Goto(n, label, img) ==
  /\ pc'   = [pc EXCEPT ![n] = label]
  /\ work' = [work EXCEPT ![n] = img]

(* The reconciler returned nil and made img of the image it was given.     *)
Succeed(n, img) == Goto(n, "send", img) /\ UNCHANGED faults

(* It returned an error because the state of the daemon calls for one...   *)
Reject(n) == Goto(n, "failed", NoImage) /\ UNCHANGED faults

(* ...or because something outside the daemon failed.                      *)
Fault   == faults < MaxFaults /\ faults' = faults + 1
Fail(n) == Goto(n, "failed", NoImage) /\ Fault

(* No intent: nothing to do, and the retry count is forgotten.             *)
Skip(n) ==
  /\ pc[n] = "idle" /\ queued[n]
  /\ index[n] # NoImage /\ index[n].intent = NoIntent
  /\ queued'  = [queued EXCEPT ![n] = FALSE]
  /\ retries' = [retries EXCEPT ![n] = 0]
  /\ UNCHANGED <<tableVars, calls, updates, index, pc, work, vm, snaps, faults>>

(* An intent on a failed or deleted sandbox is cleared.                    *)
Abandon(n) ==
  /\ Take(n, {"FAILED", "DELETED"})
  /\ Succeed(n, Abandoned(index[n]))
  /\ UNCHANGED <<vm, snaps>>

(* boot: a microVM the provider already knows is left alone.               *)
Boot(n) ==
  /\ Take(n, {"PENDING"})
  /\ \/ /\ Succeed(n, Converged(index[n], index[n].snapshot))
        /\ vm' = [vm EXCEPT ![n] = IF @ = "none" THEN "running" ELSE @]
     \/ vm[n] = "none" /\ Fail(n) /\ UNCHANGED vm
  /\ UNCHANGED snaps

(* pause and resume: no microVM is an error; one already in the target     *)
(* state is success; a failed call may still have taken effect.            *)
Transition(n, phase, state) ==
  /\ Take(n, {phase})
  /\ IF vm[n] = "none"
     THEN Reject(n) /\ UNCHANGED vm
     ELSE \/ /\ Succeed(n, Converged(index[n], index[n].snapshot))
             /\ vm' = [vm EXCEPT ![n] = state]
          \/ /\ Fail(n)
             /\ vm' \in {vm, [vm EXCEPT ![n] = state]}
  /\ UNCHANGED snaps

Pause(n)  == Transition(n, "PAUSING", "paused")
Resume(n) == Transition(n, "RESUMING", "running")

(* delete: the provider forgets the microVM before tearing it down, so a   *)
(* failed teardown leaves nothing to retry; an unknown microVM is success. *)
Delete(n) ==
  /\ Take(n, {"DELETING"})
  /\ vm' = [vm EXCEPT ![n] = "none"]
  /\ \/ Succeed(n, Converged(index[n], index[n].snapshot))
     \/ vm[n] # "none" /\ Fail(n)
  /\ UNCHANGED snaps

(* snapshot of a microVM that runs: it is paused first, and the worker     *)
(* remembers (pc = "snapshot") that it must resume it.                     *)
PauseForSnapshot(n) ==
  /\ Take(n, {"SNAPSHOTTING"})
  /\ vm[n] = "running"
  /\ vm' = [vm EXCEPT ![n] = "paused"]
  /\ Goto(n, "snapshot", index[n])
  /\ UNCHANGED <<snaps, faults>>

(* The rest of a snapshot of img: a fresh id, or an error from the snapshot*)
(* call, the upload or the registration of the snapshot (always an error   *)
(* once the bound on successes is used up).                                *)
SnapshotOutcome(n, img) ==
  \/ /\ snaps < MaxSnapshots
     /\ snaps' = snaps + 1
     /\ Succeed(n, Converged(img, snaps + 1))
  \/ snaps < MaxSnapshots /\ Fail(n) /\ UNCHANGED snaps
  \/ snaps >= MaxSnapshots /\ Reject(n) /\ UNCHANGED snaps

(* Mutant: the microVM is left paused.                                     *)
FinishSnapshotPaused(n) ==
  /\ pc[n] = "snapshot"
  /\ SnapshotOutcome(n, work[n])
  /\ UNCHANGED <<tableVars, calls, updates, index, queued, retries, vm>>

FinishSnapshot(n) ==
  /\ pc[n] = "snapshot"
  /\ SnapshotOutcome(n, work[n])
  /\ vm' = [vm EXCEPT ![n] = "running"]
  /\ UNCHANGED <<tableVars, calls, updates, index, queued, retries>>

(* A microVM found paused is left paused; an unknown one is an error.      *)
SnapshotInPlace(n) ==
  /\ Take(n, {"SNAPSHOTTING"})
  /\ \/ vm[n] = "paused" /\ SnapshotOutcome(n, index[n])
     \/ vm[n] = "running" /\ Fail(n) /\ UNCHANGED snaps
     \/ vm[n] = "none" /\ Reject(n) /\ UNCHANGED snaps
  /\ UNCHANGED vm

(* The pause takes effect although the call reports an error.              *)
SnapshotPauseLost(n) ==
  /\ Take(n, {"SNAPSHOTTING"})
  /\ vm[n] = "running" /\ Fail(n)
  /\ vm' = [vm EXCEPT ![n] = "paused"]
  /\ UNCHANGED snaps

(* The resume after a snapshot fails, and its error is dropped.            *)
SnapshotResumeFails(n) ==
  /\ pc[n] = "snapshot" /\ Fault
  /\ \/ /\ snaps < MaxSnapshots /\ snaps' = snaps + 1
        /\ Goto(n, "send", Converged(work[n], snaps + 1))
     \/ Goto(n, "failed", NoImage) /\ UNCHANGED snaps
  /\ UNCHANGED <<tableVars, calls, updates, index, queued, retries, vm>>

(* Mutant: the indexed copy anticipates the table's version bump.          *)
SendAnticipating(n) ==
  /\ pc[n] = "send"
  /\ updates' = updates \cup {work[n]}
  /\ index'   = [index EXCEPT ![n] = [work[n] EXCEPT !.version = @ + 1]]
  /\ retries' = [retries EXCEPT ![n] = 0]
  /\ Goto(n, "idle", NoImage)
  /\ UNCHANGED <<tableVars, calls, queued, vm, snaps, faults>>

(* The update is written to the stream; the indexed image advances unless  *)
(* a newer one has arrived meanwhile, and the retry count is forgotten.    *)
Send(n) ==
  /\ pc[n] = "send"
  /\ updates' = updates \cup {work[n]}
  /\ index'   = [index EXCEPT ![n] =
                   IF work[n].version >= @.version THEN work[n] ELSE @]
  /\ retries' = [retries EXCEPT ![n] = 0]
  /\ Goto(n, "idle", NoImage)
  /\ UNCHANGED <<tableVars, calls, queued, vm, snaps, faults>>

(* The stream is down: an error like any other.                            *)
SendFails(n) ==
  /\ pc[n] = "send"
  /\ Fail(n)
  /\ UNCHANGED <<tableVars, calls, updates, index, queued, retries, vm, snaps>>

(* Mutant: one retry too many.                                             *)
RequeueOnceMore(n) ==
  /\ pc[n] = "failed" /\ retries[n] <= MaxRetries
  /\ retries' = [retries EXCEPT ![n] = @ + 1]
  /\ queued'  = [queued EXCEPT ![n] = TRUE]
  /\ Goto(n, "idle", NoImage)
  /\ UNCHANGED <<tableVars, calls, updates, index, vm, snaps, faults>>

(* The error is retried while the queue has counted fewer than MaxRetries. *)
Requeue(n) ==
  /\ pc[n] = "failed" /\ retries[n] < MaxRetries
  /\ retries' = [retries EXCEPT ![n] = @ + 1]
  /\ queued'  = [queued EXCEPT ![n] = TRUE]
  /\ Goto(n, "idle", NoImage)
  /\ UNCHANGED <<tableVars, calls, updates, index, vm, snaps, faults>>

(* Retries exhausted: markFailed reads the indexer again and reports       *)
(* whatever image is there as failed, and the count is forgotten.          *)
GiveUp(n) ==
  /\ pc[n] = "failed" /\ retries[n] >= MaxRetries
  /\ \/ updates' = updates \cup {MarkedFailed(index[n])} /\ UNCHANGED faults
     \/ UNCHANGED updates /\ Fault
  /\ retries' = [retries EXCEPT ![n] = 0]
  /\ Goto(n, "idle", NoImage)
  /\ UNCHANGED <<tableVars, calls, index, queued, vm, snaps>>

(* The daemon stops and starts again: what it held in memory is gone, and  *)
(* the provider re-attaches to the microVM if that answers.                *)
Restart(n) ==
  /\ Fault
  /\ index'   = [index EXCEPT ![n] = NoImage]
  /\ queued'  = [queued EXCEPT ![n] = FALSE]
  /\ retries' = [retries EXCEPT ![n] = 0]
  /\ Goto(n, "idle", NoImage)
  /\ vm' \in {vm, [vm EXCEPT ![n] = "none"]}
  /\ UNCHANGED <<tableVars, calls, updates, snaps>>

-----------------------------------------------------------------------------
(* Behaviours.                                                             *)

ControlPlane ==
  \/ \E n \in Nodes : CreateSandbox(n)
  \/ CheckedCall
  \/ \E c \in calls : FinishCall(c)
  \/ \E u \in updates : ApplyUpdate(u)

Worker(n) ==
  \/ Skip(n)
  \/ Abandon(n)
  \/ Boot(n)
  \/ Pause(n)
  \/ Resume(n)
  \/ Delete(n)
  \/ PauseForSnapshot(n)
  \/ FinishSnapshot(n)
  \/ SnapshotInPlace(n)
  \/ Send(n)
  \/ SendFails(n)
  \/ Requeue(n)
  \/ GiveUp(n)

Daemon(n) ==
  \/ \E e \in events : Dispatch(n, e)
  \/ Resync(n)
  \/ Worker(n)

(* Daemons stay up, and the calls by which a snapshot pauses and resumes a *)
(* microVM do not fail halfway.                                            *)
Step == ControlPlane \/ \E n \in Nodes : Daemon(n)

(* Daemons may also restart at any point, and those calls may fail so.     *)
Next ==
  \/ Step
  \/ \E n \in Nodes : Restart(n) \/ SnapshotPauseLost(n) \/ SnapshotResumeFails(n)

Spec == Init /\ [][Next]_vars

SteadySpec == Init /\ [][Step]_vars

(* The daemon reports on the current row, and the report is received.      *)
Reported ==
  \E n \in Nodes : \/ Send(n) /\ work[n].version = Len(log)
                   \/ GiveUp(n) /\ index[n].version = Len(log)
Received == \E u \in updates : u.version = Len(log) /\ ApplyUpdate(u)

(* The worker and the resync ticker keep running.  A report may be lost,   *)
(* but not every one of a daemon that reports for ever.                    *)
Fairness ==
  /\ \A n \in Nodes : WF_vars(Worker(n)) /\ WF_vars(Resync(n))
  /\ []<><<Reported>>_vars => []<><<Received>>_vars

FairSpec == Init /\ [][Next]_vars /\ Fairness

(* Steady daemons whose only extra fault is the resume after a snapshot.   *)
ResumeSpec == Init /\ [][Step \/ \E n \in Nodes : SnapshotResumeFails(n)]_vars

(* Two ways to use the system that the specifications above leave out:     *)
(* requests that ignore the phase, and a create retried onto another node. *)
UncheckedSpec == Init /\ [][Step \/ UncheckedCall]_vars
RetriedSpec   == Init /\ [][Step \/ \E n \in Nodes : RetryCreateSandbox(n)]_vars

-----------------------------------------------------------------------------
(* Correctness.                                                            *)

Labels == {"idle", "snapshot", "send", "failed"}
Calls  == [op : Ops, version : Nat \ {0}, base : Nat \ {0}]

(* Every variable has its shape.                                           *)
TypeOK ==
  /\ log \in Seq(Image)
  /\ events \subseteq Image
  /\ calls \subseteq Calls
  /\ updates \subseteq Image
  /\ index \in [Nodes -> Image \cup {NoImage}]
  /\ queued \in [Nodes -> BOOLEAN]
  /\ retries \in [Nodes -> 0..MaxRetries]
  /\ pc \in [Nodes -> Labels]
  /\ work \in [Nodes -> Image \cup {NoImage}]
  /\ vm \in [Nodes -> {"none", "running", "paused"}]
  /\ snaps \in Nat /\ faults \in Nat

(* No copy of the sandbox is newer than the stored row, whatever was       *)
(* retried, replayed, lost or delayed: so indexer.Put always accepts the   *)
(* row that resync lists, and a daemon that missed events catches up.      *)
NothingAhead ==
  /\ \A img \in events \cup updates : img.version <= Len(log)
  /\ \A n \in Nodes : index[n].version <= Len(log) /\ work[n].version <= Len(log)

(* An event with the current version is the current row: the image that    *)
(* Update emits for a replayed request, which it did not store, never      *)
(* passes for a newer state than the one stored.                           *)
EventsAgree == \A e \in events : e.version = Len(log) => e = Row

(* The sandbox stays where CreateSandbox scheduled it: only the daemon of  *)
(* the row's node ever has a microVM for it, so there is never a second one.*)
OneHome ==
  \A n \in Nodes :
    vm[n] # "none" => log # <<>> /\ Row.node = n

(* The row's phases follow the contract of the sandbox service: requests   *)
(* are admitted from the phases the handlers document, and one in force is *)
(* ended only by its completion, a delete, or FAILED, never by a late      *)
(* update for an earlier request.                                          *)
Contract ==
  INSTANCE SandboxPhases
    WITH phase  <- IF log = <<>> THEN "ABSENT" ELSE Row.phase,
         intent <- IF log = <<>> THEN NoIntent ELSE Row.intent
ImplementsPhases == Contract!Spec

(* The microVM's state once a snapshot in progress has resumed it.         *)
RestState(n) == IF pc[n] = "snapshot" THEN "running" ELSE vm[n]

(* A row at rest tells the truth: the row says RUNNING, PAUSED or DELETED  *)
(* with nothing left to do only if the microVM on its node is running,     *)
(* paused or gone, although daemons re-execute redelivered events.         *)
RestingRowMatchesVM ==
  log # <<>> /\ Row.intent = NoIntent =>
    /\ Row.phase = "RUNNING" => RestState(Row.node) = "running"
    /\ Row.phase = "PAUSED"  => RestState(Row.node) = "paused"
    /\ Row.phase = "DELETED" => RestState(Row.node) = "none"

(* A delete that was accepted stays in force: once the row is DELETING the *)
(* only ways on are DELETED, FAILED and another delete.                    *)
DeleteSticks ==
  [][log # <<>> /\ Row.phase = "DELETING" =>
       Row'.phase \in {"DELETING", "DELETED", "FAILED"}]_vars

(* Every accepted request is settled: whatever events, updates or daemons  *)
(* are lost, resync brings the row's intent back to the worker until the   *)
(* row is completed or marked failed and its intent cleared.               *)
Converges ==
  (log # <<>> /\ Row.intent # NoIntent) ~> (log # <<>> /\ Row.intent = NoIntent)

-----------------------------------------------------------------------------
(* The inductive invariant behind NothingAhead, EventsAgree, OneHome and   *)
(* ImplementsPhases.                                                       *)

(* img is what the data plane may write over the row r.                    *)
Follows(img, r) ==
  \/ /\ r.phase \in Transitional /\ r.intent # NoIntent
     /\ img.phase = r.intent /\ img.intent = NoIntent
  \/ img.phase = "FAILED" /\ img.intent \in {r.intent, NoIntent}

(* img belongs to this sandbox's home and to its past or present.          *)
Known(img) ==
  /\ log # <<>>
  /\ img \in Image
  /\ img.node = Row.node
  /\ img.version <= Len(log)

(* Status and intent of a stored row fit each other.                       *)
WellFormed(img) ==
  /\ img.intent \in Terminal \cup {NoIntent}
  /\ img.phase \in Terminal => img.intent = NoIntent
  /\ img.phase = "DELETING" => img.intent = "DELETED"

LogInv ==
  \A v \in 1..Len(log) :
    log[v].version = v /\ log[v].node = Row.node /\ WellFormed(log[v])

EventInv == \A e \in events : Known(e) /\ (e.version = Len(log) => e = Row)

CallInv ==
  \A c \in calls :
    /\ c.version <= c.base /\ c.base <= Len(log)
    /\ Admits(c.op, log[c.version].phase)

UpdateInv ==
  \A u \in updates : Known(u) /\ (u.version = Len(log) => Follows(u, Row))

IndexInv ==
  \A n \in Nodes : index[n] # NoImage =>
    /\ Known(index[n]) /\ index[n].node = n
    /\ index[n].version = Len(log) => index[n] = Row \/ Follows(index[n], Row)

WorkInv ==
  \A n \in Nodes :
    /\ pc[n] \in {"idle", "failed"} => work[n] = NoImage
    /\ pc[n] \in {"snapshot", "send"} => Known(work[n]) /\ work[n].node = n
    /\ pc[n] = "send" /\ work[n].version = Len(log) => Follows(work[n], Row)
    /\ pc[n] = "snapshot" =>
         /\ work[n].phase = "SNAPSHOTTING" /\ work[n].intent # NoIntent
         /\ work[n].version = Len(log) => work[n] = Row

QueueInv ==
  \A n \in Nodes : queued[n] \/ pc[n] # "idle" => index[n] # NoImage

(* Everything in flight that carries the current version is the row or a   *)
(* legal successor of it, and everything else is older: so neither a       *)
(* replayed request nor a late update can be taken for news.               *)
Coherent ==
  /\ LogInv
  /\ EventInv
  /\ CallInv
  /\ UpdateInv
  /\ IndexInv
  /\ WorkInv
  /\ QueueInv
  /\ OneHome
=============================================================================
