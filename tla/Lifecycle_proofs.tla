-------------------------- MODULE Lifecycle_proofs --------------------------
(***************************************************************************)
(* Proofs about Lifecycle for every set of nodes, every number of          *)
(* concurrent requests, retries, snapshots and faults, and histories of    *)
(* every length.                                                           *)
(***************************************************************************)
EXTENDS Lifecycle, TLAPS

(* Two images with the same fields are equal.                              *)
LEMMA ImageExt ==
  ASSUME NEW a \in Image, NEW b \in Image,
         a.version = b.version, a.node = b.node,
         contentDigest(a) = contentDigest(b)
  PROVE  a = b
BY DEF Image, contentDigest

(* An image is never the placeholder of an empty indexer.                  *)
LEMMA ImageIsNotNoImage ==
  ASSUME NEW a \in Image
  PROVE  a # NoImage /\ a.version \in Nat /\ a.version >= 1
BY DEF Image, NoImage

(* CreateSandbox writes an image at version 1 that asks for RUNNING.       *)
LEMMA NewSandboxImage ==
  ASSUME NEW n \in Nodes
  PROVE  /\ NewSandbox(n) \in Image
         /\ NewSandbox(n).version = 1 /\ NewSandbox(n).node = n
         /\ NewSandbox(n).phase = "PENDING" /\ NewSandbox(n).intent = "RUNNING"
BY DEF NewSandbox, initialVersion, Image, Phases, Transitional, Terminal, Messages

(* The image a request writes: the base with version, phase and intent     *)
(* replaced.                                                               *)
LEMMA RequestImage ==
  ASSUME NEW op \in Ops, NEW base \in Image, NEW v \in Nat \ {0}
  PROVE  LET img == Request(op, base, v) IN
         /\ img \in Image
         /\ img.version = v /\ img.node = base.node
         /\ op = "pause" => img.phase = "PAUSING" /\ img.intent = "PAUSED"
         /\ op = "resume" => img.phase = "RESUMING" /\ img.intent = "RUNNING"
         /\ op = "delete" => img.phase = "DELETING" /\ img.intent = "DELETED"
         /\ op = "snapshot" => img.phase = "SNAPSHOTTING" /\ img.intent = base.phase
<1>1. CASE op = "pause"
  BY <1>1 DEF Request, transitionPhase, Image, Phases, Transitional, Terminal, Messages
<1>2. CASE op = "resume"
  BY <1>2 DEF Request, transitionPhase, Image, Phases, Transitional, Terminal, Messages
<1>3. CASE op = "delete"
  BY <1>3 DEF Request, transitionPhase, Image, Phases, Transitional, Terminal, Messages
<1>4. CASE op = "snapshot"
  BY <1>4 DEF Request, transitionPhase, Image, Phases, Transitional, Terminal, Messages
<1> QED
  BY <1>1, <1>2, <1>3, <1>4 DEF Ops

(* The image of a completed reconciliation.                                *)
LEMMA ConvergedImage ==
  ASSUME NEW img \in Image, NEW s \in Nat,
         img.phase \in Transitional, img.intent # NoIntent
  PROVE  /\ Converged(img, s) \in Image
         /\ Converged(img, s).version = img.version
         /\ Converged(img, s).node = img.node
         /\ Converged(img, s).phase = img.intent
         /\ Converged(img, s).intent = NoIntent
<1>1. doneMessage(img.phase) \in Messages
  BY DEF doneMessage, Transitional, Messages
<1> QED
  BY <1>1 DEF Converged, Image, NoIntent

(* The image with its intent cleared.                                      *)
LEMMA AbandonedImage ==
  ASSUME NEW img \in Image
  PROVE  /\ Abandoned(img) \in Image
         /\ Abandoned(img).version = img.version /\ Abandoned(img).node = img.node
         /\ Abandoned(img).phase = img.phase /\ Abandoned(img).intent = NoIntent
BY DEF Abandoned, Image, NoIntent

(* The image markFailed reports.                                           *)
LEMMA MarkedFailedImage ==
  ASSUME NEW img \in Image
  PROVE  /\ MarkedFailed(img) \in Image
         /\ MarkedFailed(img).version = img.version
         /\ MarkedFailed(img).node = img.node
         /\ MarkedFailed(img).phase = "FAILED"
         /\ MarkedFailed(img).intent = img.intent
BY DEF MarkedFailed, Image, Phases, Messages

(* The table's guard asks nothing of a write of a settled or failed phase, *)
(* nor of DELETING, and what the client checked otherwise.                 *)
LEMMA GuardAllows ==
  ASSUME NEW saved \in Phases, NEW p \in Phases,
         \/ p \in Terminal \cup {"FAILED", "DELETING"}
         \/ p = "PAUSING" /\ saved = "RUNNING"
         \/ p = "RESUMING" /\ saved = "PAUSED"
         \/ p = "SNAPSHOTTING" /\ saved \in {"RUNNING", "PAUSED"}
  PROVE  PriorPhaseAllowed(saved, p)
BY DEF PriorPhaseAllowed, requiredPriorPhases, Terminal

-----------------------------------------------------------------------------
(* The invariant, and what the table and the workers do to it.             *)

Inv == TypeOK /\ Coherent

(* A write through the table keeps the history a history, and whatever it  *)
(* emits with the current version is the current row.  The last hypothesis *)
(* is what the digest replay needs: a write at the current version is one  *)
(* the guard lets through.                                                 *)
LEMMA TableStep ==
  ASSUME TypeOK, LogInv, EventInv,
         NEW img, Known(img), Update(img),
         img.version = Len(log) =>
           PriorPhaseAllowed(Row.phase, img.phase) /\ WellFormed(img)
  PROVE  /\ log' \in Seq(Image) /\ log' # <<>> /\ events' \subseteq Image
         /\ \/ log' = log
            \/ /\ log' = Append(log, [img EXCEPT !.version = img.version + 1])
               /\ img.version = Len(log)
         /\ LogInv' /\ EventInv'
<1> DEFINE L == Len(log)
           stamped == [img EXCEPT !.version = img.version + 1]
<1>1. /\ L \in Nat /\ L >= 1 /\ log \in Seq(Image) /\ log # <<>>
      /\ Row \in Image /\ Row.version = L
  BY DEF TypeOK, Known, LogInv, Row
<1>2. /\ stamped \in Image /\ stamped.version = img.version + 1
      /\ stamped.node = img.node /\ contentDigest(stamped) = contentDigest(img)
      /\ stamped.phase = img.phase /\ stamped.intent = img.intent
  BY DEF Known, Image, contentDigest
<1>3. img.version \in Nat /\ img.version <= L /\ img.node = Row.node
  BY DEF Known, Image
<1>4. CASE img.version = L
  <2>1. ConditionHolds(img)
    BY <1>1, <1>4 DEF ConditionHolds
  <2>2. log' = Append(log, stamped) /\ events' = events \cup {stamped}
    BY <2>1 DEF Update
  <2>3. /\ log' \in Seq(Image) /\ Len(log') = L + 1 /\ log' # <<>>
        /\ log'[L + 1] = stamped /\ \A v \in 1..L : log'[v] = log[v]
    BY <1>1, <1>2, <2>2
  <2>4. Row' = stamped
    BY <2>3 DEF Row
  <2>5. LogInv'
    <3> SUFFICES ASSUME NEW v \in 1..Len(log')
                 PROVE  /\ log'[v].version = v
                        /\ log'[v].node = Row'.node
                        /\ WellFormed(log'[v])
      BY DEF LogInv
    <3>1. CASE v = L + 1
      BY <1>2, <1>4, <2>3, <2>4, <3>1 DEF WellFormed
    <3>2. CASE v \in 1..L
      BY <1>2, <1>3, <2>3, <2>4, <3>2 DEF LogInv
    <3> QED
      BY <1>1, <2>3, <3>1, <3>2
  <2>6. EventInv'
    <3> SUFFICES ASSUME NEW e \in events'
                 PROVE  /\ e \in Image /\ e.node = Row'.node
                        /\ e.version <= Len(log')
                        /\ e.version = Len(log') => e = Row'
      BY <2>3 DEF EventInv, Known
    <3>1. CASE e = stamped
      BY <1>1, <1>2, <1>4, <2>3, <2>4, <3>1
    <3>2. CASE e \in events
      <4>1. e \in Image /\ e.node = Row.node /\ e.version <= L /\ e.version \in Nat
        BY <3>2 DEF EventInv, Known, Image
      <4> QED
        BY <1>1, <1>2, <1>3, <2>3, <2>4, <4>1
    <3> QED
      BY <2>2, <3>1, <3>2
  <2> QED
    BY <1>2, <1>4, <2>2, <2>3, <2>5, <2>6 DEF TypeOK
<1>5. CASE img.version # L
  <2>1. ~ConditionHolds(img)
    BY <1>1, <1>5 DEF ConditionHolds
  <2>2. /\ log' = log
        /\ events' = events \/ (/\ events' = events \cup {stamped}
                               /\ contentDigest(img) = contentDigest(Row))
    BY <2>1 DEF Update
  <2>3. Row' = Row /\ Len(log') = L
    BY <2>2 DEF Row
  <2>4. LogInv'
    BY <2>2, <2>3 DEF LogInv
  <2>5. EventInv'
    <3> SUFFICES ASSUME NEW e \in events'
                 PROVE  /\ e \in Image /\ e.node = Row.node
                        /\ e.version <= L
                        /\ e.version = L => e = Row
      BY <1>1, <2>2, <2>3 DEF EventInv, Known
    <3>1. CASE e \in events
      BY <3>1 DEF EventInv, Known
    <3>2. CASE e = stamped /\ contentDigest(img) = contentDigest(Row)
      <4>1. e.version = L => e = Row
        BY <1>1, <1>2, <1>3, <3>2, ImageExt
      <4> QED
        BY <1>1, <1>2, <1>3, <1>5, <3>2, <4>1
    <3> QED
      BY <2>2, <3>1, <3>2
  <2> QED
    BY <1>1, <1>2, <2>2, <2>4, <2>5 DEF TypeOK
<1> QED
  BY <1>4, <1>5

(* A write leaves everything in flight where it was; once the row has      *)
(* moved on, all of that is in the past.                                   *)
LEMMA InFlightStep ==
  ASSUME Inv, NEW img, Known(img),
         \/ log' = log
         \/ /\ log' = Append(log, [img EXCEPT !.version = img.version + 1])
            /\ img.version = Len(log),
         UNCHANGED <<updates, index, queued, workerVars>>
  PROVE  UpdateInv' /\ IndexInv' /\ WorkInv' /\ QueueInv' /\ OneHome'
<1> DEFINE stamped == [img EXCEPT !.version = img.version + 1]
<1>1. CASE log' = log
  <2>1. Row' = Row /\ Len(log') = Len(log)
    BY <1>1 DEF Row
  <2> QED
    BY <1>1, <2>1 DEF Inv, Coherent, UpdateInv, IndexInv, WorkInv, QueueInv,
                      OneHome, Known, workerVars
<1>2. CASE log' = Append(log, stamped)
  <2>1. stamped \in Image /\ stamped.node = Row.node
    BY DEF Known, Image
  <2>2. /\ log' # <<>> /\ Len(log') = Len(log) + 1 /\ Row' = stamped
        /\ Len(log) \in Nat
    BY <1>2, <2>1 DEF Row, Inv, TypeOK
  <2>3. \A i : Known(i) => Known(i)' /\ i.version # Len(log')
    BY <2>1, <2>2 DEF Known, Image
  <2>4. UpdateInv'
    BY <2>3 DEF Inv, Coherent, UpdateInv, workerVars
  <2>5. IndexInv'
    BY <2>3 DEF Inv, Coherent, IndexInv, workerVars
  <2>6. WorkInv'
    BY <2>3 DEF Inv, Coherent, WorkInv, workerVars
  <2>7. QueueInv'
    BY DEF Inv, Coherent, QueueInv, workerVars
  <2>8. OneHome'
    BY <2>1, <2>2 DEF Inv, Coherent, OneHome, workerVars
  <2> QED
    BY <2>4, <2>5, <2>6, <2>7, <2>8
<1> QED
  BY <1>1, <1>2

(* What the image a worker carries to a label must be.                     *)
Suits(n, label, img) ==
  /\ label \in {"idle", "failed"} => img = NoImage
  /\ label \in {"snapshot", "send"} => Known(img) /\ img.node = n
  /\ label = "send" /\ img.version = Len(log) => Follows(img, Row)
  /\ label = "snapshot" =>
       /\ img.phase = "SNAPSHOTTING" /\ img.intent # NoIntent
       /\ img.version = Len(log) => img = Row

(* A step that leaves the table and the handlers alone keeps what is said  *)
(* of them, and what it means to be the current row.                       *)
LEMMA QuietStep ==
  ASSUME Coherent, UNCHANGED <<tableVars, calls>>
  PROVE  /\ LogInv' /\ EventInv' /\ CallInv'
         /\ Row' = Row /\ Len(log') = Len(log) /\ log' = log
         /\ \A i : Known(i)' <=> Known(i)
<1>1. Row' = Row /\ Len(log') = Len(log) /\ log' = log /\ events' = events /\ calls' = calls
  BY DEF Row, tableVars
<1> QED
  BY <1>1 DEF Coherent, LogInv, EventInv, CallInv, Known

(* The worker of n moves to a label with an image that suits it.           *)
LEMMA WorkStep ==
  ASSUME Inv, UNCHANGED <<tableVars, calls>>,
         NEW n \in Nodes, NEW label \in Labels, NEW img,
         Goto(n, label, img), Suits(n, label, img)
  PROVE  /\ pc' \in [Nodes -> Labels]
         /\ pc'[n] = label /\ \A m \in Nodes \ {n} : pc'[m] = pc[m]
         /\ work' \in [Nodes -> Image \cup {NoImage}]
         /\ WorkInv'
<1>1. /\ Row' = Row /\ Len(log') = Len(log) /\ log' = log
      /\ \A i : Known(i)' <=> Known(i)
  BY QuietStep DEF Inv
<1>2. /\ pc \in [Nodes -> Labels] /\ work \in [Nodes -> Image \cup {NoImage}]
      /\ pc' = [pc EXCEPT ![n] = label] /\ work' = [work EXCEPT ![n] = img]
  BY DEF Inv, TypeOK, Goto
<1>3. img \in Image \cup {NoImage}
  BY DEF Suits, Labels, Known
<1>4. /\ pc' \in [Nodes -> Labels] /\ work' \in [Nodes -> Image \cup {NoImage}]
      /\ pc'[n] = label /\ work'[n] = img
      /\ \A m \in Nodes \ {n} : pc'[m] = pc[m] /\ work'[m] = work[m]
  BY <1>2, <1>3
<1>5. WorkInv'
  <2> SUFFICES ASSUME NEW m \in Nodes
               PROVE  Suits(m, pc'[m], work'[m])
    BY <1>1 DEF WorkInv, Follows, Suits
  <2>1. CASE m = n
    BY <1>4, <2>1
  <2>2. CASE m # n
    BY <1>4, <2>2 DEF Inv, Coherent, WorkInv, Suits
  <2> QED
    BY <2>1, <2>2
<1> QED
  BY <1>4, <1>5

(* A step of the worker of n from a held image to a suitable label, with   *)
(* any effect on n's microVM.                                              *)
LEMMA ReconcileStep ==
  ASSUME Inv, UNCHANGED <<tableVars, calls, updates, index, retries>>,
         NEW n \in Nodes, NEW label \in Labels, NEW img,
         Goto(n, label, img), Suits(n, label, img),
         index[n] # NoImage,
         queued' = queued \/ queued' = [queued EXCEPT ![n] = FALSE],
         vm' \in [Nodes -> {"none", "running", "paused"}],
         \A m \in Nodes \ {n} : vm'[m] = vm[m],
         snaps' \in Nat, faults' \in Nat
  PROVE  Inv'
<1>1. /\ LogInv' /\ EventInv' /\ CallInv'
      /\ Row' = Row /\ Len(log') = Len(log) /\ log' = log
      /\ \A i : Known(i)' <=> Known(i)
  BY QuietStep DEF Inv
<1>2. /\ pc' \in [Nodes -> Labels] /\ \A m \in Nodes \ {n} : pc'[m] = pc[m]
      /\ work' \in [Nodes -> Image \cup {NoImage}] /\ WorkInv'
  BY WorkStep
<1>3. UpdateInv' /\ IndexInv'
  BY <1>1 DEF Inv, Coherent, UpdateInv, IndexInv, Follows
<1>4. queued' \in [Nodes -> BOOLEAN] /\ \A m \in Nodes \ {n} : queued'[m] = queued[m]
  BY DEF Inv, TypeOK
<1>5. QueueInv'
  BY <1>2, <1>4 DEF Inv, Coherent, QueueInv
<1>6. OneHome'
  BY <1>1 DEF Inv, Coherent, OneHome, IndexInv, Known
<1>7. TypeOK'
  BY <1>1, <1>2, <1>4 DEF Inv, TypeOK, tableVars
<1> QED
  BY <1>1, <1>2, <1>3, <1>5, <1>6, <1>7 DEF Inv, Coherent

(* An image the worker acts on is the row itself if it is current: one the *)
(* daemon has already answered has no intent, or is FAILED.                *)
LEMMA TakenImage ==
  ASSUME Inv, NEW n \in Nodes,
         index[n] # NoImage, index[n].intent # NoIntent,
         index[n].phase \in Transitional
  PROVE  /\ Known(index[n]) /\ index[n].node = n /\ index[n].snapshot \in Nat
         /\ index[n].version = Len(log) => index[n] = Row
<1>1. Known(index[n]) /\ index[n].node = n
  BY DEF Inv, Coherent, IndexInv
<1>2. ~Follows(index[n], Row)
  BY DEF Follows, Transitional
<1> QED
  BY <1>1, <1>2 DEF Inv, Coherent, IndexInv, Known, Image

(* What the reconciler makes of such an image suits the send.              *)
LEMMA ConvergedSuits ==
  ASSUME NEW n \in Nodes, NEW img, NEW s \in Nat, Known(img), img.node = n,
         img.phase \in Transitional, img.intent # NoIntent,
         img.version = Len(log) => img = Row
  PROVE  Suits(n, "send", Converged(img, s))
<1>1. /\ Converged(img, s) \in Image /\ Converged(img, s).version = img.version
      /\ Converged(img, s).node = img.node
      /\ Converged(img, s).phase = img.intent /\ Converged(img, s).intent = NoIntent
  BY ConvergedImage DEF Known
<1> QED
  BY <1>1 DEF Suits, Known, Follows

(* Clearing the intent of a failed or deleted image gives an update that   *)
(* follows the row.                                                        *)
LEMMA AbandonedSuits ==
  ASSUME Inv, NEW n \in Nodes, index[n] # NoImage, index[n].intent # NoIntent,
         index[n].phase \in {"FAILED", "DELETED"}
  PROVE  Suits(n, "send", Abandoned(index[n]))
<1> DEFINE img == index[n]
<1>1. Known(img) /\ img.node = n
      /\ (img.version = Len(log) => img = Row \/ Follows(img, Row))
  BY DEF Inv, Coherent, IndexInv
<1>2. /\ Abandoned(img) \in Image /\ Abandoned(img).version = img.version
      /\ Abandoned(img).node = img.node
      /\ Abandoned(img).phase = img.phase /\ Abandoned(img).intent = NoIntent
  BY <1>1, AbandonedImage DEF Known
<1>3. Row.phase = "DELETED" => Row.intent = NoIntent
  BY <1>1 DEF Inv, Coherent, LogInv, WellFormed, TypeOK, Known, Row, Terminal
<1>4. img.version = Len(log) => img.phase = "FAILED"
  BY <1>1, <1>3 DEF Follows
<1> QED
  BY <1>1, <1>2, <1>4 DEF Suits, Known, Follows

(* So does whatever markFailed reports.                                    *)
LEMMA MarkedFailedFollows ==
  ASSUME Inv, NEW n \in Nodes, index[n] # NoImage
  PROVE  LET u == MarkedFailed(index[n]) IN
         Known(u) /\ (u.version = Len(log) => Follows(u, Row))
<1> DEFINE img == index[n]
<1>1. Known(img) /\ (img.version = Len(log) => img = Row \/ Follows(img, Row))
  BY DEF Inv, Coherent, IndexInv
<1>2. /\ MarkedFailed(img) \in Image /\ MarkedFailed(img).version = img.version
      /\ MarkedFailed(img).node = img.node
      /\ MarkedFailed(img).phase = "FAILED" /\ MarkedFailed(img).intent = img.intent
  BY <1>1, MarkedFailedImage DEF Known
<1> QED
  BY <1>1, <1>2 DEF Known, Follows

-----------------------------------------------------------------------------
(* One lemma per group of actions.                                         *)

(* Creation starts the history; nothing is in flight before it.            *)
LEMMA CreateStep ==
  ASSUME Inv, NEW n \in Nodes, CreateSandbox(n)
  PROVE  Inv'
<1>1. /\ NewSandbox(n) \in Image /\ NewSandbox(n).version = 1
      /\ NewSandbox(n).phase = "PENDING" /\ NewSandbox(n).intent = "RUNNING"
  BY NewSandboxImage
<1>2. /\ log = <<>> /\ log' = <<NewSandbox(n)>> /\ events' = {NewSandbox(n)}
      /\ UNCHANGED <<calls, updates, index, queued, retries, pc, work, vm, snaps, faults>>
  BY DEF CreateSandbox, workerVars
<1>3. /\ log' \in Seq(Image) /\ Len(log') = 1 /\ log' # <<>>
      /\ log'[1] = NewSandbox(n) /\ Row' = NewSandbox(n)
  BY <1>1, <1>2 DEF Row
<1>4. \A i : ~Known(i)
  BY <1>2 DEF Known
<1>5. /\ calls = {} /\ updates = {} /\ \A m \in Nodes : index[m] = NoImage
      /\ \A m \in Nodes : vm[m] = "none"
      /\ \A m \in Nodes : pc[m] \notin {"snapshot", "send"}
  <2>1. \A c \in calls : FALSE
    BY <1>2 DEF Inv, TypeOK, Calls, Coherent, CallInv
  <2> QED
    BY <1>2, <1>4, <2>1 DEF Inv, Coherent, UpdateInv, IndexInv, WorkInv, OneHome
<1>6. LogInv' /\ EventInv'
  BY <1>1, <1>2, <1>3 DEF LogInv, WellFormed, EventInv, Known, Terminal
<1>7. CallInv' /\ UpdateInv' /\ IndexInv' /\ WorkInv' /\ QueueInv' /\ OneHome'
  BY <1>2, <1>5 DEF Inv, Coherent, CallInv, UpdateInv, IndexInv, WorkInv, QueueInv, OneHome
<1>8. TypeOK'
  BY <1>1, <1>2, <1>3 DEF Inv, TypeOK
<1> QED
  BY <1>6, <1>7, <1>8 DEF Inv, Coherent

(* A handler starts.                                                       *)
LEMMA CallStep ==
  ASSUME Inv, CheckedCall
  PROVE  Inv'
<1>1. PICK op \in ClientOps, v \in 1..Len(log) :
        Admits(op, log[v].phase) /\ StartCall(op, v)
  BY DEF CheckedCall
<1> DEFINE c == [op |-> op, version |-> v, base |-> Len(log)]
<1>2. calls' = calls \cup {c} /\ UNCHANGED <<tableVars, updates, index, queued, workerVars>>
  BY <1>1 DEF StartCall
<1>3. Row' = Row /\ log' = log /\ events' = events
      /\ UNCHANGED <<updates, index, queued, retries, pc, work, vm, snaps, faults>>
  BY <1>2 DEF Row, tableVars, workerVars
<1>4. Len(log) \in Nat /\ op \in Ops
  BY OpsAssumption DEF Inv, TypeOK
<1>5. c \in Calls
  BY <1>4 DEF Calls
<1>6. CallInv'
  BY <1>1, <1>2, <1>3, <1>4 DEF Inv, Coherent, CallInv
<1>7. \A i : Known(i)' <=> Known(i)
  BY <1>3 DEF Known
<1>8. LogInv' /\ EventInv' /\ UpdateInv' /\ IndexInv' /\ WorkInv' /\ QueueInv' /\ OneHome'
  BY <1>3, <1>7 DEF Inv, Coherent, LogInv, EventInv, UpdateInv, IndexInv, WorkInv,
                    QueueInv, OneHome, Follows
<1>9. TypeOK'
  BY <1>2, <1>3, <1>5 DEF Inv, TypeOK
<1> QED
  BY <1>6, <1>8, <1>9 DEF Inv, Coherent

(* The request a handler writes is for an image of the past, and if the    *)
(* client's version is current it read the row it now replaces.            *)
LEMMA RequestKnown ==
  ASSUME Inv, NEW c \in calls
  PROVE  LET img == Request(c.op, log[c.base], c.version) IN
         /\ Known(img)
         /\ img.version = Len(log) =>
              /\ log[c.base] = Row /\ Admits(c.op, Row.phase)
              /\ PriorPhaseAllowed(Row.phase, img.phase) /\ WellFormed(img)
<1> DEFINE base == log[c.base]
           img == Request(c.op, base, c.version)
<1>1. /\ c.op \in Ops /\ c.version \in Nat \ {0} /\ c.base \in Nat \ {0}
      /\ c.version <= c.base /\ c.base <= Len(log) /\ Len(log) \in Nat
      /\ Admits(c.op, log[c.version].phase)
  BY DEF Inv, TypeOK, Calls, Coherent, CallInv
<1>2. log \in Seq(Image) /\ log # <<>> /\ base \in Image /\ base.node = Row.node
      /\ Row \in Image
  BY <1>1 DEF Inv, TypeOK, Coherent, LogInv, Row
<1>3. /\ img \in Image /\ img.version = c.version /\ img.node = base.node
      /\ c.op = "pause" => img.phase = "PAUSING" /\ img.intent = "PAUSED"
      /\ c.op = "resume" => img.phase = "RESUMING" /\ img.intent = "RUNNING"
      /\ c.op = "delete" => img.phase = "DELETING" /\ img.intent = "DELETED"
      /\ c.op = "snapshot" => img.phase = "SNAPSHOTTING" /\ img.intent = base.phase
  <2>1. c.op \in Ops /\ base \in Image /\ c.version \in Nat \ {0}
    BY <1>1, <1>2
  <2> HIDE DEF base
  <2> QED
    BY <2>1, RequestImage
<1>4. Known(img)
  BY <1>1, <1>2, <1>3 DEF Known
<1>5. ASSUME img.version = Len(log)
      PROVE  /\ base = Row /\ Admits(c.op, Row.phase)
             /\ PriorPhaseAllowed(Row.phase, img.phase) /\ WellFormed(img)
  <2>1. base = Row /\ Admits(c.op, Row.phase)
    BY <1>1, <1>3, <1>5 DEF Row
  <2>2. Row.phase \in Phases /\ img.phase \in Phases
    BY <1>2, <1>3 DEF Image
  <2>3. /\ c.op = "pause" => Row.phase = "RUNNING"
        /\ c.op = "resume" => Row.phase = "PAUSED"
        /\ c.op = "snapshot" => Row.phase \in {"RUNNING", "PAUSED"}
    BY <2>1 DEF Admits
  <2>4. PriorPhaseAllowed(Row.phase, img.phase)
    BY <1>1, <1>3, <2>2, <2>3, GuardAllows DEF Ops
  <2> QED
    BY <1>1, <1>3, <2>1, <2>3, <2>4 DEF Ops, Terminal, WellFormed
<1> QED
  BY <1>4, <1>5

(* A handler writes its request.                                           *)
LEMMA FinishStep ==
  ASSUME Inv, NEW c \in calls, FinishCall(c)
  PROVE  Inv'
<1> DEFINE img == Request(c.op, log[c.base], c.version)
<1>1. /\ Update(img) /\ calls' = calls \ {c}
      /\ UNCHANGED <<updates, index, queued, workerVars>>
  BY DEF FinishCall
<1>2. /\ log' \in Seq(Image) /\ log' # <<>> /\ events' \subseteq Image
      /\ \/ log' = log
         \/ /\ log' = Append(log, [img EXCEPT !.version = img.version + 1])
            /\ img.version = Len(log)
      /\ LogInv' /\ EventInv'
  BY <1>1, RequestKnown, TableStep DEF Inv, Coherent
<1>3. UpdateInv' /\ IndexInv' /\ WorkInv' /\ QueueInv' /\ OneHome'
  BY <1>1, <1>2, RequestKnown, InFlightStep
<1>4. Len(log') >= Len(log) /\ \A v \in 1..Len(log) : log'[v] = log[v]
  <2> HIDE DEF img
  <2> QED
    BY <1>2 DEF Inv, TypeOK
<1>5. CallInv'
  <2> SUFFICES ASSUME NEW d \in calls, d # c
               PROVE  /\ d.version <= d.base /\ d.base <= Len(log')
                      /\ Admits(d.op, log'[d.version].phase)
    BY <1>1 DEF CallInv
  <2>1. /\ d.version \in Nat \ {0} /\ d.base \in Nat \ {0} /\ Len(log) \in Nat
        /\ Len(log') \in Nat
        /\ d.version <= d.base /\ d.base <= Len(log)
        /\ Admits(d.op, log[d.version].phase)
    BY <1>2 DEF Inv, TypeOK, Calls, Coherent, CallInv
  <2> QED
    BY <1>4, <2>1
<1>6. TypeOK'
  BY <1>1, <1>2 DEF Inv, TypeOK, workerVars
<1> QED
  BY <1>2, <1>3, <1>5, <1>6 DEF Inv, Coherent

(* An update that carries the current version completes the request in     *)
(* force or gives it up, and the table's guard lets it through.            *)
LEMMA UpdateKnown ==
  ASSUME Inv, NEW u \in updates
  PROVE  /\ Known(u)
         /\ u.version = Len(log) =>
              /\ Follows(u, Row)
              /\ PriorPhaseAllowed(Row.phase, u.phase) /\ WellFormed(u)
<1>1. Known(u) /\ (u.version = Len(log) => Follows(u, Row))
  BY DEF Inv, Coherent, UpdateInv
<1>2. /\ Row \in Image /\ Row.phase \in Phases /\ u.phase \in Phases
      /\ Row.intent \in Terminal \cup {NoIntent}
  <2>1. log \in Seq(Image) /\ log # <<>> /\ u \in Image
    BY <1>1 DEF Inv, TypeOK, Known
  <2>2. Row \in Image /\ Row.intent \in Terminal \cup {NoIntent}
    BY <2>1 DEF Inv, Coherent, LogInv, WellFormed, Row
  <2> QED
    BY <2>1, <2>2 DEF Image
<1>3. u.version = Len(log) => u.phase \in Terminal \cup {"FAILED"}
  BY <1>1, <1>2 DEF Follows
<1> QED
  BY <1>1, <1>2, <1>3, GuardAllows DEF Follows, Terminal, WellFormed

(* An update reaches the table.                                            *)
LEMMA ApplyStep ==
  ASSUME Inv, NEW u \in updates, ApplyUpdate(u)
  PROVE  Inv'
<1>1. Update(u) /\ UNCHANGED <<calls, updates, index, queued, workerVars>>
  BY DEF ApplyUpdate
<1>2. /\ log' \in Seq(Image) /\ log' # <<>> /\ events' \subseteq Image
      /\ \/ log' = log
         \/ /\ log' = Append(log, [u EXCEPT !.version = u.version + 1])
            /\ u.version = Len(log)
      /\ LogInv' /\ EventInv'
  BY <1>1, UpdateKnown, TableStep DEF Inv, Coherent
<1>3. UpdateInv' /\ IndexInv' /\ WorkInv' /\ QueueInv' /\ OneHome'
  BY <1>1, <1>2, UpdateKnown, InFlightStep
<1>4. Len(log') >= Len(log) /\ \A v \in 1..Len(log) : log'[v] = log[v]
  BY <1>2 DEF Inv, TypeOK
<1>5. CallInv'
  <2> SUFFICES ASSUME NEW d \in calls
               PROVE  /\ d.version <= d.base /\ d.base <= Len(log')
                      /\ Admits(d.op, log'[d.version].phase)
    BY <1>1 DEF CallInv
  <2>1. /\ d.version \in Nat \ {0} /\ d.base \in Nat \ {0} /\ Len(log) \in Nat
        /\ Len(log') \in Nat
        /\ d.version <= d.base /\ d.base <= Len(log)
        /\ Admits(d.op, log[d.version].phase)
    BY <1>2 DEF Inv, TypeOK, Calls, Coherent, CallInv
  <2> QED
    BY <1>4, <2>1
<1>6. TypeOK'
  BY <1>1, <1>2 DEF Inv, TypeOK, workerVars
<1> QED
  BY <1>2, <1>3, <1>5, <1>6 DEF Inv, Coherent

(* An event or a listed row reaches the indexer.                           *)
LEMMA PutStep ==
  ASSUME Inv, NEW n \in Nodes, NEW img, PutAndEnqueue(n, img),
         Known(img), img.node = n, img.version = Len(log) => img = Row
  PROVE  Inv'
<1>1. /\ index' = [index EXCEPT ![n] = img] /\ queued' = [queued EXCEPT ![n] = TRUE]
      /\ UNCHANGED <<tableVars, calls>>
      /\ UNCHANGED <<updates, retries, pc, work, vm, snaps, faults>>
  BY DEF PutAndEnqueue, workerVars
<1>2. /\ LogInv' /\ EventInv' /\ CallInv'
      /\ Row' = Row /\ Len(log') = Len(log) /\ log' = log
      /\ \A i : Known(i)' <=> Known(i)
  BY <1>1, QuietStep DEF Inv
<1>3. /\ index' \in [Nodes -> Image \cup {NoImage}] /\ index'[n] = img
      /\ \A m \in Nodes \ {n} : index'[m] = index[m]
      /\ queued' \in [Nodes -> BOOLEAN]
      /\ \A m \in Nodes \ {n} : queued'[m] = queued[m]
  BY <1>1 DEF Inv, TypeOK, Known
<1>4. img # NoImage
  BY ImageIsNotNoImage DEF Known
<1>5. IndexInv' /\ QueueInv'
  BY <1>1, <1>2, <1>3, <1>4 DEF Inv, Coherent, IndexInv, QueueInv, Follows
<1>6. UpdateInv' /\ WorkInv' /\ OneHome'
  BY <1>1, <1>2 DEF Inv, Coherent, UpdateInv, WorkInv, OneHome, Follows
<1>7. TypeOK'
  BY <1>1, <1>2, <1>3 DEF Inv, TypeOK, tableVars
<1> QED
  BY <1>2, <1>5, <1>6, <1>7 DEF Inv, Coherent

LEMMA FaultCount ==
  ASSUME TypeOK, Fault \/ UNCHANGED faults
  PROVE  faults' \in Nat
BY DEF TypeOK, Fault

(* The worker takes an image to work on and ends in "send" with it         *)
(* converged, or in "failed", whatever happened to its microVM.            *)
LEMMA TakeStep ==
  ASSUME Inv, NEW n \in Nodes, Take(n, Transitional),
         \/ \E s \in Nat : Succeed(n, Converged(index[n], s))
         \/ Reject(n)
         \/ Fail(n)
         \/ /\ index[n].phase = "SNAPSHOTTING"
            /\ Goto(n, "snapshot", index[n]) /\ UNCHANGED faults,
         vm' = vm \/ \E x \in {"none", "running", "paused"} : vm' = [vm EXCEPT ![n] = x],
         snaps' \in Nat
  PROVE  Inv'
<1>1. /\ index[n] # NoImage /\ index[n].intent # NoIntent
      /\ index[n].phase \in Transitional
      /\ queued' = [queued EXCEPT ![n] = FALSE]
      /\ UNCHANGED <<tableVars, calls, updates, index, retries>>
  BY DEF Take
<1>2. /\ Known(index[n]) /\ index[n].node = n
      /\ index[n].version = Len(log) => index[n] = Row
  BY <1>1, TakenImage
<1>3. /\ vm' \in [Nodes -> {"none", "running", "paused"}]
      /\ \A m \in Nodes \ {n} : vm'[m] = vm[m]
  BY DEF Inv, TypeOK
<1>4. faults' \in Nat
  BY FaultCount DEF Inv, Succeed, Reject, Fail
<1>5. CASE \E s \in Nat : Succeed(n, Converged(index[n], s))
  <2>1. PICK s \in Nat : Goto(n, "send", Converged(index[n], s))
    BY <1>5 DEF Succeed
  <2>2. Suits(n, "send", Converged(index[n], s)) /\ "send" \in Labels
    BY <1>1, <1>2, ConvergedSuits DEF Labels
  <2> QED
    BY <1>1, <1>3, <1>4, <2>1, <2>2, ReconcileStep
<1>6. CASE Goto(n, "failed", NoImage)
  <2>1. Suits(n, "failed", NoImage) /\ "failed" \in Labels
    BY DEF Suits, Labels
  <2> QED
    BY <1>1, <1>3, <1>4, <1>6, <2>1, ReconcileStep
<1>7. CASE index[n].phase = "SNAPSHOTTING" /\ Goto(n, "snapshot", index[n])
  <2>1. Suits(n, "snapshot", index[n]) /\ "snapshot" \in Labels
    BY <1>1, <1>2, <1>7 DEF Suits, Labels
  <2> QED
    BY <1>1, <1>3, <1>4, <1>7, <2>1, ReconcileStep
<1> QED
  BY <1>5, <1>6, <1>7 DEF Reject, Fail

(* The actions that take an image and reconcile it.                        *)
LEMMA ReconcilerSteps ==
  ASSUME Inv, NEW n \in Nodes,
         \/ Boot(n) \/ Pause(n) \/ Resume(n) \/ Delete(n)
         \/ PauseForSnapshot(n) \/ SnapshotInPlace(n) \/ SnapshotPauseLost(n)
  PROVE  Inv'
<1> DEFINE VM == {"none", "running", "paused"}
           Moved == vm' = vm \/ \E x \in VM : vm' = [vm EXCEPT ![n] = x]
           Ended == \/ \E s \in Nat : Succeed(n, Converged(index[n], s))
                    \/ Reject(n)
                    \/ Fail(n)
                    \/ /\ index[n].phase = "SNAPSHOTTING"
                       /\ Goto(n, "snapshot", index[n]) /\ UNCHANGED faults
<1>1. snaps \in Nat /\ snaps + 1 \in Nat /\ vm[n] \in VM
  BY DEF Inv, TypeOK
<1>2. ASSUME Take(n, Transitional) PROVE index[n].snapshot \in Nat
  BY <1>2, TakenImage DEF Take
<1>3. CASE Boot(n)
  <2>1. Take(n, Transitional)
    BY <1>3 DEF Boot, Take, Transitional
  <2>2. Ended /\ snaps' \in Nat
    BY <1>1, <1>2, <1>3, <2>1 DEF Boot
  <2>3. Moved
    BY <1>1, <1>3 DEF Boot
  <2> QED
    BY <2>1, <2>2, <2>3, TakeStep
<1>4. ASSUME NEW phase \in Transitional, NEW state \in VM, Transition(n, phase, state)
      PROVE  Inv'
  <2>1. Take(n, Transitional)
    BY <1>4 DEF Transition, Take
  <2>2. Ended /\ snaps' \in Nat
    BY <1>1, <1>2, <1>4, <2>1 DEF Transition
  <2>3. Moved
    BY <1>4 DEF Transition
  <2> QED
    BY <2>1, <2>2, <2>3, TakeStep
<1>5. CASE Pause(n) \/ Resume(n)
  BY <1>4, <1>5 DEF Pause, Resume, Transitional
<1>6. CASE Delete(n)
  <2>1. Take(n, Transitional)
    BY <1>6 DEF Delete, Take, Transitional
  <2>2. Ended /\ Moved /\ snaps' \in Nat
    BY <1>1, <1>2, <1>6, <2>1 DEF Delete
  <2> QED
    BY <2>1, <2>2, TakeStep
<1>7. CASE PauseForSnapshot(n)
  <2>1. Take(n, Transitional) /\ index[n].phase = "SNAPSHOTTING"
    BY <1>7 DEF PauseForSnapshot, Take, Transitional
  <2>2. Ended /\ Moved /\ snaps' \in Nat
    BY <1>1, <1>7, <2>1 DEF PauseForSnapshot
  <2> QED
    BY <2>1, <2>2, TakeStep
<1>8. CASE SnapshotInPlace(n)
  <2>1. Take(n, Transitional)
    BY <1>8 DEF SnapshotInPlace, Take, Transitional
  <2>2. Ended /\ Moved /\ snaps' \in Nat
    BY <1>1, <1>8 DEF SnapshotInPlace, SnapshotOutcome
  <2> QED
    BY <2>1, <2>2, TakeStep
<1>9. CASE SnapshotPauseLost(n)
  <2>1. Take(n, Transitional)
    BY <1>9 DEF SnapshotPauseLost, Take, Transitional
  <2>2. Ended /\ Moved /\ snaps' \in Nat
    BY <1>1, <1>9 DEF SnapshotPauseLost
  <2> QED
    BY <2>1, <2>2, TakeStep
<1> QED
  BY <1>3, <1>5, <1>6, <1>7, <1>8, <1>9

(* The worker's other steps that change neither the indexer nor the count. *)
LEMMA CarryStep ==
  ASSUME Inv, NEW n \in Nodes,
         Abandon(n) \/ FinishSnapshot(n) \/ SnapshotResumeFails(n) \/ SendFails(n)
  PROVE  Inv'
<1>1. /\ "send" \in Labels /\ "failed" \in Labels /\ Suits(n, "failed", NoImage)
      /\ snaps \in Nat /\ snaps + 1 \in Nat
      /\ vm \in [Nodes -> {"none", "running", "paused"}]
  BY DEF Labels, Suits, Inv, TypeOK
<1>2. CASE Abandon(n)
  <2>1. /\ index[n] # NoImage /\ index[n].intent # NoIntent
        /\ index[n].phase \in {"FAILED", "DELETED"}
        /\ queued' = [queued EXCEPT ![n] = FALSE]
        /\ UNCHANGED <<tableVars, calls, updates, index, retries>>
        /\ Goto(n, "send", Abandoned(index[n]))
        /\ UNCHANGED <<vm, snaps, faults>>
    BY <1>2 DEF Abandon, Take, Succeed
  <2>2. Suits(n, "send", Abandoned(index[n]))
    BY <2>1, AbandonedSuits
  <2>3. faults' \in Nat
    BY <2>1, FaultCount DEF Inv
  <2> QED
    BY <1>1, <2>1, <2>2, <2>3, ReconcileStep
<1>3. ASSUME pc[n] # "idle" PROVE index[n] # NoImage
  BY <1>3 DEF Inv, Coherent, QueueInv
<1>4. ASSUME pc[n] = "snapshot", NEW s \in Nat
      PROVE  Suits(n, "send", Converged(work[n], s))
  <2>1. /\ Known(work[n]) /\ work[n].node = n
        /\ work[n].phase \in Transitional /\ work[n].intent # NoIntent
        /\ work[n].version = Len(log) => work[n] = Row
    BY <1>4 DEF Inv, Coherent, WorkInv, Transitional
  <2> QED
    BY <2>1, ConvergedSuits
<1>5. CASE FinishSnapshot(n) \/ SnapshotResumeFails(n)
  <2>1. /\ pc[n] = "snapshot" /\ index[n] # NoImage
        /\ UNCHANGED <<tableVars, calls, updates, index, retries>> /\ queued' = queued
    BY <1>3, <1>5 DEF FinishSnapshot, SnapshotResumeFails
  <2>2. /\ vm' \in [Nodes -> {"none", "running", "paused"}]
        /\ \A m \in Nodes \ {n} : vm'[m] = vm[m]
    BY <1>1, <1>5 DEF FinishSnapshot, SnapshotResumeFails
  <2>3. snaps' \in Nat
    BY <1>1, <1>5 DEF FinishSnapshot, SnapshotResumeFails, SnapshotOutcome
  <2>4. faults' \in Nat
    BY <1>5, FaultCount
       DEF Inv, FinishSnapshot, SnapshotResumeFails, SnapshotOutcome, Succeed, Fail, Reject
  <2>5. \/ Goto(n, "send", Converged(work[n], snaps + 1))
        \/ Goto(n, "failed", NoImage)
    BY <1>5 DEF FinishSnapshot, SnapshotResumeFails, SnapshotOutcome, Succeed, Fail, Reject
  <2>6. Suits(n, "send", Converged(work[n], snaps + 1))
    BY <1>1, <1>4, <2>1
  <2> QED
    BY <1>1, <2>1, <2>2, <2>3, <2>4, <2>5, <2>6, ReconcileStep
<1>6. CASE SendFails(n)
  <2>1. /\ index[n] # NoImage /\ Goto(n, "failed", NoImage)
        /\ UNCHANGED <<tableVars, calls, updates, index, retries>>
        /\ queued' = queued /\ vm' = vm /\ snaps' = snaps
    BY <1>3, <1>6 DEF SendFails, Fail
  <2>2. faults' \in Nat
    BY <1>6, FaultCount DEF Inv, SendFails, Fail
  <2> QED
    BY <1>1, <2>1, <2>2, ReconcileStep
<1> QED
  BY <1>2, <1>5, <1>6

(* The update goes out and the indexed image advances.                     *)
LEMMA SendStep ==
  ASSUME Inv, NEW n \in Nodes, Send(n)
  PROVE  Inv'
<1>1. /\ pc[n] = "send" /\ updates' = updates \cup {work[n]}
      /\ index' = [index EXCEPT ![n] =
                      IF work[n].version >= @.version THEN work[n] ELSE @]
      /\ retries' = [retries EXCEPT ![n] = 0]
      /\ Goto(n, "idle", NoImage)
      /\ UNCHANGED <<tableVars, calls>> /\ UNCHANGED <<queued, vm, snaps, faults>>
  BY DEF Send
<1>2. /\ LogInv' /\ EventInv' /\ CallInv'
      /\ Row' = Row /\ Len(log') = Len(log) /\ log' = log
      /\ \A i : Known(i)' <=> Known(i)
  BY <1>1, QuietStep DEF Inv
<1>3. Suits(n, "idle", NoImage) /\ "idle" \in Labels
  BY DEF Suits, Labels
<1>4. /\ pc' \in [Nodes -> Labels] /\ pc'[n] = "idle"
      /\ \A m \in Nodes \ {n} : pc'[m] = pc[m]
      /\ work' \in [Nodes -> Image \cup {NoImage}] /\ WorkInv'
  BY <1>1, <1>3, WorkStep
<1>5. /\ Known(work[n]) /\ work[n].node = n /\ work[n] # NoImage
      /\ work[n].version = Len(log) => Follows(work[n], Row)
  BY <1>1, ImageIsNotNoImage DEF Inv, Coherent, WorkInv, Known
<1>6. /\ index' \in [Nodes -> Image \cup {NoImage}]
      /\ index'[n] \in {work[n], index[n]}
      /\ \A m \in Nodes \ {n} : index'[m] = index[m]
  BY <1>1, <1>5 DEF Inv, TypeOK, Known
<1>7. UpdateInv'
  BY <1>1, <1>2, <1>5 DEF Inv, Coherent, UpdateInv, Follows
<1>8. IndexInv' /\ QueueInv'
  BY <1>1, <1>2, <1>4, <1>5, <1>6 DEF Inv, Coherent, IndexInv, QueueInv, Follows
<1>9. OneHome'
  BY <1>1, <1>2 DEF Inv, Coherent, OneHome
<1>10. retries' \in [Nodes -> 0..MaxRetries]
  BY <1>1, MaxRetriesAssumption DEF Inv, TypeOK
<1>11. updates' \subseteq Image
  BY <1>1, <1>5 DEF Inv, TypeOK, Known
<1>12. TypeOK'
  BY <1>1, <1>2, <1>4, <1>6, <1>10, <1>11 DEF Inv, TypeOK, tableVars
<1> QED
  BY <1>2, <1>4, <1>7, <1>8, <1>9, <1>12 DEF Inv, Coherent

(* The worker ends an attempt: the id is dropped, queued again, reported   *)
(* as failed, or forgotten with everything else the daemon had in memory.  *)
LEMMA SettleStep ==
  ASSUME Inv, NEW n \in Nodes,
         Skip(n) \/ Requeue(n) \/ GiveUp(n) \/ Restart(n)
  PROVE  Inv'
<1>1. UNCHANGED <<tableVars, calls>> /\ UNCHANGED snaps
  BY DEF Skip, Requeue, GiveUp, Restart
<1>2. /\ LogInv' /\ EventInv' /\ CallInv'
      /\ Row' = Row /\ Len(log') = Len(log) /\ log' = log
      /\ \A i : Known(i)' <=> Known(i)
  BY <1>1, QuietStep DEF Inv
<1>3. vm' \in [Nodes -> {"none", "running", "paused"}] /\ OneHome'
  <2>1. /\ vm \in [Nodes -> {"none", "running", "paused"}]
        /\ vm' = vm \/ vm' = [vm EXCEPT ![n] = "none"]
    BY DEF Inv, TypeOK, Skip, Requeue, GiveUp, Restart
  <2> QED
    BY <1>2, <2>1 DEF Inv, Coherent, OneHome
<1>4. faults' \in Nat
  BY FaultCount DEF Inv, Skip, Requeue, GiveUp, Restart
<1>5. retries' \in [Nodes -> 0..MaxRetries]
  <2>1. retries \in [Nodes -> 0..MaxRetries] /\ 0 \in 0..MaxRetries
    BY MaxRetriesAssumption DEF Inv, TypeOK
  <2>2. CASE Requeue(n)
    BY <2>1, <2>2, MaxRetriesAssumption DEF Requeue
  <2>3. CASE retries' = [retries EXCEPT ![n] = 0]
    BY <2>1, <2>3
  <2> QED
    BY <2>2, <2>3 DEF Skip, GiveUp, Restart
<1>6. /\ pc' \in [Nodes -> Labels] /\ pc'[n] = "idle"
      /\ \A m \in Nodes \ {n} : pc'[m] = pc[m]
      /\ work' \in [Nodes -> Image \cup {NoImage}] /\ WorkInv'
  <2>1. CASE Goto(n, "idle", NoImage)
    <3>1. Suits(n, "idle", NoImage) /\ "idle" \in Labels
      BY DEF Suits, Labels
    <3> QED
      BY <1>1, <2>1, <3>1, WorkStep
  <2>2. CASE Skip(n)
    <3>1. pc[n] = "idle" /\ pc' = pc /\ work' = work
      BY <2>2 DEF Skip
    <3> QED
      BY <1>2, <3>1 DEF Inv, TypeOK, Coherent, WorkInv, Follows
  <2> QED
    BY <2>1, <2>2 DEF Requeue, GiveUp, Restart
<1>7. UpdateInv' /\ updates' \subseteq Image
  <2>1. CASE updates' = updates
    BY <1>2, <2>1 DEF Inv, TypeOK, Coherent, UpdateInv, Follows
  <2>2. CASE GiveUp(n) /\ updates' = updates \cup {MarkedFailed(index[n])}
    <3>1. index[n] # NoImage
      BY <2>2 DEF Inv, Coherent, QueueInv, GiveUp
    <3>2. LET u == MarkedFailed(index[n]) IN
          Known(u) /\ (u.version = Len(log) => Follows(u, Row))
      BY <3>1, MarkedFailedFollows
    <3> QED
      BY <1>2, <2>2, <3>2 DEF Inv, TypeOK, Coherent, UpdateInv, Follows, Known
  <2> QED
    BY <2>1, <2>2 DEF Skip, Requeue, GiveUp, Restart
<1>8. /\ index' \in [Nodes -> Image \cup {NoImage}] /\ IndexInv'
      /\ queued' \in [Nodes -> BOOLEAN] /\ QueueInv'
  <2>1. index \in [Nodes -> Image \cup {NoImage}] /\ queued \in [Nodes -> BOOLEAN]
    BY DEF Inv, TypeOK
  <2>2. CASE Restart(n)
    <3>1. /\ index' = [index EXCEPT ![n] = NoImage]
          /\ queued' = [queued EXCEPT ![n] = FALSE]
      BY <2>2 DEF Restart
    <3>2. /\ index'[n] = NoImage /\ ~queued'[n]
          /\ \A m \in Nodes \ {n} : index'[m] = index[m] /\ queued'[m] = queued[m]
      BY <2>1, <3>1
    <3> QED
      BY <1>2, <1>6, <2>1, <3>1, <3>2, ZenonT(30)
         DEF Inv, Coherent, IndexInv, QueueInv, Follows
  <2>3. CASE ~Restart(n)
    <3>1. index' = index
      BY <2>3 DEF Skip, Requeue, GiveUp
    <3>2. /\ queued' \in [Nodes -> BOOLEAN]
          /\ \A m \in Nodes \ {n} : queued'[m] = queued[m]
      BY <2>1, <2>3 DEF Skip, Requeue, GiveUp
    <3>3. index[n] # NoImage
      BY <2>3 DEF Inv, Coherent, QueueInv, Skip, Requeue, GiveUp
    <3> QED
      BY <1>2, <1>6, <2>1, <3>1, <3>2, <3>3
         DEF Inv, Coherent, IndexInv, QueueInv, Follows
  <2> QED
    BY <2>2, <2>3
<1>9. TypeOK'
  BY <1>1, <1>2, <1>3, <1>4, <1>5, <1>6, <1>7, <1>8 DEF Inv, TypeOK, tableVars
<1> QED
  BY <1>2, <1>3, <1>6, <1>7, <1>8, <1>9 DEF Inv, Coherent

LEMMA InitInv == Init => Inv
<1> SUFFICES ASSUME Init PROVE Inv
  OBVIOUS
<1>1. TypeOK
  BY MaxRetriesAssumption DEF Init, TypeOK, Labels
<1>2. Coherent
  BY DEF Init, Coherent, LogInv, EventInv, CallInv, UpdateInv, IndexInv, WorkInv,
         QueueInv, OneHome
<1> QED
  BY <1>1, <1>2 DEF Inv

LEMMA NextInv == Inv /\ [Next]_vars => Inv'
<1> SUFFICES ASSUME Inv, [Next]_vars PROVE Inv'
  OBVIOUS
<1>1. CASE UNCHANGED vars
  BY <1>1, ZenonT(30) DEF vars, Inv, TypeOK, Coherent, LogInv, EventInv, CallInv, UpdateInv,
              IndexInv, WorkInv, QueueInv, OneHome, Known, Follows, Row
<1>2. CASE ControlPlane
  BY <1>2, CreateStep, CallStep, FinishStep, ApplyStep DEF ControlPlane
<1>3. ASSUME NEW n \in Nodes, Daemon(n) PROVE Inv'
  <2>1. ASSUME NEW e \in events, Dispatch(n, e) PROVE Inv'
    BY <2>1, PutStep DEF Dispatch, Inv, Coherent, EventInv
  <2>2. CASE Resync(n)
    <3>1. Known(Row) /\ Row.node = n
      BY <2>2 DEF Resync, Known, Inv, TypeOK, Coherent, LogInv, Row
    <3> QED
      BY <2>2, <3>1, PutStep DEF Resync
  <2>3. CASE Worker(n)
    BY <2>3, ReconcilerSteps, CarryStep, SendStep, SettleStep DEF Worker
  <2> QED
    BY <1>3, <2>1, <2>2, <2>3 DEF Daemon
<1>4. ASSUME NEW n \in Nodes,
             Restart(n) \/ SnapshotPauseLost(n) \/ SnapshotResumeFails(n)
      PROVE  Inv'
  BY <1>4, SettleStep, ReconcilerSteps, CarryStep
<1> QED
  BY <1>1, <1>2, <1>3, <1>4 DEF Next, Step

(* Types, and the inductive invariant, hold in every behaviour.            *)
THEOREM Invariance == Spec => []Inv
BY InitInv, NextInv, PTL DEF Spec

(* Every variable keeps its shape.                                         *)
THEOREM TypeCorrect == Spec => []TypeOK
<1>1. Inv => TypeOK
  BY DEF Inv
<1> QED
  BY <1>1, Invariance, PTL

(* Everything in flight with the current version is the row or a legal     *)
(* successor of it.                                                        *)
THEOREM CoherentCorrect == Spec => []Coherent
<1>1. Inv => Coherent
  BY DEF Inv
<1> QED
  BY <1>1, Invariance, PTL

(* No event, update, indexed or carried image is newer than the stored row.*)
THEOREM NothingAheadCorrect == Spec => []NothingAhead
<1>1. Inv => NothingAhead
  <2> SUFFICES ASSUME Inv PROVE NothingAhead
    OBVIOUS
  <2>1. \A i \in events \cup updates : i.version <= Len(log)
    BY DEF Inv, Coherent, EventInv, UpdateInv, Known
  <2>2. NoImage.version <= Len(log)
    BY DEF Inv, TypeOK, NoImage
  <2>3. \A n \in Nodes : index[n].version <= Len(log)
    BY <2>2, Zenon DEF Inv, Coherent, IndexInv, Known
  <2>4. ASSUME NEW n \in Nodes PROVE work[n].version <= Len(log)
    <3>1. pc[n] \in {"idle", "snapshot", "send", "failed"}
      BY DEF Inv, TypeOK, Labels
    <3>2. work[n] = NoImage \/ Known(work[n])
      BY <3>1 DEF Inv, Coherent, WorkInv
    <3> QED
      BY <2>2, <3>2 DEF Known
  <2> QED
    BY <2>1, <2>3, <2>4 DEF NothingAhead
<1> QED
  BY <1>1, Invariance, PTL

(* An event with the current version is the current row.                   *)
THEOREM EventsAgreeCorrect == Spec => []EventsAgree
<1>1. Inv => EventsAgree
  BY DEF Inv, Coherent, EventInv, EventsAgree
<1> QED
  BY <1>1, Invariance, PTL

(* Only the daemon of the row's node ever has a microVM for the sandbox.   *)
THEOREM OneHomeCorrect == Spec => []OneHome
<1>1. Inv => OneHome
  BY DEF Inv, Coherent
<1> QED
  BY <1>1, Invariance, PTL

-----------------------------------------------------------------------------
(* The row implements the contract of SandboxPhases.                       *)

(* The status and the intent the contract sees of a stored row.            *)
LEMMA RowSeen ==
  ASSUME Inv, log # <<>>
  PROVE  /\ Row \in Image /\ WellFormed(Row) /\ Row.phase # "ABSENT"
<1>1. Row \in Image /\ WellFormed(Row)
  BY DEF Inv, TypeOK, Coherent, LogInv, Row
<1> QED
  BY <1>1 DEF Image, Phases, Transitional, Terminal

(* Nothing but the control plane writes the table.                         *)
LEMMA DaemonLeavesTable ==
  ASSUME NEW n \in Nodes,
         \/ Daemon(n) \/ Restart(n)
         \/ SnapshotPauseLost(n) \/ SnapshotResumeFails(n)
  PROVE  log' = log
BY DEF Daemon, Dispatch, Resync, PutAndEnqueue, Worker, Skip, Abandon, Boot, Pause,
       Resume, Transition, Delete, PauseForSnapshot, FinishSnapshot, SnapshotInPlace,
       Send, SendFails, Requeue, GiveUp, Restart, SnapshotPauseLost,
       SnapshotResumeFails, Take, tableVars

(* A write at the current version appends the image it carries.            *)
LEMMA Appended ==
  ASSUME Inv, NEW img, Known(img), Update(img), log' # log
  PROVE  /\ img.version = Len(log) /\ log # <<>> /\ log' # <<>>
         /\ Row'.phase = img.phase /\ Row'.intent = img.intent
<1> DEFINE stamped == [img EXCEPT !.version = img.version + 1]
<1>1. ConditionHolds(img) /\ log' = Append(log, stamped)
  BY DEF Update
<1>2. log \in Seq(Image) /\ log # <<>> /\ img \in Image
  BY DEF Inv, TypeOK, Known
<1>3. Row.version = Len(log)
  BY <1>2 DEF Inv, Coherent, LogInv, Row
<1>4. stamped.phase = img.phase /\ stamped.intent = img.intent
  BY <1>2 DEF Image
<1>5. Row' = stamped /\ log' # <<>>
  BY <1>1, <1>2 DEF Row
<1> QED
  BY <1>1, <1>2, <1>3, <1>4, <1>5 DEF ConditionHolds

(* Every step of the system is a step of the contract, or none.            *)
LEMMA ContractStep ==
  ASSUME Inv, [Next]_vars
  PROVE  log' = log \/ Contract!Next
<1> SUFFICES ASSUME log' # log PROVE Contract!Next
  OBVIOUS
<1>1. CASE UNCHANGED vars
  BY <1>1 DEF vars
<1>2. CASE CheckedCall
  BY <1>2 DEF CheckedCall, StartCall, tableVars
<1>3. ASSUME NEW n \in Nodes, CreateSandbox(n) PROVE Contract!Next
  <2>1. log = <<>> /\ log' # <<>> /\ Row' = NewSandbox(n)
    BY <1>3 DEF CreateSandbox, Row
  <2>2. Contract!Created
    BY <2>1, NewSandboxImage DEF Contract!Created
  <2> QED
    BY <2>2 DEF Contract!Next
<1>4. ASSUME NEW c \in calls, FinishCall(c) PROVE Contract!Next
  <2> DEFINE img == Request(c.op, log[c.base], c.version)
  <2>1. Update(img) /\ Known(img)
    BY <1>4, RequestKnown DEF FinishCall
  <2>2. /\ img.version = Len(log) /\ log # <<>> /\ log' # <<>>
        /\ Row'.phase = img.phase /\ Row'.intent = img.intent
    BY <2>1, Appended
  <2>3. log[c.base] = Row /\ Admits(c.op, Row.phase)
    BY <2>2, RequestKnown
  <2>4. Row \in Image /\ WellFormed(Row) /\ Row.phase # "ABSENT"
    BY <2>2, RowSeen
  <2>5. c.op \in Ops /\ c.version \in Nat \ {0}
    BY DEF Inv, TypeOK, Calls
  <2>6. /\ c.op = "pause" => img.phase = "PAUSING" /\ img.intent = "PAUSED"
        /\ c.op = "resume" => img.phase = "RESUMING" /\ img.intent = "RUNNING"
        /\ c.op = "delete" => img.phase = "DELETING" /\ img.intent = "DELETED"
        /\ c.op = "snapshot" => img.phase = "SNAPSHOTTING" /\ img.intent = Row.phase
    <3>1. ASSUME NEW op \in Ops, NEW base \in Image, NEW v \in Nat \ {0},
                 NEW r, r = Request(op, base, v)
          PROVE  /\ op = "pause" => r.phase = "PAUSING" /\ r.intent = "PAUSED"
                 /\ op = "resume" => r.phase = "RESUMING" /\ r.intent = "RUNNING"
                 /\ op = "delete" => r.phase = "DELETING" /\ r.intent = "DELETED"
                 /\ op = "snapshot" => r.phase = "SNAPSHOTTING" /\ r.intent = base.phase
      BY <3>1, RequestImage
    <3>2. img = Request(c.op, Row, c.version) /\ Row \in Image
      BY <2>3, <2>4
    <3> HIDE DEF img
    <3> QED
      BY <2>5, <3>1, <3>2
  <2> HIDE DEF img
  <2>7. CASE c.op = "pause"
    BY <2>2, <2>3, <2>4, <2>6, <2>7
       DEF Admits, WellFormed, Terminal, NoIntent, Contract!Next, Contract!PauseRequested
  <2>8. CASE c.op = "resume"
    BY <2>2, <2>3, <2>4, <2>6, <2>8
       DEF Admits, WellFormed, Terminal, NoIntent, Contract!Next, Contract!ResumeRequested
  <2>9. CASE c.op = "delete"
    BY <2>2, <2>4, <2>6, <2>9 DEF Contract!Next, Contract!DeleteRequested
  <2>10. CASE c.op = "snapshot"
    BY <2>2, <2>3, <2>4, <2>6, <2>10
       DEF Admits, WellFormed, Terminal, NoIntent, Contract!Next, Contract!SnapshotRequested
  <2> QED
    BY <2>5, <2>7, <2>8, <2>9, <2>10 DEF Ops
<1>5. ASSUME NEW u \in updates, ApplyUpdate(u) PROVE Contract!Next
  <2>1. Update(u) /\ Known(u)
    BY <1>5, UpdateKnown DEF ApplyUpdate
  <2>2. /\ u.version = Len(log) /\ log # <<>> /\ log' # <<>>
        /\ Row'.phase = u.phase /\ Row'.intent = u.intent
    BY <2>1, Appended
  <2>3. Follows(u, Row)
    BY <2>2, UpdateKnown
  <2>4. Row.phase # "ABSENT"
    BY <2>2, RowSeen
  <2> QED
    BY <2>2, <2>3, <2>4
       DEF Follows, Transitional, NoIntent, Contract!Next, Contract!Completed, Contract!GaveUp
<1> QED
  BY <1>1, <1>2, <1>3, <1>4, <1>5, DaemonLeavesTable DEF Next, Step, ControlPlane

(* The stored row obeys the contract of the sandbox service, whatever the  *)
(* daemons, the clients and the network between them do.                   *)
THEOREM PhasesImplemented == Spec => ImplementsPhases
<1>1. Init => Contract!Init
  BY DEF Init, Contract!Init, NoIntent
<1>2. Inv /\ [Next]_vars => [Contract!Next]_(Contract!vars)
  <2> SUFFICES ASSUME Inv, [Next]_vars, log' = log
               PROVE  UNCHANGED Contract!vars
    BY ContractStep
  <2> QED
    BY DEF Contract!vars, Row
<1> QED
  BY <1>1, <1>2, Invariance, PTL DEF Spec, ImplementsPhases, Contract!Spec

(* An accepted delete is never undone: a DELETING row becomes DELETED or   *)
(* FAILED, or is asked to be deleted again.                                *)
THEOREM DeleteSticksCorrect == Spec => DeleteSticks
<1>1. Inv /\ [Next]_vars =>
        [log # <<>> /\ Row.phase = "DELETING" =>
           Row'.phase \in {"DELETING", "DELETED", "FAILED"}]_vars
  <2> SUFFICES ASSUME Inv, [Next]_vars, log # <<>>, Row.phase = "DELETING"
               PROVE  Row'.phase \in {"DELETING", "DELETED", "FAILED"}
    OBVIOUS
  <2>1. CASE log' = log
    BY <2>1 DEF Row
  <2>2. Row.intent = "DELETED"
    BY RowSeen DEF WellFormed
  <2>3. CASE Contract!Next /\ log' # <<>>
    BY <2>2, <2>3 DEF Contract!Next, Contract!Created, Contract!PauseRequested,
       Contract!ResumeRequested, Contract!SnapshotRequested, Contract!DeleteRequested,
       Contract!Completed, Contract!GaveUp
  <2>4. CASE Contract!Next /\ log' = <<>>
    BY <2>2, <2>4 DEF Contract!Next, Contract!Created, Contract!PauseRequested,
       Contract!ResumeRequested, Contract!SnapshotRequested, Contract!DeleteRequested,
       Contract!Completed, Contract!GaveUp
  <2> QED
    BY <2>1, <2>3, <2>4, ContractStep
<1> QED
  BY <1>1, Invariance, PTL DEF Spec, DeleteSticks
=============================================================================
