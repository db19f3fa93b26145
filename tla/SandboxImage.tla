---------------------------- MODULE SandboxImage ----------------------------
(***************************************************************************)
(* The Sandbox message as every component of Yaghan copies it around: the  *)
(* stored row, the event, the daemon's indexed copy and the update the     *)
(* daemon sends back are all whole images of one sandbox.  This module has *)
(* no state; it defines the images, the digest the table compares, the     *)
(* state machine guard of the table, and the images each writer builds.    *)
(*                                                                         *)
(* One sandbox id is modelled: rows of distinct ids share no state on the  *)
(* paths modelled here.  Fields no component branches on (labels, egress   *)
(* rules, resources, timestamps) are left out.                             *)
(***************************************************************************)
EXTENDS Naturals

CONSTANT Nodes        \* ids of the registered, healthy nodes

Transitional == {"PENDING", "PAUSING", "RESUMING", "SNAPSHOTTING", "DELETING"}
Terminal     == {"RUNNING", "PAUSED", "DELETED"}
Phases       == Transitional \cup Terminal \cup {"FAILED"}

NoIntent == "NONE"    \* Sandbox.Intent == nil

(* Status.Message is part of the digest, so what tells the messages apart  *)
(* is kept: which handler wrote it.                                        *)
Messages == {"empty", "running", "paused", "deleted", "snapshot", "error"}

(* LastSnapshot carries a fresh uuid: a positive number, 0 when unset.     *)
Image ==
  [version : Nat \ {0}, node : Nodes, phase : Phases,
   intent : Phases \cup {NoIntent}, message : Messages, snapshot : Nat]

(* What an indexer holds for an id it has never seen.                      *)
NoImage == [version |-> 0]

initialVersion == 1

(* The row CreateSandbox persists once the scheduler has chosen n.         *)
NewSandbox(n) ==
  [version |-> initialVersion, node |-> n, phase |-> "PENDING",
   intent |-> "RUNNING", message |-> "empty", snapshot |-> 0]

(* Mutant: the phase and the intent are left out of the digest.            *)
contentDigestOfDetails(img) == <<img.message, img.snapshot>>

(* What the table hashes: everything but the version, the clocks and Node. *)
contentDigest(img) == <<img.phase, img.intent, img.message, img.snapshot>>

(* The saved phases a write of phase p requires; {} imposes nothing.       *)
requiredPriorPhases(p) ==
  CASE p = "PAUSING"      -> {"RUNNING"}
    [] p = "RESUMING"     -> {"PAUSED"}
    [] p = "SNAPSHOTTING" -> {"RUNNING", "PAUSED"}
    [] OTHER              -> {}

PriorPhaseAllowed(saved, p) ==
  requiredPriorPhases(p) = {} \/ saved \in requiredPriorPhases(p)

-----------------------------------------------------------------------------
(* The image a client's request writes over `base`, the image the handler  *)
(* read, at the version the client supplied.                               *)

Ops == {"pause", "resume", "delete", "snapshot"}

transitionPhase(base, version, targetStatus, targetIntent) ==
  [base EXCEPT !.version = version, !.phase = targetStatus,
               !.intent = targetIntent, !.message = "empty"]

Request(op, base, version) ==
  CASE op = "pause"    -> transitionPhase(base, version, "PAUSING", "PAUSED")
    [] op = "resume"   -> transitionPhase(base, version, "RESUMING", "RUNNING")
    [] op = "delete"   -> transitionPhase(base, version, "DELETING", "DELETED")
    [] op = "snapshot" ->
         transitionPhase(base, version, "SNAPSHOTTING", base.phase)

(* A client that acts on what it read: it asks for a transition the image  *)
(* it read admits.                                                         *)
Admits(op, phase) ==
  CASE op = "pause"    -> phase = "RUNNING"
    [] op = "resume"   -> phase = "PAUSED"
    [] op = "delete"   -> TRUE
    [] op = "snapshot" -> phase \in {"RUNNING", "PAUSED"}

-----------------------------------------------------------------------------
(* The images the daemon sends back.                                       *)

doneMessage(phase) ==
  CASE phase \in {"PENDING", "RESUMING"} -> "running"
    [] phase = "PAUSING"                 -> "paused"
    [] phase = "DELETING"                -> "deleted"
    [] phase = "SNAPSHOTTING"            -> "snapshot"

(* Mutant: the intent is not cleared.                                      *)
ConvergedKeepingIntent(img, snap) ==
  [img EXCEPT !.phase = img.intent,
              !.message = doneMessage(img.phase), !.snapshot = snap]

(* reconcilePhase succeeded: status takes the intent's phase, which is     *)
(* then cleared.  `snap` is the new snapshot's id, or the old value.       *)
Converged(img, snap) ==
  [img EXCEPT !.phase = img.intent, !.intent = NoIntent,
              !.message = doneMessage(img.phase), !.snapshot = snap]

(* Terminal status with an intent left over: only the intent is cleared.   *)
Abandoned(img) == [img EXCEPT !.intent = NoIntent]

(* markFailed: the status is replaced, the intent is kept.                 *)
MarkedFailed(img) == [img EXCEPT !.phase = "FAILED", !.message = "error"]
=============================================================================
