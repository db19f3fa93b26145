---------------------------- MODULE SandboxPhases ---------------------------
(***************************************************************************)
(* What the sandbox service promises about the stored row of one sandbox,  *)
(* with no versions, events, daemons or retries: which phases follow which,*)
(* and that an accepted request stays in force until the data plane either *)
(* completes it or gives it up by marking the sandbox failed.              *)
(***************************************************************************)

VARIABLES phase,      \* Status.Phase of the row; "ABSENT" before Create
          intent      \* Intent.Phase of the row; "NONE" when Intent is nil

vars == <<phase, intent>>

Init == phase = "ABSENT" /\ intent = "NONE"

Created ==
  /\ phase = "ABSENT"
  /\ phase' = "PENDING" /\ intent' = "RUNNING"

PauseRequested ==
  /\ phase = "RUNNING" /\ intent = "NONE"
  /\ phase' = "PAUSING" /\ intent' = "PAUSED"

ResumeRequested ==
  /\ phase = "PAUSED" /\ intent = "NONE"
  /\ phase' = "RESUMING" /\ intent' = "RUNNING"

(* A snapshot returns the sandbox to the phase it was taken in.            *)
SnapshotRequested ==
  /\ phase \in {"RUNNING", "PAUSED"} /\ intent = "NONE"
  /\ phase' = "SNAPSHOTTING" /\ intent' = phase

DeleteRequested ==
  /\ phase # "ABSENT"
  /\ phase' = "DELETING" /\ intent' = "DELETED"

(* The data plane reached the target of the request in force.              *)
Completed ==
  /\ phase \in {"PENDING", "PAUSING", "RESUMING", "SNAPSHOTTING", "DELETING"}
  /\ phase' = intent /\ intent' = "NONE"

(* The data plane gave up; the intent is left for it to clear.             *)
GaveUp ==
  /\ phase # "ABSENT"
  /\ phase' = "FAILED" /\ intent' \in {intent, "NONE"}

Next ==
  \/ Created
  \/ PauseRequested
  \/ ResumeRequested
  \/ SnapshotRequested
  \/ DeleteRequested
  \/ Completed
  \/ GaveUp

Spec == Init /\ [][Next]_vars
=============================================================================
