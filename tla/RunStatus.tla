----------------------------- MODULE RunStatus -----------------------------
(***************************************************************************)
(* The status vocabulary of a run and the table of transitions the run     *)
(* service accepts (domain/enums.py).  Every module that moves a run       *)
(* consults this table the way transition_run does: on the status that     *)
(* the session doing the move has in memory.                               *)
(***************************************************************************)

Status == {"received", "rejected", "queued", "leased", "snapshotting",
           "running", "evaluating", "ready_to_push", "pushing", "succeeded",
           "refused", "budget_exhausted", "superseded", "failed", "cancelled"}

Terminal == {"rejected", "succeeded", "refused", "budget_exhausted",
             "superseded", "failed", "cancelled"}

(* ALLOWED_TRANSITIONS.get(status, frozenset()): a status that is no key   *)
(* of the table, which every terminal status is, leads nowhere.            *)
AllowedTransitions(s) ==
    CASE s = "received"      -> {"rejected", "queued"}
      [] s = "queued"        -> {"leased", "cancelled", "superseded"}
      [] s = "leased"        -> {"snapshotting", "running", "cancelled",
                                 "superseded", "failed"}
      [] s = "snapshotting"  -> {"running", "refused", "superseded", "failed"}
      [] s = "running"       -> {"evaluating", "refused", "budget_exhausted",
                                 "failed", "superseded"}
      [] s = "evaluating"    -> {"ready_to_push", "succeeded", "refused",
                                 "failed", "superseded"}
      [] s = "ready_to_push" -> {"pushing", "refused", "superseded"}
      [] s = "pushing"       -> {"succeeded", "refused", "failed"}
      [] OTHER               -> {}

(* The guard of transition_run.                                            *)
MayMove(s, target) == target \in AllowedTransitions(s)
============================================================================
