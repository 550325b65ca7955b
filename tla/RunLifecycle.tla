---------------------------- MODULE RunLifecycle ----------------------------
(***************************************************************************)
(* What the durable queue promises about a run: it is submitted, claimed,  *)
(* and ended once by a worker; besides, whoever may cancel or supersede it *)
(* ends it at any time, before or after the worker.  Leases, takeovers,    *)
(* heartbeats, crashes and row locks are invisible.  RunLeases implements  *)
(* it.                                                                     *)
(***************************************************************************)
CONSTANTS
    Run,
    Outcome,      \* the terminal statuses a worker can reach
    Ending        \* the terminal statuses an API transaction can write

VARIABLES
    status,       \* the committed status of each run
    processed     \* the runs for which a worker has published its outcome

Init == status = [r \in Run |-> "absent"] /\ processed = {}

Move(r, to) == status' = [status EXCEPT ![r] = to]

Submit(r) == status[r] = "absent" /\ Move(r, "queued") /\ UNCHANGED processed
Claim(r)  == status[r] = "queued" /\ Move(r, "leased") /\ UNCHANGED processed

(* A worker ends what it claimed, once, and also when it was ended from    *)
(* outside in the meantime.                                                *)
Finish(r) ==
    /\ status[r] \in {"leased"} \cup Ending
    /\ r \notin processed
    /\ processed' = processed \cup {r}
    /\ \E outcome \in Outcome : Move(r, outcome)

(* The caller that ends a run judged an earlier status of it.              *)
End(r) ==
    /\ status[r] # "absent"
    /\ \E ending \in Ending : Move(r, ending)
    /\ UNCHANGED processed

Next == \E r \in Run : Submit(r) \/ Claim(r) \/ Finish(r) \/ End(r)

vars == <<status, processed>>

Spec == Init /\ [][Next]_vars

(* Every submitted run is claimed.  As long as nobody ends a run from      *)
(* outside, every claimed run gets its outcome.                            *)
Fairness ==
    /\ \A r \in Run : WF_vars(Claim(r))
    /\ [](\A r \in Run : status[r] \notin Ending) => \A r \in Run : WF_vars(Finish(r))

LiveSpec == Spec /\ Fairness
============================================================================
