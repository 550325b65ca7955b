----------------------------- MODULE RunLeases -----------------------------
(***************************************************************************)
(* The durable run queue of agentic_lab: the tables runs and run_leases,   *)
(* the workers that claim runs, process them and publish their outcome     *)
(* (runs/worker.py, runs/leases.py, runs/heartbeat.py), and the API        *)
(* transactions that end a run from outside (cancel_run and                *)
(* supersede_active_runs).                                                 *)
(*                                                                         *)
(* status and lease are the COMMITTED rows: PostgreSQL runs at READ        *)
(* COMMITTED, so they are what every other transaction reads.  A worker    *)
(* claims in one short transaction and processes in one long one; what it  *)
(* writes in the long one stays in view[w], and the UPDATE it has flushed  *)
(* holds the row lock of the run until it commits or rolls back.           *)
(*                                                                         *)
(* Time is abstracted to the order in which leases pass their expires_at.  *)
(* The columns acquired_at, heartbeat_at and attempt are left out: no code *)
(* reads them.  The orchestration inside a processing transaction is       *)
(* abstracted to the outcome it reaches.                                   *)
(***************************************************************************)
EXTENDS RunStatus, Naturals, FiniteSets

CONSTANTS
    Run,          \* run ids, numbered in the order of created_at
    Worker,       \* worker processes
    WorkerId,     \* worker ids, "worker:" and a host name
    IdOf,         \* the id of each worker process
    Client,       \* API transactions that cancel or supersede a run
    Nobody,       \* no row lock, no lease owner, no job
    MaxCrashes,   \* bound: workers that crash
    MaxFaults     \* bound: heartbeats that fail or come late

ASSUME RunsAreNumbered  == Run \subseteq Nat
ASSUME IdsAreGiven      == IdOf \in [Worker -> WorkerId]
ASSUME PartiesDistinct  == /\ Worker \cap Client = {}
                           /\ Nobody \notin Worker \cup Client \cup WorkerId \cup Run
ASSUME BoundsAreNatural == MaxCrashes \in Nat /\ MaxFaults \in Nat

VARIABLES
    status,     \* runs.status, as committed; "absent" before the run exists
    lease,      \* the worker_id of the run's lease row, Nobody without a row
    expired,    \* 0 while the lease has not expired, else its place in the
                \* order of expires_at
    rowLock,    \* the transaction that holds the row lock of the run
    outcomes,   \* how many terminal transitions workers have committed
    pc,         \* where each worker is
    job,        \* the run it has claimed
    view,       \* the run's status in the session of its processing
                \* transaction
    lost,       \* the heartbeat thread's _lost event
    txn,        \* each API transaction: its place, run and target status
    crashes, faults, expiries  \* counters for the bounds, and for expired

runVars    == <<status, lease, expired, outcomes>>
workerVars == <<pc, job, view, lost>>
vars       == <<runVars, rowLock, workerVars, txn, crashes, faults, expiries>>

(* The statuses a committed row can have: every other one is passed        *)
(* through inside one transaction.                                         *)
Durable == {"absent", "queued", "leased"} \cup Terminal

(* Mutant of WorkerOutcome: an orchestrator returns without an ending.     *)
UnfinishedOutcome == {"running", "succeeded", "refused", "budget_exhausted", "failed"}

(* What dispatch_run can leave in the session: the orchestrators' outcomes *)
(* and the "failed" of process_claimed_run's except clause.                *)
WorkerOutcome == {"succeeded", "refused", "budget_exhausted", "failed"}

(* cancel_run and supersede_active_runs.                                   *)
ClientTarget == {"cancelled", "superseded"}

TypeOK ==
    /\ status   \in [Run -> Durable]
    /\ lease    \in [Run -> WorkerId \cup {Nobody}]
    /\ expired  \in [Run -> Nat]
    /\ rowLock  \in [Run -> Worker \cup Client \cup {Nobody}]
    /\ outcomes \in [Run -> Nat]
    /\ pc       \in [Worker -> {"idle", "claiming", "claimed", "running",
                                "stopped", "releasing", "down"}]
    /\ job      \in [Worker -> Run \cup {Nobody}]
    /\ view     \in [Worker -> Durable]
    /\ lost     \in [Worker -> BOOLEAN]
    /\ txn      \in [Client -> [at : {"start", "read", "written", "end"},
                                run : Run \cup {Nobody}, target : ClientTarget]]
    /\ crashes \in Nat /\ faults \in Nat /\ expiries \in Nat

Init ==
    /\ status   = [r \in Run |-> "absent"]
    /\ lease    = [r \in Run |-> Nobody]
    /\ expired  = [r \in Run |-> 0]
    /\ rowLock  = [r \in Run |-> Nobody]
    /\ outcomes = [r \in Run |-> 0]
    /\ pc       = [w \in Worker |-> "idle"]
    /\ job      = [w \in Worker |-> Nobody]
    /\ view     = [w \in Worker |-> "absent"]
    /\ lost     = [w \in Worker |-> FALSE]
    /\ txn \in [Client -> [at : {"start"}, run : {Nobody}, target : ClientTarget]]
    /\ crashes = 0 /\ faults = 0 /\ expiries = 0

----------------------------------------------------------------------------
(* Helpers                                                                 *)

Unlocked(r) == rowLock[r] = Nobody

(* The session of w's processing transaction has flushed its UPDATE.       *)
Flushed(w) == job[w] \in Run /\ rowLock[job[w]] = w

(* The processing transaction leaves w with nothing: after its commit,     *)
(* after its rollback, and in a worker that claimed nothing.               *)
Leave(w, at) ==
    /\ pc'   = [pc   EXCEPT ![w] = at]
    /\ job'  = [job  EXCEPT ![w] = Nobody]
    /\ view' = [view EXCEPT ![w] = "absent"]
    /\ lost' = [lost EXCEPT ![w] = FALSE]

(* Every row lock w holds is given back.                                   *)
Unlock(w) ==
    rowLock' = [r \in Run |-> IF rowLock[r] = w THEN Nobody ELSE rowLock[r]]

(* create_queued_run, committed: the row passes through "received".        *)
Submit(r) ==
    /\ status[r] = "absent"
    /\ MayMove("received", "queued")
    /\ status' = [status EXCEPT ![r] = "queued"]
    /\ UNCHANGED <<lease, expired, outcomes, rowLock, workerVars, txn,
                   crashes, faults, expiries>>

----------------------------------------------------------------------------
(* The claim transaction                                                   *)

(* Mutant of Queued: the select takes no row locks and sees none.          *)
QueuedLockedOrNot == {r \in Run : status[r] = "queued"}

Queued == {r \in Run : status[r] = "queued" /\ Unlocked(r)}

(* Mutant of ClaimQueued: nothing is taken from the queue while a lease    *)
(* has expired.                                                            *)
ClaimAfterLeases(w) ==
    /\ pc[w] = "idle"
    /\ \A r \in Run : expired[r] = 0
    /\ \E r \in Queued :
         /\ \A other \in Queued : r <= other
         /\ job' = [job EXCEPT ![w] = r]
    /\ rowLock' = [r \in Run |-> IF r \in Queued THEN w ELSE rowLock[r]]
    /\ pc' = [pc EXCEPT ![w] = "claiming"]
    /\ UNCHANGED <<runVars, view, lost, txn, crashes, faults, expiries>>

(* SELECT ... WHERE status = 'queued' ORDER BY created_at FOR UPDATE SKIP  *)
(* LOCKED has no LIMIT: it locks every queued row it returns, and .first() *)
(* takes the oldest.                                                       *)
ClaimQueued(w) ==
    /\ pc[w] = "idle"
    /\ \E r \in Queued :
         /\ \A other \in Queued : r <= other
         /\ job' = [job EXCEPT ![w] = r]
    /\ rowLock' = [r \in Run |-> IF r \in Queued THEN w ELSE rowLock[r]]
    /\ pc' = [pc EXCEPT ![w] = "claiming"]
    /\ UNCHANGED <<runVars, view, lost, txn, crashes, faults, expiries>>

(* The claim commits: the run is leased, its lease row is w's.             *)
CommitClaim(w) ==
    /\ pc[w] = "claiming"
    /\ MayMove("queued", "leased")
    /\ status'  = [status  EXCEPT ![job[w]] = "leased"]
    /\ lease'   = [lease   EXCEPT ![job[w]] = IdOf[w]]
    /\ expired' = [expired EXCEPT ![job[w]] = 0]
    /\ Unlock(w)
    /\ pc' = [pc EXCEPT ![w] = "claimed"]
    /\ UNCHANGED <<outcomes, job, view, lost, txn, crashes, faults, expiries>>

(* A lease row whose DELETE is flushed and not yet committed is locked,    *)
(* and SKIP LOCKED passes over it.                                         *)
BeingReleased(r) == \E w \in Worker : pc[w] = "releasing" /\ job[w] = r

Expired == {r \in Run : lease[r] # Nobody /\ expired[r] > 0}

(* Mutant of Reclaim: a worker takes back its own leases only.             *)
ReclaimOwn(w) ==
    /\ pc[w] = "idle"
    /\ Queued = {}
    /\ \E r \in Expired :
         /\ \A other \in Expired : expired[other] < expired[r] => BeingReleased(other)
         /\ status[r] = "leased" /\ lease[r] = IdOf[w]
         /\ expired' = [expired EXCEPT ![r] = 0]
         /\ job'     = [job     EXCEPT ![w] = r]
    /\ pc' = [pc EXCEPT ![w] = "claimed"]
    /\ UNCHANGED <<status, lease, outcomes, rowLock, view, lost, txn, crashes,
                   faults, expiries>>

(* No queued run can be locked: take the lease that expired first.  When   *)
(* its run is not leased the claim returns None and changes nothing, so    *)
(* that lease stays where it is, first in the order.                       *)
Reclaim(w) ==
    /\ pc[w] = "idle"
    /\ Queued = {}
    /\ \E r \in Expired :
         /\ \A other \in Expired : expired[other] < expired[r] => BeingReleased(other)
         /\ status[r] = "leased"
         /\ lease'   = [lease   EXCEPT ![r] = IdOf[w]]
         /\ expired' = [expired EXCEPT ![r] = 0]
         /\ job'     = [job     EXCEPT ![w] = r]
    /\ pc' = [pc EXCEPT ![w] = "claimed"]
    /\ UNCHANGED <<status, outcomes, rowLock, view, lost, txn, crashes,
                   faults, expiries>>

----------------------------------------------------------------------------
(* The processing transaction, process_claimed_run                         *)

(* session.get(Run), then the heartbeat thread starts.                     *)
Load(w) ==
    /\ pc[w] = "claimed"
    /\ view' = [view EXCEPT ![w] = status[job[w]]]
    /\ pc'   = [pc   EXCEPT ![w] = "running"]
    /\ UNCHANGED <<runVars, rowLock, job, lost, txn, crashes, faults, expiries>>

(* dispatch_run on a run that the session sees leased ends in an outcome.  *)
(* The first flush of the changed row takes its row lock, and waits while  *)
(* another transaction holds it: at the latest that is the autoflush of    *)
(* release_lease, after the heartbeat has stopped.                         *)
Dispatch(w) ==
    /\ pc[w] \in {"running", "stopped"}
    /\ view[w] = "leased"
    /\ Unlocked(job[w])
    /\ rowLock' = [rowLock EXCEPT ![job[w]] = w]
    /\ \E outcome \in WorkerOutcome : view' = [view EXCEPT ![w] = outcome]
    /\ UNCHANGED <<runVars, pc, job, lost, txn, crashes, faults, expiries>>

(* heartbeat_lease finds no lease, another owner, or the lease expired.    *)
RenewalRefused(w) == lease[job[w]] # IdOf[w] \/ expired[job[w]] > 0

(* A renewal that is refused, or raises, ends the heartbeat thread.        *)
HeartbeatFails(w) ==
    /\ pc[w] = "running"
    /\ ~lost[w]
    /\ \/ RenewalRefused(w) /\ UNCHANGED faults
       \/ faults < MaxFaults /\ faults' = faults + 1
    /\ lost' = [lost EXCEPT ![w] = TRUE]
    /\ UNCHANGED <<runVars, rowLock, pc, job, view, txn, crashes, expiries>>

(* Mutant of StopHeartbeat: a worker that lost its lease puts the run back *)
(* into the queue.                                                         *)
StopAndRequeue(w) ==
    /\ pc[w] = "running"
    /\ IF lost[w]
         THEN /\ Unlock(w) /\ Leave(w, "idle")
              /\ status' = [status EXCEPT ![job[w]] = "queued"]
         ELSE /\ pc' = [pc EXCEPT ![w] = "stopped"]
              /\ UNCHANGED <<status, rowLock, job, view, lost>>
    /\ UNCHANGED <<lease, expired, outcomes, txn, crashes, faults, expiries>>

(* LeaseHeartbeat.__exit__: stop and join the thread; a lost lease raises  *)
(* LeaseLostError, which rolls the transaction back.                       *)
StopHeartbeat(w) ==
    /\ pc[w] = "running"
    /\ IF lost[w]
         THEN Unlock(w) /\ Leave(w, "idle")
         ELSE /\ pc' = [pc EXCEPT ![w] = "stopped"]
              /\ UNCHANGED <<rowLock, job, view, lost>>
    /\ UNCHANGED <<runVars, txn, crashes, faults, expiries>>

(* Mutant of ReleaseLease: the owner is not checked.                       *)
ReleaseUnchecked(w) ==
    /\ pc[w] = "stopped"
    /\ view[w] # "leased"
    /\ pc' = [pc EXCEPT ![w] = "releasing"]
    /\ UNCHANGED <<runVars, rowLock, job, view, lost, txn, crashes, faults, expiries>>

(* Mutant of ReleaseLease: a run that was not ended is released as well.   *)
ReleaseUnfinished(w) ==
    /\ pc[w] = "stopped"
    /\ IF lease[job[w]] = IdOf[w]
         THEN /\ pc' = [pc EXCEPT ![w] = "releasing"]
              /\ UNCHANGED <<rowLock, job, view, lost>>
         ELSE Unlock(w) /\ Leave(w, "idle")
    /\ UNCHANGED <<runVars, txn, crashes, faults, expiries>>

(* release_lease: the lease must be w's, or LeaseLostError rolls back.  A  *)
(* run the session saw terminal was refused by dispatch_run unchanged, so  *)
(* there is nothing to flush.                                              *)
ReleaseLease(w) ==
    /\ pc[w] = "stopped"
    /\ view[w] # "leased"
    /\ IF lease[job[w]] = IdOf[w]
         THEN /\ pc' = [pc EXCEPT ![w] = "releasing"]
              /\ UNCHANGED <<rowLock, job, view, lost>>
         ELSE Unlock(w) /\ Leave(w, "idle")
    /\ UNCHANGED <<runVars, txn, crashes, faults, expiries>>

(* The commit publishes the outcome and deletes the lease row by run_id,   *)
(* whoever owns it by now.                                                 *)
Commit(w) ==
    /\ pc[w] = "releasing"
    /\ IF Flushed(w)
         THEN /\ status'   = [status   EXCEPT ![job[w]] = view[w]]
              /\ outcomes' = [outcomes EXCEPT ![job[w]] = @ + 1]
         ELSE UNCHANGED <<status, outcomes>>
    /\ lease'   = [lease   EXCEPT ![job[w]] = Nobody]
    /\ expired' = [expired EXCEPT ![job[w]] = 0]
    /\ Unlock(w)
    /\ Leave(w, "idle")
    /\ UNCHANGED <<txn, crashes, faults, expiries>>

(* The process dies: PostgreSQL rolls its open transaction back, the lease *)
(* row stays.  compose.yaml does not restart it.                           *)
Crash(w) ==
    /\ pc[w] # "down"
    /\ crashes < MaxCrashes
    /\ crashes' = crashes + 1
    /\ Unlock(w)
    /\ Leave(w, "down")
    /\ UNCHANGED <<runVars, txn, faults, expiries>>

----------------------------------------------------------------------------
(* Time                                                                    *)

(* A worker that has claimed r and not been told otherwise renews its      *)
(* lease in time, but for MaxFaults late renewals.                         *)
Renewed(r) ==
    \E w \in Worker : /\ job[w] = r /\ lease[r] = IdOf[w] /\ ~lost[w]
                      /\ pc[w] \in {"claimed", "running", "stopped", "releasing"}

Expire(r) ==
    /\ lease[r] # Nobody
    /\ expired[r] = 0
    /\ IF Renewed(r)
         THEN faults < MaxFaults /\ faults' = faults + 1
         ELSE UNCHANGED faults
    /\ expiries' = expiries + 1
    /\ expired' = [expired EXCEPT ![r] = expiries + 1]
    /\ UNCHANGED <<status, lease, outcomes, rowLock, workerVars, txn, crashes>>

----------------------------------------------------------------------------
(* cancel_run and supersede_active_runs: read, write, commit               *)

Advance(c, at, run) ==
    txn' = [txn EXCEPT ![c] = [at |-> at, run |-> run, target |-> @.target]]

(* The row is read without a lock, and transition_run judges what was      *)
(* read: a refusal (409, or no supersession) ends the transaction.         *)
ClientRead(c) ==
    /\ txn[c].at = "start"
    /\ \E r \in Run :
         /\ status[r] # "absent"
         /\ Advance(c, IF MayMove(status[r], txn[c].target) THEN "read" ELSE "end", r)
    /\ UNCHANGED <<runVars, rowLock, workerVars, crashes, faults, expiries>>

(* The UPDATE waits for the row lock.                                      *)
ClientWrite(c) ==
    /\ txn[c].at = "read"
    /\ Unlocked(txn[c].run)
    /\ rowLock' = [rowLock EXCEPT ![txn[c].run] = c]
    /\ Advance(c, "written", txn[c].run)
    /\ UNCHANGED <<runVars, workerVars, crashes, faults, expiries>>

(* UPDATE runs SET status = ... WHERE id = ...: the row takes the target   *)
(* status whatever it holds by now.                                        *)
ClientCommit(c) ==
    /\ txn[c].at = "written"
    /\ status' = [status EXCEPT ![txn[c].run] = txn[c].target]
    /\ rowLock' = [rowLock EXCEPT ![txn[c].run] = Nobody]
    /\ Advance(c, "end", txn[c].run)
    /\ UNCHANGED <<lease, expired, outcomes, workerVars, crashes, faults, expiries>>

----------------------------------------------------------------------------
(* What a worker does when nothing goes wrong.                             *)
Work(w) ==
    \/ CommitClaim(w)
    \/ Load(w)
    \/ Dispatch(w)
    \/ StopHeartbeat(w)
    \/ ReleaseLease(w)
    \/ Commit(w)

WorkerStep(w) ==
    \/ ClaimQueued(w)
    \/ Reclaim(w)
    \/ Work(w)
    \/ HeartbeatFails(w)
    \/ Crash(w)

ClientStep(c) ==
    \/ ClientRead(c)
    \/ ClientWrite(c)
    \/ ClientCommit(c)

Next ==
    \/ \E r \in Run : Submit(r) \/ Expire(r)
    \/ \E w \in Worker : WorkerStep(w)
    \/ \E c \in Client : ClientStep(c)

Spec == Init /\ [][Next]_vars

(* A worker polls every second and its transactions end: model calls and   *)
(* executor calls have timeouts.  An API transaction ends.  A lease nobody *)
(* renews passes its expires_at.  Nothing has to crash, fail, be submitted *)
(* or be cancelled.                                                        *)
Fairness ==
    /\ \A w \in Worker : /\ WF_vars(ClaimQueued(w))
                         /\ WF_vars(Reclaim(w))
                         /\ WF_vars(Work(w))
    /\ \A c \in Client : WF_vars(ClientWrite(c)) /\ WF_vars(ClientCommit(c))
    /\ \A r \in Run : WF_vars(Expire(r) /\ ~Renewed(r))

LiveSpec == Spec /\ Fairness

----------------------------------------------------------------------------
(* Safety                                                                  *)

(* A leased run has a lease row.  Without one nothing would ever put the   *)
(* run back to work: claim_next_run reads queued runs and lease rows only. *)
LeasedHasLease == \A r \in Run : status[r] = "leased" => lease[r] # Nobody

(* A run that waits in the queue has no lease row (the claim's INSERT      *)
(* would violate the primary key of run_leases) and no outcome.            *)
QueuedIsUntouched ==
    \A r \in Run : status[r] \in {"absent", "queued"} =>
                     lease[r] = Nobody /\ outcomes[r] = 0

(* However often a run is claimed - a worker that crashed, one that is     *)
(* slow and is overtaken after its lease expired, two processes under one  *)
(* host name - at most one processing transaction publishes an outcome.    *)
SingleOutcome == \A r \in Run : outcomes[r] <= 1

(* A run that has ended is never queued or leased again: the row locks of  *)
(* the claim keep it from overwriting a cancellation it did not see.       *)
TerminalStaysTerminal ==
    [][\A r \in Run : status[r] \in Terminal => status'[r] \in Terminal]_vars

(* docs/data-model.md: "Terminal status is immutable."                     *)
TerminalIsImmutable ==
    [][\A r \in Run : status[r] \in Terminal => status'[r] = status[r]]_vars

----------------------------------------------------------------------------
(* The inductive invariant                                                 *)

Processing == {"claimed", "running", "stopped", "releasing"}
Loaded     == Processing \ {"claimed"}

(* A row lock is where the transaction that holds it says it is.  While a  *)
(* worker claims it holds the queued row; afterwards it holds a row only   *)
(* for the outcome it has flushed.                                         *)
LocksAreHeld ==
    /\ \A w \in Worker : pc[w] = "claiming" =>
         job[w] \in Run /\ rowLock[job[w]] = w /\ status[job[w]] = "queued"
    /\ \A r \in Run, w \in Worker : rowLock[r] = w =>
         \/ pc[w] = "claiming"
         \/ pc[w] \in Loaded /\ job[w] = r /\ view[w] \in WorkerOutcome
    /\ \A c \in Client :
         /\ txn[c].at \in {"read", "written"} => txn[c].run \in Run
         /\ txn[c].at = "written" => rowLock[txn[c].run] = c

(* A run some worker processes has left the queue for good, and a worker   *)
(* that has flushed nothing sees it leased or saw it ended.                *)
JobsAreOut ==
    \A w \in Worker :
        /\ pc[w] \in Processing =>
             job[w] \in Run /\ status[job[w]] \in {"leased"} \cup Terminal
        /\ pc[w] \in Loaded => view[w] \in {"leased"} \cup Terminal
        /\ pc[w] \in Loaded /\ view[w] # "leased" /\ ~Flushed(w) =>
             status[job[w]] \in Terminal
        /\ pc[w] = "releasing" => view[w] # "leased"

(* The worker that is about to publish is the first to do so for its run,  *)
(* and the commit that publishes takes the lease row away for ever.        *)
OutcomeEndsLease ==
    /\ \A r \in Run : outcomes[r] > 0 => lease[r] = Nobody /\ status[r] \in Terminal
    /\ \A w \in Worker : pc[w] = "releasing" /\ Flushed(w) => outcomes[job[w]] = 0

IndInv ==
    /\ TypeOK
    /\ LocksAreHeld
    /\ JobsAreOut
    /\ OutcomeEndsLease
    /\ LeasedHasLease
    /\ QueuedIsUntouched
    /\ SingleOutcome

----------------------------------------------------------------------------
(* Liveness                                                                *)

(* A queued run does not stay queued while a worker is left.               *)
QueueDrains == \A r \in Run : (status[r] = "queued") ~> (status[r] # "queued")

(* docs/architecture.md: "A crashed worker leaves a lease that another     *)
(* worker can reclaim after expiry."  A leased run is brought to an end by *)
(* some worker.                                                            *)
LeasedRunEnds == \A r \in Run : (status[r] = "leased") ~> (status[r] \in Terminal)

----------------------------------------------------------------------------
(* Refinement                                                              *)

(* Whoever ends a run has seen it, and what a run was ended with tells who *)
(* ended it: a worker that has published an outcome, or an API transaction.*)
EndsAreExplained ==
    /\ \A r \in Run : status[r] \in Terminal \ ClientTarget => outcomes[r] > 0
    /\ \A c \in Client : txn[c].at \in {"read", "written"} =>
                         status[txn[c].run] # "absent"

Lifecycle == INSTANCE RunLifecycle WITH
    Outcome   <- WorkerOutcome,
    Ending    <- ClientTarget,
    processed <- {r \in Run : outcomes[r] > 0}

(* The queue implements the lifecycle it promises: however its workers     *)
(* crash, overtake each other and are interrupted, the committed statuses  *)
(* are only moved by a submission, a claim, one outcome and API            *)
(* transactions.                                                           *)
RefinesLifecycle == Lifecycle!Spec

(* It also keeps the lifecycle going: every submitted run is claimed, and  *)
(* as long as no API transaction ends a run every claimed run gets its     *)
(* outcome, by a takeover when its worker has crashed.                     *)
LifecycleIsLive == Lifecycle!Fairness
============================================================================
