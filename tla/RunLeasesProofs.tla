-------------------------- MODULE RunLeasesProofs --------------------------
(***************************************************************************)
(* Proofs about RunLeases: for every set of runs, workers, worker ids (two *)
(* processes may share one) and API transactions, and for any number of    *)
(* crashes and late heartbeats, IndInv is inductive, and the safety        *)
(* properties of the queue follow from it.                                 *)
(*                                                                         *)
(* One lemma per action shows that it preserves IndInv, with one step per  *)
(* conjunct the action can disturb; RowsKept and Abandon hold what several *)
(* actions share.                                                          *)
(***************************************************************************)
EXTENDS RunLeases, TLAPS

(* A step that leaves the committed rows alone keeps what IndInv says of   *)
(* them only.                                                              *)
LEMMA RowsKept ==
    ASSUME IndInv, UNCHANGED runVars
    PROVE  LeasedHasLease' /\ QueuedIsUntouched' /\ SingleOutcome'
  BY DEF IndInv, LeasedHasLease, QueuedIsUntouched, SingleOutcome, runVars

(* The initial states satisfy the inductive invariant: nothing is locked,  *)
(* claimed or leased.                                                      *)
LEMMA InitInvariant == ASSUME Init PROVE IndInv
  <1>1. TypeOK
    BY DEF Init, TypeOK, Durable
  <1>2. LocksAreHeld
    BY PartiesDistinct DEF Init, LocksAreHeld
  <1>3. JobsAreOut /\ OutcomeEndsLease
    BY DEF Init, JobsAreOut, OutcomeEndsLease, Processing, Loaded
  <1>4. LeasedHasLease /\ QueuedIsUntouched /\ SingleOutcome
    BY DEF Init, LeasedHasLease, QueuedIsUntouched, SingleOutcome
  <1> QED BY <1>1, <1>2, <1>3, <1>4 DEF IndInv

----------------------------------------------------------------------------
(* Runs and time                                                           *)

(* create_queued_run adds a queued row that nobody has touched.            *)
LEMMA SubmitInvariant == ASSUME IndInv, NEW r \in Run, Submit(r) PROVE IndInv'
  <1>1. TypeOK'
    BY DEF Submit, IndInv, TypeOK, Durable, workerVars
  <1>2. LocksAreHeld'
    BY DEF Submit, IndInv, LocksAreHeld, workerVars
  <1>3. JobsAreOut'
    BY DEF Submit, IndInv, JobsAreOut, Flushed, workerVars, Terminal
  <1>4. OutcomeEndsLease'
    BY DEF Submit, IndInv, OutcomeEndsLease, QueuedIsUntouched, Flushed, workerVars
  <1>5. LeasedHasLease' /\ QueuedIsUntouched' /\ SingleOutcome'
    BY DEF Submit, IndInv, LeasedHasLease, QueuedIsUntouched, SingleOutcome
  <1> QED BY <1>1, <1>2, <1>3, <1>4, <1>5 DEF IndInv

(* A lease that expires stays where it is.                                 *)
LEMMA ExpireInvariant == ASSUME IndInv, NEW r \in Run, Expire(r) PROVE IndInv'
  <1>1. TypeOK'
    BY DEF Expire, IndInv, TypeOK, workerVars
  <1>2. LocksAreHeld'
    BY DEF Expire, IndInv, LocksAreHeld, workerVars
  <1>3. JobsAreOut'
    BY DEF Expire, IndInv, JobsAreOut, Flushed, workerVars
  <1>4. OutcomeEndsLease'
    BY DEF Expire, IndInv, OutcomeEndsLease, Flushed, workerVars
  <1>5. LeasedHasLease' /\ QueuedIsUntouched' /\ SingleOutcome'
    BY DEF Expire, IndInv, LeasedHasLease, QueuedIsUntouched, SingleOutcome
  <1> QED BY <1>1, <1>2, <1>3, <1>4, <1>5 DEF IndInv

----------------------------------------------------------------------------
(* The claim                                                               *)

(* The queued rows a claim locks were free, so no outcome was flushed to   *)
(* them.                                                                   *)
LEMMA ClaimQueuedInvariant ==
    ASSUME IndInv, NEW w \in Worker, ClaimQueued(w) PROVE IndInv'
  <1>1. TypeOK'
    BY DEF ClaimQueued, Queued, IndInv, TypeOK, runVars
  <1>2. LocksAreHeld'
    BY PartiesDistinct
    DEF ClaimQueued, Queued, Unlocked, IndInv, TypeOK, LocksAreHeld, runVars
  <1>3. JobsAreOut'
    BY DEF ClaimQueued, Queued, IndInv, JobsAreOut, Loaded, Processing, Flushed, runVars
  <1>4. OutcomeEndsLease'
    BY DEF ClaimQueued, IndInv, OutcomeEndsLease, Flushed, runVars
  <1> QED BY <1>1, <1>2, <1>3, <1>4, RowsKept DEF IndInv, ClaimQueued

(* The claimed run was queued and locked all along, so no other worker     *)
(* processes it, and its new lease row is the first.                       *)
LEMMA CommitClaimInvariant ==
    ASSUME IndInv, NEW w \in Worker, CommitClaim(w) PROVE IndInv'
  <1>1. /\ job[w] \in Run /\ rowLock[job[w]] = w /\ status[job[w]] = "queued"
        /\ IdOf[w] \in WorkerId /\ IdOf[w] # Nobody
    BY IdsAreGiven, PartiesDistinct DEF CommitClaim, IndInv, LocksAreHeld
  <1>2. TypeOK'
    <2>1. status' \in [Run -> Durable] /\ expired' \in [Run -> Nat]
      BY <1>1 DEF CommitClaim, IndInv, TypeOK, Durable
    <2>2. lease' \in [Run -> WorkerId \cup {Nobody}]
      BY <1>1 DEF CommitClaim, IndInv, TypeOK
    <2>3. rowLock' \in [Run -> Worker \cup Client \cup {Nobody}]
      BY DEF CommitClaim, Unlock, IndInv, TypeOK
    <2> QED BY <2>1, <2>2, <2>3 DEF CommitClaim, IndInv, TypeOK
  <1>3. LocksAreHeld'
    BY PartiesDistinct DEF CommitClaim, Unlock, IndInv, TypeOK, LocksAreHeld
  <1>4. JobsAreOut'
    BY DEF CommitClaim, Unlock, IndInv, TypeOK, LocksAreHeld, JobsAreOut, Loaded,
           Flushed, Terminal
  <1>5. OutcomeEndsLease'
    BY PartiesDistinct
    DEF CommitClaim, Unlock, IndInv, LocksAreHeld, OutcomeEndsLease,
        QueuedIsUntouched, Flushed
  <1>6. LeasedHasLease'
    <2>1. lease'[job[w]] = IdOf[w]
      BY <1>1 DEF CommitClaim, IndInv, TypeOK
    <2>2. ASSUME NEW r \in Run, r # job[w] PROVE status'[r] = status[r] /\ lease'[r] = lease[r]
      BY <2>2 DEF CommitClaim, IndInv, TypeOK
    <2> QED BY <1>1, <2>1, <2>2 DEF IndInv, LeasedHasLease
  <1>7. QueuedIsUntouched' /\ SingleOutcome'
    BY DEF CommitClaim, IndInv, TypeOK, QueuedIsUntouched, SingleOutcome
  <1> QED BY <1>2, <1>3, <1>4, <1>5, <1>6, <1>7 DEF IndInv

(* A takeover replaces the owner of a lease row that was there.            *)
LEMMA ReclaimInvariant ==
    ASSUME IndInv, NEW w \in Worker, Reclaim(w) PROVE IndInv'
  <1>1. PICK r \in Expired :
          /\ status[r] = "leased"
          /\ lease'   = [lease   EXCEPT ![r] = IdOf[w]]
          /\ expired' = [expired EXCEPT ![r] = 0]
          /\ job'     = [job     EXCEPT ![w] = r]
    BY DEF Reclaim
  <1>2. r \in Run /\ lease[r] # Nobody /\ IdOf[w] \in WorkerId /\ IdOf[w] # Nobody
    BY IdsAreGiven, PartiesDistinct DEF Expired
  <1>3. TypeOK'
    BY <1>1, <1>2 DEF Reclaim, IndInv, TypeOK
  <1>4. LocksAreHeld'
    BY DEF Reclaim, IndInv, LocksAreHeld, Loaded, Processing
  <1>5. JobsAreOut'
    BY DEF Reclaim, Expired, IndInv, TypeOK, JobsAreOut, Loaded, Flushed
  <1>6. OutcomeEndsLease'
    BY DEF Reclaim, Expired, IndInv, OutcomeEndsLease, Flushed
  <1>7. LeasedHasLease'
    BY <1>1, <1>2 DEF Reclaim, IndInv, TypeOK, LeasedHasLease
  <1>8. QueuedIsUntouched' /\ SingleOutcome'
    BY DEF Reclaim, IndInv, QueuedIsUntouched, SingleOutcome
  <1> QED BY <1>3, <1>4, <1>5, <1>6, <1>7, <1>8 DEF IndInv

----------------------------------------------------------------------------
(* The processing transaction                                              *)

(* The run is leased or has ended when the session loads it.               *)
LEMMA LoadInvariant == ASSUME IndInv, NEW w \in Worker, Load(w) PROVE IndInv'
  <1>1. TypeOK'
    BY DEF Load, IndInv, TypeOK, JobsAreOut, Processing, runVars
  <1>2. LocksAreHeld'
    BY DEF Load, IndInv, LocksAreHeld, Loaded, runVars
  <1>3. JobsAreOut'
    BY DEF Load, IndInv, TypeOK, JobsAreOut, Processing, Flushed, runVars
  <1>4. OutcomeEndsLease'
    BY DEF Load, IndInv, OutcomeEndsLease, Flushed, runVars
  <1> QED BY <1>1, <1>2, <1>3, <1>4, RowsKept DEF IndInv, Load

(* An outcome is flushed under the row lock of a run the worker processes. *)
LEMMA DispatchInvariant ==
    ASSUME IndInv, NEW w \in Worker, Dispatch(w) PROVE IndInv'
  <1>1. TypeOK'
    BY DEF Dispatch, IndInv, TypeOK, Durable, Terminal, WorkerOutcome, JobsAreOut,
           Processing, runVars
  <1>2. LocksAreHeld'
    BY PartiesDistinct
    DEF Dispatch, Unlocked, IndInv, TypeOK, LocksAreHeld, Loaded, Processing, runVars
  <1>3. JobsAreOut'
    BY PartiesDistinct
    DEF Dispatch, Unlocked, IndInv, TypeOK, JobsAreOut, Processing, Flushed, Terminal,
        WorkerOutcome, runVars
  <1>4. OutcomeEndsLease'
    BY DEF Dispatch, IndInv, OutcomeEndsLease, Flushed, runVars
  <1> QED BY <1>1, <1>2, <1>3, <1>4, RowsKept DEF IndInv, Dispatch

(* The _lost event changes nothing but itself.                             *)
LEMMA HeartbeatFailsInvariant ==
    ASSUME IndInv, NEW w \in Worker, HeartbeatFails(w) PROVE IndInv'
  <1>1. TypeOK'
    BY DEF HeartbeatFails, IndInv, TypeOK, runVars
  <1>2. LocksAreHeld'
    BY DEF HeartbeatFails, IndInv, LocksAreHeld, runVars
  <1>3. JobsAreOut' /\ OutcomeEndsLease'
    BY DEF HeartbeatFails, IndInv, JobsAreOut, OutcomeEndsLease, Flushed, runVars
  <1> QED BY <1>1, <1>2, <1>3, RowsKept DEF IndInv, HeartbeatFails

(* A transaction that is rolled back, for whatever reason, leaves the      *)
(* worker without a job and without a row lock.                            *)
LEMMA Abandon ==
    ASSUME IndInv, NEW w \in Worker, NEW at \in {"idle", "down"},
           Unlock(w), Leave(w, at), UNCHANGED <<runVars, txn>>,
           crashes' \in Nat, faults' \in Nat, expiries' \in Nat
    PROVE  IndInv'
  <1>1. TypeOK'
    BY DEF Unlock, Leave, IndInv, TypeOK, Durable, runVars
  <1>2. LocksAreHeld'
    BY PartiesDistinct DEF Unlock, Leave, IndInv, TypeOK, LocksAreHeld, runVars
  <1>3. JobsAreOut'
    BY DEF Unlock, Leave, IndInv, TypeOK, JobsAreOut, Loaded, Processing, Flushed, runVars
  <1>4. OutcomeEndsLease'
    BY PartiesDistinct
    DEF Unlock, Leave, IndInv, TypeOK, OutcomeEndsLease, Flushed, runVars
  <1> QED BY <1>1, <1>2, <1>3, <1>4, RowsKept DEF IndInv

(* A worker that goes on holding what it holds, in the next place of its   *)
(* transaction; it is "releasing" only with an outcome no other published. *)
LEMMA GoOn ==
    ASSUME IndInv, NEW w \in Worker, NEW at \in {"stopped", "releasing"},
           pc[w] \in Loaded, pc' = [pc EXCEPT ![w] = at],
           at = "releasing" => view[w] # "leased" /\ lease[job[w]] # Nobody,
           UNCHANGED <<runVars, rowLock, job, view, lost, txn, crashes, faults, expiries>>
    PROVE  IndInv'
  <1>1. TypeOK'
    BY DEF IndInv, TypeOK, runVars
  <1>2. LocksAreHeld'
    BY DEF IndInv, TypeOK, LocksAreHeld, Loaded, Processing, runVars
  <1>3. JobsAreOut'
    BY DEF IndInv, TypeOK, JobsAreOut, Loaded, Processing, Flushed, runVars
  <1>4. OutcomeEndsLease'
    BY DEF IndInv, TypeOK, OutcomeEndsLease, Flushed, runVars
  <1> QED BY <1>1, <1>2, <1>3, <1>4, RowsKept DEF IndInv

(* __exit__ either abandons the transaction or goes on to the release.     *)
LEMMA StopHeartbeatInvariant ==
    ASSUME IndInv, NEW w \in Worker, StopHeartbeat(w) PROVE IndInv'
  <1>1. CASE lost[w]
    BY <1>1, Abandon DEF StopHeartbeat, IndInv, TypeOK
  <1>2. CASE ~lost[w]
    BY <1>2, GoOn DEF StopHeartbeat, Loaded, Processing
  <1> QED BY <1>1, <1>2

(* The owner check of release_lease abandons the transaction of a worker   *)
(* whose lease was taken over.                                             *)
LEMMA ReleaseLeaseInvariant ==
    ASSUME IndInv, NEW w \in Worker, ReleaseLease(w) PROVE IndInv'
  <1>1. CASE lease[job[w]] = IdOf[w]
    <2>1. IdOf[w] # Nobody
      BY IdsAreGiven, PartiesDistinct
    <2> QED BY <1>1, <2>1, GoOn DEF ReleaseLease, Loaded, Processing
  <1>2. CASE lease[job[w]] # IdOf[w]
    BY <1>2, Abandon DEF ReleaseLease, IndInv, TypeOK
  <1> QED BY <1>1, <1>2

(* The commit publishes the first outcome and removes the lease row; a     *)
(* worker without an outcome removes the lease row of a run that ended.    *)
LEMMA CommitInvariant == ASSUME IndInv, NEW w \in Worker, Commit(w) PROVE IndInv'
  <1>1. TypeOK'
    BY DEF Commit, Unlock, Leave, IndInv, TypeOK, Durable, JobsAreOut, Processing
  <1>2. LocksAreHeld'
    BY PartiesDistinct DEF Commit, Flushed, Unlock, Leave, IndInv, TypeOK, LocksAreHeld
  <1>3. JobsAreOut'
    BY DEF Commit, Flushed, Unlock, Leave, IndInv, TypeOK, JobsAreOut, Loaded, Processing
  <1>4. OutcomeEndsLease'
    BY PartiesDistinct
    DEF Commit, Flushed, Unlock, Leave, IndInv, TypeOK, LocksAreHeld, JobsAreOut,
        OutcomeEndsLease, Loaded, Processing
  <1>5. LeasedHasLease'
    BY DEF Commit, IndInv, TypeOK, JobsAreOut, LeasedHasLease, Loaded, Processing, Terminal
  <1>6. QueuedIsUntouched'
    BY DEF Commit, Flushed, IndInv, TypeOK, LocksAreHeld, QueuedIsUntouched, WorkerOutcome
  <1>7. SingleOutcome'
    BY DEF Commit, IndInv, TypeOK, OutcomeEndsLease, SingleOutcome
  <1> QED BY <1>1, <1>2, <1>3, <1>4, <1>5, <1>6, <1>7 DEF IndInv

(* A crash abandons whatever transaction is open.                          *)
LEMMA CrashInvariant == ASSUME IndInv, NEW w \in Worker, Crash(w) PROVE IndInv'
  <1>1. crashes' \in Nat /\ faults' \in Nat /\ expiries' \in Nat
    BY DEF Crash, IndInv, TypeOK
  <1> QED BY <1>1, Abandon DEF Crash

----------------------------------------------------------------------------
(* The API transactions                                                    *)

(* An API transaction reads a row that exists.                             *)
LEMMA ClientReadInvariant ==
    ASSUME IndInv, NEW c \in Client, ClientRead(c) PROVE IndInv'
  <1>1. TypeOK'
    BY DEF ClientRead, Advance, IndInv, TypeOK, runVars, workerVars
  <1>2. LocksAreHeld'
    BY DEF ClientRead, Advance, IndInv, TypeOK, LocksAreHeld, runVars, workerVars
  <1>3. JobsAreOut' /\ OutcomeEndsLease'
    BY DEF ClientRead, IndInv, JobsAreOut, OutcomeEndsLease, Flushed, runVars, workerVars
  <1> QED BY <1>1, <1>2, <1>3, RowsKept DEF IndInv, ClientRead

(* It takes the row lock from nobody.                                      *)
LEMMA ClientWriteInvariant ==
    ASSUME IndInv, NEW c \in Client, ClientWrite(c) PROVE IndInv'
  <1>1. TypeOK'
    BY DEF ClientWrite, Advance, IndInv, TypeOK, LocksAreHeld, runVars, workerVars
  <1>2. LocksAreHeld'
    BY PartiesDistinct
    DEF ClientWrite, Advance, Unlocked, IndInv, TypeOK, LocksAreHeld, runVars, workerVars
  <1>3. JobsAreOut'
    BY PartiesDistinct
    DEF ClientWrite, Unlocked, IndInv, JobsAreOut, Flushed, runVars, workerVars
  <1>4. OutcomeEndsLease'
    BY PartiesDistinct
    DEF ClientWrite, IndInv, OutcomeEndsLease, Flushed, runVars, workerVars
  <1> QED BY <1>1, <1>2, <1>3, <1>4, RowsKept DEF IndInv, ClientWrite

(* It ends a run that no worker is about to publish an outcome for: that   *)
(* worker would hold the row lock.                                         *)
LEMMA ClientCommitInvariant ==
    ASSUME IndInv, NEW c \in Client, ClientCommit(c) PROVE IndInv'
  <1>1. TypeOK'
    BY DEF ClientCommit, Advance, IndInv, TypeOK, LocksAreHeld, Durable, Terminal,
           ClientTarget, workerVars
  <1>2. LocksAreHeld'
    BY PartiesDistinct
    DEF ClientCommit, Advance, IndInv, TypeOK, LocksAreHeld, workerVars
  <1>3. JobsAreOut'
    BY DEF ClientCommit, IndInv, TypeOK, JobsAreOut, Flushed, Terminal, ClientTarget,
           workerVars
  <1>4. OutcomeEndsLease'
    BY PartiesDistinct
    DEF ClientCommit, IndInv, TypeOK, OutcomeEndsLease, Flushed, Terminal, ClientTarget,
        workerVars
  <1>5. LeasedHasLease' /\ QueuedIsUntouched' /\ SingleOutcome'
    BY DEF ClientCommit, IndInv, TypeOK, LeasedHasLease, QueuedIsUntouched,
           SingleOutcome, ClientTarget
  <1> QED BY <1>1, <1>2, <1>3, <1>4, <1>5 DEF IndInv
----------------------------------------------------------------------------
(* The theorems                                                            *)

(* Every step preserves the inductive invariant.                           *)
LEMMA NextInvariant == ASSUME IndInv, [Next]_vars PROVE IndInv'
  <1>1. ASSUME NEW r \in Run, Submit(r) \/ Expire(r) PROVE IndInv'
    BY <1>1, SubmitInvariant, ExpireInvariant
  <1>2. ASSUME NEW w \in Worker, WorkerStep(w) PROVE IndInv'
    <2>1. CASE ClaimQueued(w)    BY <2>1, ClaimQueuedInvariant
    <2>2. CASE Reclaim(w)        BY <2>2, ReclaimInvariant
    <2>3. CASE CommitClaim(w)    BY <2>3, CommitClaimInvariant
    <2>4. CASE Load(w)           BY <2>4, LoadInvariant
    <2>5. CASE Dispatch(w)       BY <2>5, DispatchInvariant
    <2>6. CASE StopHeartbeat(w)  BY <2>6, StopHeartbeatInvariant
    <2>7. CASE ReleaseLease(w)   BY <2>7, ReleaseLeaseInvariant
    <2>8. CASE Commit(w)         BY <2>8, CommitInvariant
    <2>9. CASE HeartbeatFails(w) BY <2>9, HeartbeatFailsInvariant
    <2>10. CASE Crash(w)         BY <2>10, CrashInvariant
    <2> QED BY <1>2, <2>1, <2>2, <2>3, <2>4, <2>5, <2>6, <2>7, <2>8, <2>9, <2>10
            DEF WorkerStep, Work
  <1>3. ASSUME NEW c \in Client, ClientStep(c) PROVE IndInv'
    BY <1>3, ClientReadInvariant, ClientWriteInvariant, ClientCommitInvariant
    DEF ClientStep
  <1>4. CASE UNCHANGED vars
    BY <1>4 DEF vars, runVars, workerVars, IndInv, TypeOK, LocksAreHeld, JobsAreOut,
                OutcomeEndsLease, LeasedHasLease, QueuedIsUntouched, SingleOutcome, Flushed
  <1> QED BY <1>1, <1>2, <1>3, <1>4 DEF Next

(* The inductive invariant holds in every reachable state, whatever        *)
(* workers, heartbeats, crashes, clocks and API transactions do.           *)
THEOREM InductiveInvariant == Spec => []IndInv
  <1>1. Init => IndInv
    BY InitInvariant
  <1>2. IndInv /\ [Next]_vars => IndInv'
    BY NextInvariant
  <1> QED BY <1>1, <1>2, PTL DEF Spec

(* Every variable keeps its type; a committed run is only ever absent,     *)
(* queued, leased or ended.                                                *)
THEOREM TypeCorrect == Spec => []TypeOK
  <1>1. IndInv => TypeOK
    BY DEF IndInv
  <1> QED BY <1>1, InductiveInvariant, PTL

(* A committed leased run always has a lease row: no crash, takeover or    *)
(* cancellation of runs/leases.py and runs/worker.py strands it.           *)
THEOREM LeasedRunsHaveLeases == Spec => []LeasedHasLease
  <1>1. IndInv => LeasedHasLease
    BY DEF IndInv
  <1> QED BY <1>1, InductiveInvariant, PTL

(* A queued run has no lease row and no outcome, so that the INSERT of     *)
(* _new_lease never meets an old row.                                      *)
THEOREM QueuedRunsAreUntouched == Spec => []QueuedIsUntouched
  <1>1. IndInv => QueuedIsUntouched
    BY DEF IndInv
  <1> QED BY <1>1, InductiveInvariant, PTL

(* At most one processing transaction publishes an outcome for a run,      *)
(* however many workers share an id and however often a lease is lost.     *)
THEOREM OutcomesAreSingle == Spec => []SingleOutcome
  <1>1. IndInv => SingleOutcome
    BY DEF IndInv
  <1> QED BY <1>1, InductiveInvariant, PTL

(* No step moves a run that has ended back into the queue or under a       *)
(* lease: only a claim writes "leased", and it holds the row lock of a run *)
(* that is queued.                                                         *)
LEMMA TerminalStep ==
    ASSUME IndInv, Next, NEW r \in Run, status[r] \in Terminal
    PROVE  status'[r] \in Terminal
  <1>1. CASE \E q \in Run : Submit(q) \/ Expire(q)
    BY <1>1 DEF Submit, Expire, IndInv, TypeOK, Terminal
  <1>2. ASSUME NEW w \in Worker, WorkerStep(w) PROVE status'[r] \in Terminal
    <2>1. CASE CommitClaim(w)
      BY <2>1 DEF CommitClaim, IndInv, TypeOK, LocksAreHeld, Terminal
    <2>2. CASE Commit(w)
      BY <2>2 DEF Commit, Flushed, Unlock, Leave, IndInv, TypeOK, LocksAreHeld,
                  WorkerOutcome, Terminal
    <2>3. CASE UNCHANGED status
      BY <2>3
    <2> QED BY <1>2, <2>1, <2>2, <2>3
            DEF WorkerStep, Work, ClaimQueued, Reclaim, Load, Dispatch, StopHeartbeat,
                ReleaseLease, HeartbeatFails, Crash, runVars
  <1>3. ASSUME NEW c \in Client, ClientStep(c) PROVE status'[r] \in Terminal
    <2>1. CASE ClientCommit(c)
      BY <2>1 DEF ClientCommit, IndInv, TypeOK, ClientTarget, Terminal
    <2>2. CASE UNCHANGED status
      BY <2>2
    <2> QED BY <1>3, <2>1, <2>2 DEF ClientStep, ClientRead, ClientWrite, runVars
  <1> QED BY <1>1, <1>2, <1>3 DEF Next

(* A run that has ended is never queued or leased again.                   *)
THEOREM EndedRunsStayEnded == Spec => TerminalStaysTerminal
  <1>1. IndInv /\ [Next]_vars
          => [\A r \in Run : status[r] \in Terminal => status'[r] \in Terminal]_vars
    BY TerminalStep
  <1> QED BY <1>1, InductiveInvariant, PTL DEF Spec, TerminalStaysTerminal

----------------------------------------------------------------------------
(* The refinement                                                          *)

(* Only a commit of a processing transaction writes a worker's outcome,    *)
(* and an API transaction ends a run that it has found.                    *)
LEMMA EndsAreExplainedStep ==
    ASSUME IndInv, EndsAreExplained, [Next]_vars
    PROVE  EndsAreExplained'
  <1>1. ASSUME NEW r \in Run, Submit(r) PROVE EndsAreExplained'
    BY <1>1 DEF Submit, IndInv, TypeOK, LocksAreHeld, EndsAreExplained, Terminal
  <1>2. ASSUME NEW w \in Worker, CommitClaim(w) PROVE EndsAreExplained'
    BY <1>2 DEF CommitClaim, IndInv, TypeOK, LocksAreHeld, EndsAreExplained, Terminal
  <1>3. ASSUME NEW w \in Worker, Commit(w) PROVE EndsAreExplained'
    <2>1. CASE Flushed(w)
      <3>1. view[w] # "absent" /\ job[w] \in Run
        BY <1>3, <2>1, PartiesDistinct
        DEF Commit, Flushed, IndInv, LocksAreHeld, WorkerOutcome
      <3> QED BY <1>3, <2>1, <3>1 DEF Commit, IndInv, TypeOK, LocksAreHeld, EndsAreExplained
    <2>2. CASE ~Flushed(w)
      BY <1>3, <2>2 DEF Commit, EndsAreExplained
    <2> QED BY <2>1, <2>2
  <1>4. ASSUME NEW c \in Client, ClientCommit(c) PROVE EndsAreExplained'
    BY <1>4 DEF ClientCommit, Advance, IndInv, TypeOK, LocksAreHeld, EndsAreExplained,
                Terminal, ClientTarget
  <1>5. ASSUME NEW c \in Client, ClientRead(c) \/ ClientWrite(c) PROVE EndsAreExplained'
    BY <1>5 DEF ClientRead, ClientWrite, Advance, runVars, IndInv, TypeOK, EndsAreExplained
  <1>6. CASE UNCHANGED <<status, outcomes, txn>>
    BY <1>6 DEF EndsAreExplained
  <1> QED BY <1>1, <1>2, <1>3, <1>4, <1>5, <1>6
          DEF Next, vars, runVars, Expire, WorkerStep, Work, ClaimQueued, Reclaim, Load,
              Dispatch, StopHeartbeat, ReleaseLease, HeartbeatFails, Crash, ClientStep

(* The commit of a processing transaction that flushed its outcome is the  *)
(* abstract Finish: the run was leased, or ended from outside, and no      *)
(* worker has published an outcome for it yet.                             *)
LEMMA CommitFinishes ==
    ASSUME IndInv, EndsAreExplained, NEW w \in Worker, Commit(w), Flushed(w),
           NEW r \in Run, job[w] = r
    PROVE  Lifecycle!Finish(r)
  <1>1. status[r] \in {"leased"} \cup Terminal
    BY DEF Commit, IndInv, JobsAreOut, Processing
  <1>2. outcomes[r] = 0
    BY DEF Commit, IndInv, OutcomeEndsLease
  <1>3. status[r] \in {"leased"} \cup ClientTarget
    BY <1>1, <1>2 DEF EndsAreExplained
  <1>4. view[w] \in WorkerOutcome
    BY PartiesDistinct DEF Commit, Flushed, IndInv, LocksAreHeld
  <1>5. status' = [status EXCEPT ![r] = view[w]]
    BY DEF Commit
  <1>6. /\ r \notin {q \in Run : outcomes[q] > 0}
        /\ {q \in Run : outcomes[q] > 0}' = {q \in Run : outcomes[q] > 0} \cup {r}
    BY <1>2 DEF Commit, IndInv, TypeOK
  <1> QED BY <1>3, <1>4, <1>5, <1>6 DEF Lifecycle!Finish, Lifecycle!Move

(* Every step of the queue is a step of the lifecycle or invisible in it.  *)
LEMMA LifecycleStep ==
    ASSUME IndInv, EndsAreExplained, [Next]_vars
    PROVE  [Lifecycle!Next]_(Lifecycle!vars)
  <1>1. ASSUME NEW r \in Run, Submit(r) PROVE Lifecycle!Next
    BY <1>1 DEF Submit, Lifecycle!Next, Lifecycle!Submit, Lifecycle!Move
  <1>2. ASSUME NEW w \in Worker, CommitClaim(w) PROVE Lifecycle!Next
    <2>1. job[w] \in Run /\ status[job[w]] = "queued"
      BY <1>2 DEF CommitClaim, IndInv, LocksAreHeld
    <2> QED BY <1>2, <2>1 DEF CommitClaim, Lifecycle!Next, Lifecycle!Claim, Lifecycle!Move
  <1>3. ASSUME NEW w \in Worker, Commit(w) PROVE [Lifecycle!Next]_(Lifecycle!vars)
    <2>1. CASE Flushed(w)
      <3>1. PICK r \in Run : job[w] = r
        BY <2>1 DEF Flushed
      <3>2. Lifecycle!Finish(r)
        BY <1>3, <2>1, <3>1, CommitFinishes
      <3> QED BY <3>2 DEF Lifecycle!Next
    <2>2. CASE ~Flushed(w)
      BY <1>3, <2>2 DEF Commit, Lifecycle!vars
    <2> QED BY <2>1, <2>2
  <1>4. ASSUME NEW c \in Client, ClientCommit(c) PROVE Lifecycle!Next
    <2>1. txn[c].run \in Run
      BY <1>4 DEF ClientCommit, IndInv, LocksAreHeld
    <2>2. status[txn[c].run] # "absent"
      BY <1>4 DEF ClientCommit, EndsAreExplained
    <2> QED BY <1>4, <2>1, <2>2
            DEF ClientCommit, IndInv, TypeOK, Lifecycle!Next, Lifecycle!End, Lifecycle!Move
  <1>5. CASE UNCHANGED <<status, outcomes>>
    BY <1>5 DEF Lifecycle!vars
  <1> QED BY <1>1, <1>2, <1>3, <1>4, <1>5
          DEF Next, vars, runVars, Expire, WorkerStep, Work, ClaimQueued, Reclaim, Load,
              Dispatch, StopHeartbeat, ReleaseLease, HeartbeatFails, Crash, ClientStep,
              ClientRead, ClientWrite

(* The queue implements the lifecycle it promises: for every number of     *)
(* runs, workers and API transactions, what is visible of claims,          *)
(* takeovers, crashes and races is a run that is submitted, claimed and    *)
(* ended once by a worker, besides what API transactions do to it.         *)
THEOREM QueueRefinesLifecycle == Spec => RefinesLifecycle
  <1>1. Init => EndsAreExplained /\ Lifecycle!Init
    BY DEF Init, EndsAreExplained, Terminal, Lifecycle!Init
  <1>2. IndInv /\ EndsAreExplained /\ [Next]_vars => EndsAreExplained'
    BY EndsAreExplainedStep
  <1>3. IndInv /\ EndsAreExplained /\ [Next]_vars => [Lifecycle!Next]_(Lifecycle!vars)
    BY LifecycleStep
  <1> QED BY <1>1, <1>2, <1>3, InductiveInvariant, PTL
          DEF Spec, RefinesLifecycle, Lifecycle!Spec
============================================================================
