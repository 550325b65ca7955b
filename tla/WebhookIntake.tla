--------------------------- MODULE WebhookIntake ---------------------------
(***************************************************************************)
(* Intake of GitHub deliveries (api/app.py): the webhook and the replay    *)
(* endpoint, deduplication by delivery id, supersession of the runs of an  *)
(* older head, and the one CI run per failing head.                        *)
(*                                                                         *)
(* github_webhook is an async endpoint that does its database work on the  *)
(* event loop, so webhook requests run one at a time; replay is a sync     *)
(* endpoint, so replays run in threads beside them.  event, status and     *)
(* links are committed rows; every statement of a request reads them       *)
(* afresh (READ COMMITTED).                                                *)
(*                                                                         *)
(* A run is named by the request that queued it.  What a worker and the    *)
(* operator do to a run is reduced to what a request can see of it;        *)
(* RunLeases has the rest.                                                 *)
(***************************************************************************)
EXTENDS RunStatus, Naturals, FiniteSets

CONSTANTS
    Request,      \* HTTP requests, in no order
    Delivery,     \* X-GitHub-Delivery ids
    Content,      \* what each request carries
    Nobody,       \* no row lock
    AWorker,      \* the row lock of a processing transaction
    MaxRequests   \* bound: requests that arrive

(* kind: "pull_request" is a delivery that reaches supersession and        *)
(* queueing, "check_run" a failed check of a single same-repository pull   *)
(* request, "unusable" one with a rejection reason, "not_json" a body that *)
(* does not parse.  head numbers the head SHAs of a pull request in the    *)
(* order they were pushed.                                                 *)
Kind == {"pull_request", "check_run", "unusable", "not_json"}

ASSUME ContentIsGiven ==
    Content \in [Request -> [delivery : Delivery, via : {"webhook", "replay"},
                             signed : BOOLEAN, kind : Kind, pull : Nat,
                             head : Nat, human : BOOLEAN]]

ASSUME BoundIsNatural == MaxRequests \in Nat

VARIABLES
    event,      \* the webhook_events row of each delivery id
    status,     \* runs.status of the run a request queued
    links,      \* run_causal_links: superseded_by when the target is of a pull
                \* request, failed_check_after_assessment when of a check run
    rowLock,    \* who holds the row lock of a run
    at,         \* where each request is
    seen,       \* the candidates its supersession has read
    answer,     \* the response
    busy        \* runs that a processing transaction has loaded as leased

vars == <<event, status, links, rowLock, at, seen, answer, busy>>

EventRow == {"none", "invalid_signature", "invalid_json", "refused", "queued"}

(* The statuses supersede_active_runs and _queue_check_run look for, among *)
(* those a committed row can have.                                         *)
Active == {"queued", "leased"}

TypeOK ==
    /\ event   \in [Delivery -> EventRow]
    /\ status  \in [Request -> {"absent"} \cup Active \cup Terminal]
    /\ links   \subseteq Request \X Request
    /\ rowLock \in [Request -> Request \cup {AWorker, Nobody}]
    /\ at      \in [Request -> {"start", "unseen", "inserted", "selected",
                                "written", "end"}]
    /\ seen    \in [Request -> SUBSET Request]
    /\ answer  \in [Request -> {"none", "queued", "refused", "duplicate", "error"}]
    /\ busy    \subseteq Request

Init ==
    /\ event   = [d \in Delivery |-> "none"]
    /\ status  = [q \in Request |-> "absent"]
    /\ links   = {}
    /\ rowLock = [q \in Request |-> Nobody]
    /\ at      = [q \in Request |-> "start"]
    /\ seen    = [q \in Request |-> {}]
    /\ answer  = [q \in Request |-> "none"]
    /\ busy    = {}

----------------------------------------------------------------------------
(* Helpers                                                                 *)

Id(q) == Content[q].delivery

SamePull(p, q) == Content[p].pull = Content[q].pull

(* A request that has inserted its event and not ended holds the unique    *)
(* key of its delivery id: another insert of that id waits for it.         *)
HoldsKey(q) == at[q] \in {"inserted", "selected", "written"}

(* Mutant of KeyIsFree: delivery_id has no unique key.                     *)
NoUniqueKey(q) == TRUE

KeyIsFree(q) == \A p \in Request : Id(p) = Id(q) => ~HoldsKey(p)

(* The event loop is free for a webhook request; a replay has its thread.  *)
MayStart(q) ==
    /\ at[q] = "start"
    /\ Cardinality({p \in Request : at[p] # "start"}) < MaxRequests
    /\ Content[q].via = "webhook" =>
         \A p \in Request : Content[p].via = "webhook" => at[p] \in {"start", "end"}

(* The request is answered and its transaction is over.                    *)
Answer(q, a) ==
    /\ at'     = [at     EXCEPT ![q] = "end"]
    /\ answer' = [answer EXCEPT ![q] = a]

----------------------------------------------------------------------------
(* _process_github_delivery                                                *)

(* Mutant of RecordRejection: the stored event takes the new reason.       *)
OverwriteRejection(q) ==
    /\ MayStart(q)
    /\ ~Content[q].signed \/ Content[q].kind = "not_json"
    /\ KeyIsFree(q)
    /\ event' = [event EXCEPT ![Id(q)] =
                   IF Content[q].signed THEN "invalid_json" ELSE "invalid_signature"]
    /\ Answer(q, "error")
    /\ UNCHANGED <<status, links, rowLock, seen, busy>>

(* _record_invalid_delivery and _record_safe_rejection: one transaction    *)
(* that stores the event, or nothing when the id is already there.         *)
RecordRejection(q) ==
    /\ MayStart(q)
    /\ ~Content[q].signed \/ Content[q].kind = "not_json"
    /\ KeyIsFree(q)
    /\ event' = [event EXCEPT ![Id(q)] =
                   IF @ # "none" THEN @
                   ELSE IF Content[q].signed THEN "invalid_json" ELSE "invalid_signature"]
    /\ Answer(q, "error")
    /\ UNCHANGED <<status, links, rowLock, seen, busy>>

(* The select for a committed event with this delivery id.                 *)
Deduplicate(q) ==
    /\ MayStart(q)
    /\ Content[q].signed /\ Content[q].kind # "not_json"
    /\ IF event[Id(q)] # "none"
         THEN Answer(q, "duplicate")
         ELSE at' = [at EXCEPT ![q] = "unseen"] /\ UNCHANGED answer
    /\ UNCHANGED <<event, status, links, rowLock, seen, busy>>

(* The flush of the event: an id that was committed since is an            *)
(* IntegrityError, answered as a duplicate.                                *)
InsertEvent(q) ==
    /\ at[q] = "unseen"
    /\ KeyIsFree(q)
    /\ IF event[Id(q)] # "none"
         THEN Answer(q, "duplicate")
         ELSE at' = [at EXCEPT ![q] = "inserted"] /\ UNCHANGED answer
    /\ UNCHANGED <<event, status, links, rowLock, seen, busy>>

(* _queue_webhook_run returns a reason: the event is committed with it.    *)
RefuseUnusable(q) ==
    /\ at[q] = "inserted"
    /\ Content[q].kind = "unusable"
    /\ event' = [event EXCEPT ![Id(q)] = "refused"]
    /\ Answer(q, "refused")
    /\ UNCHANGED <<status, links, rowLock, seen, busy>>

(* Mutant of SelectCandidates: a bot's push supersedes too.                *)
SelectForAnyActor(q) ==
    /\ at[q] = "inserted"
    /\ Content[q].kind = "pull_request"
    /\ seen' = [seen EXCEPT ![q] =
                  {p \in Request : status[p] \in Active /\ SamePull(p, q)
                                   /\ Content[p].head # Content[q].head}]
    /\ at' = [at EXCEPT ![q] = "selected"]
    /\ UNCHANGED <<event, status, links, rowLock, answer, busy>>

(* supersede_active_runs reads its candidates, unless a bot moved the head:*)
(* active runs of this pull request, of any role, at another head.         *)
SelectCandidates(q) ==
    /\ at[q] = "inserted"
    /\ Content[q].kind = "pull_request"
    /\ seen' = [seen EXCEPT ![q] =
                  {p \in Request : /\ Content[q].human
                                   /\ status[p] \in Active
                                   /\ MayMove(status[p], "superseded")
                                   /\ SamePull(p, q)
                                   /\ Content[p].head # Content[q].head}]
    /\ at' = [at EXCEPT ![q] = "selected"]
    /\ UNCHANGED <<event, status, links, rowLock, answer, busy>>

(* The flush in create_queued_run updates them, and waits for their row    *)
(* locks: a processing transaction holds its lock until it ends.           *)
WriteCandidates(q) ==
    /\ at[q] = "selected"
    /\ Content[q].kind = "pull_request"
    /\ \A p \in seen[q] : rowLock[p] = Nobody
    /\ rowLock' = [p \in Request |-> IF p \in seen[q] THEN q ELSE rowLock[p]]
    /\ at' = [at EXCEPT ![q] = "written"]
    /\ UNCHANGED <<event, status, links, seen, answer, busy>>

(* The commit: the candidates are superseded whatever their status is by   *)
(* now, and linked to the run that replaces them.                          *)
CommitPullRequest(q) ==
    /\ at[q] = "written"
    /\ status' = [p \in Request |-> IF p \in seen[q] THEN "superseded"
                                    ELSE IF p = q THEN "queued" ELSE status[p]]
    /\ links' = links \cup (seen[q] \X {q})
    /\ rowLock' = [p \in Request |-> IF rowLock[p] = q THEN Nobody ELSE rowLock[p]]
    /\ event' = [event EXCEPT ![Id(q)] = "queued"]
    /\ Answer(q, "queued")
    /\ UNCHANGED <<seen, busy>>

(* Mutant of ExistingCiRuns: a CI run that a worker has claimed is missed. *)
WaitingCiRuns(q) ==
    {p \in Request : /\ Content[p].kind = "check_run"
                     /\ status[p] = "queued"
                     /\ SamePull(p, q)
                     /\ Content[p].head = Content[q].head}

(* The CI runs at this head that forbid another one.                       *)
ExistingCiRuns(q) ==
    {p \in Request : /\ Content[p].kind = "check_run"
                     /\ status[p] \notin {"absent", "superseded", "cancelled"}
                     /\ SamePull(p, q)
                     /\ Content[p].head = Content[q].head}

(* _queue_check_run selects an existing CI run of this head ...            *)
SelectExistingCi(q) ==
    /\ at[q] = "inserted"
    /\ Content[q].kind = "check_run"
    /\ IF ExistingCiRuns(q) # {}
         THEN /\ event' = [event EXCEPT ![Id(q)] = "refused"]
              /\ Answer(q, "refused")
         ELSE /\ at' = [at EXCEPT ![q] = "selected"]
              /\ UNCHANGED <<event, answer>>
    /\ UNCHANGED <<status, links, rowLock, seen, busy>>

(* The assessor runs of the head; the code takes the newest of them, which *)
(* is any of them here.                                                    *)
Assessors(q) ==
    {p \in Request : /\ Content[p].kind = "pull_request"
                     /\ status[p] # "absent"
                     /\ SamePull(p, q)
                     /\ Content[p].head = Content[q].head}

LinkAssessor(q) ==
    IF Assessors(q) = {} THEN UNCHANGED links
    ELSE \E p \in Assessors(q) : links' = links \cup {<<p, q>>}

(* Mutant of CommitCheckRun: the run stays in its first status.            *)
CommitReceived(q) ==
    /\ at[q] = "selected"
    /\ Content[q].kind = "check_run"
    /\ status' = [status EXCEPT ![q] = "received"]
    /\ LinkAssessor(q)
    /\ event'  = [event EXCEPT ![Id(q)] = "queued"]
    /\ Answer(q, "queued")
    /\ UNCHANGED <<rowLock, seen, busy>>

(* ... and without one queues the run, linked to the assessment of its     *)
(* head, and commits.                                                      *)
CommitCheckRun(q) ==
    /\ at[q] = "selected"
    /\ Content[q].kind = "check_run"
    /\ status' = [status EXCEPT ![q] = "queued"]
    /\ LinkAssessor(q)
    /\ event'  = [event EXCEPT ![Id(q)] = "queued"]
    /\ Answer(q, "queued")
    /\ UNCHANGED <<rowLock, seen, busy>>

----------------------------------------------------------------------------
(* What workers and the operator do to a run                               *)

(* claim_next_run, committed.                                              *)
Claim(p) ==
    /\ status[p] = "queued"
    /\ rowLock[p] = Nobody
    /\ status' = [status EXCEPT ![p] = "leased"]
    /\ UNCHANGED <<event, links, rowLock, at, seen, answer, busy>>

(* process_claimed_run loads the run leased; a run loaded ended is let go. *)
Load(p) ==
    /\ status[p] = "leased"
    /\ p \notin busy
    /\ busy' = busy \cup {p}
    /\ UNCHANGED <<event, status, links, rowLock, at, seen, answer>>

(* Its first flush takes the row lock ...                                  *)
Flush(p) ==
    /\ p \in busy
    /\ rowLock[p] = Nobody
    /\ rowLock' = [rowLock EXCEPT ![p] = AWorker]
    /\ UNCHANGED <<event, status, links, at, seen, answer, busy>>

(* Mutant of Finish: the transaction is left open.                         *)
FinishWithoutCommit(p) ==
    /\ p \in busy
    /\ rowLock[p] = AWorker
    /\ busy' = busy \ {p}
    /\ UNCHANGED <<event, status, links, rowLock, at, seen, answer>>

(* ... and its commit writes the outcome over whatever status is there.    *)
Finish(p) ==
    /\ p \in busy
    /\ rowLock[p] = AWorker
    /\ status'  = [status  EXCEPT ![p] = "succeeded"]
    /\ rowLock' = [rowLock EXCEPT ![p] = Nobody]
    /\ busy' = busy \ {p}
    /\ UNCHANGED <<event, links, at, seen, answer>>

(* cancel_run.                                                             *)
Cancel(p) ==
    /\ MayMove(status[p], "cancelled")
    /\ rowLock[p] = Nobody
    /\ status' = [status EXCEPT ![p] = "cancelled"]
    /\ UNCHANGED <<event, links, rowLock, at, seen, answer, busy>>

----------------------------------------------------------------------------
Handle(q) ==
    \/ RecordRejection(q)
    \/ Deduplicate(q)
    \/ InsertEvent(q)
    \/ RefuseUnusable(q)
    \/ SelectCandidates(q)
    \/ WriteCandidates(q)
    \/ CommitPullRequest(q)
    \/ SelectExistingCi(q)
    \/ CommitCheckRun(q)

Process(p) == Claim(p) \/ Load(p) \/ Flush(p) \/ Finish(p)

Next == \E q \in Request : Handle(q) \/ Process(q) \/ Cancel(q)

Spec == Init /\ [][Next]_vars

(* Requests arrive, handlers run, and a processing transaction that holds  *)
(* a row lock ends: its model and executor calls have timeouts.            *)
Fairness == \A q \in Request : WF_vars(Handle(q)) /\ WF_vars(Finish(q))

LiveSpec == Spec /\ Fairness

----------------------------------------------------------------------------
(* Properties                                                              *)

Queued(q) == status[q] # "absent"

(* PRD-004: however often, and from however many threads, a delivery id is *)
(* handled, it queues at most one run.                                     *)
OneRunPerDelivery ==
    \A p, q \in Request : Queued(p) /\ Queued(q) /\ Id(p) = Id(q) => p = q

(* PRD-003: the event record and the queued run are stored together; an    *)
(* event recorded with any rejection reason has no run.                    *)
EventMatchesRun ==
    \A d \in Delivery :
        (event[d] = "queued") <=> (\E q \in Request : Id(q) = d /\ Queued(q))

(* docs/data-model.md: an event row is immutable, whatever a redelivery    *)
(* carries.                                                                *)
EventIsImmutable ==
    [][\A d \in Delivery : event[d] # "none" => event'[d] = event[d]]_vars

(* docs/implementation-plan.md: "Bot retry events do not start a second    *)
(* repair loop": a head has at most one CI run that waits or runs.         *)
OneActiveCiPerHead ==
    \A p, q \in Request :
        /\ Content[p].kind = "check_run" /\ status[p] \in Active
        /\ Content[q].kind = "check_run" /\ status[q] \in Active
        /\ SamePull(p, q) /\ Content[p].head = Content[q].head
        => p = q

(* A superseded run names a replacement that was queued, at another head   *)
(* of its pull request, for a delivery a human caused.  That the other     *)
(* head is a newer one it does not say: see SupersededByNewerHead.         *)
SupersededHasReplacement ==
    \A p \in Request : status[p] = "superseded" =>
        \E q \in Request : /\ <<p, q>> \in links /\ Queued(q)
                           /\ SamePull(p, q) /\ Content[p].head # Content[q].head
                           /\ Content[q].human

(* docs/contracts.md: "A later human head SHA supersedes older work".      *)
SupersededByNewerHead ==
    \A p, q \in Request :
        /\ status[p] = "superseded"
        /\ <<p, q>> \in links /\ Content[q].kind = "pull_request"
        => Content[p].head < Content[q].head

(* docs/contracts.md: "Persist only after verification": a verified        *)
(* delivery is a duplicate of a verified one only, so that a "valid signed *)
(* fixture creates one queued run" (docs/implementation-plan.md).          *)
DuplicatesAreOfVerified ==
    \A q \in Request : answer[q] = "duplicate" => event[Id(q)] \in {"queued", "refused"}

(* Every request that arrives is answered: no wait for a unique key, a row *)
(* lock or the event loop lasts for ever.                                  *)
EveryRequestAnswered == <>[](\A q \in Request : at[q] \in {"start", "end"})

----------------------------------------------------------------------------
(* The inductive invariant of WebhookIntakeProofs                          *)

(* The unique key has one holder, whose delivery id is not committed yet.  *)
OneKeyHolder ==
    \A p, q \in Request : HoldsKey(p) /\ HoldsKey(q) /\ Id(p) = Id(q) => p = q

KeyIsUncommitted == \A q \in Request : HoldsKey(q) => event[Id(q)] = "none"

(* A run is there once its request has ended, and its event with it; a     *)
(* worker has loaded one that is there.                                    *)
RunsAreRecorded ==
    \A q \in Request : Queued(q) => at[q] = "end" /\ event[Id(q)] = "queued"

LoadedAreQueued == \A p \in busy : Queued(p)

(* What a request is going to supersede was queued for another head, and   *)
(* the request is a human's.                                               *)
CandidatesAreOfOtherHeads ==
    \A q \in Request : \A p \in seen[q] :
        /\ Queued(p) /\ Content[q].human
        /\ SamePull(p, q) /\ Content[p].head # Content[q].head

IndInv ==
    /\ TypeOK
    /\ LoadedAreQueued
    /\ OneKeyHolder
    /\ KeyIsUncommitted
    /\ RunsAreRecorded
    /\ OneRunPerDelivery
    /\ EventMatchesRun
    /\ CandidatesAreOfOtherHeads
    /\ SupersededHasReplacement

(* What the one CI run per head needs besides: its deliveries are webhooks *)
(* (the replay endpoint breaks it), which the event loop takes one by one, *)
(* so that what SelectExistingCi has seen is true at the commit.           *)
ChecksAreWebhooks ==
    \A q \in Request :
        Content[q].kind = "check_run" /\ Content[q].signed => Content[q].via = "webhook"

WebhooksAreSerial ==
    \A p, q \in Request :
        /\ Content[p].via = "webhook" /\ at[p] \notin {"start", "end"}
        /\ Content[q].via = "webhook" /\ at[q] \notin {"start", "end"}
        => p = q

AcceptedAreSigned ==
    \A q \in Request :
        /\ at[q] \notin {"start", "end"} => Content[q].signed
        /\ at[q] = "written" => Content[q].kind = "pull_request"

NoCiRunMeanwhile ==
    \A p, q \in Request :
        /\ at[q] = "selected" /\ Content[q].kind = "check_run"
        /\ Content[p].kind = "check_run" /\ SamePull(p, q)
        /\ Content[p].head = Content[q].head
        => status[p] \notin Active

CiInv ==
    /\ WebhooksAreSerial
    /\ AcceptedAreSigned
    /\ NoCiRunMeanwhile
    /\ OneActiveCiPerHead
============================================================================
