------------------------ MODULE WebhookIntakeProofs ------------------------
(***************************************************************************)
(* Proofs about WebhookIntake, for every set of requests and deliveries,   *)
(* whatever the requests carry and in whatever order they arrive: IndInv   *)
(* is inductive, and from it follow the one run of a delivery, the match   *)
(* of events and runs, the immutable event row and the replacement of a    *)
(* superseded run.  The one CI run per head is proved for intakes whose    *)
(* failed checks arrive as webhooks only.                                  *)
(***************************************************************************)
EXTENDS WebhookIntake, TLAPS

(* The rows are as the requests left them.                                 *)
LEMMA InitInvariant == ASSUME Init PROVE IndInv
  <1>1. TypeOK
    BY DEF Init, TypeOK, EventRow
  <1>2. OneKeyHolder /\ KeyIsUncommitted
    BY DEF Init, OneKeyHolder, KeyIsUncommitted, HoldsKey
  <1>3. RunsAreRecorded /\ LoadedAreQueued /\ OneRunPerDelivery /\ EventMatchesRun
    BY DEF Init, RunsAreRecorded, LoadedAreQueued, OneRunPerDelivery, EventMatchesRun, Queued
  <1>4. CandidatesAreOfOtherHeads /\ SupersededHasReplacement
    BY DEF Init, CandidatesAreOfOtherHeads, SupersededHasReplacement
  <1> QED BY <1>1, <1>2, <1>3, <1>4 DEF IndInv

LEMMA IdsAreDeliveries == \A q \in Request : Id(q) \in Delivery
  BY ContentIsGiven DEF Id

----------------------------------------------------------------------------
(* Requests                                                                *)

(* A rejection is stored where no event is, and nobody holds the key.      *)
LEMMA RecordRejectionInvariant ==
    ASSUME IndInv, NEW q \in Request, RecordRejection(q) PROVE IndInv'
  <1> USE DEF IndInv, RecordRejection, Answer, MayStart
  <1>1. TypeOK'
    BY IdsAreDeliveries DEF TypeOK, EventRow
  <1>2. \A p \in Request : HoldsKey(p)' <=> HoldsKey(p)
    BY DEF HoldsKey, TypeOK
  <1>3. \A d \in Delivery : event'[d] # event[d] =>
           event[d] = "none" /\ event'[d] # "queued" /\ d = Id(q)
    BY IdsAreDeliveries DEF TypeOK
  <1>4. OneKeyHolder'
    BY <1>2 DEF OneKeyHolder, Id
  <1>5. KeyIsUncommitted'
    BY <1>2, <1>3, IdsAreDeliveries DEF KeyIsUncommitted, KeyIsFree, Id
  <1>6. RunsAreRecorded'
    BY <1>3, IdsAreDeliveries DEF RunsAreRecorded, Queued, TypeOK, Id
  <1>7. OneRunPerDelivery' /\ LoadedAreQueued' /\ CandidatesAreOfOtherHeads'
        /\ SupersededHasReplacement'
    BY DEF OneRunPerDelivery, LoadedAreQueued, CandidatesAreOfOtherHeads, SupersededHasReplacement,
           Queued, SamePull, Id
  <1>8. EventMatchesRun'
    BY <1>3 DEF EventMatchesRun, Queued, Id
  <1> QED BY <1>1, <1>4, <1>5, <1>6, <1>7, <1>8

(* The key is taken by a request that found no event and no other holder.  *)
LEMMA ArrivalInvariant ==
    ASSUME IndInv, NEW q \in Request, Deduplicate(q) \/ InsertEvent(q) PROVE IndInv'
  <1> USE DEF IndInv, Deduplicate, InsertEvent, Answer, MayStart
  <1>1. TypeOK'
    BY DEF TypeOK
  <1>2. \A p \in Request : HoldsKey(p)' =>
           HoldsKey(p) \/ (p = q /\ KeyIsFree(q) /\ event[Id(q)] = "none")
    BY DEF HoldsKey, TypeOK
  <1>3. OneKeyHolder'
    BY <1>2 DEF OneKeyHolder, KeyIsFree, Id
  <1>4. KeyIsUncommitted'
    BY <1>2 DEF KeyIsUncommitted, Id
  <1>5. RunsAreRecorded'
    BY DEF RunsAreRecorded, Queued, TypeOK, Id
  <1>6. OneRunPerDelivery' /\ LoadedAreQueued' /\ CandidatesAreOfOtherHeads'
        /\ SupersededHasReplacement'
    BY DEF OneRunPerDelivery, LoadedAreQueued, CandidatesAreOfOtherHeads, SupersededHasReplacement,
           Queued, SamePull, Id
  <1>7. EventMatchesRun'
    BY DEF EventMatchesRun, Queued, Id
  <1> QED BY <1>1, <1>3, <1>4, <1>5, <1>6, <1>7

(* An event is committed without a run, by the holder of its key.          *)
LEMMA RefusalInvariant ==
    ASSUME IndInv, NEW q \in Request, RefuseUnusable(q) \/ SelectExistingCi(q)
    PROVE  IndInv'
  <1> USE DEF IndInv, RefuseUnusable, SelectExistingCi, Answer
  <1>1. TypeOK'
    BY IdsAreDeliveries DEF TypeOK, EventRow
  <1>2. HoldsKey(q) /\ event[Id(q)] = "none"
    BY DEF HoldsKey, KeyIsUncommitted
  <1>3. \A p \in Request : HoldsKey(p)' => HoldsKey(p)
    BY DEF HoldsKey, TypeOK
  <1>4. \A d \in Delivery : event'[d] # event[d] =>
           event[d] = "none" /\ event'[d] # "queued" /\ d = Id(q) /\ ~HoldsKey(q)'
    BY <1>2, IdsAreDeliveries DEF TypeOK, HoldsKey
  <1>5. OneKeyHolder'
    BY <1>3 DEF OneKeyHolder, Id
  <1>6. KeyIsUncommitted'
    BY <1>2, <1>3, <1>4, IdsAreDeliveries DEF KeyIsUncommitted, OneKeyHolder, Id
  <1>7. RunsAreRecorded'
    BY <1>4, IdsAreDeliveries DEF RunsAreRecorded, Queued, TypeOK, Id
  <1>8. OneRunPerDelivery' /\ LoadedAreQueued' /\ CandidatesAreOfOtherHeads'
        /\ SupersededHasReplacement'
    BY DEF OneRunPerDelivery, LoadedAreQueued, CandidatesAreOfOtherHeads, SupersededHasReplacement,
           Queued, SamePull, Id
  <1>9. EventMatchesRun'
    BY <1>4 DEF EventMatchesRun, Queued, Id
  <1> QED BY <1>1, <1>5, <1>6, <1>7, <1>8, <1>9

LEMMA SelectCandidatesInvariant ==
    ASSUME IndInv, NEW q \in Request, SelectCandidates(q) PROVE IndInv'
  <1> USE DEF IndInv, SelectCandidates
  <1>1. TypeOK'
    BY DEF TypeOK
  <1>2. OneKeyHolder' /\ KeyIsUncommitted'
    BY DEF OneKeyHolder, KeyIsUncommitted, HoldsKey, TypeOK, Id
  <1>3. RunsAreRecorded' /\ LoadedAreQueued' /\ OneRunPerDelivery' /\ EventMatchesRun'
    BY DEF RunsAreRecorded, LoadedAreQueued, OneRunPerDelivery, EventMatchesRun, Queued, TypeOK, Id
  <1>4. CandidatesAreOfOtherHeads'
    BY DEF CandidatesAreOfOtherHeads, Queued, SamePull, Active, TypeOK
  <1>5. SupersededHasReplacement'
    BY DEF SupersededHasReplacement, Queued, SamePull
  <1> QED BY <1>1, <1>2, <1>3, <1>4, <1>5

LEMMA WriteCandidatesInvariant ==
    ASSUME IndInv, NEW q \in Request, WriteCandidates(q) PROVE IndInv'
  <1> USE DEF IndInv, WriteCandidates
  <1>1. TypeOK'
    BY DEF TypeOK
  <1>2. OneKeyHolder' /\ KeyIsUncommitted'
    BY DEF OneKeyHolder, KeyIsUncommitted, HoldsKey, TypeOK, Id
  <1>3. RunsAreRecorded' /\ LoadedAreQueued' /\ OneRunPerDelivery' /\ EventMatchesRun'
    BY DEF RunsAreRecorded, LoadedAreQueued, OneRunPerDelivery, EventMatchesRun, Queued, TypeOK, Id
  <1>4. CandidatesAreOfOtherHeads' /\ SupersededHasReplacement'
    BY DEF CandidatesAreOfOtherHeads, SupersededHasReplacement, Queued, SamePull
  <1> QED BY <1>1, <1>2, <1>3, <1>4

(* The candidates are superseded by a run that is there from now on, for a *)
(* delivery that had no run.                                               *)
LEMMA CommitPullRequestInvariant ==
    ASSUME IndInv, NEW q \in Request, CommitPullRequest(q) PROVE IndInv'
  <1> USE DEF IndInv, CommitPullRequest, Answer
  <1>1. HoldsKey(q) /\ event[Id(q)] = "none" /\ ~Queued(q) /\ q \notin seen[q]
    BY DEF HoldsKey, KeyIsUncommitted, RunsAreRecorded, CandidatesAreOfOtherHeads
  <1>2. status' \in [Request -> {"absent"} \cup Active \cup Terminal]
    <2> SUFFICES ASSUME NEW p \in Request
                 PROVE  (IF p \in seen[q] THEN "superseded" ELSE IF p = q THEN "queued"
                         ELSE status[p]) \in {"absent"} \cup Active \cup Terminal
      OBVIOUS
    <2> QED BY DEF TypeOK, Active, Terminal
  <1>3. rowLock' \in [Request -> Request \cup {AWorker, Nobody}]
    BY DEF TypeOK
  <1>4. TypeOK'
    BY <1>2, <1>3, IdsAreDeliveries DEF TypeOK, EventRow
  <1>5. \A p \in Request : Queued(p)' <=> Queued(p) \/ p = q
    BY <1>1 DEF Queued, CandidatesAreOfOtherHeads
  <1>6. \A p \in Request : HoldsKey(p)' <=> HoldsKey(p) /\ p # q
    BY DEF HoldsKey, TypeOK
  <1>7. \A p \in Request : Id(p) = Id(q) /\ p # q => ~Queued(p) /\ ~HoldsKey(p)
    BY <1>1 DEF RunsAreRecorded, OneKeyHolder
  <1>8. OneKeyHolder'
    BY <1>6 DEF OneKeyHolder, Id
  <1>9. KeyIsUncommitted'
    BY <1>6, <1>7, IdsAreDeliveries DEF KeyIsUncommitted, TypeOK, Id
  <1>10. RunsAreRecorded' /\ LoadedAreQueued'
    BY <1>5, <1>7, IdsAreDeliveries DEF RunsAreRecorded, LoadedAreQueued, TypeOK, Id
  <1>11. OneRunPerDelivery'
    BY <1>5, <1>7 DEF OneRunPerDelivery, Id
  <1>12. EventMatchesRun'
    BY <1>1, <1>5, IdsAreDeliveries DEF EventMatchesRun, TypeOK, Id
  <1>13. CandidatesAreOfOtherHeads'
    BY <1>5 DEF CandidatesAreOfOtherHeads, SamePull, TypeOK
  <1>14. SupersededHasReplacement'
    <2> SUFFICES ASSUME NEW p \in Request, status'[p] = "superseded"
                 PROVE  \E r \in Request : /\ <<p, r>> \in links' /\ Queued(r)'
                                           /\ SamePull(p, r) /\ Content[p].head # Content[r].head
                                           /\ Content[r].human
      BY DEF SupersededHasReplacement, SamePull
    <2>1. CASE p \in seen[q]
      BY <2>1, <1>5 DEF CandidatesAreOfOtherHeads
    <2>2. CASE p \notin seen[q]
      <3>1. status[p] = "superseded"
        BY <2>2 DEF TypeOK
      <3> QED BY <3>1, <1>5 DEF SupersededHasReplacement
    <2> QED BY <2>1, <2>2
  <1> QED BY <1>4, <1>8, <1>9, <1>10, <1>11, <1>12, <1>13, <1>14

LEMMA CommitCheckRunInvariant ==
    ASSUME IndInv, NEW q \in Request, CommitCheckRun(q) PROVE IndInv'
  <1> USE DEF IndInv, CommitCheckRun, Answer
  <1>1. HoldsKey(q) /\ event[Id(q)] = "none" /\ ~Queued(q)
    BY DEF HoldsKey, KeyIsUncommitted, RunsAreRecorded
  <1>2. links' \subseteq Request \X Request /\ links \subseteq links'
    BY DEF TypeOK, LinkAssessor, Assessors
  <1>3. TypeOK'
    BY <1>2, IdsAreDeliveries DEF TypeOK, EventRow, Active
  <1>4. \A p \in Request : Queued(p)' <=> Queued(p) \/ p = q
    BY DEF Queued, TypeOK
  <1>5. \A p \in Request : HoldsKey(p)' <=> HoldsKey(p) /\ p # q
    BY DEF HoldsKey, TypeOK
  <1>6. \A p \in Request : Id(p) = Id(q) /\ p # q => ~Queued(p) /\ ~HoldsKey(p)
    BY <1>1 DEF RunsAreRecorded, OneKeyHolder
  <1>7. OneKeyHolder'
    BY <1>5 DEF OneKeyHolder, Id
  <1>8. KeyIsUncommitted'
    BY <1>5, <1>6, IdsAreDeliveries DEF KeyIsUncommitted, TypeOK, Id
  <1>9. RunsAreRecorded' /\ LoadedAreQueued'
    BY <1>4, <1>6, IdsAreDeliveries DEF RunsAreRecorded, LoadedAreQueued, TypeOK, Id
  <1>10. OneRunPerDelivery'
    BY <1>4, <1>6 DEF OneRunPerDelivery, Id
  <1>11. EventMatchesRun'
    BY <1>1, <1>4, IdsAreDeliveries DEF EventMatchesRun, TypeOK, Id
  <1>12. CandidatesAreOfOtherHeads'
    BY <1>4 DEF CandidatesAreOfOtherHeads, SamePull, TypeOK
  <1>13. SupersededHasReplacement'
    BY <1>2, <1>4 DEF SupersededHasReplacement, SamePull, TypeOK
  <1> QED BY <1>3, <1>7, <1>8, <1>9, <1>10, <1>11, <1>12, <1>13

----------------------------------------------------------------------------
(* Workers and the operator change runs that are there, and supersede none.*)

LEMMA RunsGoOn ==
    ASSUME IndInv, NEW p \in Request, Process(p) \/ Cancel(p)
    PROVE  /\ UNCHANGED <<event, links, at, seen, answer>>
           /\ status' \in [Request -> {"absent"} \cup Active \cup Terminal]
           /\ \A q \in Request : (status'[q] = "absent") <=> (status[q] = "absent")
           /\ \A q \in Request : status'[q] = "superseded" => status[q] = "superseded"
           /\ \A q \in Request : status'[q] \in Active => status[q] \in Active
  <1> USE DEF IndInv, TypeOK, Active, Terminal
  <1>1. CASE Claim(p)
    BY <1>1 DEF Claim
  <1>2. CASE Load(p)
    BY <1>2 DEF Load
  <1>3. CASE Flush(p)
    BY <1>3 DEF Flush
  <1>4. CASE Finish(p)
    BY <1>4 DEF Finish, LoadedAreQueued, Queued
  <1>5. CASE Cancel(p)
    BY <1>5 DEF Cancel, MayMove, AllowedTransitions
  <1> QED BY <1>1, <1>2, <1>3, <1>4, <1>5 DEF Process

LEMMA RunInvariant ==
    ASSUME IndInv, NEW p \in Request, Process(p) \/ Cancel(p) PROVE IndInv'
  <1> USE RunsGoOn DEF IndInv
  <1>1. TypeOK'
    <2>1. rowLock' \in [Request -> Request \cup {AWorker, Nobody}]
      BY DEF TypeOK, Process, Claim, Load, Flush, Finish, Cancel
    <2>2. busy' \subseteq Request
      BY DEF TypeOK, Process, Claim, Load, Flush, Finish, Cancel
    <2> QED BY <2>1, <2>2 DEF TypeOK
  <1>2. OneKeyHolder' /\ KeyIsUncommitted'
    BY DEF OneKeyHolder, KeyIsUncommitted, HoldsKey, Id
  <1>3. \A q \in Request : Queued(q)' <=> Queued(q)
    BY DEF Queued
  <1>6. LoadedAreQueued'
    <2>1. \A q \in busy' : q \in busy \/ (q = p /\ status[p] = "leased")
      BY DEF Process, Claim, Load, Flush, Finish, Cancel
    <2> QED BY <1>3, <2>1 DEF LoadedAreQueued, TypeOK, Queued
  <1>4. RunsAreRecorded' /\ OneRunPerDelivery' /\ EventMatchesRun'
    BY <1>3 DEF RunsAreRecorded, OneRunPerDelivery, EventMatchesRun, Id
  <1>5. CandidatesAreOfOtherHeads' /\ SupersededHasReplacement'
    BY <1>3 DEF CandidatesAreOfOtherHeads, SupersededHasReplacement, SamePull, TypeOK
  <1> QED BY <1>1, <1>2, <1>4, <1>5, <1>6

----------------------------------------------------------------------------
LEMMA NextInvariant == ASSUME IndInv, [Next]_vars PROVE IndInv'
  <1>1. ASSUME NEW q \in Request, Handle(q) PROVE IndInv'
    BY <1>1, RecordRejectionInvariant, ArrivalInvariant, RefusalInvariant,
       SelectCandidatesInvariant, WriteCandidatesInvariant, CommitPullRequestInvariant,
       CommitCheckRunInvariant DEF Handle
  <1>2. ASSUME NEW p \in Request, Process(p) \/ Cancel(p) PROVE IndInv'
    BY <1>2, RunInvariant
  <1>3. CASE UNCHANGED vars
    <2> USE <1>3 DEF vars, IndInv
    <2>1. TypeOK'
      BY DEF TypeOK
    <2>2. OneKeyHolder' /\ KeyIsUncommitted'
      BY DEF OneKeyHolder, KeyIsUncommitted, HoldsKey, Id
    <2>3. RunsAreRecorded' /\ LoadedAreQueued' /\ OneRunPerDelivery' /\ EventMatchesRun'
      BY DEF RunsAreRecorded, LoadedAreQueued, OneRunPerDelivery, EventMatchesRun, Queued, Id
    <2>4. CandidatesAreOfOtherHeads' /\ SupersededHasReplacement'
      BY DEF CandidatesAreOfOtherHeads, SupersededHasReplacement, Queued, SamePull
    <2> QED BY <2>1, <2>2, <2>3, <2>4
  <1> QED BY <1>1, <1>2, <1>3 DEF Next

(* The inductive invariant ties the unique key, the committed events, the  *)
(* runs and the links together, for every intake.                          *)
THEOREM IntakeInvariant == Spec => []IndInv
  <1>1. Init => IndInv                  BY InitInvariant
  <1>2. IndInv /\ [Next]_vars => IndInv' BY NextInvariant
  <1> QED BY <1>1, <1>2, PTL DEF Spec

(* Every variable of the intake keeps its type.                            *)
THEOREM IntakeTypes == Spec => []TypeOK
  <1>1. IndInv => TypeOK BY DEF IndInv
  <1> QED BY <1>1, IntakeInvariant, PTL

(* PRD-004: at most one run is queued for a delivery id, whichever         *)
(* requests carry it and however webhooks and replays interleave.          *)
THEOREM DeliveriesQueueOneRun == Spec => []OneRunPerDelivery
  <1>1. IndInv => OneRunPerDelivery BY DEF IndInv
  <1> QED BY <1>1, IntakeInvariant, PTL

(* PRD-003: an event is recorded as queued if and only if its run is there.*)
THEOREM EventsMatchRuns == Spec => []EventMatchesRun
  <1>1. IndInv => EventMatchesRun BY DEF IndInv
  <1> QED BY <1>1, IntakeInvariant, PTL

(* A superseded run names the run of another head, queued for a human, by  *)
(* which it was replaced.                                                  *)
THEOREM SupersededAreReplaced == Spec => []SupersededHasReplacement
  <1>1. IndInv => SupersededHasReplacement BY DEF IndInv
  <1> QED BY <1>1, IntakeInvariant, PTL

(* docs/data-model.md: no request changes an event row once it is there:   *)
(* one is written where none is, by the holder of its unique key.          *)
LEMMA EventStep ==
    ASSUME IndInv, [Next]_vars, NEW d \in Delivery, event[d] # "none"
    PROVE  event'[d] = event[d]
  <1>1. ASSUME NEW q \in Request, Handle(q) PROVE event'[d] = event[d]
    <2>1. HoldsKey(q) => Id(q) # d
      BY DEF IndInv, KeyIsUncommitted
    <2>2. CASE RecordRejection(q)
      BY <2>2, IdsAreDeliveries DEF RecordRejection, IndInv, TypeOK
    <2>3. CASE RefuseUnusable(q) \/ SelectExistingCi(q) \/ CommitCheckRun(q)
               \/ CommitPullRequest(q)
      <3>1. HoldsKey(q)
        BY <2>3 DEF HoldsKey, RefuseUnusable, SelectExistingCi, CommitCheckRun,
                    CommitPullRequest
      <3> QED BY <2>1, <2>3, <3>1
              DEF RefuseUnusable, SelectExistingCi, CommitCheckRun, CommitPullRequest,
                  IndInv, TypeOK
    <2>4. CASE Deduplicate(q) \/ InsertEvent(q) \/ SelectCandidates(q) \/ WriteCandidates(q)
      BY <2>4 DEF Deduplicate, InsertEvent, SelectCandidates, WriteCandidates
    <2> QED BY <1>1, <2>2, <2>3, <2>4 DEF Handle
  <1>2. ASSUME NEW p \in Request, Process(p) \/ Cancel(p) PROVE event'[d] = event[d]
    BY <1>2, RunsGoOn
  <1>3. CASE UNCHANGED vars
    BY <1>3 DEF vars
  <1> QED BY <1>1, <1>2, <1>3 DEF Next

(* The same of every behaviour.                                            *)
THEOREM EventsAreImmutable == Spec => EventIsImmutable
  <1>1. IndInv /\ [Next]_vars =>
          [\A d \in Delivery : event[d] # "none" => event'[d] = event[d]]_vars
    BY EventStep
  <1> QED BY <1>1, IntakeInvariant, PTL DEF Spec, EventIsImmutable

----------------------------------------------------------------------------
(* One CI run per head                                                     *)

LEMMA CiInit == ASSUME Init PROVE CiInv
  BY DEF Init, CiInv, WebhooksAreSerial, AcceptedAreSigned, NoCiRunMeanwhile,
         OneActiveCiPerHead, Active

(* A handler moves its own request on; only MayStart lets one begin.       *)
LEMMA HandlerMoves ==
    ASSUME IndInv, NEW q \in Request, Handle(q)
    PROVE  /\ \A p \in Request : p # q => at'[p] = at[p]
           /\ at[q] = "start" /\ at'[q] # "end" => MayStart(q) /\ Content[q].signed
           /\ at'[q] # "start" /\ at[q] # "end"
           /\ at'[q] = "written" => Content[q].kind = "pull_request"
           /\ at'[q] = "selected" /\ Content[q].kind = "check_run" => ExistingCiRuns(q) = {}
  BY DEF Handle, RecordRejection, Deduplicate, InsertEvent, RefuseUnusable, SelectCandidates,
         WriteCandidates, CommitPullRequest, SelectExistingCi, CommitCheckRun, Answer, MayStart,
         IndInv, TypeOK

LEMMA SerialStep ==
    ASSUME IndInv, CiInv, NEW q \in Request, Handle(q)
    PROVE  WebhooksAreSerial' /\ AcceptedAreSigned'
  <1> USE HandlerMoves DEF CiInv
  <1>1. \A p \in Request : p # q /\ Content[p].via = "webhook" /\ Content[q].via = "webhook"
          /\ at[p] \notin {"start", "end"} => at'[q] = "end"
    BY DEF WebhooksAreSerial, MayStart
  <1>2. WebhooksAreSerial'
    BY <1>1 DEF WebhooksAreSerial
  <1>3. AcceptedAreSigned'
    BY DEF AcceptedAreSigned
  <1> QED BY <1>2, <1>3

(* While a request for a CI run is between its select and its commit, no   *)
(* other request commits one.                                              *)
LEMMA CiStep ==
    ASSUME IndInv, CiInv, ChecksAreWebhooks, NEW q \in Request, Handle(q)
    PROVE  NoCiRunMeanwhile' /\ OneActiveCiPerHead'
  <1> USE DEF CiInv
  <1> DEFINE Ci(p) == Content[p].kind = "check_run"
             Beside(p, r) == SamePull(p, r) /\ Content[p].head = Content[r].head
  <1>1. \A p \in Request : Ci(p) /\ status'[p] \in Active =>
          status[p] \in Active \/ (p = q /\ at[q] = "selected" /\ at'[q] = "end")
    BY DEF Handle, RecordRejection, Deduplicate, InsertEvent, RefuseUnusable, SelectCandidates,
           WriteCandidates, CommitPullRequest, SelectExistingCi, CommitCheckRun, Answer,
           IndInv, TypeOK, AcceptedAreSigned, Active
  <1>2. \A r \in Request : Ci(r) /\ at[r] = "selected" => Content[r].via = "webhook"
    BY DEF ChecksAreWebhooks, AcceptedAreSigned
  <1>3. \A p, r \in Request : Ci(p) /\ at[p] = "selected" /\ Ci(r) /\ at[r] = "selected" => p = r
    BY <1>2 DEF WebhooksAreSerial
  <1>4. \A r \in Request : Ci(r) /\ at'[r] = "selected" =>
          \/ r # q /\ at[r] = "selected"
          \/ r = q /\ ExistingCiRuns(q) = {}
    BY HandlerMoves
  <1>5. NoCiRunMeanwhile'
    <2> SUFFICES ASSUME NEW p \in Request, NEW r \in Request, at'[r] = "selected",
                        Ci(r), Ci(p), Beside(p, r), status'[p] \in Active
                 PROVE  FALSE
      BY DEF NoCiRunMeanwhile, SamePull
    <2>1. CASE r # q
      BY <2>1, <1>1, <1>3, <1>4 DEF NoCiRunMeanwhile
    <2>2. CASE r = q
      BY <2>2, <1>1, <1>4 DEF ExistingCiRuns, Active
    <2> QED BY <2>1, <2>2
  <1>6. OneActiveCiPerHead'
    <2> SUFFICES ASSUME NEW p \in Request, NEW r \in Request, Ci(p), Ci(r), Beside(p, r),
                        status'[p] \in Active, status'[r] \in Active, p # r
                 PROVE  FALSE
      BY DEF OneActiveCiPerHead, SamePull
    <2>1. CASE status[p] \in Active /\ status[r] \in Active
      BY <2>1 DEF OneActiveCiPerHead
    <2>2. CASE status[p] \notin Active
      BY <2>2, <1>1 DEF NoCiRunMeanwhile, SamePull
    <2>3. CASE status[r] \notin Active
      BY <2>3, <1>1 DEF NoCiRunMeanwhile
    <2> QED BY <2>1, <2>2, <2>3
  <1> QED BY <1>5, <1>6

LEMMA CiInvariant ==
    ASSUME IndInv, CiInv, ChecksAreWebhooks, [Next]_vars PROVE CiInv'
  <1>1. ASSUME NEW q \in Request, Handle(q) PROVE CiInv'
    BY <1>1, SerialStep, CiStep DEF CiInv
  <1>2. ASSUME NEW p \in Request, Process(p) \/ Cancel(p) PROVE CiInv'
    <2>1. WebhooksAreSerial' /\ AcceptedAreSigned'
      BY <1>2, RunsGoOn DEF CiInv, WebhooksAreSerial, AcceptedAreSigned
    <2>2. NoCiRunMeanwhile' /\ OneActiveCiPerHead'
      BY <1>2, RunsGoOn DEF CiInv, NoCiRunMeanwhile, OneActiveCiPerHead, SamePull
    <2> QED BY <2>1, <2>2 DEF CiInv
  <1>3. CASE UNCHANGED vars
    BY <1>3 DEF vars, CiInv, WebhooksAreSerial, AcceptedAreSigned, NoCiRunMeanwhile,
                OneActiveCiPerHead, SamePull
  <1> QED BY <1>1, <1>2, <1>3 DEF Next

(* docs/implementation-plan.md: a head has at most one CI run that waits or*)
(* runs, as long as its failed checks arrive as webhooks, which are taken  *)
(* one at a time; a replay beside them breaks it.                          *)
THEOREM OneCiRunPerHead == ChecksAreWebhooks => (Spec => []OneActiveCiPerHead)
  <1> SUFFICES ASSUME ChecksAreWebhooks PROVE Spec => []OneActiveCiPerHead
    OBVIOUS
  <1>1. Init => CiInv                              BY CiInit
  <1>2. IndInv /\ CiInv /\ [Next]_vars => CiInv'   BY CiInvariant
  <1>3. CiInv => OneActiveCiPerHead                BY DEF CiInv
  <1> QED BY <1>1, <1>2, <1>3, IntakeInvariant, PTL DEF Spec
============================================================================
