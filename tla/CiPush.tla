------------------------------- MODULE CiPush -------------------------------
(***************************************************************************)
(* The one flow that writes to GitHub: push_validated_patch                *)
(* (runs/ci_push.py), the push gate (policy/push_gate.py) and the branch   *)
(* writer (gateway/github.py), for one CI run and the head branch of its   *)
(* pull request, to which humans push at any time.                         *)
(*                                                                         *)
(* Everything the flow stores is written in the transaction of its caller  *)
(* (only tests call it yet; a worker's processing transaction is assumed): *)
(* a crash or a lost lease rolls it back, and a later attempt starts from  *)
(* the committed rows.  The branch is on GitHub and rolls back nothing.    *)
(* GitHub (a ref update with force FALSE succeeds when the new commit      *)
(* descends from the branch head) is modelled from how the writer uses it. *)
(*                                                                         *)
(* Commits are numbers in order of creation; the run is pinned to the      *)
(* commit Pinned.  The diff is reduced to whether the patch policy and the *)
(* secret scan allow it.                                                   *)
(***************************************************************************)
EXTENDS RunStatus, Naturals, FiniteSets

CONSTANTS
    Pinned,       \* the head the run was queued for; older commits exist
    MaxCommits,   \* bound: commits in the repository
    MaxAttempts   \* bound: processing transactions

ASSUME PinnedIsACommit == Pinned \in Nat /\ Pinned > 0
ASSUME PushBounds == MaxCommits \in Nat /\ MaxAttempts \in Nat

VARIABLES
    head,       \* the branch head on GitHub
    parent,     \* the parent of each commit, 0 for the first
    bots,       \* the commits the writer made
    optIn,      \* the pull request's opt-in row: "none", "live", "expired"
    db,         \* committed: the run's status, its policy decisions, and
                \* how many patch artifacts it has
    session,    \* the same in the open processing transaction
    pc,         \* where the flow is
    context,    \* the PushContext
    lost,       \* history: the writer's commits of transactions rolled back
    reads,      \* history: the heads the writer has read in this transaction
    attempts    \* counter for the bound

vars == <<head, parent, bots, optIn, db, session, pc, context, lost, reads, attempts>>
github  == <<head, parent, bots>>
history == <<lost, reads>>

Commits == DOMAIN parent
NextCommit == Cardinality(Commits) + 1

Rows == [status : {"leased", "evaluating", "pushing"} \cup Terminal,
         decisions : SUBSET [policy : {"ci_push_precheck", "ci_push_gate",
                                       "ci_exact_sha_recheck", "ci_github_write"},
                             allow : BOOLEAN],
         patches : Nat]

(* What a caller hands over, and what the flow reads before the first gate.*)
(* listed: the writer it hands over has the repository in its allowlist.   *)
Contexts == [branch : BOOLEAN, observed : Nat, optIn : {"none", "live", "expired"},
             listed : BOOLEAN, sameRepository : BOOLEAN, reproduced : BOOLEAN,
             validated : BOOLEAN, cleanDiff : BOOLEAN, attemptCount : Nat]

TypeOK ==
    /\ Cardinality(Commits) \in Nat
    /\ parent \in [1..Cardinality(Commits) -> Nat]
    /\ head \in Commits
    /\ bots \subseteq Commits
    /\ optIn \in {"none", "live", "expired"}
    /\ db \in Rows /\ session \in Rows
    /\ pc \in {"idle", "evaluating", "prechecked", "gated", "rechecked",
               "applying", "updated", "failed", "ending", "end"}
    /\ context \in Contexts
    /\ lost \subseteq bots
    /\ reads \subseteq Commits
    /\ attempts \in Nat

NoContext == [branch |-> FALSE, observed |-> 0, optIn |-> "none", listed |-> FALSE,
              sameRepository |-> FALSE, reproduced |-> FALSE, validated |-> FALSE,
              cleanDiff |-> FALSE, attemptCount |-> 0]

Init ==
    /\ parent = [c \in 1..Pinned |-> c - 1]
    /\ head = Pinned
    /\ bots = {}
    /\ optIn \in {"none", "live"}
    /\ db = [status |-> "leased", decisions |-> {}, patches |-> 0]
    /\ session = db
    /\ pc = "idle"
    /\ context = NoContext
    /\ lost = {}
    /\ reads = {}
    /\ attempts = 0

----------------------------------------------------------------------------
(* GitHub and its humans (external)                                        *)

(* The commits c descends from, and c.                                     *)
Ancestry(c) ==
    LET reached[n \in 0..Cardinality(Commits)] ==
          IF n = 0 THEN {c}
          ELSE reached[n - 1] \cup {parent[d] : d \in reached[n - 1] \cap Commits}
    IN  reached[Cardinality(Commits)] \cap Commits

CanCommit == Cardinality(Commits) < MaxCommits

(* A human pushes a commit on top of the branch.                           *)
HumanPush ==
    /\ CanCommit
    /\ parent' = [c \in Commits \cup {NextCommit} |->
                    IF c \in Commits THEN parent[c] ELSE head]
    /\ head' = NextCommit
    /\ UNCHANGED <<bots, optIn, db, session, pc, context, history, attempts>>

(* A human forces the branch back to a commit it descends from.            *)
HumanReset ==
    /\ \E c \in Ancestry(head) \ {head} : head' = c
    /\ UNCHANGED <<parent, bots, optIn, db, session, pc, context, history, attempts>>

(* The opt-in runs out.                                                    *)
OptInExpires ==
    /\ optIn = "live"
    /\ optIn' = "expired"
    /\ UNCHANGED <<github, db, session, pc, context, history, attempts>>

----------------------------------------------------------------------------
(* The gate                                                                *)

(* evaluate_push_gate, in its order; the opt-in row in the context is a    *)
(* copy, judged against the clock of the call, so a live one may have run  *)
(* out.  validate_unified_diff and redact are cleanDiff.                   *)
GateReason(c, now) ==
    IF c.optIn # "live" \/ now = "expired"       THEN "missing_or_expired_opt_in"
    ELSE IF ~c.sameRepository                    THEN "fork_branch_refused"
    ELSE IF c.observed # Pinned                  THEN "stale_head_sha"
    ELSE IF ~c.reproduced                        THEN "unreproduced_or_external_failure"
    ELSE IF ~c.validated                         THEN "validation_not_passed"
    ELSE IF c.attemptCount # 0                   THEN "one_attempt_policy"
    ELSE IF ~c.cleanDiff                         THEN "patch_refused"
    ELSE "source_only_patch"

Allows(reason) == reason = "source_only_patch"

Decision(policy, allowed) == [policy |-> policy, allow |-> allowed]

(* The session ends the run in a status and is ready to commit.            *)
EndRun(status, more, patches) ==
    /\ session' = [session EXCEPT !.status = status,
                                  !.decisions = @ \cup more, !.patches = patches]
    /\ pc' = "ending"

----------------------------------------------------------------------------
(* push_validated_patch                                                    *)

(* A processing transaction reaches "evaluating"; its caller has observed  *)
(* the branch head and gathered the evidence.                              *)
Begin ==
    /\ pc = "idle" /\ db.status = "leased" /\ attempts < MaxAttempts
    /\ attempts' = attempts + 1
    /\ session' = [db EXCEPT !.status = "evaluating"]
    /\ \E branch, listed, same, reproduced, validated, clean \in BOOLEAN :
         context' = [NoContext EXCEPT !.branch = branch, !.observed = head,
                       !.listed = listed, !.sameRepository = same, !.reproduced = reproduced,
                       !.validated = validated, !.cleanDiff = clean]
    /\ pc' = "evaluating"
    /\ UNCHANGED <<github, optIn, db, history>>

(* A run without a pull request or a branch is refused at once.            *)
RefuseWithoutBranch ==
    /\ pc = "evaluating"
    /\ ~context.branch
    /\ EndRun("refused", {}, session.patches)
    /\ UNCHANGED <<github, optIn, db, context, history, attempts>>

(* The opt-in row and the run's earlier attempts are read, the gate is     *)
(* asked a first time, its decision and the patch artifact are stored.  A  *)
(* deny ends the run.                                                      *)
Precheck ==
    /\ pc = "evaluating"
    /\ context.branch
    /\ LET c == [context EXCEPT !.optIn = optIn, !.attemptCount = session.patches]
           reason == GateReason(c, optIn)
           record == {Decision("ci_push_precheck", Allows(reason))}
       IN  /\ context' = c
           /\ IF Allows(reason)
                THEN /\ MayMove("evaluating", "ready_to_push")
                     /\ MayMove("ready_to_push", "pushing")
                     /\ session' = [session EXCEPT !.status = "pushing",
                                      !.decisions = @ \cup record, !.patches = @ + 1]
                     /\ pc' = "prechecked"
                ELSE EndRun(IF reason = "stale_head_sha" THEN "superseded" ELSE "refused",
                            record, session.patches + 1)
    /\ UNCHANGED <<github, optIn, db, history, attempts>>

(* apply_validated_patch: the gate again, on the same context.             *)
Gate ==
    /\ pc = "prechecked"
    /\ LET reason == GateReason(context, optIn)
           record == {Decision("ci_push_gate", Allows(reason))}
       IN  IF Allows(reason)
             THEN /\ session' = [session EXCEPT !.decisions = @ \cup record]
                  /\ pc' = "gated"
             ELSE EndRun("refused", record, session.patches)
    /\ UNCHANGED <<github, optIn, db, context, history, attempts>>

(* The head a call of the writer reads, which _authorize refuses for a     *)
(* repository outside the writer's allowlist.                              *)
Read == IF context.listed THEN {head} ELSE {}

(* Mutant of RecheckHead: the head is read and not compared.               *)
RecheckAnyHead ==
    /\ pc = "gated"
    /\ reads' = reads \cup Read
    /\ IF context.listed
         THEN pc' = "rechecked" /\ UNCHANGED session
         ELSE EndRun("refused", {}, session.patches)
    /\ UNCHANGED <<github, optIn, db, context, lost, attempts>>

(* writer.head_sha must still be the pinned SHA: a moved head is recorded, *)
(* the PermissionError of _authorize is not.                               *)
RecheckHead ==
    /\ pc = "gated"
    /\ reads' = reads \cup Read
    /\ IF context.listed /\ head = Pinned
         THEN pc' = "rechecked" /\ UNCHANGED session
         ELSE EndRun("refused",
                     IF context.listed THEN {Decision("ci_exact_sha_recheck", FALSE)} ELSE {},
                     session.patches)
    /\ UNCHANGED <<github, optIn, db, context, lost, attempts>>

(* apply_unified_diff authorizes and reads the ref once more.  Either      *)
(* PermissionError ends the run refused and records nothing.               *)
ReadRef ==
    /\ pc = "rechecked"
    /\ reads' = reads \cup Read
    /\ IF context.listed /\ head = Pinned
         THEN pc' = "applying" /\ UNCHANGED session
         ELSE EndRun("refused", {}, session.patches)
    /\ UNCHANGED <<github, optIn, db, context, lost, attempts>>

(* Mutant of FastForward: the ref is updated with force.                   *)
Forced(ancestors) == TRUE

(* GitHub's rule for an update of the branch to a commit without force.    *)
FastForward(ancestors) == head \in ancestors

(* Mutant of UpdateRef: the answer of GitHub is not looked at.             *)
UpdateUnchecked ==
    /\ pc = "applying"
    /\ CanCommit
    /\ parent' = [c \in Commits \cup {NextCommit} |->
                    IF c \in Commits THEN parent[c] ELSE Pinned]
    /\ IF FastForward(Ancestry(Pinned) \cup {NextCommit})
         THEN head' = NextCommit /\ bots' = bots \cup {NextCommit}
         ELSE UNCHANGED <<head, bots>>
    /\ pc' = "updated"
    /\ UNCHANGED <<optIn, db, session, context, history, attempts>>

(* The new commit is a child of the pinned one, and the ref is moved to it *)
(* unless GitHub refuses.                                                  *)
UpdateRef ==
    /\ pc = "applying"
    /\ CanCommit
    /\ parent' = [c \in Commits \cup {NextCommit} |->
                    IF c \in Commits THEN parent[c] ELSE Pinned]
    /\ IF FastForward(Ancestry(Pinned) \cup {NextCommit})
         THEN /\ head' = NextCommit
              /\ bots' = bots \cup {NextCommit}
              /\ pc' \in {"updated", "failed"}    \* "failed": the response is lost
         ELSE /\ pc' = "failed"
              /\ UNCHANGED <<head, bots>>
    /\ UNCHANGED <<optIn, db, session, context, history, attempts>>

(* A call to GitHub fails before the ref update, or a ValueError is raised *)
(* (the branch name, an answer without a SHA).                             *)
GitHubFails ==
    /\ pc \in {"gated", "rechecked", "applying"}
    /\ pc' = "failed"
    /\ UNCHANGED <<github, optIn, db, session, context, history, attempts>>

RecordWrite ==
    /\ pc = "updated"
    /\ EndRun("succeeded", {Decision("ci_github_write", TRUE)}, session.patches)
    /\ UNCHANGED <<github, optIn, db, context, history, attempts>>

(* Mutant of RecordFailure: the run keeps the status it had.               *)
RecordNoFailure ==
    /\ pc = "failed"
    /\ EndRun("ready_to_push", {}, session.patches)
    /\ UNCHANGED <<github, optIn, db, context, history, attempts>>

(* Any other exception reaches process_claimed_run, which ends the run.    *)
RecordFailure ==
    /\ pc = "failed"
    /\ MayMove(session.status, "failed")
    /\ EndRun("failed", {}, session.patches)
    /\ UNCHANGED <<github, optIn, db, context, history, attempts>>

Commit ==
    /\ pc = "ending"
    /\ db' = session
    /\ pc' = "end"
    /\ UNCHANGED <<github, optIn, session, context, history, attempts>>

(* A crash or a lost lease: the transaction is rolled back.                *)
Rollback ==
    /\ pc \notin {"idle", "end"}
    /\ session' = db
    /\ context' = NoContext
    /\ lost' = bots
    /\ reads' = {}
    /\ pc' = "idle"
    /\ UNCHANGED <<github, optIn, db, attempts>>

----------------------------------------------------------------------------
Flow ==
    \/ Begin
    \/ RefuseWithoutBranch
    \/ Precheck
    \/ Gate
    \/ RecheckHead
    \/ ReadRef
    \/ UpdateRef
    \/ GitHubFails
    \/ RecordWrite
    \/ RecordFailure
    \/ Commit

Next == Flow \/ Rollback \/ HumanPush \/ HumanReset \/ OptInExpires

Spec == Init /\ [][Next]_vars

----------------------------------------------------------------------------
(* Properties                                                              *)

Writes == bots' # bots

(* The writer never discards work: whatever humans push or reset between   *)
(* its two reads of the ref and its update, the head it replaces is kept   *)
(* in the history of the new one.                                          *)
HumanWorkIsKept == [][Writes => head \in Ancestry(head)']_vars

(* PRD-034: nothing is written without the whole evidence in the context,  *)
(* for a repository outside the writer's allowlist, after a deny decision, *)
(* or in a transaction that has read another head than the pinned one,     *)
(* whatever happens between the first gate and the update.                 *)
WriteIsJustified ==
    [][Writes => /\ context.optIn = "live" /\ context.listed /\ context.sameRepository
                 /\ context.reproduced /\ context.validated /\ context.cleanDiff
                 /\ context.observed = Pinned
                 /\ reads = {Pinned}
                 /\ {Decision("ci_push_precheck", TRUE), Decision("ci_push_gate", TRUE)}
                      \subseteq session.decisions
                 /\ \A d \in session.decisions : d.allow]_vars

(* docs/implementation-plan.md, Milestone 8: a denied condition "produces  *)
(* no GitHub write": a run that ends succeeded has a commit on GitHub that *)
(* no rollback disowned, and one that ends refused or superseded has no    *)
(* commit there but those of transactions that were rolled back.           *)
StatusTellsTheWrite ==
    pc = "end" => /\ db.status = "succeeded" => bots # lost
                  /\ db.status \in {"refused", "superseded"} => bots = lost

(* docs/data-model.md, of superseded: "Terminal replacement by a newer     *)
(* human head SHA".                                                        *)
SupersededByHumans ==
    pc = "end" /\ db.status = "superseded" => context.observed \notin bots

(* docs/contracts.md: "Any failed predicate records a deny decision", of   *)
(* the predicates of the push gate and of its re-evaluation.               *)
EveryRefusalIsRecorded ==
    pc = "end" /\ context.branch /\ db.status \in {"refused", "superseded"} =>
        \E d \in db.decisions : ~d.allow

(* docs/implementation-plan.md, Milestone 8: "A changed head SHA ...       *)
(* produces no GitHub write".                                              *)
WritesOnPinnedHead == [][Writes => head = Pinned]_vars

----------------------------------------------------------------------------
(* The inductive invariant of CiPushProofs                                 *)

(* The flow has passed the first gate, or both.                            *)
Prechecked == {"prechecked", "gated", "rechecked", "applying", "updated", "failed"}
Gated      == Prechecked \ {"prechecked"}

(* The context the first gate has judged is the one the update relies on,  *)
(* and nothing has been denied since.                                      *)
ContextIsJudged ==
    pc \in Prechecked =>
        /\ context.optIn = "live" /\ context.sameRepository
        /\ context.reproduced /\ context.validated /\ context.cleanDiff
        /\ context.observed = Pinned
        /\ Decision("ci_push_precheck", TRUE) \in session.decisions
        /\ \A d \in session.decisions : d.allow

GateIsRecorded ==
    pc \in Gated => Decision("ci_push_gate", TRUE) \in session.decisions

(* What the writer has read on its way to the update.                      *)
ReadsArePinned ==
    /\ pc \in {"idle", "evaluating", "prechecked", "gated"} => reads = {}
    /\ pc \in {"rechecked", "applying"} => context.listed /\ reads = {Pinned}

(* Until the update, every commit of the writer is one it has lost.        *)
WriteIsKnown ==
    /\ pc \notin {"updated", "failed", "ending", "end"} => bots = lost
    /\ pc = "updated" => bots # lost

(* Nothing is committed before the end, and then what the session has.     *)
CommittedAtTheEnd ==
    /\ pc # "end" => db = [status |-> "leased", decisions |-> {}, patches |-> 0]
    /\ pc = "end" => db = session
    /\ pc \in {"idle", "evaluating"} => session.decisions = {}

EndIsRight ==
    pc \in {"ending", "end"} =>
        /\ session.status = "succeeded" => bots # lost
        /\ session.status \in {"refused", "superseded"} => bots = lost

IndInv ==
    /\ TypeOK
    /\ ContextIsJudged
    /\ GateIsRecorded
    /\ ReadsArePinned
    /\ WriteIsKnown
    /\ CommittedAtTheEnd
    /\ EndIsRight
============================================================================
