---------------------------- MODULE CiPushProofs ----------------------------
(***************************************************************************)
(* Proofs about CiPush, for every pinned commit and every bound on commits *)
(* and attempts: IndInv is inductive, and from it follow what the end of a *)
(* run says about the writes and what a write has been judged by.  That the *)
(* head a write replaces stays in the history is proved by induction over  *)
(* that history.                                                           *)
(***************************************************************************)
EXTENDS CiPush, Induction, FiniteSetTheorems

LEMMA CommitsAreNumbered ==
    ASSUME TypeOK
    PROVE  /\ Cardinality(Commits) \in Nat
           /\ Commits = 1..Cardinality(Commits)
           /\ NextCommit \in Nat /\ NextCommit \notin Commits
           /\ Commits \cup {NextCommit} = 1..NextCommit
           /\ Cardinality(1..NextCommit) = NextCommit
  <1>1. Cardinality(Commits) \in Nat /\ Commits = 1..Cardinality(Commits)
    BY DEF TypeOK, Commits
  <1>2. NextCommit \in Nat /\ NextCommit \notin Commits
    BY <1>1 DEF NextCommit
  <1>3. Commits \cup {NextCommit} = 1..NextCommit
    BY <1>1 DEF NextCommit
  <1>4. Cardinality(1..NextCommit) = NextCommit
    BY <1>2, FS_Interval
  <1> QED BY <1>1, <1>2, <1>3, <1>4

(* A commit on top of another keeps the numbers in order.                  *)
LEMMA NewCommit ==
    ASSUME TypeOK, NEW p \in Nat,
           parent' = [c \in Commits \cup {NextCommit} |-> IF c \in Commits THEN parent[c] ELSE p]
    PROVE  /\ Commits' = Commits \cup {NextCommit}
           /\ Cardinality(Commits') = Cardinality(Commits) + 1
           /\ parent' \in [1..Cardinality(Commits') -> Nat]
  <1>1. Commits' = 1..NextCommit
    BY CommitsAreNumbered DEF Commits
  <1>2. Cardinality(Commits') = NextCommit
    BY <1>1, CommitsAreNumbered
  <1>3. parent' \in [1..NextCommit -> Nat]
    BY CommitsAreNumbered DEF TypeOK
  <1> QED BY <1>1, <1>2, <1>3, CommitsAreNumbered DEF NextCommit

LEMMA AncestorsAreCommits == \A c : Ancestry(c) \subseteq Commits
  BY DEF Ancestry

----------------------------------------------------------------------------
(* The inductive invariant                                                 *)

LEMMA InitInvariant == ASSUME Init PROVE IndInv
  <1>1. Commits = 1..Pinned /\ Pinned \in Nat /\ Pinned > 0
    BY PinnedIsACommit DEF Init, Commits
  <1>2. Cardinality(Commits) = Pinned
    BY <1>1, FS_Interval
  <1>3. TypeOK
    <2>1. parent \in [1..Cardinality(Commits) -> Nat] /\ head \in Commits
      BY <1>1, <1>2 DEF Init
    <2>2. db \in Rows /\ session \in Rows
      BY DEF Init, Rows
    <2>3. context \in Contexts
      BY DEF Init, NoContext, Contexts
    <2> QED BY <1>1, <1>2, <2>1, <2>2, <2>3 DEF Init, TypeOK
  <1>4. ContextIsJudged /\ GateIsRecorded /\ ReadsArePinned /\ WriteIsKnown
        /\ CommittedAtTheEnd /\ EndIsRight
    BY DEF Init, ContextIsJudged, GateIsRecorded, ReadsArePinned, WriteIsKnown, CommittedAtTheEnd,
           EndIsRight, Prechecked, Gated, github, history
  <1> QED BY <1>3, <1>4 DEF IndInv

(* Humans and the clock move nothing of the flow.                          *)
LEMMA OutsideInvariant ==
    ASSUME IndInv, HumanPush \/ HumanReset \/ OptInExpires PROVE IndInv'
  <1> USE DEF IndInv
  <1>1. UNCHANGED <<db, session, pc, context, history, attempts>>
    BY DEF HumanPush, HumanReset, OptInExpires
  <1>2. TypeOK'
    <2>1. CASE HumanPush
      <3>1. /\ Commits' = Commits \cup {NextCommit}
            /\ Cardinality(Commits') = Cardinality(Commits) + 1
            /\ parent' \in [1..Cardinality(Commits') -> Nat]
        BY <2>1, NewCommit, CommitsAreNumbered DEF HumanPush, TypeOK
      <3>2. head' \in Commits' /\ bots' \subseteq Commits' /\ Cardinality(Commits') \in Nat
        BY <2>1, <3>1, CommitsAreNumbered DEF HumanPush, TypeOK
      <3> QED BY <2>1, <3>1, <3>2, <1>1 DEF HumanPush, TypeOK, history
    <2>2. CASE HumanReset
      <3>1. head' \in Commits /\ Commits' = Commits
        BY <2>2, AncestorsAreCommits DEF HumanReset, Commits
      <3> QED BY <2>2, <3>1, <1>1 DEF HumanReset, TypeOK, history
    <2>3. CASE OptInExpires
      BY <2>3 DEF OptInExpires, github, history, TypeOK, Commits
    <2> QED BY <2>1, <2>2, <2>3
  <1>3. bots' = bots
    BY DEF HumanPush, HumanReset, OptInExpires, github
  <1>4. ContextIsJudged' /\ GateIsRecorded' /\ ReadsArePinned' /\ WriteIsKnown'
        /\ CommittedAtTheEnd' /\ EndIsRight'
    BY <1>1, <1>3 DEF ContextIsJudged, GateIsRecorded, ReadsArePinned, WriteIsKnown,
                      CommittedAtTheEnd, EndIsRight, history
  <1> QED BY <1>2, <1>4

LEMMA BeginInvariant == ASSUME IndInv, Begin PROVE IndInv'
  <1> USE DEF IndInv, Begin
  <1>1. TypeOK'
    <2>1. session' \in Rows
      BY DEF TypeOK, Rows
    <2>2. context' \in Contexts
      <3>1. head \in Nat
        BY CommitsAreNumbered DEF TypeOK
      <3>2. PICK branch, listed, same, reproduced, validated, clean \in BOOLEAN :
              context' = [NoContext EXCEPT !.branch = branch, !.observed = head,
                            !.listed = listed, !.sameRepository = same, !.reproduced = reproduced,
                            !.validated = validated, !.cleanDiff = clean]
        OBVIOUS
      <3> QED BY <3>1, <3>2 DEF Contexts, NoContext
    <2> QED BY <2>1, <2>2 DEF TypeOK, github, history, Commits
  <1>2. ContextIsJudged' /\ GateIsRecorded' /\ ReadsArePinned' /\ WriteIsKnown'
        /\ CommittedAtTheEnd' /\ EndIsRight'
    BY DEF ContextIsJudged, GateIsRecorded, ReadsArePinned, WriteIsKnown, CommittedAtTheEnd,
           EndIsRight, Prechecked, Gated, github, history
  <1> QED BY <1>1, <1>2

(* What the first gate has allowed, it has judged.                         *)
LEMMA AllowedContext ==
    ASSUME NEW c \in Contexts, NEW now, Allows(GateReason(c, now))
    PROVE  /\ c.optIn = "live" /\ c.sameRepository /\ c.reproduced
           /\ c.validated /\ c.cleanDiff /\ c.observed = Pinned
  BY DEF Allows, GateReason, Contexts

Recorded == [policy : {"ci_push_precheck", "ci_push_gate", "ci_exact_sha_recheck",
                       "ci_github_write"},
             allow : BOOLEAN]

(* A run that ends in a status that fits what it did.                      *)
LEMMA EndInvariant ==
    ASSUME IndInv, pc # "end", UNCHANGED <<github, optIn, db, lost, attempts>>,
           context' \in Contexts, reads' \subseteq Commits,
           NEW status \in Terminal, NEW more, more \subseteq Recorded, NEW patches \in Nat,
           EndRun(status, more, patches),
           status = "succeeded" => bots # lost,
           status \in {"refused", "superseded"} => bots = lost
    PROVE  IndInv'
  <1> USE DEF IndInv
  <1>1. session' = [status |-> status, decisions |-> session.decisions \cup more,
                    patches |-> patches] /\ pc' = "ending"
    BY DEF EndRun, TypeOK, Rows
  <1>2. session' \in Rows
    BY <1>1 DEF Rows, TypeOK, Recorded
  <1>3. TypeOK'
    BY <1>1, <1>2 DEF TypeOK, github, Commits
  <1>4. EndIsRight'
    BY <1>1 DEF EndIsRight, github
  <1>5. ContextIsJudged' /\ GateIsRecorded' /\ ReadsArePinned' /\ WriteIsKnown' /\ CommittedAtTheEnd'
    BY <1>1 DEF ContextIsJudged, GateIsRecorded, ReadsArePinned, WriteIsKnown, CommittedAtTheEnd,
                Prechecked, Gated
  <1> QED BY <1>3, <1>4, <1>5

LEMMA RefuseWithoutBranchInvariant == ASSUME IndInv, RefuseWithoutBranch PROVE IndInv'
  <1>1. /\ context' \in Contexts /\ reads' \subseteq Commits /\ session.patches \in Nat
        /\ bots = lost /\ UNCHANGED <<github, optIn, db, lost, attempts>>
    BY DEF IndInv, TypeOK, Rows, RefuseWithoutBranch, WriteIsKnown, history
  <1> QED BY <1>1, EndInvariant DEF RefuseWithoutBranch, Terminal

LEMMA PrecheckInvariant == ASSUME IndInv, Precheck PROVE IndInv'
  <1> USE DEF IndInv
  <1> DEFINE c == [context EXCEPT !.optIn = optIn, !.attemptCount = session.patches]
             reason == GateReason(c, optIn)
             record == {Decision("ci_push_precheck", Allows(reason))}
  <1>1. c \in Contexts /\ session.patches \in Nat
    BY DEF TypeOK, Contexts, Rows
  <1>2. /\ pc = "evaluating" /\ context.branch /\ context' = c
        /\ UNCHANGED <<github, optIn, db, history, attempts>>
    BY DEF Precheck
  <1>3. record \subseteq Recorded
    BY DEF Decision, Allows, Recorded
  <1>4. bots = lost /\ reads = {} /\ session.decisions = {}
    BY <1>2 DEF WriteIsKnown, ReadsArePinned, CommittedAtTheEnd
  <1>5. CASE Allows(reason)
    <2>1. /\ pc' = "prechecked"
          /\ session' = [session EXCEPT !.status = "pushing",
                           !.decisions = @ \cup record, !.patches = @ + 1]
      BY <1>5 DEF Precheck
    <2>2. record = {Decision("ci_push_precheck", TRUE)}
      BY <1>5 DEF Allows
    <2> HIDE DEF reason, record
    <2>3. session' = [status |-> "pushing", decisions |-> record, patches |-> session.patches + 1]
      BY <1>4, <2>1 DEF TypeOK, Rows
    <2>4. session' \in Rows
      BY <1>1, <1>3, <2>3 DEF Rows, Recorded
    <2>5. TypeOK'
      BY <1>1, <1>2, <2>1, <2>4 DEF TypeOK, github, history, Commits
    <2>6. /\ Decision("ci_push_precheck", TRUE) \in session'.decisions
          /\ \A d \in session'.decisions : d.allow
      BY <2>2, <2>3 DEF Decision
    <2>7. ContextIsJudged'
      BY <1>1, <1>2, <1>5, <2>6, AllowedContext DEF ContextIsJudged, reason
    <2>8. GateIsRecorded' /\ ReadsArePinned' /\ WriteIsKnown' /\ CommittedAtTheEnd' /\ EndIsRight'
      BY <1>2, <1>4, <2>1 DEF GateIsRecorded, ReadsArePinned, WriteIsKnown, CommittedAtTheEnd,
                             EndIsRight, Gated, Prechecked, github, history
    <2> QED BY <2>5, <2>7, <2>8
  <1>6. CASE ~Allows(reason)
    <2>1. PICK status \in {"superseded", "refused"} : EndRun(status, record, session.patches + 1)
      BY <1>6 DEF Precheck
    <2> HIDE DEF reason
    <2>2. /\ context' \in Contexts /\ status \in Terminal /\ session.patches + 1 \in Nat
          /\ reads' \subseteq Commits /\ UNCHANGED <<github, optIn, db, lost, attempts>>
      BY <1>1, <1>2 DEF Terminal, history, TypeOK
    <2> HIDE DEF record, c
    <2> QED BY <1>2, <1>3, <1>4, <2>1, <2>2, EndInvariant
  <1> QED BY <1>5, <1>6

LEMMA GateInvariant == ASSUME IndInv, Gate PROVE IndInv'
  <1> USE DEF IndInv
  <1> DEFINE reason == GateReason(context, optIn)
             record == {Decision("ci_push_gate", Allows(reason))}
  <1>1. /\ pc = "prechecked" /\ bots = lost /\ reads = {}
        /\ UNCHANGED <<github, optIn, db, context, history, attempts>>
    BY DEF Gate, WriteIsKnown, ReadsArePinned
  <1>2. record \subseteq Recorded /\ session.patches \in Nat /\ context \in Contexts
    BY DEF Decision, Allows, Recorded, TypeOK, Rows
  <1>3. CASE Allows(reason)
    <2>1. pc' = "gated" /\ session' = [session EXCEPT !.decisions = @ \cup record]
      BY <1>3 DEF Gate
    <2>2. record = {Decision("ci_push_gate", TRUE)}
      BY <1>3 DEF Allows
    <2> HIDE DEF record
    <2>3. session' = [status |-> session.status, decisions |-> session.decisions \cup record,
                      patches |-> session.patches]
      BY <2>1 DEF TypeOK, Rows
    <2>4. session' \in Rows
      BY <1>2, <2>3 DEF Rows, TypeOK, Recorded
    <2>5. TypeOK'
      BY <1>1, <2>1, <2>4 DEF TypeOK, github, history, Commits
    <2>6. ContextIsJudged' /\ GateIsRecorded'
      <3>1. \A d \in record : d.allow
        BY <2>2 DEF Decision
      <3> QED BY <1>1, <2>1, <2>2, <2>3, <3>1 DEF ContextIsJudged, GateIsRecorded, Prechecked, Gated
    <2>7. ReadsArePinned' /\ WriteIsKnown' /\ CommittedAtTheEnd' /\ EndIsRight'
      BY <1>1, <2>1 DEF ReadsArePinned, WriteIsKnown, CommittedAtTheEnd, EndIsRight, github, history
    <2> QED BY <2>5, <2>6, <2>7
  <1>4. CASE ~Allows(reason)
    <2>1. EndRun("refused", record, session.patches)
      BY <1>4 DEF Gate
    <2> HIDE DEF record
    <2>2. reads' \subseteq Commits /\ UNCHANGED <<github, optIn, db, lost, attempts>>
      BY <1>1 DEF history, TypeOK
    <2> QED BY <1>1, <1>2, <2>1, <2>2, EndInvariant DEF Terminal
  <1> QED BY <1>3, <1>4

(* A step on the way to the update: the flow's place moves, and what the   *)
(* writer has read.                                                        *)
LEMMA MovesOn ==
    ASSUME IndInv, pc \in {"gated", "rechecked", "applying"},
           pc' \in {"rechecked", "applying", "failed"},
           pc' # "failed" => context.listed /\ reads' = {Pinned},
           reads' \subseteq Commits,
           UNCHANGED <<github, optIn, db, session, context, lost, attempts>>
    PROVE  IndInv'
  <1> USE DEF IndInv
  <1>1. TypeOK'
    BY DEF TypeOK, github, Commits
  <1>2. ContextIsJudged' /\ GateIsRecorded'
    BY DEF ContextIsJudged, GateIsRecorded, Prechecked, Gated
  <1>3. ReadsArePinned' /\ WriteIsKnown' /\ CommittedAtTheEnd' /\ EndIsRight'
    BY DEF ReadsArePinned, WriteIsKnown, CommittedAtTheEnd, EndIsRight, Gated, Prechecked, github
  <1> QED BY <1>1, <1>2, <1>3

LEMMA FailsInvariant == ASSUME IndInv, GitHubFails PROVE IndInv'
  <1>1. reads' \subseteq Commits /\ UNCHANGED <<github, optIn, db, session, context, lost, attempts>>
    BY DEF IndInv, TypeOK, GitHubFails, history
  <1> QED BY <1>1, MovesOn DEF GitHubFails

(* Both reads of the ref go on only from the pinned head, in a repository  *)
(* the writer may write.                                                   *)
LEMMA RecheckInvariant == ASSUME IndInv, RecheckHead \/ ReadRef PROVE IndInv'
  <1>1. /\ pc \in {"gated", "rechecked"} /\ bots = lost /\ reads \subseteq {Pinned}
        /\ context \in Contexts /\ session.patches \in Nat
        /\ reads' = reads \cup Read
        /\ UNCHANGED <<github, optIn, db, context, lost, attempts>>
    BY DEF IndInv, TypeOK, Rows, WriteIsKnown, ReadsArePinned, RecheckHead, ReadRef
  <1>2. reads' \subseteq Commits
    BY <1>1 DEF IndInv, TypeOK, Read
  <1>3. CASE context.listed /\ head = Pinned
    <2>1. pc' \in {"rechecked", "applying"} /\ UNCHANGED session
      BY <1>3 DEF RecheckHead, ReadRef
    <2>2. reads' = {Pinned}
      BY <1>1, <1>3 DEF Read
    <2> QED BY <1>1, <1>2, <1>3, <2>1, <2>2, MovesOn
  <1>4. CASE ~(context.listed /\ head = Pinned)
    <2>1. Decision("ci_exact_sha_recheck", FALSE) \in Recorded
      BY DEF Decision, Recorded
    <2>2. PICK more \in SUBSET Recorded : EndRun("refused", more, session.patches)
      BY <1>4, <2>1 DEF RecheckHead, ReadRef
    <2> QED BY <1>1, <1>2, <2>1, <2>2, EndInvariant DEF Terminal
  <1> QED BY <1>3, <1>4

LEMMA UpdateRefInvariant == ASSUME IndInv, UpdateRef PROVE IndInv'
  <1> USE DEF IndInv
  <1>1. Pinned \in Nat
    BY PinnedIsACommit
  <1>2. /\ Commits' = Commits \cup {NextCommit}
        /\ Cardinality(Commits') = Cardinality(Commits) + 1
        /\ parent' \in [1..Cardinality(Commits') -> Nat]
    BY <1>1, NewCommit DEF UpdateRef
  <1>3. head' \in Commits' /\ bots' \subseteq Commits' /\ Cardinality(Commits') \in Nat
    BY <1>2, CommitsAreNumbered DEF UpdateRef, TypeOK
  <1>4. /\ pc = "applying" /\ bots = lost
        /\ UNCHANGED <<optIn, db, session, context, lost, reads, attempts>>
        /\ \/ pc' \in {"updated", "failed"} /\ bots' = bots \cup {NextCommit}
           \/ pc' = "failed" /\ bots' = bots
    BY DEF UpdateRef, WriteIsKnown, history
  <1>5. TypeOK'
    BY <1>2, <1>3, <1>4 DEF TypeOK
  <1>6. pc' = "updated" => bots' # lost'
    BY <1>4, CommitsAreNumbered DEF TypeOK
  <1>7. ContextIsJudged' /\ GateIsRecorded'
    BY <1>4 DEF ContextIsJudged, GateIsRecorded, Prechecked, Gated
  <1>8. ReadsArePinned' /\ WriteIsKnown' /\ CommittedAtTheEnd' /\ EndIsRight'
    BY <1>4, <1>6 DEF ReadsArePinned, WriteIsKnown, CommittedAtTheEnd, EndIsRight
  <1> QED BY <1>5, <1>7, <1>8

(* The end of a write that was answered, and of one that was not.          *)
LEMMA RecordInvariant == ASSUME IndInv, RecordWrite \/ RecordFailure PROVE IndInv'
  <1>1. /\ pc \in {"updated", "failed"} /\ context \in Contexts /\ session.patches \in Nat
        /\ reads' \subseteq Commits /\ UNCHANGED <<github, optIn, db, context, lost, attempts>>
    BY DEF IndInv, TypeOK, Rows, RecordWrite, RecordFailure, history
  <1>2. CASE RecordWrite
    <2> DEFINE record == {Decision("ci_github_write", TRUE)}
    <2>1. EndRun("succeeded", record, session.patches) /\ bots # lost
      BY <1>2 DEF RecordWrite, IndInv, WriteIsKnown
    <2>2. record \subseteq Recorded
      BY DEF Decision, Recorded
    <2> HIDE DEF record
    <2> QED BY <1>1, <2>1, <2>2, EndInvariant DEF Terminal
  <1>3. CASE RecordFailure
    <2>1. EndRun("failed", {}, session.patches)
      BY <1>3 DEF RecordFailure
    <2> QED BY <1>1, <2>1, EndInvariant DEF Terminal
  <1> QED BY <1>2, <1>3

LEMMA CommitInvariant == ASSUME IndInv, Commit PROVE IndInv'
  <1> USE DEF IndInv, Commit
  <1>1. TypeOK'
    BY DEF TypeOK, github, history, Commits
  <1>2. ContextIsJudged' /\ GateIsRecorded' /\ ReadsArePinned' /\ WriteIsKnown'
        /\ CommittedAtTheEnd' /\ EndIsRight'
    BY DEF ContextIsJudged, GateIsRecorded, ReadsArePinned, WriteIsKnown, CommittedAtTheEnd,
           EndIsRight, Prechecked, Gated, github, history
  <1> QED BY <1>1, <1>2

LEMMA RollbackInvariant == ASSUME IndInv, Rollback PROVE IndInv'
  <1> USE DEF IndInv, Rollback
  <1>1. TypeOK'
    BY DEF TypeOK, github, history, Commits, Contexts, NoContext
  <1>2. ContextIsJudged' /\ GateIsRecorded' /\ ReadsArePinned' /\ WriteIsKnown'
        /\ CommittedAtTheEnd' /\ EndIsRight'
    BY DEF ContextIsJudged, GateIsRecorded, ReadsArePinned, WriteIsKnown, CommittedAtTheEnd,
           EndIsRight, Prechecked, Gated, github, history
  <1> QED BY <1>1, <1>2

LEMMA NextInvariant == ASSUME IndInv, [Next]_vars PROVE IndInv'
  <1>1. CASE Flow
    BY <1>1, BeginInvariant, RefuseWithoutBranchInvariant, PrecheckInvariant, GateInvariant,
       RecheckInvariant, FailsInvariant, UpdateRefInvariant, RecordInvariant, CommitInvariant
       DEF Flow
  <1>2. CASE UNCHANGED vars
    BY <1>2 DEF vars, IndInv, TypeOK, Commits, ContextIsJudged, GateIsRecorded, ReadsArePinned,
                WriteIsKnown, CommittedAtTheEnd, EndIsRight
  <1> QED BY <1>1, <1>2, RollbackInvariant, OutsideInvariant DEF Next

(* The inductive invariant ties the place of the flow to its context, its  *)
(* decisions, the write and what is committed.                             *)
THEOREM PushInvariant == Spec => []IndInv
  <1>1. Init => IndInv                  BY InitInvariant
  <1>2. IndInv /\ [Next]_vars => IndInv' BY NextInvariant
  <1> QED BY <1>1, <1>2, PTL DEF Spec

(* Every variable of the flow and of GitHub keeps its type.                *)
THEOREM PushTypes == Spec => []TypeOK
  <1>1. IndInv => TypeOK BY DEF IndInv
  <1> QED BY <1>1, PushInvariant, PTL

(* docs/implementation-plan.md, Milestone 8: a run that ends succeeded has *)
(* a commit on GitHub that no rollback disowned; one that ends refused or  *)
(* superseded has none there but those of transactions rolled back.        *)
THEOREM StatusIsTrue == Spec => []StatusTellsTheWrite
  <1>1. IndInv => StatusTellsTheWrite
    BY DEF IndInv, CommittedAtTheEnd, EndIsRight, StatusTellsTheWrite
  <1> QED BY <1>1, PushInvariant, PTL

----------------------------------------------------------------------------
(* Steps that write                                                        *)

LEMMA OnlyTheUpdateWrites == ASSUME [Next]_vars, Writes PROVE UpdateRef
  BY DEF Next, Flow, vars, Writes, github, HumanPush, HumanReset, OptInExpires, Begin,
         RefuseWithoutBranch, Precheck, Gate, RecheckHead, ReadRef, GitHubFails, RecordWrite,
         RecordFailure, Commit, Rollback

(* PRD-034: whatever happens between the first gate and the update, what   *)
(* is written was allowed by both gates on the whole evidence and denied   *)
(* by none, in a repository of the writer's allowlist, and each read of    *)
(* the ref in this transaction found the pinned head.                      *)
THEOREM WritesAreJustified == Spec => WriteIsJustified
  <1>1. IndInv /\ [Next]_vars =>
          [Writes => /\ context.optIn = "live" /\ context.listed /\ context.sameRepository
                     /\ context.reproduced /\ context.validated /\ context.cleanDiff
                     /\ context.observed = Pinned
                     /\ reads = {Pinned}
                     /\ {Decision("ci_push_precheck", TRUE), Decision("ci_push_gate", TRUE)}
                          \subseteq session.decisions
                     /\ \A d \in session.decisions : d.allow]_vars
    BY OnlyTheUpdateWrites DEF UpdateRef, IndInv, ContextIsJudged, GateIsRecorded,
                               ReadsArePinned, Prechecked, Gated
  <1> QED BY <1>1, PushInvariant, PTL DEF Spec, WriteIsJustified

----------------------------------------------------------------------------
(* The history of the branch                                               *)

(* f takes n to the commits that c descends from in at most n steps, and c.*)
IsReach(f, c, parents, k) ==
    f = [n \in 0..k |-> IF n = 0 THEN {c}
                        ELSE f[n - 1] \cup {parents[d] : d \in f[n - 1] \cap DOMAIN parents}]

(* There is such a function, of which the CHOOSE of Ancestry takes one.     *)
LEMMA ReachIsThere ==
    ASSUME NEW c, NEW parents, NEW k \in Nat PROVE \E f : IsReach(f, c, parents, k)
  <1> DEFINE S == {n \in Nat : \E f : IsReach(f, c, parents, n)}
             Step(R) == R \cup {parents[d] : d \in R \cap DOMAIN parents}
  <1>1. 0 \in S
    <2>1. IsReach([n \in 0..0 |-> {c}], c, parents, 0)
      BY DEF IsReach
    <2> QED BY <2>1
  <1>2. ASSUME NEW n \in S \cap Nat PROVE n + 1 \in S
    <2>1. PICK f : IsReach(f, c, parents, n)
      BY <1>2
    <2> DEFINE g == [m \in 0..(n + 1) |-> IF m = n + 1 THEN Step(f[n]) ELSE f[m]]
    <2>2. ASSUME NEW m \in 0..(n + 1)
          PROVE  g[m] = IF m = 0 THEN {c} ELSE Step(g[m - 1])
      <3>1. CASE m = n + 1
        BY <3>1
      <3>2. CASE m # n + 1 /\ m # 0
        <4>1. m \in 0..n /\ m - 1 \in 0..n /\ m - 1 # n + 1 /\ m - 1 \in 0..(n + 1)
          BY <3>2
        <4>2. f[m] = Step(f[m - 1])
          BY <2>1, <3>2, <4>1 DEF IsReach
        <4> QED BY <3>2, <4>1, <4>2
      <3>3. CASE m = 0
        BY <2>1, <3>3 DEF IsReach
      <3> QED BY <3>1, <3>2, <3>3
    <2>3. g = [m \in 0..(n + 1) |-> g[m]]
      OBVIOUS
    <2> HIDE DEF g
    <2>4. IsReach(g, c, parents, n + 1)
      BY <2>2, <2>3 DEF IsReach
    <2> QED BY <2>4
  <1> HIDE DEF S
  <1>3. Nat \subseteq S
    BY <1>1, <1>2, NatSetInduction
  <1> QED BY <1>3 DEF S

LEMMA AncestryIsReached ==
    ASSUME NEW c, Cardinality(Commits) \in Nat
    PROVE  \E f : /\ IsReach(f, c, parent, Cardinality(Commits))
                  /\ Ancestry(c) = f[Cardinality(Commits)] \cap Commits
  <1> DEFINE f == CHOOSE g : IsReach(g, c, parent, Cardinality(Commits))
  <1>1. IsReach(f, c, parent, Cardinality(Commits))
    BY ReachIsThere
  <1>2. Ancestry(c) = f[Cardinality(Commits)] \cap Commits
    BY DEF Ancestry, IsReach, Commits
  <1> QED BY <1>1, <1>2

(* With a commit on top of c, what c descends from is reached one step     *)
(* later.                                                                  *)
LEMMA ReachGrows ==
    ASSUME NEW old, NEW new, NEW c, NEW top, NEW k \in Nat, NEW f, NEW g,
           IsReach(f, c, old, k), IsReach(g, top, new, k + 1),
           DOMAIN old \subseteq DOMAIN new, \A d \in DOMAIN old : new[d] = old[d],
           top \in DOMAIN new, new[top] = c
    PROVE  f[k] \subseteq g[k + 1]
  <1> DEFINE S == {n \in Nat : n <= k => f[n] \subseteq g[n + 1]}
  <1>1. 0 \in S
    <2>1. f[0] = {c} /\ g[0] = {top}
      BY DEF IsReach
    <2>2. g[1] = g[0] \cup {new[d] : d \in g[0] \cap DOMAIN new}
      BY DEF IsReach
    <2> QED BY <2>1, <2>2
  <1>2. ASSUME NEW n \in S \cap Nat PROVE n + 1 \in S
    <2>1. SUFFICES ASSUME n + 1 <= k PROVE f[n + 1] \subseteq g[n + 2]
      OBVIOUS
    <2>2. f[n] \subseteq g[n + 1]
      BY <1>2, <2>1
    <2>3. f[n + 1] = f[n] \cup {old[d] : d \in f[n] \cap DOMAIN old}
      BY <2>1 DEF IsReach
    <2>4. g[n + 2] = g[n + 1] \cup {new[d] : d \in g[n + 1] \cap DOMAIN new}
      BY <2>1 DEF IsReach
    <2> QED BY <2>2, <2>3, <2>4
  <1> HIDE DEF S
  <1>3. Nat \subseteq S
    BY <1>1, <1>2, NatSetInduction
  <1> QED BY <1>3 DEF S

(* The update replaces a head that the pinned commit descends from.        *)
LEMMA HistoryStep ==
    ASSUME IndInv, UpdateRef, Writes PROVE head \in Ancestry(head)'
  <1> DEFINE k == Cardinality(Commits)
  <1>1. TypeOK /\ Pinned \in Nat
    BY PinnedIsACommit DEF IndInv
  <1>2. /\ Commits' = Commits \cup {NextCommit} /\ Cardinality(Commits') = k + 1
        /\ k \in Nat /\ NextCommit \notin Commits
    BY <1>1, NewCommit, CommitsAreNumbered DEF UpdateRef
  <1>3. head' = NextCommit /\ head \in Ancestry(Pinned) /\ head \in Commits
    BY <1>1, <1>2 DEF UpdateRef, FastForward, Writes, TypeOK
  <1>4. PICK f : IsReach(f, Pinned, parent, k) /\ Ancestry(Pinned) = f[k] \cap Commits
    BY <1>2, AncestryIsReached
  <1>5. PICK g : IsReach(g, NextCommit, parent', k + 1)
                 /\ Ancestry(head)' = g[k + 1] \cap Commits'
    <2>1. \E g : /\ IsReach(g, head', parent', Cardinality(Commits'))
                 /\ Ancestry(head)' = g[Cardinality(Commits')] \cap Commits'
      <3> DEFINE g == CHOOSE h : IsReach(h, head', parent', Cardinality(Commits'))
      <3>1. IsReach(g, head', parent', Cardinality(Commits'))
        <4>1. Cardinality(Commits') \in Nat
          BY <1>2
        <4>2. \E h : IsReach(h, head', parent', Cardinality(Commits'))
          BY <4>1, ReachIsThere
        <4> QED BY <4>2
      <3>2. Ancestry(head)' = g[Cardinality(Commits')] \cap Commits'
        BY DEF Ancestry, IsReach, Commits
      <3> QED BY <3>1, <3>2
    <2> QED BY <1>2, <1>3, <2>1
  <1>6. /\ \A d \in Commits : parent'[d] = parent[d]
        /\ parent'[NextCommit] = Pinned /\ NextCommit \in DOMAIN parent'
        /\ DOMAIN parent \subseteq DOMAIN parent'
    BY <1>2 DEF UpdateRef, Commits
  <1> HIDE DEF k
  <1>7. f[k] \subseteq g[k + 1]
    BY <1>2, <1>4, <1>5, <1>6, ReachGrows DEF Commits
  <1> QED BY <1>2, <1>3, <1>4, <1>5, <1>7

(* The writer never discards work, whatever humans push or reset between   *)
(* its reads of the ref and its update, in a history of any length.        *)
THEOREM HumanWorkSurvives == Spec => HumanWorkIsKept
  <1>1. IndInv /\ [Next]_vars => [Writes => head \in Ancestry(head)']_vars
    BY OnlyTheUpdateWrites, HistoryStep
  <1> QED BY <1>1, PushInvariant, PTL DEF Spec, HumanWorkIsKept
=============================================================================
