---------------------------- MODULE EvidenceRead ----------------------------
(***************************************************************************)
(* How a run of agentic_lab gets its evidence (runs/orchestrator.py,       *)
(* _snapshot_tools): the capability gateway decides on each read and       *)
(* records the decision (gateway/capability.py), the GitHub reader fetches *)
(* archive, pull request, files, check run, annotations and logs with one  *)
(* request each or page by page (gateway/github_read.py), and the tools    *)
(* then cite what was read.  The branch may be pushed to between any two   *)
(* requests.                                                               *)
(*                                                                         *)
(* Files and annotations are model values; patches, redaction and the      *)
(* names of things are left out.  GitHub is external.                      *)
(***************************************************************************)
EXTENDS SnapshotRead, FiniteSets

CONSTANTS
    Sha,           \* heads of the pull request
    Request,       \* the runs that may ask
    FilesOf,       \* the files changed by the pull request, by head
    ArchiveOf,     \* the members of a commit's archive
    Symbols,       \* the places of the symbols in it
    Annotations,   \* the annotations of the check run
    PerPage,       \* items in a page of GitHub's answer
    Maximum,       \* items that are kept
    MaxPushes,     \* bound: pushes to the branch
    MaxTools       \* bound: excerpts that tools return

ASSUME PagesFill == PerPage \in Nat \ {0} /\ Maximum \in Nat \ {0}
ASSUME ReadBounds == MaxPushes \in Nat /\ MaxTools \in Nat

(* What is kept is a number of full pages: 300 items of 100 to a page.     *)
ASSUME FullPages == \E pages \in 1..Maximum : Maximum = pages * PerPage

ASSUME AnswersAreSequences ==
    /\ \A s \in Sha : IsSequence(FilesOf[s])
    /\ IsSequence(Annotations)
ASSUME ArchivesAreText ==
    \A s \in Sha : \A p \in DOMAIN ArchiveOf[s] : IsText(ArchiveOf[s][p].lines)
ASSUME RequestsPinHeads == \A r \in Request : r.pinned \in Sha

(* The parser numbers lines from 1.                                        *)
ASSUME SymbolsArePlaces ==
    \A s \in Symbols : s.start \in Nat \ {0} /\ s.end \in Nat /\ s.start <= s.end

VARIABLES
    request,       \* what the run asks for
    head,          \* of the pull request
    pushes,
    pc,            \* the next step of _snapshot_tools
    audit,         \* the decisions that were recorded
    page, items,   \* of _paginated
    archive,       \* the snapshot that was read
    diff,          \* the diff evidence
    check,         \* the check evidence
    located,       \* the excerpts that tools have returned
    citations      \* the citations of the artifact that were kept

fetched == <<page, items, archive, diff, check>>
vars == <<request, head, pushes, pc, audit, fetched, located, citations>>

Stopped == {"denied", "refused", "failed"}
Stage == {"snapshot", "archive", "diff", "pull", "files", "check", "checkRun",
          "annotations", "logs", "tools"} \cup Stopped

None == [files |-> <<>>, truncated |-> FALSE]

Reason == {"allow", "role", "repository", "mutable", "identity"}

(* The loop over the pages makes no more requests than Maximum needs,      *)
(* whatever GitHub answers, also while the branch moves under it.          *)
TypeOK ==
    /\ request \in Request
    /\ head \in Sha /\ pushes \in 0..MaxPushes
    /\ pc \in Stage
    /\ audit \in Seq({"snapshot", "diff", "check"} \X Reason)
    /\ page \in 1..(Maximum \div PerPage + 1) /\ Len(items) <= Maximum
    /\ diff.truncated \in BOOLEAN /\ Len(diff.files) <= Maximum
    /\ check.truncated \in BOOLEAN /\ Len(check.files) <= Maximum
    /\ Cardinality(located) <= MaxTools

Init ==
    /\ request \in Request
    /\ head \in Sha
    /\ pushes = 0
    /\ pc = "snapshot"
    /\ audit = <<>>
    /\ page = 1 /\ items = <<>>
    /\ archive = <<>>
    /\ diff = None /\ check = None
    /\ located = {} /\ citations = {}

----------------------------------------------------------------------------
(* CapabilityGateway                                                       *)

Readers(fetch) ==
    CASE fetch = "snapshot" -> {"scout", "assessor", "ci"}
      [] fetch = "diff"     -> {"assessor", "ci"}
      [] fetch = "check"    -> {"ci"}

(* The first check that fails; identity is the pull or check-run number,   *)
(* and request.identified the reads whose number is valid.                 *)
Decision(fetch) ==
    IF request.role \notin Readers(fetch) THEN "role"
    ELSE IF ~request.listed THEN "repository"
    ELSE IF ~request.immutable THEN "mutable"
    ELSE IF fetch # "snapshot" /\ fetch \notin request.identified THEN "identity"
    ELSE "allow"

FirstRequest(fetch) ==
    CASE fetch = "snapshot" -> "archive"
      [] fetch = "diff"     -> "pull"
      [] fetch = "check"    -> "checkRun"

(* What the run reads: a scout the snapshot only, the others through       *)
(* _snapshot_tools.                                                        *)
WantsDiff  == request.role # "scout" /\ request.pull
WantsCheck == request.role = "ci" /\ request.check

Fetches ==
    IF WantsDiff
      THEN IF WantsCheck THEN <<"snapshot", "diff", "check">> ELSE <<"snapshot", "diff">>
      ELSE IF WantsCheck THEN <<"snapshot", "check">> ELSE <<"snapshot">>

AfterDiff     == IF WantsCheck THEN "check" ELSE "tools"
AfterSnapshot == IF WantsDiff THEN "diff" ELSE AfterDiff

(* The run ends without tools, and what was read goes with the locals.     *)
Stop(how) ==
    /\ pc' = how
    /\ page' = 1 /\ items' = <<>>
    /\ archive' = <<>> /\ diff' = None /\ check' = None

(* Mutant of Authorize: an invalid pull or check-run number is refused     *)
(* without a record.                                                       *)
AuthorizeQuietly(fetch) ==
    /\ pc = fetch
    /\ audit' = IF Decision(fetch) = "identity" THEN audit
                ELSE Append(audit, <<fetch, Decision(fetch)>>)
    /\ IF Decision(fetch) = "allow" THEN pc' = FirstRequest(fetch) /\ UNCHANGED fetched
                                    ELSE Stop("denied")
    /\ UNCHANGED <<request, head, pushes, located, citations>>

(* A decision is recorded before the read, and PermissionError refuses the *)
(* run: it is denied.                                                      *)
Authorize(fetch) ==
    /\ pc = fetch
    /\ audit' = Append(audit, <<fetch, Decision(fetch)>>)
    /\ IF Decision(fetch) = "allow" THEN pc' = FirstRequest(fetch) /\ UNCHANGED fetched
                                    ELSE Stop("denied")
    /\ UNCHANGED <<request, head, pushes, located, citations>>

----------------------------------------------------------------------------
(* GitHubAppArchiveReader                                                  *)

(* The archive is that of the pinned commit.  Links, binary files and      *)
(* files over the limit are left out of it.                                *)
ReadArchive ==
    /\ pc = "archive"
    /\ LET readable == {p \in DOMAIN ArchiveOf[request.pinned] :
                          ArchiveOf[request.pinned][p].text}
       IN  archive' = [p \in readable |-> ArchiveOf[request.pinned][p].lines]
    /\ pc' = AfterSnapshot
    /\ UNCHANGED <<request, head, pushes, audit, page, items, diff, check, located, citations>>

(* The head is compared with the pinned SHA here, and never again.         *)
ReadPull ==
    /\ pc = "pull"
    /\ IF head = request.pinned
         THEN pc' = "files" /\ page' = 1 /\ items' = <<>> /\ UNCHANGED <<archive, diff, check>>
         ELSE Stop("refused")
    /\ UNCHANGED <<request, head, pushes, audit, located, citations>>

ReadCheckRun ==
    /\ pc = "checkRun"
    /\ IF request.checked = request.pinned
         THEN /\ pc' = "annotations" /\ page' = 1 /\ items' = <<>>
              /\ UNCHANGED <<archive, diff, check>>
         ELSE Stop("refused")
    /\ UNCHANGED <<request, head, pushes, audit, located, citations>>

(* GitHub's answer to ?per_page=size&page=number.                          *)
PageOf(source, size, number) ==
    SubSeq(source, (number - 1) * size + 1, Min({number * size, Len(source)}))

(* Mutant of Remaining: one item more is kept.                             *)
OneMoreRemaining == Maximum + 1 - Len(items)

Remaining == Maximum - Len(items)

Extended(payload) == items \o SubSeq(payload, 1, Min({Len(payload), Remaining}))

LastPage(payload) == Len(payload) < PerPage

(* The loop returns: there is no page behind this one, or no room for it.  *)
Returns(payload) == LastPage(payload) \/ Len(payload) > Remaining

(* One turn of the loop in _paginated that is not its last.                *)
NextPage(source) ==
    /\ Remaining > 0
    /\ ~Returns(PageOf(source, PerPage, page))
    /\ items' = Extended(PageOf(source, PerPage, page))
    /\ page'  = page + 1
    /\ UNCHANGED <<pc, archive, diff, check>>

(* Mutant of MoreFollow: nobody asks.                                      *)
NothingFollows(source) == FALSE

(* The request behind the loop asks for one item per page and for the next *)
(* page number, and takes one for a sign that there are more than Maximum. *)
MoreFollow(source) == PageOf(source, 1, page) # <<>>

(* What _paginated returns now, if it does.                                *)
Paginated(source) ==
    IF Remaining = 0 THEN {[files |-> items, truncated |-> MoreFollow(source)]}
    ELSE {[files |-> Extended(payload), truncated |-> ~LastPage(payload)] :
            payload \in {p \in {PageOf(source, PerPage, page)} : Returns(p)}}

(* The diff evidence; its schema wants one file at least.                  *)
DiffDone(read) ==
    /\ IF read.files = <<>>
         THEN Stop("refused")
         ELSE pc' = AfterDiff /\ diff' = read /\ UNCHANGED <<page, items, archive, check>>

(* The files are those of the head the branch has now.                     *)
ReadFiles ==
    /\ pc = "files"
    /\ \/ NextPage(FilesOf[head])
       \/ \E read \in Paginated(FilesOf[head]) : DiffDone(read)
    /\ UNCHANGED <<request, head, pushes, audit, located, citations>>

CheckDone(read) ==
    /\ check' = read
    /\ pc' = "logs"
    /\ UNCHANGED <<page, items, archive, diff>>

ReadAnnotations ==
    /\ pc = "annotations"
    /\ \/ NextPage(Annotations)
       \/ \E read \in Paginated(Annotations) : CheckDone(read)
    /\ UNCHANGED <<request, head, pushes, audit, located, citations>>

(* Logs that GitHub refuses are named as unavailable: the run goes on.     *)
ReadLogs ==
    /\ pc = "logs"
    /\ pc' = "tools"
    /\ UNCHANGED <<request, head, pushes, audit, fetched, located, citations>>

(* A request fails, or its answer is refused by a check of its shape.      *)
RequestFails ==
    /\ pc \in {"archive", "pull", "files", "checkRun", "annotations", "logs"}
    /\ \E how \in {"failed", "refused"} : Stop(how)
    /\ UNCHANGED <<request, head, pushes, audit, located, citations>>

Push ==
    /\ pushes < MaxPushes
    /\ pushes' = pushes + 1
    /\ head' \in Sha \ {head}
    /\ UNCHANGED <<request, pc, audit, fetched, located, citations>>

----------------------------------------------------------------------------
(* The tools and the artifact                                              *)

Excerpts ==
    {[path |-> r.path, start |-> r.start, end |-> r.end, text |-> r.text] : r \in Reads(archive)}
    \cup TextMatches(archive) \cup StructureMatches(archive, Symbols)

UseTool ==
    /\ pc = "tools"
    /\ Cardinality(located) < MaxTools
    /\ \E l \in Excerpts : located' = located \cup {l}
    /\ UNCHANGED <<request, head, pushes, pc, audit, fetched, citations>>

(* The model cites an excerpt it was given, at a place that may be wrong.  *)
Cite ==
    /\ pc = "tools"
    /\ \E l \in located, claimed \in {Place(m) : m \in Excerpts} :
         citations' = {[place |-> c, text |-> l.text] :
                         c \in CanonicalLocator(located, claimed, l.text)}
    /\ UNCHANGED <<request, head, pushes, pc, audit, fetched, located>>

----------------------------------------------------------------------------
Next ==
    \/ \E fetch \in {"snapshot", "diff", "check"} : Authorize(fetch)
    \/ ReadArchive
    \/ ReadPull
    \/ ReadFiles
    \/ ReadCheckRun
    \/ ReadAnnotations
    \/ ReadLogs
    \/ RequestFails
    \/ Push
    \/ UseTool
    \/ Cite

Spec == Init /\ [][Next]_vars

----------------------------------------------------------------------------
(* Properties                                                              *)

Allowed(fetch) == <<fetch, "allow">> \in Range(audit)

Steps(fetch) ==
    CASE fetch = "snapshot" -> {"archive"}
      [] fetch = "diff"     -> {"pull", "files"}
      [] fetch = "check"    -> {"checkRun", "annotations", "logs"}

(* docs/contracts.md: the gateway "records a policy decision before work   *)
(* begins".  Every read that was reached has its decision in the record,   *)
(* in the order of the reads, and a run is denied exactly when the last of *)
(* them is not an allow.  Requests go to GitHub for an allowed read only,  *)
(* tools exist once every read of the run was allowed, and a run that was  *)
(* denied or refused on the way keeps nothing of the earlier reads.        *)
DecisionsCoverReads ==
    /\ Len(audit) <= Len(Fetches)
    /\ \A i \in DOMAIN audit :
         /\ audit[i] = <<Fetches[i], Decision(Fetches[i])>>
         /\ audit[i][2] # "allow" <=> i = Len(audit) /\ pc = "denied"
    /\ pc \in Stopped => audit # <<>> /\ archive = <<>> /\ diff = None /\ check = None
    /\ \A fetch \in {"snapshot", "diff", "check"} : pc \in Steps(fetch) => Allowed(fetch)
    /\ diff # None => Allowed("diff")
    /\ check # None => Allowed("check")
    /\ archive # <<>> => Allowed("snapshot")
    /\ pc = "tools" => Len(audit) = Len(Fetches)

(* docs/contracts.md: the evidence says when it was truncated.  Evidence   *)
(* that is not marked has every file and annotation, and what is marked    *)
(* has the first Maximum of them, unless the branch has moved.             *)
WholeOrTruncated ==
    /\ diff # None /\ pushes = 0 =>
         IF diff.truncated THEN diff.files = SubSeq(FilesOf[request.pinned], 1, Maximum)
                           ELSE diff.files = FilesOf[request.pinned]
    /\ pc = "logs" =>
         IF check.truncated THEN check.files = SubSeq(Annotations, 1, Maximum)
                            ELSE check.files = Annotations

(* Whatever is cited at a place canonical_locator knows is found there     *)
(* again when citations are resolved, if it has text and its place is one  *)
(* that read_file accepts.                                                 *)
CitationsResolve ==
    \A c \in citations :
        c.text # <<>> /\ c.place.end - c.place.start < MaxReadLines =>
            Resolves(archive, c.place, c.text)

(* A file that is read from its first line and not marked truncated was    *)
(* read to its end.                                                        *)
ReadsSayWhenCut ==
    \A r \in Reads(archive) :
        r.start = 1 /\ ~r.truncated => r.text = Joined(archive[r.path])

(* docs/contracts.md: the pull-request diff is that of the exact head SHA. *)
DiffIsOfPinnedHead ==
    diff # None => \A i \in DOMAIN diff.files : diff.files[i] \in Range(FilesOf[request.pinned])

----------------------------------------------------------------------------
(* The inductive invariant of EvidenceReadProofs                           *)

(* How many reads have been decided on, by the step of the run.            *)
ReadsAreInOrder ==
    /\ pc = "snapshot" => audit = <<>>
    /\ pc = "archive" => Len(audit) = 1
    /\ pc = "diff" => WantsDiff /\ Len(audit) = 1
    /\ pc \in Steps("diff") => WantsDiff /\ Len(audit) = 2
    /\ pc = "check" => WantsCheck /\ Len(audit) = Len(Fetches) - 1
    /\ pc \in Steps("check") => WantsCheck /\ Len(audit) = Len(Fetches)

StartsWith(source) ==
    Len(items) <= Len(source) /\ items = SubSeq(source, 1, Len(items))

(* The pages behind the loop are full and those of one source, as long as  *)
(* the branch has not moved.                                               *)
PagesAreWhole ==
    /\ IsSequence(items)
    /\ Len(items) = (page - 1) * PerPage
    /\ pc = "annotations" => StartsWith(Annotations)
    /\ pc = "files" /\ pushes = 0 => head = request.pinned /\ StartsWith(FilesOf[head])

(* Excerpts and citations are of the archive that was read.                *)
ExcerptsAreOfArchive ==
    /\ \A p \in DOMAIN archive : IsText(archive[p])
    /\ pc # "tools" => located = {} /\ citations = {}
    /\ IsFiniteSet(located) /\ located \subseteq Excerpts
    /\ \A c \in citations : \E m \in Excerpts : c.place = Place(m) /\ c.text = m.text

IndInv ==
    /\ TypeOK
    /\ ReadsAreInOrder
    /\ DecisionsCoverReads
    /\ PagesAreWhole
    /\ WholeOrTruncated
    /\ ExcerptsAreOfArchive
=============================================================================
