------------------------- MODULE ExecutorTransport -------------------------
(***************************************************************************)
(* The executor launcher of agentic_lab: requests to run a recipe          *)
(* (executor/service.py), the directory each one prepares and shares with  *)
(* a disposable container (executor/transport.py), the container's life    *)
(* (executor/launcher.py) and what the adapter does inside it              *)
(* (executor/adapter.py).                                                  *)
(*                                                                         *)
(* Requests are served in threads of one process; the process may die and  *)
(* come back, containers and directories survive it.  A source SHA is the  *)
(* tree it names on GitHub; the files to test come with the request.  The  *)
(* checks on tokens, images and arguments are one predicate of the         *)
(* request.  Clocks, output excerpts, redaction and hashes are left out; a *)
(* recipe is what it can exit with.                                        *)
(***************************************************************************)
EXTENDS PatchApply

CONSTANTS
    Launch,       \* requests to run a recipe
    Scenario,     \* what the launches of a behaviour ask for, one function each
    Nobody,       \* no launch
    MaxCrashes    \* bound: deaths of the launcher process

ASSUME CrashesAreBounded == MaxCrashes \in Nat
ASSUME NobodyIsNoLaunch  == Nobody \notin Launch

(* run, recipe and base identify a request; files are the snapshot_files   *)
(* that come with it, which nothing compares with the source SHA: those    *)
(* that github_read.py unpacks lack links, binary and large files and have *)
(* replacement characters.  valid: the request passes service.py and       *)
(* validate_recipe_request; diff is <<>> unless the adapter is             *)
(* pytest_after_patch_v1.                                                  *)
ASSUME ScenariosAreGiven ==
    \A s \in Scenario :
        /\ DOMAIN s = Launch
        /\ \A l \in Launch : /\ DOMAIN s[l] = {"run", "recipe", "base", "files", "diff", "valid"}
                             /\ s[l].valid \in BOOLEAN
ASSUME DiffsAreGiven ==
    \A s \in Scenario : \A l \in Launch : IsDiff(s[l].diff) /\ IsTree(s[l].files)

VARIABLES
    asks,         \* what each launch asks for
    pc,           \* where the launcher is with it
    owner,        \* the launch that made the directory of a run and recipe
    request,      \* the launch whose request.json is in it
    workspace,    \* the tree in its workspace, if any
    result,       \* the result.json in it, if any
    box,          \* the container of each launch; fault: a call to Docker about
                  \* it has raised
    returned,     \* the result load_result has returned
    crashes

dir  == <<owner, request, workspace, result>>
vars == <<asks, pc, dir, box, returned, crashes>>

(* The run key: a hash of run id and recipe name.                          *)
Key(l) == <<asks[l].run, asks[l].recipe>>

Keys == {Key(l) : l \in Launch}

(* Mutant of ExitCode: a recipe that times out is recorded as killed.      *)
KilledCode == {0, 1, 137}

(* What a recipe exits with; 124 is execute_request's own for a timeout.   *)
ExitCode == {0, 1, 124}

(* of is the launch whose request.json the container has read: everything  *)
(* verify_identity compares comes from there.                              *)
Result == [of : Launch, exit : {0, 1, 124}, complete : BOOLEAN]

Serving == {"asked", "made", "prepared", "waiting", "failed", "passed", "removed"}
Alive   == {"started", "copied", "patched", "written"}

Box == [at : {"none", "created", "exited", "gone"} \cup Alive,
        ok : BOOLEAN, fault : BOOLEAN, read : Launch \cup {Nobody}]

AtMostOne(S) == \A x, y \in S : x = y

TypeOK ==
    /\ DOMAIN asks = Launch
    /\ pc \in [Launch -> {"start"} \cup Serving \cup {"error", "result", "lost"}]
    /\ owner \in [Keys -> Launch \cup {Nobody}]
    /\ request \in [Keys -> Launch \cup {Nobody}]
    /\ DOMAIN workspace = Keys /\ \A k \in Keys : AtMostOne(workspace[k])
    /\ result \in [Keys -> SUBSET Result] /\ \A k \in Keys : AtMostOne(result[k])
    /\ box \in [Launch -> Box]
    /\ returned \in [Launch -> SUBSET Result]
    /\ crashes \in Nat

Init ==
    /\ asks \in Scenario
    /\ pc       = [l \in Launch |-> "start"]
    /\ owner     = [k \in Keys |-> Nobody]
    /\ request   = [k \in Keys |-> Nobody]
    /\ workspace = [k \in Keys |-> {}]
    /\ result    = [k \in Keys |-> {}]
    /\ box      = [l \in Launch |-> [at |-> "none", ok |-> FALSE, fault |-> FALSE,
                                 read |-> Nobody]]
    /\ returned = [l \in Launch |-> {}]
    /\ crashes  = 0

----------------------------------------------------------------------------
(* Helpers                                                                 *)

(* The launcher goes on with l.                                            *)
Step(l, from, to) == pc[l] = from /\ pc' = [pc EXCEPT ![l] = to]

(* The container of l does.                                                *)
BoxStep(l, from, to) == box[l].at = from /\ box' = [box EXCEPT ![l].at = to]

(* The adapter raises: the container exits with a status that is not 0.    *)
Raises(l) == box' = [box EXCEPT ![l].at = "exited", ![l].ok = FALSE]

----------------------------------------------------------------------------
(* run_recipe and prepare                                                  *)

(* A request that is refused creates nothing.                              *)
Ask(l) ==
    /\ Step(l, "start", IF asks[l].valid THEN "asked" ELSE "error")
    /\ UNCHANGED <<asks, dir, box, returned, crashes>>

(* Mutant of MakeDirectory: a directory that is there is used again.       *)
MakeOrReuse(l) ==
    /\ Step(l, "asked", "made")
    /\ owner' = [owner EXCEPT ![Key(l)] = l]
    /\ UNCHANGED <<asks, request, workspace, result, box, returned, crashes>>

(* mkdir with exist_ok=False: it raises if an earlier launch of this run   *)
(* and recipe has made the directory, for nothing removes one.             *)
MakeDirectory(l) ==
    /\ IF owner[Key(l)] # Nobody
         THEN Step(l, "asked", "error") /\ UNCHANGED owner
         ELSE Step(l, "asked", "made") /\ owner' = [owner EXCEPT ![Key(l)] = l]
    /\ UNCHANGED <<asks, request, workspace, result, box, returned, crashes>>

(* The snapshot and request.json are written, or writing them raises.      *)
Prepare(l) ==
    /\ \/ Step(l, "made", "prepared") /\ request' = [request EXCEPT ![Key(l)] = l]
       \/ Step(l, "made", "error") /\ UNCHANGED request
    /\ UNCHANGED <<asks, owner, workspace, result, box, returned, crashes>>

----------------------------------------------------------------------------
(* DockerContainerRunner.run                                               *)

(* containers.run creates and starts a container.  When it raises, one     *)
(* that was created is left: container is still None in the finally.       *)
StartBox(l) ==
    /\ \/ Step(l, "prepared", "waiting") /\ BoxStep(l, "none", "started")
       \/ /\ Step(l, "prepared", "error")
          /\ \E at \in {"none", "created"} :
               box' = [box EXCEPT ![l].at = at, ![l].fault = TRUE]
    /\ UNCHANGED <<asks, dir, returned, crashes>>

(* container.wait returns the exit status, and one that is not 0 raises.   *)
WaitReturns(l) ==
    /\ box[l].at = "exited"
    /\ Step(l, "waiting", IF box[l].ok THEN "passed" ELSE "failed")
    /\ UNCHANGED <<asks, dir, box, returned, crashes>>

(* Mutant of WaitFails: wait is called without a timeout.                  *)
WaitForEver(l) == FALSE /\ UNCHANGED vars

(* wait gives up 30 seconds after the recipe's own timeout, or loses Docker*)
WaitFails(l) ==
    /\ Step(l, "waiting", "failed")
    /\ UNCHANGED <<asks, dir, box, returned, crashes>>

(* Mutant of RemoveBox: only what has passed is removed.                   *)
RemovePassed(l) ==
    /\ \/ Step(l, "passed", "removed") /\ box' = [box EXCEPT ![l].at = "gone"]
       \/ Step(l, "failed", "error") /\ UNCHANGED box
    /\ UNCHANGED <<asks, dir, returned, crashes>>

(* The finally: remove(force=True) kills the container if it still runs.   *)
(* When it raises nobody tries again, and a passed launch fails too.       *)
RemoveBox(l) ==
    /\ \/ /\ Step(l, "passed", "removed") \/ Step(l, "failed", "error")
          /\ box' = [box EXCEPT ![l].at = "gone"]
       \/ /\ Step(l, "passed", "error") \/ Step(l, "failed", "error")
          /\ box' = [box EXCEPT ![l].fault = TRUE]
    /\ UNCHANGED <<asks, dir, returned, crashes>>

(* load_result: a result that is missing, has another identity or lacks an *)
(* expected artifact raises.  The identity leaves the arguments out.       *)
SameIdentity(l, of) == \A field \in {"run", "recipe", "base"} : asks[l][field] = asks[of][field]

LoadResult(l) ==
    /\ IF \E r \in result[Key(l)] : SameIdentity(l, r.of) /\ r.complete
         THEN /\ Step(l, "removed", "result")
              /\ returned' = [returned EXCEPT ![l] = result[Key(l)]]
         ELSE Step(l, "removed", "error") /\ UNCHANGED returned
    /\ UNCHANGED <<asks, dir, box, crashes>>

(* The launcher process dies and is started again.                         *)
Crash ==
    /\ crashes < MaxCrashes
    /\ crashes' = crashes + 1
    /\ pc' = [l \in Launch |-> IF pc[l] \in Serving THEN "lost" ELSE pc[l]]
    /\ UNCHANGED <<asks, dir, box, returned>>

----------------------------------------------------------------------------
(* The adapter in the container of l                                       *)

(* execute_request reads the request, wants an empty workspace and copies  *)
(* into it the files that prepare has written.                             *)
CopySource(l) ==
    /\ box[l].at = "started"
    /\ IF workspace[Key(l)] # {}
         THEN Raises(l) /\ UNCHANGED workspace
         ELSE /\ box' = [box EXCEPT ![l].at = "copied", ![l].read = request[Key(l)]]
              /\ workspace' = [workspace EXCEPT ![Key(l)] = {asks[request[Key(l)]].files}]
    /\ UNCHANGED <<asks, pc, owner, request, result, returned, crashes>>

Diff(l)  == asks[box[l].read].diff
Base(l)  == asks[box[l].read].base
Files(l) == asks[box[l].read].files

(* _apply_workspace_diff, for the adapter that patches.                    *)
ApplyPatch(l) ==
    /\ box[l].at = "copied"
    /\ IF Diff(l) = <<>>
         THEN BoxStep(l, "copied", "patched") /\ UNCHANGED workspace
         ELSE IF Applies(Files(l), Diff(l)) /\ WriteWorkspace(Files(l), Diff(l)).ok
         THEN /\ BoxStep(l, "copied", "patched")
              /\ workspace' = [workspace EXCEPT
                                 ![Key(l)] = {WriteWorkspace(Files(l), Diff(l)).tree}]
         ELSE Raises(l) /\ UNCHANGED workspace
    /\ UNCHANGED <<asks, pc, owner, request, result, returned, crashes>>

(* The recipe runs, or runs out of time; the artifacts it made, if any,    *)
(* are copied and the result is written.  Whatever the recipe exits with,  *)
(* the adapter goes on.                                                    *)
RunRecipe(l) ==
    /\ BoxStep(l, "patched", "written")
    /\ \E exit \in ExitCode, complete \in BOOLEAN :
         result' = [result EXCEPT ![Key(l)] =
                      {[of |-> box[l].read, exit |-> exit, complete |-> complete]}]
    /\ UNCHANGED <<asks, pc, owner, request, workspace, returned, crashes>>

BoxExits(l) ==
    /\ box[l].at = "written"
    /\ box' = [box EXCEPT ![l].at = "exited", ![l].ok = TRUE]
    /\ UNCHANGED <<asks, pc, dir, returned, crashes>>

(* The container is killed, by its memory limit or from outside.           *)
BoxDies(l) ==
    /\ box[l].at \in Alive
    /\ Raises(l)
    /\ UNCHANGED <<asks, pc, dir, returned, crashes>>

----------------------------------------------------------------------------
Serve(l) ==
    \/ MakeDirectory(l)
    \/ Prepare(l)
    \/ StartBox(l)
    \/ WaitReturns(l)
    \/ WaitFails(l)
    \/ RemoveBox(l)
    \/ LoadResult(l)

InBox(l) ==
    \/ CopySource(l)
    \/ ApplyPatch(l)
    \/ RunRecipe(l)
    \/ BoxExits(l)
    \/ BoxDies(l)

Next ==
    \/ \E l \in Launch : Ask(l) \/ Serve(l) \/ InBox(l)
    \/ Crash

Spec == Init /\ [][Next]_vars

(* The launcher's thread goes on by itself: every call it waits for has a  *)
(* timeout.  Nothing is assumed of a container, which may hang.            *)
Fairness == \A l \in Launch : WF_vars(Serve(l))

LiveSpec == Spec /\ Fairness

----------------------------------------------------------------------------
(* Properties of the launcher                                              *)

(* What a caller is given is the result of its own container, which no     *)
(* longer runs: not what an earlier attempt of the same run and recipe     *)
(* left, nor what a container that outlived a crash writes later, although *)
(* both would pass verify_identity.                                        *)
ResultIsOwn ==
    \A l \in Launch : pc[l] = "result" =>
        /\ \A r \in returned[l] : r.of = l
        /\ returned[l] = result[Key(l)] /\ returned[l] # {}
        /\ box[l].at = "gone"

(* Two containers never write one directory.                               *)
OneWriter ==
    \A l, m \in Launch : Key(l) = Key(m) /\ l # m =>
        ~(box[l].at \in Alive /\ box[m].at \in Alive)

(* docs/architecture.md: executors are short-lived.  The container of a    *)
(* launch that was answered is removed, unless Docker refused.             *)
BoxesAreRemoved ==
    \A l \in Launch : pc[l] \in {"result", "error"} =>
        box[l].at \in {"none", "gone"} \/ box[l].fault

(* A request that was accepted is answered, whatever its container does,   *)
(* or the launcher died.                                                   *)
EveryLaunchEnds ==
    \A l \in Launch : (pc[l] = "asked") ~> (pc[l] \in {"error", "result", "lost"})

(* What a caller sees: the launches that have claimed their run and recipe,*)
(* and what each was answered.                                             *)
KeyOf  == [l \in Launch |-> Key(l)]
Claims == {l \in Launch : owner[Key(l)] = l}
Answer == [l \in Launch |-> IF pc[l] \in {"error", "result", "lost"} THEN pc[l] ELSE "none"]

Once == INSTANCE RecipeOnce WITH key <- KeyOf, claims <- Claims, answer <- Answer

(* The launcher implements the promise: a run and recipe is claimed by one *)
(* launch for ever, and only that one can return a result.                 *)
RunsRecipeOnce == Once!Spec

----------------------------------------------------------------------------
(* The inductive invariant of ExecutorProofs                               *)

(* A launch that goes on owns its directory.                               *)
Prepared == {"prepared", "waiting", "failed", "passed", "removed", "result"}
GoesOnIfOwner == \A l \in Launch : pc[l] \in Prepared \cup {"made"} => owner[Key(l)] = l

(* A container is started once its launch has written its request.         *)
BoxesOfOwners ==
    \A l \in Launch : pc[l] \in Prepared \/ box[l].at # "none" =>
        owner[Key(l)] = l /\ request[Key(l)] = l

NoBoxYet ==
    \A l \in Launch : pc[l] \in {"start", "asked", "made", "prepared"} => box[l].at = "none"

ReadsOwnRequest ==
    \A l \in Launch : box[l].at \in {"copied", "patched", "written"} => box[l].read = l

ResultsOfOwners == \A k \in Keys : \A r \in result[k] : r.of = owner[k]

(* No result is written once the container is removed.                     *)
ResultsAreFinal ==
    \A l \in Launch :
        /\ pc[l] \in {"removed", "result"} => box[l].at = "gone"
        /\ pc[l] = "result" => returned[l] = result[Key(l)] /\ returned[l] # {}

IndInv ==
    /\ TypeOK
    /\ GoesOnIfOwner
    /\ BoxesOfOwners
    /\ NoBoxYet
    /\ ReadsOwnRequest
    /\ ResultsOfOwners
    /\ ResultsAreFinal
    /\ BoxesAreRemoved

----------------------------------------------------------------------------
(* Properties of the patch                                                 *)

(* The workspace in which the container of l tests the diff.               *)
Patched(l) == box[l].at \in {"patched", "written"} /\ Diff(l) # <<>>

(* The invariant behind the properties: the patch applied to the files the *)
(* container copied, and what it wrote is still there.                     *)
TestedTree ==
    \A l \in Launch : Patched(l) =>
        /\ Applies(Files(l), Diff(l))
        /\ WriteWorkspace(Files(l), Diff(l)).ok
        /\ workspace[Key(l)] = {WriteWorkspace(Files(l), Diff(l)).tree}

(* docs/contracts.md: the patch whose tests are shown is the one that is   *)
(* pushed.  If the files that came with the request are those of the       *)
(* source SHA where the patch reads them, the patch also applies on        *)
(* GitHub, and the tree apply_unified_diff posts is the one the tests ran  *)
(* in: at every path the patch touches, several sections for one file      *)
(* included, and wherever else files and SHA agree.                        *)
ValidatedIsPushed ==
    \A l \in Launch :
        /\ Patched(l)
        /\ \A i \in DOMAIN Diff(l) : Agree(Files(l), Base(l), Diff(l)[i].old)
        => LET pushed == PushedTree(Base(l), Diff(l)) IN
           /\ Applies(Base(l), Diff(l))
           /\ \A tree \in workspace[Key(l)] : \A p \in DOMAIN tree \cup DOMAIN pushed :
                p \in Touched(Diff(l)) \/ Agree(Files(l), Base(l), p) => Agree(tree, pushed, p)

(* docs/PRD.md:62, the executor receives a "pinned source snapshot", and   *)
(* docs/contracts.md:92, a recipe "passed after the patch": the tree that  *)
(* is tested is the one that is pushed on the pinned SHA.                  *)
TestedTreeIsPushed ==
    \A l \in Launch : Patched(l) =>
        workspace[Key(l)] = {PushedTree(Base(l), Diff(l))}

(* The hunks say where they belong: counts that are right and old lines,   *)
(* or lines put in front of the file, and something remains.               *)
SaysWhere(section, lines) ==
    /\ \A i \in DOMAIN section.hunks :
         LET hunk == section.hunks[i] IN
         CountsAreRight(hunk) /\ (hunk.start = 0 <=> hunk.oldCount = 0)
    /\ Reading(lines, section.hunks) # <<>>

(* A file that was patched reads as the unified diff says, line for line.  *)
PatchMeansWhatItSays ==
    \A l \in Launch : Patched(l) /\ Len(Diff(l)) = 1 =>
        LET section == Diff(l)[1]
            lines   == Original(Files(l), section).lines
        IN  section.new # DevNull /\ SaysWhere(section, lines) =>
              \A tree \in workspace[Key(l)] :
                 tree[section.new].lines = Reading(lines, section.hunks)

(* "unified diff hunk counts do not match its body" (patch_apply.py:75) is *)
(* raised for a diff whose headers do not count the lines under them.      *)
CountsAreChecked ==
    \A l \in Launch : Patched(l) =>
        \A i \in DOMAIN Diff(l) : \A k \in DOMAIN Diff(l)[i].hunks :
            CountsAreRight(Diff(l)[i].hunks[k])
=============================================================================
