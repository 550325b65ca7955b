--------------------------- MODULE ExecutorProofs ---------------------------
(***************************************************************************)
(* Proofs about ExecutorTransport: for every set of launches, whatever     *)
(* they ask for and however often the launcher dies, IndInv is inductive,  *)
(* and from it follow what a caller is given, that two containers never    *)
(* share a directory, and that the launcher implements RecipeOnce.         *)
(*                                                                         *)
(* One lemma per action, and one for the steps of a container that leave   *)
(* the directories alone.                                                  *)
(***************************************************************************)
EXTENDS ExecutorTransport, PatchProofs

LEMMA InitInvariant == ASSUME Init PROVE IndInv
  <1>1. TypeOK
    BY ScenariosAreGiven, CrashesAreBounded DEF Init, TypeOK, AtMostOne, Box, Serving
  <1>2. GoesOnIfOwner /\ BoxesOfOwners /\ NoBoxYet
    BY DEF Init, GoesOnIfOwner, BoxesOfOwners, NoBoxYet, Prepared
  <1>3. ReadsOwnRequest /\ ResultsOfOwners /\ ResultsAreFinal /\ BoxesAreRemoved
    BY DEF Init, ReadsOwnRequest, ResultsOfOwners, ResultsAreFinal, BoxesAreRemoved
  <1> QED BY <1>1, <1>2, <1>3 DEF IndInv

(* The keys are a matter of the requests.                                  *)
LEMMA KeysKept ==
    ASSUME UNCHANGED asks
    PROVE  Keys' = Keys /\ \A l \in Launch : Key(l) \in Keys /\ Key(l)' = Key(l)
  BY DEF Keys, Key

----------------------------------------------------------------------------
(* The launcher's thread                                                   *)

LEMMA AskInvariant == ASSUME IndInv, NEW l \in Launch, Ask(l) PROVE IndInv'
  <1> USE DEF Ask, Step, IndInv, dir
  <1>1. TypeOK'
    BY KeysKept DEF TypeOK, Serving, AtMostOne
  <1>2. GoesOnIfOwner' /\ BoxesOfOwners' /\ NoBoxYet'
    BY DEF GoesOnIfOwner, BoxesOfOwners, NoBoxYet, Prepared, TypeOK, Key
  <1>3. ReadsOwnRequest' /\ ResultsOfOwners'
    BY DEF ReadsOwnRequest, ResultsOfOwners, Keys, Key
  <1>4. ResultsAreFinal' /\ BoxesAreRemoved'
    BY DEF ResultsAreFinal, BoxesAreRemoved, NoBoxYet, TypeOK, Key
  <1> QED BY <1>1, <1>2, <1>3, <1>4

(* A directory that is made had no owner, so no launch relied on it and    *)
(* nothing was in it.                                                      *)
LEMMA MakeDirectoryInvariant ==
    ASSUME IndInv, NEW l \in Launch, MakeDirectory(l) PROVE IndInv'
  <1> USE NobodyIsNoLaunch DEF MakeDirectory, Step, IndInv
  <1>1. TypeOK'
    BY KeysKept DEF TypeOK, Serving, AtMostOne
  <1>2. Keys' = Keys /\ \A m \in Launch : Key(m) \in Keys /\ Key(m)' = Key(m)
    BY KeysKept
  <1>3. GoesOnIfOwner'
    BY <1>2 DEF GoesOnIfOwner, Prepared, TypeOK
  <1>4. BoxesOfOwners' /\ NoBoxYet'
    BY <1>2 DEF BoxesOfOwners, NoBoxYet, Prepared, TypeOK
  <1>5. ReadsOwnRequest'
    BY DEF ReadsOwnRequest
  <1>6. ResultsOfOwners'
    BY <1>2 DEF ResultsOfOwners, TypeOK, Result, Key
  <1>7. ResultsAreFinal' /\ BoxesAreRemoved'
    BY DEF ResultsAreFinal, BoxesAreRemoved, NoBoxYet, TypeOK, Key
  <1> QED BY <1>1, <1>3, <1>4, <1>5, <1>6, <1>7

LEMMA PrepareInvariant ==
    ASSUME IndInv, NEW l \in Launch, Prepare(l) PROVE IndInv'
  <1> USE DEF Prepare, Step, IndInv
  <1>1. TypeOK'
    BY KeysKept DEF TypeOK, Serving, AtMostOne
  <1>2. \A m \in Launch : Key(m) \in Keys /\ Key(m)' = Key(m)
    BY KeysKept
  <1>3. GoesOnIfOwner' /\ NoBoxYet'
    BY DEF GoesOnIfOwner, NoBoxYet, Prepared, TypeOK, Key
  <1>4. BoxesOfOwners'
    BY <1>2 DEF GoesOnIfOwner, BoxesOfOwners, NoBoxYet, Prepared, TypeOK
  <1>5. ReadsOwnRequest' /\ ResultsOfOwners'
    BY DEF ReadsOwnRequest, ResultsOfOwners, Keys, Key
  <1>6. ResultsAreFinal' /\ BoxesAreRemoved'
    BY DEF ResultsAreFinal, BoxesAreRemoved, NoBoxYet, TypeOK, Key
  <1> QED BY <1>1, <1>3, <1>4, <1>5, <1>6

(* The container starts behind the launch's own request; what is left when *)
(* Docker raises is marked.                                                *)
LEMMA StartBoxInvariant ==
    ASSUME IndInv, NEW l \in Launch, StartBox(l) PROVE IndInv'
  <1> USE DEF StartBox, Step, BoxStep, IndInv, dir
  <1>1. TypeOK'
    <2>1. CASE box' = [box EXCEPT ![l].at = "started"]
      BY <2>1, KeysKept DEF TypeOK, Serving, Alive, AtMostOne, Box
    <2>2. CASE \E at \in {"none", "created"} :
                 pc[l] = "prepared" /\ pc' = [pc EXCEPT ![l] = "error"] /\ box' = [box EXCEPT ![l].at = at, ![l].fault = TRUE]
      <3>1. box' \in [Launch -> Box]
        BY <2>2 DEF TypeOK, Box
      <3> QED BY <2>2, <3>1, KeysKept DEF TypeOK, Serving, AtMostOne
    <2> QED BY <2>1, <2>2
  <1>2. GoesOnIfOwner' /\ NoBoxYet'
    BY DEF GoesOnIfOwner, NoBoxYet, Prepared, TypeOK, Key
  <1>3. BoxesOfOwners'
    BY DEF Prepared, BoxesOfOwners, TypeOK, Key
  <1>4. ReadsOwnRequest' /\ ResultsOfOwners'
    BY DEF ReadsOwnRequest, ResultsOfOwners, TypeOK, Box, Keys, Key
  <1>5. ResultsAreFinal' /\ BoxesAreRemoved'
    BY DEF ResultsAreFinal, BoxesAreRemoved, TypeOK, Box, Key
  <1> QED BY <1>1, <1>2, <1>3, <1>4, <1>5

(* The container is waited for: the launcher's place moves, nothing else.  *)
LEMMA WaitInvariant ==
    ASSUME IndInv, NEW l \in Launch, WaitReturns(l) \/ WaitFails(l) PROVE IndInv'
  <1> USE DEF WaitReturns, WaitFails, Step, IndInv, dir
  <1>1. TypeOK'
    BY KeysKept DEF TypeOK, Serving, AtMostOne
  <1>2. GoesOnIfOwner' /\ BoxesOfOwners' /\ NoBoxYet'
    BY DEF GoesOnIfOwner, BoxesOfOwners, NoBoxYet, Prepared, TypeOK, Key
  <1>3. ReadsOwnRequest' /\ ResultsOfOwners'
    BY DEF ReadsOwnRequest, ResultsOfOwners, Keys, Key
  <1>4. ResultsAreFinal' /\ BoxesAreRemoved'
    BY DEF ResultsAreFinal, BoxesAreRemoved, TypeOK, Box, Key
  <1> QED BY <1>1, <1>2, <1>3, <1>4

(* A launch goes on from the finally with its container gone, or raises    *)
(* with the container marked.                                              *)
LEMMA RemoveBoxInvariant ==
    ASSUME IndInv, NEW l \in Launch, RemoveBox(l) PROVE IndInv'
  <1> USE DEF RemoveBox, Step, IndInv, dir
  <1>1. TypeOK'
    <2>1. box' \in [Launch -> Box]
      <3>1. CASE box' = [box EXCEPT ![l].at = "gone"]
        BY <3>1 DEF TypeOK, Box
      <3>2. CASE box' = [box EXCEPT ![l].fault = TRUE]
        <4>1. box[l] \in Box
          BY DEF TypeOK
        <4>2. [box[l] EXCEPT !.fault = TRUE] \in Box
          BY <4>1 DEF Box
        <4> QED BY <3>2, <4>2 DEF TypeOK
      <3> QED BY <3>1, <3>2
    <2> QED BY <2>1, KeysKept DEF TypeOK, Serving, AtMostOne
  <1>2. owner[Key(l)] = l
    BY DEF GoesOnIfOwner, Prepared
  <1>4. GoesOnIfOwner' /\ NoBoxYet'
    BY DEF GoesOnIfOwner, NoBoxYet, Prepared, TypeOK, Key
  <1>5. BoxesOfOwners'
    BY DEF BoxesOfOwners, Prepared, TypeOK, Key
  <1>6. ReadsOwnRequest' /\ ResultsOfOwners'
    BY DEF ReadsOwnRequest, ResultsOfOwners, TypeOK, Box, Keys, Key
  <1>7. ResultsAreFinal' /\ BoxesAreRemoved'
    BY DEF ResultsAreFinal, BoxesAreRemoved, TypeOK, Box, Key
  <1> QED BY <1>1, <1>4, <1>5, <1>6, <1>7

(* What load_result returns is the owner's, and nothing can change it.     *)
LEMMA LoadResultInvariant ==
    ASSUME IndInv, NEW l \in Launch, LoadResult(l) PROVE IndInv'
  <1> USE DEF LoadResult, Step, IndInv, dir
  <1>1. Key(l) \in Keys
    BY KeysKept DEF Keys
  <1>2. TypeOK'
    BY <1>1, KeysKept DEF TypeOK, Serving, AtMostOne
  <1>3. GoesOnIfOwner' /\ BoxesOfOwners' /\ NoBoxYet'
    BY DEF GoesOnIfOwner, BoxesOfOwners, NoBoxYet, Prepared, TypeOK, Key
  <1>4. ReadsOwnRequest' /\ ResultsOfOwners'
    BY DEF ReadsOwnRequest, ResultsOfOwners, Keys, Key
  <1>5. ResultsAreFinal' /\ BoxesAreRemoved'
    BY DEF ResultsAreFinal, BoxesAreRemoved, TypeOK, Key
  <1> QED BY <1>2, <1>3, <1>4, <1>5

(* Directories and containers survive the launcher.                        *)
LEMMA CrashInvariant == ASSUME IndInv, Crash PROVE IndInv'
  <1> USE DEF Crash, IndInv, dir
  <1>1. TypeOK'
    BY KeysKept DEF TypeOK, Serving, AtMostOne
  <1>2. GoesOnIfOwner' /\ BoxesOfOwners' /\ NoBoxYet'
    BY DEF GoesOnIfOwner, BoxesOfOwners, NoBoxYet, Prepared, TypeOK, Key
  <1>3. ReadsOwnRequest' /\ ResultsOfOwners'
    BY DEF ReadsOwnRequest, ResultsOfOwners, Keys, Key
  <1>4. ResultsAreFinal' /\ BoxesAreRemoved'
    BY DEF ResultsAreFinal, BoxesAreRemoved, Serving, TypeOK, Key
  <1> QED BY <1>1, <1>2, <1>3, <1>4

----------------------------------------------------------------------------
(* The container                                                           *)

(* A container that runs has an owner whose launch is not past the finally,*)
(* and no other container writes where it writes.                          *)
LEMMA RunningBox ==
    ASSUME IndInv, NEW l \in Launch, box[l].at \in Alive \cup {"exited"}
    PROVE  /\ owner[Key(l)] = l /\ request[Key(l)] = l
           /\ pc[l] \notin {"removed", "result"}
           /\ pc[l] = "error" => box[l].fault
           /\ pc[l] \notin {"start", "asked", "made", "prepared"}
  BY DEF IndInv, BoxesOfOwners, ResultsAreFinal, BoxesAreRemoved, NoBoxYet, Alive

(* A container that goes on, with its own request, keeps the invariant     *)
(* except for what it writes.                                              *)
LEMMA BoxGoesOn ==
    ASSUME IndInv, NEW l \in Launch, box[l].at \in Alive \cup {"exited"},
           NEW at \in Alive \cup {"exited"}, NEW ok \in BOOLEAN,
           NEW read \in Launch \cup {Nobody},
           at \in {"copied", "patched", "written"} => read = l,
           box' = [box EXCEPT ![l] = [at |-> at, ok |-> ok, fault |-> box[l].fault,
                                      read |-> read]],
           UNCHANGED <<asks, pc, owner, request, returned, crashes>>
    PROVE  /\ box' \in [Launch -> Box]
           /\ GoesOnIfOwner' /\ BoxesOfOwners' /\ NoBoxYet'
           /\ ReadsOwnRequest' /\ BoxesAreRemoved'
  <1> USE DEF IndInv
  <1>1. box' \in [Launch -> Box]
    BY DEF TypeOK, Box
  <1>2. GoesOnIfOwner' /\ BoxesOfOwners' /\ NoBoxYet'
    BY RunningBox DEF GoesOnIfOwner, BoxesOfOwners, NoBoxYet, TypeOK, Box, Key
  <1>3. ReadsOwnRequest' /\ BoxesAreRemoved'
    BY RunningBox DEF ReadsOwnRequest, BoxesAreRemoved, TypeOK, Box
  <1> QED BY <1>1, <1>2, <1>3

(* What a container that runs writes is its owner's.                       *)
LEMMA InBoxInvariant == ASSUME IndInv, NEW l \in Launch, InBox(l) PROVE IndInv'
  <1> USE DEF IndInv
  <1>1. box[l].at \in Alive
    BY DEF InBox, CopySource, ApplyPatch, RunRecipe, BoxExits, BoxDies, BoxStep, Alive
  <1>2. box[l] \in Box
    BY DEF TypeOK
  <1>3. PICK at \in Alive \cup {"exited"}, ok \in BOOLEAN, read \in Launch \cup {Nobody} :
          /\ at \in {"copied", "patched", "written"} => read = l
          /\ box' = [box EXCEPT ![l] = [at |-> at, ok |-> ok, fault |-> box[l].fault,
                                       read |-> read]]
    <2>1. CASE CopySource(l)
      BY <2>1, <1>1, <1>2, RunningBox DEF CopySource, Raises, Box, Alive
    <2>2. CASE ApplyPatch(l)
      BY <2>2, <1>2 DEF ApplyPatch, Raises, BoxStep, Box, Alive, ReadsOwnRequest
    <2>3. CASE RunRecipe(l)
      <3>1. box[l].at = "patched" /\ box' = [box EXCEPT ![l].at = "written"]
        BY <2>3 DEF RunRecipe, BoxStep
      <3>2. box[l].read = l
        BY <3>1 DEF ReadsOwnRequest
      <3>3. box' = [box EXCEPT ![l] = [at |-> "written", ok |-> box[l].ok,
                                       fault |-> box[l].fault, read |-> l]]
        <4>1. [box[l] EXCEPT !.at = "written"] =
                [at |-> "written", ok |-> box[l].ok, fault |-> box[l].fault, read |-> l]
          BY <3>2, <1>2 DEF Box
        <4> QED BY <3>1, <4>1, Zenon
      <3> QED BY <3>3, <1>2 DEF Box, Alive
    <2>4. CASE BoxExits(l) \/ BoxDies(l)
      BY <2>4, <1>2 DEF BoxExits, BoxDies, Raises, Box, Alive
    <2> QED BY <2>1, <2>2, <2>3, <2>4 DEF InBox
  <1>4. UNCHANGED <<asks, pc, owner, request, returned, crashes>>
    BY DEF InBox, CopySource, ApplyPatch, RunRecipe, BoxExits, BoxDies, dir
  <1>5. /\ box' \in [Launch -> Box]
        /\ GoesOnIfOwner' /\ BoxesOfOwners' /\ NoBoxYet'
        /\ ReadsOwnRequest' /\ BoxesAreRemoved'
    BY <1>1, <1>3, <1>4, BoxGoesOn
  <1>6. Keys' = Keys /\ \A m \in Launch : Key(m) \in Keys /\ Key(m)' = Key(m)
    BY <1>4, KeysKept
  <1>7. /\ DOMAIN workspace' = Keys /\ \A k \in Keys : AtMostOne(workspace'[k])
    BY DEF InBox, CopySource, ApplyPatch, RunRecipe, BoxExits, BoxDies, dir, TypeOK, AtMostOne
  <1>8. \/ UNCHANGED result
        \/ \E r \in Result : r.of = l /\ result' = [result EXCEPT ![Key(l)] = {r}]
    <2>1. CASE RunRecipe(l)
      <3>1. box[l].read = l
        BY <2>1 DEF RunRecipe, BoxStep, ReadsOwnRequest
      <3>2. PICK exit \in ExitCode, complete \in BOOLEAN :
              result' = [result EXCEPT
                           ![Key(l)] = {[of |-> l, exit |-> exit, complete |-> complete]}]
        BY <2>1, <3>1 DEF RunRecipe
      <3>3. [of |-> l, exit |-> exit, complete |-> complete] \in Result
        BY DEF Result, ExitCode
      <3> QED BY <3>2, <3>3
    <2> QED BY <2>1 DEF InBox, CopySource, ApplyPatch, BoxExits, BoxDies, dir
  <1>9. TypeOK'
    BY <1>4, <1>5, <1>6, <1>7, <1>8 DEF TypeOK, AtMostOne
  <1>10. ResultsOfOwners'
    BY <1>1, <1>4, <1>6, <1>8, RunningBox DEF ResultsOfOwners, TypeOK
  <1>11. ResultsAreFinal'
    <2> SUFFICES ASSUME NEW m \in Launch, pc[m] \in {"removed", "result"}
                 PROVE  /\ box'[m].at = "gone"
                        /\ pc[m] = "result" => returned[m] = result'[Key(m)] /\ returned[m] # {}
      BY <1>4, <1>6 DEF ResultsAreFinal
    <2>1. m # l /\ Key(m) # Key(l)
      BY <1>1, RunningBox DEF GoesOnIfOwner, Prepared
    <2> QED BY <2>1, <1>3, <1>6, <1>8 DEF ResultsAreFinal, TypeOK
  <1> QED BY <1>5, <1>9, <1>10, <1>11

----------------------------------------------------------------------------
(* The theorems                                                            *)

LEMMA NextInvariant == ASSUME IndInv, [Next]_vars PROVE IndInv'
  <1>1. CASE UNCHANGED vars
    BY <1>1 DEF vars, dir, IndInv, TypeOK, GoesOnIfOwner, BoxesOfOwners, NoBoxYet,
                ReadsOwnRequest, ResultsOfOwners, ResultsAreFinal, BoxesAreRemoved, Keys, Key
  <1>2. CASE Crash
    BY <1>2, CrashInvariant
  <1>3. ASSUME NEW l \in Launch, Ask(l) \/ Serve(l) \/ InBox(l) PROVE IndInv'
    BY <1>3, AskInvariant, MakeDirectoryInvariant, PrepareInvariant, StartBoxInvariant,
       WaitInvariant, RemoveBoxInvariant, LoadResultInvariant, InBoxInvariant DEF Serve
  <1> QED BY <1>1, <1>2, <1>3 DEF Next

(* IndInv holds in every reachable state of the launcher.                  *)
THEOREM ExecutorInvariant == Spec => []IndInv
  <1> QED BY InitInvariant, NextInvariant, PTL DEF Spec

(* The variables stay in their types: a directory has one tree and one     *)
(* result at most.                                                         *)
THEOREM ExecutorTypes == Spec => []TypeOK
  <1>1. IndInv => TypeOK
    BY DEF IndInv
  <1> QED BY <1>1, ExecutorInvariant, PTL

(* load_result hands out the result of the caller's own container, which   *)
(* is gone: never what another attempt left or still writes.               *)
THEOREM ResultsAreOwn == Spec => []ResultIsOwn
  <1>1. IndInv => ResultIsOwn
    <2> SUFFICES ASSUME IndInv, NEW l \in Launch, pc[l] = "result"
                 PROVE  /\ \A r \in returned[l] : r.of = l
                        /\ returned[l] = result[Key(l)] /\ returned[l] # {}
                        /\ box[l].at = "gone"
      BY DEF ResultIsOwn
    <2>1. owner[Key(l)] = l
      BY DEF IndInv, GoesOnIfOwner, Prepared
    <2>2. returned[l] = result[Key(l)] /\ returned[l] # {} /\ box[l].at = "gone"
      BY DEF IndInv, ResultsAreFinal
    <2> QED BY <2>1, <2>2 DEF IndInv, ResultsOfOwners, Keys
  <1> QED BY <1>1, ExecutorInvariant, PTL

(* Two containers never write one directory, crashes or not.               *)
THEOREM WritersAreAlone == Spec => []OneWriter
  <1>1. IndInv => OneWriter
    <2> SUFFICES ASSUME IndInv, NEW l \in Launch, NEW m \in Launch, Key(l) = Key(m),
                        box[l].at \in Alive, box[m].at \in Alive
                 PROVE  l = m
      BY DEF OneWriter
    <2> QED BY RunningBox
  <1> QED BY <1>1, ExecutorInvariant, PTL

(* A launch that was answered leaves no container, unless Docker refused.  *)
THEOREM BoxesAreGone == Spec => []BoxesAreRemoved
  <1>1. IndInv => BoxesAreRemoved
    BY DEF IndInv
  <1> QED BY <1>1, ExecutorInvariant, PTL

----------------------------------------------------------------------------
(* The refinement                                                          *)

(* A step of the launcher's place is visible when it is an answer.         *)
LEMMA AnswerStep ==
    ASSUME TypeOK, NEW l \in Launch, NEW to,
           pc[l] \notin {"error", "result", "lost"}, pc' = [pc EXCEPT ![l] = to]
    PROVE  /\ Answer[l] = "none"
           /\ to \in {"error", "result"} => Answer' = [Answer EXCEPT ![l] = to]
           /\ to \notin {"error", "result", "lost"} => Answer' = Answer
  BY DEF Answer, TypeOK

(* Who has claimed what changes with the owners only.                      *)
LEMMA ClaimsKept ==
    ASSUME UNCHANGED asks
    PROVE  KeyOf' = KeyOf /\ (UNCHANGED owner => Claims' = Claims)
  BY DEF KeyOf, Claims, Key

(* The directory that is made is the claim: nobody owned it before.        *)
LEMMA MakeDirectoryClaims ==
    ASSUME IndInv, NEW l \in Launch, MakeDirectory(l)
    PROVE  Once!Claim(l) \/ Once!Fail(l)
  <1>1. TypeOK /\ pc[l] = "asked" /\ UNCHANGED asks
    BY DEF IndInv, MakeDirectory, Step
  <1>2. CASE owner[Key(l)] # Nobody
    BY <1>1, <1>2, AnswerStep, ClaimsKept DEF MakeDirectory, Step, Once!Fail
  <1>3. CASE owner[Key(l)] = Nobody
    <2>1. Answer[l] = "none" /\ Answer' = Answer
      BY <1>1, <1>3, AnswerStep DEF MakeDirectory, Step
    <2>2. \A m \in Claims : KeyOf[m] # KeyOf[l]
      BY <1>3, NobodyIsNoLaunch DEF Claims, KeyOf
    <2>3. \A m \in Launch : Key(m) \in Keys /\ Key(m)' = Key(m)
      BY <1>1, KeysKept
    <2>4. owner' = [owner EXCEPT ![Key(l)] = l]
      BY <1>3 DEF MakeDirectory
    <2>5. Claims' = Claims \cup {l}
      BY <1>1, <1>3, <2>3, <2>4, NobodyIsNoLaunch DEF Claims, TypeOK
    <2> QED BY <1>1, <2>1, <2>2, <2>5, ClaimsKept DEF Once!Claim
  <1> QED BY <1>2, <1>3

(* Every step of the launcher is a step of RecipeOnce or invisible in it.  *)
LEMMA OnceStep == ASSUME IndInv, [Next]_vars PROVE [Once!Next]_(Once!vars)
  <1>1. TypeOK
    BY DEF IndInv
  <1>2. ASSUME NEW l \in Launch, MakeDirectory(l) PROVE Once!Next
    BY <1>2, MakeDirectoryClaims DEF Once!Next
  <1>3. ASSUME NEW l \in Launch,
               Ask(l) \/ Prepare(l) \/ StartBox(l) \/ WaitReturns(l) \/ WaitFails(l) \/ RemoveBox(l)
        PROVE  Once!Fail(l) \/ UNCHANGED Once!vars
    <2>1. UNCHANGED <<asks, owner>>
      BY <1>3 DEF Ask, Prepare, StartBox, WaitReturns, WaitFails, RemoveBox, dir
    <2>2. PICK to : /\ pc[l] \notin {"error", "result", "lost"}
                    /\ to \notin {"result", "lost"}
                    /\ pc' = [pc EXCEPT ![l] = to]
      BY <1>3 DEF Ask, Prepare, StartBox, WaitReturns, WaitFails, RemoveBox, Step
    <2> QED BY <1>1, <2>1, <2>2, AnswerStep, ClaimsKept DEF Once!Fail, Once!vars
  <1>4. ASSUME NEW l \in Launch, LoadResult(l) PROVE Once!Return(l) \/ Once!Fail(l)
    <2>1. UNCHANGED <<asks, owner>> /\ pc[l] = "removed"
      BY <1>4 DEF LoadResult, Step, dir
    <2>2. l \in Claims
      BY <2>1 DEF IndInv, GoesOnIfOwner, Prepared, Claims
    <2>3. PICK to \in {"result", "error"} : pc' = [pc EXCEPT ![l] = to]
      BY <1>4 DEF LoadResult, Step
    <2> QED BY <1>1, <2>1, <2>2, <2>3, AnswerStep, ClaimsKept DEF Once!Return, Once!Fail
  <1>5. CASE Crash
    <2> DEFINE some == {l \in Launch : pc[l] \in Serving}
    <2>1. Answer' = [l \in Launch |-> IF l \in some /\ Answer[l] = "none" THEN "lost"
                                      ELSE Answer[l]]
      BY <1>5 DEF Crash, Answer, Serving
    <2>2. UNCHANGED <<KeyOf, Claims>>
      BY <1>5, ClaimsKept DEF Crash, dir
    <2>3. some \in SUBSET Launch
      OBVIOUS
    <2> QED BY <2>1, <2>2, <2>3 DEF Once!Next, Once!Lose
  <1>6. ASSUME NEW l \in Launch, InBox(l) PROVE UNCHANGED Once!vars
    <2>1. UNCHANGED <<asks, pc, owner>>
      BY <1>6 DEF InBox, CopySource, ApplyPatch, RunRecipe, BoxExits, BoxDies, dir
    <2> QED BY <2>1, ClaimsKept DEF Once!vars, Answer
  <1>7. CASE UNCHANGED vars
    BY <1>7, ClaimsKept DEF vars, dir, Once!vars, Answer
  <1> QED BY <1>2, <1>3, <1>4, <1>5, <1>6, <1>7 DEF Next, Serve, Once!Next

(* The launcher implements RecipeOnce: whatever launches ask for, however  *)
(* they interleave and however often the launcher dies, one launch claims  *)
(* a run and recipe and no other ever returns a result for it.             *)
THEOREM LauncherRunsRecipeOnce == Spec => RunsRecipeOnce
  <1>1. Init => Once!Init
    <2> SUFFICES ASSUME Init PROVE Once!Init
      OBVIOUS
    <2>1. Claims = {}
      BY NobodyIsNoLaunch DEF Init, Claims, Keys
    <2>2. Answer = [l \in Launch |-> "none"]
      BY DEF Init, Answer
    <2> QED BY <2>1, <2>2 DEF Once!Init
  <1>2. IndInv /\ [Next]_vars => [Once!Next]_(Once!vars)
    BY OnceStep
  <1> QED BY <1>1, <1>2, ExecutorInvariant, PTL DEF Spec, RunsRecipeOnce, Once!Spec

----------------------------------------------------------------------------
(* The patch                                                               *)

LEMMA AsksStay == Spec => [](asks \in Scenario)
  <1>1. Init => asks \in Scenario
    BY DEF Init
  <1>2. ASSUME [Next]_vars PROVE asks' = asks
    BY <1>2 DEF Next, vars, Ask, Serve, MakeDirectory, Prepare, StartBox, WaitReturns, WaitFails,
                RemoveBox, LoadResult, Crash, InBox, CopySource, ApplyPatch, RunRecipe,
                BoxExits, BoxDies
  <1>3. asks \in Scenario /\ [Next]_vars => (asks \in Scenario)'
    BY <1>2
  <1> QED BY <1>1, <1>3, PTL DEF Spec

(* What is said of one launch.                                             *)
Tested(l) ==
    Patched(l) => /\ Applies(Files(l), Diff(l))
                  /\ WriteWorkspace(Files(l), Diff(l)).ok
                  /\ workspace[Key(l)] = {WriteWorkspace(Files(l), Diff(l)).tree}

(* It goes on being true as long as the container, its request and its     *)
(* workspace are left alone.                                               *)
LEMMA TestedStays ==
    ASSUME NEW l \in Launch, Tested(l), UNCHANGED asks, box'[l].read = box[l].read,
           box'[l].at \in {"patched", "written"} => /\ box[l].at \in {"patched", "written"}
                                                    /\ workspace'[Key(l)] = workspace[Key(l)]
    PROVE  Tested(l)'
  <1>1. Files(l)' = Files(l) /\ Diff(l)' = Diff(l) /\ Key(l)' = Key(l)
    BY DEF Files, Diff, Key
  <1>2. Patched(l)' => Patched(l) /\ workspace'[Key(l)] = workspace[Key(l)]
    BY <1>1 DEF Patched
  <1> QED BY <1>1, <1>2 DEF Tested

(* A step of the launcher does not touch a workspace, and starts at most a *)
(* container of its own.                                                   *)
LEMMA LauncherKeepsTested ==
    ASSUME IndInv, TestedTree, Crash \/ \E m \in Launch : Ask(m) \/ Serve(m)
    PROVE  TestedTree'
  <1> SUFFICES ASSUME NEW l \in Launch PROVE Tested(l)'
    BY DEF TestedTree, Tested
  <1>1. UNCHANGED <<asks, workspace>>
    BY DEF Ask, Serve, MakeDirectory, Prepare, StartBox, WaitReturns, WaitFails, RemoveBox,
           LoadResult, Crash, dir
  <1>2. Tested(l)
    BY DEF TestedTree, Tested
  <1>3. \/ UNCHANGED box
        \/ \E m \in Launch, at \in {"none", "created", "started", "gone"} :
              \/ box' = [box EXCEPT ![m].at = at]
              \/ box' = [box EXCEPT ![m].at = at, ![m].fault = TRUE]
        \/ \E m \in Launch : box' = [box EXCEPT ![m].fault = TRUE]
    BY DEF Ask, Serve, MakeDirectory, Prepare, StartBox, WaitReturns, WaitFails, RemoveBox,
           LoadResult, Crash, BoxStep
  <1>4. box[l] \in Box /\ DOMAIN box = Launch
    BY DEF IndInv, TypeOK
  <1>5. /\ box'[l].read = box[l].read
        /\ box'[l].at \in {"patched", "written"} => box[l].at \in {"patched", "written"}
    <2>1. CASE UNCHANGED box
      BY <2>1
    <2>2. ASSUME NEW m \in Launch, NEW at \in {"none", "created", "started", "gone"},
                 box' = [box EXCEPT ![m].at = at]
          PROVE  box'[l].read = box[l].read /\ box'[l].at \in {box[l].at, at}
      BY <1>4, <2>2 DEF Box
    <2>3. ASSUME NEW m \in Launch, NEW at \in {"none", "created", "started", "gone"},
                 box' = [box EXCEPT ![m].at = at, ![m].fault = TRUE]
          PROVE  box'[l].read = box[l].read /\ box'[l].at \in {box[l].at, at}
      BY <1>4, <2>3 DEF Box
    <2>4. ASSUME NEW m \in Launch, box' = [box EXCEPT ![m].fault = TRUE]
          PROVE  box'[l].read = box[l].read /\ box'[l].at = box[l].at
      BY <1>4, <2>4 DEF Box
    <2> QED BY <1>3, <2>1, <2>2, <2>3, <2>4
  <1> QED BY <1>1, <1>2, <1>5, TestedStays

(* A container that runs writes no workspace but that of its own launch,   *)
(* and ApplyPatch makes it the tree of the diff.                           *)
LEMMA InBoxKeepsTested ==
    ASSUME IndInv, TestedTree, NEW m \in Launch, InBox(m) PROVE TestedTree'
  <1> SUFFICES ASSUME NEW l \in Launch PROVE Tested(l)'
    BY DEF TestedTree, Tested
  <1>1. Tested(l)
    BY DEF TestedTree, Tested
  <1>2. UNCHANGED asks /\ box[m].at \in Alive
    BY DEF InBox, CopySource, ApplyPatch, RunRecipe, BoxExits, BoxDies, BoxStep, Alive
  <1>3. /\ \A k \in Launch : box[k] \in Box
        /\ DOMAIN box = Launch /\ DOMAIN workspace = Keys
    BY DEF IndInv, TypeOK
  <1>4. CASE l # m
    <2>1. box'[l] = box[l]
      BY <1>3, <1>4 DEF InBox, CopySource, ApplyPatch, RunRecipe, BoxExits, BoxDies, Raises, BoxStep
    <2>2. ASSUME box[l].at \in {"patched", "written"} PROVE workspace'[Key(l)] = workspace[Key(l)]
      <3>1. Key(l) # Key(m)
        BY <1>2, <1>4, <2>2, RunningBox DEF Alive
      <3>2. \/ UNCHANGED workspace
            \/ \E w : workspace' = [workspace EXCEPT ![Key(m)] = w]
        BY DEF InBox, CopySource, ApplyPatch, RunRecipe, BoxExits, BoxDies, dir
      <3>3. Key(l) \in Keys
        BY DEF Keys
      <3> QED BY <1>3, <3>1, <3>2, <3>3
    <2> QED BY <1>1, <1>2, <2>1, <2>2, TestedStays
  <1>5. CASE l = m /\ ~ApplyPatch(m)
    <2>1. CASE RunRecipe(m)
      <3>1. box[l].at = "patched" /\ box' = [box EXCEPT ![l].at = "written"] /\ UNCHANGED workspace
        BY <1>5, <2>1 DEF RunRecipe, BoxStep
      <3>2. box'[l].read = box[l].read
        BY <1>3, <3>1 DEF Box
      <3> QED BY <1>1, <1>2, <3>1, <3>2, TestedStays
    <2>2. CASE ~RunRecipe(m)
      <3>1. box'[l].at \notin {"patched", "written"}
        BY <1>3, <1>5, <2>2 DEF InBox, CopySource, BoxExits, BoxDies, Raises, Box
      <3> QED BY <3>1 DEF Tested, Patched
    <2> QED BY <2>1, <2>2
  <1>6. CASE l = m /\ ApplyPatch(m)
    <2> DEFINE written == WriteWorkspace(Files(l), Diff(l))
    <2>1. CASE box' = [box EXCEPT ![l].at = "exited", ![l].ok = FALSE]
      <3>1. box'[l].at = "exited"
        BY <1>3, <2>1 DEF Box
      <3> QED BY <3>1 DEF Tested, Patched
    <2>2. CASE box' = [box EXCEPT ![l].at = "patched"]
      <3>1. box'[l].read = box[l].read /\ box'[l].at = "patched"
        BY <1>3, <2>2 DEF Box
      <3>2. Files(l)' = Files(l) /\ Diff(l)' = Diff(l) /\ Key(l)' = Key(l)
        BY <1>2, <3>1 DEF Files, Diff, Key
      <3>3. Diff(l) # <<>> => /\ Applies(Files(l), Diff(l)) /\ written.ok
                              /\ workspace' = [workspace EXCEPT ![Key(l)] = {written.tree}]
        <4>1. box'[l].at # "exited"
          BY <3>1
        <4>2. ~Raises(l)
          BY <1>3, <4>1 DEF Raises, Box
        <4> QED BY <1>6, <4>2 DEF ApplyPatch
      <3>4. Key(l) \in DOMAIN workspace
        BY <1>3 DEF Keys
      <3>5. Diff(l) # <<>> => workspace'[Key(l)] = {written.tree}
        BY <3>3, <3>4
      <3> HIDE DEF written
      <3>6. Patched(l)' => Diff(l) # <<>>
        BY <3>2 DEF Patched
      <3> QED BY <3>2, <3>3, <3>5, <3>6 DEF Tested, written
    <2> QED BY <1>6, <2>1, <2>2 DEF ApplyPatch, Raises, BoxStep
  <1> QED BY <1>4, <1>5, <1>6

(* The workspace of a container that has patched is what the diff made of  *)
(* the files of its request, until the container is done.                  *)
THEOREM TestedTreeStays == Spec => []TestedTree
  <1>1. Init => TestedTree
    BY DEF Init, TestedTree, Patched
  <1>2. IndInv /\ TestedTree /\ [Next]_vars => TestedTree'
    <2> SUFFICES ASSUME IndInv, TestedTree, [Next]_vars PROVE TestedTree'
      OBVIOUS
    <2>1. CASE UNCHANGED vars
      BY <2>1 DEF vars, dir, TestedTree, Patched, Files, Diff, Key
    <2>2. CASE Crash \/ \E m \in Launch : Ask(m) \/ Serve(m)
      BY <2>2, LauncherKeepsTested
    <2>3. CASE \E m \in Launch : InBox(m)
      BY <2>3, InBoxKeepsTested
    <2> QED BY <2>1, <2>2, <2>3 DEF Next
  <1> QED BY <1>1, <1>2, ExecutorInvariant, PTL DEF Spec

(* A container that has patched had a diff to apply, one that was asked    *)
(* for.                                                                    *)
LEMMA PatchedWasAsked ==
    ASSUME IndInv, asks \in Scenario, NEW l \in Launch, Patched(l)
    PROVE  IsDiff(Diff(l)) /\ IsTree(Files(l))
  <1>1. box[l].read = l
    BY DEF IndInv, ReadsOwnRequest, Patched
  <1> QED BY <1>1, DiffsAreGiven DEF Diff, Files

(* A patch that was tested on the source SHA where it reads it makes the   *)
(* same tree on GitHub, at every path it touches and wherever the tested   *)
(* files were those of the SHA: for every diff, files and source, several  *)
(* sections for a file included.                                           *)
THEOREM PushedIsTested == Spec => []ValidatedIsPushed
  <1>1. IndInv /\ TestedTree /\ asks \in Scenario => ValidatedIsPushed
    <2> DEFINE pushed(l) == PushedTree(Base(l), Diff(l))
    <2> SUFFICES ASSUME IndInv, TestedTree, asks \in Scenario, NEW l \in Launch, Patched(l),
                        \A i \in DOMAIN Diff(l) : Agree(Files(l), Base(l), Diff(l)[i].old)
                 PROVE  /\ Applies(Base(l), Diff(l))
                        /\ \A tree \in workspace[Key(l)] : \A p :
                             p \in Touched(Diff(l)) \/ Agree(Files(l), Base(l), p) =>
                               Agree(tree, pushed(l), p)
      BY DEF ValidatedIsPushed
    <2>1. IsSequence(Diff(l))
      BY PatchedWasAsked DEF IsDiff
    <2>2. /\ Applies(Files(l), Diff(l)) /\ WriteWorkspace(Files(l), Diff(l)).ok
          /\ workspace[Key(l)] = {WriteWorkspace(Files(l), Diff(l)).tree}
      BY DEF TestedTree
    <2>3. /\ Applies(Base(l), Diff(l)) /\ WriteWorkspace(Base(l), Diff(l)).ok
          /\ \A p : Agree(Files(l), Base(l), p) \/ p \in Touched(Diff(l)) =>
               Agree(WriteWorkspace(Files(l), Diff(l)).tree,
                     WriteWorkspace(Base(l), Diff(l)).tree, p)
      BY <2>1, <2>2, WritesAgree
    <2>4. WriteWorkspace(Base(l), Diff(l)).tree = pushed(l)
      BY <2>1, <2>3, WorkspaceIsPushed
    <2> QED BY <2>2, <2>3, <2>4
  <1> QED BY <1>1, ExecutorInvariant, TestedTreeStays, AsksStay, PTL

(* A file that was patched reads as its diff says, line for line, when the *)
(* headers of the diff say where the hunks belong.                         *)
THEOREM PatchedAsSaid == Spec => []PatchMeansWhatItSays
  <1>1. IndInv /\ TestedTree /\ asks \in Scenario => PatchMeansWhatItSays
    <2> SUFFICES ASSUME IndInv, TestedTree, asks \in Scenario,
                        NEW l \in Launch, Patched(l), Len(Diff(l)) = 1
                 PROVE  LET section == Diff(l)[1]
                            lines   == Original(Files(l), section).lines
                        IN  section.new # DevNull /\ SaysWhere(section, lines) =>
                              \A tree \in workspace[Key(l)] :
                                 tree[section.new].lines = Reading(lines, section.hunks)
      BY DEF PatchMeansWhatItSays
    <2> DEFINE section == Diff(l)[1]
               lines   == Original(Files(l), section).lines
    <2> SUFFICES ASSUME section.new # DevNull, SaysWhere(section, lines),
                        NEW tree \in workspace[Key(l)]
                 PROVE  tree[section.new].lines = Reading(lines, section.hunks)
      OBVIOUS
    <2>1. 1 \in DOMAIN Diff(l)
      <3>1. IsSequence(Diff(l))
        BY PatchedWasAsked DEF IsDiff
      <3> QED BY <3>1, Sequence
    <2>2. PlacedHunks(section.hunks)
      <3>1. /\ IsSequence(section.hunks)
            /\ \A k \in DOMAIN section.hunks : IsHunk(section.hunks[k])
        BY <2>1, PatchedWasAsked DEF IsDiff
      <3>2. \A k \in DOMAIN section.hunks : Placed(section.hunks[k])
        BY DEF SaysWhere, Placed
      <3> QED BY <3>1, <3>2 DEF PlacedHunks
    <2>3. /\ SectionApplies(Files(l), section)
          /\ WriteWorkspace(Files(l), Diff(l)).ok
          /\ tree = WriteWorkspace(Files(l), Diff(l)).tree
      BY <2>1 DEF TestedTree, Applies
    <2>4. tree[section.new] = Applied(Files(l), section)
      BY <2>3, OneSection
    <2>5. IsTree(Files(l)) /\ Reading(lines, section.hunks) # <<>>
      BY PatchedWasAsked DEF SaysWhere
    <2> QED BY <2>2, <2>3, <2>4, <2>5, PatchReads
  <1> QED BY <1>1, ExecutorInvariant, TestedTreeStays, AsksStay, PTL
=============================================================================
