--------------------------- MODULE AgentRunProofs ---------------------------
(***************************************************************************)
(* Proofs about AgentRun, for every finite set of tool threads and every   *)
(* budget of turns, calls and money: IndInv is inductive, and from it      *)
(* follow that the two counters of tool calls agree, what a success has    *)
(* kept to, what a run has recorded of its use, and that a scout's claims  *)
(* rest on a stored call.                                                  *)
(*                                                                         *)
(* The steps of the gateway and of the orchestrator leave the threads      *)
(* alone, which one lemma says for all of them; the steps of a tool call   *)
(* have one lemma each.                                                    *)
(***************************************************************************)
EXTENDS AgentRun, FiniteSetTheorems, TLAPS

USE BudgetsAreNatural, BatchAndPrice, CallsAreCounted

(* Threads are counted.                                                    *)
LEMMA ThreadCount ==
    ASSUME NEW S, S \subseteq Thread
    PROVE  IsFiniteSet(S) /\ Cardinality(S) \in Nat /\ (S # {} => Cardinality(S) >= 1)
  <1>1. IsFiniteSet(S) /\ Cardinality(S) \in Nat
    BY ThreadsAreFinite, FS_Subset, FS_CardinalityType
  <1>2. S # {} => Cardinality(S) # 0
    BY <1>1, FS_EmptySet
  <1> QED BY <1>1, <1>2

LEMMA ThreadJoins ==
    ASSUME NEW S, S \subseteq Thread, NEW t \in Thread, t \notin S
    PROVE  Cardinality(S \cup {t}) = Cardinality(S) + 1
  BY ThreadCount, FS_AddElement

LEMMA ThreadLeaves ==
    ASSUME NEW S, S \subseteq Thread, NEW t \in S
    PROVE  Cardinality(S \ {t}) = Cardinality(S) - 1
  BY ThreadCount, FS_RemoveElement

LEMMA NobodyCounts == Cardinality({}) = 0
  BY FS_EmptySet

LEMMA WindowIsNatural == EvidenceCalls \in Nat /\ Rounds \in Nat
  BY DEF EvidenceCalls, Rounds

LEMMA InitInvariant == ASSUME Init PROVE IndInv
  <1> USE DEF Init, RegistryInit, Idle
  <1>1. Called = {} /\ Working = {}
    BY DEF Called, Working
  <1>2. TypeOK
    <2>1. RegistryTypeOK
      BY DEF RegistryTypeOK
    <2>2. role \in Role /\ tools \in BOOLEAN /\ status \in Status /\ pc \in Stage
      BY DEF Status, Stage
    <2>3. requests \in 0..MaxTurns /\ toolCalls \in 0..MaxCalls /\ pending \in 0..MaxBatch
      OBVIOUS
    <2>4. answer \in Answer
      BY DEF Answer, NoAnswer
    <2>5. stored \in [kinds : SUBSET {"artifact", "refusal", "terminal_error"},
                     calls : SUBSET (1..MaxCalls), cost : 0..cost, model : BOOLEAN]
      OBVIOUS
    <2> QED BY <2>1, <2>2, <2>3, <2>4, <2>5 DEF TypeOK
  <1>3. StatusFollows /\ ErrorFollows
    BY DEF StatusFollows, ErrorFollows
  <1>4. ThreadsFollow /\ NumbersAreOwned /\ BudgetsAgree
    BY <1>1 DEF ThreadsFollow, NumbersAreOwned, BudgetsAgree
  <1>5. CallsFit
    BY <1>1, NobodyCounts DEF CallsFit
  <1>6. EvidenceIsLocated
    BY <1>1, WindowIsNatural DEF EvidenceIsLocated, Role
  <1>7. CostIsKnown /\ SuccessIsWithinBudget /\ UsageIsKept /\ EvidenceBacksClaims
    BY DEF CostIsKnown, SuccessIsWithinBudget, UsageIsKept, EvidenceBacksClaims
  <1> QED BY <1>2, <1>3, <1>4, <1>5, <1>6, <1>7 DEF IndInv

----------------------------------------------------------------------------
(* Steps of the gateway and of the orchestrator                            *)

(* Outside a batch the counters agree and no thread is at work.            *)
LEMMA OutsideBatch ==
    ASSUME IndInv, pc # "tools", error # "other"
    PROVE  /\ Called = {} /\ Working = {} /\ pending = 0
           /\ toolCalls = nextSequence - 1
           /\ records = 1..(nextSequence - 1)
           /\ located # 0 => located \in records
  <1>1. Called = {} /\ Working = {} /\ pending = 0
    BY DEF IndInv, ThreadsFollow, Called, Working
  <1>2. toolCalls = nextSequence - 1
    BY <1>1, NobodyCounts DEF IndInv, CallsFit, TypeOK
  <1>3. records = 1..(nextSequence - 1)
    BY <1>1 DEF IndInv, NumbersAreOwned
  <1>4. located # 0 => located \in records
    BY DEF IndInv, EvidenceIsLocated, ThreadsFollow
  <1> QED BY <1>1, <1>2, <1>3, <1>4

(* What is about threads holds on when they are left alone.                *)
LEMMA ThreadsLeftAlone ==
    ASSUME IndInv, UNCHANGED <<registryVars, role, tools, toolCalls, pending>>,
           pc # "tools" \/ BatchReturns, pc' # "tools",
           error' # "other" => error # "other",
           pc' = "checked" /\ role = "scout" /\ answer'.claims => located # 0
    PROVE  /\ ThreadsFollow' /\ NumbersAreOwned' /\ CallsFit' /\ BudgetsAgree'
           /\ EvidenceIsLocated'
  <1> USE DEF IndInv, registryVars
  <1>1. Called' = Called /\ Working' = Working
    BY DEF Called, Working
  <1>2. ThreadsFollow'
    BY <1>1 DEF ThreadsFollow, BatchReturns
  <1>3. NumbersAreOwned'
    BY <1>1 DEF NumbersAreOwned
  <1>4. CallsFit'
    BY <1>1 DEF CallsFit
  <1>5. BudgetsAgree'
    BY DEF BudgetsAgree
  <1>6. EvidenceIsLocated'
    BY <1>1 DEF EvidenceIsLocated, EvidenceCalls, Rounds
  <1> QED BY <1>2, <1>3, <1>4, <1>5, <1>6

(* The three promises are about a run that has ended.                      *)
LEMMA NotYetEnded ==
    ASSUME pc' # "end", StatusFollows', TypeOK'
    PROVE  SuccessIsWithinBudget' /\ UsageIsKept' /\ EvidenceBacksClaims'
  <1>1. status' # "succeeded"
    BY DEF StatusFollows, TypeOK
  <1> QED BY <1>1 DEF SuccessIsWithinBudget, UsageIsKept, EvidenceBacksClaims

LEMMA StartInvariant ==
    ASSUME IndInv, NotConfigured \/ SnapshotUnavailable \/ SnapshotFails \/ StartAgent
    PROVE  IndInv'
  <1> USE DEF IndInv, NotConfigured, SnapshotUnavailable, SnapshotFails, StartAgent, loopVars
  <1>1. /\ pc = "leased" /\ pc' \in {"asking", "end"} /\ error = "none" /\ ~stored.model
        /\ status = "leased"
        /\ UNCHANGED <<registryVars, role, tools, loopVars, lastCall, error, stored>>
        /\ pc' = "asking" => status' = "running"
        /\ pc' = "end" => status' \in {"failed", "refused"}
    BY DEF Move, ErrorFollows, StatusFollows
  <1>2. TypeOK'
    BY <1>1 DEF TypeOK, RegistryTypeOK, registryVars, Status, Stage
  <1>3. StatusFollows' /\ ErrorFollows'
    BY <1>1 DEF StatusFollows, ErrorFollows, Stage
  <1>4. ThreadsFollow' /\ NumbersAreOwned' /\ CallsFit' /\ BudgetsAgree' /\ EvidenceIsLocated'
    BY <1>1, ThreadsLeftAlone
  <1>5. CostIsKnown'
    BY <1>1 DEF CostIsKnown
  <1>6. SuccessIsWithinBudget' /\ UsageIsKept' /\ EvidenceBacksClaims'
    BY <1>1 DEF SuccessIsWithinBudget, UsageIsKept, EvidenceBacksClaims
  <1> QED BY <1>2, <1>3, <1>4, <1>5, <1>6

(* A request that got no answer ends the loop.                             *)
LEMMA StopInvariant ==
    ASSUME IndInv, TurnsExhausted \/ ProviderRefuses \/ ConfigurationRefused \/ RequestBreaks
    PROVE  IndInv'
  <1> USE DEF IndInv, TurnsExhausted, ProviderRefuses, ConfigurationRefused, RequestBreaks,
              GatewayEnds, Stop, loopVars
  <1>1. /\ pc = "asking" /\ pc' = "stopped" /\ error = "none" /\ status = "running"
        /\ error' \in {"budget", "gateway", "value", "other"}
        /\ error' = "budget" => lastCall' = cost
        /\ lastCall' \in {cost, lastCall}
        /\ UNCHANGED <<registryVars, role, tools, status, loopVars, stored>>
    BY DEF ErrorFollows, StatusFollows, CostIsKnown, TypeOK, Stage
  <1>2. TypeOK'
    BY <1>1 DEF TypeOK, RegistryTypeOK, registryVars, Stage
  <1>3. StatusFollows' /\ ErrorFollows'
    BY <1>1 DEF StatusFollows, ErrorFollows, Stage
  <1>4. ThreadsFollow' /\ NumbersAreOwned' /\ CallsFit' /\ BudgetsAgree' /\ EvidenceIsLocated'
    BY <1>1, ThreadsLeftAlone
  <1>5. CostIsKnown'
    BY <1>1 DEF CostIsKnown
  <1>6. SuccessIsWithinBudget' /\ UsageIsKept' /\ EvidenceBacksClaims'
    BY <1>1, <1>2, <1>3, NotYetEnded
  <1> QED BY <1>2, <1>3, <1>4, <1>5, <1>6

(* What every response does, whatever it is.                               *)
LEMMA Responded ==
    ASSUME IndInv, Respond
    PROVE  /\ pc = "asking" /\ error = "none" /\ status = "running" /\ ~stored.model
           /\ requests' \in 1..MaxTurns
           /\ cost' \in Nat /\ cost' >= cost
           /\ lastCall \in 0..cost'
           /\ stored \in [kinds : SUBSET {"artifact", "refusal", "terminal_error"},
                          calls : SUBSET (1..MaxCalls), cost : 0..cost', model : BOOLEAN]
  <1> USE DEF IndInv, TypeOK, Respond
  <1>1. pc = "asking" /\ error = "none" /\ status = "running" /\ ~stored.model
    BY DEF ErrorFollows, StatusFollows, Stage
  <1>2. requests' \in 1..MaxTurns
    OBVIOUS
  <1>3. cost' \in Nat /\ cost' >= cost
    OBVIOUS
  <1>4. 0..cost \subseteq 0..cost'
    BY <1>3
  <1>5. stored \in [kinds : SUBSET {"artifact", "refusal", "terminal_error"},
                    calls : SUBSET (1..MaxCalls), cost : 0..cost', model : BOOLEAN]
    BY <1>4
  <1> QED BY <1>1, <1>2, <1>3, <1>4, <1>5

(* A response that ends outside a batch.                                   *)
LEMMA ResponseInvariant ==
    ASSUME IndInv, Respond,
           UNCHANGED <<registryVars, role, tools, status, toolCalls, pending, stored>>,
           retried' \in BOOLEAN, answer' \in Answer,
           \/ pc' \in {"asking", "answered"} /\ UNCHANGED <<lastCall, error>>
           \/ pc' = "stopped" /\ error' \in {"budget", "gateway", "value"} /\ lastCall' = cost'
    PROVE  IndInv'
  <1> USE DEF IndInv
  <1>1. /\ pc = "asking" /\ error = "none" /\ status = "running" /\ ~stored.model
        /\ requests' \in 1..MaxTurns
        /\ cost' \in Nat /\ lastCall' \in 0..cost'
        /\ stored' \in [kinds : SUBSET {"artifact", "refusal", "terminal_error"},
                        calls : SUBSET (1..MaxCalls), cost : 0..cost', model : BOOLEAN]
    BY Responded
  <1>2. TypeOK'
    BY <1>1 DEF TypeOK, RegistryTypeOK, registryVars, Stage
  <1>3. StatusFollows' /\ ErrorFollows'
    BY <1>1 DEF StatusFollows, ErrorFollows, Stage
  <1>4. ThreadsFollow' /\ NumbersAreOwned' /\ CallsFit' /\ BudgetsAgree' /\ EvidenceIsLocated'
    BY <1>1, ThreadsLeftAlone
  <1>5. CostIsKnown'
    BY <1>1 DEF CostIsKnown
  <1>6. SuccessIsWithinBudget' /\ UsageIsKept' /\ EvidenceBacksClaims'
    BY <1>1, <1>2, <1>3, NotYetEnded
  <1> QED BY <1>2, <1>3, <1>4, <1>5, <1>6

LEMMA AskInvariant == ASSUME IndInv, AskForTools PROVE IndInv'
  <1> USE DEF IndInv, AskForTools
  <1>0. retried' \in BOOLEAN /\ answer' \in Answer
    BY DEF TypeOK
  <1>1. PICK calls \in 1..MaxBatch :
          \/ /\ toolCalls + calls > MaxCalls
             /\ UNCHANGED pending
             /\ GatewayEnds("budget")
          \/ /\ toolCalls + calls <= MaxCalls
             /\ pending' = calls
             /\ pc' = "tools"
             /\ UNCHANGED <<lastCall, error>>
    OBVIOUS
  <1>2. CASE GatewayEnds("budget") /\ UNCHANGED pending
    BY <1>0, <1>2, ResponseInvariant DEF GatewayEnds, Stop
  <1>3. CASE /\ toolCalls + calls <= MaxCalls
             /\ pending' = calls
             /\ pc' = "tools"
             /\ UNCHANGED <<lastCall, error>>
    <2> USE <1>3
    <2>1. /\ pc = "asking" /\ error = "none" /\ status = "running" /\ ~stored.model
          /\ requests' \in 1..MaxTurns
          /\ cost' \in Nat /\ lastCall' \in 0..cost'
          /\ stored' \in [kinds : SUBSET {"artifact", "refusal", "terminal_error"},
                          calls : SUBSET (1..MaxCalls), cost : 0..cost', model : BOOLEAN]
      BY Responded
    <2>2. Called = {} /\ Working = {} /\ toolCalls = nextSequence - 1 /\ pending = 0
      BY <2>1, OutsideBatch
    <2>3. Called' = Called /\ Working' = Working
      BY DEF Called, Working, registryVars
    <2>4. TypeOK'
      BY <1>0, <2>1 DEF TypeOK, RegistryTypeOK, registryVars, Stage
    <2>5. StatusFollows' /\ ErrorFollows'
      BY <2>1 DEF StatusFollows, ErrorFollows, Stage
    <2>6. ThreadsFollow' /\ NumbersAreOwned' /\ BudgetsAgree'
      BY <2>1, <2>2, <2>3 DEF ThreadsFollow, NumbersAreOwned, BudgetsAgree, registryVars
    <2>7. CallsFit'
      BY <2>2, <2>3, NobodyCounts DEF CallsFit, TypeOK, RegistryTypeOK, registryVars
    <2>8. EvidenceIsLocated'
      BY <2>3 DEF EvidenceIsLocated, EvidenceCalls, Rounds, registryVars
    <2>9. CostIsKnown'
      BY <2>1 DEF CostIsKnown
    <2>10. SuccessIsWithinBudget' /\ UsageIsKept' /\ EvidenceBacksClaims'
      BY <2>4, <2>5, NotYetEnded
    <2> QED BY <2>4, <2>5, <2>6, <2>7, <2>8, <2>9, <2>10
  <1> QED BY <1>1, <1>2, <1>3

LEMMA AnswerInvariant ==
    ASSUME IndInv, AnswerIsValid \/ AnswerIsInvalid
    PROVE  IndInv'
  <1>1. retried \in BOOLEAN /\ answer \in Answer
    BY DEF IndInv, TypeOK
  <1>2. CASE AnswerIsValid
    BY <1>1, <1>2, ResponseInvariant DEF AnswerIsValid
  <1>3. CASE AnswerIsInvalid
    BY <1>1, <1>3, ResponseInvariant DEF AnswerIsInvalid, GatewayEnds, Stop
  <1> QED BY <1>2, <1>3

(* The batch ends, and what it counted is what the registry counted.       *)
LEMMA BatchInvariant == ASSUME IndInv, BatchReturns PROVE IndInv'
  <1> USE DEF IndInv, BatchReturns, loopVars
  <1>1. error = "none" /\ status = "running" /\ ~stored.model
    BY DEF ErrorFollows, StatusFollows, Stage
  <1>2. TypeOK'
    BY DEF TypeOK, RegistryTypeOK, registryVars, Stage
  <1>3. StatusFollows' /\ ErrorFollows'
    BY <1>1 DEF StatusFollows, ErrorFollows, Stage
  <1>4. ThreadsFollow' /\ NumbersAreOwned' /\ CallsFit' /\ BudgetsAgree' /\ EvidenceIsLocated'
    BY ThreadsLeftAlone
  <1>5. CostIsKnown'
    BY <1>1 DEF CostIsKnown
  <1>6. SuccessIsWithinBudget' /\ UsageIsKept' /\ EvidenceBacksClaims'
    BY <1>2, <1>3, NotYetEnded
  <1> QED BY <1>2, <1>3, <1>4, <1>5, <1>6

(* The output is judged, by the gateway and then by the role agent.        *)
LEMMA JudgeInvariant == ASSUME IndInv, Return \/ AgentChecks PROVE IndInv'
  <1> USE DEF IndInv, Return, AgentChecks, GatewayEnds, Stop, loopVars
  <1>1. /\ pc \in {"answered", "returned"} /\ error = "none" /\ status = "running"
        /\ ~stored.model
        /\ UNCHANGED <<registryVars, role, tools, status, loopVars, stored>>
    BY DEF ErrorFollows, StatusFollows, Stage
  <1>2. \/ /\ pc' = "stopped" /\ error' \in {"budget", "value"}
           /\ lastCall' = cost
        \/ /\ pc' = "returned" /\ error' = "none"
           /\ lastCall' = cost /\ cost <= MaxUsd
        \/ /\ pc' = "checked" /\ error' = "none"
           /\ lastCall' = cost /\ cost <= MaxUsd
           /\ role = "scout" /\ answer.claims => located > 0
    BY <1>1 DEF CostIsKnown
  <1>3. TypeOK'
    BY <1>1, <1>2 DEF TypeOK, RegistryTypeOK, registryVars, Stage
  <1>4. StatusFollows' /\ ErrorFollows'
    BY <1>1, <1>2 DEF StatusFollows, ErrorFollows, Stage
  <1>5. ThreadsFollow' /\ NumbersAreOwned' /\ CallsFit' /\ BudgetsAgree' /\ EvidenceIsLocated'
    BY <1>1, <1>2, ThreadsLeftAlone DEF TypeOK, RegistryTypeOK
  <1>6. CostIsKnown'
    BY <1>1, <1>2 DEF CostIsKnown
  <1>7. SuccessIsWithinBudget' /\ UsageIsKept' /\ EvidenceBacksClaims'
    BY <1>2, <1>3, <1>4, NotYetEnded
  <1> QED BY <1>3, <1>4, <1>5, <1>6, <1>7

(* What is written at the end is what the registry and the gateway know.   *)
LEMMA RecordedUsage ==
    ASSUME IndInv, pc \in {"stopped", "checked"}, error # "other"
    PROVE  /\ pc = "checked" \/ error = "budget" => lastCall = cost
           /\ toolCalls = nextSequence - 1
           /\ \A kinds : Records(kinds).calls = 1..(nextSequence - 1)
           /\ located # 0 => located \in records
  <1> USE DEF IndInv
  <1>1. pc = "checked" \/ error = "budget" => lastCall = cost
    BY DEF CostIsKnown
  <1>2. toolCalls = nextSequence - 1 /\ records = 1..(nextSequence - 1)
        /\ (located # 0 => located \in records)
    BY OutsideBatch
  <1>3. ~tools => 1..(nextSequence - 1) = {}
    BY DEF ThreadsFollow
  <1>4. \A kinds : Records(kinds).calls = 1..(nextSequence - 1)
    BY <1>2, <1>3 DEF Records
  <1> QED BY <1>1, <1>2, <1>4

(* The rows written have their types.                                      *)
LEMMA RecordsAreTyped ==
    ASSUME TypeOK, NEW kinds \in SUBSET {"artifact", "refusal", "terminal_error"}
    PROVE  Records(kinds) \in [kinds : SUBSET {"artifact", "refusal", "terminal_error"},
                               calls : SUBSET (1..MaxCalls), cost : 0..cost, model : BOOLEAN]
  BY DEF TypeOK, RegistryTypeOK, Records

LEMMA ErrorInvariant == ASSUME IndInv, RecordError PROVE IndInv'
  <1> USE DEF IndInv, RecordError, Move, loopVars
  <1>1. /\ error \in {"budget", "gateway", "value", "other"}
        /\ status' \in {"budget_exhausted", "refused", "failed"}
        /\ error = "other" => status' = "failed"
        /\ status' = "budget_exhausted" => error = "budget"
    BY DEF ErrorFollows, TypeOK
  <1>2. TypeOK'
    <2>1. stored' \in [kinds : SUBSET {"artifact", "refusal", "terminal_error"},
                       calls : SUBSET (1..MaxCalls), cost : 0..cost, model : BOOLEAN]
      BY RecordsAreTyped
    <2> QED BY <1>1, <2>1 DEF TypeOK, RegistryTypeOK, registryVars, Stage, Status
  <1>3. StatusFollows' /\ ErrorFollows'
    BY <1>1 DEF StatusFollows, ErrorFollows, Stage
  <1>4. ThreadsFollow' /\ NumbersAreOwned' /\ CallsFit' /\ BudgetsAgree' /\ EvidenceIsLocated'
    BY ThreadsLeftAlone
  <1>5. CostIsKnown'
    BY DEF CostIsKnown
  <1>6. SuccessIsWithinBudget' /\ EvidenceBacksClaims'
    BY <1>1 DEF SuccessIsWithinBudget, EvidenceBacksClaims
  <1>7. UsageIsKept'
    <2>1. CASE error = "other"
      BY <1>1, <2>1 DEF UsageIsKept
    <2>2. CASE error # "other"
      <3>1. /\ status' = "budget_exhausted" => stored'.cost = cost
            /\ stored'.calls = 1..(nextSequence - 1)
            /\ "artifact" \notin stored'.kinds
        BY <1>1, <2>2, RecordedUsage DEF Records
      <3> QED BY <3>1 DEF UsageIsKept, registryVars
    <2> QED BY <2>1, <2>2
  <1> QED BY <1>2, <1>3, <1>4, <1>5, <1>6, <1>7

LEMMA ArtifactInvariant == ASSUME IndInv, StoreArtifact PROVE IndInv'
  <1> USE DEF IndInv, StoreArtifact, loopVars
  <1>1. PICK kinds \in SUBSET {"artifact", "refusal", "terminal_error"} :
          stored' = Records(kinds)
    OBVIOUS
  <1>2. error = "none" /\ status' \in {"refused", "succeeded"}
    BY DEF ErrorFollows
  <1>3. TypeOK'
    <2>1. stored' \in [kinds : SUBSET {"artifact", "refusal", "terminal_error"},
                       calls : SUBSET (1..MaxCalls), cost : 0..cost, model : BOOLEAN]
      BY <1>1, RecordsAreTyped
    <2> QED BY <1>2, <2>1 DEF TypeOK, RegistryTypeOK, registryVars, Stage, Status
  <1>4. StatusFollows' /\ ErrorFollows'
    BY <1>2 DEF StatusFollows, ErrorFollows, Stage
  <1>5. ThreadsFollow' /\ NumbersAreOwned' /\ CallsFit' /\ BudgetsAgree' /\ EvidenceIsLocated'
    BY <1>2, ThreadsLeftAlone
  <1>6. CostIsKnown'
    BY DEF CostIsKnown
  <1>7. /\ lastCall = cost /\ cost <= MaxUsd
        /\ toolCalls = nextSequence - 1
        /\ stored'.calls = 1..(nextSequence - 1) /\ stored'.cost = cost
        /\ located # 0 => located \in records
    BY <1>1, <1>2, RecordedUsage DEF CostIsKnown, Records
  <1>8. SuccessIsWithinBudget' /\ UsageIsKept'
    BY <1>7 DEF SuccessIsWithinBudget, UsageIsKept, registryVars
  <1>9. EvidenceBacksClaims'
    <2>1. role = "scout" /\ answer.claims =>
            located \in 1..(nextSequence - 1) /\ located <= EvidenceCalls
      BY <1>7 DEF EvidenceIsLocated, NumbersAreOwned
    <2> QED BY <1>7, <2>1 DEF EvidenceBacksClaims, EvidenceCalls, Rounds, registryVars
  <1> QED BY <1>3, <1>4, <1>5, <1>6, <1>8, <1>9

----------------------------------------------------------------------------
(* Steps of a tool call                                                    *)

Rest == <<role, tools, status, requests, cost, retried, answer, lastCall, stored>>

(* A call belongs to the batch that the model waits for, or was left over  *)
(* by an exception: it disturbs no run that has kept a promise.            *)
LEMMA CallIsExpected ==
    ASSUME IndInv, NEW t \in Thread, pending > 0 \/ thread[t].at # "idle"
    PROVE  (pc = "tools" /\ error = "none" /\ status = "running") \/ error = "other"
  <1>1. pc = "tools" \/ error = "other"
    BY DEF IndInv, ThreadsFollow, TypeOK
  <1> QED BY <1>1 DEF IndInv, ErrorFollows, StatusFollows, Stage

(* What a call leaves alone.                                               *)
LEMMA CallDisturbsNoPromise ==
    ASSUME IndInv, UNCHANGED Rest,
           (pc = "tools" /\ error = "none" /\ status = "running") \/ error = "other",
           \/ UNCHANGED <<pc, error>>
           \/ pc = "tools" /\ pc' = "stopped" /\ error' = "other"
    PROVE  /\ StatusFollows' /\ ErrorFollows' /\ CostIsKnown'
           /\ SuccessIsWithinBudget' /\ UsageIsKept' /\ EvidenceBacksClaims'
  <1> USE DEF IndInv, Rest
  <1>1. StatusFollows' /\ ErrorFollows'
    BY DEF StatusFollows, ErrorFollows, Stage
  <1>2. CostIsKnown'
    BY DEF CostIsKnown, ErrorFollows
  <1>3. status' # "succeeded" /\ (pc' = "end" => status' = "failed")
    BY DEF StatusFollows, ErrorFollows
  <1> QED BY <1>1, <1>2, <1>3 DEF SuccessIsWithinBudget, UsageIsKept, EvidenceBacksClaims

(* The threads after one has moved to another record.                      *)
LEMMA OneThreadMoves ==
    ASSUME RegistryTypeOK, NEW t \in Thread,
           NEW r \in [at : {"idle", "called", "executing", "executed", "exhausted", "raised"},
                      sequence : 0..MaxCalls, evidence : BOOLEAN],
           thread' = [thread EXCEPT ![t] = r]
    PROVE  /\ thread' \in [Thread -> [at : {"idle", "called", "executing", "executed",
                                            "exhausted", "raised"},
                                      sequence : 0..MaxCalls, evidence : BOOLEAN]]
           /\ thread'[t] = r
           /\ \A u \in Thread \ {t} : thread'[u] = thread[u]
           /\ Called' = IF r.at = "called" THEN Called \cup {t} ELSE Called \ {t}
           /\ Working' = IF r.at \in {"executing", "executed", "raised"}
                           THEN Working \cup {t} ELSE Working \ {t}
  <1>1. /\ thread' \in [Thread -> [at : {"idle", "called", "executing", "executed",
                                         "exhausted", "raised"},
                                   sequence : 0..MaxCalls, evidence : BOOLEAN]]
        /\ thread'[t] = r
        /\ \A u \in Thread \ {t} : thread'[u] = thread[u]
    BY DEF RegistryTypeOK
  <1>2. Called' = IF r.at = "called" THEN Called \cup {t} ELSE Called \ {t}
    BY <1>1 DEF Called
  <1>3. Working' = IF r.at \in {"executing", "executed", "raised"}
                     THEN Working \cup {t} ELSE Working \ {t}
    BY <1>1 DEF Working
  <1> QED BY <1>1, <1>2, <1>3

LEMMA ThreadIsTyped ==
    ASSUME IndInv, NEW t \in Thread
    PROVE  /\ thread[t] \in [at : {"idle", "called", "executing", "executed", "exhausted",
                                   "raised"},
                             sequence : 0..MaxCalls, evidence : BOOLEAN]
           /\ RegistryTypeOK /\ TypeOK
  BY DEF IndInv, TypeOK, RegistryTypeOK

LEMMA StartCallInvariant ==
    ASSUME IndInv, NEW t \in Thread, StartCall(t)
    PROVE  IndInv'
  <1> USE DEF StartCall
  <1> DEFINE r == [thread[t] EXCEPT !.at = "called"]
  <1>1. /\ r.at = "called"
        /\ r \in [at : {"idle", "called", "executing", "executed", "exhausted", "raised"},
                  sequence : 0..MaxCalls, evidence : BOOLEAN]
    BY ThreadIsTyped
  <1>2. thread' = [thread EXCEPT ![t] = r]
    OBVIOUS
  <1> HIDE DEF r
  <1>3. /\ RegistryTypeOK'
        /\ \A u \in Thread \ {t} : thread'[u] = thread[u]
        /\ thread'[t].at = "called"
        /\ Called' = Called \cup {t} /\ t \notin Called
        /\ Working' = Working /\ t \notin Working
    BY <1>1, <1>2, ThreadIsTyped, OneThreadMoves DEF RegistryTypeOK, Called, Working
  <1>4. pending \in 1..MaxBatch /\ pending' = pending - 1 /\ pending' \in 0..MaxBatch
    BY DEF IndInv, TypeOK
  <1>5. pc = "tools" /\ error = "none" /\ status = "running"
    BY <1>4, CallIsExpected DEF IndInv, ErrorFollows
  <1>6. TypeOK'
    BY <1>3, <1>4 DEF IndInv, TypeOK
  <1>7. /\ StatusFollows' /\ ErrorFollows' /\ CostIsKnown'
        /\ SuccessIsWithinBudget' /\ UsageIsKept' /\ EvidenceBacksClaims'
    BY <1>5, CallDisturbsNoPromise DEF Rest
  <1>8. ThreadsFollow'
    BY <1>4, <1>5 DEF IndInv, ThreadsFollow
  <1>9. NumbersAreOwned'
    BY <1>3 DEF IndInv, NumbersAreOwned, Working
  <1>10. CallsFit'
    <2>1. Cardinality(Called') = Cardinality(Called) + 1 /\ Cardinality(Called) \in Nat
      BY <1>3, ThreadJoins, ThreadCount DEF Called
    <2> QED BY <1>3, <1>4, <2>1, ThreadIsTyped DEF IndInv, CallsFit, RegistryTypeOK
  <1>11. BudgetsAgree'
    BY <1>3 DEF IndInv, BudgetsAgree
  <1>12. EvidenceIsLocated'
    BY <1>3 DEF IndInv, EvidenceIsLocated, EvidenceCalls, Rounds, Working
  <1> QED BY <1>6, <1>7, <1>8, <1>9, <1>10, <1>11, <1>12 DEF IndInv

LEMMA TakeSequenceInvariant ==
    ASSUME IndInv, NEW t \in Thread, TakeSequence(t, Window),
           UNCHANGED <<role, tools, status, pc, loopVars, lastCall, error, stored>>
    PROVE  IndInv'
  <1> USE DEF loopVars
  <1>1. thread[t].at = "called" /\ t \in Called /\ t \notin Working
    BY DEF TakeSequence, Called, Working
  <1>2. Cardinality(Called) >= 1 /\ Cardinality(Called) \in Nat /\ Cardinality(Working) \in Nat
    BY <1>1, ThreadCount DEF Called, Working
  <1>3. /\ nextSequence \in 1..(MaxCalls + 1) /\ pending \in 0..MaxBatch
        /\ nextSequence - 1 + pending + Cardinality(Called) <= MaxCalls
    BY DEF IndInv, TypeOK, RegistryTypeOK, CallsFit
  <1>4. nextSequence \in 1..MaxCalls
    BY <1>2, <1>3
  <1> DEFINE r == [at |-> "executing", sequence |-> nextSequence,
                   evidence |-> Window.open /\ nextSequence <= Window.calls]
  <1>5. thread' = [thread EXCEPT ![t] = r] /\ nextSequence' = nextSequence + 1
        /\ UNCHANGED <<records, located>>
    BY <1>4 DEF TakeSequence
  <1>6. role = "scout" => Window.calls = EvidenceCalls
    BY DEF Window
  <1>7. /\ r.at = "executing" /\ r.sequence = nextSequence
        /\ role = "scout" /\ r.evidence => nextSequence <= EvidenceCalls
        /\ r \in [at : {"idle", "called", "executing", "executed", "exhausted", "raised"},
                  sequence : 0..MaxCalls, evidence : BOOLEAN]
    <2>1. (Window.open /\ nextSequence <= Window.calls) \in BOOLEAN
      BY Zenon
    <2>2. r \in [at : {"idle", "called", "executing", "executed", "exhausted", "raised"},
                 sequence : 0..MaxCalls, evidence : BOOLEAN]
      <3>1. nextSequence \in 0..MaxCalls
        BY <1>4
      <3> QED BY <2>1, <3>1, Zenon
    <2>3. role = "scout" /\ r.evidence => nextSequence <= EvidenceCalls
      BY <1>6, Zenon
    <2> QED BY <2>2, <2>3, Zenon
  <1> HIDE DEF r
  <1>8. /\ thread' \in [Thread -> [at : {"idle", "called", "executing", "executed",
                                         "exhausted", "raised"},
                                   sequence : 0..MaxCalls, evidence : BOOLEAN]]
        /\ \A u \in Thread \ {t} : thread'[u] = thread[u]
        /\ thread'[t] = r
        /\ Called' = Called \ {t}
        /\ Working' = Working \cup {t}
    BY <1>5, <1>7, ThreadIsTyped, OneThreadMoves
  <1>9. (pc = "tools" /\ error = "none" /\ status = "running") \/ error = "other"
    BY <1>1, CallIsExpected
  <1>10. TypeOK'
    <2>1. RegistryTypeOK'
      BY <1>4, <1>5, <1>8, ThreadIsTyped DEF RegistryTypeOK
    <2> QED BY <2>1, ThreadIsTyped DEF TypeOK
  <1>11. /\ StatusFollows' /\ ErrorFollows' /\ CostIsKnown'
         /\ SuccessIsWithinBudget' /\ UsageIsKept' /\ EvidenceBacksClaims'
    BY <1>9, CallDisturbsNoPromise DEF Rest
  <1>12. ThreadsFollow'
    <2>1. tools /\ (pc # "tools" => pending = 0)
      BY <1>1 DEF IndInv, ThreadsFollow
    <2> QED BY <1>9, <2>1 DEF ThreadsFollow
  <1>13. NumbersAreOwned'
    <2>1. \A u \in Working : thread'[u] = thread[u]
                             /\ thread[u].sequence \in 1..(nextSequence - 1) \ records
      BY <1>1, <1>8 DEF IndInv, NumbersAreOwned, Working
    <2>2. records \subseteq 1..(nextSequence - 1)
      BY DEF IndInv, NumbersAreOwned
    <2>3. 1..(nextSequence' - 1) = 1..(nextSequence - 1) \cup {nextSequence}
          /\ nextSequence \notin 1..(nextSequence - 1)
      BY <1>4, <1>5
    <2>4. {thread'[u].sequence : u \in Working'}
            = {thread[u].sequence : u \in Working} \cup {nextSequence}
      BY <1>7, <1>8, <2>1
    <2>5. \A u \in Working' : thread'[u].sequence \in 1..(nextSequence' - 1) \ records'
      BY <1>5, <1>7, <1>8, <2>1, <2>2, <2>3
    <2>6. \A u, v \in Working' : thread'[u].sequence = thread'[v].sequence => u = v
      <3>1. \A u, v \in Working : thread[u].sequence = thread[v].sequence => u = v
        BY DEF IndInv, NumbersAreOwned
      <3> QED BY <1>7, <1>8, <2>1, <2>3, <3>1
    <2>7. error # "other" =>
            1..(nextSequence' - 1) = records' \cup {thread'[u].sequence : u \in Working'}
      <3>1. error # "other" =>
              1..(nextSequence - 1) = records \cup {thread[u].sequence : u \in Working}
        BY DEF IndInv, NumbersAreOwned
      <3> QED BY <1>5, <2>3, <2>4, <3>1
    <2> QED BY <1>5, <2>2, <2>3, <2>5, <2>6, <2>7 DEF NumbersAreOwned
  <1>14. CallsFit'
    <2>1. Cardinality(Called') = Cardinality(Called) - 1
      BY <1>1, <1>8, ThreadLeaves DEF Called
    <2>2. Cardinality(Working') = Cardinality(Working) + 1
      BY <1>1, <1>8, ThreadJoins DEF Working
    <2>3. toolCalls \in Nat
      BY DEF IndInv, TypeOK
    <2> QED BY <1>2, <1>3, <1>5, <2>1, <2>2, <2>3 DEF IndInv, CallsFit
  <1>15. BudgetsAgree'
    BY <1>7, <1>8 DEF IndInv, BudgetsAgree
  <1>16. EvidenceIsLocated'
    <2>1. located # 0 => \/ located \in records
                         \/ \E u \in Thread \ {t} : thread[u].at = "executed"
                                                    /\ thread[u].sequence = located
      BY <1>1 DEF IndInv, EvidenceIsLocated
    <2>2. role = "scout" => /\ tools /\ located <= EvidenceCalls
                            /\ \A u \in Working' : thread'[u].evidence =>
                                                   thread'[u].sequence <= EvidenceCalls
      BY <1>1, <1>7, <1>8 DEF IndInv, EvidenceIsLocated, Working
    <2>3. EvidenceCalls' = EvidenceCalls
      BY DEF EvidenceCalls, Rounds
    <2>4. pc = "checked" /\ role = "scout" /\ answer.claims => located # 0
      BY DEF IndInv, EvidenceIsLocated
    <2> QED BY <1>5, <1>8, <2>1, <2>2, <2>3, <2>4 DEF EvidenceIsLocated
  <1> QED BY <1>10, <1>11, <1>12, <1>13, <1>14, <1>15, <1>16 DEF IndInv

(* A tool that executes keeps its number; what it finds is in the window.  *)
LEMMA ExecuteInvariant ==
    ASSUME IndInv, NEW t \in Thread, Execute(t),
           UNCHANGED <<role, tools, status, pc, loopVars, lastCall, error, stored>>
    PROVE  IndInv'
  <1> USE DEF loopVars
  <1>1. thread[t].at = "executing" /\ t \in Working
    BY DEF Execute, Working
  <1>2. PICK at \in {"executed", "raised"} :
          /\ thread' = [thread EXCEPT ![t].at = at]
          /\ UNCHANGED <<nextSequence, records>>
          /\ \/ UNCHANGED located
             \/ /\ at = "executed" /\ thread[t].evidence /\ located = 0
                /\ located' = thread[t].sequence
    BY DEF Execute
  <1> DEFINE r == [thread[t] EXCEPT !.at = at]
  <1>3. /\ r.at = at /\ r.sequence = thread[t].sequence /\ r.evidence = thread[t].evidence
        /\ r \in [at : {"idle", "called", "executing", "executed", "exhausted", "raised"},
                  sequence : 0..MaxCalls, evidence : BOOLEAN]
    BY ThreadIsTyped
  <1>4. thread' = [thread EXCEPT ![t] = r]
    BY <1>2
  <1> HIDE DEF r
  <1>5. /\ thread' \in [Thread -> [at : {"idle", "called", "executing", "executed",
                                         "exhausted", "raised"},
                                   sequence : 0..MaxCalls, evidence : BOOLEAN]]
        /\ \A u \in Thread \ {t} : thread'[u] = thread[u]
        /\ thread'[t] = r
        /\ Called' = Called
        /\ Working' = Working
    <2>1. RegistryTypeOK /\ t \notin Called
      BY <1>1, ThreadIsTyped DEF Called
    <2>2. /\ Called' = IF r.at = "called" THEN Called \cup {t} ELSE Called \ {t}
          /\ Working' = IF r.at \in {"executing", "executed", "raised"}
                          THEN Working \cup {t} ELSE Working \ {t}
          /\ thread' \in [Thread -> [at : {"idle", "called", "executing", "executed",
                                           "exhausted", "raised"},
                                     sequence : 0..MaxCalls, evidence : BOOLEAN]]
          /\ \A u \in Thread \ {t} : thread'[u] = thread[u]
          /\ thread'[t] = r
      BY <1>3, <1>4, <2>1, OneThreadMoves
    <2> QED BY <1>1, <1>3, <2>1, <2>2
  <1>6. \A u \in Thread : /\ thread'[u].sequence = thread[u].sequence
                          /\ thread'[u].evidence = thread[u].evidence
    BY <1>3, <1>5
  <1>7. (pc = "tools" /\ error = "none" /\ status = "running") \/ error = "other"
    BY <1>1, CallIsExpected
  <1>8. thread[t].sequence \in 1..(nextSequence - 1)
    BY <1>1 DEF IndInv, NumbersAreOwned
  <1>9. TypeOK'
    <2>1. located' \in 0..MaxCalls
      BY <1>2, ThreadIsTyped DEF RegistryTypeOK
    <2>2. RegistryTypeOK'
      BY <1>2, <1>5, <2>1, ThreadIsTyped DEF RegistryTypeOK
    <2> QED BY <2>2, ThreadIsTyped DEF TypeOK
  <1>10. /\ StatusFollows' /\ ErrorFollows' /\ CostIsKnown'
         /\ SuccessIsWithinBudget' /\ UsageIsKept' /\ EvidenceBacksClaims'
    BY <1>7, CallDisturbsNoPromise DEF Rest
  <1>11. ThreadsFollow'
    <2>1. tools /\ (pc # "tools" => pending = 0)
      BY <1>1 DEF IndInv, ThreadsFollow
    <2> QED BY <1>7, <2>1 DEF ThreadsFollow
  <1>12. NumbersAreOwned'
    <2>1. {thread'[u].sequence : u \in Working'} = {thread[u].sequence : u \in Working}
      BY <1>5, <1>6 DEF Working
    <2> QED BY <1>2, <1>5, <1>6, <2>1 DEF IndInv, NumbersAreOwned, Working
  <1>13. CallsFit'
    BY <1>2, <1>5 DEF IndInv, CallsFit
  <1>14. BudgetsAgree'
    BY <1>3, <1>5 DEF IndInv, BudgetsAgree
  <1>15. EvidenceIsLocated'
    <2>1. located # 0 => \/ located \in records
                         \/ \E u \in Thread \ {t} : thread[u].at = "executed"
                                                    /\ thread[u].sequence = located
      BY <1>1 DEF IndInv, EvidenceIsLocated
    <2>2. located' # 0 => \/ located' \in records'
                          \/ \E u \in Thread : thread'[u].at = "executed"
                                               /\ thread'[u].sequence = located'
      BY <1>2, <1>3, <1>5, <2>1
    <2>3. role = "scout" => /\ tools /\ located <= EvidenceCalls
                            /\ \A u \in Working : thread[u].evidence =>
                                                  thread[u].sequence <= EvidenceCalls
      BY DEF IndInv, EvidenceIsLocated
    <2>4. EvidenceCalls' = EvidenceCalls
      BY DEF EvidenceCalls, Rounds
    <2>5. pc = "checked" /\ role = "scout" /\ answer.claims => located' # 0
      BY <1>2, <1>8 DEF IndInv, EvidenceIsLocated
    <2>6. role = "scout" => located' <= EvidenceCalls
      BY <1>1, <1>2, <2>3
    <2>7. role = "scout" => \A u \in Working' : thread'[u].evidence =>
                                                  thread'[u].sequence <= EvidenceCalls
      BY <1>5, <1>6, <2>3 DEF Working
    <2> QED BY <2>2, <2>3, <2>4, <2>5, <2>6, <2>7 DEF EvidenceIsLocated
  <1> QED BY <1>9, <1>10, <1>11, <1>12, <1>13, <1>14, <1>15 DEF IndInv

LEMMA IdleIsTyped ==
    /\ Idle.at = "idle"
    /\ Idle \in [at : {"idle", "called", "executing", "executed", "exhausted", "raised"},
                 sequence : 0..MaxCalls, evidence : BOOLEAN]
  BY DEF Idle

LEMMA ThreadGoesIdle ==
    ASSUME IndInv, NEW t \in Thread, t \notin Called, thread' = [thread EXCEPT ![t] = Idle]
    PROVE  /\ thread' \in [Thread -> [at : {"idle", "called", "executing", "executed",
                                            "exhausted", "raised"},
                                      sequence : 0..MaxCalls, evidence : BOOLEAN]]
           /\ \A u \in Thread \ {t} : thread'[u] = thread[u]
           /\ thread'[t].at = "idle"
           /\ Called' = Called
           /\ Working' = Working \ {t}
  <1>1. RegistryTypeOK
    BY ThreadIsTyped
  <1>2. /\ Called' = IF Idle.at = "called" THEN Called \cup {t} ELSE Called \ {t}
        /\ Working' = IF Idle.at \in {"executing", "executed", "raised"}
                        THEN Working \cup {t} ELSE Working \ {t}
        /\ thread' \in [Thread -> [at : {"idle", "called", "executing", "executed",
                                         "exhausted", "raised"},
                                   sequence : 0..MaxCalls, evidence : BOOLEAN]]
        /\ \A u \in Thread \ {t} : thread'[u] = thread[u]
        /\ thread'[t] = Idle
    BY <1>1, IdleIsTyped, OneThreadMoves
  <1> QED BY <1>2, IdleIsTyped

(* A number goes from the thread to the record, and the gateway's count    *)
(* catches up by one.                                                      *)
LEMMA ReturnsInvariant ==
    ASSUME IndInv, NEW t \in Thread, CallReturns(t)
    PROVE  IndInv'
  <1> USE DEF CallReturns
  <1>1. thread[t].at = "executed" /\ t \in Working /\ t \notin Called
    BY DEF Record, Working, Called
  <1>2. /\ thread' = [thread EXCEPT ![t] = Idle]
        /\ records' = records \cup {thread[t].sequence}
        /\ UNCHANGED <<nextSequence, located>>
    BY DEF Record
  <1>3. /\ thread' \in [Thread -> [at : {"idle", "called", "executing", "executed",
                                         "exhausted", "raised"},
                                   sequence : 0..MaxCalls, evidence : BOOLEAN]]
        /\ \A u \in Thread \ {t} : thread'[u] = thread[u]
        /\ thread'[t].at = "idle"
        /\ Called' = Called
        /\ Working' = Working \ {t}
    BY <1>1, <1>2, ThreadGoesIdle
  <1>4. (pc = "tools" /\ error = "none" /\ status = "running") \/ error = "other"
    BY <1>1, CallIsExpected
  <1>5. /\ thread[t].sequence \in 1..(nextSequence - 1)
        /\ nextSequence \in 1..(MaxCalls + 1)
        /\ records \subseteq 1..(nextSequence - 1)
    BY <1>1, ThreadIsTyped DEF IndInv, NumbersAreOwned, RegistryTypeOK
  <1>6. /\ Cardinality(Working) \in Nat /\ Cardinality(Working) >= 1
        /\ Cardinality(Working') = Cardinality(Working) - 1
    BY <1>1, <1>3, ThreadCount, ThreadLeaves DEF Working
  <1>7. /\ toolCalls \in 0..MaxCalls
        /\ pc = "tools" => toolCalls + 1 \in 0..MaxCalls
    <2>1. error # "other" => toolCalls + Cardinality(Working) = nextSequence - 1
      BY DEF IndInv, CallsFit
    <2>2. toolCalls \in 0..MaxCalls /\ (pc = "tools" => error # "other")
      BY DEF IndInv, TypeOK, ErrorFollows
    <2> QED BY <1>5, <1>6, <2>1, <2>2
  <1>8. TypeOK'
    <2>1. records' \subseteq 1..MaxCalls
      <3>1. 1..(nextSequence - 1) \subseteq 1..MaxCalls
        BY <1>5
      <3> QED BY <1>2, <1>5, <3>1
    <2>2. RegistryTypeOK'
      BY <1>2, <1>3, <2>1, ThreadIsTyped DEF RegistryTypeOK
    <2>3. toolCalls' \in 0..MaxCalls
      BY <1>7
    <2> QED BY <2>2, <2>3, ThreadIsTyped DEF TypeOK
  <1>9. /\ StatusFollows' /\ ErrorFollows' /\ CostIsKnown'
        /\ SuccessIsWithinBudget' /\ UsageIsKept' /\ EvidenceBacksClaims'
    BY <1>4, CallDisturbsNoPromise DEF Rest
  <1>10. ThreadsFollow'
    <2>1. tools /\ (pc # "tools" => pending = 0)
      BY <1>1 DEF IndInv, ThreadsFollow
    <2> QED BY <1>4, <2>1 DEF ThreadsFollow
  <1>11. NumbersAreOwned'
    <2>1. \A u \in Working' : thread'[u] = thread[u] /\ u \in Working /\ u # t
      BY <1>3 DEF Working
    <2>2. \A u, v \in Working : thread[u].sequence = thread[v].sequence => u = v
      BY DEF IndInv, NumbersAreOwned
    <2>3. \A u \in Working : thread[u].sequence \in 1..(nextSequence - 1) \ records
      BY DEF IndInv, NumbersAreOwned
    <2>4. \A u \in Working' : thread'[u].sequence \in 1..(nextSequence' - 1) \ records'
      BY <1>1, <1>2, <2>1, <2>2, <2>3
    <2>5. \A u, v \in Working' : thread'[u].sequence = thread'[v].sequence => u = v
      BY <2>1, <2>2
    <2>6. {thread[u].sequence : u \in Working}
            = {thread'[u].sequence : u \in Working'} \cup {thread[t].sequence}
      BY <1>1, <1>3, <2>1
    <2>7. error # "other" =>
            1..(nextSequence' - 1) = records' \cup {thread'[u].sequence : u \in Working'}
      <3>1. error # "other" =>
              1..(nextSequence - 1) = records \cup {thread[u].sequence : u \in Working}
        BY DEF IndInv, NumbersAreOwned
      <3> QED BY <1>2, <2>6, <3>1
    <2>8. records' \subseteq 1..(nextSequence' - 1)
      BY <1>2, <1>5
    <2> QED BY <2>4, <2>5, <2>7, <2>8 DEF NumbersAreOwned
  <1>12. CallsFit'
    <2>1. /\ nextSequence - 1 + pending + Cardinality(Called) <= MaxCalls
          /\ error # "other" => toolCalls + Cardinality(Working) = nextSequence - 1
      BY DEF IndInv, CallsFit
    <2> QED BY <1>2, <1>3, <1>4, <1>5, <1>6, <1>7, <2>1 DEF CallsFit
  <1>13. BudgetsAgree'
    BY <1>3 DEF IndInv, BudgetsAgree
  <1>14. EvidenceIsLocated'
    <2>1. located # 0 => \/ located \in records'
                         \/ \E u \in Thread \ {t} : thread[u].at = "executed"
                                                    /\ thread[u].sequence = located
      BY <1>2 DEF IndInv, EvidenceIsLocated
    <2>2. /\ role = "scout" => /\ tools /\ located <= EvidenceCalls
                               /\ \A u \in Working : thread[u].evidence =>
                                                     thread[u].sequence <= EvidenceCalls
          /\ pc = "checked" /\ role = "scout" /\ answer.claims => located # 0
      BY DEF IndInv, EvidenceIsLocated
    <2>3. role = "scout" => \A u \in Working' : thread'[u].evidence =>
                                                thread'[u].sequence <= EvidenceCalls
      BY <1>3, <2>2 DEF Working
    <2>4. EvidenceCalls' = EvidenceCalls
      BY DEF EvidenceCalls, Rounds
    <2> QED BY <1>2, <1>3, <2>1, <2>2, <2>3, <2>4 DEF EvidenceIsLocated
  <1> QED BY <1>8, <1>9, <1>10, <1>11, <1>12, <1>13, <1>14 DEF IndInv

(* A number is lost with a call that raises, and the run fails for it.     *)
LEMMA RaisesInvariant ==
    ASSUME IndInv, NEW t \in Thread, CallRaises(t)
    PROVE  IndInv'
  <1> USE DEF CallRaises, Stop
  <1>1. thread[t].at = "raised" /\ t \in Working /\ t \notin Called
    BY DEF IndInv, BudgetsAgree, Working, Called
  <1>2. /\ thread' \in [Thread -> [at : {"idle", "called", "executing", "executed",
                                         "exhausted", "raised"},
                                   sequence : 0..MaxCalls, evidence : BOOLEAN]]
        /\ \A u \in Thread \ {t} : thread'[u] = thread[u]
        /\ thread'[t].at = "idle"
        /\ Called' = Called
        /\ Working' = Working \ {t}
    BY <1>1, ThreadGoesIdle
  <1>3. (pc = "tools" /\ error = "none" /\ status = "running") \/ error = "other"
    BY <1>1, CallIsExpected
  <1>4. error' = "other" /\ pc' # "tools" /\ (pc' = pc \/ pc' = "stopped")
    BY <1>3 DEF IndInv, ErrorFollows
  <1>5. pending' \in 0..pending /\ pending' = 0 /\ pending \in 0..MaxBatch
    BY DEF IndInv, TypeOK, ThreadsFollow
  <1>6. TypeOK'
    <2>1. RegistryTypeOK'
      BY <1>2, ThreadIsTyped DEF RegistryTypeOK
    <2> QED BY <1>4, <1>5, <2>1, ThreadIsTyped DEF TypeOK, Stage
  <1>7. /\ StatusFollows' /\ ErrorFollows' /\ CostIsKnown'
        /\ SuccessIsWithinBudget' /\ UsageIsKept' /\ EvidenceBacksClaims'
    BY <1>3, CallDisturbsNoPromise DEF Rest
  <1>8. ThreadsFollow'
    <2>1. tools
      BY <1>1 DEF IndInv, ThreadsFollow
    <2> QED BY <1>4, <1>5, <2>1 DEF ThreadsFollow
  <1>9. NumbersAreOwned'
    <2>1. \A u \in Working' : thread'[u] = thread[u] /\ u \in Working
      BY <1>2 DEF Working
    <2> QED BY <1>4, <2>1 DEF IndInv, NumbersAreOwned
  <1>10. CallsFit'
    <2>1. Cardinality(Called) \in Nat /\ nextSequence \in Nat
      BY ThreadCount, ThreadIsTyped DEF Called, RegistryTypeOK
    <2> QED BY <1>2, <1>4, <1>5, <2>1 DEF IndInv, CallsFit
  <1>11. BudgetsAgree'
    BY <1>2 DEF IndInv, BudgetsAgree
  <1>12. EvidenceIsLocated'
    <2>1. located # 0 => \/ located \in records
                         \/ \E u \in Thread \ {t} : thread[u].at = "executed"
                                                    /\ thread[u].sequence = located
      BY <1>1 DEF IndInv, EvidenceIsLocated
    <2>2. /\ role = "scout" => /\ tools /\ located <= EvidenceCalls
                               /\ \A u \in Working : thread[u].evidence =>
                                                     thread[u].sequence <= EvidenceCalls
          /\ pc = "checked" /\ role = "scout" /\ answer.claims => located # 0
      BY DEF IndInv, EvidenceIsLocated
    <2>3. role = "scout" => \A u \in Working' : thread'[u].evidence =>
                                                thread'[u].sequence <= EvidenceCalls
      BY <1>2, <2>2 DEF Working
    <2>4. EvidenceCalls' = EvidenceCalls
      BY DEF EvidenceCalls, Rounds
    <2> QED BY <1>2, <1>4, <2>1, <2>2, <2>3, <2>4 DEF EvidenceIsLocated
  <1> QED BY <1>6, <1>7, <1>8, <1>9, <1>10, <1>11, <1>12 DEF IndInv

LEMMA StutterInvariant == ASSUME IndInv, UNCHANGED vars PROVE IndInv'
  <1> USE DEF vars, registryVars, loopVars
  <1>1. Called' = Called /\ Working' = Working
    BY DEF Called, Working
  <1>2. TypeOK' /\ StatusFollows' /\ ErrorFollows' /\ CostIsKnown' /\ BudgetsAgree'
    BY DEF IndInv, TypeOK, RegistryTypeOK, StatusFollows, ErrorFollows, CostIsKnown,
           BudgetsAgree
  <1>3. ThreadsFollow' /\ NumbersAreOwned' /\ CallsFit'
    BY <1>1 DEF IndInv, ThreadsFollow, NumbersAreOwned, CallsFit
  <1>4. EvidenceIsLocated' /\ EvidenceBacksClaims'
    BY <1>1 DEF IndInv, EvidenceIsLocated, EvidenceBacksClaims, EvidenceCalls, Rounds
  <1>5. SuccessIsWithinBudget' /\ UsageIsKept'
    BY DEF IndInv, SuccessIsWithinBudget, UsageIsKept
  <1> QED BY <1>2, <1>3, <1>4, <1>5 DEF IndInv

LEMMA NextInvariant == ASSUME IndInv, [Next]_vars PROVE IndInv'
  <1>1. CASE UNCHANGED vars
    BY <1>1, StutterInvariant
  <1>2. CASE Gateway
    BY <1>2, StopInvariant, AskInvariant, AnswerInvariant, BatchInvariant, JudgeInvariant
       DEF Gateway
  <1>3. CASE Orchestrator
    BY <1>3, StartInvariant, JudgeInvariant, ErrorInvariant, ArtifactInvariant
       DEF Orchestrator
  <1>4. CASE \E t \in Thread : ToolCall(t)
    BY <1>4, StartCallInvariant, TakeSequenceInvariant, ExecuteInvariant, ReturnsInvariant,
       RaisesInvariant DEF ToolCall, CallSteps
  <1> QED BY <1>1, <1>2, <1>3, <1>4 DEF Next

----------------------------------------------------------------------------
(* Theorems                                                                *)

(* IndInv is an inductive invariant: status, gateway, registry and         *)
(* bookkeeping stay in step whatever the threads do.                       *)
THEOREM AgentInvariant == Spec => []IndInv
  <1>1. Init => IndInv
    BY InitInvariant
  <1>2. IndInv /\ [Next]_vars => IndInv'
    BY NextInvariant
  <1> QED BY <1>1, <1>2, PTL DEF Spec

(* Every variable keeps its type; a number of a tool call never exceeds    *)
(* the budget.                                                             *)
THEOREM AgentTypes == Spec => []TypeOK
  <1>1. IndInv => TypeOK
    BY DEF IndInv
  <1> QED BY <1>1, AgentInvariant, PTL

(* The registry never refuses a call that the gateway let through: its     *)
(* own limit (tools/registry.py, execute) is not reached, whatever the     *)
(* interleaving of the threads.                                            *)
THEOREM CountersAgree == Spec => []BudgetsAgree
  <1>1. IndInv => BudgetsAgree
    BY DEF IndInv
  <1> QED BY <1>1, AgentInvariant, PTL

(* A run that succeeds kept to its money and has counted every call.       *)
THEOREM SuccessIsPaidFor == Spec => []SuccessIsWithinBudget
  <1>1. IndInv => SuccessIsWithinBudget
    BY DEF IndInv
  <1> QED BY <1>1, AgentInvariant, PTL

(* A run that did not fail has a row for every number the registry gave    *)
(* out, and the whole cost when it spent its budget or kept an artifact.   *)
THEOREM UsageSurvives == Spec => []UsageIsKept
  <1>1. IndInv => UsageIsKept
    BY DEF IndInv
  <1> QED BY <1>1, AgentInvariant, PTL

(* A scout that succeeds with a material claim has a stored tool call,     *)
(* inside its evidence window, that returned what it cites.                *)
THEOREM ClaimsRestOnCalls == Spec => []EvidenceBacksClaims
  <1>1. IndInv => EvidenceBacksClaims
    BY DEF IndInv
  <1> QED BY <1>1, AgentInvariant, PTL
=============================================================================
