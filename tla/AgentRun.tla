------------------------------ MODULE AgentRun ------------------------------
(***************************************************************************)
(* What a worker's dispatch_run does with one leased run: the orchestrator *)
(* of its role (runs/orchestrator.py), the role agent (agents/), the       *)
(* production model gateway (gateway/model.py, PydanticAIModelGateway) and *)
(* the tool registry.  RunLeases reduces all of it to an outcome.          *)
(*                                                                         *)
(* The agent loop of pydantic-ai is external and modelled from how the     *)
(* gateway uses it: it checks the request limit before each request and    *)
(* the tool call limit before each batch of tool calls, runs a batch in    *)
(* threads, allows one output retry, and lets an exception of a tool       *)
(* through without stopping the threads of the other calls.                *)
(*                                                                         *)
(* One transaction holds everything that is stored.  cost is what the      *)
(* provider has billed, in units of money.                                 *)
(***************************************************************************)
EXTENDS ToolRegistry, RunStatus, FiniteSets

CONSTANTS
    MaxTurns,     \* the run's budget of model requests
    MaxUsd,       \* its budget of money
    MaxBatch,     \* bound: tool calls in one response
    MaxPrice      \* bound: what one request is billed

ASSUME BudgetsAreNatural == MaxTurns \in Nat /\ MaxUsd \in Nat
ASSUME BatchAndPrice == MaxBatch \in Nat /\ MaxPrice \in Nat
ASSUME ThreadsAreFinite == IsFiniteSet(Thread)

VARIABLES
    role, tools,  \* of this run; tools is FALSE without a capability gateway
    status,       \* run.status in the session
    pc,           \* where dispatch_run is
    requests,     \* usage.requests
    toolCalls,    \* usage.tool_calls
    pending,      \* tool calls of the batch that no thread has taken
    cost,         \* billed so far
    retried,      \* the output retry is used
    answer,       \* the model's final output
    lastCall,     \* the cost in gateway.last_call, 0 when it is None
    error,        \* how run_agent_loop or the role agent ended
    stored        \* rows: artifact kinds, tool calls, cost of the model call

loopVars == <<requests, toolCalls, pending, cost, retried, answer>>
vars == <<registryVars, role, tools, status, pc, loopVars, lastCall, error, stored>>

Role == {"scout", "assessor", "ci"}

(* sound: the identity of the run and a citation for each material claim;  *)
(* claims: there are material claims; secret: redaction detects one.       *)
Answer == [sound : BOOLEAN, claims : BOOLEAN, secret : BOOLEAN,
           ci : {"diagnosis", "refusal", "patch"}]

NoAnswer == [sound |-> FALSE, claims |-> FALSE, secret |-> FALSE, ci |-> "diagnosis"]

Stage == {"leased", "asking", "tools", "answered", "returned", "checked",
          "stopped", "end"}

TypeOK ==
    /\ RegistryTypeOK
    /\ role \in Role /\ tools \in BOOLEAN
    /\ status \in Status
    /\ pc \in Stage
    /\ requests \in 0..MaxTurns
    /\ toolCalls \in 0..MaxCalls /\ pending \in 0..MaxBatch
    /\ cost \in Nat /\ lastCall \in 0..cost
    /\ retried \in BOOLEAN
    /\ answer \in Answer
    /\ error \in {"none", "budget", "gateway", "value", "other"}
    /\ stored \in [kinds : SUBSET {"artifact", "refusal", "terminal_error"},
                   calls : SUBSET (1..MaxCalls), cost : 0..cost, model : BOOLEAN]

Init ==
    /\ RegistryInit
    /\ role \in Role
    /\ tools \in BOOLEAN
    /\ role = "scout" => tools
    /\ status = "leased"
    /\ pc = "leased"
    /\ requests = 0 /\ toolCalls = 0 /\ pending = 0
    /\ cost = 0 /\ lastCall = 0
    /\ retried = FALSE
    /\ answer = NoAnswer
    /\ error = "none"
    /\ stored = [kinds |-> {}, calls |-> {}, cost |-> 0, model |-> FALSE]

----------------------------------------------------------------------------
(* Helpers                                                                 *)

(* The evidence window a scout configures, in rounds and calls; the other  *)
(* roles have none.                                                        *)
Rounds == IF MaxTurns > 4 THEN MaxTurns - 4 ELSE 0

EvidenceCalls ==
    LET most == Rounds * 2 + IF Rounds > 0 THEN 4 ELSE 0
    IN  IF most < MaxCalls THEN most ELSE MaxCalls

Window ==
    IF role = "scout" THEN [calls |-> EvidenceCalls, open |-> requests <= Rounds]
                      ELSE [calls |-> MaxCalls, open |-> TRUE]

(* transition_run, which refuses a move that is not allowed.               *)
Move(to) == MayMove(status, to) /\ status' = to

Stop(how) == pc' = "stopped" /\ error' = how

----------------------------------------------------------------------------
(* Before the model                                                        *)

(* A role whose dependencies are missing.                                  *)
NotConfigured ==
    /\ pc = "leased"
    /\ Move("failed")
    /\ pc' = "end"
    /\ UNCHANGED <<registryVars, role, tools, loopVars, lastCall, error, stored>>

(* The gateway denies the snapshot or the evidence, or there is none.      *)
SnapshotUnavailable ==
    /\ pc = "leased" /\ tools
    /\ MayMove(status, "snapshotting") /\ MayMove("snapshotting", "refused")
    /\ status' = "refused"
    /\ pc' = "end"
    /\ UNCHANGED <<registryVars, role, tools, loopVars, lastCall, error, stored>>

(* Reading it fails otherwise: process_claimed_run ends the run.           *)
SnapshotFails ==
    /\ pc = "leased" /\ tools
    /\ MayMove(status, "snapshotting") /\ MayMove("snapshotting", "failed")
    /\ status' = "failed"
    /\ pc' = "end"
    /\ UNCHANGED <<registryVars, role, tools, loopVars, lastCall, error, stored>>

StartAgent ==
    /\ pc = "leased"
    /\ MayMove(status, "snapshotting") /\ MayMove("snapshotting", "running")
    /\ status' = "running"
    /\ pc' = "asking"
    /\ UNCHANGED <<registryVars, role, tools, loopVars, lastCall, error, stored>>

----------------------------------------------------------------------------
(* run_agent_loop                                                          *)

(* The exceptions the gateway knows, and its return, leave the metadata of *)
(* the calls behind; a provider outside the allowlist is a ValueError.     *)
GatewayEnds(how) ==
    /\ lastCall' = cost'
    /\ \/ Stop(how)
       \/ requests' > 0 /\ Stop("value")

(* UsageLimitExceeded, before a request or before a batch of tool calls.   *)
TurnsExhausted ==
    /\ pc = "asking"
    /\ requests = MaxTurns
    /\ UNCHANGED <<requests, toolCalls, pending, cost, retried, answer>>
    /\ GatewayEnds("budget")
    /\ UNCHANGED <<registryVars, role, tools, status, stored>>

(* Mutant of Respond: the request limit is not asked for.                  *)
RespondUnlimited ==
    /\ pc = "asking"
    /\ requests' = requests + 1
    /\ \E price \in 0..MaxPrice : cost' = cost + price

(* A response arrives and is billed.                                       *)
Respond ==
    /\ pc = "asking"
    /\ requests < MaxTurns
    /\ requests' = requests + 1
    /\ \E price \in 0..MaxPrice : cost' = cost + price

(* It asks for tool calls.                                                 *)
AskForTools ==
    /\ Respond
    /\ tools
    /\ \E calls \in 1..MaxBatch :
         \/ /\ toolCalls + calls > MaxCalls
            /\ UNCHANGED pending
            /\ GatewayEnds("budget")
         \/ /\ toolCalls + calls <= MaxCalls
            /\ pending' = calls
            /\ pc' = "tools"
            /\ UNCHANGED <<lastCall, error>>
    /\ UNCHANGED <<registryVars, role, tools, status, toolCalls, retried, answer, stored>>

(* It is a valid output.                                                   *)
AnswerIsValid ==
    /\ Respond
    /\ answer' \in Answer
    /\ pc' = "answered"
    /\ UNCHANGED <<registryVars, role, tools, status, toolCalls, pending, retried,
                   lastCall, error, stored>>

(* It is not: the schema error is sent back once, then the behavior of the *)
(* model is unexpected.                                                    *)
AnswerIsInvalid ==
    /\ Respond
    /\ retried' = TRUE
    /\ IF retried
         THEN GatewayEnds("gateway")
         ELSE pc' = "asking" /\ UNCHANGED <<lastCall, error>>
    /\ UNCHANGED <<registryVars, role, tools, status, toolCalls, pending, answer, stored>>

(* The provider answers with an HTTP error, which is not billed.           *)
ProviderRefuses ==
    /\ pc = "asking"
    /\ requests < MaxTurns
    /\ UNCHANGED loopVars
    /\ GatewayEnds("gateway")
    /\ UNCHANGED <<registryVars, role, tools, status, stored>>

(* A model that is not pinned, or an unknown provider, is refused before   *)
(* the first request.                                                      *)
ConfigurationRefused ==
    /\ pc = "asking"
    /\ requests = 0
    /\ Stop("value")
    /\ UNCHANGED <<registryVars, role, tools, status, loopVars, lastCall, stored>>

(* The request fails in any other way, and no except clause of the gateway *)
(* sets last_call, which stays None.  A ValueError (the JSONDecodeError of *)
(* a body that is not JSON) is a refusal to the orchestrators, any other   *)
(* exception a failure.  What the broken request was billed is not known.  *)
RequestBreaks ==
    /\ pc = "asking"
    /\ requests < MaxTurns
    /\ Stop("value") \/ Stop("other")
    /\ UNCHANGED <<registryVars, role, tools, status, loopVars, lastCall, stored>>

(* A thread takes a call of the batch.                                     *)
StartCall(t) ==
    /\ pc = "tools" /\ pending > 0
    /\ thread[t].at = "idle"
    /\ thread' = [thread EXCEPT ![t].at = "called"]
    /\ pending' = pending - 1
    /\ UNCHANGED <<nextSequence, records, located, role, tools, status, pc, requests,
                   toolCalls, cost, retried, answer, lastCall, error, stored>>

CallSteps(t) ==
    /\ TakeSequence(t, Window) \/ Execute(t)
    /\ UNCHANGED <<role, tools, status, pc, loopVars, lastCall, error, stored>>

CallReturns(t) ==
    /\ Record(t)
    /\ toolCalls' = IF pc = "tools" THEN toolCalls + 1 ELSE toolCalls
    /\ UNCHANGED <<role, tools, status, pc, requests, pending, cost, retried, answer,
                   lastCall, error, stored>>

(* An exception ends the loop, while the other threads go on.              *)
CallRaises(t) ==
    /\ thread[t].at \in {"raised", "exhausted"}
    /\ thread' = [thread EXCEPT ![t] = Idle]
    /\ IF pc = "tools"
         THEN Stop("other") /\ pending' = 0
         ELSE UNCHANGED <<pc, error, pending>>
    /\ UNCHANGED <<nextSequence, records, located, role, tools, status, requests,
                   toolCalls, cost, retried, answer, lastCall, stored>>

BatchReturns ==
    /\ pc = "tools" /\ pending = 0
    /\ \A t \in Thread : thread[t].at = "idle"
    /\ pc' = "asking"
    /\ UNCHANGED <<registryVars, role, tools, status, loopVars, lastCall, error, stored>>

(* Mutant of Return: the billed cost is not compared.                      *)
ReturnAtAnyCost ==
    /\ pc = "answered"
    /\ UNCHANGED loopVars
    /\ \/ GatewayEnds("budget")
       \/ /\ lastCall' = cost
          /\ pc' = "returned"
          /\ UNCHANGED error
    /\ UNCHANGED <<registryVars, role, tools, status, stored>>

(* The loop has an output: the wall time and the billed cost are judged.   *)
Return ==
    /\ pc = "answered"
    /\ UNCHANGED loopVars
    /\ \/ GatewayEnds("budget")    \* too late, too expensive
       \/ /\ cost <= MaxUsd
          /\ lastCall' = cost
          /\ pc' = "returned"
          /\ UNCHANGED error
    /\ UNCHANGED <<registryVars, role, tools, status, stored>>

----------------------------------------------------------------------------
(* After the model                                                         *)

(* Mutant of AgentChecks: a citation is believed as it stands.             *)
AgentBelieves ==
    /\ pc = "returned"
    /\ IF answer.sound
         THEN pc' = "checked" /\ UNCHANGED error
         ELSE Stop("value")
    /\ UNCHANGED <<registryVars, role, tools, status, loopVars, lastCall, stored>>

(* The role agent: what a scout cites must be what a tool returned.        *)
AgentChecks ==
    /\ pc = "returned"
    /\ IF answer.sound /\ (role = "scout" /\ answer.claims => located > 0)
         THEN pc' = "checked" /\ UNCHANGED error
         ELSE Stop("value")
    /\ UNCHANGED <<registryVars, role, tools, status, loopVars, lastCall, stored>>

(* _record_model_call and _record_tool_calls, as the registry is now.      *)
Records(kinds) ==
    [kinds |-> kinds, calls |-> IF tools THEN records ELSE {},
     cost |-> lastCall, model |-> TRUE]

(* The except clauses of the orchestrators.                                *)
RecordError ==
    /\ pc = "stopped"
    /\ Move(CASE error = "budget" -> "budget_exhausted"
              [] error = "value"  -> "refused"
              [] OTHER            -> "failed")
    /\ stored' = Records({"terminal_error"})
    /\ pc' = "end"
    /\ UNCHANGED <<registryVars, role, tools, loopVars, lastCall, error>>

(* Mutant of StoreArtifact: the run skips evaluating.                      *)
StoreFromRunning ==
    /\ pc = "checked"
    /\ Move(IF answer.secret \/ (role = "ci" /\ answer.ci # "diagnosis")
              THEN "refused" ELSE "succeeded")
    /\ stored' = Records({"artifact"})
    /\ pc' = "end"
    /\ UNCHANGED <<registryVars, role, tools, loopVars, lastCall, error>>

(* The artifact is stored, without its content when redaction detects a    *)
(* secret.  A CI run succeeds only with a diagnosis that needs no refusal  *)
(* and proposes no patch.                                                  *)
StoreArtifact ==
    /\ pc = "checked"
    /\ MayMove(status, "evaluating")
    /\ LET refusal == role = "ci" /\ ~answer.secret /\ answer.ci = "refusal"
           ending  == IF answer.secret \/ (role = "ci" /\ answer.ci # "diagnosis")
                        THEN "refused" ELSE "succeeded"
       IN  /\ MayMove("evaluating", ending)
           /\ status' = ending
           /\ stored' = Records({"artifact"} \cup IF refusal THEN {"refusal"} ELSE {})
    /\ pc' = "end"
    /\ UNCHANGED <<registryVars, role, tools, loopVars, lastCall, error>>

----------------------------------------------------------------------------
Gateway ==
    \/ TurnsExhausted
    \/ AskForTools
    \/ AnswerIsValid
    \/ AnswerIsInvalid
    \/ ConfigurationRefused
    \/ ProviderRefuses
    \/ RequestBreaks
    \/ BatchReturns
    \/ Return

Orchestrator ==
    \/ NotConfigured
    \/ SnapshotUnavailable
    \/ SnapshotFails
    \/ StartAgent
    \/ AgentChecks
    \/ RecordError
    \/ StoreArtifact

ToolCall(t) == StartCall(t) \/ CallSteps(t) \/ CallReturns(t) \/ CallRaises(t)

Next == Gateway \/ Orchestrator \/ \E t \in Thread : ToolCall(t)

Spec == Init /\ [][Next]_vars

(* Requests have a timeout, tool calls read memory, the rest is straight   *)
(* code.                                                                   *)
LiveSpec == Spec /\ WF_vars(Next)

----------------------------------------------------------------------------
(* Properties                                                              *)

(* RunLeases!Dispatch: an orchestration ends, in an outcome, and no status *)
(* on its way forbids the next one.                                        *)
EndsInOutcome ==
    <>(pc = "end" /\ status \in {"succeeded", "refused", "budget_exhausted", "failed"})

(* A run succeeds only within every budget, although each is checked at    *)
(* another moment and in another unit.                                     *)
SuccessIsWithinBudget ==
    status = "succeeded" => cost <= MaxUsd /\ toolCalls = nextSequence - 1

(* The gateway and the registry count tool calls separately, one when they *)
(* return and one when they start: the gateway stops first, so that a      *)
(* spent budget ends in budget_exhausted and never as an unexpected error. *)
BudgetsAgree == \A t \in Thread : thread[t].at # "exhausted"

(* docs/data-model.md calls budget_exhausted the "terminal budget stop     *)
(* with evidence": whatever the threads were doing, a run that did not     *)
(* fail has a row for every tool call that took a number, and the whole    *)
(* cost when it ran out of budget or kept an artifact.  A run refused      *)
(* without one may have lost its cost: see CostIsRecorded.                 *)
UsageIsKept ==
    pc = "end" /\ stored.model /\ status # "failed" =>
        /\ stored.calls = 1..(nextSequence - 1)
        /\ status = "budget_exhausted" \/ "artifact" \in stored.kinds => stored.cost = cost

(* docs/PRD.md, PRD-011: a scout that succeeds with a material claim has a *)
(* stored tool call, inside its evidence window, that returned what it     *)
(* cites.                                                                  *)
EvidenceBacksClaims ==
    status = "succeeded" /\ role = "scout" /\ answer.claims =>
        located \in stored.calls /\ located <= EvidenceCalls

(* docs/PRD.md, PRD-040: every model call and its cost is tied to the run. *)
CostIsRecorded == pc = "end" => stored.cost = cost

(* docs/PRD.md, PRD-040, of tool requests and the summaries of their       *)
(* results: each call that took a number has a row.                        *)
CallsAreRecorded ==
    pc = "end" /\ stored.model => stored.calls = 1..(nextSequence - 1)

----------------------------------------------------------------------------
(* The inductive invariant of AgentRunProofs                               *)

(* Calls that a thread has taken and that have no number yet, and calls    *)
(* that have one and have not returned.                                    *)
Called  == {t \in Thread : thread[t].at = "called"}
Working == {t \in Thread : thread[t].at \in {"executing", "executed", "raised"}}

StatusFollows ==
    /\ pc = "leased" => status = "leased"
    /\ pc \in Stage \ {"leased", "end"} => status = "running"
    /\ pc = "end" /\ error = "other" => status = "failed"
    /\ pc # "end" => ~stored.model
    /\ status = "succeeded" => error = "none"

ErrorFollows ==
    /\ error # "none" => pc \in {"stopped", "end"}
    /\ pc = "stopped" => error # "none"

(* Threads work on the batch that the model is waiting for, or are left    *)
(* over from one that an exception has ended.                              *)
ThreadsFollow ==
    /\ pc # "tools" => pending = 0
    /\ pc # "tools" /\ error # "other" => \A t \in Thread : thread[t].at = "idle"
    /\ ~tools => nextSequence = 1 /\ pending = 0 /\ Called = {} /\ Working = {}

(* Each number is with one call, and with a record once that has returned. *)
NumbersAreOwned ==
    /\ \A t \in Working : thread[t].sequence \in 1..(nextSequence - 1) \ records
    /\ \A t, u \in Working : thread[t].sequence = thread[u].sequence => t = u
    /\ records \subseteq 1..(nextSequence - 1)
    /\ error # "other" =>
         1..(nextSequence - 1) = records \cup {thread[t].sequence : t \in Working}

(* The budget of calls: what was promised to the model is never more than  *)
(* what is left, and the gateway's count is behind the registry's by the   *)
(* calls that have not returned.                                           *)
CallsFit ==
    /\ nextSequence - 1 + pending + Cardinality(Called) <= MaxCalls
    /\ error # "other" => toolCalls + Cardinality(Working) = nextSequence - 1

(* An excerpt was returned inside the evidence window, by a call that has  *)
(* a record or will have one.                                              *)
EvidenceIsLocated ==
    /\ located # 0 => \/ located \in records
                      \/ \E t \in Thread : thread[t].at = "executed"
                                          /\ thread[t].sequence = located
    /\ role = "scout" =>
         /\ tools /\ located <= EvidenceCalls
         /\ \A t \in Working : thread[t].evidence => thread[t].sequence <= EvidenceCalls
    /\ pc = "checked" /\ role = "scout" /\ answer.claims => located # 0

(* last_call is there when the gateway has returned, or raised one of the  *)
(* exceptions it knows.                                                    *)
CostIsKnown ==
    /\ requests = 0 => cost = 0
    /\ pc \in {"returned", "checked"} => cost <= MaxUsd /\ lastCall = cost
    /\ pc = "stopped" /\ error = "budget" => lastCall = cost

IndInv ==
    /\ TypeOK
    /\ StatusFollows
    /\ ErrorFollows
    /\ ThreadsFollow
    /\ NumbersAreOwned
    /\ CallsFit
    /\ BudgetsAgree
    /\ EvidenceIsLocated
    /\ CostIsKnown
    /\ SuccessIsWithinBudget
    /\ UsageIsKept
    /\ EvidenceBacksClaims
============================================================================
