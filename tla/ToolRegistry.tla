---------------------------- MODULE ToolRegistry ----------------------------
(***************************************************************************)
(* SnapshotToolRegistry (tools/registry.py): the read tools of one run,    *)
(* called from the threads in which the model gateway runs the tool calls  *)
(* of one model response.  A call takes a sequence number under the lock,  *)
(* executes without it, and appends its record under the lock.             *)
(*                                                                         *)
(* Results are reduced to whether they hold the excerpt that the run's     *)
(* artifact will cite, names and arguments of tools are left out.          *)
(***************************************************************************)
EXTENDS Naturals

CONSTANTS
    Thread,       \* threads that execute tool calls
    MaxCalls      \* the run's budget of tool calls

ASSUME CallsAreCounted == MaxCalls \in Nat

VARIABLES
    thread,         \* what each thread does, and for which sequence number
    nextSequence,   \* _next_sequence
    records,        \* the sequence numbers in records
    located         \* the first call that returned the cited excerpt, or 0:
                    \* _citation_locators

registryVars == <<thread, nextSequence, records, located>>

Idle == [at |-> "idle", sequence |-> 0, evidence |-> FALSE]

RegistryTypeOK ==
    /\ thread \in [Thread -> [at : {"idle", "called", "executing", "executed",
                                    "exhausted", "raised"},
                              sequence : 0..MaxCalls, evidence : BOOLEAN]]
    /\ nextSequence \in 1..(MaxCalls + 1)
    /\ records \subseteq 1..MaxCalls
    /\ located \in 0..MaxCalls

RegistryInit ==
    /\ thread = [t \in Thread |-> Idle]
    /\ nextSequence = 1
    /\ records = {}
    /\ located = 0

----------------------------------------------------------------------------
(* Mutant of TakeSequence: the last call of the budget is refused.         *)
TakeSequenceEarly(t, window) ==
    /\ thread[t].at = "called"
    /\ IF nextSequence >= MaxCalls
         THEN /\ thread' = [thread EXCEPT ![t].at = "exhausted"]
              /\ UNCHANGED nextSequence
         ELSE /\ thread' = [thread EXCEPT ![t] =
                              [at |-> "executing", sequence |-> nextSequence,
                               evidence |-> window.open /\ nextSequence <= window.calls]]
              /\ nextSequence' = nextSequence + 1
    /\ UNCHANGED <<records, located>>

(* execute up to the end of its first locked block: a call beyond the      *)
(* budget raises, a call outside the evidence window will get no evidence. *)
TakeSequence(t, window) ==
    /\ thread[t].at = "called"
    /\ IF nextSequence > MaxCalls
         THEN /\ thread' = [thread EXCEPT ![t].at = "exhausted"]
              /\ UNCHANGED nextSequence
         ELSE /\ thread' = [thread EXCEPT ![t] =
                              [at |-> "executing", sequence |-> nextSequence,
                               evidence |-> window.open /\ nextSequence <= window.calls]]
              /\ nextSequence' = nextSequence + 1
    /\ UNCHANGED <<records, located>>

(* _execute_allowed: the result may hold the excerpt; a request that fails *)
(* validation returns an error; any other exception leaves execute.        *)
Execute(t) ==
    /\ thread[t].at = "executing"
    /\ \/ /\ thread' = [thread EXCEPT ![t].at = "executed"]
          /\ \E found \in BOOLEAN :
               located' = IF thread[t].evidence /\ found /\ located = 0
                            THEN thread[t].sequence ELSE located
       \/ /\ thread[t].evidence
          /\ thread' = [thread EXCEPT ![t].at = "raised"]
          /\ UNCHANGED located
    /\ UNCHANGED <<nextSequence, records>>

(* Mutant of Record: a refused call leaves no record.                      *)
RecordAllowedOnly(t) ==
    /\ thread[t].at = "executed"
    /\ records' = IF thread[t].evidence THEN records \cup {thread[t].sequence} ELSE records
    /\ thread' = [thread EXCEPT ![t] = Idle]
    /\ UNCHANGED <<nextSequence, located>>

(* The record is appended and the result returned.                         *)
Record(t) ==
    /\ thread[t].at = "executed"
    /\ records' = records \cup {thread[t].sequence}
    /\ thread' = [thread EXCEPT ![t] = Idle]
    /\ UNCHANGED <<nextSequence, located>>
============================================================================
