----------------------------- MODULE RecipeOnce -----------------------------
(***************************************************************************)
(* What the executor launcher promises its callers: of all launches with   *)
(* one key, a run id and a recipe name, one claims it, and only that one   *)
(* may return a result; it has no second try.  Directories, containers and *)
(* deaths of the launcher are invisible.  ExecutorTransport implements it. *)
(***************************************************************************)
CONSTANT Launch

VARIABLES
    key,      \* the key of each launch, fixed
    claims,   \* the launches that have claimed their key
    answer    \* what each launch was answered: "lost" if nobody was there

vars == <<key, claims, answer>>

Init == claims = {} /\ answer = [l \in Launch |-> "none"]

Claim(l) ==
    /\ answer[l] = "none"
    /\ \A m \in claims : key[m] # key[l]
    /\ claims' = claims \cup {l}
    /\ UNCHANGED <<key, answer>>

Return(l) ==
    /\ l \in claims /\ answer[l] = "none"
    /\ answer' = [answer EXCEPT ![l] = "result"]
    /\ UNCHANGED <<key, claims>>

Fail(l) ==
    /\ answer[l] = "none"
    /\ answer' = [answer EXCEPT ![l] = "error"]
    /\ UNCHANGED <<key, claims>>

(* The launcher dies with everything it has not answered yet.              *)
Lose ==
    /\ \E some \in SUBSET Launch :
         answer' = [l \in Launch |-> IF l \in some /\ answer[l] = "none" THEN "lost"
                                    ELSE answer[l]]
    /\ UNCHANGED <<key, claims>>

Next == Lose \/ \E l \in Launch : Claim(l) \/ Return(l) \/ Fail(l)

Spec == Init /\ [][Next]_vars
=============================================================================
