-------------------------- MODULE MCWebhookIntake --------------------------
(***************************************************************************)
(* Instances of WebhookIntake for TLC: which requests arrive.  Their order *)
(* is not fixed, so every run also sees deliveries late and out of order.  *)
(***************************************************************************)
EXTENDS WebhookIntake, TLC

CONSTANTS
    opened,     \* a human opens the pull request at head 1
    pushed,     \* a human pushes head 2
    repushed,   \* the delivery of pushed, replayed
    bot,        \* a bot reopens the pull request at head 1
    fork,       \* a pull request from a fork
    check,      \* a check fails at head 1
    recheck,    \* another check fails at head 1
    beside,     \* the delivery of recheck, replayed
    missigned   \* a request with the delivery id of check and a bad signature

PullRequest(delivery, head) ==
    [delivery |-> delivery, via |-> "webhook", signed |-> TRUE,
     kind |-> "pull_request", pull |-> 1, head |-> head, human |-> TRUE]

CheckRun(delivery, head) ==
    [PullRequest(delivery, head) EXCEPT !.kind = "check_run", !.human = FALSE]

Replayed(content) == [content EXCEPT !.via = "replay"]

Carried ==
    (opened    :> PullRequest(1, 1)) @@
    (pushed    :> PullRequest(2, 2)) @@
    (repushed  :> Replayed(PullRequest(2, 2))) @@
    (bot       :> [PullRequest(3, 1) EXCEPT !.human = FALSE]) @@
    (fork      :> [PullRequest(4, 1) EXCEPT !.kind = "unusable"]) @@
    (check     :> CheckRun(5, 1)) @@
    (recheck   :> CheckRun(6, 1)) @@
    (beside    :> Replayed(CheckRun(6, 1))) @@
    (missigned :> [Replayed(CheckRun(5, 1)) EXCEPT !.signed = FALSE])

(* The requests of this run.                                               *)
Carries == [q \in Request |-> Carried[q]]
============================================================================
