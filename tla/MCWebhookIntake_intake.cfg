\* Webhooks beside a replay and a bad signature; a bot, a fork, two checks.
SPECIFICATION LiveSpec
CONSTANTS
    opened = opened
    pushed = pushed
    repushed = repushed
    bot = bot
    fork = fork
    check = check
    recheck = recheck
    beside = beside
    missigned = missigned
    Nobody = Nobody
    AWorker = AWorker
    Delivery = {1, 2, 3, 4, 5, 6}
    MaxRequests = 4
    Content <- Carries
    Request = {pushed, repushed, check, recheck, missigned, bot, fork}
INVARIANTS TypeOK OneActiveCiPerHead OneRunPerDelivery EventMatchesRun SupersededHasReplacement
PROPERTIES EventIsImmutable EveryRequestAnswered
\* Every request is answered once and every run ends.
CHECK_DEADLOCK FALSE
