\* The delivery of an older head arrives after that of the newer one.
SPECIFICATION Spec
CONSTANTS
    opened = opened
    pushed = pushed
    repushed = repushed
    bot = bot
    fork = fork
    check = check
    recheck = recheck
    beside = beside
    missigned = missigned
    Nobody = Nobody
    AWorker = AWorker
    Delivery = {1, 2, 3, 4, 5, 6}
    MaxRequests = 3
    Content <- Carries
    Request = {opened, pushed}
INVARIANT SupersededByNewerHead
\* Every request is answered once and every run ends.
CHECK_DEADLOCK FALSE
