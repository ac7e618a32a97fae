SPECIFICATION FairIntakeSpec
CONSTANTS
    Requests = {q1, q2}
    NoRequest = NoRequest
    MaxFaults = 1
    Dests <- TwoWebhooks
    Kind <- Webhook
    Events <- BothPhasesFirst
    MailKinds = {"received"}
    Protected = FALSE
CHECK_DEADLOCK FALSE
INVARIANTS
    IntakeInv
    CompletionEffectsOnce
    ActivatedOnce
    FaultlessCompletionQueued
PROPERTIES
    CompletionIsDelivered
