SPECIFICATION IntakeSpec
CONSTANTS
    Requests = {q1, q2}
    NoRequest = NoRequest
    MaxFaults = 1
    Dests <- OneWebhook
    Kind <- Webhook
    Events <- BothPhasesFirst
    MailKinds = {"received"}
    Protected = FALSE
SYMMETRY Symmetry
CHECK_DEADLOCK FALSE
INVARIANTS
    ReLandedCompletionQueued
