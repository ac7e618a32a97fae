SPECIFICATION IntakeSpec
CONSTANTS
    Requests = {q1, q2, q3}
    NoRequest = NoRequest
    MaxFaults = 1
    Dests <- OneWebhook
    Kind <- Webhook
    Events <- BothPhasesFirst
    MailKinds = {"received"}
    Protected = TRUE
SYMMETRY Symmetry
CHECK_DEADLOCK FALSE
INVARIANTS
    CompletionIsOwned
    OnlyVerifiedLeaves
