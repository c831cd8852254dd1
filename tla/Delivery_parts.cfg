\* Slack messages of up to two transitions: one to three parts; either notifier
\* may be without URL.
SPECIFICATION Spec
CONSTANTS
    Slack = slack
    Webhook = webhook
    Noop = noop
    MaxTransitions = 5
    SlackMax = 2
    Budget = 2
INVARIANTS
    TypeOK
    NilMeansDelivered
    EveryNotifierTried
PROPERTIES
    NotifyReturns
