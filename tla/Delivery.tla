------------------------------- MODULE Delivery -------------------------------
(***************************************************************************)
(* Notifier.Notify for one stack: MultiNotifier calls the configured       *)
(* notifiers one after the other; each waits for its rate limiter, splits  *)
(* the transitions into messages (Slack) or sends one (webhook), and posts *)
(* each with retries, honouring Retry-After. Limiters are per stack and a  *)
(* stack has one runner, so one stack's deliveries share nothing with      *)
(* another's. A notifier without URL does nothing, and with SS_DRY_RUN the *)
(* transitions are logged instead.                                         *)
(***************************************************************************)
EXTENDS Integers, Sequences

CONSTANTS
    Slack, Webhook, \* the notifiers with a URL
    Noop,           \* one without: NoopNotifier, or a nil *WebhookNotifier
    MaxTransitions, \* model bound: transitions of one cycle
    SlackMax,       \* slackMaxTransitions: what fits in one Slack message
    Budget          \* backoffMaxElapsed in model units

ASSUME DeliveryAssumption ==
    /\ MaxTransitions \in Nat \ {0}
    /\ SlackMax \in Nat \ {0}
    /\ Budget \in Nat

VARIABLES
    notifiers,  \* what MultiNotifier calls, in that order
    dryRun,     \* a DryRunNotifier is around it
    at,         \* idle, limit, post, pause (between posts) or returned
    target,     \* index of the notifier being called
    total,      \* how many transitions there are
    part,       \* the message being posted
    elapsed,    \* time spent posting it
    failed,     \* MultiNotifier's firstErr is not nil
    token,      \* per notifier: its limiter lets a call pass
    ctxDone,
    delivered,  \* history: transitions each notifier delivered in this call
    posted      \* history: notifiers that posted in this call

setting == <<notifiers, dryRun>>
vars == <<setting, at, target, total, part, elapsed, failed, token, ctxDone,
          delivered, posted>>

(* The notifiers main makes, whether they have a URL or not: the interface *)
(* around a nil *WebhookNotifier is not nil, so it is kept in the list.    *)
Settings == {<<s, w>> : s \in {Slack, Noop}, w \in {Webhook, Noop}}

Targets == 1..2

Configured == {t \in Targets : notifiers[t] # Noop}

Init ==
    /\ notifiers \in Settings
    /\ dryRun \in BOOLEAN
    /\ at = "idle"
    /\ target = 1
    /\ total = 0
    /\ part = 1
    /\ elapsed = 0
    /\ failed = FALSE
    /\ token = [t \in Targets |-> TRUE]
    /\ ctxDone = FALSE
    /\ delivered = [t \in Targets |-> 0]
    /\ posted = {}

-----------------------------------------------------------------------------
(* buildSlackMessages, and the single message of the webhook               *)

MessageSize(t) == IF notifiers[t] = Slack THEN SlackMax ELSE total

Parts(t) == (total + MessageSize(t) - 1) \div MessageSize(t)

(* Mutated form: every message is taken to be full.                        *)
PartSizeUncut(t) == MessageSize(t)

PartSize(t) == IF part * MessageSize(t) > total
                 THEN total - (part - 1) * MessageSize(t)
                 ELSE MessageSize(t)

-----------------------------------------------------------------------------
(* MultiNotifier.Notify                                                    *)

(* The runner has transitions to deliver, in a later cycle again.          *)
Call ==
    /\ at \in {"idle", "returned"}
    /\ at' = IF dryRun THEN "returned" ELSE "limit"
    /\ target' = 1
    /\ total' \in 1..MaxTransitions
    /\ part' = 1
    /\ elapsed' = 0
    /\ failed' = FALSE
    /\ delivered' = [t \in Targets |-> 0]
    /\ posted' = {}
    /\ UNCHANGED <<setting, token, ctxDone>>

(* Mutated form: an error ends the loop over the notifiers.                *)
NextNotifierUnlessError(error) ==
    /\ failed' = (failed \/ error)
    /\ part' = 1
    /\ elapsed' = 0
    /\ IF error \/ target = Len(notifiers)
         THEN at' = "returned" /\ UNCHANGED target
         ELSE at' = "limit" /\ target' = target + 1

(* Mutated form: the error of the last notifier is the one returned.       *)
NextNotifierLastError(error) ==
    /\ failed' = error
    /\ part' = 1
    /\ elapsed' = 0
    /\ IF target = Len(notifiers)
         THEN at' = "returned" /\ UNCHANGED target
         ELSE at' = "limit" /\ target' = target + 1

(* A notifier returns; its error does not keep the next from being called. *)
NextNotifier(error) ==
    /\ failed' = (failed \/ error)
    /\ part' = 1
    /\ elapsed' = 0
    /\ IF target = Len(notifiers)
         THEN at' = "returned" /\ UNCHANGED target
         ELSE at' = "limit" /\ target' = target + 1

Stay == UNCHANGED <<target, part, failed>>

Env == UNCHANGED <<setting, total, ctxDone>>

(* A notifier without URL returns nil at once.                             *)
Skip ==
    /\ at = "limit"
    /\ notifiers[target] = Noop
    /\ NextNotifier(FALSE)
    /\ Env
    /\ UNCHANGED <<token, delivered, posted>>

-----------------------------------------------------------------------------
(* httpPoster.waitForRateLimit: once per call of a notifier                *)

TakeToken ==
    /\ at = "limit"
    /\ notifiers[target] # Noop
    /\ token[target]
    /\ ~ctxDone
    /\ at' = "post"
    /\ token' = [token EXCEPT ![target] = FALSE]
    /\ Stay /\ Env
    /\ UNCHANGED <<elapsed, delivered, posted>>

LimitCancelled ==
    /\ at = "limit"
    /\ notifiers[target] # Noop
    /\ ctxDone
    /\ NextNotifier(TRUE)
    /\ Env
    /\ UNCHANGED <<token, delivered, posted>>

-----------------------------------------------------------------------------
(* httpPoster.postWithRetry and postOnce                                   *)

IsPosted == posted' = posted \cup {target}

(* 2xx: the next message, or the notifier is done.                         *)
PostAccepted ==
    /\ at = "post"
    /\ ~ctxDone
    /\ delivered' = [delivered EXCEPT ![target] = @ + PartSize(target)]
    /\ IsPosted
    /\ IF part < Parts(target)
         THEN /\ part' = part + 1
              /\ elapsed' = 0
              /\ UNCHANGED <<at, target, failed>>
         ELSE NextNotifier(FALSE)
    /\ Env
    /\ UNCHANGED token

Later == elapsed' = IF elapsed < Budget THEN elapsed + 1 ELSE elapsed

(* 429 with a usable Retry-After: wait that long, as often as it is asked. *)
PostLimited ==
    /\ at = "post"
    /\ ~ctxDone
    /\ at' = "pause"
    /\ Later
    /\ IsPosted
    /\ Stay /\ Env
    /\ UNCHANGED <<token, delivered>>

(* Mutated form: the backoff starts afresh for every attempt.              *)
PostFailsForGood ==
    /\ at = "post"
    /\ at' = "pause"
    /\ IsPosted
    /\ Stay /\ Env
    /\ UNCHANGED <<elapsed, token, delivered>>

(* A 5xx, a 429 without a hint, no answer, or a context that is done: back *)
(* off, and give up once the time for this message is used up.             *)
PostFails ==
    /\ at = "post"
    /\ IF elapsed < Budget
         THEN at' = "pause" /\ elapsed' = elapsed + 1 /\ Stay
         ELSE NextNotifier(TRUE)
    /\ IsPosted
    /\ Env
    /\ UNCHANGED <<token, delivered>>

(* Another 3xx or 4xx, or a template that cannot be rendered: no retry,    *)
(* and the messages that follow are not posted.                            *)
PostRejected ==
    /\ at = "post"
    /\ ~ctxDone
    /\ IsPosted
    /\ NextNotifier(TRUE)
    /\ Env
    /\ UNCHANGED <<token, delivered>>

Resume ==
    /\ at = "pause"
    /\ at' = "post"
    /\ Stay /\ Env
    /\ UNCHANGED <<elapsed, token, delivered, posted>>

PauseCancelled ==
    /\ at = "pause"
    /\ ctxDone
    /\ NextNotifier(TRUE)
    /\ Env
    /\ UNCHANGED <<token, delivered, posted>>

-----------------------------------------------------------------------------
(* The interval since a limiter's last token has passed.                   *)
Refill(t) ==
    /\ ~token[t]
    /\ token' = [token EXCEPT ![t] = TRUE]
    /\ UNCHANGED <<setting, at, target, total, part, elapsed, failed, ctxDone,
                   delivered, posted>>

Cancel ==
    /\ ~ctxDone
    /\ ctxDone' = TRUE
    /\ UNCHANGED <<setting, at, target, total, part, elapsed, failed, token,
                   delivered, posted>>

Answered == PostAccepted \/ PostFails \/ PostRejected

Wait == Skip \/ TakeToken \/ LimitCancelled \/ Resume \/ PauseCancelled

Next ==
    \/ Call
    \/ Wait
    \/ Answered
    \/ PostLimited
    \/ \E t \in Targets : Refill(t)
    \/ Cancel

(* Time passes, a request ends by its timeout at the latest, and an        *)
(* endpoint does not answer with Retry-After for ever (the code sets no    *)
(* bound on that).                                                         *)
Fairness ==
    /\ WF_vars(Wait)
    /\ SF_vars(Answered)
    /\ \A t \in Targets : WF_vars(Refill(t))

Spec == Init /\ [][Next]_vars /\ Fairness

-----------------------------------------------------------------------------
(* Types of the state; no notifier delivers more than it was given.        *)
TypeOK ==
    /\ at \in {"idle", "limit", "post", "pause", "returned"}
    /\ notifiers \in Settings
    /\ dryRun \in BOOLEAN
    /\ target \in Targets
    /\ total \in 0..MaxTransitions
    /\ part \in 1..(MaxTransitions + 1)
    /\ elapsed \in 0..Budget
    /\ {failed, ctxDone} \subseteq BOOLEAN
    /\ token \in [Targets -> BOOLEAN]
    /\ delivered \in [Targets -> 0..total]
    /\ posted \subseteq Targets

(* Notify returns nil exactly if every configured notifier delivered every *)
(* transition: no message lost between the parts, no error forgotten       *)
(* (multi.go:31-37, slack.go:78-87). A dry run always returns nil, and     *)
(* nothing has left the process (TASKS.md:236).                            *)
NilMeansDelivered ==
    at = "returned" =>
        IF dryRun THEN ~failed /\ posted = {}
        ELSE failed <=> \E t \in Configured : delivered[t] # total

(* A notifier that fails does not keep the others from being called, as    *)
(* long as the process is not told to stop (multi.go:27-38), and one       *)
(* without URL posts nothing.                                              *)
EveryNotifierTried ==
    at = "returned" /\ ~ctxDone /\ ~dryRun => posted = Configured

(* Notify returns, whatever mixture of answers it gets, after every kind   *)
(* of wait (http_poster.go:93-124).                                        *)
NotifyReturns == at = "limit" ~> at = "returned"

=============================================================================
