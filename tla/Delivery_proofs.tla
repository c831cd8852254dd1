---------------------------- MODULE Delivery_proofs ----------------------------
(***************************************************************************)
(* What Notify returns is what it has done, for any number of transitions, *)
(* any size of a message and any mixture of answers. Needed for it: what   *)
(* the messages posted so far add up to, and that no notifier is touched   *)
(* before its turn.                                                        *)
(***************************************************************************)
EXTENDS Delivery, TLAPS

(* A division that is rounded up.                                          *)
LEMMA CeilingFacts ==
    ASSUME NEW n \in Nat \ {0}, NEW m \in Nat \ {0},
           NEW p, p = (n + m - 1) \div m
    PROVE  /\ p \in Nat \ {0}
           /\ (p - 1) * m < n
           /\ n <= p * m
           /\ p <= n
<1>1. p \in Int /\ n + m - 1 = (m * p) + ((n + m - 1) % m)
    OBVIOUS
<1>2. (n + m - 1) % m \in 0..(m - 1)
    OBVIOUS
<1>3. PICK r \in 0..(m - 1) : n + m - 1 = m * p + r
    BY <1>1, <1>2
<1>4. (p - 1) * m < n /\ n <= p * m
    BY <1>1, <1>3
<1>5. p > 0
    BY <1>1, <1>4
<1>6. p <= n
    BY <1>1, <1>4, <1>5
<1> QED BY <1>1, <1>4, <1>5, <1>6

-----------------------------------------------------------------------------
(* The inductive invariant                                                 *)

(* The turn of a notifier is over.                                         *)
Done(t) == t < target \/ at = "returned"

(* One that has not had its turn has done nothing, and only those with a   *)
(* URL ever do.                                                            *)
TurnsAreKept ==
    /\ posted \subseteq Configured
    /\ at # "idle" => total > 0
    /\ at \in {"limit", "post", "pause"} =>
         \A t \in Targets : t > target => delivered[t] = 0 /\ t \notin posted
    /\ at = "limit" => part = 1 /\ delivered[target] = 0 /\ target \notin posted

(* What a notifier has delivered during its turn are full messages, and    *)
(* the one being posted is not empty.                                      *)
PartsAddUp ==
    at \in {"post", "pause"} =>
        /\ target \in Configured
        /\ part \in 1..Parts(target)
        /\ delivered[target] = (part - 1) * MessageSize(target)

DryRunIsQuiet ==
    dryRun => at \in {"idle", "returned"} /\ failed = FALSE /\ posted = {}

(* Some error was met exactly if somebody's turn is over too early.        *)
FailureIsKnown ==
    at # "idle" /\ ~dryRun =>
        (failed <=> \E t \in Configured : Done(t) /\ delivered[t] # total)

(* Only a call that is told to stop ends a turn before it began.           *)
TurnsAreTaken ==
    at # "idle" /\ ~dryRun /\ ~ctxDone =>
        \A t \in Configured : Done(t) => t \in posted

IInv ==
    /\ TypeOK /\ TurnsAreKept /\ PartsAddUp /\ DryRunIsQuiet
    /\ FailureIsKnown /\ TurnsAreTaken

-----------------------------------------------------------------------------
LEMMA SettingFacts ==
    ASSUME TypeOK
    PROVE  Len(notifiers) = 2 /\ Configured \subseteq Targets
  BY DEF TypeOK, Settings, Configured

LEMMA TargetsAre == Targets = {1, 2}
  BY DEF Targets

(* How many messages there are, and what the next one adds.                *)
LEMMA MessageFacts ==
    ASSUME IInv, at \in {"post", "pause"}
    PROVE  /\ part * MessageSize(target) \in Nat
           /\ delivered[target] < total
           /\ Parts(target) <= total
           /\ part < Parts(target) =>
                /\ delivered[target] + PartSize(target) = part * MessageSize(target)
                /\ part * MessageSize(target) < total
           /\ ~(part < Parts(target)) => delivered[target] + PartSize(target) = total
<1>1. total \in Nat \ {0} /\ target \in Targets
    BY DEF IInv, TypeOK, TurnsAreKept
<1> DEFINE m == MessageSize(target)
           p == Parts(target)
<1>2. m \in Nat \ {0}
    BY <1>1, DeliveryAssumption DEF MessageSize
<1>3. p = (total + m - 1) \div m
    BY DEF Parts
<1>4. part \in 1..p /\ delivered[target] = (part - 1) * m
    BY DEF IInv, PartsAddUp
<1>5. PartSize(target) = IF part * m > total THEN total - (part - 1) * m ELSE m
    BY DEF PartSize
<1> HIDE DEF m, p
<1>6. p \in Nat \ {0} /\ (p - 1) * m < total /\ total <= p * m /\ p <= total
    BY <1>1, <1>2, <1>3, CeilingFacts
<1>7. part \in Nat \ {0} /\ part <= p /\ part * m \in Nat
    BY <1>2, <1>4, <1>6
<1>8. (part - 1) * m = part * m - m
    BY <1>2, <1>7
<1>9. (part - 1) * m <= (p - 1) * m
    BY <1>2, <1>6, <1>7
<1>10. delivered[target] < total
    BY <1>1, <1>2, <1>4, <1>6, <1>7, <1>9
<1>11. ASSUME part < p
       PROVE  delivered[target] + PartSize(target) = part * m /\ part * m < total
    <2>1. part * m <= (p - 1) * m
        BY <1>2, <1>6, <1>7, <1>11
    <2>2. part * m < total
        BY <1>1, <1>2, <1>6, <1>7, <2>1
    <2> QED BY <1>1, <1>2, <1>4, <1>5, <1>7, <1>8, <2>2
<1>12. ASSUME ~(part < p) PROVE delivered[target] + PartSize(target) = total
    <2>1. part = p
        BY <1>6, <1>7, <1>12
    <2> QED BY <1>1, <1>2, <1>4, <1>5, <1>6, <1>7, <1>8, <2>1
<1> QED BY <1>6, <1>7, <1>10, <1>11, <1>12 DEF m, p

(* The state during a call, and while a notifier posts.                    *)
LEMMA CallFacts ==
    ASSUME IInv, at # "idle"
    PROVE  /\ target \in Targets /\ total \in Nat \ {0}
           /\ delivered \in [Targets -> 0..total]
           /\ elapsed \in 0..Budget /\ token \in [Targets -> BOOLEAN]
<1>1. total \in Nat /\ total > 0
    BY DeliveryAssumption DEF IInv, TypeOK, TurnsAreKept
<1> QED BY <1>1 DEF IInv, TypeOK

LEMMA PostFacts ==
    ASSUME IInv, at \in {"post", "pause"}
    PROVE  /\ target \in Configured /\ part \in 1..Parts(target) /\ part <= total
           /\ part \in Nat
           /\ delivered[target] = (part - 1) * MessageSize(target)
           /\ delivered[target] # total
<1>1. /\ target \in Configured /\ part \in 1..Parts(target)
      /\ delivered[target] = (part - 1) * MessageSize(target)
    BY DEF IInv, PartsAddUp
<1>2. total \in Nat \ {0} /\ target \in Targets /\ delivered[target] \in 0..total
    BY CallFacts
<1>3. Parts(target) \in Nat
    BY <1>2, CeilingFacts, DeliveryAssumption DEF Parts, MessageSize
<1>4. delivered[target] < total /\ Parts(target) <= total
    BY MessageFacts
<1> QED BY <1>1, <1>2, <1>3, <1>4

-----------------------------------------------------------------------------
LEMMA InitInv == Init => IInv
<1> SUFFICES ASSUME Init PROVE IInv
    OBVIOUS
<1>1. TypeOK
    <2>1. /\ target \in Targets /\ total \in 0..MaxTransitions
          /\ part \in 1..(MaxTransitions + 1) /\ elapsed \in 0..Budget
        BY DeliveryAssumption, TargetsAre DEF Init
    <2>2. token \in [Targets -> BOOLEAN] /\ delivered \in [Targets -> 0..total]
        BY DEF Init
    <2> QED BY <2>1, <2>2 DEF Init, TypeOK
<1>2. TurnsAreKept /\ PartsAddUp /\ DryRunIsQuiet /\ FailureIsKnown /\ TurnsAreTaken
    BY DEF Init, TurnsAreKept, PartsAddUp, DryRunIsQuiet, FailureIsKnown, TurnsAreTaken
<1> QED BY <1>1, <1>2 DEF IInv

LEMMA CallInv == IInv /\ Call => IInv'
<1> SUFFICES ASSUME IInv, Call PROVE IInv'
    OBVIOUS
<1>1. /\ at' = IF dryRun THEN "returned" ELSE "limit"
      /\ target' = 1 /\ total' \in 1..MaxTransitions /\ part' = 1 /\ elapsed' = 0
      /\ failed' = FALSE /\ delivered' = [t \in Targets |-> 0] /\ posted' = {}
      /\ UNCHANGED <<notifiers, dryRun, token, ctxDone>>
    BY DEF Call, setting
<1>2. TypeOK'
    <2>1. /\ target' \in Targets /\ total' \in 0..MaxTransitions
          /\ part' \in 1..(MaxTransitions + 1) /\ elapsed' \in 0..Budget
          /\ delivered' \in [Targets -> 0..total']
        BY <1>1, DeliveryAssumption, TargetsAre
    <2> QED BY <1>1, <2>1 DEF IInv, TypeOK
<1>3. TurnsAreKept'
    BY <1>1, DeliveryAssumption, TargetsAre DEF TurnsAreKept
<1>4. PartsAddUp' /\ DryRunIsQuiet'
    BY <1>1 DEF PartsAddUp, DryRunIsQuiet
<1>5. ~dryRun => \A t \in Targets : ~Done(t)'
    BY <1>1 DEF Done, Targets
<1>6. Configured' \subseteq Targets
    BY <1>2, SettingFacts DEF Configured
<1>7. FailureIsKnown' /\ TurnsAreTaken'
    BY <1>1, <1>5, <1>6 DEF FailureIsKnown, TurnsAreTaken
<1> QED BY <1>2, <1>3, <1>4, <1>7 DEF IInv

(* The turn of a notifier ends, with an error if it has not delivered all. *)
LEMMA TurnEnds ==
    ASSUME IInv, at \in {"limit", "post", "pause"},
           NEW error \in BOOLEAN, NextNotifier(error),
           UNCHANGED <<notifiers, dryRun, total, ctxDone, token>>,
           delivered' \in [Targets -> 0..total],
           \A t \in Targets \ {target} : delivered'[t] = delivered[t],
           error <=> target \in Configured /\ delivered'[target] # total,
           posted' = posted \/ (posted' = posted \cup {target} /\ target \in Configured),
           ~ctxDone /\ target \in Configured => target \in posted'
    PROVE  IInv'
<1>1. /\ failed' = (failed \/ error) /\ part' = 1 /\ elapsed' = 0
      /\ IF target = 2 THEN at' = "returned" /\ UNCHANGED target
                       ELSE at' = "limit" /\ target' = target + 1
    BY SettingFacts DEF NextNotifier, IInv
<1>2. /\ target \in {1, 2} /\ total \in Nat /\ total > 0
      /\ dryRun = FALSE /\ UNCHANGED Configured /\ Configured \subseteq {1, 2}
      /\ failed \in BOOLEAN
    BY SettingFacts DEF IInv, TypeOK, Targets, DryRunIsQuiet, TurnsAreKept, Configured
<1>3. TypeOK'
    <2>1. /\ target' \in Targets /\ part' \in 1..(MaxTransitions + 1)
          /\ elapsed' \in 0..Budget
          /\ at' \in {"limit", "returned"}
        BY <1>1, <1>2, DeliveryAssumption, TargetsAre
    <2>2. failed' \in BOOLEAN /\ posted' \subseteq Targets
        BY <1>1, <1>2, TargetsAre DEF IInv, TypeOK
    <2> QED BY <2>1, <2>2 DEF IInv, TypeOK
<1>4. TurnsAreKept'
    <2>1. posted' \subseteq Configured'
        BY <1>2 DEF IInv, TurnsAreKept
    <2>2. at' = "limit" => /\ target = 1 /\ target' = 2 /\ 2 \in Targets
                           /\ delivered'[2] = 0 /\ 2 \notin posted'
        BY <1>1, <1>2, TargetsAre DEF IInv, TurnsAreKept
    <2> QED BY <1>1, <1>2, <2>1, <2>2, TargetsAre DEF TurnsAreKept
<1>5. PartsAddUp' /\ DryRunIsQuiet'
    BY <1>1, <1>2 DEF PartsAddUp, DryRunIsQuiet
<1>6. \A t \in {1, 2} : Done(t)' <=> Done(t) \/ t = target
    BY <1>1, <1>2 DEF Done
<1>7. FailureIsKnown'
    <2>1. failed <=> \E t \in Configured : Done(t) /\ delivered[t] # total
        BY <1>2 DEF IInv, FailureIsKnown
    <2>2. ~ Done(target)
        BY <1>2 DEF Done
    <2>3. failed' <=> failed \/ error
        BY <1>1, Zenon
    <2>4. failed' <=> \E t \in Configured : Done(t)' /\ delivered'[t] # total
        BY <1>2, <1>6, <2>1, <2>2, <2>3 DEF Targets
    <2> QED BY <1>2, <2>4 DEF FailureIsKnown
<1>8. TurnsAreTaken'
    BY <1>1, <1>2, <1>6 DEF IInv, TurnsAreTaken
<1> QED BY <1>3, <1>4, <1>5, <1>7, <1>8 DEF IInv

(* A step in the middle of a turn, or of a post.                           *)
LEMMA TurnGoesOn ==
    ASSUME IInv, at \in {"limit", "post", "pause"}, at' \in {"post", "pause"},
           UNCHANGED <<notifiers, dryRun, total, ctxDone, target, failed>>,
           token' \in [Targets -> BOOLEAN], elapsed' \in 0..Budget,
           delivered' \in [Targets -> 0..total],
           \A t \in Targets \ {target} : delivered'[t] = delivered[t],
           target \in Configured, part' \in 1..Parts(target), part' <= total,
           delivered'[target] = (part' - 1) * MessageSize(target),
           posted' = posted \/ posted' = posted \cup {target}
    PROVE  IInv'
<1>1. /\ target \in {1, 2} /\ total \in 0..MaxTransitions /\ total > 0
      /\ dryRun = FALSE /\ UNCHANGED Configured /\ Configured \subseteq {1, 2}
    BY SettingFacts DEF IInv, TypeOK, Targets, DryRunIsQuiet, TurnsAreKept, Configured
<1>2. UNCHANGED <<Parts(target), MessageSize(target)>>
    BY DEF Parts, MessageSize
<1>3. part' \in 1..(MaxTransitions + 1)
    <2>1. Parts(target) \in Int
        BY <1>1, DeliveryAssumption DEF Parts, MessageSize
    <2> QED BY <1>1, <2>1, DeliveryAssumption
<1>4. TypeOK'
    BY <1>1, <1>3 DEF IInv, TypeOK, Targets
<1>5. TurnsAreKept'
    <2>1. posted' \subseteq Configured'
        BY <1>1 DEF IInv, TurnsAreKept
    <2>2. \A t \in Targets : t > target => delivered'[t] = 0 /\ t \notin posted'
        BY <1>1, TargetsAre DEF IInv, TurnsAreKept
    <2> QED BY <1>1, <2>1, <2>2 DEF TurnsAreKept
<1>6. PartsAddUp' /\ DryRunIsQuiet'
    BY <1>1, <1>2 DEF PartsAddUp, DryRunIsQuiet
<1>7. \A t \in {1, 2} : (Done(t)' <=> Done(t)) /\ (Done(t) => t # target)
    BY <1>1 DEF Done
<1>8. FailureIsKnown' /\ TurnsAreTaken'
    BY <1>1, <1>7 DEF IInv, FailureIsKnown, TurnsAreTaken, Targets
<1> QED BY <1>4, <1>5, <1>6, <1>8 DEF IInv

-----------------------------------------------------------------------------
(* The limiter, and the pauses between two posts                           *)
LEMMA WaitInv == IInv /\ Wait => IInv'
<1> SUFFICES ASSUME IInv, Wait PROVE IInv'
    OBVIOUS
<1> USE DEF Env, Stay, setting
<1>1. /\ target \in Targets /\ total \in Nat \ {0} /\ delivered \in [Targets -> 0..total]
      /\ elapsed \in 0..Budget /\ token \in [Targets -> BOOLEAN]
    <2>1. at \in {"limit", "pause"}
        BY DEF Wait, Skip, TakeToken, LimitCancelled, Resume, PauseCancelled
    <2> QED BY <2>1, CallFacts
<1>2. CASE Skip
    <2>1. target \notin Configured
        BY <1>2 DEF Skip, Configured
    <2> QED BY <1>1, <1>2, <2>1, TurnEnds DEF Skip
<1>3. CASE TakeToken
    <2>1. target \in Configured /\ part = 1 /\ delivered[target] = 0
        BY <1>1, <1>3 DEF TakeToken, Configured, IInv, TurnsAreKept
    <2>2. Parts(target) \in Nat \ {0} /\ MessageSize(target) \in Nat
        BY <1>1, CeilingFacts, DeliveryAssumption DEF Parts, MessageSize
    <2>3. token' \in [Targets -> BOOLEAN]
        BY <1>1, <1>3 DEF TakeToken
    <2>4. /\ part' \in 1..Parts(target) /\ part' <= total
          /\ delivered'[target] = (part' - 1) * MessageSize(target)
        BY <1>1, <1>3, <2>1, <2>2 DEF TakeToken
    <2> QED BY <1>1, <1>3, <2>1, <2>3, <2>4, TurnGoesOn DEF TakeToken
<1>4. CASE LimitCancelled
    <2>1. target \in Configured /\ delivered[target] = 0
        BY <1>1, <1>4 DEF LimitCancelled, Configured, IInv, TurnsAreKept
    <2> QED BY <1>1, <1>4, <2>1, TurnEnds DEF LimitCancelled
<1>5. CASE Resume
    <2>1. /\ target \in Configured /\ part \in 1..Parts(target) /\ part <= total
          /\ delivered[target] = (part - 1) * MessageSize(target)
        BY <1>5, PostFacts DEF Resume
    <2> QED BY <1>1, <1>5, <2>1, TurnGoesOn DEF Resume
<1>6. CASE PauseCancelled
    <2>1. target \in Configured /\ delivered[target] # total
        BY <1>6, PostFacts DEF PauseCancelled
    <2> QED BY <1>1, <1>6, <2>1, TurnEnds DEF PauseCancelled
<1> QED BY <1>2, <1>3, <1>4, <1>5, <1>6 DEF Wait

(* A post, and the message after it.                                       *)
LEMMA PostInv == IInv /\ (Answered \/ PostLimited) => IInv'
<1> SUFFICES ASSUME IInv, Answered \/ PostLimited PROVE IInv'
    OBVIOUS
<1> USE DEF Env, Stay, setting, IsPosted
<1>1. /\ at = "post"
      /\ target \in Targets /\ total \in Nat \ {0} /\ delivered \in [Targets -> 0..total]
      /\ elapsed \in 0..Budget /\ token \in [Targets -> BOOLEAN]
      /\ target \in Configured /\ part \in 1..Parts(target)
      /\ delivered[target] = (part - 1) * MessageSize(target)
      /\ posted' = posted \cup {target}
      /\ UNCHANGED <<notifiers, dryRun, total, ctxDone, token>>
    <2>1. /\ at = "post" /\ posted' = posted \cup {target}
          /\ UNCHANGED <<notifiers, dryRun, total, ctxDone, token>>
        BY DEF Answered, PostAccepted, PostFails, PostRejected, PostLimited
    <2> QED BY <2>1, CallFacts, PostFacts
<1>2. /\ delivered[target] # total /\ part \in Nat /\ part <= total
      /\ Parts(target) \in Int
    <2>1. Parts(target) \in Nat
        BY <1>1, CeilingFacts, DeliveryAssumption DEF Parts, MessageSize
    <2> QED BY <1>1, <2>1, PostFacts
<1>3. CASE PostAccepted
    <2>1. /\ delivered' = [delivered EXCEPT ![target] = delivered[target] + PartSize(target)]
          /\ IF part < Parts(target)
               THEN part' = part + 1 /\ elapsed' = 0 /\ UNCHANGED <<at, target, failed>>
               ELSE NextNotifier(FALSE)
        BY <1>3 DEF PostAccepted
    <2>2. /\ delivered'[target] = delivered[target] + PartSize(target)
          /\ \A t \in Targets \ {target} : delivered'[t] = delivered[t]
        BY <1>1, <2>1
    <2>3. CASE part < Parts(target)
        <3>1. /\ part * MessageSize(target) \in Nat /\ part * MessageSize(target) < total
              /\ delivered'[target] = part * MessageSize(target)
            BY <1>1, <2>2, <2>3, MessageFacts
        <3>2. delivered' \in [Targets -> 0..total]
            BY <1>1, <2>1, <2>2, <3>1
        <3>3. part' \in 1..Parts(target) /\ part' - 1 = part /\ part' <= total
            BY <1>1, <1>2, <2>1, <2>3, MessageFacts
        <3>4. elapsed' \in 0..Budget
            BY <2>1, <2>3, DeliveryAssumption
        <3> QED BY <1>1, <2>1, <2>2, <2>3, <3>1, <3>2, <3>3, <3>4, TurnGoesOn
    <2>4. CASE ~(part < Parts(target))
        <3>1. delivered'[target] = total
            BY <1>1, <2>2, <2>4, MessageFacts
        <3>2. delivered' \in [Targets -> 0..total]
            BY <1>1, <2>1, <2>2, <3>1
        <3> QED BY <1>1, <2>1, <2>2, <2>4, <3>1, <3>2, TurnEnds
    <2> QED BY <2>3, <2>4
<1>4. ASSUME UNCHANGED delivered, NextNotifier(TRUE) PROVE IInv'
    BY <1>1, <1>2, <1>4, TurnEnds
<1>5. ASSUME UNCHANGED <<delivered, target, part, failed>>, at' = "pause",
             elapsed' \in 0..Budget
      PROVE  IInv'
    BY <1>1, <1>2, <1>5, TurnGoesOn
<1>6. CASE PostFails
    <2>1. CASE elapsed < Budget
        <3>1. elapsed' \in 0..Budget
            BY <1>1, <1>6, <2>1, DeliveryAssumption DEF PostFails
        <3> QED BY <1>5, <1>6, <2>1, <3>1 DEF PostFails
    <2>2. CASE ~(elapsed < Budget)
        BY <1>4, <1>6, <2>2 DEF PostFails
    <2> QED BY <2>1, <2>2
<1>7. CASE PostLimited
    <2>1. elapsed' \in 0..Budget
        BY <1>1, <1>7, DeliveryAssumption DEF PostLimited, Later
    <2> QED BY <1>5, <1>7, <2>1 DEF PostLimited
<1>8. CASE PostRejected
    BY <1>4, <1>8 DEF PostRejected
<1> QED BY <1>3, <1>6, <1>7, <1>8 DEF Answered

(* Limiters are refilled, and the process is told to stop.                 *)
LEMMA OthersInv ==
    IInv /\ ((\E t \in Targets : Refill(t)) \/ Cancel \/ UNCHANGED vars) => IInv'
<1> SUFFICES ASSUME IInv, (\E t \in Targets : Refill(t)) \/ Cancel \/ UNCHANGED vars
             PROVE  IInv'
    OBVIOUS
<1>1. /\ UNCHANGED <<notifiers, dryRun, at, target, total, part, elapsed, failed,
                     delivered, posted>>
      /\ token' \in [Targets -> BOOLEAN] /\ ctxDone' \in {ctxDone, TRUE}
    BY DEF IInv, TypeOK, Refill, Cancel, vars, setting
<1>2. TypeOK'
    BY <1>1 DEF IInv, TypeOK
<1>3. UNCHANGED Configured /\ \A t \in Targets : Done(t)' <=> Done(t)
    BY <1>1 DEF Configured, Done
<1>4. TurnsAreKept' /\ DryRunIsQuiet'
    BY <1>1, <1>3 DEF IInv, TurnsAreKept, DryRunIsQuiet
<1>5. PartsAddUp'
    BY <1>1, <1>3 DEF IInv, PartsAddUp, Parts, MessageSize
<1>6. FailureIsKnown'
    BY <1>1, <1>3 DEF IInv, FailureIsKnown, Configured
<1>7. TurnsAreTaken'
    <2>1. ~ctxDone' => ~ctxDone
        BY <1>1
    <2> QED BY <1>1, <1>3, <2>1 DEF IInv, TurnsAreTaken, Done
<1> QED BY <1>2, <1>4, <1>5, <1>6, <1>7 DEF IInv

(* The invariant behind the theorems below (multi.go:22-38).               *)
THEOREM DeliveryInductive == Spec => []IInv
<1>1. IInv /\ [Next]_vars => IInv'
    BY CallInv, WaitInv, PostInv, OthersInv DEF Next
<1> QED BY <1>1, InitInv, PTL DEF Spec

-----------------------------------------------------------------------------
(* The theorems                                                            *)

(* Types of the state; no notifier delivers more than it was given         *)
(* (slack.go:78-87).                                                       *)
THEOREM DeliveryTypeCorrect == Spec => []TypeOK
<1>1. IInv => TypeOK
    BY DEF IInv
<1> QED BY <1>1, DeliveryInductive, PTL

(* Notify returns nil exactly if every configured notifier delivered every *)
(* transition, in one message or many (multi.go:31-37, slack.go:78-87).    *)
THEOREM NilAlwaysMeansDelivered == Spec => []NilMeansDelivered
<1>1. IInv => NilMeansDelivered
    BY DEF IInv, DryRunIsQuiet, FailureIsKnown, Done, NilMeansDelivered
<1> QED BY <1>1, DeliveryInductive, PTL

(* A notifier that fails does not keep the others from being called        *)
(* (multi.go:27-38).                                                       *)
THEOREM EveryNotifierIsTried == Spec => []EveryNotifierTried
<1>1. IInv => EveryNotifierTried
    <2> SUFFICES ASSUME IInv, at = "returned", ~ctxDone, ~dryRun PROVE posted = Configured
        BY DEF EveryNotifierTried
    <2>1. posted \subseteq Configured
        BY DEF IInv, TurnsAreKept
    <2>2. Configured \subseteq posted
        BY DEF IInv, TurnsAreTaken, Done
    <2> QED BY <2>1, <2>2
<1> QED BY <1>1, DeliveryInductive, PTL

=============================================================================
