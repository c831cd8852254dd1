---------------------------- MODULE ComposeFetch ----------------------------
(***************************************************************************)
(* compose.HTTPFetcher below Sentinel: the requests a fetch is made of,    *)
(* sent, answered and retried one by one while the source changes. A       *)
(* request names the ETag the runner keeps; the source answers for what it *)
(* serves when it handles the request, and the runner acts on that answer  *)
(* later. Everything but the fetch is Sentinel's own.                      *)
(***************************************************************************)
EXTENDS Sentinel, Naturals

CONSTANT MaxRetries     \* HTTPFetcher.maxRetries

ASSUME ComposeFetchAssumption == MaxRetries \in Nat

VARIABLES
    seen,       \* what each source served when it last handled a request
    attempt,    \* the loop variable of Fetch
    reply       \* where the current request is, or what has come back

fetchVars == <<seen, attempt, reply>>
allVars == <<vars, fetchVars>>

(* Failures Fetch may try again, and those it returns at once. A body cut  *)
(* short or over the limit is an error without a status, like one of the   *)
(* network; other statuses and empty bodies are refusals.                  *)
TransientReplies == {"unavailable", "cut"}

Replies == {"unsent", "backoff", "notModified", "tagged", "untagged", "refused"}
               \cup TransientReplies

(* To Sentinel the source changes when a request finds it changed.         *)
S == INSTANCE Sentinel WITH remote <- seen

FetchInit ==
    /\ Init
    /\ seen = remote
    /\ attempt = [s \in Stacks |-> 0]
    /\ reply = [s \in Stacks |-> "unsent"]

Fetching(s, r) == pc[s] = "fetch" /\ reply[s] = r

(* Fetch returns: its loop variable and its request are gone.              *)
Return(s) ==
    /\ attempt' = [attempt EXCEPT ![s] = 0]
    /\ reply' = [reply EXCEPT ![s] = "unsent"]
    /\ UNCHANGED <<remote, seen>>

-----------------------------------------------------------------------------
(* HTTPFetcher.doFetch: one request, as the source sees it.                *)

(* The source may answer 304 only to the ETag of what it serves, and it    *)
(* may ignore the ETag.                                                    *)
AnswersOf(s) ==
    {IF tagged THEN "tagged" ELSE "untagged" : tagged \in ETagChoices[s]}
        \cup (IF etag[s] = remote[s] THEN {"notModified"} ELSE {})

Serve(s, r) ==
    /\ Fetching(s, "unsent")
    /\ ~ctxDone
    /\ seen' = [seen EXCEPT ![s] = remote[s]]
    /\ reply' = [reply EXCEPT ![s] = r]
    /\ UNCHANGED <<vars, attempt>>

ServeWell(s) == \E r \in AnswersOf(s) : Serve(s, r)

(* The connection breaks, or the server answers with another status.       *)
ServeNothing(s) ==
    /\ Fetching(s, "unsent")
    /\ ~ctxDone
    /\ \E r \in {"unavailable", "refused"} : reply' = [reply EXCEPT ![s] = r]
    /\ UNCHANGED <<vars, seen, attempt>>

-----------------------------------------------------------------------------
(* HTTPFetcher.Fetch: the loop around doFetch.                             *)

NotModified(s) ==
    /\ Fetching(s, "notModified")
    /\ S!FetchNotModified(s)
    /\ Return(s)

Body(s, tagged) ==
    /\ Fetching(s, IF tagged THEN "tagged" ELSE "untagged")
    /\ S!FetchBody(s, tagged)
    /\ Return(s)

(* Mutated form: the ETag of a body is kept before the body is read.       *)
RetryKeepsETag(s) ==
    /\ pc[s] = "fetch"
    /\ reply[s] \in TransientReplies
    /\ attempt[s] < MaxRetries
    /\ ~ctxDone
    /\ attempt' = [attempt EXCEPT ![s] = @ + 1]
    /\ reply' = [reply EXCEPT ![s] = "backoff"]
    /\ etag' = [etag EXCEPT ![s] = IF reply[s] = "cut" THEN seen[s] ELSE @]
    /\ UNCHANGED <<remote, pc, hash, desired, local, lock, file, pending, ctxDone, seen>>

(* Mutated form: one attempt too many.                                     *)
RetryOnceMore(s) ==
    /\ pc[s] = "fetch"
    /\ reply[s] \in TransientReplies
    /\ attempt[s] <= MaxRetries
    /\ ~ctxDone
    /\ attempt' = [attempt EXCEPT ![s] = @ + 1]
    /\ reply' = [reply EXCEPT ![s] = "backoff"]
    /\ UNCHANGED <<vars, seen>>

(* Mutated form: the attempts are not counted.                             *)
RetryForEver(s) ==
    /\ pc[s] = "fetch"
    /\ reply[s] \in TransientReplies
    /\ ~ctxDone
    /\ reply' = [reply EXCEPT ![s] = "backoff"]
    /\ UNCHANGED <<vars, seen, attempt>>

Retry(s) ==
    /\ pc[s] = "fetch"
    /\ reply[s] \in TransientReplies
    /\ attempt[s] < MaxRetries
    /\ ~ctxDone
    /\ attempt' = [attempt EXCEPT ![s] = @ + 1]
    /\ reply' = [reply EXCEPT ![s] = "backoff"]
    /\ UNCHANGED <<vars, seen>>

(* The timer fires; select may prefer it to a context that is done, and    *)
(* then the next request fails at once.                                    *)
Resume(s) ==
    /\ Fetching(s, "backoff")
    /\ reply' = [reply EXCEPT ![s] = "unsent"]
    /\ UNCHANGED <<vars, seen, attempt>>

(* A refusal, the last attempt, or a context that ends before the answer   *)
(* has come.                                                               *)
GiveUp(s) ==
    /\ \/ reply[s] = "refused"
       \/ reply[s] \in TransientReplies /\ attempt[s] = MaxRetries
       \/ ctxDone
    /\ FetchFails(s)
    /\ Return(s)

FetchStep(s) ==
    \/ NotModified(s)
    \/ \E tagged \in ETagChoices[s] : Body(s, tagged)
    \/ Retry(s) \/ Resume(s) \/ GiveUp(s)

Request(s) == ServeWell(s) \/ Serve(s, "cut") \/ ServeNothing(s)

-----------------------------------------------------------------------------
AfterFetch(s) ==
    \/ CollectFails(s) \/ CollectOnly(s) \/ CollectAndEvaluate(s)
    \/ LoadFails(s) \/ Load(s) \/ SaveFails(s) \/ Save(s)

Elsewhere ==
    \/ \E s \in Stacks :
          Tick(s) \/ Stop(s) \/ AfterFetch(s) \/ Acquire(s) \/ Notify(s) \/ Publish(s)
    \/ Shutdown \/ LoseFile

FetchNext ==
    \/ \E s \in Stacks : Request(s) \/ FetchStep(s)
    \/ Elsewhere /\ UNCHANGED fetchVars
    \/ /\ Crash \/ Restart
       /\ attempt' = [s \in Stacks |-> 0]
       /\ reply' = [s \in Stacks |-> "unsent"]
       /\ UNCHANGED seen

(* Requests time out and backoffs end; the rest is Sentinel's fairness.    *)
FetchFairness(s) ==
    /\ WF_allVars(Request(s))
    /\ WF_allVars(FetchStep(s))
    /\ WF_allVars(Tick(s) /\ UNCHANGED fetchVars)
    /\ WF_allVars(AfterFetch(s) /\ UNCHANGED fetchVars)
    /\ SF_allVars(Acquire(s) /\ UNCHANGED fetchVars)

FetchSpec ==
    /\ FetchInit
    /\ [][FetchNext]_allVars
    /\ \A s \in Stacks : FetchFairness(s)

-----------------------------------------------------------------------------
(* Types of the state; a request is under way only in a fetch, and an      *)
(* attempt after the first only after a failure that is tried again.       *)
FetchTypeOK ==
    /\ TypeOK
    /\ seen \in [Stacks -> Composes]
    /\ attempt \in [Stacks -> 0..MaxRetries]
    /\ reply \in [Stacks -> Replies]
    /\ \A s \in Stacks : pc[s] # "fetch" => attempt[s] = 0 /\ reply[s] = "unsent"
    /\ \A s \in Stacks : reply[s] = "backoff" => attempt[s] > 0

(* With its requests, retries and late answers a fetch is still the single *)
(* step Sentinel takes it for (runner.go:230-268), and the cycles around   *)
(* it are those of AlertCycle: attempts that fail leave no trace in what   *)
(* the runner keeps.                                                       *)
ImplementsSentinel == S!Spec /\ S!CyclesAreAtomic

(* A cycle that gets past the compose step evaluates against the body the  *)
(* source served at its last request, if that parses (ARCHITECTURE.md:103) *)
(* also when earlier attempts met other bodies, or ones that were cut.     *)
(* For a source that sends an ETag always or never: see DesiredIsCurrent.  *)
AnswerBecomesDesired == S!DesiredIsCurrent

(* A source that answers requests again and again, however many fail in    *)
(* between, gets what it keeps serving evaluated, if notifications return. *)
ServedIsEvaluated ==
    (\A s \in Stacks : /\ SF_allVars(ServeWell(s))
                      /\ WF_allVars(Notify(s) /\ UNCHANGED fetchVars))
        => PublishedIsEvaluated

(* A fetch ends, whatever the source answers: attempts are counted, and    *)
(* refusals and a done context end it at once (fetcher.go:126-160).        *)
FetchEnds == \A s \in Stacks : pc[s] = "fetch" ~> pc[s] # "fetch"

=============================================================================
