----------------------------- MODULE DockerListing -----------------------------
(***************************************************************************)
(* One ServiceList or TaskList of DockerClient: every API call is retried  *)
(* with a backoff, and a list that fails or is longer than a page is asked *)
(* for again in parts, by prefixes of the IDs, to a limited depth. Items   *)
(* are created and deleted between the calls.                              *)
(*                                                                         *)
(* The recursion over prefixes is a stack of prefixes still to be listed.  *)
(***************************************************************************)
EXTENDS Integers, FiniteSets, SequencesExt

CONSTANTS
    Ids,            \* of items, as sequences of characters
    Chars,          \* idPrefixCharacters, as a sequence
    PageSize,       \* maxListPageSize
    MaxDepth,       \* maxIDPrefixDepth
    MaxAttempts,    \* of one call: maxRetries + 1
    MaxChanges      \* model bound: items created or deleted during a listing

ASSUME DockerListingAssumption ==
    /\ PageSize \in Nat
    /\ {MaxDepth, MaxAttempts} \subseteq Nat \ {0}
    /\ MaxChanges \in Nat
    /\ Chars \in Seq(Range(Chars)) /\ Chars # <<>>
    /\ Ids \subseteq Seq(Range(Chars))
    /\ \A id \in Ids : Len(id) >= MaxDepth    \* Docker's IDs have 25 characters

VARIABLES
    items,      \* what exists in the swarm
    at,         \* idle, call (a request is out), wait (backoff) or returned
    paging,     \* listing by prefixes
    prefix,     \* of the current call; empty for the whole list
    attempt,    \* of the current call
    work,       \* prefixes still to be listed
    whole,      \* the whole list, if its call succeeded: a set of one
    results,    \* collected by prefixes so far
    outcome,    \* what the listing returned: a set of one, or of no list
    ctxDone,    \* the timeout of GetActualState, or a shutdown
    changes,
    always, ever    \* history: items that existed throughout, at some time

vars == <<items, at, paging, prefix, attempt, work, whole, results, outcome,
          ctxDone, changes, always, ever>>
server == <<items, ctxDone, changes, always, ever>>

Init ==
    /\ items \in SUBSET Ids
    /\ at = "idle"
    /\ paging = FALSE
    /\ prefix = <<>>
    /\ attempt = 1
    /\ work = <<>>
    /\ whole = {}
    /\ results = {}
    /\ outcome = {}
    /\ ctxDone = FALSE
    /\ changes = 0
    /\ always = items
    /\ ever = items

Longer(p) == [i \in DOMAIN Chars |-> Append(p, Chars[i])]

-----------------------------------------------------------------------------
(* listServices, listTasks and paginateByIDPrefix                          *)

CallNext(prefixes) ==
    /\ at' = "call"
    /\ prefix' = Head(prefixes)
    /\ attempt' = 1
    /\ work' = Tail(prefixes)

Return(lists) ==
    /\ at' = "returned"
    /\ outcome' = lists
    /\ UNCHANGED <<paging, prefix, attempt, work, whole, results>>

(* A service that wants more tasks than a page is listed by prefixes only. *)
Start ==
    /\ at = "idle"
    /\ \/ CallNext(<< <<>> >>) /\ paging' = FALSE
       \/ CallNext(Longer(<<>>)) /\ paging' = TRUE
    /\ UNCHANGED <<whole, results, outcome, server>>

StartPaging ==
    /\ CallNext(Longer(<<>>))
    /\ paging' = TRUE
    /\ UNCHANGED <<results, outcome>>

(* Mutated form: what is too long for a page at the last depth is dropped. *)
PageListedDropsDeep(found) ==
    LET deeper == Cardinality(found) > PageSize /\ Len(prefix) < MaxDepth
        kept == IF Cardinality(found) > PageSize THEN results ELSE results \cup found
        rest == IF deeper THEN Longer(prefix) \o work ELSE work
    IN  /\ results' = kept
        /\ UNCHANGED <<paging, whole>>
        /\ IF rest = <<>>
             THEN /\ at' = "returned"
                  /\ outcome' = {results'}
                  /\ UNCHANGED <<prefix, attempt, work>>
             ELSE CallNext(rest) /\ UNCHANGED outcome

(* Mutated form: a long part is listed again by the same prefix.           *)
PageListedAgain(found) ==
    LET deeper == Cardinality(found) > PageSize /\ Len(prefix) < MaxDepth
        rest == IF deeper THEN <<prefix>> \o work ELSE work
    IN  /\ results' = IF deeper THEN results ELSE results \cup found
        /\ UNCHANGED <<paging, whole>>
        /\ IF rest = <<>>
             THEN /\ at' = "returned"
                  /\ outcome' = {results'}
                  /\ UNCHANGED <<prefix, attempt, work>>
             ELSE CallNext(rest) /\ UNCHANGED outcome

(* A long part is listed again by longer prefixes, except at MaxDepth.     *)
PageListed(found) ==
    LET deeper == Cardinality(found) > PageSize /\ Len(prefix) < MaxDepth
        rest == IF deeper THEN Longer(prefix) \o work ELSE work
    IN  /\ results' = IF deeper THEN results ELSE results \cup found
        /\ UNCHANGED <<paging, whole>>
        /\ IF rest = <<>>
             THEN /\ at' = "returned"
                  /\ outcome' = {results'}
                  /\ UNCHANGED <<prefix, attempt, work>>
             ELSE CallNext(rest) /\ UNCHANGED outcome

Listed(found) ==
    IF paging THEN PageListed(found)
    ELSE IF Cardinality(found) <= PageSize
      THEN Return({found})
      ELSE StartPaging /\ whole' = {found}

(* Paging that fails falls back on the whole list, if there is one.        *)
Failed ==
    IF paging THEN Return(whole)
              ELSE StartPaging /\ UNCHANGED whole

-----------------------------------------------------------------------------
(* withRetry, around each call                                             *)

Answer ==
    /\ at = "call"
    /\ ~ctxDone
    /\ Listed({id \in items : IsPrefix(prefix, id)})
    /\ UNCHANGED server

(* Mutated form: one attempt too many.                                     *)
TransientErrorOnceMore ==
    /\ at = "call"
    /\ ~ctxDone
    /\ IF attempt <= MaxAttempts
         THEN /\ at' = "wait"
              /\ UNCHANGED <<paging, prefix, attempt, work, whole, results, outcome>>
         ELSE Failed
    /\ UNCHANGED server

(* A timeout, a reset connection, an election: again, after a backoff.     *)
TransientError ==
    /\ at = "call"
    /\ ~ctxDone
    /\ IF attempt < MaxAttempts
         THEN /\ at' = "wait"
              /\ UNCHANGED <<paging, prefix, attempt, work, whole, results, outcome>>
         ELSE Failed
    /\ UNCHANGED server

(* The daemon refuses: the call is not tried again.                        *)
PermanentError ==
    /\ at = "call"
    /\ ~ctxDone
    /\ Failed
    /\ UNCHANGED server

Retry ==
    /\ at = "wait"
    /\ ~ctxDone
    /\ at' = "call"
    /\ attempt' = attempt + 1
    /\ UNCHANGED <<paging, prefix, work, whole, results, outcome, server>>

Cancelled ==
    /\ at \in {"call", "wait"}
    /\ ctxDone
    /\ Failed
    /\ UNCHANGED server

-----------------------------------------------------------------------------
(* The next cycle, with a new timeout; the swarm; the clock                *)

NextListing ==
    /\ at = "returned"
    /\ at' = "idle"
    /\ paging' = FALSE
    /\ prefix' = <<>>
    /\ attempt' = 1
    /\ work' = <<>>
    /\ whole' = {}
    /\ results' = {}
    /\ outcome' = {}
    /\ ctxDone' = FALSE
    /\ changes' = 0
    /\ always' = items
    /\ ever' = items
    /\ UNCHANGED items

Changed ==
    /\ at \in {"call", "wait"}
    /\ changes < MaxChanges
    /\ changes' = changes + 1
    /\ UNCHANGED <<at, paging, prefix, attempt, work, whole, results, outcome,
                   ctxDone>>

Create(id) ==
    /\ id \notin items
    /\ items' = items \cup {id}
    /\ ever' = ever \cup {id}
    /\ UNCHANGED always
    /\ Changed

Delete(id) ==
    /\ id \in items
    /\ items' = items \ {id}
    /\ always' = always \ {id}
    /\ UNCHANGED ever
    /\ Changed

Cancel ==
    /\ at \in {"call", "wait"}
    /\ ~ctxDone
    /\ ctxDone' = TRUE
    /\ UNCHANGED <<items, at, paging, prefix, attempt, work, whole, results,
                   outcome, changes, always, ever>>

Client == Answer \/ TransientError \/ PermanentError \/ Retry \/ Cancelled

Next ==
    \/ Start \/ Client \/ NextListing
    \/ \E id \in Ids : Create(id) \/ Delete(id)
    \/ Cancel

(* A call ends, by its timeout at the latest, and a backoff ends.          *)
Spec == Init /\ [][Next]_vars /\ WF_vars(Client)

-----------------------------------------------------------------------------
(* Types of the state.                                                     *)
TypeOK ==
    /\ {items, results, always, ever} \subseteq SUBSET Ids
    /\ at \in {"idle", "call", "wait", "returned"}
    /\ {paging, ctxDone} \subseteq BOOLEAN
    /\ Len(prefix) <= MaxDepth
    /\ attempt \in 1..MaxAttempts
    /\ {whole, outcome} \subseteq SUBSET SUBSET Ids
    /\ changes \in 0..MaxChanges

(* A listing that succeeds has everything that existed all the time, and   *)
(* nothing that never did: no part is dropped, neither by the depth limit  *)
(* nor by an error in the middle (docker_client.go:260-274, pagination.go).*)
ListingIsComplete ==
    at = "returned" =>
        \A list \in outcome : always \subseteq list /\ list \subseteq ever

(* A listing that starts ends, in spite of errors and long lists           *)
(* (docker_client.go:321-354, pagination.go:43-64).                        *)
ListingEnds == at \in {"call", "wait"} ~> at = "returned"

=============================================================================
