------------------------- MODULE DockerListing_proofs -------------------------
(***************************************************************************)
(* Proofs about DockerListing, for any items, characters, page size, depth *)
(* of the prefixes, number of attempts and number of changes: a listing    *)
(* that succeeds is complete.                                              *)
(***************************************************************************)
EXTENDS DockerListing, SequenceTheorems, TLAPS

(* What a call may be limited to.                                          *)
Parts == {p \in Seq(Range(Chars)) : Len(p) <= MaxDepth}

(* Item id is in one of these parts of the list.                           *)
IsIn(id, parts) == \E i \in DOMAIN parts : IsPrefix(parts[i], id)

-----------------------------------------------------------------------------
(* Lemmas about prefixes                                                   *)

LEMMA PrefixFacts ==
    ASSUME NEW S, NEW p \in Seq(S), NEW id \in Seq(S)
    PROVE  IsPrefix(p, id) <=> /\ Len(p) <= Len(id)
                               /\ \A i \in 1..Len(p) : p[i] = id[i]
  BY DEF IsPrefix

(* The prefixes of a part that is listed again are longer by one.          *)
LEMMA LongerType ==
    ASSUME NEW p \in Parts, Len(p) < MaxDepth
    PROVE  /\ Longer(p) \in Seq(Parts)
           /\ Longer(p) # <<>>
           /\ DOMAIN Longer(p) = 1..Len(Chars)
           /\ \A i \in 1..Len(Chars) : Longer(p)[i] = Append(p, Chars[i])
<1>1. /\ Chars \in Seq(Range(Chars)) /\ Chars # <<>>
      /\ MaxDepth \in Nat
  BY DockerListingAssumption
<1>2. /\ DOMAIN Chars = 1..Len(Chars)
      /\ Len(Chars) \in Nat \ {0}
      /\ \A i \in 1..Len(Chars) : Chars[i] \in Range(Chars)
  BY <1>1, LenProperties, EmptySeq, ElementOfSeq
<1>3. \A i \in 1..Len(Chars) : Append(p, Chars[i]) \in Parts
  BY <1>1, <1>2 DEF Parts
<1>4. Longer(p) \in [1..Len(Chars) -> Parts]
  BY <1>2, <1>3 DEF Longer
<1>5. Longer(p) \in Seq(Parts)
  BY <1>2, <1>4, SeqDef
<1> QED BY <1>2, <1>5, EmptySeq DEF Longer

(* Together they have what the shorter one has, since IDs are long enough. *)
LEMMA LongerCovers ==
    ASSUME NEW p \in Parts, Len(p) < MaxDepth, NEW id \in Ids, IsPrefix(p, id)
    PROVE  IsIn(id, Longer(p))
<1>1. /\ id \in Seq(Range(Chars)) /\ Len(p) < Len(id)
      /\ p \in Seq(Range(Chars))
  BY DockerListingAssumption DEF Parts
<1>2. /\ Len(p) + 1 \in 1..Len(id)
      /\ \A i \in 1..Len(p) : p[i] = id[i]
  BY <1>1, PrefixFacts
<1>3. id[Len(p) + 1] \in Range(Chars)
  BY <1>1, <1>2, ElementOfSeq
<1>4. PICK k \in 1..Len(Chars) : Chars[k] = id[Len(p) + 1]
  BY <1>3, DockerListingAssumption, LenProperties DEF Range
<1>5. Append(p, Chars[k]) \in Seq(Range(Chars))
  BY <1>1, <1>3, <1>4
<1>6. /\ Len(Append(p, Chars[k])) <= Len(id)
      /\ \A i \in 1..Len(Append(p, Chars[k])) : Append(p, Chars[k])[i] = id[i]
  BY <1>1, <1>2, <1>3, <1>4, AppendProperties
<1>7. IsPrefix(Append(p, Chars[k]), id)
  BY <1>1, <1>5, <1>6, PrefixFacts
<1> QED BY <1>4, <1>7, LongerType DEF IsIn

(* The whole list is the part with the empty prefix.                       *)
LEMMA EmptyPrefix ==
    /\ <<>> \in Parts
    /\ Len(<<>>) < MaxDepth
    /\ \A id \in Ids : IsPrefix(<<>>, id)
<1>1. <<>> \in Seq(Range(Chars)) /\ Len(<<>>) = 0
  BY EmptySeq
<1>2. MaxDepth \in Nat \ {0} /\ Ids \subseteq Seq(Range(Chars))
  BY DockerListingAssumption
<1>3. ASSUME NEW id \in Ids PROVE IsPrefix(<<>>, id)
  <2>1. id \in Seq(Range(Chars)) /\ Len(id) \in Nat
    BY <1>2, LenProperties
  <2>2. PICK p \in Seq(Range(Chars)) : p = <<>>
    BY <1>1
  <2>3. Len(p) = 0
    BY <1>1, <2>2
  <2>4. Len(p) <= Len(id) /\ \A i \in 1..Len(p) : p[i] = id[i]
    BY <2>1, <2>3
  <2>5. IsPrefix(p, id)
    BY <2>1, <2>4, PrefixFacts
  <2> QED BY <2>2, <2>5
<1> QED BY <1>1, <1>2, <1>3 DEF Parts

(* Of several parts, the first is called for and the others are left.      *)
LEMMA HeadOrTail ==
    ASSUME NEW parts \in Seq(Parts), parts # <<>>
    PROVE  /\ Head(parts) \in Parts
           /\ Tail(parts) \in Seq(Parts)
           /\ \A id : IsIn(id, parts) => IsPrefix(Head(parts), id) \/ IsIn(id, Tail(parts))
<1>1. /\ Head(parts) \in Parts
      /\ Tail(parts) \in Seq(Parts)
  BY HeadTailProperties
<1>2. ASSUME NEW id, NEW i \in DOMAIN parts, IsPrefix(parts[i], id)
      PROVE  IsPrefix(Head(parts), id) \/ IsIn(id, Tail(parts))
  <2>1. i \in 1..Len(parts) /\ Len(parts) \in Nat
    BY LenProperties
  <2>2. CASE i = 1
    BY <1>2, <2>2
  <2>3. CASE i # 1
    <3>1. i - 1 \in DOMAIN Tail(parts) /\ Tail(parts)[i - 1] = parts[i]
      BY <2>1, <2>3
    <3> QED BY <1>2, <3>1 DEF IsIn
  <2> QED BY <2>2, <2>3
<1> QED BY <1>1, <1>2 DEF IsIn

(* Parts put before others.                                                *)
LEMMA InEither ==
    ASSUME NEW s \in Seq(Parts), NEW t \in Seq(Parts), NEW id
    PROVE  IsIn(id, s \o t) <=> IsIn(id, s) \/ IsIn(id, t)
<1>1. /\ Len(s) \in Nat /\ DOMAIN s = 1..Len(s)
      /\ Len(t) \in Nat /\ DOMAIN t = 1..Len(t)
      /\ DOMAIN (s \o t) = 1..(Len(s) + Len(t))
  BY LenProperties, ConcatProperties
<1>2. /\ \A i \in DOMAIN s : i \in DOMAIN (s \o t) /\ (s \o t)[i] = s[i]
      /\ \A i \in DOMAIN t : Len(s) + i \in DOMAIN (s \o t) /\ (s \o t)[Len(s) + i] = t[i]
      /\ \A i \in DOMAIN (s \o t) :
            \/ i \in DOMAIN s /\ (s \o t)[i] = s[i]
            \/ i - Len(s) \in DOMAIN t /\ (s \o t)[i] = t[i - Len(s)]
  BY <1>1, ConcatProperties
<1> QED BY <1>2 DEF IsIn

-----------------------------------------------------------------------------
(* The inductive invariant                                                 *)

Calling == at \in {"call", "wait"}

(* What is asked for, and what is still to be.                             *)
PartsOK == prefix \in Parts /\ work \in Seq(Parts)

(* A call that waits for its backoff has an attempt left.                  *)
AttemptLeft == at = "wait" => attempt < MaxAttempts

(* What existed throughout exists; what exists has existed.                *)
History == always \subseteq items /\ items \subseteq ever

(* Until paging starts the call is for everything.                         *)
WholeFirst == Calling /\ ~paging => prefix = <<>>

Complete(list) == always \subseteq list /\ list \subseteq ever

(* Every list kept is one that the listing could return.                   *)
ListsAreComplete == \A list \in whole \cup outcome : Complete(list)

(* Nothing is forgotten between the calls: what existed throughout was     *)
(* found, or is in the part asked for now, or in one still to be asked for.*)
NothingDropped ==
    /\ results \subseteq ever
    /\ Calling /\ paging => \A id \in always : \/ id \in results
                                              \/ IsPrefix(prefix, id)
                                              \/ IsIn(id, work)

IInv ==
    /\ TypeOK
    /\ PartsOK
    /\ AttemptLeft
    /\ History
    /\ WholeFirst
    /\ ListsAreComplete
    /\ NothingDropped

LEMMA InitInv == Init => IInv
<1> SUFFICES ASSUME Init PROVE IInv
  OBVIOUS
<1>1. 1 \in 1..MaxAttempts /\ 0 \in 0..MaxChanges
  BY DockerListingAssumption
<1>2. <<>> \in Parts /\ <<>> \in Seq(Parts) /\ Len(<<>>) <= MaxDepth
  BY EmptyPrefix, EmptySeq DEF Parts
<1>3. TypeOK
  BY <1>1, <1>2 DEF Init, TypeOK
<1> QED BY <1>2, <1>3 DEF Init, IInv, PartsOK, AttemptLeft, History, WholeFirst, Calling,
                          ListsAreComplete, NothingDropped

(* A call for the first of several parts, in which whatever existed        *)
(* throughout and was not found must be.                                   *)
LEMMA CallInv ==
    ASSUME IInv, UNCHANGED server,
           NEW parts \in Seq(Parts), parts # <<>>, CallNext(parts),
           paging' \in BOOLEAN, ~paging' => parts = << <<>> >>,
           whole' \in SUBSET SUBSET Ids, \A list \in whole' : Complete(list),
           results' \in SUBSET Ids, results' \subseteq ever,
           outcome' \in {outcome, {}},
           paging' => \A id \in always : id \in results' \/ IsIn(id, parts)
    PROVE  IInv'
<1> USE DEF IInv
<1>1. /\ at' = "call" /\ attempt' = 1
      /\ prefix' = Head(parts) /\ work' = Tail(parts)
      /\ UNCHANGED <<items, ctxDone, changes, always, ever>>
  BY DEF CallNext, server
<1>2. PartsOK'
  BY <1>1, HeadOrTail DEF PartsOK
<1>3. TypeOK'
  <2>1. 1 \in 1..MaxAttempts
    BY DockerListingAssumption
  <2>2. Len(prefix') <= MaxDepth
    BY <1>2 DEF PartsOK, Parts
  <2> QED BY <1>1, <2>1, <2>2 DEF TypeOK
<1>4. AttemptLeft' /\ History'
  BY <1>1 DEF AttemptLeft, History
<1>5. WholeFirst'
  BY <1>1 DEF WholeFirst
<1>6. ListsAreComplete'
  BY <1>1 DEF ListsAreComplete, Complete
<1>7. NothingDropped'
  BY <1>1, HeadOrTail DEF NothingDropped
<1> QED BY <1>2, <1>3, <1>4, <1>5, <1>6, <1>7

(* The listing by prefixes begins with one part per character.             *)
LEMMA PagingFacts ==
    /\ Longer(<<>>) \in Seq(Parts)
    /\ Longer(<<>>) # <<>>
    /\ \A id \in Ids : IsIn(id, Longer(<<>>))
  BY EmptyPrefix, LongerType, LongerCovers

LEMMA StartInv == IInv /\ Start => IInv'
<1> SUFFICES ASSUME IInv, Start PROVE IInv'
  OBVIOUS
<1>1. /\ UNCHANGED <<whole, results, outcome, server>>
      /\ whole \in SUBSET SUBSET Ids
      /\ results \in SUBSET Ids
      /\ always \subseteq Ids
      /\ results \subseteq ever
      /\ \A list \in whole : Complete(list)
  BY DEF Start, IInv, TypeOK, NothingDropped, ListsAreComplete
<1>2. CASE CallNext(<< <<>> >>) /\ paging' = FALSE
  <2>1. << <<>> >> \in Seq(Parts) /\ << <<>> >> # <<>>
    BY EmptyPrefix
  <2> QED BY <1>1, <1>2, <2>1, CallInv
<1>3. CASE CallNext(Longer(<<>>)) /\ paging' = TRUE
  BY <1>1, <1>3, PagingFacts, CallInv
<1> QED BY <1>2, <1>3 DEF Start

(* The listing returns a list that is complete, or none.                   *)
LEMMA ReturnInv ==
    ASSUME IInv, UNCHANGED server,
           NEW lists \in SUBSET SUBSET Ids, \A list \in lists : Complete(list),
           Return(lists)
    PROVE  IInv'
<1>1. /\ at' = "returned" /\ outcome' = lists
      /\ UNCHANGED <<items, ctxDone, changes, always, ever>>
      /\ UNCHANGED <<paging, prefix, attempt, work, whole, results>>
  BY DEF Return, server
<1>2. TypeOK'
  BY <1>1 DEF IInv, TypeOK
<1>3. PartsOK' /\ AttemptLeft' /\ History' /\ WholeFirst'
  BY <1>1 DEF IInv, PartsOK, AttemptLeft, History, WholeFirst, Calling
<1>4. ListsAreComplete' /\ NothingDropped'
  BY <1>1 DEF IInv, ListsAreComplete, Complete, NothingDropped, Calling
<1> QED BY <1>2, <1>3, <1>4 DEF IInv

(* An error falls back on the whole list, or on the listing by prefixes.   *)
LEMMA FailedInv ==
    ASSUME IInv, UNCHANGED server, Failed
    PROVE  IInv'
<1>1. CASE paging
  BY <1>1, ReturnInv DEF Failed, IInv, TypeOK, ListsAreComplete
<1>2. CASE ~paging
  <2>1. /\ CallNext(Longer(<<>>))
        /\ paging' = TRUE
        /\ UNCHANGED <<whole, results, outcome>>
    BY <1>2 DEF Failed, StartPaging
  <2> QED BY <2>1, PagingFacts, CallInv
          DEF IInv, TypeOK, NothingDropped, ListsAreComplete
<1> QED BY <1>1, <1>2

-----------------------------------------------------------------------------
(* An answer                                                               *)

LEMMA FoundFacts ==
    ASSUME IInv
    PROVE  LET found == {id \in items : IsPrefix(prefix, id)}
           IN  /\ found \in SUBSET Ids
               /\ found \subseteq ever
               /\ \A id \in always : IsPrefix(prefix, id) => id \in found
  BY DEF IInv, TypeOK, History

LEMMA PageListedInv ==
    ASSUME IInv, UNCHANGED server, at = "call", paging,
           PageListed({id \in items : IsPrefix(prefix, id)})
    PROVE  IInv'
<1> DEFINE found == {id \in items : IsPrefix(prefix, id)}
           deeper == Cardinality(found) > PageSize /\ Len(prefix) < MaxDepth
           rest == IF deeper THEN Longer(prefix) \o work ELSE work
<1>1. /\ results' = IF deeper THEN results ELSE results \cup found
      /\ UNCHANGED <<paging, whole>>
      /\ IF rest = <<>>
           THEN /\ at' = "returned"
                /\ outcome' = {results'}
                /\ UNCHANGED <<prefix, attempt, work>>
           ELSE CallNext(rest) /\ UNCHANGED outcome
  BY DEF PageListed
<1>2. /\ prefix \in Parts /\ work \in Seq(Parts)
      /\ always \subseteq Ids
      /\ results \in SUBSET Ids /\ results \subseteq ever
      /\ found \in SUBSET Ids /\ found \subseteq ever
      /\ \A id \in always : IsPrefix(prefix, id) => id \in found
      /\ \A id \in always : id \in results \/ IsPrefix(prefix, id) \/ IsIn(id, work)
      /\ whole \in SUBSET SUBSET Ids
      /\ \A list \in whole : Complete(list)
  BY FoundFacts DEF IInv, TypeOK, PartsOK, NothingDropped, ListsAreComplete, Calling
<1>3. /\ rest \in Seq(Parts)
      /\ \A id \in always : id \in results' \/ IsIn(id, rest)
  <2>1. CASE deeper
    <3>1. /\ Longer(prefix) \in Seq(Parts)
          /\ \A id \in always : IsPrefix(prefix, id) => IsIn(id, Longer(prefix))
      BY <1>2, <2>1, LongerType, LongerCovers
    <3>2. /\ Longer(prefix) \o work \in Seq(Parts)
          /\ \A id : IsIn(id, Longer(prefix)) \/ IsIn(id, work)
                        => IsIn(id, Longer(prefix) \o work)
      BY <1>2, <3>1, ConcatProperties, InEither
    <3> QED BY <1>1, <1>2, <2>1, <3>1, <3>2
  <2>2. CASE ~deeper
    BY <1>1, <1>2, <2>2
  <2> QED BY <2>1, <2>2
<1>4. results' \in SUBSET Ids /\ results' \subseteq ever
  BY <1>1, <1>2
<1> HIDE DEF found, deeper, rest
<1>5. CASE rest = <<>>
  <2>1. \A id : ~ IsIn(id, rest)
    BY <1>5, EmptySeq DEF IsIn
  <2>2. always \subseteq results'
    BY <1>3, <2>1
  <2>3. /\ at' = "returned" /\ outcome' = {results'}
        /\ UNCHANGED <<paging, prefix, attempt, work, whole>>
        /\ UNCHANGED <<items, ctxDone, changes, always, ever>>
    BY <1>1, <1>5 DEF server
  <2>4. TypeOK'
    BY <1>4, <2>3 DEF IInv, TypeOK
  <2>5. PartsOK' /\ AttemptLeft' /\ History' /\ WholeFirst'
    BY <2>3 DEF IInv, PartsOK, AttemptLeft, History, WholeFirst, Calling
  <2>6. ListsAreComplete' /\ NothingDropped'
    BY <1>4, <2>2, <2>3 DEF IInv, ListsAreComplete, Complete, NothingDropped, Calling
  <2> QED BY <2>4, <2>5, <2>6 DEF IInv
<1>6. CASE rest # <<>>
  BY <1>1, <1>2, <1>3, <1>4, <1>6, CallInv
<1> QED BY <1>5, <1>6

LEMMA AnswerInv == IInv /\ Answer => IInv'
<1> SUFFICES ASSUME IInv, Answer PROVE IInv'
  OBVIOUS
<1> DEFINE found == {id \in items : IsPrefix(prefix, id)}
<1>1. at = "call" /\ UNCHANGED server /\ Listed(found)
  BY DEF Answer
<1>2. CASE paging
  BY <1>1, <1>2, PageListedInv DEF Listed
<1>3. CASE ~paging
  <2>1. found \in SUBSET Ids /\ Complete(found)
    <3>1. prefix = <<>> /\ always \subseteq Ids
      BY <1>1, <1>3 DEF IInv, WholeFirst, Calling, TypeOK
    <3> QED BY <3>1, FoundFacts, EmptyPrefix DEF Complete
  <2>2. CASE Return({found})
    BY <1>1, <2>1, <2>2, ReturnInv
  <2>3. CASE StartPaging /\ whole' = {found}
    BY <1>1, <2>1, <2>3, PagingFacts, CallInv DEF StartPaging, IInv, TypeOK, NothingDropped
  <2> QED BY <1>1, <1>3, <2>2, <2>3 DEF Listed
<1> QED BY <1>2, <1>3

-----------------------------------------------------------------------------
LEMMA ErrorInv == IInv /\ (TransientError \/ PermanentError \/ Cancelled) => IInv'
<1>1. ASSUME IInv, UNCHANGED server, at = "call", at' = "wait", attempt < MaxAttempts,
             UNCHANGED <<paging, prefix, attempt, work, whole, results, outcome>>
      PROVE  IInv'
  BY <1>1 DEF IInv, TypeOK, PartsOK, AttemptLeft, History, WholeFirst, Calling,
              ListsAreComplete, Complete, NothingDropped, server
<1> QED BY <1>1, FailedInv DEF TransientError, PermanentError, Cancelled

LEMMA RetryInv == IInv /\ Retry => IInv'
<1> SUFFICES ASSUME IInv, Retry PROVE IInv'
  OBVIOUS
<1>1. attempt' \in 1..MaxAttempts
  BY DockerListingAssumption DEF Retry, IInv, TypeOK, AttemptLeft
<1> QED BY <1>1 DEF Retry, IInv, TypeOK, PartsOK, AttemptLeft, History, WholeFirst,
                    Calling, ListsAreComplete, Complete, NothingDropped, server

LEMMA NextListingInv == IInv /\ NextListing => IInv'
<1> SUFFICES ASSUME IInv, NextListing PROVE IInv'
  OBVIOUS
<1>1. 1 \in 1..MaxAttempts /\ 0 \in 0..MaxChanges
  BY DockerListingAssumption
<1>2. <<>> \in Parts /\ <<>> \in Seq(Parts) /\ Len(<<>>) <= MaxDepth
  BY EmptyPrefix, EmptySeq DEF Parts
<1>3. TypeOK'
  BY <1>1, <1>2 DEF NextListing, IInv, TypeOK
<1> QED BY <1>2, <1>3 DEF NextListing, IInv, PartsOK, AttemptLeft, History, WholeFirst,
                          Calling, ListsAreComplete, NothingDropped

(* What is created or deleted meanwhile takes nothing away from what is    *)
(* promised.                                                               *)
LEMMA ChangeInv ==
    ASSUME IInv, \E id \in Ids : Create(id) \/ Delete(id)
    PROVE  IInv'
<1>1. /\ UNCHANGED <<at, paging, prefix, attempt, work, whole, results, outcome, ctxDone>>
      /\ always' \subseteq always /\ ever \subseteq ever'
      /\ always' \subseteq items' /\ items' \subseteq ever' /\ ever' \subseteq Ids
  BY DEF Create, Delete, Changed, IInv, TypeOK, History
<1>2. changes' \in 0..MaxChanges
  BY DockerListingAssumption DEF Create, Delete, Changed, IInv, TypeOK
<1>3. TypeOK'
  BY <1>1, <1>2 DEF IInv, TypeOK
<1>4. PartsOK' /\ AttemptLeft' /\ History' /\ WholeFirst'
  BY <1>1 DEF IInv, PartsOK, AttemptLeft, History, WholeFirst, Calling
<1>5. ListsAreComplete' /\ NothingDropped'
  BY <1>1 DEF IInv, ListsAreComplete, Complete, NothingDropped, Calling
<1> QED BY <1>3, <1>4, <1>5 DEF IInv

LEMMA NextInv == IInv /\ [Next]_vars => IInv'
<1> SUFFICES ASSUME IInv, [Next]_vars PROVE IInv'
  OBVIOUS
<1>1. CASE Cancel
  BY <1>1 DEF Cancel, IInv, TypeOK, PartsOK, AttemptLeft, History, WholeFirst, Calling,
              ListsAreComplete, Complete, NothingDropped
<1>2. CASE UNCHANGED vars
  BY <1>2 DEF vars, IInv, TypeOK, PartsOK, AttemptLeft, History, WholeFirst, Calling,
              ListsAreComplete, Complete, NothingDropped
<1> QED BY <1>1, <1>2, StartInv, AnswerInv, ErrorInv, RetryInv, NextListingInv, ChangeInv
        DEF Next, Client

(* The invariant holds in every reachable state.                           *)
THEOREM DockerListingInductive == Spec => []IInv
  BY InitInv, NextInv, PTL DEF Spec

-----------------------------------------------------------------------------
(* The theorems                                                            *)

(* The state keeps its types: attempts and the depth of the prefixes stay  *)
(* within their bounds.                                                    *)
THEOREM DockerListingTypeCorrect == Spec => []TypeOK
  BY DockerListingInductive, PTL DEF IInv

(* A list that is returned has everything that existed all the time and    *)
(* nothing that never did, whatever was split, failed, was cancelled or    *)
(* changed (docker_client.go:260-274, pagination.go:28-64), if IDs are at  *)
(* least as long as the longest prefix and made of its characters.         *)
THEOREM ReturnedIsComplete == Spec => []ListingIsComplete
<1>1. IInv => ListingIsComplete
  BY DEF IInv, ListsAreComplete, Complete, ListingIsComplete
<1> QED BY <1>1, DockerListingInductive, PTL

=============================================================================
