--------------------------- MODULE SearchQueryProofs ---------------------------
(***************************************************************************)
(* Theorems about SearchQuery, for any comics, words, keywords and limits. *)
(*                                                                         *)
(* Without drops the table and the index only grow under a query, so what  *)
(* its look-ups add up to lies between what they would have added up to at *)
(* its start and now, although each of them saw another state.             *)
(***************************************************************************)
EXTENDS SearchQuery, IndexSyncProofs, FiniteSetTheorems

-----------------------------------------------------------------------------
(***************************************************************************)
(* Scores, and the comics picked by them.                                  *)
(***************************************************************************)

LEMMA FoundFinite ==
    ASSUME NEW s
    PROVE  /\ Found(s) \in SUBSET Ids
           /\ IsFiniteSet(Found(s))
           /\ Cardinality(Found(s)) \in Nat
<1>1. IsFiniteSet(Ids)
  BY MaxIDAssumption, FS_Interval DEF Ids
<1>2. Found(s) \in SUBSET Ids
  BY DEF Found
<1> QED BY <1>1, <1>2, FS_Subset, FS_CardinalityType

\* Cutting the sorted comics leaves as many as the limit allows, all of them found.
LEMMA TopIs ==
    ASSUME NEW s, NEW n \in Nat, NEW q \in Top(s, n)
    PROVE  /\ q \in Seq(Found(s))
           /\ Len(q) = Capped(Cardinality(Found(s)), n)
           /\ Len(q) <= n
<1> DEFINE c == Cardinality(Found(s))
<1>1. PICK p \in Sorted(s) : q = SubSeq(p, 1, Capped(Len(p), n))
  BY DEF Top
<1>2. c \in Nat
  BY FoundFinite
<1>3. p \in [1 .. c -> Found(s)]
  BY DEF Sorted
<1>4. Len(p) = c
  BY <1>2, <1>3
<1>5. Capped(c, n) \in 0 .. c /\ Capped(c, n) <= n
  BY <1>2 DEF Capped
<1>6. \A i \in 1 .. Capped(c, n) : p[i] \in Found(s)
  BY <1>2, <1>3, <1>5
<1>7. /\ SubSeq(p, 1, Capped(c, n)) \in Seq(Found(s))
      /\ Len(SubSeq(p, 1, Capped(c, n))) = Capped(c, n)
  BY <1>5, <1>6, SubSeqProperties
<1> QED BY <1>1, <1>4, <1>5, <1>7

LEMMA CappedMonotone ==
    ASSUME NEW a \in Nat, NEW b \in Nat, NEW n \in Nat, a <= b
    PROVE  Capped(a, n) <= Capped(b, n)
BY DEF Capped

LEMMA ScoreTypes ==
    ASSUME NEW ind, NEW ws \in SUBSET Words, NEW i \in Ids
    PROVE  /\ IsFiniteSet({w \in ws : i \in ind[w]})
           /\ ScoresIn(ind, ws)[i] = Cardinality({w \in ws : i \in ind[w]})
           /\ ScoresIn(ind, ws)[i] \in Nat
<1>1. {w \in ws : i \in ind[w]} \in SUBSET Words
  OBVIOUS
<1>2. IsFiniteSet({w \in ws : i \in ind[w]})
  BY <1>1, QueryAssumption, FS_Subset
<1> QED BY <1>2, FS_CardinalityType DEF ScoresIn

LEMMA ScoreMonotone ==
    ASSUME NEW small, NEW big, NEW ws \in SUBSET Words, NEW i \in Ids,
           \A w \in Words : small[w] \subseteq big[w]
    PROVE  ScoresIn(small, ws)[i] <= ScoresIn(big, ws)[i]
<1> DEFINE S == {w \in ws : i \in small[w]}
           B == {w \in ws : i \in big[w]}
<1>1. S \in SUBSET B
  OBVIOUS
<1>2. IsFiniteSet(B) /\ ScoresIn(small, ws)[i] = Cardinality(S)
      /\ ScoresIn(big, ws)[i] = Cardinality(B)
  BY ScoreTypes
<1>3. Cardinality(S) <= Cardinality(B)
  <2> HIDE DEF S, B
  <2> QED BY <1>1, <1>2, FS_Subset
<1> QED BY <1>2, <1>3

\* One more word adds one to the score of the comics listed under it.
LEMMA ScoreAdds ==
    ASSUME NEW ind, NEW ws \in SUBSET Words, NEW w \in Words \ ws, NEW i \in Ids
    PROVE  ScoresIn(ind, ws \cup {w})[i] =
               IF i \in ind[w] THEN ScoresIn(ind, ws)[i] + 1 ELSE ScoresIn(ind, ws)[i]
<1> DEFINE W(s) == {v \in s : i \in ind[v]}
<1>1. W(ws \cup {w}) = IF i \in ind[w] THEN W(ws) \cup {w} ELSE W(ws)
  OBVIOUS
<1>2. IsFiniteSet(W(ws)) /\ w \notin W(ws)
  BY ScoreTypes
<1>3. Cardinality(W(ws) \cup {w}) = Cardinality(W(ws)) + 1
  BY <1>2, FS_AddElement
<1>4. /\ ScoresIn(ind, ws)[i] = Cardinality(W(ws))
      /\ ScoresIn(ind, ws \cup {w})[i] = Cardinality(W(ws \cup {w}))
  BY DEF ScoresIn
<1> QED BY <1>1, <1>3, <1>4

LEMMA ScoreOfNothing ==
    ASSUME NEW ind, NEW i \in Ids
    PROVE  ScoresIn(ind, {})[i] = 0
BY FS_EmptySet DEF ScoresIn

\* A comic that scores is listed under some word.
LEMMA ScoredIsListed ==
    ASSUME NEW ind, NEW ws \in SUBSET Words, NEW i \in Ids, ScoresIn(ind, ws)[i] > 0
    PROVE  \E w \in ws : i \in ind[w]
<1>1. {w \in ws : i \in ind[w]} # {}
  BY ScoreTypes, FS_EmptySet
<1> QED BY <1>1

-----------------------------------------------------------------------------
(***************************************************************************)
(* What a step of the system changes under a query.                        *)
(***************************************************************************)

\* The index's own invariants, from IndexSyncProofs.
BaseInv == TypeOK /\ BootInv /\ NoDropInv /\ GrowthInv

LEMMA BaseInit == Init => BaseInv
<1>1. Init => GrowthInv
  BY DEF Init, GrowthInv, EmptyIndex, SnapshotInHand, Topics
<1> QED BY <1>1, TypeInit, BootInit, NoDropInit DEF BaseInv

LEMMA BaseStep == BaseInv /\ [QueryNext]_allVars => BaseInv'
<1>1. [QueryNext]_allVars => [Next]_vars
  BY DEF QueryNext, QueryStep, SystemStep, allVars
<1> QED BY <1>1, TypeStep, BootStep, NoDropStep, GrowthStep DEF BaseInv

\* What the query looks its keywords up in, now.
Now == Source(kind)

LEMMA NowType == TypeOK => Now \in Index
BY IndexTypes DEF Now, Source, TypeOK

LEMMA WriterEffects ==
    ASSUME TypeOK, Next
    PROVE  \/ UNCHANGED comics
           \/ \E i \in Ids, row \in Row : StoreComic(i, row)
           \/ dropped' /\ comics' = EmptyTable
<1>1. CASE WriterStep
  BY <1>1 DEF WriterStep, WriterWorks, WriterLoses, OpenSession, CloseSession, DropTable,
              AnnounceDrop, DropSilently, LoseEvents, Truncates
<1>2. CASE ~WriterStep
  BY <1>2 DEF Next, Deliver, Boot, BootRead, BootSwap, BootSubscribe, Subscribe,
              UpdatedHandler, DropHandler, HandlerStep, Receive, Drain, Drained,
              HandlerRead, HandlerSwap, HandlerReset, Restart, writerVars
<1> QED BY <1>1, <1>2

\* Only a truncation removes a row.
LEMMA RowsStay ==
    ASSUME TypeOK, Next, ~Truncates, NEW i \in Ids, comics[i] # NoRow
    PROVE  comics'[i] # NoRow
<1>1. comics # EmptyTable
  BY DEF EmptyTable
<1>2. ASSUME NEW j \in Ids, NEW row \in Row, StoreComic(j, row)
      PROVE  comics'[i] # NoRow
  BY <1>2 DEF StoreComic, InsertRow, TypeOK, WriterTypeOK, Table, Row, NoRow
<1> QED BY <1>1, <1>2, WriterEffects DEF Truncates

LEMMA NoTruncation ==
    ASSUME TypeOK, Next, ~dropped'
    PROVE  ~Truncates
<1>1. ASSUME NEW j \in Ids, NEW row \in Row, StoreComic(j, row), Truncates
      PROVE  FALSE
  <2>1. comics'[j] # NoRow
    BY <1>1 DEF StoreComic, InsertRow, TypeOK, WriterTypeOK, Table, Row, NoRow
  <2> QED BY <1>1, <2>1 DEF Truncates, EmptyTable
<1> QED BY <1>1, WriterEffects DEF Truncates

LEMMA DropStays ==
    ASSUME BaseInv, [QueryNext]_allVars, ~dropped'
    PROVE  ~dropped
<1>1. QueryNext => Next \/ UNCHANGED vars
  BY DEF QueryNext, QueryStep, SystemStep
<1> QED BY <1>1, DroppedStays DEF BaseInv, allVars

\* Until a drop or a restart, a later look-up finds what an earlier one found.
LEMMA NowGrows ==
    ASSUME BaseInv, Next, ~dropped', restarts' = restarts, UNCHANGED kind,
           NEW w \in Words
    PROVE  Now[w] \subseteq Now'[w]
<1>1. IndexOf(comics)[w] \subseteq IndexOf(comics')[w]
  BY WriterEffects, StoringMakesNoGhosts DEF BaseInv
<1>2. index[w] \subseteq index'[w]
  BY GrowthStep DEF BaseInv
<1>3. Now' = IF kind = "table" THEN IndexOf(comics') ELSE index'
  BY DEF Now, Source, IndexOf
<1> QED BY <1>1, <1>2, <1>3 DEF Now, Source

\* What a look-up finds without drops is in the table.
LEMMA NowIsStored ==
    ASSUME BaseInv, ~dropped \/ kind = "table",
           NEW w \in Words, NEW i \in Now[w]
    PROVE  i \in Ids /\ comics[i] # NoRow
<1>1. i \in IndexOf(comics)[w]
  BY DEF BaseInv, GrowthInv, Now, Source
<1> QED BY <1>1 DEF IndexOf, NoRow

-----------------------------------------------------------------------------
(***************************************************************************)
(* Types.                                                                  *)
(***************************************************************************)

\* While it looks up, a query has fetched nothing and has nothing to fetch.
QueryTypeInv ==
    /\ QueryTypeOK
    /\ qpc = "lookup" => result = <<>> /\ sorted = <<>>
    /\ qpc = "done" => sorted = <<>>

LEMMA NothingFetched ==
    ASSUME NEW r, NEW s, r = <<>>, s = <<>>
    PROVE  /\ r \in Seq(Ids) /\ s \in Seq(Ids)
           /\ Len(r) = 0 /\ Len(s) = 0
           /\ Len(r) + Len(s) = 0
<1>1. <<>> \in Seq(Ids) /\ Len(<<>>) = 0
  BY EmptySeq
<1>2. Len(r) = 0 /\ Len(s) = 0
  BY <1>1, Zenon
<1> QED BY <1>1, <1>2

LEMMA QueryTypeInit == QueryInit => QueryTypeInv
<1>1. NoScores \in Scores /\ EmptyIndex \in Index
  BY IndexTypes DEF NoScores, Scores
<1>2. SUFFICES ASSUME QueryInit PROVE QueryTypeInv
  OBVIOUS
<1>3. result \in Seq(Ids) /\ sorted \in Seq(Ids) /\ Len(result) + Len(sorted) = 0
  <2>1. result = <<>> /\ sorted = <<>>
    BY <1>2 DEF QueryInit
  <2> QED BY <2>1, NothingFetched
<1>4. Len(result) + Len(sorted) <= limit /\ limit \in 1 .. MaxLimit
  BY <1>2, <1>3, QueryAssumption DEF QueryInit
<1> QED BY <1>1, <1>2, <1>3, <1>4 DEF QueryInit, QueryTypeInv, QueryTypeOK

\* The part of the type invariant that the end of the look-ups establishes.
LEMMA ContinueType ==
    ASSUME NEW ws \in SUBSET Words, NEW s \in Scores, NEW n \in Nat,
           Continue(ws, s, n), result' = <<>>
    PROVE  /\ qpc' \in {"lookup", "fetch"}
           /\ keywords' = ws /\ scores' = s
           /\ sorted' \in Seq(Ids)
           /\ Len(result') + Len(sorted') <= n
           /\ qpc' = "lookup" => sorted' = <<>>
<1>1. CASE ws = {}
  <2>1. sorted' \in Top(s, n)
    BY <1>1 DEF Continue
  <2>2. sorted' \in Seq(Found(s)) /\ Len(sorted') <= n
    BY <2>1, TopIs
  <2>3. sorted' \in Seq(Ids)
    BY <2>2, FoundFinite, SeqMonotonic
  <2>4. Len(sorted') \in Nat /\ Len(result') = 0
    BY <2>3, LenProperties, EmptySeq
  <2> QED BY <1>1, <2>2, <2>3, <2>4 DEF Continue
<1>2. CASE ws # {}
  <2>1. sorted' \in Seq(Ids) /\ Len(result') + Len(sorted') = 0
    BY <1>2, NothingFetched DEF Continue
  <2> QED BY <1>2, <2>1 DEF Continue
<1> QED BY <1>1, <1>2

LEMMA QueryTypeStep ==
    TypeOK /\ QueryTypeInv /\ [QueryNext]_allVars => QueryTypeInv'
<1> SUFFICES ASSUME TypeOK, QueryTypeInv, [QueryNext]_allVars PROVE QueryTypeInv'
  OBVIOUS
<1> USE DEF QueryTypeInv, QueryTypeOK, histories
<1>1. CASE Start
  <2>1. NoScores \in Scores /\ limit' \in Nat /\ phrase' \in SUBSET Words
    BY <1>1, QueryAssumption DEF NoScores, Scores, Start, Phrases
  <2>2. atStart' \in Index
    BY <1>1, IndexTypes DEF Start, Source, TypeOK
  <2>3. Continue(phrase', NoScores, limit') /\ result' = <<>>
    BY <1>1 DEF Start
  <2> QED BY <1>1, <2>1, <2>2, <2>3, ContinueType, EmptySeq DEF Start
<1>2. CASE LookUp
  <2>1. PICK w \in keywords :
            Continue(keywords \ {w}, [i \in Ids |-> IF i \in Source(kind)[w]
                         THEN scores[i] + 1 ELSE scores[i]], limit)
    BY <1>2 DEF LookUp
  <2>2. [i \in Ids |-> IF i \in Source(kind)[w] THEN scores[i] + 1 ELSE scores[i]]
            \in Scores
    BY DEF Scores
  <2>3. result' = <<>> /\ limit \in Nat /\ limit' = limit
        /\ keywords \ {w} \in SUBSET Words
    BY <1>2, QueryAssumption DEF LookUp
  <2> QED BY <1>2, <2>1, <2>2, <2>3, ContinueType, EmptySeq DEF LookUp
<1>3. CASE LookUpFails
  BY <1>3 DEF LookUpFails
<1>4. CASE Fetch \/ FetchFails
  <2>1. /\ Head(sorted) \in Ids /\ Tail(sorted) \in Seq(Ids)
        /\ Len(Tail(sorted)) = Len(sorted) - 1
    BY <1>4, HeadTailProperties DEF Fetch, FetchFails
  <2>2. Append(result, Head(sorted)) \in Seq(Ids)
        /\ Len(Append(result, Head(sorted))) = Len(result) + 1
    BY <2>1, AppendProperties
  <2>3. Len(sorted) \in Nat /\ Len(result) \in Nat /\ limit \in Nat
    BY LenProperties, QueryAssumption
  <2>4. CASE Fetch
    <3>1. Len(result') + Len(sorted') <= limit
      BY <2>1, <2>2, <2>3, <2>4 DEF Fetch
    <3> QED BY <2>1, <2>2, <2>4, <3>1 DEF Fetch
  <2>5. CASE FetchFails
    <3>1. sorted' \in Seq(Ids) /\ Len(sorted') <= Len(sorted) /\ Len(sorted') \in Nat
      BY <2>1, <2>3, <2>5, LenProperties DEF FetchFails
    <3>2. Len(result') + Len(sorted') <= limit
      BY <2>3, <2>5, <3>1 DEF FetchFails
    <3>3. qpc' \in {"fetch", "error"} /\ failed' \in BOOLEAN
      BY <2>5 DEF FetchFails
    <3> QED BY <2>5, <3>1, <3>2, <3>3 DEF FetchFails
  <2> QED BY <1>4, <2>4, <2>5
<1>5. CASE Answer
  BY <1>5 DEF Answer
<1>6. CASE SystemStep
  <2>1. CASE NoQuery
    <3>1. /\ result' \in Seq(Ids) /\ sorted' \in Seq(Ids)
          /\ Len(result') + Len(sorted') = 0
          /\ Len(result') + Len(sorted') <= limit' /\ limit' \in 1 .. MaxLimit
      BY <2>1, NothingFetched, QueryAssumption DEF NoQuery
    <3>2. NoScores \in Scores /\ EmptyIndex \in Index
      BY IndexTypes DEF NoScores, Scores
    <3> QED BY <2>1, <3>1, <3>2 DEF NoQuery
  <2>2. CASE ~NoQuery
    BY <1>6, <2>2 DEF SystemStep, Truncates
  <2> QED BY <2>1, <2>2
<1>7. CASE UNCHANGED queryVars
  BY <1>7 DEF queryVars
<1> QED BY <1>1, <1>2, <1>3, <1>4, <1>5, <1>6, <1>7 DEF QueryNext, QueryStep, allVars

\* Every variable of a query keeps its type, and no answer is longer than the
\* limit asked for.
THEOREM QueryTypeCorrect == QuerySpec => []QueryTypeOK
<1>1. Init /\ QueryInit => TypeOK /\ QueryTypeInv
  BY TypeInit, QueryTypeInit
<1>2. TypeOK /\ QueryTypeInv /\ [QueryNext]_allVars => (TypeOK /\ QueryTypeInv)'
  <2>1. [QueryNext]_allVars => [Next]_vars
    BY DEF QueryNext, QueryStep, SystemStep, allVars
  <2> QED BY <2>1, TypeStep, QueryTypeStep
<1>3. QueryTypeInv => QueryTypeOK
  BY DEF QueryTypeInv
<1> QED BY <1>1, <1>2, <1>3, PTL DEF QuerySpec

-----------------------------------------------------------------------------
(***************************************************************************)
(* Without drops: the scores.                                              *)
(***************************************************************************)

LookedUp == phrase \ keywords

BetweenInv ==
    ~dropped /\ qpc \in {"lookup", "fetch", "done"} =>
        /\ qpc # "lookup" => keywords = {}
        /\ \A w \in Words : atStart[w] \subseteq Now[w]
        /\ \A i \in Ids :
               /\ ScoresIn(atStart, LookedUp)[i] <= scores[i]
               /\ scores[i] <= ScoresIn(Now, LookedUp)[i]

LEMMA BetweenSuffices == BetweenInv /\ QueryTypeOK => ScoresBetween
<1> SUFFICES ASSUME BetweenInv, QueryTypeOK, ~dropped, qpc \in {"fetch", "done"}
             PROVE  \A i \in Ids : /\ ScoresIn(atStart, phrase)[i] <= scores[i]
                                   /\ scores[i] <= ScoresIn(Source(kind), phrase)[i]
  BY DEF ScoresBetween
<1>1. LookedUp = phrase
  BY DEF BetweenInv, LookedUp
<1> QED BY <1>1 DEF BetweenInv, Now

\* Where the look-ups go on, the query either has more keywords or goes on to fetch.
LEMMA BetweenStart ==
    ASSUME Start, UNCHANGED vars
    PROVE  BetweenInv'
<1>1. /\ keywords' = phrase' /\ scores' = NoScores
      /\ qpc' # "lookup" => keywords' = {}
      /\ atStart' = Source(kind')
  BY DEF Start, Continue
<1>2. LookedUp' = {}
  BY <1>1 DEF LookedUp
<1>3. Now' = atStart'
  BY <1>1 DEF Now, Source, IndexOf, vars, writerVars
<1>4. \A i \in Ids : /\ ScoresIn(atStart', LookedUp')[i] <= scores'[i]
                     /\ scores'[i] <= ScoresIn(Now', LookedUp')[i]
  BY <1>1, <1>2, ScoreOfNothing DEF NoScores
<1> QED BY <1>1, <1>3, <1>4 DEF BetweenInv

LEMMA BetweenLookUp ==
    ASSUME TypeOK, QueryTypeOK, BetweenInv, ~dropped, LookUp, UNCHANGED vars
    PROVE  BetweenInv'
<1>1. PICK w \in keywords :
          Continue(keywords \ {w}, [i \in Ids |-> IF i \in Source(kind)[w]
                       THEN scores[i] + 1 ELSE scores[i]], limit)
  BY DEF LookUp
<1>2. /\ keywords' = keywords \ {w}
      /\ scores' = [i \in Ids |-> IF i \in Now[w] THEN scores[i] + 1 ELSE scores[i]]
      /\ qpc' # "lookup" => keywords' = {}
      /\ UNCHANGED <<kind, phrase, atStart>>
  BY <1>1 DEF Continue, LookUp, Now, histories
<1>3. /\ LookedUp' = LookedUp \cup {w}
      /\ LookedUp \in SUBSET Words /\ w \in Words \ LookedUp
  BY <1>2 DEF LookedUp, QueryTypeOK
<1>4. Now' = Now
  BY <1>2 DEF Now, Source, IndexOf, vars, writerVars
<1>5. /\ \A x \in Words : atStart[x] \subseteq Now[x]
      /\ \A i \in Ids : /\ ScoresIn(atStart, LookedUp)[i] <= scores[i]
                         /\ scores[i] <= ScoresIn(Now, LookedUp)[i]
  BY DEF BetweenInv, LookUp
<1>6. ASSUME NEW i \in Ids
      PROVE  /\ ScoresIn(atStart, LookedUp \cup {w})[i] <= scores'[i]
             /\ scores'[i] <= ScoresIn(Now, LookedUp \cup {w})[i]
  <2>1. /\ ScoresIn(atStart, LookedUp \cup {w})[i] =
              IF i \in atStart[w] THEN ScoresIn(atStart, LookedUp)[i] + 1
                                  ELSE ScoresIn(atStart, LookedUp)[i]
        /\ ScoresIn(Now, LookedUp \cup {w})[i] =
              IF i \in Now[w] THEN ScoresIn(Now, LookedUp)[i] + 1
                              ELSE ScoresIn(Now, LookedUp)[i]
    BY <1>3, ScoreAdds
  <2>2. /\ ScoresIn(atStart, LookedUp)[i] \in Nat
        /\ ScoresIn(Now, LookedUp)[i] \in Nat
        /\ scores[i] \in Nat
    BY <1>3, ScoreTypes DEF QueryTypeOK, Scores
  <2>3. i \in atStart[w] => i \in Now[w]
    BY <1>3, <1>5
  <2>4. scores'[i] = IF i \in Now[w] THEN scores[i] + 1 ELSE scores[i]
    BY <1>2
  <2> QED BY <1>5, <2>1, <2>2, <2>3, <2>4
<1>7. Now' = Now /\ atStart' = atStart /\ LookedUp' = LookedUp \cup {w}
  BY <1>2, <1>3, <1>4
<1> QED BY <1>2, <1>5, <1>6, <1>7 DEF BetweenInv

LEMMA BetweenStep ==
    BaseInv /\ QueryTypeInv /\ BetweenInv /\ [QueryNext]_allVars => BetweenInv'
<1> SUFFICES ASSUME BaseInv, QueryTypeInv, BetweenInv, [QueryNext]_allVars, ~dropped',
                    qpc' \in {"lookup", "fetch", "done"}
             PROVE  BetweenInv'
  BY DEF BetweenInv
<1>0. ~dropped
  BY DropStays
<1>1. CASE QueryStep /\ Start
  BY <1>1, BetweenStart DEF QueryStep
<1>2. CASE QueryStep /\ LookUp
  BY <1>0, <1>2, BetweenLookUp DEF QueryStep, BaseInv, QueryTypeInv
<1>3. CASE (QueryStep /\ (LookUpFails \/ Fetch \/ FetchFails \/ Answer))
           \/ UNCHANGED allVars
  <2>1. UNCHANGED <<kind, phrase, keywords, scores, atStart, comics, index>>
    BY <1>3 DEF QueryStep, LookUpFails, Fetch, FetchFails, Answer, histories, vars,
                writerVars, allVars, queryVars
  <2>2. /\ qpc \in {"lookup", "fetch", "done"}
        /\ qpc' # "lookup" => qpc # "lookup"
    BY <1>3 DEF LookUpFails, Fetch, FetchFails, Answer, allVars, queryVars
  <2>3. Now' = Now /\ LookedUp' = LookedUp
    BY <2>1 DEF Now, Source, IndexOf, LookedUp
  <2> QED BY <1>0, <2>1, <2>2, <2>3 DEF BetweenInv
<1>4. CASE SystemStep
  <2>1. /\ Running /\ restarts' = restarts /\ Next
        /\ UNCHANGED <<qpc, kind, phrase, keywords, scores, atStart>>
    BY <1>4 DEF SystemStep, NoQuery
  <2>2. \A w \in Words : Now[w] \subseteq Now'[w]
    BY <2>1, NowGrows
  <2>3. LookedUp' = LookedUp /\ LookedUp \in SUBSET Words
    BY <2>1 DEF LookedUp, QueryTypeInv, QueryTypeOK
  <2>4. ASSUME NEW i \in Ids PROVE scores[i] <= ScoresIn(Now', LookedUp)[i]
    <3>1. ScoresIn(Now, LookedUp)[i] <= ScoresIn(Now', LookedUp)[i]
      BY <2>2, <2>3, ScoreMonotone
    <3>2. /\ ScoresIn(Now, LookedUp)[i] \in Nat
          /\ ScoresIn(Now', LookedUp)[i] \in Nat
          /\ scores[i] \in Nat
      BY <2>3, ScoreTypes DEF QueryTypeInv, QueryTypeOK, Scores
    <3>3. scores[i] <= ScoresIn(Now, LookedUp)[i]
      BY <1>0, <2>1 DEF BetweenInv, Running
    <3> QED BY <3>1, <3>2, <3>3
  <2> QED BY <1>0, <2>1, <2>2, <2>3, <2>4 DEF BetweenInv, Running
<1> QED BY <1>1, <1>2, <1>3, <1>4 DEF QueryNext, QueryStep, allVars

LEMMA BetweenInit == QueryInit => BetweenInv
BY DEF QueryInit, BetweenInv

\* As long as nobody drops the table, the scores a query ranks its comics by are
\* bounded by what its keywords matched when it started and match now, although
\* each keyword was looked up in another state of the index or of the table.
THEOREM ScoresStayBetween == QuerySpec => []ScoresBetween
<1>1. Init /\ QueryInit => BaseInv /\ QueryTypeInv /\ BetweenInv
  BY BaseInit, QueryTypeInit, BetweenInit
<1>2. BaseInv /\ QueryTypeInv /\ BetweenInv /\ [QueryNext]_allVars
        => (BaseInv /\ QueryTypeInv /\ BetweenInv)'
  BY BaseStep, QueryTypeStep, BetweenStep DEF BaseInv
<1>3. QueryTypeInv /\ BetweenInv => ScoresBetween
  BY BetweenSuffices DEF QueryTypeInv
<1> QED BY <1>1, <1>2, <1>3, PTL DEF QuerySpec

-----------------------------------------------------------------------------
(***************************************************************************)
(* The comics a query fetches are in the table, unless it was truncated.   *)
(***************************************************************************)

Stored(i) == comics[i] # NoRow

\* Search, while the table is not truncated under it.  A comic that scores is
\* stored, and so is every comic still to fetch.
FailsInv ==
    /\ qpc = "error" => truncated \/ failed
    /\ kind = "table" /\ qpc \in {"lookup", "fetch"} /\ ~truncated =>
        /\ \A i \in Ids : scores[i] > 0 => Stored(i)
        /\ \A n \in DOMAIN sorted : Stored(sorted[n])

LEMMA StoredFound ==
    ASSUME NEW s, NEW n \in Nat, NEW q \in Top(s, n),
           \A i \in Ids : s[i] > 0 => Stored(i)
    PROVE  \A k \in DOMAIN q : Stored(q[k])
<1>1. q \in Seq(Found(s))
  BY TopIs
<1>2. \A k \in DOMAIN q : q[k] \in Found(s)
  BY <1>1, LenProperties, ElementOfSeq
<1> QED BY <1>2 DEF Found

LEMMA TailStored ==
    ASSUME NEW q \in Seq(Ids), q # <<>>, \A k \in DOMAIN q : Stored(q[k])
    PROVE  Stored(Head(q)) /\ \A k \in DOMAIN Tail(q) : Stored(Tail(q)[k])
<1>1. /\ Tail(q) \in Seq(Ids) /\ Len(Tail(q)) = Len(q) - 1
      /\ \A k \in 1 .. Len(Tail(q)) : Tail(q)[k] = q[k + 1]
  BY HeadTailProperties
<1>2. DOMAIN q = 1 .. Len(q) /\ DOMAIN Tail(q) = 1 .. Len(Tail(q))
  BY <1>1, LenProperties
<1>3. Len(q) \in Nat \ {0} /\ Head(q) = q[1]
  BY EmptySeq
<1> QED BY <1>1, <1>2, <1>3

\* The last look-up leaves stored comics to fetch, the others none.
LEMMA ContinueStored ==
    ASSUME NEW ws, NEW s, NEW n \in Nat, Continue(ws, s, n),
           \A i \in Ids : s[i] > 0 => Stored(i)
    PROVE  \A k \in DOMAIN sorted' : Stored(sorted'[k])
<1>1. CASE ws = {}
  BY <1>1, StoredFound DEF Continue
<1>2. CASE ws # {}
  <2>1. sorted' = <<>>
    BY <1>2 DEF Continue
  <2>2. DOMAIN <<>> = {}
    OBVIOUS
  <2> QED BY <2>1, <2>2
<1> QED BY <1>1, <1>2

LEMMA FailsStep ==
    BaseInv /\ QueryTypeInv /\ FailsInv /\ [QueryNext]_allVars => FailsInv'
<1> SUFFICES ASSUME BaseInv, QueryTypeInv, FailsInv, [QueryNext]_allVars PROVE FailsInv'
  OBVIOUS
<1> USE DEF histories
<1>0. /\ TypeOK /\ QueryTypeOK
      /\ comics' = comics => \A i \in Ids : Stored(i)' <=> Stored(i)
  BY DEF BaseInv, QueryTypeInv, Stored
<1>1. CASE QueryStep /\ Start
  <2>1. Continue(phrase', NoScores, limit') /\ limit' \in Nat
    BY <1>1, QueryAssumption DEF Start
  <2>2. scores' = NoScores /\ comics' = comics /\ qpc' # "error"
    BY <1>1, <2>1 DEF Continue, QueryStep, vars, writerVars
  <2>3. \A i \in Ids : NoScores[i] = 0
    BY DEF NoScores
  <2>4. \A k \in DOMAIN sorted' : Stored(sorted'[k])
    BY <2>1, <2>3, ContinueStored
  <2> QED BY <2>2, <2>3, <2>4 DEF FailsInv, Stored
<1>2. CASE QueryStep /\ LookUp
  <2>1. PICK w \in keywords :
            Continue(keywords \ {w}, [i \in Ids |-> IF i \in Source(kind)[w]
                         THEN scores[i] + 1 ELSE scores[i]], limit)
    BY <1>2 DEF LookUp
  <2>2. /\ scores' = [i \in Ids |-> IF i \in Now[w] THEN scores[i] + 1 ELSE scores[i]]
        /\ Continue(keywords \ {w}, scores', limit)
        /\ comics' = comics /\ qpc' # "error" /\ limit \in Nat
        /\ UNCHANGED <<kind, truncated>>
        /\ qpc = "lookup" /\ w \in Words
    BY <1>0, <1>2, <2>1, QueryAssumption
       DEF Continue, LookUp, Now, QueryStep, vars, writerVars, QueryTypeOK
  <2>3. SUFFICES ASSUME kind = "table", ~truncated
                 PROVE  /\ \A i \in Ids : scores'[i] > 0 => Stored(i)
                        /\ \A k \in DOMAIN sorted' : Stored(sorted'[k])
    BY <2>2 DEF FailsInv, Stored
  <2>4. \A i \in Ids : i \in Now[w] => Stored(i)
    BY <2>2, <2>3, NowIsStored DEF Stored
  <2>5. \A i \in Ids : scores'[i] > 0 => Stored(i)
    BY <2>2, <2>3, <2>4 DEF FailsInv
  <2> QED BY <2>2, <2>5, ContinueStored
<1>3. CASE QueryStep /\ LookUpFails
  BY <1>3 DEF LookUpFails, FailsInv
<1>4. CASE QueryStep /\ (Fetch \/ FetchFails)
  <2>1. /\ comics' = comics /\ UNCHANGED <<kind, scores, truncated>>
        /\ qpc = "fetch" /\ sorted # <<>> /\ sorted \in Seq(Ids)
    BY <1>0, <1>4 DEF Fetch, FetchFails, QueryStep, vars, writerVars, QueryTypeOK
  <2>2. CASE kind = "table" /\ ~truncated
    <3>1. Stored(Head(sorted)) /\ \A k \in DOMAIN Tail(sorted) : Stored(Tail(sorted)[k])
      BY <2>1, <2>2, TailStored DEF FailsInv
    <3>2. CASE Fetch
      <4>1. qpc' = "fetch" /\ sorted' = Tail(sorted)
        BY <2>1, <3>2 DEF Fetch
      <4> QED BY <2>1, <2>2, <3>1, <4>1 DEF FailsInv, Stored
    <3>3. CASE FetchFails
      <4>1. qpc' = "error" /\ failed'
        BY <2>2, <3>1, <3>3 DEF FetchFails, Stored
      <4> QED BY <4>1 DEF FailsInv
    <3> QED BY <1>4, <3>2, <3>3
  <2>3. CASE ~(kind = "table" /\ ~truncated)
    <3>1. qpc' = "error" => truncated
      BY <1>4, <2>1, <2>3 DEF Fetch, FetchFails
    <3> QED BY <2>1, <2>3, <3>1 DEF FailsInv
  <2> QED BY <2>2, <2>3
<1>5. CASE (QueryStep /\ Answer) \/ UNCHANGED allVars
  BY <1>5 DEF Answer, FailsInv, QueryStep, allVars, queryVars, vars, writerVars, Stored
<1>6. CASE SystemStep
  <2>1. CASE NoQuery
    BY <2>1 DEF NoQuery, FailsInv
  <2>2. CASE ~NoQuery
    <3>1. /\ Next /\ Running /\ truncated' = (truncated \/ Truncates)
          /\ UNCHANGED <<qpc, kind, scores, sorted, failed>>
      BY <1>6, <2>2 DEF SystemStep
    <3>2. ASSUME ~truncated', NEW i \in Ids, Stored(i) PROVE Stored(i)'
      <4>1. ~Truncates
        BY <3>1, <3>2
      <4> QED BY <1>0, <3>1, <3>2, <4>1, RowsStay DEF Stored
    <3>3. \A n \in DOMAIN sorted : sorted[n] \in Ids
      BY <1>0, LenProperties, ElementOfSeq DEF QueryTypeOK
    <3> QED BY <3>1, <3>2, <3>3 DEF FailsInv, Running, Stored
  <2> QED BY <2>1, <2>2
<1> QED BY <1>1, <1>2, <1>3, <1>4, <1>5, <1>6 DEF QueryNext, QueryStep, allVars

\* A query fails only if the database failed one of its calls, or if the table was
\* truncated between its start and its last fetch.
THEOREM FailsOnlyForCause == QuerySpec => []FailsOnlyIfTruncated
<1>1. Init /\ QueryInit => BaseInv /\ QueryTypeInv /\ FailsInv
  <2>1. QueryInit => FailsInv
    BY DEF QueryInit, FailsInv
  <2> QED BY <2>1, BaseInit, QueryTypeInit
<1>2. BaseInv /\ QueryTypeInv /\ FailsInv /\ [QueryNext]_allVars
        => (BaseInv /\ QueryTypeInv /\ FailsInv)'
  BY BaseStep, QueryTypeStep, FailsStep DEF BaseInv
<1>3. FailsInv => FailsOnlyIfTruncated
  BY DEF FailsInv, FailsOnlyIfTruncated
<1> QED BY <1>1, <1>2, <1>3, PTL DEF QuerySpec

-----------------------------------------------------------------------------
(***************************************************************************)
(* The length of an answer, without drops.                                 *)
(***************************************************************************)

\* Every comic found is in the table, so each one that made the cut is fetched or
\* still to fetch.
AnswerInv ==
    ~dropped /\ ~failed /\ qpc \in {"fetch", "done"} =>
        /\ Len(result) + Len(sorted) = Capped(Cardinality(Found(scores)), limit)
        /\ \A n \in DOMAIN sorted : Stored(sorted[n])

LEMMA AnswerSuffices == QueryTypeInv /\ BetweenInv /\ AnswerInv => NoFewer
<1> SUFFICES ASSUME QueryTypeInv, BetweenInv, AnswerInv, ~dropped, qpc = "done",
                    ~failed
             PROVE  Len(result) >=
                        Capped(Cardinality({i \in Ids : ScoresIn(atStart, phrase)[i] > 0}),
                               limit)
  BY DEF NoFewer
<1> DEFINE Findable == {i \in Ids : ScoresIn(atStart, phrase)[i] > 0}
<1>1. Len(result) = Capped(Cardinality(Found(scores)), limit)
  <2>1. sorted = <<>>
    BY DEF QueryTypeInv
  <2>2. Len(sorted) = 0 /\ Len(result) \in Nat
    BY <2>1, NothingFetched, LenProperties DEF QueryTypeInv, QueryTypeOK
  <2> QED BY <2>2 DEF AnswerInv
<1>2. Findable \in SUBSET Found(scores)
  <2>1. LookedUp = phrase /\ phrase \in SUBSET Words
    BY DEF BetweenInv, LookedUp, QueryTypeInv, QueryTypeOK
  <2>2. \A i \in Ids : ScoresIn(atStart, phrase)[i] \in Nat /\ scores[i] \in Nat
    BY <2>1, ScoreTypes DEF QueryTypeInv, QueryTypeOK, Scores
  <2>3. \A i \in Ids : ScoresIn(atStart, phrase)[i] <= scores[i]
    BY <2>1 DEF BetweenInv
  <2> QED BY <2>2, <2>3 DEF Found
<1>3. /\ Cardinality(Findable) \in Nat /\ Cardinality(Found(scores)) \in Nat
      /\ Cardinality(Findable) <= Cardinality(Found(scores))
  <2> HIDE DEF Findable
  <2> QED BY <1>2, FoundFinite, FS_Subset, FS_CardinalityType
<1>4. Capped(Cardinality(Findable), limit) <= Capped(Cardinality(Found(scores)), limit)
  <2>1. limit \in Nat
    BY QueryAssumption DEF QueryTypeInv, QueryTypeOK
  <2> HIDE DEF Findable
  <2> QED BY <1>3, <2>1, CappedMonotone
<1>5. /\ Capped(Cardinality(Findable), limit) \in Nat
      /\ Capped(Cardinality(Found(scores)), limit) \in Nat
  BY <1>3, QueryAssumption DEF Capped, QueryTypeInv, QueryTypeOK
<1> QED BY <1>1, <1>4, <1>5

\* What the look-ups found without drops is in the table.
LEMMA ScoredIsStored ==
    ASSUME BaseInv, QueryTypeInv, BetweenInv, ~dropped,
           qpc \in {"lookup", "fetch", "done"}, NEW i \in Ids, scores[i] > 0
    PROVE  Stored(i)
<1>1. LookedUp \in SUBSET Words
  BY DEF LookedUp, QueryTypeInv, QueryTypeOK
<1>2. scores[i] \in Nat /\ ScoresIn(Now, LookedUp)[i] \in Nat
  BY <1>1, ScoreTypes DEF QueryTypeInv, QueryTypeOK, Scores
<1>3. ScoresIn(Now, LookedUp)[i] > 0
  BY <1>2 DEF BetweenInv
<1>4. \E w \in LookedUp : i \in Now[w]
  BY <1>1, <1>3, ScoredIsListed
<1> QED BY <1>1, <1>4, NowIsStored DEF Stored

LEMMA ContinueLength ==
    ASSUME NEW ws, NEW s, NEW n \in Nat, Continue(ws, s, n), result' = <<>>,
           qpc' # "lookup"
    PROVE  Len(result') + Len(sorted') = Capped(Cardinality(Found(s)), n)
<1>1. sorted' \in Top(s, n)
  BY DEF Continue
<1>2. Len(sorted') = Capped(Cardinality(Found(s)), n)
  BY <1>1, TopIs
<1>3. Capped(Cardinality(Found(s)), n) \in Nat
  BY FoundFinite DEF Capped
<1>4. Len(result') = 0
  BY NothingFetched
<1> QED BY <1>2, <1>3, <1>4

LEMMA AnswerStep ==
    BaseInv /\ QueryTypeInv /\ BetweenInv /\ AnswerInv /\ [QueryNext]_allVars => AnswerInv'
<1> SUFFICES ASSUME BaseInv, QueryTypeInv, BetweenInv, AnswerInv, [QueryNext]_allVars,
                    ~dropped', ~failed', qpc' \in {"fetch", "done"}
             PROVE  /\ Len(result') + Len(sorted')
                          = Capped(Cardinality(Found(scores')), limit')
                    /\ \A n \in DOMAIN sorted' : comics'[sorted'[n]] # NoRow
  BY DEF AnswerInv, Found, Stored
<1> USE DEF histories
<1>0. /\ TypeOK /\ QueryTypeOK /\ ~dropped
      /\ comics' = comics => \A i : comics'[i] # NoRow <=> Stored(i)
  BY DropStays DEF BaseInv, QueryTypeInv, Stored
<1>1. CASE QueryStep /\ Start
  <2>1. Continue(phrase', NoScores, limit') /\ limit' \in Nat /\ result' = <<>>
    BY <1>1, QueryAssumption DEF Start
  <2>2. scores' = NoScores /\ comics' = comics
    BY <1>1, <2>1 DEF Continue, QueryStep, vars, writerVars
  <2>3. \A i \in Ids : NoScores[i] = 0
    BY DEF NoScores
  <2>4. \A k \in DOMAIN sorted' : Stored(sorted'[k])
    BY <2>1, <2>3, ContinueStored
  <2>5. Len(result') + Len(sorted') = Capped(Cardinality(Found(NoScores)), limit')
    BY <2>1, ContinueLength
  <2> QED BY <2>2, <2>4, <2>5, <1>0
<1>2. CASE QueryStep /\ LookUp
  <2>1. PICK w \in keywords :
            Continue(keywords \ {w}, [i \in Ids |-> IF i \in Source(kind)[w]
                         THEN scores[i] + 1 ELSE scores[i]], limit)
    BY <1>2 DEF LookUp
  <2>2. /\ scores' = [i \in Ids |-> IF i \in Now[w] THEN scores[i] + 1 ELSE scores[i]]
        /\ Continue(keywords \ {w}, scores', limit)
        /\ comics' = comics /\ limit \in Nat /\ limit' = limit
        /\ result' = <<>> /\ qpc = "lookup" /\ w \in Words
    BY <1>0, <1>2, <2>1, QueryAssumption
       DEF Continue, LookUp, Now, QueryStep, vars, writerVars, QueryTypeOK, QueryTypeInv
  <2>3. \A i \in Ids : i \in Now[w] => Stored(i)
    BY <1>0, <2>2, NowIsStored DEF Stored
  <2>4. \A i \in Ids : scores[i] > 0 => Stored(i)
    BY <1>0, <2>2, ScoredIsStored
  <2>5. \A i \in Ids : scores'[i] > 0 => Stored(i)
    BY <2>2, <2>3, <2>4
  <2>6. \A k \in DOMAIN sorted' : Stored(sorted'[k])
    BY <2>2, <2>5, ContinueStored
  <2>7. Len(result') + Len(sorted') = Capped(Cardinality(Found(scores')), limit)
    BY <2>2, ContinueLength
  <2> QED BY <2>2, <2>6, <2>7, <1>0
<1>3. ~LookUpFails
  BY DEF LookUpFails
<1>4. CASE QueryStep /\ (Fetch \/ FetchFails)
  <2>1. /\ comics' = comics /\ UNCHANGED <<scores, limit>>
        /\ qpc = "fetch" /\ sorted # <<>> /\ sorted \in Seq(Ids) /\ result \in Seq(Ids)
        /\ ~failed
    BY <1>0, <1>4 DEF Fetch, FetchFails, QueryStep, vars, writerVars, QueryTypeOK
  <2>2. Stored(Head(sorted)) /\ \A k \in DOMAIN Tail(sorted) : Stored(Tail(sorted)[k])
    BY <1>0, <2>1, TailStored DEF AnswerInv
  <2>3. ~FetchFails
    BY <2>2 DEF FetchFails, Stored
  <2>4. result' = Append(result, Head(sorted)) /\ sorted' = Tail(sorted)
    BY <1>4, <2>3 DEF Fetch
  <2>5. /\ Len(result') = Len(result) + 1 /\ Len(sorted') = Len(sorted) - 1
        /\ Len(result) \in Nat /\ Len(sorted) \in Nat
    BY <2>1, <2>4, HeadTailProperties, AppendProperties, LenProperties
  <2>6. Len(result') + Len(sorted') = Len(result) + Len(sorted)
    BY <2>5
  <2> QED BY <1>0, <2>1, <2>2, <2>4, <2>6 DEF AnswerInv
<1>5. CASE (QueryStep /\ Answer) \/ UNCHANGED allVars
  <2>1. /\ UNCHANGED <<comics, result, sorted, scores, limit, failed>>
        /\ qpc \in {"fetch", "done"}
    BY <1>5 DEF Answer, QueryStep, allVars, queryVars, vars, writerVars
  <2> QED BY <1>0, <2>1 DEF AnswerInv
<1>6. CASE SystemStep
  <2>1. /\ Next
        /\ UNCHANGED <<qpc, result, sorted, scores, limit, failed>>
    BY <1>6 DEF SystemStep, NoQuery
  <2>2. ASSUME NEW i \in Ids, Stored(i) PROVE comics'[i] # NoRow
    <3>1. ~Truncates
      BY <1>0, <2>1, NoTruncation
    <3> QED BY <1>0, <2>1, <2>2, <3>1, RowsStay DEF Stored
  <2>3. \A n \in DOMAIN sorted : sorted[n] \in Ids
    BY <1>0, LenProperties, ElementOfSeq DEF QueryTypeOK
  <2> QED BY <1>0, <2>1, <2>2, <2>3 DEF AnswerInv
<1> QED BY <1>1, <1>2, <1>3, <1>4, <1>5, <1>6 DEF QueryNext, QueryStep, allVars

\* As long as nobody drops the table, a query answers with as many comics as it
\* could have found at its start, up to its limit, or more: neither a rebuild that
\* swaps the index between two look-ups nor a comic the table no longer has makes
\* an answer shorter.
THEOREM AnswersNoFewer == QuerySpec => []NoFewer
<1>1. Init /\ QueryInit => BaseInv /\ QueryTypeInv /\ BetweenInv /\ AnswerInv
  <2>1. QueryInit => AnswerInv
    BY DEF QueryInit, AnswerInv
  <2> QED BY <2>1, BaseInit, QueryTypeInit, BetweenInit
<1>2. BaseInv /\ QueryTypeInv /\ BetweenInv /\ AnswerInv /\ [QueryNext]_allVars
        => (BaseInv /\ QueryTypeInv /\ BetweenInv /\ AnswerInv)'
  BY BaseStep, QueryTypeStep, BetweenStep, AnswerStep DEF BaseInv
<1>3. QueryTypeInv /\ BetweenInv /\ AnswerInv => NoFewer
  BY AnswerSuffices
<1> QED BY <1>1, <1>2, <1>3, PTL DEF QuerySpec

-----------------------------------------------------------------------------
(***************************************************************************)
(* Exactness, while nothing disturbs a query.                              *)
(***************************************************************************)

\* As many comics as score, up to n, best first, none missing that beats one.
Best(r, s, n) ==
    /\ Len(r) = Capped(Cardinality(Found(s)), n)
    /\ \A a \in 1 .. Len(r) : r[a] \in Found(s)
    /\ \A a, b \in 1 .. Len(r) : a < b => r[a] # r[b] /\ s[r[a]] >= s[r[b]]
    /\ \A a \in 1 .. Len(r), i \in Ids :
           s[i] > s[r[a]] => \E b \in 1 .. Len(r) : r[b] = i

\* Cutting a sorted list of everything found leaves the best.  The list holds each
\* comic found, being as long as there are and without a duplicate.
LEMMA TopIsBest ==
    ASSUME NEW s \in Scores, NEW n \in Nat, NEW q \in Top(s, n)
    PROVE  Best(q, s, n)
<1> DEFINE c == Cardinality(Found(s))
           m == Capped(c, n)
<1>1. PICK p \in Sorted(s) : q = SubSeq(p, 1, Capped(Len(p), n))
  BY DEF Top
<1>2. c \in Nat /\ IsFiniteSet(Found(s)) /\ Found(s) \subseteq Ids
  BY FoundFinite
<1>3. /\ p \in [1 .. c -> Found(s)]
      /\ \A a, b \in 1 .. c : a < b => p[a] # p[b] /\ s[p[a]] >= s[p[b]]
  BY DEF Sorted
<1>4. Len(p) = c
  BY <1>2, <1>3
<1>5. m \in 0 .. c
  BY <1>2 DEF Capped
<1>6. /\ Len(q) = m
      /\ \A a \in 1 .. m : q[a] = p[a]
  <2>1. \A a \in 1 .. m : p[a] \in Found(s)
    BY <1>2, <1>3, <1>5
  <2>2. q = SubSeq(p, 1, m)
    BY <1>1, <1>4
  <2> QED BY <1>5, <2>1, <2>2, SubSeqProperties
<1>7. \A i \in Found(s) : \E b \in 1 .. c : p[b] = i
  <2>1. p \in Injection(1 .. c, Found(s))
    <3>1. \A a, b \in 1 .. c : p[a] = p[b] => a = b
      BY <1>2, <1>3
    <3> QED BY <1>3, <3>1 DEF Injection, IsInjective
  <2>2. Cardinality(1 .. c) = c
    BY <1>2, FS_Interval
  <2>3. p \in Surjection(1 .. c, Found(s))
    BY <1>2, <2>1, <2>2, FS_Injection
  <2> QED BY <2>3 DEF Surjection
<1>8. \A i \in Ids : s[i] \in Nat
  BY DEF Scores
<1>9. ASSUME NEW a \in 1 .. m, NEW i \in Ids, s[i] > s[q[a]]
      PROVE  \E b \in 1 .. m : q[b] = i
  <2>1. a \in 1 .. c /\ q[a] = p[a] /\ p[a] \in Found(s)
    <3>1. a \in 1 .. c
      BY <1>2, <1>5
    <3> HIDE DEF c, m
    <3>2. q[a] = p[a]
      BY <1>6
    <3>3. p[a] \in Found(s)
      BY <1>3, <3>1
    <3> QED BY <3>1, <3>2, <3>3
  <2>2. s[p[a]] > 0 /\ p[a] \in Ids
    BY <2>1 DEF Found
  <2>3. i \in Found(s)
    BY <1>8, <1>9, <2>1, <2>2 DEF Found
  <2>4. PICK b \in 1 .. c : p[b] = i
    BY <1>7, <2>3
  <2>5. b <= m
    <3>1. SUFFICES ASSUME b > m PROVE FALSE
      BY <1>2, <1>5
    <3>2. a < b
      BY <1>2, <1>5, <3>1
    <3>3. s[p[a]] >= s[i]
      BY <1>3, <2>1, <2>4, <3>2
    <3> QED BY <1>8, <1>9, <2>1, <2>2, <3>3
  <2> QED BY <1>6, <2>4, <2>5
<1>10. \A a \in 1 .. m : a \in 1 .. c
  BY <1>2, <1>5
<1> HIDE DEF c, m
<1>11. /\ \A a \in 1 .. m : q[a] \in Found(s)
       /\ \A a, b \in 1 .. m : a < b => q[a] # q[b] /\ s[q[a]] >= s[q[b]]
  BY <1>3, <1>6, <1>10
<1> QED BY <1>6, <1>9, <1>11 DEF Best, c, m

\* Fetching moves a comic from what is to fetch to the result.
LEMMA FetchKeepsRanking ==
    ASSUME NEW r \in Seq(Ids), NEW q \in Seq(Ids), q # <<>>
    PROVE  /\ Len(Append(r, Head(q)) \o Tail(q)) = Len(r \o q)
           /\ \A a \in 1 .. Len(r \o q) :
                  (Append(r, Head(q)) \o Tail(q))[a] = (r \o q)[a]
<1> DEFINE x == Append(r, Head(q))
<1>1. /\ Tail(q) \in Seq(Ids) /\ Head(q) \in Ids
      /\ Len(Tail(q)) = Len(q) - 1
      /\ \A i \in 1 .. Len(Tail(q)) : Tail(q)[i] = q[i + 1]
  BY HeadTailProperties
<1>2. /\ x \in Seq(Ids) /\ Len(x) = Len(r) + 1
      /\ \A i \in 1 .. Len(r) : x[i] = r[i]
      /\ x[Len(r) + 1] = Head(q)
  BY <1>1, AppendProperties
<1>3. Len(r) \in Nat /\ Len(q) \in Nat \ {0} /\ Head(q) = q[1]
  BY EmptySeq, LenProperties
<1>4. /\ Len(r \o q) = Len(r) + Len(q)
      /\ \A a \in 1 .. Len(r) + Len(q) :
             (r \o q)[a] = IF a <= Len(r) THEN r[a] ELSE q[a - Len(r)]
  BY ConcatProperties
<1>5. /\ Len(x \o Tail(q)) = Len(x) + Len(Tail(q))
      /\ \A a \in 1 .. Len(x) + Len(Tail(q)) :
             (x \o Tail(q))[a] = IF a <= Len(x) THEN x[a] ELSE Tail(q)[a - Len(x)]
  BY <1>1, <1>2, ConcatProperties
<1> HIDE DEF x
<1>6. ASSUME NEW a \in 1 .. Len(r) + Len(q)
      PROVE  (x \o Tail(q))[a] = (r \o q)[a]
  <2>1. (x \o Tail(q))[a] = IF a <= Len(r) + 1 THEN x[a] ELSE Tail(q)[a - (Len(r) + 1)]
    BY <1>1, <1>2, <1>3, <1>5
  <2>2. CASE a <= Len(r)
    BY <1>2, <1>3, <1>4, <2>1, <2>2
  <2>3. CASE a = Len(r) + 1
    BY <1>2, <1>3, <1>4, <2>1, <2>3
  <2>4. CASE a > Len(r) + 1
    <3> DEFINE k == a - (Len(r) + 1)
    <3>1. k \in 1 .. Len(Tail(q)) /\ k + 1 = a - Len(r)
      BY <1>1, <1>3, <2>4
    <3>2. ~(a <= Len(r) + 1) /\ ~(a <= Len(r))
      BY <1>3, <2>4
    <3>3. (x \o Tail(q))[a] = Tail(q)[k]
      BY <2>1, <3>2
    <3>4. (r \o q)[a] = q[a - Len(r)]
      BY <1>4, <3>2
    <3> HIDE DEF k
    <3>5. Tail(q)[k] = q[k + 1]
      BY <1>1, <3>1
    <3> QED BY <3>1, <3>3, <3>4, <3>5
  <2>5. a <= Len(r) \/ a = Len(r) + 1 \/ a > Len(r) + 1
    BY <1>3
  <2> QED BY <2>2, <2>3, <2>4, <2>5
<1>7. Len(x \o Tail(q)) = Len(r \o q)
  BY <1>1, <1>2, <1>3, <1>4, <1>5
<1> QED BY <1>4, <1>6, <1>7 DEF x

Calm == ~disturbed /\ ~failed /\ (kind = "table" \/ Fresh(index))

Ranking == result \o sorted

ExactInv ==
    Calm /\ qpc \in {"lookup", "fetch", "done"} =>
        /\ \A i \in Ids : scores[i] = ScoresIn(IndexOf(comics), LookedUp)[i]
        /\ qpc # "lookup" => keywords = {} /\ Best(Ranking, scores, limit)

LEMMA ExactSuffices == QueryTypeInv /\ ExactInv => Exact
<1> SUFFICES ASSUME QueryTypeInv, ExactInv, qpc = "done", Calm
             PROVE  LET s == ScoresIn(IndexOf(comics), phrase) IN
                      /\ Len(result) = Capped(Cardinality({i \in Ids : s[i] > 0}), limit)
                      /\ \A a, b \in DOMAIN result :
                            a < b => result[a] # result[b] /\ s[result[a]] >= s[result[b]]
                      /\ \A a \in DOMAIN result, i \in Ids :
                            s[i] > s[result[a]] => \E b \in DOMAIN result : result[b] = i
  BY DEF Exact, Calm
<1> DEFINE s == ScoresIn(IndexOf(comics), phrase)
<1>1. result \in Seq(Ids) /\ sorted = <<>>
  BY DEF QueryTypeInv, QueryTypeOK
<1>2. Ranking = result /\ DOMAIN result = 1 .. Len(result)
  BY <1>1, ConcatEmptySeq, LenProperties DEF Ranking
<1>3. Best(result, scores, limit) /\ LookedUp = phrase
  BY <1>2 DEF ExactInv, LookedUp
<1>4. \A i \in Ids : scores[i] = s[i]
  BY <1>3 DEF ExactInv
<1>5. Found(scores) = {i \in Ids : s[i] > 0}
  BY <1>4 DEF Found
<1>6. \A a \in 1 .. Len(result) : result[a] \in Ids
  BY <1>3 DEF Best, Found
<1> HIDE DEF s
<1>7. /\ Len(result) = Capped(Cardinality({i \in Ids : s[i] > 0}), limit)
      /\ \A a, b \in 1 .. Len(result) :
             a < b => result[a] # result[b] /\ s[result[a]] >= s[result[b]]
      /\ \A a \in 1 .. Len(result), i \in Ids :
             s[i] > s[result[a]] => \E b \in 1 .. Len(result) : result[b] = i
  BY <1>3, <1>4, <1>5, <1>6 DEF Best
<1> QED BY <1>2, <1>7 DEF s

\* Where the look-ups end, the best of what they found is to be fetched.
LEMMA ContinueExact ==
    ASSUME NEW ws, NEW s \in Scores, NEW n \in Nat, Continue(ws, s, n), result' = <<>>,
           qpc' # "lookup"
    PROVE  keywords' = {} /\ Best(Ranking', s, n)
<1>1. ws = {} /\ keywords' = {} /\ sorted' \in Top(s, n)
  BY DEF Continue
<1>2. sorted' \in Seq(Found(s))
  BY <1>1, TopIs
<1>3. Ranking' = sorted'
  BY <1>2, ConcatEmptySeq DEF Ranking
<1> QED BY <1>1, <1>3, TopIsBest

\* What is still to fetch scores, and what scores has a row.
LEMMA HeadIsStored ==
    ASSUME TypeOK, QueryTypeInv, ExactInv, Calm, qpc = "fetch", sorted # <<>>
    PROVE  comics[Head(sorted)] # NoRow
<1> DEFINE h == Len(result) + 1
<1>1. /\ result \in Seq(Ids) /\ sorted \in Seq(Ids)
      /\ Len(result) \in Nat /\ Len(sorted) \in Nat \ {0} /\ Head(sorted) = sorted[1]
  BY EmptySeq, LenProperties DEF QueryTypeInv, QueryTypeOK
<1>2. h \in 1 .. Len(Ranking) /\ Ranking[h] = Head(sorted)
  BY <1>1, ConcatProperties DEF Ranking
<1>3. Head(sorted) \in Ids /\ scores[Head(sorted)] > 0
  BY <1>2 DEF ExactInv, Best, Found
<1>4. LookedUp \in SUBSET Words
  BY DEF LookedUp, QueryTypeInv, QueryTypeOK
<1>5. ScoresIn(IndexOf(comics), LookedUp)[Head(sorted)] > 0
  BY <1>3 DEF ExactInv
<1>6. PICK w \in LookedUp : Head(sorted) \in IndexOf(comics)[w]
  BY <1>3, <1>4, <1>5, ScoredIsListed
<1> QED BY <1>4, <1>6 DEF IndexOf, NoRow

LEMMA ExactStep ==
    BaseInv /\ QueryTypeInv /\ ExactInv /\ [QueryNext]_allVars => ExactInv'
<1> SUFFICES ASSUME BaseInv, QueryTypeInv, ExactInv, [QueryNext]_allVars, Calm',
                    qpc' \in {"lookup", "fetch", "done"}
             PROVE  /\ \A i \in Ids : scores'[i] = ScoresIn(IndexOf(comics'), LookedUp')[i]
                    /\ qpc' # "lookup" => keywords' = {} /\ Best(Ranking', scores', limit')
  BY DEF ExactInv, Best, Found, ScoresIn, IndexOf
<1> USE DEF histories
<1>0. TypeOK /\ QueryTypeOK
  BY DEF BaseInv, QueryTypeInv
<1>1. CASE QueryStep /\ Start
  <2>1. /\ Continue(phrase', NoScores, limit') /\ limit' \in Nat /\ result' = <<>>
        /\ NoScores \in Scores
    BY <1>1, QueryAssumption DEF Start, NoScores, Scores
  <2>2. scores' = NoScores /\ LookedUp' = {}
    BY <2>1 DEF Continue, LookedUp
  <2> QED BY <2>1, <2>2, ScoreOfNothing, ContinueExact DEF NoScores
<1>2. CASE QueryStep /\ LookUp
  <2>1. PICK w \in keywords :
            Continue(keywords \ {w}, [i \in Ids |-> IF i \in Source(kind)[w]
                         THEN scores[i] + 1 ELSE scores[i]], limit)
    BY <1>2 DEF LookUp
  <2>2. /\ UNCHANGED <<kind, phrase, limit, disturbed, failed, comics, index, result>>
        /\ qpc = "lookup"
    BY <1>2 DEF LookUp, QueryStep, vars, writerVars
  <2>3. Calm /\ Source(kind) = IndexOf(comics)
    BY <2>2 DEF Calm, Fresh, Source, IndexOf
  <2>4. /\ keywords' = keywords \ {w}
        /\ scores' = [i \in Ids |-> IF i \in IndexOf(comics)[w]
                                    THEN scores[i] + 1 ELSE scores[i]]
        /\ Continue(keywords \ {w}, scores', limit)
    BY <2>1, <2>3 DEF Continue
  <2>5. /\ LookedUp' = LookedUp \cup {w}
        /\ LookedUp \in SUBSET Words /\ w \in Words \ LookedUp
    BY <1>0, <2>2, <2>4 DEF LookedUp, QueryTypeOK
  <2>6. \A i \in Ids : scores[i] = ScoresIn(IndexOf(comics), LookedUp)[i]
    BY <2>2, <2>3 DEF ExactInv
  <2>7. ASSUME NEW i \in Ids
        PROVE  scores'[i] = ScoresIn(IndexOf(comics), LookedUp \cup {w})[i]
    BY <2>4, <2>5, <2>6, ScoreAdds
  <2>8. scores' \in Scores /\ limit \in Nat /\ result' = <<>>
    BY <1>0, <2>2, <2>4, QueryAssumption DEF Scores, QueryTypeOK, QueryTypeInv
  <2>9. qpc' # "lookup" => keywords' = {} /\ Best(Ranking', scores', limit)
    BY <2>4, <2>8, ContinueExact
  <2>10. IndexOf(comics') = IndexOf(comics)
    BY <2>2
  <2> QED BY <2>2, <2>5, <2>7, <2>9, <2>10
<1>3. ~LookUpFails
  BY DEF LookUpFails, Calm
<1>4. CASE QueryStep /\ (Fetch \/ FetchFails)
  <2>1. /\ UNCHANGED <<kind, phrase, keywords, scores, limit, disturbed, comics, index>>
        /\ qpc = "fetch" /\ sorted # <<>>
    BY <1>4 DEF Fetch, FetchFails, QueryStep, vars, writerVars
  <2>2. Calm
    BY <1>4, <2>1 DEF Fetch, FetchFails, Calm, Fresh, IndexOf
  <2>3. ~FetchFails
    BY <1>0, <2>1, <2>2, HeadIsStored DEF FetchFails, Calm
  <2>4. /\ result' = Append(result, Head(sorted)) /\ sorted' = Tail(sorted)
        /\ result \in Seq(Ids) /\ sorted \in Seq(Ids)
    BY <1>0, <1>4, <2>3 DEF Fetch, QueryTypeOK
  <2>5. /\ Len(Ranking') = Len(Ranking)
        /\ \A a \in 1 .. Len(Ranking) : Ranking'[a] = Ranking[a]
    BY <2>1, <2>4, FetchKeepsRanking DEF Ranking
  <2>6. keywords = {} /\ Best(Ranking, scores, limit)
    BY <2>1, <2>2 DEF ExactInv
  <2>7. Best(Ranking', scores, limit)
    BY <2>5, <2>6 DEF Best
  <2>8. \A i \in Ids : scores[i] = ScoresIn(IndexOf(comics), LookedUp)[i]
    BY <2>1, <2>2 DEF ExactInv
  <2>9. LookedUp' = LookedUp /\ IndexOf(comics') = IndexOf(comics)
    BY <2>1 DEF LookedUp
  <2> QED BY <2>1, <2>6, <2>7, <2>8, <2>9
<1>5. ASSUME UNCHANGED <<kind, phrase, keywords, scores, limit, result, sorted, failed,
                         comics, index>>,
             ~disturbed, qpc \in {"lookup", "fetch", "done"}, qpc' # "lookup" => qpc # "lookup"
      PROVE  /\ \A i \in Ids : scores'[i] = ScoresIn(IndexOf(comics'), LookedUp')[i]
             /\ qpc' # "lookup" => keywords' = {} /\ Best(Ranking', scores', limit')
  <2>1. Calm
    BY <1>5 DEF Calm, Fresh, IndexOf
  <2>2. /\ LookedUp' = LookedUp /\ IndexOf(comics') = IndexOf(comics)
        /\ Ranking' = Ranking
    BY <1>5 DEF LookedUp, Ranking
  <2> QED BY <1>5, <2>1, <2>2 DEF ExactInv
<1>6. CASE (QueryStep /\ Answer) \/ UNCHANGED allVars
  <2>1. /\ UNCHANGED <<kind, phrase, keywords, scores, limit, result, sorted, failed,
                       comics, index, disturbed>>
        /\ qpc \in {"lookup", "fetch", "done"}
        /\ qpc' # "lookup" => qpc # "lookup"
    BY <1>6 DEF Answer, QueryStep, allVars, queryVars, vars, writerVars
  <2>2. ~disturbed
    BY <2>1 DEF Calm
  <2> QED BY <1>5, <2>1, <2>2
<1>7. CASE SystemStep
  <2>1. /\ Running /\ disturbed' = (disturbed \/ <<comics, index>>' # <<comics, index>>)
        /\ UNCHANGED <<qpc, kind, phrase, keywords, scores, limit, result, sorted, failed>>
    BY <1>7 DEF SystemStep, NoQuery
  <2>2. ~disturbed /\ UNCHANGED <<comics, index>>
    BY <2>1 DEF Calm
  <2> QED BY <1>5, <2>1, <2>2 DEF Running
<1> QED BY <1>1, <1>2, <1>3, <1>4, <1>6, <1>7 DEF QueryNext, QueryStep, allVars

\* A query during which neither the table nor the index changes, over the table or
\* over an index that equals it, answers exactly.
THEOREM AnswersExactly == QuerySpec => []Exact
<1>1. Init /\ QueryInit => BaseInv /\ QueryTypeInv /\ ExactInv
  <2>1. QueryInit => ExactInv
    BY DEF QueryInit, ExactInv
  <2> QED BY <2>1, BaseInit, QueryTypeInit
<1>2. BaseInv /\ QueryTypeInv /\ ExactInv /\ [QueryNext]_allVars
        => (BaseInv /\ QueryTypeInv /\ ExactInv)'
  BY BaseStep, QueryTypeStep, ExactStep DEF BaseInv
<1>3. QueryTypeInv /\ ExactInv => Exact
  BY ExactSuffices
<1> QED BY <1>1, <1>2, <1>3, PTL DEF QuerySpec
=============================================================================
