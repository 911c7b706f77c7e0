------------------------------ MODULE SearchQuery ------------------------------
(***************************************************************************)
(* The queries of the search service, Search and SearchIndex of            *)
(* search/core/service.go, while the update service and the subscriber     *)
(* goroutines change the table and the index under them.                   *)
(*                                                                         *)
(* A query looks its keywords up one at a time, ranks what it found and    *)
(* fetches the best comics one at a time.  Each look-up and each fetch is  *)
(* a step; scoring, sorting and limiting touch only the query's locals and *)
(* belong to the last look-up.  Queries write nothing they share, so one   *)
(* query process stands for any number of them.                            *)
(***************************************************************************)
EXTENDS IndexSync, FiniteSets

CONSTANT MaxLimit       \* bound on the limits asked for

ASSUME QueryAssumption == IsFiniteSet(Words) /\ MaxLimit \in Nat \ {0}

VARIABLES
    qpc,
    kind,           \* "table": Search; "index": SearchIndex
    phrase,         \* the query's normalised keywords
    limit,
    keywords,       \* those still to look up
    scores,         \* comics ID -> number of findings
    sorted,         \* comics still to fetch, best first
    result,
    \* history: what the query could find when it started, whether the table was
    \* truncated since, whether the table or the index changed at all, whether the
    \* database failed one of the query's calls
    atStart, truncated, disturbed, failed

queryVars == <<qpc, kind, phrase, limit, keywords, scores, sorted, result,
               atStart, truncated, disturbed, failed>>
histories == <<atStart, truncated, disturbed, failed>>
allVars == <<vars, queryVars>>

Scores == [Ids -> Nat]
NoScores == [i \in Ids |-> 0]

\* The number of words of ws under which an index lists each comic.
ScoresIn(ind, ws) == [i \in Ids |-> Cardinality({w \in ws : i \in ind[w]})]

FoundAll(s) == Ids
\* The comics the scores map has an entry for.
Found(s) == {i \in Ids : s[i] > 0}

Capped(n, cap) == IF n < cap THEN n ELSE cap

\* Sorted by score; comics with equal scores come in the order of a Go map, any.
Sorted(s) ==
    {p \in [1 .. Cardinality(Found(s)) -> Found(s)] :
        \A a, b \in DOMAIN p : a < b => p[a] # p[b] /\ s[p[a]] >= s[p[b]]}

CutThenSort(s, cap) ==
    {p \in [1 .. Capped(Cardinality(Found(s)), cap) -> Found(s)] :
        \A a, b \in DOMAIN p : a < b => p[a] # p[b] /\ s[p[a]] >= s[p[b]]}

Uncut(s, cap) == Sorted(s)

Top(s, cap) == {SubSeq(p, 1, Capped(Len(p), cap)) : p \in Sorted(s)}

QueryTypeOK ==
    /\ qpc \in {"idle", "lookup", "fetch", "done", "error"}
    /\ kind \in {"table", "index"}
    /\ phrase \subseteq Words
    /\ limit \in 1 .. MaxLimit
    /\ keywords \subseteq phrase
    /\ scores \in Scores
    /\ sorted \in Seq(Ids)
    /\ result \in Seq(Ids)
    /\ Len(result) + Len(sorted) <= limit
    /\ atStart \in Index
    /\ truncated \in BOOLEAN
    /\ disturbed \in BOOLEAN
    /\ failed \in BOOLEAN

QueryInit ==
    /\ qpc = "idle"
    /\ kind = "table"
    /\ phrase = {}
    /\ limit = 1
    /\ keywords = {}
    /\ scores = NoScores
    /\ sorted = <<>>
    /\ result = <<>>
    /\ atStart = EmptyIndex
    /\ truncated = FALSE
    /\ disturbed = FALSE
    /\ failed = FALSE

-----------------------------------------------------------------------------
(***************************************************************************)
(* The steps of a query.                                                   *)
(***************************************************************************)

\* Looking up goes on with the keywords ws and the scores s; after the last one
\* the comics found are sorted and cut.
Continue(ws, s, n) ==
    /\ keywords' = ws
    /\ scores' = s
    /\ IF ws = {} THEN qpc' = "fetch" /\ sorted' \in Top(s, n)
                  ELSE qpc' = "lookup" /\ sorted' = <<>>

\* What a query of kind k looks its keywords up in.
Source(k) == IF k = "table" THEN IndexOf(comics) ELSE index

\* Normalize gives each stem once and leaves the stop words out.
Phrases == SUBSET Words

\* The words service answered.  The gateway passes limits from 1 on, and the gRPC
\* server replaces 0 by its default.  Without keywords there is nothing to find.
Start ==
    /\ qpc \in {"idle", "done", "error"}
    /\ pc = "up"
    /\ kind' \in {"table", "index"}
    /\ phrase' \in Phrases
    /\ limit' \in 1 .. MaxLimit
    /\ Continue(phrase', NoScores, limit')
    /\ result' = <<>>
    /\ atStart' = Source(kind')
    /\ truncated' = FALSE
    /\ disturbed' = FALSE
    /\ failed' = FALSE

LookUpOnce ==
    /\ qpc = "lookup"
    /\ \E w \in keywords :
        Continue(keywords \ {w},
                 [i \in Ids |-> IF i \in Source(kind)[w] THEN 1 ELSE scores[i]], limit)
    /\ UNCHANGED <<kind, phrase, limit, result, histories>>

\* One keyword is looked up: in the table by a statement, in the index under the
\* lock, which is released before the next keyword.
LookUp ==
    /\ qpc = "lookup"
    /\ \E w \in keywords :
        Continue(keywords \ {w}, [i \in Ids |-> IF i \in Source(kind)[w]
                                                THEN scores[i] + 1 ELSE scores[i]], limit)
    /\ UNCHANGED <<kind, phrase, limit, result, histories>>

LookUpFails ==
    /\ qpc = "lookup"
    /\ kind = "table" /\ "db" \in SearchFaults
    /\ qpc' = "error"
    /\ failed' = TRUE
    /\ UNCHANGED <<kind, phrase, limit, keywords, scores, sorted, result, atStart,
                   truncated, disturbed>>

Fetch ==
    /\ qpc = "fetch"
    /\ sorted # <<>>
    /\ comics[Head(sorted)] # NoRow
    /\ result' = Append(result, Head(sorted))
    /\ sorted' = Tail(sorted)
    /\ UNCHANGED <<qpc, kind, phrase, limit, keywords, scores, histories>>

\* No row, or any other error: Search fails, SearchIndex leaves the comic out.
FetchFails ==
    /\ qpc = "fetch"
    /\ sorted # <<>>
    /\ \/ comics[Head(sorted)] = NoRow /\ failed' = failed
       \/ "db" \in SearchFaults /\ failed' = TRUE
    /\ IF kind = "table" THEN qpc' = "error" /\ sorted' = sorted
                         ELSE qpc' = qpc /\ sorted' = Tail(sorted)
    /\ UNCHANGED <<kind, phrase, limit, keywords, scores, result, atStart, truncated,
                   disturbed>>

Answer ==
    /\ qpc = "fetch"
    /\ sorted = <<>>
    /\ qpc' = "done"
    /\ UNCHANGED <<kind, phrase, limit, keywords, scores, sorted, result, histories>>

QueryStep ==
    /\ \/ Start \/ LookUp \/ LookUpFails \/ Fetch \/ FetchFails \/ Answer
    /\ UNCHANGED vars

Running == qpc \in {"lookup", "fetch"}

NoQuery ==
    /\ qpc' = "idle"
    /\ kind' = "table"
    /\ limit' = 1
    /\ phrase' = {} /\ keywords' = {}
    /\ scores' = NoScores
    /\ sorted' = <<>> /\ result' = <<>>
    /\ atStart' = EmptyIndex
    /\ truncated' = FALSE /\ disturbed' = FALSE /\ failed' = FALSE

\* Everything else goes on meanwhile.  A restart ends the query, and a query that
\* is over leaves nothing behind.
SystemStep ==
    /\ Next
    /\ IF Running /\ restarts' = restarts
       THEN /\ truncated' = (truncated \/ Truncates)
            /\ disturbed' = (disturbed \/ <<comics, index>>' # <<comics, index>>)
            /\ UNCHANGED <<qpc, kind, phrase, limit, keywords, scores, sorted, result,
                           atStart, failed>>
       ELSE NoQuery

QueryNext == QueryStep \/ SystemStep

QuerySpec == Init /\ QueryInit /\ [][QueryNext]_allVars

-----------------------------------------------------------------------------
(***************************************************************************)
(* Properties.                                                             *)
(***************************************************************************)

\* A query that nothing disturbs, over an index that equals the table, answers
\* exactly: as many comics as there are up to the limit, none that a better one
\* was left out for, best first.
Exact ==
    qpc = "done" /\ ~disturbed /\ ~failed
        /\ (kind = "table" \/ Fresh(index)) =>
    LET s == ScoresIn(IndexOf(comics), phrase) IN
        /\ Len(result) = Capped(Cardinality({i \in Ids : s[i] > 0}), limit)
        /\ \A a, b \in DOMAIN result :
               a < b => result[a] # result[b] /\ s[result[a]] >= s[result[b]]
        /\ \A a \in DOMAIN result, i \in Ids :
               s[i] > s[result[a]] => \E b \in DOMAIN result : result[b] = i

\* Search fails because of a comic it found only if the table was truncated
\* between the query's first look-up and its last fetch.
FailsOnlyIfTruncated ==
    qpc = "error" => truncated \/ failed

\* Until somebody drops the table: although each keyword is looked up in
\* another index or another state of the table, no comic scores below what it
\* had at the start of the query or above what it has now.
ScoresBetween ==
    ~dropped /\ qpc \in {"fetch", "done"} =>
        \A i \in Ids :
            /\ ScoresIn(atStart, phrase)[i] <= scores[i]
            /\ scores[i] <= ScoresIn(Source(kind), phrase)[i]

\* Until somebody drops the table: a query answers with at least as many
\* comics as it could find at its start, up to its limit, whatever updates and
\* rebuilds take effect while it runs.
NoFewer ==
    ~dropped /\ qpc = "done" /\ ~failed =>
        Len(result) >=
            Capped(Cardinality({i \in Ids : ScoresIn(atStart, phrase)[i] > 0}), limit)
=============================================================================
