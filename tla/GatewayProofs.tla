------------------------------ MODULE GatewayProofs ------------------------------
(***************************************************************************)
(* Theorems about Gateway, for any number of connections, any limit on the *)
(* searches in progress, and any life of a token.                          *)
(***************************************************************************)
EXTENDS Gateway, FiniteSetTheorems, TLAPS

-----------------------------------------------------------------------------
(***************************************************************************)
(* The inductive invariant.                                                *)
(***************************************************************************)

\* A slot is taken exactly by the searches that were let in and not answered.
SlotInv == SearchConcurrency > 0 => sema = Cardinality(InSearch)

\* Where a request can be follows from its route, and a reply from what the update
\* service did.
PlaceInv ==
    \A r \in Requests :
        /\ at[r] = "waiting" => route[r] = "isearch"
        /\ at[r] = "handler" => route[r] \in {"search", "isearch"}
        /\ at[r] = "running" => route[r] = "update"
        /\ r \in running <=> at[r] = "running"
        /\ at[r] = "replied" =>
               /\ reply[r] # "none"
               /\ reply[r] = "ok" /\ route[r] = "update" => completed[r]
               /\ reply[r] = "exists" => overlapped[r]

GatewayInv == GatewayTypeOK /\ SlotInv /\ PlaceInv

-----------------------------------------------------------------------------
(***************************************************************************)
(* Slots.                                                                  *)
(***************************************************************************)

LEMMA InSearchFinite ==
    /\ IsFiniteSet(InSearch)
    /\ Cardinality(InSearch) \in Nat
<1>1. InSearch \in SUBSET Requests
  BY DEF InSearch
<1> QED BY <1>1, GatewayAssumption, FS_Subset, FS_CardinalityType

LEMMA SlotsSuffice == GatewayTypeOK /\ SlotInv => SearchesBounded
BY DEF GatewayTypeOK, SlotInv, SearchesBounded

\* The slots stay right if no request enters or leaves the handler of search.
LEMMA SlotsUntouched ==
    ASSUME SlotInv, UNCHANGED sema, InSearch' = InSearch
    PROVE  SlotInv'
BY DEF SlotInv

LEMMA SlotTaken ==
    ASSUME SlotInv, NEW r, r \notin InSearch, InSearch' = InSearch \cup {r},
           SearchConcurrency > 0 => sema' = sema + 1
    PROVE  SlotInv'
<1>1. Cardinality(InSearch \cup {r}) = Cardinality(InSearch) + 1
  BY InSearchFinite, FS_AddElement
<1> QED BY <1>1 DEF SlotInv

\* A request is answered: it gives back the slot it holds, if any, and there is one
\* to give back.
LEMMA FinishSlots ==
    ASSUME GatewayTypeOK, SlotInv, NEW r \in Requests, NEW status, at[r] # "idle",
           Finish(r, status)
    PROVE  SlotInv' /\ sema' \in 0 .. SearchConcurrency
<1>1. InSearch' = InSearch \ {r}
  BY DEF Finish, Answered, GoTo, InSearch, GatewayTypeOK
<1>2. CASE r \in InSearch
  <2>1. Cardinality(InSearch \ {r}) = Cardinality(InSearch) - 1
    BY <1>2, InSearchFinite, FS_RemoveElement
  <2>2. Cardinality(InSearch) # 0
    BY <1>2, InSearchFinite, FS_EmptySet
  <2>3. SearchConcurrency > 0 => sema' = sema - 1
    BY <1>2 DEF InSearch, Finish, ReleaseSlot
  <2>4. ~(SearchConcurrency > 0) => sema' = sema
    BY DEF Finish, ReleaseSlot
  <2> QED BY <1>1, <2>1, <2>2, <2>3, <2>4, InSearchFinite, GatewayAssumption
          DEF SlotInv, GatewayTypeOK
<1>3. CASE r \notin InSearch
  <2>1. InSearch' = InSearch
    BY <1>1, <1>3
  <2>2. sema' = sema
    BY <1>3 DEF InSearch, Finish, ReleaseSlot
  <2> QED BY <2>1, <2>2 DEF SlotInv, GatewayTypeOK
<1> QED BY <1>2, <1>3

-----------------------------------------------------------------------------
(***************************************************************************)
(* The ways a request goes on, each with what it keeps.                    *)
(***************************************************************************)

Places == {"idle", "arrived", "waiting", "handler", "calling", "running", "replied"}

\* The types of the requests' fields, which all but the answer's stay in.
FieldsTyped ==
    /\ at \in [Requests -> Places]
    /\ route \in [Requests -> Routes]
    /\ token \in [Requests -> issued \cup {NoToken}]
    /\ valid \in [Requests -> BOOLEAN]
    /\ gone \in [Requests -> BOOLEAN]
    /\ reply \in [Requests -> {"none", "ok", "exists", "error"}]
    /\ answer \in [Requests -> Answers \cup {"none"}]
    /\ completed \in [Requests -> BOOLEAN]

LEMMA TypeParts ==
    GatewayTypeOK <=>
        /\ FieldsTyped
        /\ main \in {"serving", "stopping", "closed", "exited"}
        /\ now \in 0 .. MaxTime
        /\ issued \subseteq 0 .. MaxTime
        /\ sema \in 0 .. SearchConcurrency
        /\ running \subseteq Requests
        /\ orphaned \in BOOLEAN
        /\ overlapped \in [Requests -> BOOLEAN]
BY DEF GatewayTypeOK, FieldsTyped, Places

LEMMA MovesType ==
    ASSUME FieldsTyped, NEW r \in Requests, NEW place \in Places, Moves(r, place),
           issued \subseteq issued'
    PROVE  FieldsTyped'
BY DEF FieldsTyped, Moves, GoTo

LEMMA AnsweredType ==
    ASSUME FieldsTyped, NEW r \in Requests, NEW status \in Answers, Answered(r, status),
           issued \subseteq issued'
    PROVE  FieldsTyped'
BY DEF FieldsTyped, Answered, GoTo, Places, Routes

LEMMA RepliesType ==
    ASSUME FieldsTyped, NEW r \in Requests, NEW said \in {"ok", "exists", "error"},
           NEW done \in BOOLEAN, Replies(r, said, done), UNCHANGED issued
    PROVE  FieldsTyped'
BY DEF FieldsTyped, Replies, GoTo, Places
LEMMA OverlapKept ==
    ASSUME Overlap
    PROVE  /\ overlapped' \in [Requests -> BOOLEAN]
           /\ \A q \in Requests : at'[q] # "idle" /\ overlapped[q] => overlapped'[q]
BY DEF Overlap

\* What a step that is about one request leaves of the others.
Others(r) ==
    \A q \in Requests \ {r} :
        /\ at'[q] = at[q] /\ route'[q] = route[q] /\ reply'[q] = reply[q]
        /\ completed'[q] = completed[q]

LEMMA OthersKept ==
    ASSUME GatewayTypeOK, NEW r \in Requests,
           \/ \E place : Moves(r, place)
           \/ \E status : Answered(r, status)
           \/ \E said, done : Replies(r, said, done)
    PROVE  Others(r)
BY DEF Others, Moves, Answered, Replies, GoTo, GatewayTypeOK

\* The others' part of PlaceInv survives if the latch is not taken from them.
LEMMA OthersPlaced ==
    ASSUME PlaceInv, Overlap, NEW r \in Requests, Others(r),
           \A q \in Requests \ {r} : q \in running' <=> q \in running
    PROVE  \A q \in Requests \ {r} :
               /\ at'[q] = "waiting" => route'[q] = "isearch"
               /\ at'[q] = "handler" => route'[q] \in {"search", "isearch"}
               /\ at'[q] = "running" => route'[q] = "update"
               /\ q \in running' <=> at'[q] = "running"
               /\ at'[q] = "replied" =>
                      /\ reply'[q] # "none"
                      /\ reply'[q] = "ok" /\ route'[q] = "update" => completed'[q]
                      /\ reply'[q] = "exists" => overlapped'[q]
<1> TAKE q \in Requests \ {r}
<1>1. /\ at'[q] = at[q] /\ route'[q] = route[q]
      /\ reply'[q] = reply[q] /\ completed'[q] = completed[q]
  BY DEF Others
<1>2. at[q] = "replied" /\ overlapped[q] => overlapped'[q]
  BY <1>1, OverlapKept
<1> QED BY <1>1, <1>2 DEF PlaceInv

\* Any answered request.
LEMMA FinishStep ==
    ASSUME GatewayInv, Overlap, NEW r \in Requests, NEW status \in Answers,
           at[r] \notin {"idle", "running"}, Finish(r, status), issued \subseteq issued',
           issued' \subseteq 0 .. MaxTime, UNCHANGED <<main, now, latched>>
    PROVE  GatewayInv'
<1> USE DEF GatewayInv, latched
<1>1. Answered(r, status)
  BY DEF Finish
<1>2. SlotInv' /\ sema' \in 0 .. SearchConcurrency
  BY FinishSlots
<1>3. GatewayTypeOK'
  <2>1. FieldsTyped'
    BY <1>1, TypeParts, AnsweredType
  <2> QED BY <1>2, <2>1, TypeParts, OverlapKept DEF GatewayTypeOK, FieldsTyped, Places
<1>4. PlaceInv'
  <2>1. at'[r] = "idle"
    BY <1>1 DEF Answered, GoTo, GatewayTypeOK
  <2>2. Others(r)
    BY <1>1, OthersKept
  <2> QED BY <2>1, <2>2, OthersPlaced DEF PlaceInv
<1> QED BY <1>2, <1>3, <1>4

\* Any request that only moves on, outside the handler of search.
LEMMA MoveStep ==
    ASSUME GatewayInv, Overlap, NEW r \in Requests,
           NEW place \in Places \ {"idle", "replied"}, Moves(r, place),
           UNCHANGED <<main, now, issued, sema>>,
           route[r] = "search" => at[r] # "arrived" /\ at[r] # "idle" /\ place # "arrived",
           place = "waiting" => route[r] = "isearch",
           place = "handler" => route[r] \in {"search", "isearch"},
           place = "running" =>
               route[r] = "update" /\ running' = running \cup {r} /\ UNCHANGED orphaned,
           place # "running" => at[r] # "running" /\ UNCHANGED latched
    PROVE  GatewayInv'
<1> USE DEF GatewayInv, latched
<1>1. SlotInv'
  <2>1. InSearch' = InSearch
    BY DEF InSearch, Moves, GoTo, GatewayTypeOK
  <2> QED BY <2>1, SlotsUntouched
<1>2. GatewayTypeOK'
  <2>1. FieldsTyped'
    BY TypeParts, MovesType
  <2> QED BY <2>1, TypeParts, OverlapKept DEF GatewayTypeOK, FieldsTyped, Places
<1>3. PlaceInv'
  <2>1. at'[r] = place /\ route'[r] = route[r]
    BY DEF Moves, GoTo, GatewayTypeOK
  <2>2. Others(r)
    BY OthersKept
  <2>3. \A q \in Requests \ {r} : q \in running' <=> q \in running
    OBVIOUS
  <2> QED BY <2>1, <2>2, <2>3, OthersPlaced DEF PlaceInv
<1> QED BY <1>1, <1>2, <1>3

\* Any call that returns.
LEMMA ReplyStep ==
    ASSUME GatewayInv, Overlap, NEW r \in Requests,
           NEW said \in {"ok", "exists", "error"}, NEW done \in BOOLEAN,
           at[r] \in {"calling", "running"}, Replies(r, said, done),
           UNCHANGED <<main, now, issued>>,
           said = "ok" /\ route[r] = "update" => done,
           said = "exists" => overlapped'[r],
           running' = running \ {r}, orphaned' \in BOOLEAN
    PROVE  GatewayInv'
<1> USE DEF GatewayInv
<1>1. SlotInv'
  <2>1. InSearch' = InSearch /\ UNCHANGED sema
    BY DEF InSearch, Replies, GoTo, GatewayTypeOK
  <2> QED BY <2>1, SlotsUntouched
<1>2. GatewayTypeOK'
  <2>1. FieldsTyped' /\ UNCHANGED sema
    BY TypeParts, RepliesType DEF Replies
  <2> QED BY <2>1, TypeParts, OverlapKept DEF GatewayTypeOK, FieldsTyped, Places
<1>3. PlaceInv'
  <2>1. at'[r] = "replied" /\ reply'[r] = said /\ completed'[r] = done
        /\ route'[r] = route[r]
    BY DEF Replies, GoTo, GatewayTypeOK
  <2>2. Others(r)
    BY OthersKept
  <2>3. \A q \in Requests \ {r} : q \in running' <=> q \in running
    OBVIOUS
  <2> QED BY <2>1, <2>2, <2>3, OthersPlaced DEF PlaceInv
<1> QED BY <1>1, <1>2, <1>3

-----------------------------------------------------------------------------
(***************************************************************************)
(* Every step keeps the invariant.                                         *)
(***************************************************************************)

LEMMA GatewayInit == Init => GatewayInv
<1> SUFFICES ASSUME Init PROVE GatewayInv
  OBVIOUS
<1>1. GatewayTypeOK
  <2>1. FieldsTyped
    BY DEF Init, FieldsTyped, Places, Routes
  <2>2. 0 \in 0 .. MaxTime /\ 0 \in 0 .. SearchConcurrency
    BY GatewayAssumption
  <2>3. overlapped \in [Requests -> BOOLEAN]
    BY DEF Init
  <2> QED BY <2>1, <2>2, <2>3, TypeParts DEF Init
<1>2. InSearch = {}
  BY DEF Init, InSearch
<1>3. SlotInv
  BY <1>2, FS_EmptySet DEF Init, SlotInv
<1>4. PlaceInv
  BY GatewayAssumption DEF Init, PlaceInv
<1> QED BY <1>1, <1>3, <1>4 DEF GatewayInv

LEMMA ArriveStep ==
    ASSUME GatewayInv, Overlap, NEW r \in Requests, Arrive(r)
    PROVE  GatewayInv'
<1> USE DEF GatewayInv, Elsewhere, latched
<1>1. SlotInv'
  <2>1. InSearch' = InSearch
    BY DEF InSearch, Arrive, GoTo, GatewayTypeOK
  <2> QED BY <2>1, SlotsUntouched DEF Arrive
<1>2. GatewayTypeOK'
  <2>1. FieldsTyped'
    BY DEF Arrive, GoTo, GatewayTypeOK, FieldsTyped, Places
  <2> QED BY <2>1, TypeParts, OverlapKept DEF Arrive, GatewayTypeOK, FieldsTyped, Places
<1>3. PlaceInv'
  <2>1. at'[r] = "arrived" /\ UNCHANGED running /\ r \notin running
    BY DEF latched, Arrive, GoTo, GatewayTypeOK, PlaceInv
  <2>2. Others(r)
    BY DEF Arrive, GoTo, GatewayTypeOK, Others
  <2> QED BY <2>1, <2>2, OthersPlaced DEF PlaceInv
<1> QED BY <1>1, <1>2, <1>3

LEMMA ConcurrencyStep ==
    ASSUME GatewayInv, Overlap, NEW r \in Requests, Concurrency(r)
    PROVE  GatewayInv'
<1> USE DEF GatewayInv
<1>1. CASE Finish(r, "503")
  BY <1>1, FinishStep DEF Concurrency, Elsewhere, Answers, GatewayTypeOK
<1>2. CASE Moves(r, "handler")
  <2>1. /\ SearchConcurrency > 0 => sema' = sema + 1
        /\ sema' \in 0 .. SearchConcurrency
    <3>1. at[r] = "arrived" /\ at'[r] = "handler"
      BY <1>2 DEF Concurrency, Moves, GoTo, GatewayTypeOK
    <3>2. ~Finish(r, "503")
      BY <3>1 DEF Finish, Answered, GoTo, GatewayTypeOK
    <3> QED BY <3>2, GatewayAssumption DEF Concurrency, GatewayTypeOK
  <2>2. r \notin InSearch /\ InSearch' = InSearch \cup {r}
    BY <1>2 DEF Concurrency, InSearch, Moves, GoTo, GatewayTypeOK
  <2>3. SlotInv'
    BY <2>1, <2>2, SlotTaken
  <2>4. FieldsTyped'
    BY <1>2, TypeParts, MovesType DEF Places, Concurrency, Elsewhere
  <2>5. GatewayTypeOK'
    BY <2>1, <2>4, TypeParts, OverlapKept
       DEF Concurrency, Elsewhere, latched, GatewayTypeOK, FieldsTyped, Places
  <2>6. at'[r] = "handler" /\ route'[r] = "search" /\ UNCHANGED running /\ r \notin running
    BY <1>2 DEF latched, Concurrency, Elsewhere, Moves, GoTo, GatewayTypeOK, PlaceInv
  <2>7. Others(r)
    BY <1>2, OthersKept
  <2>8. PlaceInv'
    BY <2>6, <2>7, OthersPlaced DEF PlaceInv
  <2> QED BY <2>3, <2>5, <2>8
<1> QED BY <1>1, <1>2 DEF Concurrency

LEMMA ServeStep ==
    ASSUME GatewayInv, Overlap, NEW r \in Requests, Serve(r)
    PROVE  GatewayInv'
<1> USE DEF Elsewhere, latched, Places, Answers
<1>1. CASE Concurrency(r)
  BY <1>1, ConcurrencyStep
<1>2. CASE Rate(r)
  <2>1. CASE Finish(r, "empty") /\ at[r] \in {"arrived", "waiting"}
    BY <1>2, <2>1, FinishStep DEF Rate, GatewayInv, GatewayTypeOK
  <2>2. CASE at[r] = "arrived" /\ Moves(r, "waiting") /\ UNCHANGED sema
    BY <1>2, <2>2, MoveStep DEF Rate
  <2>3. CASE at[r] = "waiting" /\ Moves(r, "handler") /\ UNCHANGED sema
    BY <1>2, <2>3, MoveStep DEF Rate
  <2> QED BY <1>2, <2>1, <2>2, <2>3 DEF Rate
<1>3. CASE Auth(r)
  BY <1>3, FinishStep, MoveStep DEF Auth, Writes, GatewayInv, GatewayTypeOK
<1>4. CASE CheckParameters(r)
  BY <1>4, FinishStep, MoveStep DEF CheckParameters, GatewayInv, GatewayTypeOK
<1>5. CASE Login(r)
  <2>1. issued \subseteq issued' /\ issued' \subseteq 0 .. MaxTime
    BY <1>5 DEF Login, GatewayInv, GatewayTypeOK
  <2>2. \E status \in Answers : Finish(r, status)
    BY <1>5 DEF Login
  <2> QED BY <1>5, <2>1, <2>2, FinishStep DEF Login
<1>6. CASE AnswerReply(r)
  <2>1. StatusFor(reply[r]) \in Answers
    BY <1>6 DEF AnswerReply, StatusFor, GatewayInv, GatewayTypeOK, PlaceInv
  <2> QED BY <1>6, <2>1, FinishStep DEF AnswerReply, GatewayInv, GatewayTypeOK
<1> QED BY <1>1, <1>2, <1>3, <1>4, <1>5, <1>6 DEF Serve

LEMMA ServiceStep ==
    ASSUME GatewayInv, Overlap, NEW r \in Requests, Service(r)
    PROVE  GatewayInv'
<1> USE DEF Elsewhere, latched, GatewayInv
<1>0. /\ at[r] = "running" <=> r \in running
      /\ at[r] = "running" => route[r] = "update"
      /\ orphaned \in BOOLEAN
  BY DEF PlaceInv, GatewayTypeOK
<1>1. CASE ServiceReplies(r)
  <2>1. PICK said \in {"ok", "error"} : Replies(r, said, FALSE)
    BY <1>1 DEF ServiceReplies
  <2>2. running' = running \ {r} /\ orphaned' \in BOOLEAN
    BY <1>0, <1>1 DEF ServiceReplies
  <2> QED BY <1>1, <2>1, <2>2, ReplyStep DEF ServiceReplies
<1>2. CASE UpdateBegins(r)
  <2>1. CASE Latch!Takes(r) /\ Moves(r, "running") /\ UNCHANGED sema
    <3>1. running' = running \cup {r} /\ UNCHANGED orphaned
      BY <2>1 DEF Latch!Takes, Latch!Free
    <3> QED BY <1>2, <2>1, <3>1, MoveStep DEF UpdateBegins, Places
  <2>2. CASE Latch!Refuses(r) /\ Replies(r, "exists", FALSE)
    <3>1. r \notin running /\ UNCHANGED latched /\ (orphaned \/ running \ {r} # {})
      BY <2>2 DEF Latch!Refuses, Latch!Free
    <3>2. at'[r] = "replied"
      BY <2>2 DEF Replies, GoTo, GatewayTypeOK
    <3>3. overlapped'[r]
      BY <1>2, <3>1, <3>2 DEF Overlap, UpdateBegins
    <3>4. running' = running \ {r} /\ orphaned' \in BOOLEAN
      BY <1>0, <3>1
    <3> QED BY <1>2, <2>2, <3>3, <3>4, ReplyStep DEF UpdateBegins
  <2> QED BY <1>2, <2>1, <2>2 DEF UpdateBegins
<1>3. CASE UpdateEnds(r)
  <2>1. PICK said \in {"ok", "error"} : Latch!Ends(r, said) /\ Replies(r, said, said = "ok")
    BY <1>3 DEF UpdateEnds
  <2>2. running' = running \ {r} /\ orphaned' \in BOOLEAN
    BY <1>0, <2>1 DEF Latch!Ends
  <2> QED BY <1>3, <2>1, <2>2, ReplyStep DEF UpdateEnds
<1>4. CASE CallFails(r)
  <2>1. running' = running \ {r} /\ orphaned' \in BOOLEAN
    BY <1>0, <1>4 DEF CallFails, Latch!Abandons
  <2> QED BY <1>4, <2>1, ReplyStep DEF CallFails
<1> QED BY <1>1, <1>2, <1>3, <1>4 DEF Service

\* Steps that leave every request where it is.
LEMMA NobodyMoves ==
    ASSUME GatewayInv, Overlap, UNCHANGED <<sema, at, route, reply, completed, running>>,
           GatewayTypeOK'
    PROVE  GatewayInv'
<1> USE DEF GatewayInv
<1>1. SlotInv'
  <2>1. InSearch' = InSearch
    BY DEF InSearch
  <2> QED BY <2>1, SlotsUntouched
<1>2. PlaceInv'
  BY OverlapKept DEF PlaceInv
<1> QED BY <1>1, <1>2

\* When main returns, no request is left.
LEMMA MainReturnsStep ==
    ASSUME GatewayInv, Overlap, MainReturns
    PROVE  GatewayInv'
<1> USE DEF GatewayInv
<1>1. InSearch' = {} /\ sema' = 0
  BY DEF InSearch, MainReturns
<1>2. SlotInv'
  BY <1>1, FS_EmptySet DEF SlotInv
<1>3. FieldsTyped'
  BY DEF MainReturns, FieldsTyped, GatewayTypeOK, Places, Routes, Answers
<1>4. GatewayTypeOK'
  <2>1. running' \subseteq Requests /\ orphaned' \in BOOLEAN
    BY DEF MainReturns, GatewayTypeOK
  <2>2. 0 \in 0 .. SearchConcurrency
    BY GatewayAssumption
  <2> QED BY <1>1, <1>3, <2>1, <2>2, TypeParts, OverlapKept
          DEF MainReturns, GatewayTypeOK, FieldsTyped, Places
<1>5. PlaceInv'
  BY GatewayAssumption DEF PlaceInv, MainReturns, GatewayTypeOK
<1> QED BY <1>2, <1>4, <1>5

LEMMA GatewayStep == GatewayInv /\ [Next]_vars => GatewayInv'
<1> SUFFICES ASSUME GatewayInv, [Next]_vars PROVE GatewayInv'
  OBVIOUS
<1>1. CASE UNCHANGED vars
  BY <1>1 DEF vars, latched, reqVars, GatewayInv, GatewayTypeOK, SlotInv, PlaceInv, InSearch
<1>2. CASE Next
  <2> USE <1>2 DEF Next
  <2>0. Overlap
    OBVIOUS
  <2>1. ASSUME NEW r \in Requests, Arrive(r) PROVE GatewayInv'
    BY <2>0, <2>1, ArriveStep
  <2>2. ASSUME NEW r \in Requests, Serve(r) PROVE GatewayInv'
    BY <2>0, <2>2, ServeStep
  <2>3. ASSUME NEW r \in Requests, Service(r) PROVE GatewayInv'
    BY <2>0, <2>3, ServiceStep
  <2>4. ASSUME NEW r \in Requests, ClientLeaves(r) PROVE GatewayInv'
    <3>1. GatewayTypeOK'
      BY <2>0, <2>4, OverlapKept
         DEF ClientLeaves, Elsewhere, latched, GatewayInv, GatewayTypeOK
    <3> QED BY <2>0, <2>4, <3>1, NobodyMoves DEF ClientLeaves, Elsewhere, latched
  <2>5. CASE OrphanEnds
    <3>1. GatewayTypeOK'
      BY <2>0, <2>5, OverlapKept
         DEF OrphanEnds, Latch!OrphanEnds, reqVars, GatewayInv, GatewayTypeOK
    <3> QED BY <2>0, <2>5, <3>1, NobodyMoves DEF OrphanEnds, Latch!OrphanEnds, reqVars
  <2>6. CASE Interrupt \/ Shutdown
    <3>1. GatewayTypeOK'
      BY <2>0, <2>6, OverlapKept
         DEF Interrupt, Shutdown, latched, reqVars, GatewayInv, GatewayTypeOK
    <3> QED BY <2>0, <2>6, <3>1, NobodyMoves DEF Interrupt, Shutdown, latched, reqVars
  <2>7. CASE MainReturns
    BY <2>0, <2>7, MainReturnsStep
  <2>8. CASE Tick
    <3>1. now' \in 0 .. MaxTime
      BY <2>8, GatewayAssumption DEF Tick, GatewayInv, GatewayTypeOK
    <3>2. GatewayTypeOK'
      BY <2>0, <2>8, <3>1, OverlapKept
         DEF Tick, latched, reqVars, GatewayInv, GatewayTypeOK
    <3> QED BY <2>0, <2>8, <3>2, NobodyMoves DEF Tick, latched, reqVars
  <2> QED BY <2>1, <2>2, <2>3, <2>4, <2>5, <2>6, <2>7, <2>8
<1> QED BY <1>1, <1>2

-----------------------------------------------------------------------------
(***************************************************************************)
(* Theorems.                                                               *)
(***************************************************************************)

THEOREM InvariantHolds == Spec => []GatewayInv
BY GatewayInit, GatewayStep, PTL DEF Spec

\* The gateway's state is of its type: the slots taken (Concurrency's semaphore) never
\* exceed its capacity, none is given back twice.
THEOREM GatewayTypeCorrect == Spec => []GatewayTypeOK
<1>1. GatewayInv => GatewayTypeOK
  BY DEF GatewayInv
<1> QED BY <1>1, InvariantHolds, PTL

\* However requests end, no more searches are in progress than Concurrency's limit.
THEOREM SearchesStayBounded == Spec => []SearchesBounded
<1>1. GatewayInv => SearchesBounded
  BY SlotsSuffice DEF GatewayInv
<1> QED BY <1>1, InvariantHolds, PTL

-----------------------------------------------------------------------------
(***************************************************************************)
(* What a step may answer.                                                 *)
(***************************************************************************)

Concerns(r) == Arrive(r) \/ Serve(r) \/ Service(r) \/ ClientLeaves(r)

LEMMA OthersUntouched ==
    ASSUME GatewayTypeOK, NEW q \in Requests, NEW r \in Requests \ {q}, Concerns(q)
    PROVE  at'[r] = at[r] /\ answer'[r] = answer[r]
<1> USE DEF GatewayTypeOK
<1>1. CASE Arrive(q)
  BY <1>1 DEF Arrive, GoTo
<1>2. CASE Serve(q)
  BY <1>2 DEF Serve, Concurrency, Rate, Auth, CheckParameters, Login, AnswerReply,
              Moves, Finish, Answered, GoTo
<1>3. CASE Service(q)
  BY <1>3 DEF Service, ServiceReplies, UpdateBegins, UpdateEnds, CallFails,
              Replies, Moves, GoTo
<1>4. CASE ClientLeaves(q)
  BY <1>4 DEF ClientLeaves
<1> QED BY <1>1, <1>2, <1>3, <1>4 DEF Concerns

\* An answer is a request's own, or main has cut the request off.
LEMMA WhoAnswers ==
    ASSUME GatewayTypeOK, Next, NEW r \in Requests,
           at'[r] # at[r] \/ answer'[r] # answer[r]
    PROVE  Concerns(r) \/ MainReturns
<1>1. ASSUME NEW q \in Requests, Concerns(q), q # r PROVE FALSE
  BY <1>1, OthersUntouched
<1>2. OrphanEnds \/ Interrupt \/ Shutdown \/ Tick => FALSE
  BY DEF OrphanEnds, Latch!OrphanEnds, Interrupt, Shutdown, Tick, reqVars
<1> QED BY <1>1, <1>2 DEF Next, Concerns

\* The answer that a request gets in a step of its own.
LEMMA Verdicts ==
    ASSUME GatewayInv, NEW r \in Requests, Concerns(r)
    PROVE  \/ at'[r] # "idle" /\ answer'[r] \in {answer[r], "none"}
           \/ at[r] = "arrived" /\ route[r] = "search" /\ sema = SearchConcurrency
              /\ SearchConcurrency > 0
           \/ at'[r] = "idle" /\ route[r] # "update"
              /\ answer'[r] \in {"200", "empty", "400", "401"}
           \/ at'[r] = "idle" /\ answer'[r] = "401"
           \/ at[r] = "replied" /\ at'[r] = "idle" /\ answer'[r] = StatusFor(reply[r])
<1> USE DEF GatewayInv, GatewayTypeOK
<1>1. CASE Arrive(r)
  BY <1>1 DEF Arrive, GoTo
<1>2. CASE Serve(r)
  <2>1. CASE Concurrency(r)
    BY <2>1 DEF Concurrency, Moves, Finish, Answered, GoTo
  <2>2. CASE Rate(r)
    BY <2>2 DEF Rate, Moves, Finish, Answered, GoTo
  <2>3. CASE Auth(r)
    BY <2>3 DEF Auth, Moves, Finish, Answered, GoTo
  <2>4. CASE CheckParameters(r)
    BY <2>4 DEF CheckParameters, Moves, Finish, Answered, GoTo, PlaceInv
  <2>5. CASE Login(r)
    BY <2>5 DEF Login, Finish, Answered, GoTo
  <2>6. CASE AnswerReply(r)
    BY <2>6 DEF AnswerReply, Finish, Answered, GoTo
  <2> QED BY <1>2, <2>1, <2>2, <2>3, <2>4, <2>5, <2>6 DEF Serve
<1>3. CASE Service(r)
  BY <1>3 DEF Service, ServiceReplies, UpdateBegins, UpdateEnds, CallFails,
              Replies, Moves, GoTo, PlaceInv
<1>4. CASE ClientLeaves(r)
  BY <1>4 DEF ClientLeaves
<1> QED BY <1>1, <1>2, <1>3, <1>4 DEF Concerns

\* What StatusFor makes of the replies there are.
LEMMA Statuses ==
    ASSUME NEW said \in {"ok", "exists", "error"}
    PROVE  /\ StatusFor(said) \in {"200", "202", "500"}
           /\ StatusFor(said) = "200" => said = "ok"
           /\ StatusFor(said) = "202" => said = "exists"
BY DEF StatusFor

LEMMA ReplyKnown ==
    ASSUME GatewayInv, NEW r \in Requests, at[r] = "replied"
    PROVE  reply[r] \in {"ok", "exists", "error"}
BY DEF GatewayInv, GatewayTypeOK, PlaceInv

\* A search is refused only while the limit's number of others are in progress: no
\* way a search can end leaves its slot taken (Concurrency's defer).
THEOREM RefusalsJustified == Spec => RefusedOnlyIfFull
<1> DEFINE Justified == \A r \in Requests :
               answer[r] # "503" /\ answer'[r] = "503" =>
                   Cardinality(InSearch) = SearchConcurrency
<1>1. GatewayInv /\ [Next]_vars => [Justified]_vars
  <2> SUFFICES ASSUME GatewayInv, Next, NEW r \in Requests,
                      answer[r] # "503", answer'[r] = "503"
               PROVE  Cardinality(InSearch) = SearchConcurrency
    OBVIOUS
  <2>1. ~MainReturns
    BY DEF MainReturns
  <2>2. Concerns(r)
    BY <2>1, WhoAnswers DEF GatewayInv
  <2>3. at[r] = "replied" => StatusFor(reply[r]) # "503"
    BY ReplyKnown, Statuses
  <2>4. sema = SearchConcurrency /\ SearchConcurrency > 0
    BY <2>2, <2>3, Verdicts
  <2> QED BY <2>4 DEF GatewayInv, SlotInv
<1> QED BY <1>1, InvariantHolds, PTL DEF Spec, RefusedOnlyIfFull

\* The handler of update answers 200 only if the update ran to its end and 202 only if
\* another one was running, whatever calls were cancelled meanwhile.
THEOREM UpdateAnswersTruthful == Spec => UpdateAnswersTrue
<1> DEFINE Truthful == \A r \in Requests :
               route[r] = "update" /\ at[r] # "idle" /\ at'[r] = "idle" =>
                   /\ answer'[r] = "200" => completed[r]
                   /\ answer'[r] = "202" => overlapped[r]
<1>1. GatewayInv /\ [Next]_vars => [Truthful]_vars
  <2> SUFFICES ASSUME GatewayInv, Next, NEW r \in Requests,
                      route[r] = "update", at[r] # "idle", at'[r] = "idle"
               PROVE  /\ answer'[r] = "200" => completed[r]
                      /\ answer'[r] = "202" => overlapped[r]
    OBVIOUS
  <2>1. CASE MainReturns
    BY <2>1 DEF MainReturns
  <2>2. CASE Concerns(r)
    <3>1. \/ answer'[r] = "401"
          \/ at[r] = "replied" /\ answer'[r] = StatusFor(reply[r])
      BY <2>2, Verdicts
    <3> QED BY <3>1, ReplyKnown, Statuses DEF GatewayInv, PlaceInv
  <2> QED BY <2>1, <2>2, WhoAnswers DEF GatewayInv
<1> QED BY <1>1, InvariantHolds, PTL DEF Spec, UpdateAnswersTrue

\* Cutting an expiry to whole seconds makes it at most a second earlier.
LEMMA ExpiryCut ==
    ASSUME NEW t \in Nat
    PROVE  /\ Expiry(t) \in Nat
           /\ Expiry(t) <= t + TokenTTL
           /\ Expiry(t) > t + TokenTTL - Second
<1>1. t + TokenTTL \in Nat
  BY GatewayAssumption
<1>2. \A a \in Nat : /\ (a \div Second) * Second \in Nat
                     /\ (a \div Second) * Second <= a
                     /\ (a \div Second) * Second > a - Second
  BY GatewayAssumption
<1> QED BY <1>1, <1>2, GatewayAssumption DEF Expiry

\* Auth lets a write pass only with a live token of the gateway's own, and refuses none
\* of them more than a second early.
THEOREM TokensLive == Spec => TokenLifetime
<1> DEFINE Live == \A r \in Requests :
               at[r] = "arrived" /\ route[r] \in Writes /\ at'[r] # at[r] /\ main' = main =>
                   /\ at'[r] = "calling" =>
                          token[r] \in issued /\ now < token[r] + TokenTTL
                   /\ at'[r] = "idle" /\ token[r] \in issued =>
                          now > token[r] + TokenTTL - Second
<1>1. GatewayInv /\ [Next]_vars => [Live]_vars
  <2> SUFFICES ASSUME GatewayInv, Next, NEW r \in Requests, at[r] = "arrived",
                      route[r] \in Writes, at'[r] # at[r], main' = main
               PROVE  /\ at'[r] = "calling" =>
                             token[r] \in issued /\ now < token[r] + TokenTTL
                      /\ at'[r] = "idle" /\ token[r] \in issued =>
                             now > token[r] + TokenTTL - Second
    OBVIOUS
  <2>1. ~MainReturns
    BY DEF MainReturns
  <2>2. Concerns(r)
    BY <2>1, WhoAnswers DEF GatewayInv
  <2>3. Auth(r) \/ CallFails(r) \/ ClientLeaves(r)
    BY <2>2 DEF Concerns, Arrive, Serve, Service, Concurrency, Rate, CheckParameters,
                Login, AnswerReply, ServiceReplies, UpdateBegins, UpdateEnds, Writes
  <2>4. Auth(r)
    BY <2>3 DEF CallFails, ClientLeaves
  <2>5. token[r] \in issued \cup {NoToken} /\ now \in Nat /\ issued \subseteq Nat
    BY GatewayAssumption DEF GatewayInv, GatewayTypeOK
  <2>6. ASSUME at'[r] = "calling"
        PROVE  token[r] \in issued /\ now < token[r] + TokenTTL
    <3>1. Accepts(token[r])
      BY <2>4, <2>6 DEF Auth, Finish, Answered, GoTo, GatewayInv, GatewayTypeOK
    <3>2. token[r] \in issued /\ now < Expiry(token[r])
      BY <2>5, <3>1 DEF Accepts
    <3>3. token[r] \in Nat /\ TokenTTL \in Nat
      BY <2>5, <3>2, GatewayAssumption
    <3>4. Expiry(token[r]) \in Nat /\ Expiry(token[r]) <= token[r] + TokenTTL
      BY <3>3, ExpiryCut
    <3> QED BY <2>5, <3>2, <3>3, <3>4
  <2>7. ASSUME at'[r] = "idle", token[r] \in issued
        PROVE  now > token[r] + TokenTTL - Second
    <3>1. ~Accepts(token[r])
      BY <2>4, <2>7 DEF Auth, Moves, GoTo, GatewayInv, GatewayTypeOK
    <3>2. ~(now < Expiry(token[r]))
      BY <2>5, <2>7, <3>1 DEF Accepts, NoToken
    <3>3. token[r] \in Nat /\ TokenTTL \in Nat /\ Second \in Nat
      BY <2>5, <2>7, GatewayAssumption
    <3>4. /\ Expiry(token[r]) \in Nat
          /\ Expiry(token[r]) > token[r] + TokenTTL - Second
      BY <3>3, ExpiryCut
    <3> QED BY <2>5, <3>2, <3>3, <3>4
  <2> QED BY <2>6, <2>7
<1> QED BY <1>1, InvariantHolds, PTL DEF Spec, TokenLifetime
=============================================================================
