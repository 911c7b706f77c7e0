---------------------------- MODULE DashboardProofs ----------------------------
(***************************************************************************)
(* Theorems about Dashboard, for any clicks under way together.            *)
(*                                                                         *)
(* isFetchingStats admits one poll, so what the page shows is never newer  *)
(* than what that poll brings; and whoever starts an interval has stopped  *)
(* the one before.                                                         *)
(***************************************************************************)
EXTENDS Dashboard, TLAPS

TimerTypes ==
    /\ token \in BOOLEAN
    /\ timers \subseteq Timers
    /\ statsInterval \in timers \cup {None}

PollTypes ==
    /\ isFetchingStats \in BOOLEAN
    /\ poll \in [Polls -> {"idle", "flying"}]
    /\ sample \in [Polls -> [Requests -> Seen \cup {Nothing}]]
    /\ view \in [Requests -> Seen \cup {Nothing}]
    /\ changes \in Seen

RestTypes ==
    /\ targetMaxComics \in BOOLEAN
    /\ at \in [Handlers -> {"idle", "info", "answer", "retry", "timeout"}]
    /\ full \subseteq Seen
    /\ failures \in 0 .. MaxFailures

LEMMA Types == TypeOK <=> TimerTypes /\ PollTypes /\ RestTypes
BY DEF TypeOK, TimerTypes, PollTypes, RestTypes

TimerInv == TimerTypes /\ OneTimer

PollInv ==
    /\ PollTypes
    /\ isFetchingStats <=> \E p \in Polls : poll[p] = "flying"
    /\ \A p, q \in Polls : poll[p] = "flying" /\ poll[q] = "flying" => p = q
    /\ \A p \in Polls : poll[p] = "idle" => sample[p] = NoAnswers
    /\ \A k \in Requests : view[k] <= changes
    /\ \A p \in Polls, k \in Requests :
          sample[p][k] # Nothing => view[k] <= sample[p][k] /\ sample[p][k] <= changes

DInv == TimerInv /\ PollInv /\ RestTypes

LEMMA Stopped ==
    ASSUME TimerInv, StopPolling, token' \in BOOLEAN
    PROVE  TimerInv'
BY DEF TimerInv, TimerTypes, OneTimer, StopPolling

LEMMA Started ==
    ASSUME TimerInv, NEW loggedIn \in BOOLEAN, StartPolling(loggedIn), token' = loggedIn
    PROVE  TimerInv'
<1>1. CASE loggedIn
  <2>1. timers \ {statsInterval} = {}
    BY DEF TimerInv, OneTimer
  <2>2. PICK t \in Timers : timers' = {t} /\ statsInterval' = t
    BY <1>1, <2>1 DEF StartPolling
  <2> QED BY <1>1, <2>2 DEF TimerInv, TimerTypes, OneTimer
<1>2. CASE ~loggedIn
  BY <1>2, Stopped DEF StartPolling
<1> QED BY <1>1, <1>2

LEMMA TimersLeftAlone ==
    ASSUME TimerInv, UNCHANGED <<timerVars, token>>
    PROVE  TimerInv'
BY DEF TimerInv, TimerTypes, OneTimer, timerVars

LEMMA PollsLeftAlone ==
    ASSUME PollInv, UNCHANGED <<pollVars, view, changes>>
    PROVE  PollInv'
BY DEF PollInv, PollTypes, pollVars

LEMMA Fetched ==
    ASSUME PollInv, Fetch, UNCHANGED <<view, changes>>
    PROVE  PollInv'
<1>1. CASE isFetchingStats
  BY <1>1, PollsLeftAlone DEF Fetch
<1>2. CASE ~isFetchingStats
  <2>1. PICK p \in Polls : poll[p] = "idle" /\ poll' = [poll EXCEPT ![p] = "flying"]
    BY <1>2 DEF Fetch
  <2>2. isFetchingStats' = TRUE /\ UNCHANGED sample
    BY <1>2 DEF Fetch
  <2>3. \A q \in Polls : poll[q] = "idle"
    BY <1>2 DEF PollInv, PollTypes
  <2> QED BY <2>1, <2>2, <2>3 DEF PollInv, PollTypes
<1> QED BY <1>1, <1>2

LEMMA StartedPolls ==
    ASSUME PollInv, NEW loggedIn \in BOOLEAN, StartPolling(loggedIn),
           UNCHANGED <<view, changes>>
    PROVE  PollInv'
BY Fetched, PollsLeftAlone DEF StartPolling

LEMMA Ended ==
    ASSUME PollInv, NEW p \in Polls, poll[p] = "flying", PollOver(p), UNCHANGED changes,
           view' \in [Requests -> Seen \cup {Nothing}],
           \A k \in Requests : view'[k] <= changes
    PROVE  PollInv'
<1>1. \A q \in Polls : poll'[q] = "idle" /\ sample'[q] = NoAnswers
  BY DEF PollInv, PollTypes, PollOver
<1>2. PollTypes'
  BY DEF PollInv, PollTypes, PollOver, NoAnswers
<1>3. \A q \in Polls, k \in Requests : sample'[q][k] = Nothing
  BY <1>1 DEF NoAnswers
<1> QED BY <1>1, <1>2, <1>3 DEF PollInv, PollOver

LEMMA DInit == Init => DInv
<1> SUFFICES ASSUME Init PROVE DInv
  OBVIOUS
<1>1. TimerInv
  BY DashboardAssumption DEF Init, TimerInv, TimerTypes, OneTimer
<1>2. PollInv
  <2>1. PollTypes
    BY DashboardAssumption DEF Init, PollTypes, NoAnswers, Seen, Nothing
  <2>2. isFetchingStats <=> \E p \in Polls : poll[p] = "flying"
    BY DEF Init
  <2>3. \A p, q \in Polls : poll[p] = "flying" /\ poll[q] = "flying" => p = q
    BY DEF Init
  <2>4. \A k \in Requests : view[k] = Nothing /\ \A p \in Polls : sample[p][k] = Nothing
    BY DEF Init, NoAnswers
  <2> QED BY <2>1, <2>2, <2>3, <2>4 DEF PollInv, Init, Nothing
<1>3. RestTypes
  <2>1. full \subseteq Seen
    BY DashboardAssumption DEF Init, Seen
  <2>2. at \in [Handlers -> {"idle", "info", "answer", "retry", "timeout"}]
    BY DEF Init
  <2>3. failures \in 0 .. MaxFailures
    BY DashboardAssumption DEF Init
  <2>4. targetMaxComics \in BOOLEAN
    BY DEF Init
  <2> QED BY <2>1, <2>2, <2>3, <2>4 DEF RestTypes
<1> QED BY <1>1, <1>2, <1>3 DEF DInv

-----------------------------------------------------------------------------
(***************************************************************************)
(* The polls' own steps.                                                   *)
(***************************************************************************)

LEMMA Answered ==
    ASSUME DInv, NEW p \in Polls, NEW k \in Requests, IsAnswered(p, k)
    PROVE  DInv'
<1>1. TimerInv'
  BY TimersLeftAlone DEF DInv, IsAnswered, pageVars
<1>2. RestTypes'
  BY DEF DInv, RestTypes, IsAnswered, pageVars, services
<1>3. PollTypes'
  BY DEF DInv, PollInv, PollTypes, IsAnswered, services
<1>4. ASSUME NEW q \in Polls, NEW j \in Requests, q # p \/ j # k
      PROVE  sample'[q][j] = sample[q][j]
  BY <1>4 DEF DInv, PollInv, PollTypes, IsAnswered
<1>5. sample'[p][k] = changes
  BY DEF DInv, PollInv, PollTypes, IsAnswered
<1>6. \A q \in Polls : poll'[q] = poll[q] /\ (poll[q] = "idle" => sample'[q] = sample[q])
  BY DEF DInv, PollInv, PollTypes, IsAnswered
<1>7. ASSUME NEW q \in Polls, NEW j \in Requests, sample'[q][j] # Nothing
      PROVE  view[j] <= sample'[q][j] /\ sample'[q][j] <= changes
  <2>1. CASE q = p /\ j = k
    BY <1>5, <2>1 DEF DInv, PollInv, PollTypes, Seen
  <2>2. CASE q # p \/ j # k
    BY <1>4, <1>7, <2>2 DEF DInv, PollInv
  <2> QED BY <2>1, <2>2
<1>8. UNCHANGED <<isFetchingStats, view, changes>>
  BY DEF IsAnswered, services
<1> QED BY <1>1, <1>2, <1>3, <1>6, <1>7, <1>8 DEF DInv, PollInv

\* What an answered poll shows is between what the page showed and the last change.
LEMMA ShownInOrder ==
    ASSUME DInv, NEW p \in Polls, NEW shown \in SUBSET Requests,
           \A k \in Requests : sample[p][k] # Nothing,
           view' = [k \in Requests |-> IF k \in shown THEN sample[p][k] ELSE view[k]]
    PROVE  /\ view' \in [Requests -> Seen \cup {Nothing}]
           /\ \A k \in Requests : view[k] <= view'[k] /\ view'[k] <= changes
<1>1. \A k \in Requests : view[k] \in Int
  BY DEF DInv, PollInv, PollTypes, Seen, Nothing
<1>2. \A k \in Requests : sample[p][k] \in Seen \cup {Nothing} /\ view[k] \in Seen \cup {Nothing}
  BY DEF DInv, PollInv, PollTypes
<1>3. \A k \in Requests : /\ view[k] <= sample[p][k] /\ sample[p][k] <= changes
                          /\ view[k] <= changes
  BY DEF DInv, PollInv
<1>4. \A k \in Requests : view'[k] = IF k \in shown THEN sample[p][k] ELSE view[k]
  OBVIOUS
<1>5. view' \in [Requests -> Seen \cup {Nothing}]
  BY <1>2
<1> QED BY <1>1, <1>3, <1>4, <1>5

LEMMA PollEnded ==
    ASSUME DInv, NEW p \in Polls, PollEnds(p)
    PROVE  DInv' /\ \A k \in Requests : view[k] <= view'[k]
<1>1. CASE PollAnswers(p)
  <2>1. PICK shown \in SUBSET Requests :
          /\ IF shown = Requests THEN UNCHANGED failures ELSE Fails
          /\ view' = [k \in Requests |-> IF k \in shown THEN sample[p][k] ELSE view[k]]
          /\ IF "stats" \in shown /\ sample[p]["stats"] \in full /\ targetMaxComics
             THEN targetMaxComics' = FALSE /\ StopPolling
             ELSE UNCHANGED <<targetMaxComics, timerVars>>
    BY <1>1 DEF PollAnswers
  <2>2. /\ poll[p] = "flying"
        /\ \A k \in Requests : sample[p][k] # Nothing
        /\ PollOver(p)
        /\ UNCHANGED <<token, at, services>>
    BY <1>1 DEF PollAnswers
  <2>3. /\ view' \in [Requests -> Seen \cup {Nothing}]
        /\ \A k \in Requests : view[k] <= view'[k] /\ view'[k] <= changes
    BY <2>1, <2>2, ShownInOrder
  <2>4. PollInv'
    BY <2>2, <2>3, Ended DEF DInv, services
  <2>5. TimerInv'
    <3>1. token' \in BOOLEAN
      BY <2>2 DEF DInv, TimerInv, TimerTypes
    <3> QED BY <2>1, <2>2, <3>1, Stopped, TimersLeftAlone DEF DInv
  <2>6. failures' \in 0 .. MaxFailures
    BY <2>1, DashboardAssumption DEF DInv, RestTypes, Fails
  <2>7. targetMaxComics' \in BOOLEAN
    BY <2>1 DEF DInv, RestTypes
  <2>8. RestTypes'
    BY <2>2, <2>6, <2>7 DEF DInv, RestTypes, services
  <2> QED BY <2>3, <2>4, <2>5, <2>8 DEF DInv
<1>2. CASE PollFails(p)
  <2>1. poll[p] = "flying" /\ PollOver(p) /\ Fails
        /\ UNCHANGED <<timerVars, pageVars, at, view, services>>
    BY <1>2 DEF PollFails
  <2>2. PollInv'
    BY <2>1, Ended DEF DInv, PollInv, PollTypes, services
  <2>3. TimerInv'
    BY <2>1, TimersLeftAlone DEF DInv, pageVars
  <2>4. failures' \in 0 .. MaxFailures
    BY <2>1, DashboardAssumption DEF DInv, RestTypes, Fails
  <2>5. RestTypes'
    BY <2>1, <2>4 DEF DInv, RestTypes, pageVars, services
  <2>6. \A k \in Requests : view[k] \in Int
    BY DEF DInv, PollInv, PollTypes, Seen, Nothing
  <2> QED BY <2>1, <2>2, <2>3, <2>5, <2>6 DEF DInv
<1> QED BY <1>1, <1>2 DEF PollEnds

-----------------------------------------------------------------------------
(***************************************************************************)
(* The other steps change neither what the page shows nor the answers.     *)
(***************************************************************************)

LEMMA Ticked ==
    ASSUME DInv, NEW t \in Timers, Tick(t)
    PROVE  DInv'
<1>1. token
  BY DEF DInv, TimerInv, OneTimer, Tick
<1>2. Fetch /\ UNCHANGED <<timerVars, pageVars, at, view, services, failures>>
  BY <1>1 DEF Tick
<1>3. TimerInv'
  BY <1>2, TimersLeftAlone DEF DInv, pageVars
<1>4. PollInv'
  BY <1>2, Fetched DEF DInv, services
<1>5. RestTypes'
  BY <1>2 DEF DInv, RestTypes, pageVars, services
<1> QED BY <1>3, <1>4, <1>5 DEF DInv

LEMMA RestKept ==
    ASSUME DInv, Elsewhere, \/ UNCHANGED at
                            \/ \E h \in Handlers : \E w \in {"idle", "info", "answer",
                                                             "retry", "timeout"} : Await(h, w)
    PROVE  RestTypes'
BY DEF DInv, RestTypes, Elsewhere, Await, services

\* Every handler's step leaves the intervals and the polls alone, stops the polling,
\* or starts it.
LEMMA PollingKept ==
    ASSUME DInv, UNCHANGED <<view, services>>,
           \/ UNCHANGED <<token, timerVars, pollVars>>
           \/ StopPolling /\ UNCHANGED <<token, pollVars>>
           \/ Logout
           \/ \E loggedIn \in BOOLEAN : StartPolling(loggedIn) /\ token' = loggedIn
    PROVE  TimerInv' /\ PollInv'
<1>1. CASE UNCHANGED <<token, timerVars, pollVars>>
  BY <1>1, TimersLeftAlone, PollsLeftAlone DEF DInv, services
<1>2. CASE StopPolling /\ UNCHANGED <<token, pollVars>>
  BY <1>2, Stopped, PollsLeftAlone DEF DInv, services, TimerInv, TimerTypes
<1>3. CASE Logout
  BY <1>3, Stopped, PollsLeftAlone DEF DInv, services, Logout
<1>4. CASE \E loggedIn \in BOOLEAN : StartPolling(loggedIn) /\ token' = loggedIn
  BY <1>4, Started, StartedPolls DEF DInv, services
<1> QED BY <1>1, <1>2, <1>3, <1>4

LEMMA HandlerStepped ==
    ASSUME DInv,
           \/ Click
           \/ \E h \in Logins : LoginStep(h)
           \/ \E h \in Updates : UpdateStep(h)
           \/ \E h \in Drops : DropStep(h)
    PROVE  DInv' /\ UNCHANGED view
<1>0. token \in BOOLEAN
  BY DEF DInv, TimerInv, TimerTypes
<1>1. ASSUME Click PROVE DInv' /\ UNCHANGED view
  <2>1. CASE RefreshClicked
    <3>1. TimerInv'
      BY <2>1, TimersLeftAlone DEF DInv, RefreshClicked, pageVars
    <3>2. PollInv'
      BY <2>1, Fetched DEF DInv, RefreshClicked, services
    <3> QED BY <2>1, <3>1, <3>2 DEF DInv, RestTypes, RefreshClicked, pageVars, services
  <2>2. CASE AdminOpened \/ OtherTabOpened \/ LogoutClicked
    <3>1. Elsewhere /\ UNCHANGED at
      BY <2>2 DEF AdminOpened, OtherTabOpened, LogoutClicked
    <3>2. TimerInv' /\ PollInv'
      BY <1>0, <2>2, <3>1, PollingKept
         DEF AdminOpened, OtherTabOpened, LogoutClicked, Elsewhere
    <3> QED BY <3>1, <3>2, RestKept DEF DInv, Elsewhere
  <2> QED BY <1>1, <2>1, <2>2 DEF Click
<1>2. ASSUME NEW h \in Logins, LoginStep(h) PROVE DInv' /\ UNCHANGED view
  <2>1. Elsewhere
    BY <1>2 DEF LoginStep, LoginSubmitted, LoginAnswers
  <2>2. Await(h, "answer") \/ Await(h, "idle")
    BY <1>2 DEF LoginStep, LoginSubmitted, LoginAnswers
  <2>3. TimerInv' /\ PollInv'
    BY <1>2, <2>1, PollingKept DEF LoginStep, LoginSubmitted, LoginAnswers, Elsewhere
  <2> QED BY <2>1, <2>2, <2>3, RestKept DEF DInv, Elsewhere, Handlers
<1>3. ASSUME NEW h \in Updates, UpdateStep(h) PROVE DInv' /\ UNCHANGED view
  <2>1. CASE InfoAnswers(h)
    <3>1. TimerInv' /\ PollInv'
      BY <2>1, PollingKept DEF InfoAnswers
    <3>2. Await(h, "answer") \/ Await(h, "idle")
      BY <2>1 DEF InfoAnswers
    <3>3. RestTypes'
      BY <2>1, <3>2 DEF DInv, RestTypes, InfoAnswers, Await, services
    <3> QED BY <2>1, <3>1, <3>3 DEF DInv, InfoAnswers
  <2>2. CASE UpdateClicked(h) \/ UpdateAnswers(h)
    <3>1. Elsewhere
      BY <2>2 DEF UpdateClicked, UpdateAnswers
    <3>2. Await(h, "info") \/ Await(h, "idle")
      BY <2>2 DEF UpdateClicked, UpdateAnswers
    <3>3. TimerInv' /\ PollInv'
      BY <1>0, <2>2, <3>1, PollingKept DEF UpdateClicked, UpdateAnswers, Elsewhere
    <3> QED BY <3>1, <3>2, <3>3, RestKept DEF DInv, Elsewhere, Handlers
  <2> QED BY <1>3, <2>1, <2>2 DEF UpdateStep
<1>4. ASSUME NEW h \in Drops, DropStep(h) PROVE DInv' /\ UNCHANGED view
  <2>1. Elsewhere
    BY <1>4 DEF DropStep, DropClicked, DropAnswers, DropTimeout
  <2>2. \E w \in {"idle", "answer", "retry", "timeout"} : Await(h, w)
    BY <1>4 DEF DropStep, DropClicked, DropAnswers, DropTimeout
  <2>3. TimerInv' /\ PollInv'
    BY <1>0, <1>4, <2>1, PollingKept
       DEF DropStep, DropClicked, DropAnswers, DropTimeout, Elsewhere
  <2> QED BY <2>1, <2>2, <2>3, RestKept DEF DInv, Elsewhere, Handlers
<1> QED BY <1>1, <1>2, <1>3, <1>4

LEMMA Changed ==
    ASSUME DInv, ServicesChange
    PROVE  DInv' /\ UNCHANGED view
<1>1. TimerInv'
  BY TimersLeftAlone DEF DInv, ServicesChange, pageVars
<1>2. changes' = changes + 1 /\ changes \in Nat /\ changes' \in Seen
  BY DashboardAssumption DEF DInv, PollInv, PollTypes, ServicesChange, Seen
<1>3. UNCHANGED <<pollVars, view, failures>> /\ full' \subseteq full \cup {changes'}
  BY <1>2 DEF ServicesChange
<1>4. \A k \in Requests : /\ view[k] \in Int
                          /\ \A p \in Polls : sample[p][k] \in Int
  BY DEF DInv, PollInv, PollTypes, Seen, Nothing
<1>5. PollInv'
  BY <1>2, <1>3, <1>4 DEF DInv, PollInv, PollTypes, pollVars
<1>6. RestTypes'
  BY <1>2, <1>3 DEF DInv, RestTypes, ServicesChange, pageVars
<1> QED BY <1>1, <1>3, <1>5, <1>6 DEF DInv

LEMMA DStep == DInv /\ [Next]_vars => DInv' /\ \A k \in Requests : view'[k] >= view[k]
<1> SUFFICES ASSUME DInv, [Next]_vars
             PROVE  DInv' /\ \A k \in Requests : view'[k] >= view[k]
  OBVIOUS
<1>1. \A k \in Requests : view[k] \in Int
  BY DEF DInv, PollInv, PollTypes, Seen, Nothing
<1>2. CASE UNCHANGED vars
  <2>1. TimerInv'
    BY <1>2, TimersLeftAlone DEF DInv, vars, pageVars
  <2>2. PollInv'
    BY <1>2, PollsLeftAlone DEF DInv, vars, services
  <2> QED BY <1>1, <1>2, <2>1, <2>2 DEF DInv, RestTypes, vars, pageVars, services
<1>3. ASSUME NEW p \in Polls, PollStep(p)
      PROVE  DInv' /\ \A k \in Requests : view'[k] >= view[k]
  <2>1. CASE \E k \in Requests : IsAnswered(p, k)
    <3>1. PICK j \in Requests : IsAnswered(p, j)
      BY <2>1
    <3>2. DInv'
      BY <3>1, Answered
    <3>3. UNCHANGED view
      BY <3>1 DEF IsAnswered
    <3> QED BY <1>1, <3>2, <3>3
  <2>2. CASE PollEnds(p)
    <3>1. DInv' /\ \A k \in Requests : view[k] <= view'[k]
      BY <2>2, PollEnded
    <3>2. \A k \in Requests : view'[k] \in Int
      BY <3>1 DEF DInv, PollInv, PollTypes, Seen, Nothing
    <3> QED BY <1>1, <3>1, <3>2
  <2> QED BY <1>3, <2>1, <2>2 DEF PollStep
<1>4. ASSUME NEW t \in Timers, Tick(t)
      PROVE  DInv' /\ \A k \in Requests : view'[k] >= view[k]
  BY <1>1, <1>4, Ticked DEF Tick
<1>5. ASSUME \/ Click
             \/ \E h \in Logins : LoginStep(h)
             \/ \E h \in Updates : UpdateStep(h)
             \/ \E h \in Drops : DropStep(h)
      PROVE  DInv' /\ \A k \in Requests : view'[k] >= view[k]
  BY <1>1, <1>5, HandlerStepped
<1>6. ASSUME ServicesChange
      PROVE  DInv' /\ \A k \in Requests : view'[k] >= view[k]
  BY <1>1, <1>6, Changed
<1> QED BY <1>2, <1>3, <1>4, <1>5, <1>6 DEF Next

-----------------------------------------------------------------------------
(***************************************************************************)
(* The theorems.                                                           *)
(***************************************************************************)

\* The page's variables keep their types; statsInterval never names an interval that
\* was cleared.
THEOREM TypeCorrect == Spec => []TypeOK
<1>1. DInv => TypeOK
  BY Types DEF DInv, TimerInv, PollInv
<1> QED BY <1>1, DInit, DStep, PTL DEF Spec

\* No interval is left running that nothing will clear, and none without a token.
THEOREM NoTimerLeaks == Spec => []OneTimer
<1>1. DInv => OneTimer
  BY DEF DInv, TimerInv
<1> QED BY <1>1, DInit, DStep, PTL DEF Spec

\* The page never goes back to an older status or to older statistics.
THEOREM ViewIsMonotone == Spec => ViewNeverRegresses
<1>1. DInv /\ [Next]_vars => [\A k \in Requests : view'[k] >= view[k]]_vars
  BY DStep
<1> QED BY <1>1, DInit, DStep, PTL DEF Spec, ViewNeverRegresses

\* isFetchingStats is set exactly while one poll is under way: no failed, late or
\* interrupted poll leaves it set, which would turn every later poll away, and none
\* clears it under another.
FlagIsFlight ==
    /\ isFetchingStats <=> \E p \in Polls : poll[p] = "flying"
    /\ \A p, q \in Polls : poll[p] = "flying" /\ poll[q] = "flying" => p = q

THEOREM PollingNeverStuck == Spec => []FlagIsFlight
<1>1. DInv => FlagIsFlight
  BY DEF DInv, PollInv, FlagIsFlight
<1> QED BY <1>1, DInit, DStep, PTL DEF Spec
=============================================================================
