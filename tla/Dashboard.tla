------------------------------- MODULE Dashboard -------------------------------
(***************************************************************************)
(* The administrator's page of frontend/app.js: the polling of the update  *)
(* service's status and statistics, and the handlers that start and stop   *)
(* it.  The browser runs one callback at a time; a handler gives way to    *)
(* others where it awaits an answer or a timeout.                          *)
(*                                                                         *)
(* What the services have to show is numbered by its changes.  A behaviour *)
(* starts when the page is loaded.  Messages, tabs and the stored token,   *)
(* which equals the page's, are left out.                                  *)
(***************************************************************************)
EXTENDS Integers, FiniteSets

CONSTANTS
    Updates, Drops, Logins,  \* clicks whose handlers may be under way together
    Polls,                   \* calls of fetchDbStatsAndStatus under way together
    Timers,                  \* what setInterval returns
    None,                    \* null
    MaxChanges, MaxFailures  \* bounds on what changes, and on answers without data

ASSUME DashboardAssumption ==
    /\ None \notin Timers
    /\ Updates \cap Drops = {} /\ Updates \cap Logins = {} /\ Drops \cap Logins = {}
    /\ MaxChanges \in Nat
    /\ MaxFailures \in Nat

VARIABLES
    token,              \* has the page a token?
    timers,             \* the intervals that run
    statsInterval,
    isFetchingStats,
    targetMaxComics,    \* is it above 0?
    at,                 \* what each handler awaits
    poll,               \* which polls are under way
    sample,             \* what their two requests were answered
    view,               \* what the page shows
    changes,            \* the number of the services' last change
    full,               \* the changes after which every comic was stored
    failures

timerVars == <<timers, statsInterval>>
pollVars == <<isFetchingStats, poll, sample>>
pageVars == <<token, targetMaxComics>>
services == <<changes, full>>
vars == <<timerVars, pollVars, pageVars, at, view, services, failures>>

Handlers == Updates \cup Drops \cup Logins
Requests == {"status", "stats"}
Nothing == -1
Seen == 0 .. MaxChanges
NoAnswers == [k \in Requests |-> Nothing]

TypeOK ==
    /\ token \in BOOLEAN
    /\ timers \subseteq Timers
    /\ statsInterval \in timers \cup {None}
    /\ isFetchingStats \in BOOLEAN
    /\ targetMaxComics \in BOOLEAN
    /\ at \in [Handlers -> {"idle", "info", "answer", "retry", "timeout"}]
    /\ poll \in [Polls -> {"idle", "flying"}]
    /\ sample \in [Polls -> [Requests -> Seen \cup {Nothing}]]
    /\ view \in [Requests -> Seen \cup {Nothing}]
    /\ changes \in Seen
    /\ full \subseteq Seen
    /\ failures \in 0 .. MaxFailures

-----------------------------------------------------------------------------
(***************************************************************************)
(* Polling.                                                                *)
(***************************************************************************)

FetchAnyway ==
    \E p \in Polls :
        /\ poll[p] = "idle"
        /\ poll' = [poll EXCEPT ![p] = "flying"]
        /\ isFetchingStats' = TRUE
        /\ UNCHANGED sample

\* fetchDbStatsAndStatus, until its requests are sent.
Fetch ==
    \/ isFetchingStats /\ UNCHANGED pollVars
    \/ /\ ~isFetchingStats
       /\ isFetchingStats' = TRUE
       /\ \E p \in Polls :
            /\ poll[p] = "idle"
            /\ poll' = [poll EXCEPT ![p] = "flying"]
       /\ UNCHANGED sample

StopForgets ==
    /\ timers' = timers \ {statsInterval}
    /\ UNCHANGED statsInterval

StopPolling ==
    /\ timers' = timers \ {statsInterval}
    /\ statsInterval' = None

StartAgain(loggedIn) ==
    IF loggedIn
    THEN /\ \E t \in Timers \ timers : timers' = timers \cup {t} /\ statsInterval' = t
         /\ Fetch
    ELSE UNCHANGED <<timerVars, pollVars>>

\* A poll at once, and one with every tick of a new interval.
StartPolling(loggedIn) ==
    IF loggedIn
    THEN /\ \E t \in Timers \ (timers \ {statsInterval}) :
                /\ timers' = (timers \ {statsInterval}) \cup {t}
                /\ statsInterval' = t
         /\ Fetch
    ELSE StopPolling /\ UNCHANGED pollVars

\* The last statement of the page's script.
Init ==
    /\ token \in BOOLEAN
    /\ IF token THEN statsInterval \in Timers /\ timers = {statsInterval}
                ELSE statsInterval = None /\ timers = {}
    /\ isFetchingStats = token
    /\ IF token THEN \E p \in Polls : poll = [q \in Polls |-> IF q = p THEN "flying" ELSE "idle"]
                ELSE poll = [q \in Polls |-> "idle"]
    /\ sample = [p \in Polls |-> NoAnswers]
    /\ targetMaxComics = FALSE
    /\ at = [h \in Handlers |-> "idle"]
    /\ view = NoAnswers
    /\ changes = 0
    /\ full \in SUBSET {0}
    /\ failures = 0

Tick(t) ==
    /\ t \in timers
    /\ IF token THEN Fetch /\ UNCHANGED timerVars
                ELSE StopPolling /\ UNCHANGED pollVars
    /\ UNCHANGED <<pageVars, at, view, services, failures>>

RefreshClicked ==
    /\ Fetch
    /\ UNCHANGED <<timerVars, pageVars, at, view, services, failures>>

\* The gateway looks at the status, or the statistics, for one of the two requests.
IsAnswered(p, k) ==
    /\ poll[p] = "flying"
    /\ sample[p][k] = Nothing
    /\ sample' = [sample EXCEPT ![p][k] = changes]
    /\ UNCHANGED <<timerVars, isFetchingStats, poll, pageVars, at, view, services, failures>>

PollOver(p) ==
    /\ isFetchingStats' = FALSE
    /\ poll' = [poll EXCEPT ![p] = "idle"]
    /\ sample' = [sample EXCEPT ![p] = NoAnswers]

Fails ==
    /\ failures < MaxFailures
    /\ failures' = failures + 1

\* Both requests are answered, some perhaps with an error status.  The gateway never
\* calls the status "updating", so only targetMaxComics tells that an update was
\* started here.
PollAnswers(p) ==
    /\ poll[p] = "flying"
    /\ \A k \in Requests : sample[p][k] # Nothing
    /\ \E shown \in SUBSET Requests :
        /\ IF shown = Requests THEN UNCHANGED failures ELSE Fails
        /\ view' = [k \in Requests |-> IF k \in shown THEN sample[p][k] ELSE view[k]]
        /\ IF "stats" \in shown /\ sample[p]["stats"] \in full /\ targetMaxComics
           THEN targetMaxComics' = FALSE /\ StopPolling
           ELSE UNCHANGED <<targetMaxComics, timerVars>>
    /\ PollOver(p)
    /\ UNCHANGED <<token, at, services>>

FailsForGood(p) ==
    /\ poll[p] = "flying"
    /\ Fails
    /\ poll' = [poll EXCEPT ![p] = "idle"]
    /\ sample' = [sample EXCEPT ![p] = NoAnswers]
    /\ UNCHANGED <<isFetchingStats, timerVars, pageVars, at, view, services>>

\* Promise.all rejects as soon as one of the requests does; what the other is
\* answered is for nobody.
PollFails(p) ==
    /\ poll[p] = "flying"
    /\ Fails
    /\ PollOver(p)
    /\ UNCHANGED <<timerVars, pageVars, at, view, services>>

PollEnds(p) == PollAnswers(p) \/ PollFails(p)

-----------------------------------------------------------------------------
(***************************************************************************)
(* The handlers.                                                           *)
(***************************************************************************)

Await(h, what) == at' = [at EXCEPT ![h] = what]

Elsewhere == UNCHANGED <<targetMaxComics, view, services, failures>>

\* switchTab
AdminOpened ==
    /\ StartPolling(token)
    /\ UNCHANGED <<token, at>> /\ Elsewhere

OtherTabOpened ==
    /\ StopPolling
    /\ UNCHANGED <<token, at, pollVars>> /\ Elsewhere

Logout ==
    /\ token' = FALSE
    /\ StopPolling
    /\ UNCHANGED pollVars

LogoutClicked ==
    /\ token
    /\ Logout
    /\ UNCHANGED at /\ Elsewhere

LoginSubmitted(h) ==
    /\ at[h] = "idle"
    /\ Await(h, "answer")
    /\ UNCHANGED <<token, timerVars, pollVars>> /\ Elsewhere

LoginAnswers(h) ==
    /\ at[h] = "answer"
    /\ Await(h, "idle")
    /\ \/ token' = TRUE /\ StartPolling(TRUE)
       \/ UNCHANGED <<token, timerVars, pollVars>>
    /\ Elsewhere

UpdateClicked(h) ==
    /\ at[h] = "idle"
    /\ Await(h, "info")
    /\ UNCHANGED <<token, timerVars, pollVars>> /\ Elsewhere

\* xkcd.com itself may say how many comics there are; then the update is sent.
InfoAnswers(h) ==
    /\ at[h] = "info"
    /\ \/ targetMaxComics' = TRUE
       \/ UNCHANGED targetMaxComics
    /\ Await(h, IF token THEN "answer" ELSE "idle")
    /\ UNCHANGED <<token, timerVars, pollVars, view, services, failures>>

UpdateAnswers(h) ==
    /\ at[h] = "answer"
    /\ Await(h, "idle")
    /\ \/ StartPolling(token) /\ UNCHANGED token
       \/ Logout                                        \* 401
       \/ UNCHANGED <<token, timerVars, pollVars>>      \* an error is only shown
    /\ Elsewhere

DropClicked(h) ==
    /\ at[h] = "idle"
    /\ StopPolling
    /\ Await(h, IF token THEN "answer" ELSE "idle")
    /\ UNCHANGED <<token, pollVars>> /\ Elsewhere

DropGivesUp(h) ==
    /\ at[h] \in {"answer", "retry"}
    /\ \/ Await(h, "timeout") /\ UNCHANGED <<token, timerVars, pollVars>>
       \/ at[h] = "answer" /\ Await(h, "retry") /\ UNCHANGED <<token, timerVars, pollVars>>
       \/ Await(h, "idle") /\ Logout
       \/ Await(h, "idle") /\ UNCHANGED <<token, timerVars, pollVars>>
    /\ Elsewhere

\* Dropped, refused as a method and sent again, unauthorized, or failed.
DropAnswers(h) ==
    /\ at[h] \in {"answer", "retry"}
    /\ \/ Await(h, "timeout") /\ UNCHANGED <<token, timerVars, pollVars>>
       \/ at[h] = "answer" /\ Await(h, "retry") /\ UNCHANGED <<token, timerVars, pollVars>>
       \/ Await(h, "idle") /\ Logout
       \/ Await(h, "idle") /\ StartPolling(token) /\ UNCHANGED token
    /\ Elsewhere

DropTimeout(h) ==
    /\ at[h] = "timeout"
    /\ Await(h, "idle")
    /\ StartPolling(token)
    /\ UNCHANGED token /\ Elsewhere

\* A comic is stored or published, or the table dropped.
ServicesChange ==
    /\ changes < MaxChanges
    /\ changes' = changes + 1
    /\ full' \in {full, full \cup {changes + 1}}
    /\ UNCHANGED <<timerVars, pollVars, pageVars, at, view, failures>>

PollStep(p) == (\E k \in Requests : IsAnswered(p, k)) \/ PollEnds(p)
LoginStep(h) == LoginSubmitted(h) \/ LoginAnswers(h)
UpdateStep(h) == UpdateClicked(h) \/ InfoAnswers(h) \/ UpdateAnswers(h)
DropStep(h) == DropClicked(h) \/ DropAnswers(h) \/ DropTimeout(h)
Click == AdminOpened \/ OtherTabOpened \/ LogoutClicked \/ RefreshClicked

Next ==
    \/ \E t \in Timers : Tick(t)
    \/ \E p \in Polls : PollStep(p)
    \/ \E h \in Logins : LoginStep(h)
    \/ \E h \in Updates : UpdateStep(h)
    \/ \E h \in Drops : DropStep(h)
    \/ Click
    \/ ServicesChange

Spec == Init /\ [][Next]_vars

(***************************************************************************)
(* Intervals tick, timeouts end, and nginx answers every request, if only  *)
(* that it got no answer.  Nobody has to click.                            *)
(***************************************************************************)
Fairness ==
    /\ WF_vars(\E t \in Timers : Tick(t))
    /\ \A p \in Polls : WF_vars(PollStep(p))
    /\ \A h \in Drops : WF_vars(DropAnswers(h) \/ DropTimeout(h))

FairSpec == Spec /\ Fairness

-----------------------------------------------------------------------------
(***************************************************************************)
(* Properties.                                                             *)
(***************************************************************************)

\* However handlers and answers interleave, at most one interval runs, the one that
\* statsInterval names and the next stop will clear, and none without a token.
OneTimer == timers # {} => timers = {statsInterval} /\ token

\* Polls that overlap with clicks, restarts of the interval and each other's
\* failures never bring an older status or older statistics back on the page.
ViewNeverRegresses == [][\A k \in Requests : view'[k] >= view[k]]_vars

\* Whatever becomes of a drop, the polling it stopped starts again, unless the
\* administrator is logged out meanwhile.
DropResumes ==
    \A h \in Drops : at[h] # "idle" ~> (statsInterval # None \/ ~token)

\* While the page polls, it ends up showing the services' last change: a failed poll
\* does not keep the following ones from being sent.
ViewCatchesUp ==
    <>[](statsInterval # None) => <>[](\A k \in Requests : view[k] = changes)
=============================================================================
