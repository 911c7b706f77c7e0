-------------------------------- MODULE Gateway --------------------------------
(***************************************************************************)
(* The API gateway: its handlers and middleware (api/adapters/rest), its   *)
(* tokens (api/adapters/aaa), its clients of the other services, and the   *)
(* shutdown of main.                                                       *)
(*                                                                         *)
(* Each element of Requests is a connection that sends one request after   *)
(* the other.  A request passes its route's middleware and handler, calls  *)
(* a service and is answered; net/http sends the end of an answer once the *)
(* handler has returned, so the deferred release of a slot comes first.    *)
(* Of the update service the gateway sees what UpdateLatch promises, which *)
(* UpdateService implements.  A query's result and the status and stats    *)
(* are not told apart.                                                     *)
(***************************************************************************)
EXTENDS Integers, FiniteSets

CONSTANTS
    Requests,
    SearchConcurrency,  \* cfg.SearchConcurrency; 0: no limit
    TokenTTL,           \* cfg.TokenTTL, in ticks of the clock
    Second,             \* ticks per second
    MaxTime             \* bound on the clock

ASSUME GatewayAssumption ==
    /\ IsFiniteSet(Requests)
    /\ SearchConcurrency \in Nat
    /\ TokenTTL \in Nat
    /\ Second \in Nat \ {0}
    /\ MaxTime \in Nat

Writes == {"update", "drop"}
Routes == Writes \cup {"search", "isearch", "login", "status"}
NoToken == -1

VARIABLES
    main,       \* "serving"; "stopping": interrupted; "closed": takes no more
                \* connections; "exited"
    now,
    issued,     \* when the tokens given out were
    sema,       \* slots of the search handler taken
    running,    \* the requests whose update holds the update service's latch
    orphaned,   \* does one hold it whose caller stopped waiting?
    at,         \* where each request is
    route,
    token,      \* the token it carries: when it was issued, or none or a bad one
    valid,      \* are its parameters, its body or its credentials?
    gone,       \* did its client go away?
    reply,      \* what the service called replied
    answer,     \* its HTTP status; "empty": a 200 that no handler wrote
    \* history: whether the update service ran its update to the end, whether
    \* another update held the latch while the request was there
    completed, overlapped

latched == <<running, orphaned>>
reqVars == <<at, route, token, valid, gone, reply, answer, completed>>
vars == <<main, now, issued, sema, latched, reqVars, overlapped>>

Answers == {"200", "empty", "202", "400", "401", "500", "503", "cut"}

GatewayTypeOK ==
    /\ main \in {"serving", "stopping", "closed", "exited"}
    /\ now \in 0 .. MaxTime
    /\ issued \subseteq 0 .. MaxTime
    /\ sema \in 0 .. SearchConcurrency
    /\ running \subseteq Requests
    /\ orphaned \in BOOLEAN
    /\ at \in [Requests -> {"idle", "arrived", "waiting", "handler", "calling",
                            "running", "replied"}]
    /\ route \in [Requests -> Routes]
    /\ token \in [Requests -> issued \cup {NoToken}]
    /\ valid \in [Requests -> BOOLEAN]
    /\ gone \in [Requests -> BOOLEAN]
    /\ reply \in [Requests -> {"none", "ok", "exists", "error"}]
    /\ answer \in [Requests -> Answers \cup {"none"}]
    /\ completed \in [Requests -> BOOLEAN]
    /\ overlapped \in [Requests -> BOOLEAN]

Init ==
    /\ main = "serving"
    /\ now = 0
    /\ issued = {}
    /\ sema = 0
    /\ running = {}
    /\ orphaned = FALSE
    /\ at = [r \in Requests |-> "idle"]
    /\ route = [r \in Requests |-> "status"]
    /\ token = [r \in Requests |-> NoToken]
    /\ valid = [r \in Requests |-> TRUE]
    /\ gone = [r \in Requests |-> FALSE]
    /\ reply = [r \in Requests |-> "none"]
    /\ answer = [r \in Requests |-> "none"]
    /\ completed = [r \in Requests |-> FALSE]
    /\ overlapped = [r \in Requests |-> FALSE]

\* The request's context: its client's connection, and the signal's context, which
\* is the base context of all requests.
Cancelled(r) == gone[r] \/ main # "serving"

GoTo(r, place) == at' = [at EXCEPT ![r] = place]

\* The request reaches place and nothing else of it changes.
Moves(r, place) ==
    /\ GoTo(r, place)
    /\ UNCHANGED <<route, token, valid, gone, reply, answer, completed>>

ReleaseAlways(r) ==
    sema' = IF route[r] = "search" /\ SearchConcurrency > 0 THEN sema - 1 ELSE sema

\* Concurrency's deferred release, whatever the handler did.
ReleaseSlot(r) ==
    sema' = IF route[r] = "search" /\ at[r] # "arrived" /\ SearchConcurrency > 0
            THEN sema - 1 ELSE sema

\* The request is answered, and nothing but its answer is left of it.
Answered(r, status) ==
    /\ GoTo(r, "idle")
    /\ answer' = [answer EXCEPT ![r] = status]
    /\ route' = [route EXCEPT ![r] = "status"]
    /\ token' = [token EXCEPT ![r] = NoToken]
    /\ valid' = [valid EXCEPT ![r] = TRUE]
    /\ gone' = [gone EXCEPT ![r] = FALSE]
    /\ reply' = [reply EXCEPT ![r] = "none"]
    /\ completed' = [completed EXCEPT ![r] = FALSE]

Finish(r, status) == Answered(r, status) /\ ReleaseSlot(r)

Elsewhere == UNCHANGED <<main, now, issued, latched>>

-----------------------------------------------------------------------------
(***************************************************************************)
(* Arrival and middleware.                                                 *)
(***************************************************************************)

Arrive(r) ==
    /\ at[r] = "idle"
    /\ main \in {"serving", "stopping"}
    /\ GoTo(r, "arrived")
    /\ \E p \in Routes, ok \in BOOLEAN, t \in issued \cup {NoToken} :
        /\ p \notin Writes => t = NoToken
        /\ p \in Writes \cup {"status"} => ok
        /\ route' = [route EXCEPT ![r] = p]
        /\ valid' = [valid EXCEPT ![r] = ok]
        /\ token' = [token EXCEPT ![r] = t]
    /\ answer' = [answer EXCEPT ![r] = "none"]
    /\ UNCHANGED <<gone, reply, completed, sema>> /\ Elsewhere

ConcurrencyOneMore(r) ==
    /\ at[r] = "arrived" /\ route[r] = "search"
    /\ IF sema <= SearchConcurrency THEN Moves(r, "handler") /\ sema' = sema + 1
                                    ELSE Finish(r, "503")
    /\ Elsewhere

\* Concurrency lets the request in or refuses it at once.
Concurrency(r) ==
    /\ at[r] = "arrived" /\ route[r] = "search"
    /\ \/ /\ SearchConcurrency = 0
          /\ Moves(r, "handler") /\ UNCHANGED sema
       \/ /\ sema < SearchConcurrency
          /\ Moves(r, "handler") /\ sema' = sema + 1
       \/ /\ sema = SearchConcurrency /\ SearchConcurrency > 0
          /\ Finish(r, "503")
    /\ Elsewhere

\* Rate, with a positive cfg.SearchRate, lets the request wait for its turn; if its
\* context is cancelled first, nothing is written.
Rate(r) ==
    /\ route[r] = "isearch"
    /\ \/ at[r] = "arrived" /\ ~Cancelled(r) /\ Moves(r, "waiting") /\ UNCHANGED sema
       \/ at[r] = "waiting" /\ Moves(r, "handler") /\ UNCHANGED sema
       \/ at[r] \in {"arrived", "waiting"} /\ Cancelled(r) /\ Finish(r, "empty")
    /\ Elsewhere

\* A token's expiry, which jwt keeps in whole seconds.
Expiry(t) == ((t + TokenTTL) \div Second) * Second

AcceptsAny(t) == t # NoToken
\* Verify; tokens without the gateway's signature or subject count as none.
Accepts(t) == t # NoToken /\ now < Expiry(t)

Auth(r) ==
    /\ at[r] = "arrived" /\ route[r] \in Writes
    /\ IF Accepts(token[r]) THEN Moves(r, "calling") /\ UNCHANGED sema
                            ELSE Finish(r, "401")
    /\ Elsewhere

-----------------------------------------------------------------------------
(***************************************************************************)
(* Handlers.                                                               *)
(***************************************************************************)

\* The handlers of search and isearch check the parameters; those of status and
\* stats have none.
CheckParameters(r) ==
    /\ \/ at[r] = "handler"
       \/ at[r] = "arrived" /\ route[r] = "status"
    /\ IF valid[r] THEN Moves(r, "calling") /\ UNCHANGED sema
                   ELSE Finish(r, "400")
    /\ Elsewhere

Login(r) ==
    /\ at[r] = "arrived" /\ route[r] = "login"
    /\ \/ /\ valid[r]
          /\ issued' = issued \cup {now}
          /\ Finish(r, "200")
       \/ /\ ~valid[r]
          /\ \E status \in {"400", "401"} : Finish(r, status)
          /\ UNCHANGED issued
    /\ UNCHANGED <<main, now, latched>>

Replies(r, said, done) ==
    /\ GoTo(r, "replied")
    /\ reply' = [reply EXCEPT ![r] = said]
    /\ completed' = [completed EXCEPT ![r] = done]
    /\ UNCHANGED <<route, token, valid, gone, answer, sema>>

\* A call of the search service, of Stats, Status or Drop returns.
ServiceReplies(r) ==
    /\ at[r] = "calling" /\ route[r] # "update"
    /\ \E said \in {"ok", "error"} : Replies(r, said, FALSE)
    /\ Elsewhere

\* The update service, as it looks to the requests that call it.
Latch == INSTANCE UpdateLatch WITH Calls <- Requests

\* An update reaches the update service and takes its latch or is refused.
UpdateBegins(r) ==
    /\ at[r] = "calling" /\ route[r] = "update"
    /\ \/ Latch!Takes(r) /\ Moves(r, "running") /\ UNCHANGED sema
       \/ Latch!Refuses(r) /\ Replies(r, "exists", FALSE)
    /\ UNCHANGED <<main, now, issued>>

UpdateEnds(r) ==
    /\ at[r] = "running"
    /\ \E said \in {"ok", "error"} :
        Latch!Ends(r, said) /\ Replies(r, said, said = "ok")
    /\ UNCHANGED <<main, now, issued>>

\* The call's context is cancelled or its connection breaks: the client stops waiting.
CallFails(r) ==
    /\ at[r] \in {"calling", "running"}
    /\ Replies(r, "error", FALSE)
    /\ IF route[r] = "update" THEN Latch!Abandons(r) ELSE UNCHANGED latched
    /\ UNCHANGED <<main, now, issued>>

OrphanEnds ==
    /\ Latch!OrphanEnds
    /\ UNCHANGED <<main, now, issued, sema, reqVars>>

ErrorIsExists(said) == IF said = "ok" THEN "200" ELSE "202"

\* What the handlers make of a service's reply.
StatusFor(said) == CASE said = "ok" -> "200"
                     [] said = "exists" -> "202"
                     [] said = "error" -> "500"

AnswerReplyOnly(r) ==
    /\ at[r] = "replied"
    /\ Answered(r, StatusFor(reply[r]))
    /\ sema' = IF route[r] = "search" /\ reply[r] = "ok" /\ SearchConcurrency > 0
               THEN sema - 1 ELSE sema
    /\ Elsewhere

AnswerReply(r) ==
    /\ at[r] = "replied"
    /\ Finish(r, StatusFor(reply[r]))
    /\ Elsewhere

ClientLeaves(r) ==
    /\ at[r] # "idle" /\ ~gone[r]
    /\ gone' = [gone EXCEPT ![r] = TRUE]
    /\ UNCHANGED <<at, route, token, valid, reply, answer, completed, sema>>
    /\ Elsewhere

-----------------------------------------------------------------------------
(***************************************************************************)
(* main.  Shutdown waits for the requests in progress; ListenAndServe      *)
(* returns as soon as Shutdown is called, and main with it.                *)
(***************************************************************************)

Interrupt ==
    /\ main = "serving"
    /\ main' = "stopping"
    /\ UNCHANGED <<now, issued, sema, latched, reqVars>>

Shutdown ==
    /\ main = "stopping"
    /\ main' = "closed"
    /\ UNCHANGED <<now, issued, sema, latched, reqVars>>

\* The process ends; what is in progress is cut off, and an update loses its caller.
MainReturns ==
    /\ main = "closed"
    /\ main' = "exited"
    /\ answer' = [r \in Requests |-> IF at[r] = "idle" THEN answer[r] ELSE "cut"]
    /\ at' = [r \in Requests |-> "idle"]
    /\ route' = [r \in Requests |-> "status"]
    /\ token' = [r \in Requests |-> NoToken]
    /\ valid' = [r \in Requests |-> TRUE]
    /\ gone' = [r \in Requests |-> FALSE]
    /\ reply' = [r \in Requests |-> "none"]
    /\ completed' = [r \in Requests |-> FALSE]
    /\ sema' = 0
    /\ running' = {}
    /\ orphaned' = (orphaned \/ running # {})
    /\ UNCHANGED <<now, issued>>

Tick ==
    /\ now < MaxTime
    /\ now' = now + 1
    /\ UNCHANGED <<main, issued, sema, latched, reqVars>>

Serve(r) ==
    \/ Concurrency(r) \/ Rate(r) \/ Auth(r) \/ CheckParameters(r) \/ Login(r)
    \/ AnswerReply(r)

Service(r) == ServiceReplies(r) \/ UpdateBegins(r) \/ UpdateEnds(r) \/ CallFails(r)

\* Another update holds the latch while an update is in progress.
Overlap ==
    overlapped' = [r \in Requests |->
        /\ at'[r] # "idle"
        /\ overlapped[r] \/ (route[r] = "update" /\ (orphaned \/ running \ {r} # {}))]

Next ==
    /\ \/ \E r \in Requests : Arrive(r) \/ Serve(r) \/ Service(r) \/ ClientLeaves(r)
       \/ OrphanEnds \/ Interrupt \/ Shutdown \/ MainReturns \/ Tick
    /\ Overlap

Spec == Init /\ [][Next]_vars

-----------------------------------------------------------------------------
(***************************************************************************)
(* Properties.                                                             *)
(***************************************************************************)

InSearch == {r \in Requests : route[r] = "search" /\ at[r] \notin {"idle", "arrived"}}

\* No more searches are in progress than the limit allows, and the search service is
\* called for no others.
SearchesBounded ==
    SearchConcurrency > 0 => Cardinality(InSearch) <= SearchConcurrency

\* A search is refused only while as many others as the limit allows are in
\* progress: whatever became of the searches before it, none kept its slot.
RefusedOnlyIfFull ==
    [][\A r \in Requests :
          answer[r] # "503" /\ answer'[r] = "503" =>
              Cardinality(InSearch) = SearchConcurrency]_vars

\* The answer to an update tells the truth: 200 only if the update ran to its end,
\* 202 only if another one held the latch while this request was in progress.
UpdateAnswersTrue ==
    [][\A r \in Requests :
          route[r] = "update" /\ at[r] # "idle" /\ at'[r] = "idle" =>
              /\ answer'[r] = "200" => completed[r]
              /\ answer'[r] = "202" => overlapped[r]]_vars

\* A write passes only with a token that login gave out less than TokenTTL ago, and
\* a token is refused at most a second early.
TokenLifetime ==
    [][\A r \in Requests :
          at[r] = "arrived" /\ route[r] \in Writes /\ at'[r] # at[r] /\ main' = main =>
              /\ at'[r] = "calling" =>
                     token[r] \in issued /\ now < token[r] + TokenTTL
              /\ at'[r] = "idle" /\ token[r] \in issued =>
                     now > token[r] + TokenTTL - Second]_vars
=============================================================================
