------------------------------- MODULE Lifecycle -------------------------------
(***************************************************************************)
(* How a gRPC microservice starts, serves and stops: run of search/main.go *)
(* and update/main.go, main and StartServer of words/server.go, and the    *)
(* connections they open and close.  The three follow one plan and differ  *)
(* in the steps of their boot, the signals they handle, and in what a      *)
(* failure ends.                                                           *)
(*                                                                         *)
(* A behaviour is the life of one of the services: its processes, one      *)
(* after the other, as Docker restarts them.                               *)
(***************************************************************************)
EXTENDS Naturals, Sequences

CONSTANTS
    Services,           \* the services considered
    Unary,              \* calls that end by themselves
    Streams,            \* calls of the reflection service, which their client ends
    MaxDisturbances     \* bound on the failures, kills and signals

ASSUME LifecycleAssumption ==
    /\ Services \subseteq {"search", "update", "words"}
    /\ MaxDisturbances \in Nat

VARIABLES
    service,            \* which one this is
    phase,              \* main: boot, serve, wait, close; or dead
    step,               \* the next step of the boot
    open,               \* what main has opened and not closed; Serve closes the listener
    schema,             \* golang-migrate's version of the database
    handled,            \* NotifyContext is in force
    ctxDone,            \* its context is cancelled
    server,             \* the grpc.Server
    stopper,            \* the goroutine that calls GracefulStop
    calls,              \* the RPCs the process is serving
    subscribers,        \* search: the goroutine of each subject
    suffered,           \* history: "serve" if Serve failed in this process, "broker"
                        \* if the client gave up the connection to NATS
    stopRequested,      \* docker stop was called, so Docker does not restart it
    disturbances

outside == <<service, schema, stopRequested>>
main == <<phase, step>>
context == <<handled, ctxDone>>
work == <<calls, subscribers>>
vars == <<outside, main, context, work, open, server, stopper, suffered, disturbances>>

Calls == Unary \cup Streams
Subjects == {"updated", "drop"}
Connections == {"nats", "db", "words"}

\* The steps of the boot that can fail or that others can observe.
Program == [
    search |-> <<"config", "nats", "db", "words", "listen", "notify",
                 "updated", "drop">>,
    update |-> <<"config", "nats", "db", "migrate", "apply", "xkcd", "words",
                 "service", "listen", "notify">>,
    words  |-> <<"config", "notify", "listen">> ]

\* The signals NotifyContext is called with.
Signals == [search |-> {"INT"}, update |-> {"INT"}, words |-> {"INT", "TERM"}]

\* What the deferred calls of run close; update leaves its pool to the exit.
Deferred == [search |-> Connections, update |-> {"nats", "words"}, words |-> {}]

\* What a call may use.
Needs == [search |-> Connections, update |-> Connections, words |-> {}]

TypeOK ==
    /\ service \in Services
    /\ phase \in {"boot", "serve", "wait", "close", "dead"}
    /\ step \in 1 .. Len(Program[service])
    /\ open \subseteq Connections \cup {"listener"}
    /\ schema \in {"none", "dirty", "current"}
    /\ handled \in BOOLEAN
    /\ ctxDone \in BOOLEAN
    /\ server \in {"new", "serving", "failed", "draining", "stopped"}
    /\ stopper \in {"off", "waiting", "stopping", "back", "late"}
    /\ calls \subseteq Calls
    /\ server \in {"new", "stopped"} => calls = {}
    /\ subscribers \in [Subjects -> {"off", "select", "handling", "gone"}]
    /\ suffered \subseteq {"serve", "broker"}
    /\ stopRequested \in BOOLEAN
    /\ disturbances \in 0 .. MaxDisturbances

\* A process that has just been started, or that is no more.
Fresh(p) ==
    /\ phase' = p
    /\ step' = 1
    /\ open' = {}
    /\ handled' = FALSE
    /\ ctxDone' = FALSE
    /\ server' = "new"
    /\ stopper' = "off"
    /\ calls' = {}
    /\ subscribers' = [t \in Subjects |-> "off"]
    /\ suffered' = {}

Init ==
    /\ service \in Services
    /\ schema = "none"
    /\ stopRequested = FALSE
    /\ disturbances = 0
    /\ phase = "boot"
    /\ step = 1
    /\ open = {}
    /\ handled = FALSE
    /\ ctxDone = FALSE
    /\ server = "new"
    /\ stopper = "off"
    /\ calls = {}
    /\ subscribers = [t \in Subjects |-> "off"]
    /\ suffered = {}

\* Something goes wrong, or somebody interferes.
Disturbed ==
    /\ disturbances < MaxDisturbances
    /\ disturbances' = disturbances + 1

Undisturbed == UNCHANGED disturbances

Dies == Fresh("dead") /\ UNCHANGED <<outside>>

-----------------------------------------------------------------------------
(***************************************************************************)
(* The boot.                                                               *)
(***************************************************************************)

At(s) == phase = "boot" /\ Program[service][step] = s

ServeAlone ==
    IF step < Len(Program[service])
    THEN step' = step + 1 /\ UNCHANGED <<phase, stopper>>
    ELSE phase' = "serve" /\ UNCHANGED <<step, stopper>>

\* After the last step main starts the goroutine that will stop the server, and
\* calls Serve.
Advance ==
    IF step < Len(Program[service])
    THEN /\ step' = step + 1
         /\ UNCHANGED <<phase, stopper>>
    ELSE /\ phase' = "serve"
         /\ stopper' = "waiting"
         /\ UNCHANGED step

\* run returns the error; only what it deferred until now is closed.
ReturnsError ==
    /\ phase' = "close"
    /\ UNCHANGED <<step, stopper>>

LoadConfig ==
    /\ At("config")
    /\ Undisturbed
    /\ Advance
    /\ UNCHANGED <<outside, context, work, open, server, suffered>>

\* An unreadable configuration ends search and words, an unknown log level search
\* and update, before anything is open.
ConfigFails ==
    /\ At("config")
    /\ Disturbed
    /\ Dies

Connect(c) ==
    /\ At(c)
    /\ \/ Undisturbed /\ open' = open \cup {c} /\ Advance
       \/ Disturbed /\ UNCHANGED open /\ ReturnsError
    /\ UNCHANGED <<outside, context, work, server, suffered>>

\* search panics instead of returning the error, with nothing else open.
ConnectBroker == Connect("nats")
ConnectDatabase == Connect("db")
\* The client only parses the address; it connects at its first call.
DialWords == Connect("words")

Make(s) ==
    /\ At(s)
    /\ \/ Undisturbed /\ Advance
       \/ Disturbed /\ ReturnsError
    /\ UNCHANGED <<outside, context, work, open, server, suffered>>

\* An empty URL, or a concurrency below one, is an error.
MakeClient == Make("xkcd")
MakeService == Make("service")

\* golang-migrate marks the version dirty, applies the migration and clears the
\* mark.  A version it finds dirty it refuses.
Migrate ==
    /\ At("migrate")
    /\ \/ schema = "none" /\ schema' = "dirty" /\ Undisturbed /\ Advance
       \/ schema = "current" /\ Undisturbed /\ UNCHANGED schema /\ Advance
       \/ schema = "dirty" /\ Undisturbed /\ UNCHANGED schema /\ ReturnsError
       \/ Disturbed /\ UNCHANGED schema /\ ReturnsError
    /\ UNCHANGED <<context, work, service, stopRequested, open, server, suffered>>

Apply ==
    /\ At("apply")
    /\ \/ schema' = "current" /\ Undisturbed /\ Advance
       \/ schema = "dirty" /\ Disturbed /\ UNCHANGED schema /\ ReturnsError
    /\ UNCHANGED <<context, work, service, stopRequested, open, server, suffered>>

\* StartServer logs the error and goes on without a listener.
Listen ==
    /\ At("listen")
    /\ \/ Undisturbed /\ open' = open \cup {"listener"} /\ Advance
       \/ Disturbed /\ UNCHANGED open
          /\ IF service = "words" THEN Advance ELSE ReturnsError
    /\ UNCHANGED <<outside, context, work, server, suffered>>

NotifyContext ==
    /\ At("notify")
    /\ handled' = TRUE
    /\ Undisturbed
    /\ Advance
    /\ UNCHANGED <<outside, work, open, ctxDone, server, suffered>>

\* A failed subscription, as any is on a connection given up, is only logged.
Subscribe(t) ==
    /\ At(t)
    /\ \/ /\ "nats" \in open
          /\ Undisturbed
          /\ subscribers' = [subscribers EXCEPT ![t] = "select"]
       \/ /\ IF "nats" \in open THEN Disturbed ELSE Undisturbed
          /\ UNCHANGED subscribers
    /\ Advance
    /\ UNCHANGED <<outside, context, open, server, calls, suffered>>

Boot ==
    \/ LoadConfig \/ ConfigFails
    \/ ConnectBroker \/ ConnectDatabase \/ DialWords
    \/ MakeClient \/ MakeService
    \/ Migrate
    \/ Apply
    \/ Listen
    \/ NotifyContext
    \/ \E t \in Subjects : Subscribe(t)

-----------------------------------------------------------------------------
(***************************************************************************)
(* The server.                                                             *)
(***************************************************************************)

WaitDeaf ==
    /\ phase = "serve"
    /\ server = "new"
    /\ IF "listener" \in open THEN server' = "serving" /\ UNCHANGED phase
                              ELSE phase' = "wait" /\ UNCHANGED server
    /\ Undisturbed
    /\ UNCHANGED <<outside, context, work, step, open, stopper, suffered>>

\* Serve accepts connections from now on, or dereferences a listener that is not
\* there.
StartServing ==
    /\ phase = "serve"
    /\ Undisturbed
    /\ \/ /\ "listener" \in open
          /\ server = "new"
          /\ server' = "serving"
          /\ UNCHANGED <<outside, main, context, work, open, stopper, suffered>>
       \/ "listener" \notin open /\ Dies

\* Accept fails for good.  Calls in progress, and new ones on connections that
\* exist, are served on.  run returns the error, StartServer only logs it.
ServeFails ==
    /\ phase = "serve"
    /\ server = "serving"
    /\ Disturbed
    /\ server' = "failed"
    /\ suffered' = suffered \cup {"serve"}
    /\ phase' = IF service = "words" THEN "wait" ELSE "close"
    /\ UNCHANGED <<outside, context, work, step, open, stopper>>

CallStarts(c) ==
    /\ server \in {"serving", "failed"}
    /\ c \notin calls
    /\ calls' = calls \cup {c}
    /\ Undisturbed
    /\ UNCHANGED <<outside, main, context, open, server, stopper, subscribers, suffered>>

CallEnds(c) ==
    /\ c \in calls
    /\ calls' = calls \ {c}
    /\ Undisturbed
    /\ UNCHANGED <<outside, main, context, open, server, stopper, subscribers, suffered>>

\* GracefulStop closes the listener and refuses new calls.  A server that has not
\* started yet will not start any more.
StopperWakes ==
    /\ stopper = "waiting"
    /\ ctxDone
    /\ stopper' = "stopping"
    /\ server' = IF server = "new" THEN "stopped" ELSE "draining"
    /\ Undisturbed
    /\ UNCHANGED <<outside, main, context, work, open, suffered>>

StopsAtOnce ==
    /\ server = "draining"
    /\ server' = "stopped"
    /\ Undisturbed
    /\ UNCHANGED <<outside, main, context, work, open, stopper, suffered>>

\* GracefulStop waits for the calls in progress.
Drained ==
    /\ server = "draining"
    /\ calls = {}
    /\ server' = "stopped"
    /\ Undisturbed
    /\ UNCHANGED <<outside, main, context, work, open, stopper, suffered>>

StopperReturns ==
    /\ stopper = "stopping"
    /\ server = "stopped"
    /\ stopper' = "back"
    /\ Undisturbed
    /\ UNCHANGED <<outside, main, context, work, open, server, suffered>>

\* StartServer gives GracefulStop 60 seconds.
StopTimesOut ==
    /\ service = "words"
    /\ stopper = "stopping"
    /\ stopper' = "late"
    /\ Undisturbed
    /\ UNCHANGED <<outside, main, context, work, open, server, suffered>>

ReturnsOnSignal ==
    /\ phase = "serve"
    /\ stopper # "waiting"
    /\ phase' = IF service = "words" THEN "wait" ELSE "close"
    /\ Undisturbed
    /\ UNCHANGED <<outside, context, work, step, open, server, stopper, suffered>>

\* Serve does not return before the server has stopped.
ServeReturns ==
    /\ phase = "serve"
    /\ "listener" \in open
    /\ server = "stopped"
    /\ phase' = IF service = "words" THEN "wait" ELSE "close"
    /\ Undisturbed
    /\ UNCHANGED <<outside, context, work, step, open, server, stopper, suffered>>

WaitForStopper ==
    /\ phase \in {"serve", "wait"}
    /\ service = "words"
    /\ stopper \in {"back", "late"}
    /\ phase' = "close"
    /\ Undisturbed
    /\ UNCHANGED <<outside, context, work, step, open, server, stopper, suffered>>

\* group.Wait waits for both goroutines, the one that serves and the stopper.
WaitReturns ==
    /\ phase = "wait"
    /\ stopper \in {"back", "late"}
    /\ phase' = "close"
    /\ Undisturbed
    /\ UNCHANGED <<outside, context, work, step, open, server, stopper, suffered>>

ServerWorks ==
    \/ StartServing
    \/ StopperWakes
    \/ Drained
    \/ StopperReturns
    \/ StopTimesOut
    \/ ServeReturns
    \/ WaitReturns

Server == ServerWorks \/ ServeFails

-----------------------------------------------------------------------------
(***************************************************************************)
(* The deferred calls and the exit.                                        *)
(***************************************************************************)

\* stop() cancels the context and leaves the signals to the runtime again.
StopNotify ==
    /\ phase = "close"
    /\ handled
    /\ handled' = FALSE
    /\ ctxDone' = TRUE
    /\ Undisturbed
    /\ UNCHANGED <<outside, main, work, open, server, stopper, suffered>>

OpenedBefore(c) == CASE c = "words" -> {"nats", "db"} [] c = "db" -> {"nats"} [] OTHER -> {}

\* Last opened, first closed; an error is only logged.
CloseConnection(c) ==
    /\ phase = "close"
    /\ ~handled
    /\ c \in open \cap Deferred[service]
    /\ \A d \in open \cap Deferred[service] : c \notin OpenedBefore(d)
    /\ open' = open \ {c}
    /\ Undisturbed
    /\ UNCHANGED <<outside, main, context, work, server, stopper, suffered>>

\* main returns, and with it whatever other goroutines are doing ends.
Exit ==
    /\ phase = "close"
    /\ ~handled
    /\ open \cap Deferred[service] = {}
    /\ Undisturbed
    /\ Dies

Close == StopNotify \/ (\E c \in Connections : CloseConnection(c)) \/ Exit

-----------------------------------------------------------------------------
(***************************************************************************)
(* The subscriber goroutines of search.                                    *)
(***************************************************************************)

SubscriberGoes(t, from, to) ==
    /\ subscribers[t] = from
    /\ subscribers' = [subscribers EXCEPT ![t] = to]
    /\ Undisturbed
    /\ UNCHANGED <<outside, main, context, open, server, stopper, calls, suffered>>

Handle(t) == SubscriberGoes(t, "select", "handling")
Handled(t) == SubscriberGoes(t, "handling", "select")

Unsubscribe(t) ==
    /\ ctxDone
    /\ "nats" \in open
    /\ SubscriberGoes(t, "select", "gone")

\* Unsubscribe fails on a closed connection, and its error is a panic.
UnsubscribePanics(t) ==
    /\ subscribers[t] = "select"
    /\ ctxDone
    /\ "nats" \notin open
    /\ Undisturbed
    /\ Dies

Subscriber(t) == Handle(t) \/ Handled(t) \/ Unsubscribe(t) \/ UnsubscribePanics(t)

-----------------------------------------------------------------------------
(***************************************************************************)
(* What happens to the process.                                            *)
(***************************************************************************)

\* docker stop sends TERM.  A signal nobody handles ends the process; a second one
\* to NotifyContext changes nothing.
Signal(sig) ==
    /\ phase # "dead"
    /\ Disturbed
    /\ stopRequested' = (stopRequested \/ sig = "TERM")
    /\ \/ /\ handled
          /\ sig \in Signals[service]
          /\ ctxDone' = TRUE
          /\ UNCHANGED <<main, work, open, handled, server, stopper, suffered>>
       \/ ~(handled /\ sig \in Signals[service]) /\ Fresh("dead")
    /\ UNCHANGED <<service, schema>>

Kill ==
    /\ phase # "dead"
    /\ Disturbed
    /\ Dies

\* The client gives the connection up after 60 attempts to reconnect.
BrokerGone ==
    /\ "nats" \in open
    /\ Disturbed
    /\ open' = open \ {"nats"}
    /\ suffered' = suffered \cup {"broker"}
    /\ UNCHANGED <<outside, main, context, work, server, stopper>>

\* compose: restart: unless-stopped.
Restart ==
    /\ phase = "dead"
    /\ ~stopRequested
    /\ Undisturbed
    /\ Fresh("boot")
    /\ UNCHANGED <<outside>>

Next ==
    \/ Boot
    \/ Server
    \/ \E c \in Calls : CallStarts(c) \/ CallEnds(c)
    \/ Close
    \/ \E t \in Subjects : Subscriber(t)
    \/ \E sig \in {"INT", "TERM"} : Signal(sig)
    \/ Kill
    \/ BrokerGone
    \/ Restart

Spec == Init /\ [][Next]_vars

(***************************************************************************)
(* main and the stopper run on, unary calls end, and Docker restarts what  *)
(* it was not asked to stop.  A stream ends when its client says so.       *)
(***************************************************************************)
Fairness ==
    /\ WF_vars(Boot)
    /\ WF_vars(ServerWorks)
    /\ WF_vars(Close)
    /\ WF_vars(Restart)
    /\ \A c \in Unary : WF_vars(CallEnds(c))

FairSpec == Spec /\ Fairness

-----------------------------------------------------------------------------
(***************************************************************************)
(* Properties.                                                             *)
(***************************************************************************)

\* Whatever stops the service, the connections a call uses, over a migrated
\* database, are not taken from under it, unless Serve failed or the broker's
\* connection was given up.
CallsAreServed ==
    calls # {} /\ "serve" \notin suffered =>
        /\ Needs[service] \subseteq open
                \cup (IF "broker" \in suffered THEN {"nats"} ELSE {})
        /\ service = "update" => schema = "current"

\* A call is cut short only by a kill or a signal the service does not handle,
\* or after Serve failed or the broker's connection was given up: neither the stop
\* itself, nor its timer, nor a subscriber's panic during it does that.
CutOnlyForCause ==
    [][phase' = "dead" /\ calls # {} /\ disturbances' = disturbances
          => suffered # {}]_vars

\* A signal that is handled ends the process, unless a stream is held open.
SignalStops ==
    ctxDone ~> (phase = "dead" \/ [](calls \cap Streams # {}))

\* A service that Docker keeps ends up serving, unless a migration was interrupted,
\* Serve of the words service failed, or a stream holds up the stop.
EventuallyServes ==
    \/ <>stopRequested
    \/ <>[](server = "serving")
    \/ <>[](schema = "dirty")
    \/ <>[](phase = "wait" /\ "serve" \in suffered)
    \/ <>[](ctxDone /\ calls \cap Streams # {})
=============================================================================
