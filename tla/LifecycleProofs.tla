---------------------------- MODULE LifecycleProofs ----------------------------
(***************************************************************************)
(* Theorems about Lifecycle, for any calls and any number of disturbances. *)
(*                                                                         *)
(* What keeps calls and connections apart is the order of main: it closes  *)
(* connections only after Serve has returned, and Serve returns only once  *)
(* the server has stopped, that is once no call is left, or has failed.    *)
(***************************************************************************)
EXTENDS Lifecycle, Integers, TLAPS

LEMMA Programs ==
    /\ Len(Program["search"]) = 8 /\ Len(Program["update"]) = 10 /\ Len(Program["words"]) = 3
    /\ Program["search"][1] = "config" /\ Program["search"][2] = "nats"
    /\ Program["search"][3] = "db" /\ Program["search"][4] = "words"
    /\ Program["search"][5] = "listen" /\ Program["search"][6] = "notify"
    /\ Program["search"][7] = "updated" /\ Program["search"][8] = "drop"
    /\ Program["update"][1] = "config" /\ Program["update"][2] = "nats"
    /\ Program["update"][3] = "db" /\ Program["update"][4] = "migrate"
    /\ Program["update"][5] = "apply" /\ Program["update"][6] = "xkcd"
    /\ Program["update"][7] = "words" /\ Program["update"][8] = "service"
    /\ Program["update"][9] = "listen" /\ Program["update"][10] = "notify"
    /\ Program["words"][1] = "config" /\ Program["words"][2] = "notify"
    /\ Program["words"][3] = "listen"
BY DEF Program

\* What the steps of the boot before this one have opened.
Opened(c) ==
    \/ c \in open
    \/ c = "nats" /\ "broker" \in suffered

Prepared ==
    /\ \A c \in Needs[service] : Opened(c)
    /\ service = "update" => schema = "current"

BootInv ==
    phase = "boot" =>
        /\ server = "new" /\ stopper = "off"
        /\ service \in {"search", "update"} /\ step > 2 => Opened("nats")
        /\ service \in {"search", "update"} /\ step > 3 => Opened("db")
        /\ service = "search" /\ step > 4 => Opened("words")
        /\ service = "update" /\ step > 5 => schema = "current"
        /\ service = "update" /\ step > 7 => Opened("words")

ServeInv ==
    /\ phase = "dead" => server = "new" /\ stopper = "off"
    /\ phase = "serve" => Prepared
    /\ calls # {} => server \in {"serving", "failed", "draining"}
    /\ server \in {"serving", "failed", "draining"} => "listener" \in open
    /\ phase \in {"wait", "close"} /\ server \in {"serving", "failed", "draining"}
          => "serve" \in suffered
    /\ stopper = "waiting" => server \in {"new", "serving", "failed"}
    /\ service # "search" => \A t \in Subjects : subscribers[t] = "off"

LInv == TypeOK /\ BootInv /\ ServeInv

LEMMA Steps == \A s \in {"search", "update", "words"} : Len(Program[s]) \in 3 .. 10
BY Programs

LEMMA FirstStep ==
    ASSUME NEW s \in {"search", "update", "words"}
    PROVE  1 \in 1 .. Len(Program[s])
<1>1. ASSUME NEW n \in 3 .. 10 PROVE 1 \in 1 .. n
  OBVIOUS
<1> QED BY <1>1, Steps

LEMMA LInit == Init => LInv
<1> SUFFICES ASSUME Init PROVE LInv
  OBVIOUS
<1>1. service \in {"search", "update", "words"} /\ Len(Program[service]) \in 3 .. 10
  BY Steps, LifecycleAssumption DEF Init
<1>2. TypeOK
  <2>1. 1 \in 1 .. Len(Program[service]) /\ 0 \in 0 .. MaxDisturbances
    BY <1>1, FirstStep, LifecycleAssumption
  <2> QED BY <2>1 DEF Init, TypeOK
<1>3. BootInv
  BY DEF Init, BootInv
<1>4. ServeInv
  BY DEF Init, ServeInv
<1> QED BY <1>2, <1>3, <1>4 DEF LInv

\* A new process, and one that is gone, have nothing.
LEMMA LFresh ==
    ASSUME TypeOK, NEW p \in {"boot", "dead"}, Fresh(p), UNCHANGED <<service, schema>>,
           stopRequested' \in BOOLEAN, disturbances' \in 0 .. MaxDisturbances
    PROVE  LInv'
<1>1. service \in {"search", "update", "words"} /\ Len(Program[service]) \in 3 .. 10
  BY Steps, LifecycleAssumption DEF TypeOK
<1>2. TypeOK'
  <2>1. 1 \in 1 .. Len(Program[service])
    BY <1>1, FirstStep
  <2> QED BY <2>1 DEF Fresh, TypeOK
<1>3. BootInv'
  BY DEF Fresh, BootInv
<1>4. ServeInv'
  BY DEF Fresh, ServeInv
<1> QED BY <1>2, <1>3, <1>4 DEF LInv

LEMMA Counted ==
    ASSUME TypeOK, Disturbed \/ Undisturbed
    PROVE  disturbances' \in 0 .. MaxDisturbances
BY LifecycleAssumption DEF TypeOK, Disturbed, Undisturbed

LEMMA LDies ==
    ASSUME TypeOK, Dies, Disturbed \/ Undisturbed
    PROVE  LInv'
<1>1. disturbances' \in 0 .. MaxDisturbances
  BY Counted
<1> QED BY <1>1, LFresh DEF Dies, outside, TypeOK

-----------------------------------------------------------------------------
(***************************************************************************)
(* The boot.                                                               *)
(***************************************************************************)

\* A step of the boot that goes on to the next, or returns an error.
LEMMA BootTypes ==
    ASSUME TypeOK, phase = "boot", Advance \/ ReturnsError
    PROVE  /\ phase' \in {"boot", "serve", "close"}
           /\ step' \in 1 .. Len(Program[service])
           /\ stopper' \in {stopper, "waiting"}
           /\ phase' = "boot" => step' = step + 1 /\ stopper' = stopper
           /\ phase' = "serve" => step = Len(Program[service])
<1>1. service \in {"search", "update", "words"} /\ Len(Program[service]) \in 3 .. 10
  BY Steps, LifecycleAssumption DEF TypeOK
<1> QED BY <1>1 DEF Advance, ReturnsError, TypeOK

\* What each step must leave behind.
StepDone ==
    /\ At("nats") /\ phase' # "close" => "nats" \in open'
    /\ At("db") /\ phase' # "close" => "db" \in open'
    /\ At("words") /\ phase' # "close" => "words" \in open'
    /\ At("apply") /\ phase' # "close" => schema' = "current"
    /\ open \subseteq open' /\ suffered' = suffered /\ service' = service
    /\ schema = "current" => schema' = "current"

LEMMA BootAdvances ==
    ASSUME LInv, phase = "boot", Advance \/ ReturnsError, StepDone, server' = server
    PROVE  BootInv' /\ (phase' = "serve" => Prepared')
<1>1. CASE service = "search"
  <2>1. Len(Program[service]) = 8 /\ step \in 1 .. 8
    BY <1>1, Programs DEF LInv, TypeOK
  <2>2. /\ step = 2 => At("nats")
        /\ step = 3 => At("db")
        /\ step = 4 => At("words")
    BY <1>1, Programs DEF At
  <2>3. /\ step > 1 /\ phase' # "close" => Opened("nats")'
        /\ step > 2 /\ phase' # "close" => Opened("db")'
        /\ step > 3 /\ phase' # "close" => Opened("words")'
    BY <1>1, <2>1, <2>2 DEF LInv, BootInv, StepDone, Opened
  <2>4. BootInv'
    BY <1>1, <2>1, <2>3, BootTypes DEF LInv, BootInv, StepDone
  <2>5. ASSUME phase' = "serve" PROVE Prepared'
    <3>1. step = 8
      BY <2>1, <2>5, BootTypes DEF LInv
    <3> QED BY <1>1, <2>3, <2>5, <3>1 DEF Prepared, Needs, Connections, StepDone
  <2> QED BY <2>4, <2>5
<1>2. CASE service = "update"
  <2>1. Len(Program[service]) = 10 /\ step \in 1 .. 10
    BY <1>2, Programs DEF LInv, TypeOK
  <2>2. /\ step = 2 => At("nats")
        /\ step = 3 => At("db")
        /\ step = 5 => At("apply")
        /\ step = 7 => At("words")
    BY <1>2, Programs DEF At
  <2>3. /\ step > 1 /\ phase' # "close" => Opened("nats")'
        /\ step > 2 /\ phase' # "close" => Opened("db")'
        /\ step > 4 /\ phase' # "close" => schema' = "current"
        /\ step > 6 /\ phase' # "close" => Opened("words")'
    BY <1>2, <2>1, <2>2 DEF LInv, BootInv, StepDone, Opened
  <2>4. BootInv'
    BY <1>2, <2>1, <2>3, BootTypes DEF LInv, BootInv, StepDone
  <2>5. ASSUME phase' = "serve" PROVE Prepared'
    <3>1. step = 10
      BY <2>1, <2>5, BootTypes DEF LInv
    <3> QED BY <1>2, <2>3, <2>5, <3>1 DEF Prepared, Needs, Connections, StepDone
  <2> QED BY <2>4, <2>5
<1>3. CASE service = "words"
  <2>1. BootInv'
    BY <1>3, BootTypes DEF LInv, BootInv, StepDone
  <2>2. Prepared'
    BY <1>3 DEF Prepared, Needs, StepDone
  <2> QED BY <2>1, <2>2
<1> QED BY <1>1, <1>2, <1>3, LifecycleAssumption DEF LInv, TypeOK

\* The conjuncts of TypeOK a step of the boot can disturb.
LEMMA BootKeeps ==
    ASSUME LInv, phase = "boot", Advance \/ ReturnsError, StepDone,
           Disturbed \/ Undisturbed,
           UNCHANGED <<stopRequested, ctxDone, server, calls>>,
           handled' \in BOOLEAN,
           open' \subseteq Connections \cup {"listener"},
           schema' \in {"none", "dirty", "current"},
           subscribers' \in [Subjects -> {"off", "select", "handling", "gone"}],
           service # "search" => subscribers' = subscribers
    PROVE  LInv'
<1>1. TypeOK'
  BY BootTypes, Counted DEF LInv, TypeOK, StepDone
<1>2. BootInv' /\ (phase' = "serve" => Prepared')
  BY BootAdvances
<1>3. server' = "new" /\ phase' # "dead"
  BY BootTypes DEF LInv, BootInv
<1>4. calls' = {} /\ (service' # "search" => \A t \in Subjects : subscribers'[t] = "off")
  BY <1>3 DEF LInv, ServeInv, StepDone
<1>5. ServeInv'
  BY <1>2, <1>3, <1>4 DEF ServeInv
<1> QED BY <1>1, <1>2, <1>5 DEF LInv

LEMMA LBoot == LInv /\ Boot => LInv'
<1> SUFFICES ASSUME LInv, Boot PROVE LInv'
  OBVIOUS
<1> USE DEF outside, context, work
<1>1. CASE LoadConfig
  <2>1. StepDone
    BY <1>1 DEF LoadConfig, At, StepDone
  <2> QED BY <1>1, <2>1, BootKeeps DEF LoadConfig, At, LInv, TypeOK
<1>2. CASE ConfigFails
  BY <1>2, LDies DEF ConfigFails, LInv
<1>3. ASSUME NEW c \in Connections, Connect(c) PROVE LInv'
  <2>1. phase = "boot" /\ (Advance \/ ReturnsError) /\ (Disturbed \/ Undisturbed)
    BY <1>3 DEF Connect, At
  <2>2. phase' # "close" => c \in open'
    BY <1>3, <2>1 DEF Connect, ReturnsError
  <2>3. StepDone
    BY <1>3, <2>2 DEF Connect, At, StepDone, Connections
  <2> QED BY <1>3, <2>1, <2>3, BootKeeps DEF Connect, LInv, TypeOK
<1>4. ASSUME NEW s \in {"xkcd", "service"}, Make(s) PROVE LInv'
  <2>1. StepDone
    BY <1>4 DEF Make, At, StepDone
  <2>2. phase = "boot" /\ (Advance \/ ReturnsError) /\ (Disturbed \/ Undisturbed)
    BY <1>4 DEF Make, At
  <2> QED BY <1>4, <2>1, <2>2, BootKeeps DEF Make, LInv, TypeOK
<1>5. CASE Migrate
  <2>1. phase = "boot" /\ (Advance \/ ReturnsError) /\ (Disturbed \/ Undisturbed)
    BY <1>5 DEF Migrate, At
  <2>2. StepDone
    BY <1>5 DEF Migrate, At, StepDone
  <2> QED BY <1>5, <2>1, <2>2, BootKeeps DEF Migrate, LInv, TypeOK
<1>6. CASE Apply
  <2>1. phase = "boot" /\ (Advance \/ ReturnsError) /\ (Disturbed \/ Undisturbed)
    BY <1>6 DEF Apply, At
  <2>2. phase' # "close" => schema' = "current"
    BY <1>6 DEF Apply, ReturnsError
  <2>3. StepDone
    BY <1>6, <2>2 DEF Apply, At, StepDone
  <2> QED BY <1>6, <2>1, <2>3, BootKeeps DEF Apply, LInv, TypeOK
<1>7. CASE Listen
  <2>1. phase = "boot" /\ (Advance \/ ReturnsError) /\ (Disturbed \/ Undisturbed)
    BY <1>7 DEF Listen, At
  <2>2. StepDone
    BY <1>7 DEF Listen, At, StepDone
  <2> QED BY <1>7, <2>1, <2>2, BootKeeps DEF Listen, LInv, TypeOK
<1>8. CASE NotifyContext
  <2>1. StepDone
    BY <1>8 DEF NotifyContext, At, StepDone
  <2> QED BY <1>8, <2>1, BootKeeps DEF NotifyContext, At, LInv, TypeOK
<1>9. ASSUME NEW t \in Subjects, Subscribe(t) PROVE LInv'
  <2>1. phase = "boot" /\ Advance /\ (Disturbed \/ Undisturbed)
    BY <1>9 DEF Subscribe, At
  <2>2. StepDone
    BY <1>9 DEF Subscribe, At, StepDone, Subjects
  <2>3. service = "search"
    <3>1. service \in {"search", "update", "words"} /\ step \in 1 .. Len(Program[service])
      BY LifecycleAssumption DEF LInv, TypeOK
    <3>2. Program[service][step] \in {"updated", "drop"}
      BY <1>9 DEF Subscribe, At, Subjects
    <3>3. CASE service = "update"
      <4>1. step \in 1 .. 10
        BY <3>1, <3>3, Programs
      <4> QED BY <3>2, <3>3, <4>1, Programs
    <3>4. CASE service = "words"
      <4>1. step \in 1 .. 3
        BY <3>1, <3>4, Programs
      <4> QED BY <3>2, <3>4, <4>1, Programs
    <3> QED BY <3>1, <3>3, <3>4
  <2> QED BY <1>9, <2>1, <2>2, <2>3, BootKeeps DEF Subscribe, LInv, TypeOK
<1> QED BY <1>1, <1>2, <1>3, <1>4, <1>5, <1>6, <1>7, <1>8, <1>9
        DEF Boot, ConnectBroker, ConnectDatabase, DialWords, Connections, MakeClient, MakeService

-----------------------------------------------------------------------------
(***************************************************************************)
(* The server, the deferred calls and what happens to the process.         *)
(***************************************************************************)

LEMMA LServer == LInv /\ Server => LInv'
<1> SUFFICES ASSUME LInv, Server PROVE LInv'
  OBVIOUS
<1> USE DEF outside, main, context, work
<1>0. TypeOK /\ BootInv /\ ServeInv
  BY DEF LInv
<1>1. CASE StartServing
  <2>1. CASE Dies
    BY <1>0, <1>1, <2>1, LDies DEF StartServing
  <2>2. CASE ~Dies
    <3>1. /\ phase = "serve" /\ "listener" \in open /\ server' = "serving" /\ Undisturbed
          /\ UNCHANGED <<outside, main, context, work, open, stopper, suffered>>
      BY <1>1, <2>2 DEF StartServing
    <3>2. TypeOK' /\ BootInv'
      BY <1>0, <3>1 DEF TypeOK, BootInv, Undisturbed
    <3>3. ServeInv'
      BY <1>0, <3>1 DEF ServeInv, Prepared, Opened
    <3> QED BY <3>2, <3>3 DEF LInv
  <2> QED BY <2>1, <2>2
<1>2. CASE ServeFails
  <2>1. TypeOK' /\ BootInv'
    BY <1>0, <1>2, Counted DEF ServeFails, TypeOK, BootInv
  <2>2. ServeInv'
    BY <1>0, <1>2 DEF ServeFails, ServeInv
  <2> QED BY <2>1, <2>2 DEF LInv
<1>3. CASE StopperWakes
  <2>1. phase # "boot" /\ phase # "dead"
    BY <1>0, <1>3 DEF StopperWakes, BootInv, ServeInv
  <2>2. TypeOK' /\ BootInv'
    BY <1>0, <1>3, <2>1 DEF StopperWakes, TypeOK, BootInv, Undisturbed
  <2>3. server = "new" => calls = {}
    BY <1>0 DEF ServeInv
  <2>4. ServeInv'
    BY <1>0, <1>3, <2>1, <2>3 DEF StopperWakes, ServeInv, Prepared, Opened, TypeOK
  <2> QED BY <2>2, <2>4 DEF LInv
<1>4. CASE Drained
  <2>1. TypeOK' /\ BootInv'
    BY <1>0, <1>4 DEF Drained, TypeOK, BootInv, Undisturbed
  <2>2. ServeInv'
    BY <1>0, <1>4 DEF Drained, ServeInv, Prepared, Opened
  <2> QED BY <2>1, <2>2 DEF LInv
<1>5. CASE StopperReturns \/ StopTimesOut
  <2>1. TypeOK' /\ BootInv'
    BY <1>0, <1>5 DEF StopperReturns, StopTimesOut, TypeOK, BootInv, Undisturbed
  <2>2. ServeInv'
    BY <1>0, <1>5 DEF StopperReturns, StopTimesOut, ServeInv, BootInv, Prepared, Opened
  <2> QED BY <2>1, <2>2 DEF LInv
<1>6. CASE ServeReturns \/ WaitReturns
  <2>1. TypeOK' /\ BootInv'
    BY <1>0, <1>6 DEF ServeReturns, WaitReturns, TypeOK, BootInv, Undisturbed
  <2>2. ServeInv'
    BY <1>0, <1>6 DEF ServeReturns, WaitReturns, ServeInv
  <2> QED BY <2>1, <2>2 DEF LInv
<1> QED BY <1>1, <1>2, <1>3, <1>4, <1>5, <1>6 DEF Server, ServerWorks

LEMMA LCalls == ASSUME LInv, NEW c \in Calls, CallStarts(c) \/ CallEnds(c) PROVE LInv'
<1> USE DEF outside, main, context
<1>1. TypeOK' /\ BootInv'
  <2>1. calls' \subseteq Calls
    BY DEF CallStarts, CallEnds, LInv, TypeOK
  <2>2. UNCHANGED <<outside, main, context, open, server, stopper, subscribers, suffered,
                    disturbances>>
    BY DEF CallStarts, CallEnds, Undisturbed
  <2>3. server \in {"new", "stopped"} => calls' = {}
    BY DEF CallStarts, CallEnds, LInv, TypeOK
  <2> QED BY <2>1, <2>2, <2>3 DEF LInv, TypeOK, BootInv, Opened
<1>2. ServeInv'
  <2>1. calls' # {} => server' \in {"serving", "failed", "draining"}
    BY DEF CallStarts, CallEnds, LInv, ServeInv
  <2> QED BY <2>1 DEF CallStarts, CallEnds, LInv, ServeInv, Prepared, Opened
<1> QED BY <1>1, <1>2 DEF LInv

LEMMA LClose == LInv /\ Close => LInv'
<1> SUFFICES ASSUME LInv, Close PROVE LInv'
  OBVIOUS
<1> USE DEF outside, main, context, work
<1>1. CASE StopNotify
  BY <1>1 DEF StopNotify, LInv, TypeOK, BootInv, ServeInv, Undisturbed
<1>2. ASSUME NEW c \in Connections, CloseConnection(c) PROVE LInv'
  BY <1>2 DEF CloseConnection, LInv, TypeOK, BootInv, ServeInv, Undisturbed, Connections
<1>3. CASE Exit
  BY <1>3, LDies DEF Exit, LInv
<1> QED BY <1>1, <1>2, <1>3 DEF Close

LEMMA LSubscriber == ASSUME LInv, NEW t \in Subjects, Subscriber(t) PROVE LInv'
<1> USE DEF outside, main, context
<1>1. CASE UnsubscribePanics(t)
  BY <1>1, LDies DEF UnsubscribePanics, LInv
<1>2. ASSUME NEW a \in {"select", "handling"}, NEW b \in {"select", "handling", "gone"},
             SubscriberGoes(t, a, b)
      PROVE  LInv'
  <2>1. TypeOK' /\ BootInv'
    BY <1>2 DEF SubscriberGoes, LInv, TypeOK, BootInv, Opened, Undisturbed
  <2>2. service = "search"
    BY <1>2 DEF SubscriberGoes, LInv, ServeInv
  <2>3. ServeInv'
    BY <1>2, <2>2 DEF SubscriberGoes, LInv, ServeInv, Prepared, Opened
  <2> QED BY <2>1, <2>3 DEF LInv
<1> QED BY <1>1, <1>2 DEF Subscriber, Handle, Handled, Unsubscribe

LEMMA LEnvironment ==
    ASSUME LInv, \/ \E sig \in {"INT", "TERM"} : Signal(sig)
                 \/ Kill \/ BrokerGone \/ Restart
    PROVE  LInv'
<1> USE DEF outside, main, context, work
<1>1. ASSUME NEW sig \in {"INT", "TERM"}, Signal(sig) PROVE LInv'
  <2>1. disturbances' \in 0 .. MaxDisturbances /\ stopRequested' \in BOOLEAN
    BY <1>1, Counted DEF Signal, LInv, TypeOK
  <2>2. CASE Fresh("dead")
    BY <1>1, <2>1, <2>2, LFresh DEF Signal, LInv
  <2>3. CASE ~Fresh("dead")
    <3>1. /\ ctxDone' = TRUE
          /\ UNCHANGED <<service, schema, main, work, open, handled, server, stopper, suffered>>
      BY <1>1, <2>3 DEF Signal
    <3>2. TypeOK' /\ BootInv'
      BY <2>1, <3>1 DEF LInv, TypeOK, BootInv, Opened
    <3>3. ServeInv'
      BY <3>1 DEF LInv, ServeInv, Prepared, Opened
    <3> QED BY <3>2, <3>3 DEF LInv
  <2> QED BY <2>2, <2>3
<1>2. CASE Kill
  BY <1>2, LDies DEF Kill, LInv
<1>3. CASE BrokerGone
  <2>1. TypeOK'
    BY <1>3, Counted DEF BrokerGone, LInv, TypeOK
  <2>2. \A c \in Connections : Opened(c) => Opened(c)'
    BY <1>3 DEF BrokerGone, Opened
  <2>3. BootInv'
    BY <1>3, <2>2 DEF BrokerGone, LInv, BootInv, Connections
  <2>4. Needs[service] \subseteq Connections
    BY LifecycleAssumption DEF Needs, LInv, TypeOK
  <2>5. ServeInv'
    BY <1>3, <2>2, <2>4 DEF BrokerGone, LInv, ServeInv, Prepared
  <2> QED BY <2>1, <2>3, <2>5 DEF LInv
<1>4. CASE Restart
  <2>1. disturbances' \in 0 .. MaxDisturbances /\ stopRequested' \in BOOLEAN
    BY <1>4, Counted DEF Restart, LInv, TypeOK
  <2> QED BY <1>4, <2>1, LFresh DEF Restart, LInv
<1> QED BY <1>1, <1>2, <1>3, <1>4

LEMMA LStep == LInv /\ [Next]_vars => LInv'
<1> SUFFICES ASSUME LInv, [Next]_vars PROVE LInv'
  OBVIOUS
<1>1. CASE UNCHANGED vars
  BY <1>1 DEF vars, outside, main, context, work, LInv, TypeOK, BootInv, ServeInv, Prepared,
              Opened
<1>2. CASE Next
  BY <1>2, LBoot, LServer, LCalls, LClose, LSubscriber, LEnvironment DEF Next
<1> QED BY <1>1, <1>2

-----------------------------------------------------------------------------
(***************************************************************************)
(* The theorems.                                                           *)
(***************************************************************************)

\* The variables of a service's life keep their types; no boot runs past its last
\* step.
THEOREM TypeCorrect == Spec => []TypeOK
<1>1. LInv => TypeOK
  BY DEF LInv
<1> QED BY <1>1, LInit, LStep, PTL DEF Spec

\* However the service comes to its end, no call loses the connections it uses
\* while it runs, unless Serve failed or the broker's connection was given up.
THEOREM CallsServed == Spec => []CallsAreServed
<1>1. LInv => CallsAreServed
  <2> SUFFICES ASSUME LInv, calls # {}, "serve" \notin suffered
               PROVE  Prepared
    BY DEF CallsAreServed, Prepared, Opened
  <2>1. server \in {"serving", "failed", "draining"}
    BY DEF LInv, ServeInv
  <2>2. phase = "serve"
    BY <2>1 DEF LInv, TypeOK, BootInv, ServeInv
  <2> QED BY <2>2 DEF LInv, ServeInv
<1> QED BY <1>1, LInit, LStep, PTL DEF Spec

\* Neither a graceful stop, nor its timer, nor a subscriber that panics during it
\* cuts a call short.
THEOREM CallsCutForCause == Spec => CutOnlyForCause
<1>1. LInv /\ [Next]_vars
        => [phase' = "dead" /\ calls # {} /\ disturbances' = disturbances
               => suffered # {}]_vars
  <2> SUFFICES ASSUME LInv, Next, phase' = "dead", calls # {}, suffered = {},
                      disturbances' = disturbances
               PROVE  FALSE
    OBVIOUS
  <2>1. server \in {"serving", "failed", "draining"} /\ "listener" \in open
    BY DEF LInv, ServeInv
  <2>2. phase = "serve" /\ Prepared
    BY <2>1 DEF LInv, TypeOK, BootInv, ServeInv
  <2>3. disturbances \in Nat /\ ~Disturbed
    BY LifecycleAssumption DEF LInv, TypeOK, Disturbed
  <2>4. ASSUME NEW t \in Subjects, UnsubscribePanics(t) PROVE FALSE
    <3>1. service = "search"
      BY <2>4 DEF UnsubscribePanics, LInv, ServeInv
    <3> QED BY <2>2, <2>4, <3>1 DEF UnsubscribePanics, Prepared, Needs, Connections, Opened
  <2>5. UNCHANGED phase
    BY <2>1, <2>2, <2>3, <2>4
       DEF Next, Boot, LoadConfig, ConfigFails, ConnectBroker, ConnectDatabase,
           DialWords, Connect, Make, MakeClient, MakeService, Migrate, Apply, Listen, NotifyContext, Subscribe,
           At, Server, ServerWorks, StartServing, ServeFails, StopperWakes, Drained,
           StopperReturns, StopTimesOut, ServeReturns, WaitReturns, CallStarts, CallEnds,
           Close, StopNotify, CloseConnection, Exit, Subscriber, Handle, Handled,
           Unsubscribe, SubscriberGoes, Signal, Kill, BrokerGone, Restart, main
  <2> QED BY <2>2, <2>5
<1> QED BY <1>1, LInit, LStep, PTL DEF Spec, CutOnlyForCause

-----------------------------------------------------------------------------
(***************************************************************************)
(* A stop ends, as far as safety can say it: it is held up by calls and by *)
(* nothing else, and main, the server and the stopper run out of steps.    *)
(***************************************************************************)

\* The stopper has begun only on a server that is going down.
StopInv ==
    /\ phase \in {"serve", "wait"} => stopper # "off"
    /\ stopper \in {"stopping", "late"} => server \in {"draining", "stopped"}
    /\ stopper = "back" => server = "stopped"

\* The steps of the boot, so far as the stop and the count of steps are concerned.
LEMMA BootSteps ==
    ASSUME LInv, Boot
    PROVE  \/ Fresh("dead")
           \/ /\ phase = "boot" /\ (Advance \/ ReturnsError)
              /\ UNCHANGED <<calls, server, ctxDone>>
              /\ \/ open' = open /\ handled' = handled
                 \/ Advance /\ open' = open /\ handled' = TRUE
                 \/ /\ Advance /\ handled' = handled
                    /\ \E c \in Connections \cup {"listener"} : open' = open \cup {c}
BY DEF Boot, LoadConfig, ConfigFails, ConnectBroker, ConnectDatabase, DialWords, Connect,
       Make, MakeClient, MakeService, Migrate, Apply, Listen, NotifyContext, Subscribe,
       At, Dies, outside, context, work, Connections

LEMMA StopStep == LInv /\ StopInv /\ [Next]_vars => StopInv'
<1> SUFFICES ASSUME LInv, StopInv, [Next]_vars PROVE StopInv'
  OBVIOUS
<1> USE DEF outside, main, context, work
<1>0. Fresh("dead") \/ Fresh("boot") => StopInv'
  BY DEF Fresh, StopInv
<1>1. CASE Boot
  <2>1. CASE phase = "boot" /\ (Advance \/ ReturnsError)
    BY <1>0, <1>1, <2>1, BootSteps DEF Advance, ReturnsError, LInv, BootInv, StopInv
  <2> QED BY <1>0, <1>1, <2>1, BootSteps
<1>2. CASE Server
  BY <1>0, <1>2
     DEF Server, ServerWorks, StartServing, ServeFails, StopperWakes, Drained,
         StopperReturns, StopTimesOut, ServeReturns, WaitReturns, Dies, StopInv, LInv,
         ServeInv
<1>3. CASE Close
  BY <1>0, <1>3 DEF Close, StopNotify, CloseConnection, Exit, Dies, StopInv
<1>4. CASE \/ \E c \in Calls : CallStarts(c) \/ CallEnds(c)
           \/ \E t \in Subjects : Subscriber(t)
           \/ \E sig \in {"INT", "TERM"} : Signal(sig)
           \/ Kill \/ BrokerGone \/ Restart \/ UNCHANGED vars
  BY <1>0, <1>4
     DEF CallStarts, CallEnds, Subscriber, Handle, Handled, Unsubscribe,
         UnsubscribePanics, SubscriberGoes, Signal, Kill, BrokerGone, Restart, Dies,
         vars, StopInv
<1> QED BY <1>1, <1>2, <1>3, <1>4 DEF Next

LEMMA StopInit == Init => StopInv
BY DEF Init, StopInv

\* The guard of a step of main, the server or the stopper: StartServing, StopperWakes,
\* Drained, StopperReturns, ServeReturns, WaitReturns, StopNotify, Exit and
\* CloseConnection.  Every step of the boot can be taken when its turn comes.
GoesOn ==
    \/ phase = "boot"
    \/ phase = "serve" /\ ("listener" \notin open \/ server = "new")
    \/ stopper = "waiting" /\ ctxDone
    \/ server = "draining" /\ calls = {}
    \/ stopper = "stopping" /\ server = "stopped"
    \/ phase = "serve" /\ "listener" \in open /\ server = "stopped"
    \/ phase = "wait" /\ stopper \in {"back", "late"}
    \/ /\ phase = "close"
       /\ \/ handled
          \/ open \cap Deferred[service] = {}
          \/ \E c \in open \cap Deferred[service] :
                \A d \in open \cap Deferred[service] : c \notin OpenedBefore(d)

\* Of the connections left to close, one was opened last.
LEMMA LastOpened ==
    ASSUME NEW S \in SUBSET Connections, S # {}
    PROVE  \E c \in S : \A d \in S : c \notin OpenedBefore(d)
<1>1. CASE "words" \in S
  BY <1>1 DEF OpenedBefore, Connections
<1>2. CASE "words" \notin S /\ "db" \in S
  BY <1>2 DEF OpenedBefore, Connections
<1>3. CASE S = {"nats"}
  BY <1>3 DEF OpenedBefore
<1> QED BY <1>1, <1>2, <1>3 DEF Connections

\* A process told to stop is at no point left with nothing to do but calls to wait for.
HeldUpByCallsOnly == ctxDone /\ phase # "dead" => GoesOn \/ calls # {}

\* Whatever has failed before, a stop waits for nothing but the calls in progress.
THEOREM StopHeldUpByCallsOnly == Spec => []HeldUpByCallsOnly
<1>1. LInv /\ StopInv => HeldUpByCallsOnly
  <2> SUFFICES ASSUME LInv, StopInv, ctxDone, phase # "dead", calls = {} PROVE GoesOn
    BY DEF HeldUpByCallsOnly
  <2>1. CASE phase = "boot"
    BY <2>1 DEF GoesOn
  <2>2. CASE phase = "close"
    <3>1. open \cap Deferred[service] \in SUBSET Connections
      BY LifecycleAssumption DEF Deferred, Connections, LInv, TypeOK
    <3> QED BY <2>2, <3>1, LastOpened DEF GoesOn
  <2>3. CASE phase \in {"serve", "wait"}
    BY <2>3 DEF GoesOn, StopInv, LInv, TypeOK
  <2> QED BY <2>1, <2>2, <2>3 DEF LInv, TypeOK
<1> QED BY <1>1, LInit, LStep, StopInit, StopStep, PTL DEF Spec

\* How many steps a process has left at most, beside its calls' and its subscribers'.
Bit(b) == IF b THEN 1 ELSE 0

OpenLeft(o) == Bit("nats" \in o) + Bit("db" \in o) + Bit("words" \in o)

PhasesLeft == CASE phase = "boot" -> 2 * (14 - step)
                [] phase = "serve" -> 3
                [] phase = "wait" -> 2
                [] phase = "close" -> 1
                [] phase = "dead" -> 0

ServerLeft == CASE server = "new" -> 4
                [] server = "serving" -> 3
                [] server = "failed" -> 2
                [] server = "draining" -> 1
                [] server = "stopped" -> 0

StopperLeft == CASE stopper = "off" -> 3
                 [] stopper = "waiting" -> 2
                 [] stopper = "stopping" -> 1
                 [] stopper \in {"back", "late"} -> 0

StepsLeft ==
    PhasesLeft + ServerLeft + StopperLeft + Bit(handled) + OpenLeft(open)

\* In the life of one process no step gives main, the server and the stopper more to
\* do, each of theirs leaves them less, and once the stop has begun no call starts.
StopProceeds ==
    [][phase # "dead" /\ phase' # "dead" =>
          /\ StepsLeft' <= StepsLeft
          /\ Boot \/ Server \/ Close => StepsLeft' < StepsLeft
          /\ stopper \in {"stopping", "back", "late"} => calls' \subseteq calls]_vars

LEMMA LeftTypes ==
    ASSUME LInv
    PROVE  /\ PhasesLeft \in 0 .. 26 /\ (phase = "boot" => step \in 1 .. 10)
           /\ ServerLeft \in 0 .. 4 /\ StopperLeft \in 0 .. 3
<1>1. phase = "boot" => step \in 1 .. 10
  <2>1. service \in {"search", "update", "words"} /\ Len(Program[service]) \in 3 .. 10
    BY Steps, LifecycleAssumption DEF LInv, TypeOK
  <2>2. ASSUME NEW n \in 3 .. 10, NEW k \in 1 .. n PROVE k \in 1 .. 10
    OBVIOUS
  <2> QED BY <2>1, <2>2 DEF LInv, TypeOK
<1>2. PhasesLeft \in 0 .. 26
  <2>1. CASE phase = "boot"
    BY <1>1, <2>1 DEF PhasesLeft
  <2>2. CASE phase # "boot"
    BY <2>2 DEF PhasesLeft, LInv, TypeOK
  <2> QED BY <2>1, <2>2
<1>3. ServerLeft \in 0 .. 4 /\ StopperLeft \in 0 .. 3
  BY DEF ServerLeft, StopperLeft, LInv, TypeOK
<1> QED BY <1>1, <1>2, <1>3

LEMMA LeftNumbers ==
    LInv => PhasesLeft \in 0 .. 26 /\ ServerLeft \in 0 .. 4 /\ StopperLeft \in 0 .. 3
BY LeftTypes

LEMMA LeftNumbersNext ==
    LInv' => PhasesLeft' \in 0 .. 26 /\ ServerLeft' \in 0 .. 4 /\ StopperLeft' \in 0 .. 3
<1>1. LInv' => (PhasesLeft \in 0 .. 26 /\ ServerLeft \in 0 .. 4 /\ StopperLeft \in 0 .. 3)'
  BY LeftNumbers, PTL
<1> QED BY <1>1

LEMMA BitsCount ==
    /\ \A o : OpenLeft(o) \in 0 .. 3
    /\ \A o, p : (\E c : p = o \cup {c}) => OpenLeft(p) <= OpenLeft(o) + 1
    /\ \A o, p : (\E c : p = o \ {c}) => OpenLeft(p) <= OpenLeft(o)
    /\ \A o, p : (\E c \in Connections : c \in o /\ p = o \ {c})
                  => OpenLeft(p) < OpenLeft(o)
    /\ \A b : Bit(b) \in 0 .. 1
BY DEF OpenLeft, Bit, Connections

LEMMA LeftSum ==
    /\ StepsLeft = PhasesLeft + ServerLeft + StopperLeft + Bit(handled) + OpenLeft(open)
    /\ StepsLeft' = PhasesLeft' + ServerLeft' + StopperLeft' + Bit(handled')
                    + OpenLeft(open')
BY DEF StepsLeft

LEMMA PartsSame ==
    /\ UNCHANGED main => PhasesLeft' = PhasesLeft
    /\ UNCHANGED server => ServerLeft' = ServerLeft
    /\ UNCHANGED stopper => StopperLeft' = StopperLeft
BY DEF PhasesLeft, ServerLeft, StopperLeft, main

LEMMA BootTakesSteps ==
    ASSUME LInv, LInv', Boot, phase' # "dead"
    PROVE  StepsLeft' < StepsLeft
<1>1. /\ phase = "boot" /\ (Advance \/ ReturnsError)
      /\ UNCHANGED server
      /\ \/ open' = open /\ handled' = handled
         \/ Advance /\ open' = open /\ handled' = TRUE
         \/ /\ Advance /\ handled' = handled
            /\ \E c \in Connections \cup {"listener"} : open' = open \cup {c}
  BY BootSteps DEF Fresh
<1>2. step \in 1 .. 10 /\ PhasesLeft = 2 * (14 - step)
  BY <1>1, LeftTypes DEF PhasesLeft
<1>3. StopperLeft' <= StopperLeft
  <2>1. stopper = "off" /\ StopperLeft = 3
    BY <1>1 DEF LInv, BootInv, StopperLeft
  <2> QED BY <2>1, LeftNumbersNext
<1>4. PhasesLeft' <= PhasesLeft - 2
  <2>1. CASE ReturnsError
    <3>1. PhasesLeft' = 1
      BY <2>1 DEF ReturnsError, PhasesLeft
    <3> QED BY <1>2, <3>1
  <2>2. CASE Advance /\ step' = step + 1 /\ phase' = phase
    BY <1>1, <1>2, <2>2 DEF PhasesLeft
  <2>3. CASE Advance /\ phase' = "serve"
    <3>1. PhasesLeft' = 3
      BY <2>3 DEF PhasesLeft
    <3> QED BY <1>2, <3>1
  <2> QED BY <1>1, <2>1, <2>2, <2>3 DEF Advance
<1>5. Bit(handled') + OpenLeft(open') <= Bit(handled) + OpenLeft(open) + 1
  BY <1>1, BitsCount
<1> DEFINE a == PhasesLeft  b == ServerLeft  d == StopperLeft
           e == PhasesLeft' f == ServerLeft' g == StopperLeft'
<1>6. a \in Int /\ b \in Int /\ d \in Int /\ g \in Int /\ e \in Int
  BY LeftNumbers, LeftNumbersNext
<1>7. f = b
  BY <1>1, PartsSame
<1>8. Bit(handled') \in Int /\ OpenLeft(open') \in Int /\ Bit(handled) \in Int
      /\ OpenLeft(open) \in Int
  BY BitsCount
<1>9. e <= a - 2 /\ g <= d
  BY <1>3, <1>4
<1> HIDE DEF a, b, d, e, f, g
<1>10. StepsLeft = a + b + d + Bit(handled) + OpenLeft(open)
  BY LeftSum DEF a, b, d
<1>11. StepsLeft' = e + f + g + Bit(handled') + OpenLeft(open')
  BY LeftSum DEF e, f, g
<1> QED BY <1>5, <1>6, <1>7, <1>8, <1>9, <1>10, <1>11

\* One of the parts is smaller, the others are no greater.
LEMMA StepTaken ==
    ASSUME LInv, LInv', UNCHANGED <<step, handled, open>>,
           PhasesLeft' <= PhasesLeft, ServerLeft' <= ServerLeft, StopperLeft' <= StopperLeft,
           \/ PhasesLeft' < PhasesLeft
           \/ ServerLeft' < ServerLeft
           \/ StopperLeft' < StopperLeft
    PROVE  StepsLeft' < StepsLeft
<1>1. PhasesLeft \in Int /\ ServerLeft \in Int /\ StopperLeft \in Int
  BY LeftTypes
<1>2. PhasesLeft' \in Int /\ ServerLeft' \in Int /\ StopperLeft' \in Int
  BY LeftNumbersNext
<1>3. Bit(handled) \in Int /\ OpenLeft(open) \in Int
  BY BitsCount
<1> QED BY <1>1, <1>2, <1>3, LeftSum

LEMMA ServerTakesSteps ==
    ASSUME LInv, LInv', Server, phase' # "dead"
    PROVE  StepsLeft' < StepsLeft
<1>1. phase' # "dead" => ~Dies
  BY DEF Dies, Fresh
<1>2. UNCHANGED <<step, handled, open>>
  BY <1>1 DEF Server, ServerWorks, StartServing, ServeFails, StopperWakes, Drained,
              StopperReturns, StopTimesOut, ServeReturns, WaitReturns, main, context
<1>3. /\ PhasesLeft' <= PhasesLeft /\ ServerLeft' <= ServerLeft
      /\ StopperLeft' <= StopperLeft
      /\ \/ PhasesLeft' < PhasesLeft
         \/ ServerLeft' < ServerLeft
         \/ StopperLeft' < StopperLeft
  <2>1. PhasesLeft \in Int /\ ServerLeft \in Int /\ StopperLeft \in Int
    BY LeftTypes
  <2>2. CASE StartServing \/ Drained
    BY <1>1, <2>1, <2>2, PartsSame DEF StartServing, Drained, ServerLeft
  <2>3. CASE StopperReturns \/ StopTimesOut
    BY <2>1, <2>3, PartsSame DEF StopperReturns, StopTimesOut, StopperLeft
  <2>4. CASE ServeReturns \/ WaitReturns
    BY <2>1, <2>4, PartsSame DEF ServeReturns, WaitReturns, PhasesLeft
  <2>5. CASE ServeFails
    BY <2>1, <2>5, PartsSame DEF ServeFails, PhasesLeft, ServerLeft
  <2>6. CASE StopperWakes
    <3>1. server \in {"new", "serving", "failed"}
      BY <2>6 DEF StopperWakes, LInv, ServeInv
    <3> QED BY <2>1, <2>6, <3>1, PartsSame DEF StopperWakes, ServerLeft, StopperLeft
  <2> QED BY <2>2, <2>3, <2>4, <2>5, <2>6 DEF Server, ServerWorks
<1> QED BY <1>2, <1>3, StepTaken

LEMMA CloseTakesSteps ==
    ASSUME LInv, Close, phase' # "dead"
    PROVE  StepsLeft' < StepsLeft
<1>1. UNCHANGED <<main, server, stopper>>
      /\ \/ open' = open /\ handled = TRUE /\ handled' = FALSE
         \/ /\ handled' = handled
            /\ \E c \in Connections : c \in open /\ open' = open \ {c}
  BY DEF Close, StopNotify, CloseConnection, Exit, Dies, Fresh, context, LInv, TypeOK
<1>2. /\ PhasesLeft' = PhasesLeft /\ ServerLeft' = ServerLeft
      /\ StopperLeft' = StopperLeft
  BY <1>1, PartsSame
<1>3. PhasesLeft \in Int /\ ServerLeft \in Int /\ StopperLeft \in Int
  BY LeftTypes
<1>4. Bit(handled') + OpenLeft(open') < Bit(handled) + OpenLeft(open)
  <2>1. Bit(handled) \in Int /\ OpenLeft(open) \in Int /\ OpenLeft(open') \in Int
    BY BitsCount
  <2>2. CASE open' = open /\ handled = TRUE /\ handled' = FALSE
    <3>1. Bit(handled) = 1 /\ Bit(handled') = 0
      BY <2>2 DEF Bit
    <3> QED BY <2>1, <2>2, <3>1
  <2>3. CASE /\ handled' = handled
             /\ \E c \in Connections : c \in open /\ open' = open \ {c}
    <3>1. OpenLeft(open') < OpenLeft(open)
      BY <2>3, BitsCount
    <3> QED BY <2>1, <2>3, <3>1
  <2> QED BY <1>1, <2>2, <2>3
<1>5. Bit(handled') \in Int /\ OpenLeft(open') \in Int /\ Bit(handled) \in Int
      /\ OpenLeft(open) \in Int
  BY BitsCount
<1> QED BY <1>2, <1>3, <1>4, <1>5, LeftSum

LEMMA OthersTakeNone ==
    ASSUME LInv, [Next]_vars, ~Boot, ~Server, ~Close, phase # "dead", phase' # "dead"
    PROVE  StepsLeft' <= StepsLeft
<1>1. /\ UNCHANGED <<main, server, stopper, handled>>
      /\ open' = open \/ open' = open \ {"nats"}
  BY DEF Next, CallStarts, CallEnds, Subscriber, Handle, Handled, Unsubscribe,
         UnsubscribePanics, SubscriberGoes, Signal, Kill, BrokerGone, Restart, Dies,
         Fresh, vars, main, context
<1>2. /\ PhasesLeft' = PhasesLeft /\ ServerLeft' = ServerLeft
      /\ StopperLeft' = StopperLeft
  BY <1>1, PartsSame
<1>3. PhasesLeft \in Int /\ ServerLeft \in Int /\ StopperLeft \in Int
  BY LeftTypes
<1>4. OpenLeft(open') <= OpenLeft(open) /\ OpenLeft(open') \in Int
      /\ OpenLeft(open) \in Int /\ Bit(handled) \in Int /\ handled' = handled
  <2>1. OpenLeft(open') \in Int /\ OpenLeft(open) \in Int /\ Bit(handled) \in Int
    BY BitsCount
  <2> QED BY <1>1, <2>1, BitsCount
<1> QED BY <1>2, <1>3, <1>4, LeftSum

LEMMA NoCallStartsInStop ==
    ASSUME LInv, StopInv, [Next]_vars, stopper \in {"stopping", "back", "late"},
           phase # "dead"
    PROVE  calls' \subseteq calls
<1>1. \A c \in Calls : ~CallStarts(c)
  BY DEF CallStarts, StopInv
<1>2. phase # "boot"
  BY DEF LInv, BootInv
<1> QED BY <1>1, <1>2
        DEF Next, Boot, LoadConfig, ConfigFails, ConnectBroker, ConnectDatabase,
            DialWords, Connect, Make, MakeClient, MakeService, Migrate, Apply, Listen,
            NotifyContext, Subscribe, At, Server, ServerWorks, StartServing, ServeFails,
            StopperWakes, Drained, StopperReturns, StopTimesOut, ServeReturns,
            WaitReturns, CallEnds, Close, StopNotify, CloseConnection, Exit, Subscriber,
            Handle, Handled, Unsubscribe, UnsubscribePanics, SubscriberGoes, Signal, Kill,
            BrokerGone, Restart, Dies, Fresh, vars, work

\* At most 40 steps of main, the server and the stopper make the life of a process, and
\* no call starts behind the back of a stop.
THEOREM StopIsBounded ==
    Spec => [](phase # "dead" => StepsLeft \in 0 .. 40) /\ StopProceeds
<1>1. LInv => (phase # "dead" => StepsLeft \in 0 .. 40)
  BY LeftTypes, LeftSum, BitsCount
<1>2. LInv /\ LInv' /\ StopInv /\ [Next]_vars
      => [phase # "dead" /\ phase' # "dead" =>
            /\ StepsLeft' <= StepsLeft
            /\ Boot \/ Server \/ Close => StepsLeft' < StepsLeft
            /\ stopper \in {"stopping", "back", "late"} => calls' \subseteq calls]_vars
  <2> SUFFICES ASSUME LInv, LInv', StopInv, [Next]_vars, phase # "dead", phase' # "dead"
               PROVE  /\ StepsLeft' <= StepsLeft
                      /\ Boot \/ Server \/ Close => StepsLeft' < StepsLeft
                      /\ stopper \in {"stopping", "back", "late"} => calls' \subseteq calls
    OBVIOUS
  <2>1. Boot \/ Server \/ Close => StepsLeft' < StepsLeft
    BY BootTakesSteps, ServerTakesSteps, CloseTakesSteps
  <2>2. StepsLeft' <= StepsLeft
    <3>1. StepsLeft \in Int
      BY LeftTypes, LeftSum, BitsCount
    <3>2. CASE Boot \/ Server \/ Close
      <4>1. StepsLeft' \in Int
        BY LeftNumbersNext, LeftSum, BitsCount
      <4> QED BY <2>1, <3>1, <3>2, <4>1
    <3>3. CASE ~(Boot \/ Server \/ Close)
      BY <3>3, OthersTakeNone
    <3> QED BY <3>2, <3>3
  <2>3. stopper \in {"stopping", "back", "late"} => calls' \subseteq calls
    BY NoCallStartsInStop
  <2> QED BY <2>1, <2>2, <2>3
<1> QED BY <1>1, <1>2, LInit, LStep, StopInit, StopStep, PTL DEF Spec, StopProceeds
=============================================================================
