-------------------------------- MODULE Wsdd --------------------------------
(***************************************************************************)
(* The discovery daemon (examples/ws-discovery/wsdd.cpp): the composition  *)
(* of a proxy, a service and two threads.                                  *)
(*                                                                         *)
(* The main thread runs the io_service, whose only work is to wait for ONE *)
(* signal; the handler stops the io_service, and main joins the service    *)
(* thread.  The service thread sends Hello, serves requests until it sees  *)
(* the io_service stopped, closes the service and sends Bye.               *)
(*                                                                         *)
(* The service thread is the only user of both soap contexts and of the    *)
(* statics of class Wsa; the threads share the io_service and work_.       *)
(***************************************************************************)
EXTENDS Wsa, Sequences, FiniteSets

CONSTANTS
  Datagrams,        \* what peers send
  MaxArrivals,      \* bound on the datagrams that reach the socket
  Signals,          \* the signals the daemon registers for
  MaxSignals,       \* bound on the signals that are raised
  Builds            \* of TRUE, a build with BOOST_ASSERT, and FALSE, with NDEBUG

ASSUME ArrivalsAssumption ==
  /\ \A d \in Datagrams : d.num \in Nat
  /\ MaxArrivals \in Nat /\ MaxArrivals + 2 < UintMod

ASSUME SignalsAssumption ==
  /\ "SIGHUP" \in Signals /\ "armed" \notin Signals /\ "over" \notin Signals
  /\ MaxSignals \in Nat
\* The peers' ids are not those of this host, which are numbers here.
ASSUME IdsAssumption == \A d \in Datagrams : d.id \notin Nat

ASSUME BuildsAssumption == Builds \subseteq BOOLEAN

VARIABLES   \* of the service and of class Wsa: see RemoteDiscoveryService
  master, object, phase, header, copies, inbox, received, failed,
  messageNumber, uuids, sent

VARIABLES
  asserts,        \* the build at hand; chosen once
  main,           \* where exec() is
  thread,         \* where runService() is; "none" before it is started
  stopped,        \* Wsdd::stopped_
  iosStopped,     \* ios_.stopped()
  work,           \* work_ holds the io_service's work
  wait,           \* the asynchronous wait: "armed", the signal whose handler
                  \* is queued, or "over"
  raised,         \* history: the registered signals of the process, as they came
  caught,         \* history: runService() left by its catch
  proxyHeader     \* the header of the proxy's context

Proxy == INSTANCE RemoteDiscoveryProxy WITH header <- proxyHeader

\* The service's histories of Probes and exceptions are not kept here.
Service == INSTANCE RemoteDiscoveryService WITH asked <- {}, thrown <- {}

service == <<master, object, phase, header, copies, inbox, received, failed>>
shared == <<messageNumber, uuids, sent>>
control == <<asserts, main, thread, stopped, iosStopped, work, wait, raised, caught>>
vars == <<service, shared, control, proxyHeader>>

Init ==
  /\ Service!Init
  /\ asserts \in Builds
  /\ main = "exec" /\ thread = "none"
  /\ stopped = FALSE /\ iosStopped = FALSE /\ work = FALSE
  /\ wait = "armed" /\ raised = <<>> /\ caught = FALSE
  /\ proxyHeader = NoHeader

Ended == main \in {"exited", "aborted"}
-----------------------------------------------------------------------------
(***************************************************************************)
(* The main thread: exec() and the signal handler that runs inside it.     *)
(***************************************************************************)
MainUnchanged ==
  UNCHANGED <<asserts, thread, raised, caught, service, shared, proxyHeader>>

\* daemon(0, 0) < 0: exec() returns 1 before anything is started.
DaemonFails ==
  /\ main = "exec"
  /\ main' = "exited"
  /\ UNCHANGED <<stopped, iosStopped, work, wait>>
  /\ MainUnchanged

StartService ==
  /\ main = "exec"
  /\ main' = "run" /\ work' = TRUE /\ thread' = "open"
  /\ UNCHANGED <<asserts, stopped, iosStopped, wait, raised, caught, service, shared,
                 proxyHeader>>

\* Mutant of SignalHandler: SIGHUP stops the daemon like the others.
SignalHandlerForAll ==
  /\ main = "run" /\ ~iosStopped /\ wait \in Signals
  /\ stopped' = TRUE
  /\ iosStopped' = TRUE
  /\ wait' = "over"
  /\ UNCHANGED <<main, work>>
  /\ MainUnchanged

\* ios_.run() executes the queued handler.
SignalHandler ==
  /\ main = "run" /\ ~iosStopped /\ wait \in Signals
  /\ stopped' = (wait # "SIGHUP")
  /\ iosStopped' = TRUE
  /\ wait' = "over"
  /\ UNCHANGED <<main, work>>
  /\ MainUnchanged

\* ios_.run() returns when stopped, or when neither work_ nor a wait is left.
RunReturns ==
  /\ main = "run"
  /\ iosStopped \/ (~work /\ wait = "over")
  /\ main' = "join"
  /\ UNCHANGED <<stopped, iosStopped, work, wait>>
  /\ MainUnchanged

\* Mutant of Join: main does not wait for the service thread.
JoinNobody ==
  /\ main = "join"
  /\ main' = "joined"
  /\ UNCHANGED <<stopped, iosStopped, work, wait>>
  /\ MainUnchanged

Join ==
  /\ main = "join" /\ thread = "done"
  /\ main' = "joined"
  /\ UNCHANGED <<stopped, iosStopped, work, wait>>
  /\ MainUnchanged

\* BOOST_ASSERT(stopped_), then while (!stopped_).
LoopOrLeave ==
  /\ main = "joined"
  /\ \/ stopped /\ main' = "exited"
     \/ ~stopped /\ asserts /\ main' = "aborted"
     \/ ~stopped /\ ~asserts /\ main' = "run"
  /\ UNCHANGED <<stopped, iosStopped, work, wait>>
  /\ MainUnchanged

Main == \/ DaemonFails \/ StartService
        \/ SignalHandler \/ RunReturns \/ Join \/ LoopOrLeave
-----------------------------------------------------------------------------
(***************************************************************************)
(* The service thread: runService().                                       *)
(***************************************************************************)
At(place) == thread = place /\ ~Ended

ThreadUnchanged == UNCHANGED <<asserts, main, stopped, iosStopped, wait, raised>>

GoTo(place) == thread' = place /\ ThreadUnchanged /\ UNCHANGED <<work, caught>>

\* A multicast from this host comes back to its own socket, if that is in the
\* group.
Loopback(kind, ok) ==
  inbox' = IF ok /\ master = "member"
             THEN Append(inbox, [kind |-> kind, id |-> uuids', relatesTo |-> NoId,
                                 num |-> messageNumber'])
             ELSE inbox

\* An announcement goes out and the thread moves on, or SoapException takes it
\* to the catch.
Announced(kind, ok, next) ==
  /\ Loopback(kind, ok)
  /\ thread' = IF ok THEN next ELSE "finish"
  /\ caught' = ~ok
  /\ ThreadUnchanged
  /\ UNCHANGED <<work, master, object, phase, header, copies, received, failed>>

OpenProxy(place, next) ==
  /\ At(place)
  /\ Proxy!Open
  /\ GoTo(next)
  /\ UNCHANGED service

\* Mutant of SendHello: the service starts although the Hello failed.
SendHelloRegardless(ok) ==
  /\ At("hello")
  /\ Proxy!Hello(ok)
  /\ Loopback("Hello", ok)
  /\ GoTo("bind")
  /\ UNCHANGED <<master, object, phase, header, copies, received, failed>>

SendHello(ok) == At("hello") /\ Proxy!Hello(ok) /\ Announced("Hello", ok, "bind")

SendBye(ok) == At("bye") /\ Proxy!Bye(ok) /\ Announced("Bye", ok, "finish")

\* The result of bind() is not looked at.
BindService(outcome) ==
  /\ At("bind")
  /\ Service!Bind(TRUE, outcome)
  /\ GoTo("loop")
  /\ UNCHANGED proxyHeader

\* Mutant of TestStopped: the loop has no condition.
TestNothing ==
  /\ At("loop")
  /\ GoTo("accept")
  /\ UNCHANGED <<service, shared, proxyHeader>>

TestStopped ==
  /\ At("loop")
  /\ GoTo(IF iosStopped THEN "close" ELSE "accept")
  /\ UNCHANGED <<service, shared, proxyHeader>>

\* Mutants of Accept: a failure ends the loop; a socket outside the group is
\* not served.
AcceptOrLeave ==
  /\ At("accept")
  /\ GoTo(IF master = "none" THEN "close" ELSE "serve")
  /\ UNCHANGED <<service, shared, proxyHeader>>
AcceptMember ==
  /\ At("accept")
  /\ GoTo(IF master = "member" THEN "serve" ELSE "loop")
  /\ UNCHANGED <<service, shared, proxyHeader>>

\* A bound UDP socket is its own connection; without one accept() is -1.
Accept ==
  /\ At("accept")
  /\ GoTo(IF master = "none" THEN "loop" ELSE "serve")
  /\ UNCHANGED <<service, shared, proxyHeader>>

\* Wsdd's own hello(), bye() and probe() do not throw.
ServeOne ==
  /\ At("serve")
  /\ Service!Serve
  /\ GoTo("serve")
  /\ UNCHANGED proxyHeader

Served ==
  /\ At("serve")
  /\ Service!Return
  /\ GoTo("loop")
  /\ UNCHANGED proxyHeader

\* Mutants of CloseService: the service outlives the loop; Bye is forgotten.
CloseNothing ==
  /\ At("close")
  /\ GoTo("reopen")
  /\ UNCHANGED <<service, shared, proxyHeader>>
CloseAndFinish ==
  /\ At("close")
  /\ Service!Close
  /\ GoTo("finish")
  /\ UNCHANGED proxyHeader

CloseService ==
  /\ At("close")
  /\ Service!Close
  /\ GoTo("reopen")
  /\ UNCHANGED proxyHeader

\* work_.reset(), the last thing the thread does.
Finish ==
  /\ At("finish")
  /\ work' = FALSE /\ thread' = "done"
  /\ ThreadUnchanged
  /\ UNCHANGED <<caught, service, shared, proxyHeader>>

Thread ==
  \/ OpenProxy("open", "hello") \/ \E ok \in BOOLEAN : SendHello(ok)
  \/ \E outcome \in Service!BindOutcomes : BindService(outcome)
  \/ TestStopped \/ Accept \/ ServeOne \/ Served \/ CloseService
  \/ OpenProxy("reopen", "bye") \/ \E ok \in BOOLEAN : SendBye(ok)
  \/ Finish
-----------------------------------------------------------------------------
(***************************************************************************)
(* The environment.                                                        *)
(***************************************************************************)
\* The first registered signal completes the wait.  It is never armed again:
\* later signals find no handler and change nothing.
Raise(signal) ==
  /\ ~Ended /\ Len(raised) < MaxSignals
  /\ raised' = Append(raised, signal)
  /\ wait' = IF wait = "armed" THEN signal ELSE wait
  /\ UNCHANGED <<asserts, main, thread, stopped, iosStopped, work, caught, service,
                 shared, proxyHeader>>

PeerSends(d) ==
  /\ ~Ended
  /\ Service!Arrive(d)
  /\ UNCHANGED <<control, proxyHeader>>

Over == Ended /\ UNCHANGED vars

Next ==
  \/ Main \/ Thread
  \/ \E signal \in Signals : Raise(signal)
  \/ \E d \in Datagrams : PeerSends(d)
  \/ Over

\* Each thread keeps running; socket operations return within their timeouts.
Fairness == WF_vars(Main) /\ WF_vars(Thread)

Spec == Init /\ [][Next]_vars

FairSpec == Spec /\ Fairness
-----------------------------------------------------------------------------
Numbers == 1..(MaxArrivals + 2)

PeerIds == {d.id : d \in Datagrams}

Announcements == [kind : {"Hello", "Bye"}, id : Numbers, relatesTo : {NoId},
                  num : Numbers, cause : {0}]

Answers == [kind : {"ProbeMatches"}, id : Numbers, relatesTo : {NoId} \cup PeerIds,
            num : Numbers, cause : 1..MaxArrivals]

Messages == Announcements \cup Answers

\* The daemon keeps the promise of a discovery target.
Target == INSTANCE DiscoveryTarget WITH air <- sent

TargetSpec == Target!Spec

FlagTypes ==
  /\ asserts \in BOOLEAN /\ stopped \in BOOLEAN /\ iosStopped \in BOOLEAN
  /\ work \in BOOLEAN /\ caught \in BOOLEAN /\ object \in BOOLEAN

PlaceTypes ==
  /\ main \in {"exec", "run", "join", "joined", "exited", "aborted"}
  /\ thread \in {"none", "open", "hello", "bind", "loop", "accept", "serve",
                 "close", "reopen", "bye", "finish", "done"}
  /\ wait \in {"armed", "over"} \cup Signals
  /\ raised \in Seq(Signals)
  /\ master \in {"none", "open", "member"}
  /\ phase \in {"idle", "dispatch", "respond", "fault", "ok", "eof", "failed"}

ProxyHeaders == [id : {NoId} \cup Numbers, relatesTo : {NoId}, num : Nat]

ServiceHeaders == [id : {NoId} \cup PeerIds \cup Numbers,
                   relatesTo : {NoId} \cup PeerIds \cup {d.relatesTo : d \in Datagrams},
                   num : Nat]

HeaderTypes == proxyHeader \in ProxyHeaders /\ header \in ServiceHeaders

LogTypes ==
  /\ inbox \in Seq(Datagrams) /\ received \in Seq(Datagrams)
  /\ failed \subseteq 1..Len(received)
  /\ sent \in Seq(Messages)

CounterTypes == copies \in 0..2 /\ messageNumber \in Nat /\ uuids \in Nat

TypeOK == FlagTypes /\ PlaceTypes /\ HeaderTypes /\ LogTypes /\ CounterTypes

Said(kind) == \E i \in 1..Len(sent) : sent[i].kind = kind

\* exec() returns or aborts only when no service thread is left to use the
\* Wsdd object: it was never started, or it is past its last access.
NoThreadOutlivesExec == Ended => thread \in {"none", "done"}

\* The service thread ends before a signal only if Hello could not be sent: a
\* bind that failed, an accept that failed, any result of serve() keep it in
\* the loop.  And whoever said Hello has at least tried to say Bye when the
\* process ends.
LoopEndsOnlyBySignal ==
  /\ thread \in {"close", "reopen", "bye", "finish", "done"} /\ ~iosStopped
       => caught /\ sent = <<>>
  /\ Ended /\ Said("Hello") => Said("Bye") \/ caught

\* The daemon never handles its own announcements: its socket has not joined
\* the group when Hello is sent, and is closed when Bye is.
NoSelfDelivery ==
  \A own \in 1..uuids :
    /\ \A i \in 1..Len(inbox) : inbox[i].id # own
    /\ \A i \in 1..Len(received) : received[i].id # own

\* A listener that sorts the daemon's messages by number sees the order of
\* sending, also when Hello, answers or copies of them failed to leave, and
\* takes no two messages for one that are not copies.
NumbersOrderMessages == Target!NumbersOrderMessages

\* Whatever a signal interrupts, nothing leaves the daemon before its Hello or
\* after its Bye.
HelloFirstByeLast == Target!HelloFirstByeLast

\* A peer's Hello or Bye never makes the daemon send anything, not even a
\* fault: two daemons that hear each other's announcements stay silent.
AnnouncementsStaySilent ==
  \A n \in 1..Len(received) :
    received[n].kind \in {"Hello", "Bye"}
      => n \notin failed /\ Service!Answers(n) = {}

\* The daemon's answers, in the run of the whole daemon, name their Probe.
AnswersCorrelate ==
  \A i \in 1..Len(sent) :
    sent[i].kind = "ProbeMatches"
      => /\ sent[i].cause \in 1..Len(received)
         /\ received[sent[i].cause].kind = "Probe"
         /\ sent[i].relatesTo = received[sent[i].cause].id

First(signal) == raised # <<>> /\ raised[1] = signal

\* Of all signals the first one decides: once the service was started, exec()
\* returns only if that was one which means to stop.  No signal after a SIGHUP
\* makes it return, and before the first one nothing does.
FirstSignalDecides ==
  main = "exited" /\ thread # "none" => \E signal \in Signals \ {"SIGHUP"} : First(signal)

\* BOOST_ASSERT(stopped_) in exec(): when the service thread is joined, the
\* reason was a signal that stops the daemon.
StoppedAtJoin == main = "joined" => stopped

\* The first of the registered signals ends the process, wherever the service
\* thread is when it comes, and whatever signals follow: SIGHUP in an assertion,
\* every other by a return of exec().  In a build without assertions SIGHUP leaves
\* a process whose service thread is gone.
SignalEndsProcess ==
  \A signal \in Signals :
    First(signal) ~> IF signal # "SIGHUP" THEN main = "exited"
                                          ELSE Ended \/ (~asserts /\ thread = "done")

\* Once the io_service is stopped, a target that said Hello says Bye, unless
\* the send fails.
ByeFollowsStop ==
  iosStopped /\ Said("Hello") ~> Said("Bye") \/ caught

\* Each Probe that is taken from the socket is answered twice or ends in an
\* error, also when the daemon is being stopped.
ProbesAreServed ==
  \A n \in 1..MaxArrivals :
    Len(received) >= n /\ received[n].kind = "Probe"
      ~> n \in failed \/ Cardinality(Service!Answers(n)) = 2

\* Datagrams do not stay in the socket for ever: they are served, or dropped
\* when the service closes.
InboxDrained == inbox # <<>> ~> inbox = <<>>
-----------------------------------------------------------------------------
(***************************************************************************)
(* The inductive invariant behind the safety properties, by subject.       *)
(***************************************************************************)
LastSent == sent[Len(sent)]

Before == {"none", "open", "hello"}
During == {"bind", "loop", "accept", "serve", "close", "reopen", "bye"}
After == {"finish", "done"}

\* How the two threads wait for each other, and what the place of the service
\* thread says of its service.
ControlInv ==
  /\ main = "exec" => thread = "none"
  /\ main \in {"joined", "aborted"} => thread = "done"
  /\ main = "exited" => thread \in {"none", "done"}
  /\ wait = "over" <=> iosStopped
  /\ thread # "serve" => phase = "idle"
  /\ thread = "serve" => master # "none"
  /\ thread \in Before \cup After \cup {"bind", "reopen", "bye"}
       => master = "none" /\ inbox = <<>>
  /\ thread \in {"close", "reopen", "bye"} => iosStopped

\* What the place of the service thread says of the messages sent.
LifeInv ==
  /\ thread \in Before => sent = <<>> /\ received = <<>> /\ messageNumber = 0
  /\ thread \in During => sent # <<>> /\ LastSent.kind # "Bye"
  /\ thread \in After /\ ~caught => sent # <<>> /\ LastSent.kind = "Bye"
  /\ thread \in After /\ ~iosStopped => caught /\ sent = <<>>
  /\ caught => thread \in After

\* Numbers are spent one per datagram at most, and the log is below them.
NumberInv ==
  /\ uuids = messageNumber
  /\ Len(received) + Len(inbox) <= MaxArrivals
  /\ thread \in During => messageNumber <= Len(received) + 1
  /\ thread \in After => messageNumber <= Len(received) + 2
  /\ phase = "dispatch" => messageNumber <= Len(received)
  /\ sent # <<>> => LastSent.num <= messageNumber

\* The header while a request is handled.
ResponseInv ==
  /\ phase \in {"dispatch", "respond", "fault"} => received # <<>>
  /\ phase = "dispatch" => header.id = Service!Current.id
  /\ phase = "respond" =>
       /\ Service!Current.kind = "Probe"
       /\ header = [id |-> messageNumber, relatesTo |-> Service!Current.id,
                    num |-> messageNumber]
       /\ messageNumber > 0
       /\ copies \in {0, 1}
       /\ copies = 0 => LastSent.num < messageNumber
       /\ copies = 1 =>
            /\ LastSent = Message("ProbeMatches", header, Len(received))
            /\ Len(sent) > 1 => sent[Len(sent) - 1].num < messageNumber

\* What the wait and its handler know of the signals.
SignalInv ==
  /\ wait = "armed" <=> raised = <<>>
  /\ wait \in Signals => First(wait)
  /\ stopped => \E signal \in Signals \ {"SIGHUP"} : First(signal)
  /\ main = "exited" /\ thread # "none" => stopped

Inv ==
  TypeOK /\ ControlInv /\ LifeInv /\ NumberInv /\ ResponseInv /\ AnswersCorrelate
=============================================================================
