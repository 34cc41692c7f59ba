---------------------------- MODULE TestProgram ----------------------------
(***************************************************************************)
(* The test program (tests/main.cpp): the main thread announces a device   *)
(* through a proxy while a listener thread serves the multicast group with *)
(* a service, in one process.  A mutex, locked by main before the listener *)
(* starts and unlocked by the listener when it is bound, holds main back.  *)
(*                                                                         *)
(* Here two threads use the statics of class Wsa.  messageNumber() has no  *)
(* lock: an increment is a load and a store, and what is returned is a     *)
(* reference, which the caller may read before or after the other thread's *)
(* next store.  A thread's view is what it loaded; the number its next     *)
(* message gets is one above.                                              *)
(***************************************************************************)
EXTENDS Wsa, Sequences

CONSTANTS
  Datagrams,    \* what peers send
  MaxArrivals,  \* bound on the datagrams that reach the socket
  MaxTurns,     \* the turns of the listener's loop; 100000 in the code
  Builds        \* of TRUE, a build with BOOST_ASSERT, and FALSE, with NDEBUG

ASSUME TestBuilds == Builds \subseteq BOOLEAN
ASSUME TestBounds ==
  MaxTurns \in Nat /\ MaxArrivals \in Nat /\ MaxArrivals + 2 < UintMod

VARIABLES   \* of the service and of class Wsa: see RemoteDiscoveryService
  master, object, phase, header, copies, inbox, received, failed,
  messageNumber, uuids, sent

VARIABLES
  asserts,        \* the build at hand
  main,           \* where main() is, and how the process ended
  listener,       \* where run() is; "none" before the thread is started
  locked,         \* readyMutex
  alive,          \* the listener's object, a local of main's try block, exists
  threw,          \* history: main's block was left by an exception
  turns,          \* i of the listener's loop
  proxyHeader,    \* the header of the proxy's context
  mainView, mainStep,          \* main's increment of the message number:
  listenerView, listenerStep,  \* "idle", "loaded", "stored" and "read" again
  overlap         \* history: one increment began while another was under way

Proxy == INSTANCE RemoteDiscoveryProxy
  WITH header <- proxyHeader, messageNumber <- mainView

\* The service's histories of Probes and exceptions are not kept here.
Service == INSTANCE RemoteDiscoveryService
  WITH messageNumber <- listenerView, asked <- {}, thrown <- {}

service == <<master, object, phase, header, copies, inbox, received, failed>>
out == <<uuids, sent>>
counter == <<messageNumber, mainView, mainStep, listenerView, listenerStep, overlap>>
control == <<asserts, main, listener, locked, alive, threw, turns>>
vars == <<service, out, counter, control, proxyHeader>>

Init ==
  /\ Service!Init
  /\ asserts \in Builds
  /\ main = "start" /\ listener = "none"
  /\ locked = FALSE /\ alive = TRUE /\ threw = FALSE /\ turns = 0
  /\ proxyHeader = NoHeader
  /\ messageNumber = 0 /\ mainView = 0 /\ mainStep = "idle" /\ listenerStep = "idle"
  /\ overlap = FALSE

Ended == main \in {"exited", "aborted", "crashed"}
-----------------------------------------------------------------------------
(***************************************************************************)
(* The main thread.                                                        *)
(***************************************************************************)
MainUnchanged == UNCHANGED <<asserts, listener, turns, service, out, proxyHeader>>

\* readyMutex.lock(), and the thread is started.
Start ==
  /\ main = "start"
  /\ main' = "wait" /\ locked' = TRUE /\ listener' = "bind"
  /\ UNCHANGED <<asserts, alive, threw, turns, service, out, counter, proxyHeader>>

\* scoped_lock: the second lock of the same mutex by the same thread.
Enter ==
  /\ main = "wait" /\ ~locked
  /\ main' = "open" /\ locked' = TRUE
  /\ UNCHANGED <<alive, threw, counter>>
  /\ MainUnchanged

OpenProxy ==
  /\ main = "open"
  /\ Proxy!Open
  /\ main' = "hello"
  /\ UNCHANGED <<asserts, listener, locked, alive, threw, turns, service,
                 messageNumber, mainStep, listenerView, listenerStep, overlap>>

\* Wsa::messageNumber in main: load, store, and perhaps read again.
MainLoad ==
  /\ main \in {"hello", "bye"} /\ mainStep = "idle"
  /\ mainView' = messageNumber /\ mainStep' = "loaded"
  /\ overlap' = (overlap \/ listenerStep # "idle")
  /\ UNCHANGED <<main, locked, alive, threw, messageNumber, listenerView, listenerStep>>
  /\ MainUnchanged

\* Mutant of MainStore: the increment is lost.
MainStoreNothing ==
  /\ mainStep = "loaded"
  /\ mainStep' = "stored"
  /\ UNCHANGED <<main, locked, alive, threw, messageNumber, mainView,
                 listenerView, listenerStep, overlap>>
  /\ MainUnchanged

MainStore ==
  /\ mainStep = "loaded"
  /\ messageNumber' = NextNumber(mainView) /\ mainStep' = "stored"
  /\ UNCHANGED <<main, locked, alive, threw, mainView, listenerView, listenerStep,
                 overlap>>
  /\ MainUnchanged

MainReadAgain ==
  /\ mainStep = "stored"
  /\ mainView' = messageNumber - 1 /\ mainStep' = "read"
  /\ UNCHANGED <<main, locked, alive, threw, messageNumber, listenerView,
                 listenerStep, overlap>>
  /\ MainUnchanged

\* A multicast comes back to the listener, if that is in the group and the
\* datagram is not lost.
Loopback(kind) ==
  \/ UNCHANGED inbox
  \/ /\ sent' # sent /\ master = "member"
     /\ Len(received) + Len(inbox) < MaxArrivals
     /\ inbox' = Append(inbox, [kind |-> kind, id |-> uuids', relatesTo |-> NoId,
                                num |-> proxyHeader'.num])

\* A send goes on to the next call, or throws SoapException.
Sent(kind, ok, next) ==
  /\ Loopback(kind)
  /\ main' = IF ok THEN next ELSE "leave"
  /\ threw' = ~ok
  /\ mainStep' = "idle"
  /\ UNCHANGED <<asserts, listener, locked, alive, turns, messageNumber, listenerView,
                 listenerStep, overlap, master, object, phase, header, copies,
                 received, failed>>

Numbered == mainStep \in {"stored", "read"}

SendHello(ok) == main = "hello" /\ Numbered /\ Proxy!Hello(ok) /\ Sent("Hello", ok, "bye")

SendBye(ok) == main = "bye" /\ Numbered /\ Proxy!Bye(ok) /\ Sent("Bye", ok, "probe")

\* The proxy's probe() has no return statement either: when it comes back, main
\* destroys a vector nobody made.
SendProbe(ok, crash) ==
  /\ main = "probe"
  /\ Proxy!Probe(ok)
  /\ Sent("Probe", ok, IF crash THEN "crashed" ELSE "join")

\* Mutant of Join: main does not wait for the listener.
JoinNobody ==
  /\ main = "join"
  /\ main' = "leave"
  /\ UNCHANGED <<locked, alive, threw, counter>>
  /\ MainUnchanged

Join ==
  /\ main = "join" /\ listener = "done"
  /\ main' = "leave"
  /\ UNCHANGED <<locked, alive, threw, counter>>
  /\ MainUnchanged

\* The end of the try block, at its foot or by an exception: the lock is
\* released, the thread detached, the listener's object destroyed.
Leave ==
  /\ main = "leave"
  /\ main' = "return" /\ locked' = FALSE /\ alive' = FALSE
  /\ UNCHANGED <<threw, counter>>
  /\ MainUnchanged

\* main() returns: 0, or 2 from the catch.
Exit ==
  /\ main = "return"
  /\ main' = "exited"
  /\ UNCHANGED <<locked, alive, threw, counter>>
  /\ MainUnchanged

Main ==
  \/ Start \/ Enter \/ OpenProxy \/ MainLoad \/ MainStore \/ MainReadAgain
  \/ \E ok \in BOOLEAN : SendHello(ok) \/ SendBye(ok)
  \/ \E ok, crash \in BOOLEAN : SendProbe(ok, crash)
  \/ Join \/ Leave \/ Exit
-----------------------------------------------------------------------------
(***************************************************************************)
(* The listener thread: run().                                             *)
(***************************************************************************)
At(place) == listener = place /\ ~Ended

ListenerUnchanged == UNCHANGED <<asserts, alive, threw, proxyHeader>>

GoTo(place) == listener' = place /\ ListenerUnchanged /\ UNCHANGED <<main, locked, turns>>

\* Mutant of BindListener: the assertion is about the bound socket only.
BindOpen(outcome) ==
  /\ At("bind") /\ asserts
  /\ Service!Bind(TRUE, outcome)
  /\ main' = IF outcome = "none" THEN "aborted" ELSE main
  /\ listener' = "unlock"
  /\ UNCHANGED <<locked, turns, counter>>
  /\ ListenerUnchanged

\* BOOST_ASSERT(service->bind(this) != -1): in a build without assertions the
\* call is not made at all.
BindListener(outcome) ==
  /\ At("bind") /\ asserts
  /\ Service!Bind(TRUE, outcome)
  /\ main' = IF outcome = "member" THEN main ELSE "aborted"
  /\ listener' = "unlock"
  /\ UNCHANGED <<locked, turns, counter>>
  /\ ListenerUnchanged

BindNothing ==
  /\ At("bind") /\ ~asserts
  /\ GoTo("unlock")
  /\ UNCHANGED <<service, out, counter>>

Unlock ==
  /\ At("unlock")
  /\ locked' = FALSE /\ listener' = "loop"
  /\ UNCHANGED <<main, turns, service, out, counter>>
  /\ ListenerUnchanged

\* Mutant of Turn: a loop without an end.
TurnForever ==
  /\ At("loop")
  /\ GoTo("serve")
  /\ UNCHANGED <<service, out, counter>>

\* The head of the loop, and accept(): a bound UDP socket is its own
\* connection; without one the result, -1, is only asserted about.
Turn ==
  /\ At("loop")
  /\ IF turns = MaxTurns THEN listener' = "close" /\ UNCHANGED turns
                         ELSE listener' = "serve" /\ turns' = turns + 1
  /\ UNCHANGED <<main, locked, service, out, counter>>
  /\ ListenerUnchanged

\* serve() but for the handler of a Probe.
ServeOne ==
  /\ At("serve")
  /\ \/ Service!ReceiveTimeout \/ Service!Receive
     \/ Service!DispatchSilent \/ Service!DispatchUnknown
     \/ Service!SendCopy \/ Service!SendFails \/ Service!SendFault
  /\ GoTo("serve")
  /\ UNCHANGED <<messageNumber, mainView, mainStep, listenerStep, overlap>>

\* serve() of a service without a socket reads the context's file descriptor,
\* which is standard input.  No timeout bounds that: it may read for ever.
AtStdin == listener = "serve" /\ master = "none" /\ phase = "idle"

ReadStdin(d) ==
  /\ At("serve") /\ AtStdin
  /\ Len(received) + Len(inbox) < MaxArrivals
  /\ Service!Take(d)
  /\ GoTo("serve")
  /\ UNCHANGED <<master, object, copies, inbox, out, counter>>

StdinEnds ==
  /\ At("serve") /\ AtStdin
  /\ phase' = "eof"
  /\ GoTo("serve")
  /\ UNCHANGED <<master, object, header, copies, inbox, received, failed, out, counter>>

\* A Probe there is an object to ask about.
Probed == At("serve") /\ phase = "dispatch" /\ Service!Current.kind = "Probe" /\ object

\* Wsa::messageNumber in the handler of a Probe.
ListenerLoad ==
  /\ Probed /\ listenerStep = "idle"
  /\ listenerView' = messageNumber /\ listenerStep' = "loaded"
  /\ overlap' = (overlap \/ mainStep # "idle")
  /\ GoTo("serve")
  /\ UNCHANGED <<service, out, messageNumber, mainView, mainStep>>

ListenerStore ==
  /\ Probed /\ listenerStep = "loaded"
  /\ messageNumber' = NextNumber(listenerView) /\ listenerStep' = "stored"
  /\ GoTo("serve")
  /\ UNCHANGED <<service, out, mainView, mainStep, listenerView, overlap>>

ListenerReadAgain ==
  /\ Probed /\ listenerStep = "stored"
  /\ listenerView' = messageNumber - 1 /\ listenerStep' = "read"
  /\ GoTo("serve")
  /\ UNCHANGED <<service, out, messageNumber, mainView, mainStep, overlap>>

\* The rest of the handler.  The object's probe() has no return statement: what
\* it leaves is used as a vector, which may be served, be too large to reserve
\* room for, or be no vector at all.
HandleProbe(crash) ==
  /\ Probed /\ listenerStep \in {"stored", "read"}
  /\ \E tooLarge \in BOOLEAN : Service!DispatchProbe(tooLarge)
  /\ main' = IF crash THEN "crashed" ELSE main
  /\ listenerStep' = "idle"
  /\ UNCHANGED <<listener, locked, turns, messageNumber, mainView, mainStep, overlap>>
  /\ ListenerUnchanged

\* SOAP_OK: destroy() and the next turn.  -1, for a timeout, and perhaps for
\* what is no envelope: the next turn.  Anything else is thrown.
Served ==
  /\ At("serve")
  /\ Service!Return
  /\ \/ phase \in {"ok", "eof"} /\ GoTo("loop")
     \/ phase = "failed" /\ Service!Current.kind = "Garbage" /\ GoTo("loop")
     \/ phase = "failed" /\ GoTo("close")
  /\ UNCHANGED <<messageNumber, mainView, mainStep, listenerStep, overlap>>

\* The service is a local of the try block.
CloseService ==
  /\ At("close")
  /\ Service!Close
  /\ GoTo("done")
  /\ UNCHANGED <<messageNumber, mainView, mainStep, listenerStep, overlap>>

Listener ==
  \/ \E outcome \in Service!BindOutcomes : BindListener(outcome)
  \/ BindNothing \/ Unlock \/ Turn \/ ServeOne
  \/ ListenerLoad \/ ListenerStore \/ ListenerReadAgain
  \/ \E crash \in BOOLEAN : HandleProbe(crash)
  \/ Served \/ CloseService
-----------------------------------------------------------------------------
PeerSends(d) ==
  /\ ~Ended
  /\ Service!Arrive(d)
  /\ UNCHANGED <<messageNumber, mainView, mainStep, listenerStep, overlap, control,
                 proxyHeader>>

Over == Ended /\ UNCHANGED vars

Stdin == StdinEnds \/ \E d \in Datagrams : ReadStdin(d)

Next ==
  (~Ended /\ Main) \/ Listener \/ Stdin \/ (\E d \in Datagrams : PeerSends(d)) \/ Over

\* Both threads keep running; socket operations return within their timeouts.
\* Nothing is assumed of standard input.
Spec == Init /\ [][Next]_vars /\ WF_vars(~Ended /\ Main) /\ WF_vars(Listener)
-----------------------------------------------------------------------------
Steps == {"idle", "loaded", "stored", "read"}

TypeOK ==
  /\ asserts \in BOOLEAN /\ locked \in BOOLEAN /\ alive \in BOOLEAN
  /\ threw \in BOOLEAN /\ overlap \in BOOLEAN
  /\ main \in {"start", "wait", "open", "hello", "bye", "probe", "join", "leave",
               "return", "exited", "aborted", "crashed"}
  /\ listener \in {"none", "bind", "unlock", "loop", "serve", "close", "done"}
  /\ turns \in 0..MaxTurns
  /\ mainStep \in Steps /\ listenerStep \in Steps
  /\ mainView \in Nat /\ listenerView \in Nat /\ messageNumber \in Nat
  /\ \A i \in 1..Len(sent) : sent[i].kind # "Probe" => sent[i].num \in 1..(MaxArrivals + 2)

\* With assertions, main announces the device only to a listener that hears it:
\* bound, in the group and with its object, unless the listener has given up.
ListensWhenTold ==
  asserts /\ main \in {"open", "hello", "bye", "probe", "join"} /\ listener # "done"
    => master = "member" /\ object

\* If no two increments overlapped, different messages have different numbers.
\* And whatever overlapped, Bye is not numbered below Hello: the listener's
\* store of a stale number may bring Bye down to Hello's number, not further.
NumbersTellMessages ==
  \A i, j \in 1..Len(sent) :
    /\ ~overlap /\ "Probe" \notin {sent[i].kind, sent[j].kind} /\ sent[i].num = sent[j].num
         => sent[i] = sent[j]
    /\ sent[i].kind = "Hello" /\ sent[j].kind = "Bye" => sent[i].num <= sent[j].num

\* The listener's object is destroyed under a running listener only if one of
\* main's sends failed.
ObjectOutlivesListener == ~alive /\ ~threw => listener = "done"

\* Once the listener is started the process ends, by whatever way: main is let
\* in, the listener's loop has an end, and so has join().  Unless there are no
\* assertions, hence no socket, and the listener reads standard input for ever.
RunEnds == main = "wait" ~> (Ended \/ [](~asserts /\ AtStdin))
=============================================================================
