-------------------------- MODULE TestProgramProofs --------------------------
(***************************************************************************)
(* The two threads of the test program, for every set of datagrams, every  *)
(* number of turns and both builds: the mutex holds main back until the    *)
(* listener hears, and the listener's object outlives the listener unless  *)
(* a send failed.  Neither depends on the numbers or on the messages; what *)
(* the unlocked message counter does to those is the second half.          *)
(***************************************************************************)
EXTENDS TestProgram, TLAPS

Serving == {"loop", "serve", "close"}

Announcing == {"open", "hello", "bye", "probe", "join"}

\* The mutex is locked for the listener until that has bound its socket.
LockInv ==
  /\ main = "start" => listener = "none"
  /\ main = "wait" =>
       \/ listener \in {"bind", "unlock"} /\ locked
       \/ listener \in Serving \cup {"done"}
  /\ main \in Announcing => listener \in Serving \cup {"done"}

\* Past an asserted bind() the socket is in the group.
HeardInv ==
  asserts /\ listener \in Serving \cup {"unlock"} /\ ~Ended => master = "member" /\ object

\* How main can have left its try block.
BlockInv ==
  /\ main \in {"leave", "return", "exited"} /\ ~threw => listener = "done"
  /\ ~alive => main \in {"return", "exited", "aborted", "crashed"}
  /\ ~alive /\ ~threw => listener = "done"

ThreadsInv == LockInv /\ HeardInv /\ BlockInv

\* Neither thread has begun.
LEMMA ThreadsInit == Init => ThreadsInv
BY DEF Init, ThreadsInv, LockInv, HeardInv, BlockInv, Ended, Serving, Announcing

\* The steps of main, up to the thread's start and into its own block.
LEMMA MainStep == ThreadsInv /\ ~Ended /\ Main => ThreadsInv'
<1> SUFFICES ASSUME ThreadsInv, ~Ended, Main PROVE ThreadsInv'
  OBVIOUS
<1> USE DEF ThreadsInv, LockInv, HeardInv, BlockInv, Ended, Serving, Announcing
<1>1. CASE Start \/ Enter
  BY <1>1 DEF Start, Enter, MainUnchanged, service
<1>2. CASE OpenProxy
  BY <1>2 DEF OpenProxy, service
<1>3. CASE MainLoad \/ MainStore \/ MainReadAgain
  BY <1>3 DEF MainLoad, MainStore, MainReadAgain, MainUnchanged, service
<1>4. ASSUME NEW ok \in BOOLEAN, NEW crash \in BOOLEAN,
             SendHello(ok) \/ SendBye(ok) \/ SendProbe(ok, crash)
      PROVE  ThreadsInv'
  <2>1. /\ main \in Announcing /\ UNCHANGED <<asserts, listener, alive, master, object>>
        /\ main' = "leave" => ~ok
        /\ main' \in Announcing \cup {"leave", "crashed"}
    BY <1>4 DEF SendHello, SendBye, SendProbe, Sent
  <2>2. threw' = ~ok
    BY <1>4 DEF SendHello, SendBye, SendProbe, Sent
  <2>3. main' = "leave" => threw'
    BY <2>1, <2>2, Zenon
  <2> QED
    BY <2>1, <2>3
<1>5. CASE Join \/ Leave \/ Exit
  BY <1>5 DEF Join, Leave, Exit, MainUnchanged, service
<1> QED
  BY <1>1, <1>2, <1>3, <1>4, <1>5 DEF Main

\* The steps of the listener.
LEMMA ListenerStep == ThreadsInv /\ Listener => ThreadsInv'
<1> SUFFICES ASSUME ThreadsInv, Listener PROVE ThreadsInv'
  OBVIOUS
<1> USE DEF ThreadsInv, LockInv, HeardInv, BlockInv, Ended, Serving, Announcing, At,
            GoTo, ListenerUnchanged
<1>1. ASSUME NEW outcome \in Service!BindOutcomes, BindListener(outcome)
      PROVE  ThreadsInv'
  BY <1>1 DEF BindListener, Service!Bind
<1>2. CASE BindNothing \/ Unlock \/ Turn
  BY <1>2 DEF BindNothing, Unlock, Turn, service
<1>3. CASE ServeOne
  <2>1. /\ listener = "serve" /\ listener' = "serve" /\ ~Ended
        /\ UNCHANGED <<asserts, alive, threw, main, locked, master, object>>
    BY <1>3 DEF ServeOne, Service!ReceiveTimeout, Service!Receive, Service!Take,
       Service!DispatchSilent, Service!DispatchUnknown, Service!SendCopy,
       Service!SendFails, Service!SendFault
  <2> QED
    BY <2>1
<1>4. CASE ListenerLoad \/ ListenerStore \/ ListenerReadAgain
  BY <1>4 DEF Probed, ListenerLoad, ListenerStore, ListenerReadAgain, service
<1>5. ASSUME NEW crash \in BOOLEAN, HandleProbe(crash) PROVE ThreadsInv'
  BY <1>5 DEF HandleProbe, Probed, Service!DispatchProbe
<1>6. CASE Served
  BY <1>6 DEF Served, Service!Return
<1>7. CASE CloseService
  BY <1>7 DEF CloseService, Service!Close
<1> QED
  BY <1>1, <1>2, <1>3, <1>4, <1>5, <1>6, <1>7 DEF Listener

\* Reading standard input, the listener stays where it is.
LEMMA StdinStep == ThreadsInv /\ Stdin => ThreadsInv'
<1> SUFFICES ASSUME ThreadsInv, Stdin PROVE ThreadsInv'
  OBVIOUS
<1>1. /\ listener = "serve" /\ listener' = "serve"
      /\ UNCHANGED <<asserts, alive, threw, main, locked, master, object>>
  BY DEF Stdin, ReadStdin, StdinEnds, At, AtStdin, GoTo, ListenerUnchanged
<1> QED
  BY <1>1 DEF ThreadsInv, LockInv, HeardInv, BlockInv, Ended, Serving, Announcing

\* Every step preserves what the threads know of each other.
LEMMA ThreadsStep == ThreadsInv /\ [Next]_vars => ThreadsInv'
<1> SUFFICES ASSUME ThreadsInv, [Next]_vars PROVE ThreadsInv'
  OBVIOUS
<1>1. CASE UNCHANGED <<control, master, object>>
  BY <1>1 DEF control, ThreadsInv, LockInv, HeardInv, BlockInv, Ended, Serving,
     Announcing
<1>2. ASSUME NEW d \in Datagrams, PeerSends(d)
      PROVE  UNCHANGED <<control, master, object>>
  BY <1>2 DEF PeerSends, Service!Arrive
<1>3. CASE UNCHANGED vars
  BY <1>1, <1>3 DEF vars, control, service
<1> QED
  BY <1>1, <1>2, <1>3, MainStep, ListenerStep, StdinStep DEF Next, Over
-----------------------------------------------------------------------------
\* The mutex and the end of the try block keep the threads apart throughout.
THEOREM Invariance == Spec => []ThreadsInv
BY ThreadsInit, ThreadsStep, PTL DEF Spec

\* With assertions, nothing is announced before the listener hears the group.
THEOREM ListeningTheorem == Spec => []ListensWhenTold
<1>1. ThreadsInv => ListensWhenTold
  BY DEF ThreadsInv, LockInv, HeardInv, Ended, Serving, Announcing, ListensWhenTold
<1> QED
  BY <1>1, Invariance, PTL

\* Only a send that fails lets main destroy the object of a running listener.
THEOREM ObjectTheorem == Spec => []ObjectOutlivesListener
<1>1. ThreadsInv => ObjectOutlivesListener
  BY DEF ThreadsInv, BlockInv, ObjectOutlivesListener
<1> QED
  BY <1>1, Invariance, PTL
-----------------------------------------------------------------------------
(***************************************************************************)
(* The inductive invariant behind the types and NumbersTellMessages.       *)
(***************************************************************************)
Names == {NoId} \cup Nat \cup {d.id : d \in Datagrams} \cup {d.relatesTo : d \in Datagrams}

Headers ==
  [id : Names, relatesTo : Names, num : Nat \cup {d.num : d \in Datagrams}]

ProxyHeaders == [id : {NoId} \cup Nat, relatesTo : {NoId}, num : Nat]

\* What reaches the socket: from peers, or looped back.
Inbound ==
  Datagrams \cup [kind : {"Hello", "Bye", "Probe"}, id : Nat, relatesTo : {NoId}, num : Nat]

Outbound ==
  [kind : {"Hello", "Bye", "Probe", "ProbeMatches"}, id : Names, relatesTo : Names,
   num : Nat, cause : Nat]

Handling == {"dispatch", "respond", "fault"}

\* What is in the logs, at the socket and in the headers.
WireInv ==
  /\ received \in Seq(Inbound) /\ inbox \in Seq(Inbound)
  /\ Len(received) + Len(inbox) <= MaxArrivals
  /\ sent \in Seq(Outbound) /\ uuids \in Nat
  /\ header \in Headers
  /\ proxyHeader \in ProxyHeaders

\* Where the threads can be inside an increment.
StepInv ==
  /\ master # "none" => object
  /\ phase \in Handling => received # <<>>
  /\ mainStep \in Steps /\ listenerStep \in Steps
  /\ mainStep # "idle" => main \in {"hello", "bye"} \/ Ended
  /\ listenerStep # "idle" =>
       phase = "dispatch" /\ Service!Current.kind = "Probe" /\ object

ShapeInv == WireInv /\ StepInv

\* The increments each thread may have stored: main one for Hello and one for
\* Bye, the listener one for each datagram but the one it has not got to.
MainStores ==
  (IF main \in {"start", "wait", "open", "hello"} THEN 0
     ELSE IF main = "bye" THEN 1 ELSE 2)
  + (IF main \in {"hello", "bye"} /\ Numbered THEN 1 ELSE 0)

ListenerStores ==
  IF phase = "dispatch" /\ listenerStep \in {"idle", "loaded"} THEN Len(received) - 1
                                                              ELSE Len(received)

Stores == MainStores + ListenerStores

\* No number in the program is above the increments that were stored.
CountInv ==
  /\ messageNumber \in 0..Stores /\ mainView \in Nat /\ listenerView \in Nat
  /\ mainStep = "loaded" => mainView <= Stores
  /\ listenerStep = "loaded" => listenerView <= Stores
  /\ Numbered => mainView < Stores /\ messageNumber > 0
  /\ listenerStep \in {"stored", "read"} => listenerView < Stores /\ messageNumber > 0
  /\ phase = "respond" => header.num \in 1..Stores
  /\ \A i \in 1..Len(sent) : sent[i].kind # "Probe" => sent[i].num \in 1..Stores

\* While no increment overlaps another, a number that was stored is above all
\* that were sent, and the response at hand has its number to itself.
UniqueInv ==
  ~overlap =>
    /\ mainStep = "idle" \/ listenerStep = "idle"
    /\ mainStep = "loaded" => mainView = messageNumber
    /\ listenerStep = "loaded" => listenerView = messageNumber
    /\ Numbered => /\ mainView + 1 = messageNumber
                   /\ phase = "respond" => header.num < messageNumber
    /\ listenerStep \in {"stored", "read"} => listenerView + 1 = messageNumber
    /\ phase = "respond" => header.num <= messageNumber
    /\ \A i \in 1..Len(sent) : sent[i].kind # "Probe" =>
         /\ sent[i].num <= messageNumber
         /\ Numbered \/ listenerStep \in {"stored", "read"} => sent[i].num < messageNumber
         /\ phase = "respond" /\ sent[i].num = header.num
              => sent[i] = Message("ProbeMatches", header, Len(received))
    /\ \A i, j \in 1..Len(sent) :
         "Probe" \notin {sent[i].kind, sent[j].kind} /\ sent[i].num = sent[j].num
           => sent[i] = sent[j]

\* Only the listener stores until main stores Hello's number, so what it has
\* loaded then is at most one behind; after that no number falls below Hello's.
OrderInv ==
  /\ main \in {"start", "wait", "open", "hello"} =>
       \A i \in 1..Len(sent) : sent[i].kind \notin {"Hello", "Bye"}
  /\ main = "bye" => \A i \in 1..Len(sent) : sent[i].kind # "Bye"
  /\ main \in {"start", "wait", "open", "hello"} /\ ~Numbered /\ listenerStep = "loaded"
       => listenerView = messageNumber
  /\ main = "hello" /\ mainStep = "loaded" => mainView <= messageNumber
  /\ main = "hello" /\ Numbered =>
       /\ mainView < messageNumber
       /\ listenerStep = "loaded" => messageNumber <= listenerView + 1
  /\ \A i \in 1..Len(sent) : sent[i].kind = "Hello" =>
       /\ sent[i].num <= messageNumber
       /\ listenerStep = "loaded" => sent[i].num <= listenerView + 1
       /\ main = "bye" /\ mainStep = "loaded" => sent[i].num <= mainView
       /\ main = "bye" /\ Numbered => sent[i].num <= mainView + 1
       /\ \A j \in 1..Len(sent) : sent[j].kind = "Bye" => sent[i].num <= sent[j].num

NumbersInv == ShapeInv /\ CountInv /\ UniqueInv /\ OrderInv

\* Neither thread stores more often than it has reasons to.
LEMMA Counts ==
  ASSUME ShapeInv
  PROVE  /\ Len(received) \in Nat /\ Len(inbox) \in Nat /\ Len(sent) \in Nat
         /\ MainStores \in 0..2 /\ ListenerStores \in 0..MaxArrivals
         /\ Stores \in 0..(MaxArrivals + 2)
         /\ mainStep = "loaded" /\ ~Ended => Stores < MaxArrivals + 2
         /\ listenerStep = "loaded" => Stores < MaxArrivals + 2
<1> USE TestBounds
<1>1. Len(received) \in Nat /\ Len(inbox) \in Nat /\ Len(sent) \in Nat
  BY DEF ShapeInv, WireInv
<1>2. phase = "dispatch" => Len(received) >= 1
  BY <1>1 DEF ShapeInv, WireInv, StepInv, Handling
<1>3. /\ ListenerStores \in 0..MaxArrivals
      /\ listenerStep = "loaded" => ListenerStores <= MaxArrivals - 1
  BY <1>1, <1>2 DEF ShapeInv, WireInv, StepInv, ListenerStores
<1>4. MainStores \in 0..2 /\ (mainStep = "loaded" /\ ~Ended => MainStores <= 1)
  BY DEF ShapeInv, WireInv, StepInv, MainStores, Numbered
<1> QED
  BY <1>1, <1>3, <1>4 DEF Stores

\* So no number wraps.
LEMMA NoWrap ==
  ASSUME NEW v \in Nat, v < MaxArrivals + 2
  PROVE  NextNumber(v) = v + 1 /\ Proxy!NextNumber(v) = v + 1 /\ Service!NextNumber(v) = v + 1
<1>1. v + 1 \in Nat /\ v + 1 < UintMod /\ UintMod \in Nat \ {0}
  BY TestBounds, UintModAssumption
<1>2. (v + 1) % UintMod = v + 1
  BY <1>1, SMT
<1> QED
  BY <1>2 DEF NextNumber, Proxy!NextNumber, Service!NextNumber

LEMMA NamesHold == NoId \in Names /\ Nat \subseteq Names
BY DEF Names

\* The header of an announcement, and of a Probe.
LEMMA AnnounceHeader ==
  ASSUME NEW hdr \in ProxyHeaders, NEW n \in Nat, NEW v \in Nat, NEW h,
         h = Proxy!AddAppSequence(Proxy!Request(hdr, n), v)
  PROVE  h = [id |-> n, relatesTo |-> NoId, num |-> v] /\ h \in ProxyHeaders
BY DEF ProxyHeaders, Proxy!AddAppSequence, Proxy!Request

LEMMA QuestionHeader ==
  ASSUME NEW hdr \in ProxyHeaders, NEW n \in Nat, NEW h, h = Proxy!Request(hdr, n)
  PROVE  h = [id |-> n, relatesTo |-> NoId, num |-> hdr.num] /\ h \in ProxyHeaders
BY DEF ProxyHeaders, Proxy!Request

\* The header of an answer.
LEMMA AnswerHeader ==
  ASSUME NEW hdr \in Headers, NEW n \in Nat, NEW v \in Nat, NEW h,
         h = Service!ProbeHeader(hdr, n, v)
  PROVE  h.num = v /\ h \in Headers
BY DEF Headers, Names, Service!ProbeHeader, Service!AddAppSequence, Service!AddRelatesTo,
       Service!Request

LEMMA FreshHeaders ==
  NoHeader \in ProxyHeaders /\ Proxy!NoHeader \in ProxyHeaders /\ Service!NoHeader \in Headers
BY DEF NoHeader, Proxy!NoHeader, Service!NoHeader, ProxyHeaders, Headers, Names

\* Nothing is sent at first.
LEMMA NumbersInit == Init => NumbersInv
<1> SUFFICES ASSUME Init PROVE NumbersInv
  OBVIOUS
<1> USE DEF Init, Service!Init
<1>1. ShapeInv
  BY FreshHeaders, TestBounds DEF ShapeInv, WireInv, StepInv, Handling, Steps
<1>2. MainStores = 0 /\ ListenerStores = 0 /\ Stores = 0
  BY DEF MainStores, ListenerStores, Stores, Numbered
<1>3. CountInv
  BY <1>2 DEF CountInv, Numbered
<1>4. UniqueInv /\ OrderInv
  BY DEF UniqueInv, OrderInv, Numbered
<1> QED
  BY <1>1, <1>3, <1>4 DEF NumbersInv
-----------------------------------------------------------------------------
(***************************************************************************)
(* What the steps that send do.                                            *)
(***************************************************************************)
\* Hello and Bye: the thread's number is final, and its increment over.
LEMMA AnnounceEffect ==
  ASSUME ShapeInv, CountInv, ~Ended, NEW ok \in BOOLEAN, SendHello(ok) \/ SendBye(ok)
  PROVE  /\ \/ main = "hello" /\ main' = (IF ok THEN "bye" ELSE "leave")
            \/ main = "bye" /\ main' = (IF ok THEN "probe" ELSE "leave")
         /\ Numbered /\ mainStep' = "idle" /\ mainView' = mainView + 1
         /\ uuids' = uuids + 1 /\ proxyHeader' \in ProxyHeaders
         /\ proxyHeader'.num = mainView + 1
         /\ sent' =
              IF ok THEN Append(sent, [kind |-> IF main = "hello" THEN "Hello" ELSE "Bye",
                                       id |-> uuids + 1, relatesTo |-> NoId,
                                       num |-> mainView + 1, cause |-> 0])
                    ELSE sent
<1>1. PICK kind \in {"Hello", "Bye"} :
        /\ main = (IF kind = "Hello" THEN "hello" ELSE "bye") /\ Numbered
        /\ Proxy!Announce(kind, ok)
        /\ Sent(kind, ok, IF kind = "Hello" THEN "bye" ELSE "probe")
  BY DEF SendHello, SendBye, Proxy!Hello, Proxy!Bye
<1>2. mainView \in Nat /\ mainView < MaxArrivals + 2 /\ uuids \in Nat
      /\ proxyHeader \in ProxyHeaders
  BY <1>1, Counts, TestBounds DEF CountInv, ShapeInv, WireInv
<1>3. uuids' = uuids + 1 /\ mainView' = mainView + 1
  BY <1>1, <1>2, NoWrap DEF Proxy!Announce
<1>4. /\ proxyHeader' = Proxy!AddAppSequence(Proxy!Request(proxyHeader, uuids'), mainView')
      /\ sent' = IF ok THEN Append(sent, Proxy!Message(kind, proxyHeader', 0)) ELSE sent
  BY <1>1 DEF Proxy!Announce, Proxy!Send
<1>5. /\ proxyHeader' = [id |-> uuids + 1, relatesTo |-> NoId, num |-> mainView + 1]
      /\ proxyHeader' \in ProxyHeaders
  <2>1. uuids' \in Nat /\ mainView' \in Nat
    BY <1>2, <1>3
  <2> QED
    BY <1>2, <1>3, <1>4, <2>1, AnnounceHeader
<1>6. Proxy!Message(kind, proxyHeader', 0)
        = [kind |-> kind, id |-> uuids + 1, relatesTo |-> NoId, num |-> mainView + 1,
           cause |-> 0]
  BY <1>5 DEF Proxy!Message
<1>7. mainStep' = "idle" /\ main' = (IF ok THEN IF kind = "Hello" THEN "bye" ELSE "probe"
                                           ELSE "leave")
  BY <1>1 DEF Sent
<1> HIDE DEF Numbered
<1> QED
  BY <1>1, <1>3, <1>4, <1>5, <1>6, <1>7

\* A Probe takes an id and no number.
LEMMA QuestionEffect ==
  ASSUME ShapeInv, NEW ok \in BOOLEAN, NEW crash \in BOOLEAN, SendProbe(ok, crash)
  PROVE  /\ main = "probe" /\ main' \in {"join", "leave", "crashed"} /\ mainStep' = "idle"
         /\ mainView' = mainView /\ uuids' = uuids + 1
         /\ proxyHeader' \in ProxyHeaders
         /\ sent' = IF ok THEN Append(sent, [kind |-> "Probe", id |-> uuids + 1,
                                             relatesTo |-> NoId, num |-> proxyHeader.num,
                                             cause |-> 0])
                          ELSE sent
<1>1. /\ main = "probe" /\ Proxy!Probe(ok)
      /\ Sent("Probe", ok, IF crash THEN "crashed" ELSE "join")
  BY DEF SendProbe
<1>2. uuids \in Nat /\ proxyHeader \in ProxyHeaders
  BY DEF ShapeInv, WireInv
<1>3. /\ uuids' = uuids + 1 /\ mainView' = mainView
      /\ proxyHeader' = Proxy!Request(proxyHeader, uuids')
      /\ sent' = IF ok THEN Append(sent, Proxy!Message("Probe", proxyHeader', 0)) ELSE sent
  BY <1>1 DEF Proxy!Probe, Proxy!Send
<1>4. /\ proxyHeader' = [id |-> uuids + 1, relatesTo |-> NoId, num |-> proxyHeader.num]
      /\ proxyHeader' \in ProxyHeaders
  <2>1. uuids' \in Nat
    BY <1>2, <1>3
  <2> QED
    BY <1>2, <1>3, <2>1, QuestionHeader
<1>5. Proxy!Message("Probe", proxyHeader', 0)
        = [kind |-> "Probe", id |-> uuids + 1, relatesTo |-> NoId, num |-> proxyHeader.num,
           cause |-> 0]
  BY <1>4 DEF Proxy!Message
<1>6. mainStep' = "idle" /\ main' \in {"join", "leave", "crashed"}
  BY <1>1 DEF Sent
<1> QED
  BY <1>1, <1>3, <1>4, <1>5, <1>6

\* What comes back to the socket is what was sent, if there is room.
LEMMA LoopbackShape ==
  ASSUME ShapeInv, NEW kind \in {"Hello", "Bye", "Probe"}, Loopback(kind),
         uuids' \in Nat, proxyHeader'.num \in Nat
  PROVE  inbox' \in Seq(Inbound) /\ Len(received) + Len(inbox') <= MaxArrivals
<1>1. CASE UNCHANGED inbox
  BY <1>1 DEF ShapeInv, WireInv
<1>2. ASSUME NEW d, inbox' = Append(inbox, d), d \in Inbound,
             Len(received) + Len(inbox) < MaxArrivals
      PROVE  inbox' \in Seq(Inbound) /\ Len(received) + Len(inbox') <= MaxArrivals
  <2>1. inbox' \in Seq(Inbound) /\ Len(inbox') = Len(inbox) + 1
    BY <1>2 DEF ShapeInv, WireInv
  <2> QED
    BY <1>2, <2>1, Counts, TestBounds
<1>3. [kind |-> kind, id |-> uuids', relatesTo |-> NoId, num |-> proxyHeader'.num] \in Inbound
  BY DEF Inbound
<1> QED
  BY <1>1, <1>2, <1>3 DEF Loopback
-----------------------------------------------------------------------------
(***************************************************************************)
(* The shapes.                                                             *)
(***************************************************************************)
LEMMA MainShape ==
  ASSUME ShapeInv, CountInv, ~Ended, Main
  PROVE  ShapeInv'
<1>1. CASE Start \/ Enter \/ Join \/ Leave \/ Exit
  <2>1. mainStep = "idle" /\ UNCHANGED <<service, out, proxyHeader, counter>>
    BY <1>1 DEF Start, Enter, Join, Leave, Exit, MainUnchanged, ShapeInv, StepInv, Ended
  <2> QED
    BY <2>1 DEF ShapeInv, WireInv, StepInv, Service!Current, service, out, counter
<1>2. CASE OpenProxy
  <2>1. /\ mainStep = "idle" /\ proxyHeader' \in ProxyHeaders
        /\ UNCHANGED <<service, uuids, sent, mainStep, listenerStep>>
    BY <1>2, FreshHeaders DEF OpenProxy, Proxy!Open, ShapeInv, WireInv, StepInv, Ended
  <2> QED
    BY <2>1 DEF ShapeInv, WireInv, StepInv, Service!Current, service
<1>3. CASE MainLoad \/ MainStore \/ MainReadAgain
  <2>1. /\ main' = main /\ mainStep' \in {"loaded", "stored", "read"}
        /\ listenerStep' = listenerStep
        /\ main \in {"hello", "bye"}
        /\ UNCHANGED <<service, out, proxyHeader>>
    BY <1>3 DEF MainLoad, MainStore, MainReadAgain, MainUnchanged, ShapeInv, StepInv
  <2> QED
    BY <2>1 DEF ShapeInv, WireInv, StepInv, Service!Current, service, out, Steps
<1>4. ASSUME NEW ok \in BOOLEAN, NEW crash \in BOOLEAN,
             SendHello(ok) \/ SendBye(ok) \/ SendProbe(ok, crash)
      PROVE  ShapeInv'
  <2>1. PICK kind \in {"Hello", "Bye", "Probe"} : \E next : Sent(kind, ok, next)
    BY <1>4 DEF SendHello, SendBye, SendProbe
  <2>2. /\ mainStep' = "idle" /\ Loopback(kind)
        /\ UNCHANGED <<listenerStep, master, object, phase, header, received>>
    BY <2>1 DEF Sent
  <2>3. /\ uuids' = uuids + 1 /\ proxyHeader' \in ProxyHeaders
        /\ \/ sent' = sent
           \/ \E m \in Outbound : sent' = Append(sent, m)
    <3>1. CASE SendHello(ok) \/ SendBye(ok)
      <4>1. mainView \in Nat /\ uuids \in Nat
        BY DEF CountInv, ShapeInv, WireInv
      <4>2. [kind |-> IF main = "hello" THEN "Hello" ELSE "Bye", id |-> uuids + 1,
             relatesTo |-> NoId, num |-> mainView + 1, cause |-> 0] \in Outbound
        BY <4>1, NamesHold DEF Outbound
      <4> QED
        BY <3>1, <4>2, AnnounceEffect
    <3>2. CASE SendProbe(ok, crash)
      <4>1. proxyHeader.num \in Nat /\ uuids \in Nat
        BY DEF ShapeInv, WireInv, ProxyHeaders
      <4>2. [kind |-> "Probe", id |-> uuids + 1, relatesTo |-> NoId,
             num |-> proxyHeader.num, cause |-> 0] \in Outbound
        BY <4>1, NamesHold DEF Outbound
      <4> QED
        BY <3>2, <4>2, QuestionEffect
    <3> QED
      BY <1>4, <3>1, <3>2
  <2>4. uuids' \in Nat /\ proxyHeader'.num \in Nat
    BY <2>3 DEF ShapeInv, WireInv, ProxyHeaders
  <2>5. inbox' \in Seq(Inbound) /\ Len(received) + Len(inbox') <= MaxArrivals
    BY <2>2, <2>4, LoopbackShape
  <2>6. sent' \in Seq(Outbound)
    <3>1. sent \in Seq(Outbound)
      BY DEF ShapeInv, WireInv
    <3> QED
      BY <2>3, <3>1
  <2> QED
    <3>1. WireInv'
      BY <2>2, <2>3, <2>4, <2>5, <2>6 DEF ShapeInv, WireInv
    <3>2. StepInv'
      BY <2>2 DEF ShapeInv, StepInv, Steps, Service!Current
    <3> QED
      BY <3>1, <3>2 DEF ShapeInv
<1> QED
  BY <1>1, <1>2, <1>3, <1>4 DEF Main

\* A datagram that is taken: from the socket, or from standard input.
Taken ==
  /\ received' \in Seq(Inbound) /\ inbox' \in Seq(Inbound)
  /\ Len(received') = Len(received) + 1
  /\ Len(received') + Len(inbox') <= MaxArrivals
  /\ header' \in Headers
  /\ phase = "idle" /\ phase' \in {"failed", "dispatch"}
  /\ UNCHANGED <<main, counter, master, object, uuids, sent, proxyHeader>>

\* What serve() makes of it.
LEMMA TakeEffect ==
  ASSUME ShapeInv, NEW d \in Inbound, Service!Take(d)
  PROVE  /\ received' \in Seq(Inbound) /\ Len(received') = Len(received) + 1
         /\ header' \in Headers
         /\ phase = "idle" /\ phase' \in {"failed", "dispatch"}
<1>1. /\ received' = Append(received, d)
      /\ \/ header' = header
         \/ header' = [id |-> d.id, relatesTo |-> d.relatesTo, num |-> d.num]
      /\ phase = "idle" /\ phase' \in {"failed", "dispatch"}
  BY DEF Service!Take
<1>2. received' \in Seq(Inbound) /\ Len(received') = Len(received) + 1
  BY <1>1 DEF ShapeInv, WireInv
<1>3. d.id \in Names /\ d.relatesTo \in Names /\ d.num \in Nat \cup {e.num : e \in Datagrams}
  BY DEF Inbound, Names
<1>4. header' \in Headers
  BY <1>1, <1>3 DEF ShapeInv, WireInv, Headers
<1> QED
  BY <1>1, <1>2, <1>4

LEMMA ReceiveTaken ==
  ASSUME ShapeInv, ServeOne, Service!Receive
  PROVE  Taken
<1>1. inbox \in Seq(Inbound) /\ inbox # <<>>
  BY DEF Service!Receive, ShapeInv, WireInv
<1>2. /\ Head(inbox) \in Inbound
      /\ Tail(inbox) \in Seq(Inbound) /\ Len(Tail(inbox)) = Len(inbox) - 1
  BY <1>1
<1>3. /\ Service!Take(Head(inbox)) /\ inbox' = Tail(inbox)
      /\ UNCHANGED <<main, counter, master, object, uuids, sent, proxyHeader>>
  BY DEF ServeOne, Service!Receive, GoTo, ListenerUnchanged, counter
<1>4. Len(received) + Len(inbox) <= MaxArrivals
  BY DEF ShapeInv, WireInv
<1>5. /\ received' \in Seq(Inbound) /\ Len(received') = Len(received) + 1
      /\ header' \in Headers
      /\ phase = "idle" /\ phase' \in {"failed", "dispatch"}
  BY <1>2, <1>3, TakeEffect
<1>6. Len(received') + Len(inbox') <= MaxArrivals
  BY <1>2, <1>3, <1>4, <1>5, Counts, TestBounds
<1> QED
  BY <1>2, <1>3, <1>5, <1>6 DEF Taken

LEMMA StdinTaken ==
  ASSUME ShapeInv, NEW d \in Datagrams, ReadStdin(d)
  PROVE  Taken
<1>1. d \in Inbound
  BY DEF Inbound
<1>2. /\ Service!Take(d) /\ inbox' = inbox
      /\ Len(received) + Len(inbox) < MaxArrivals
      /\ UNCHANGED <<main, counter, master, object, uuids, sent, proxyHeader>>
  BY DEF ReadStdin, GoTo, ListenerUnchanged, out
<1>3. /\ received' \in Seq(Inbound) /\ Len(received') = Len(received) + 1
      /\ header' \in Headers
      /\ phase = "idle" /\ phase' \in {"failed", "dispatch"}
  BY <1>1, <1>2, TakeEffect
<1>4. Len(received') + Len(inbox') <= MaxArrivals
  BY <1>2, <1>3, Counts, TestBounds
<1>5. inbox' \in Seq(Inbound)
  BY <1>2 DEF ShapeInv, WireInv
<1> QED
  BY <1>2, <1>3, <1>4, <1>5 DEF Taken

LEMMA TakenShape ==
  ASSUME ShapeInv, Taken
  PROVE  ShapeInv'
<1>1. listenerStep = "idle"
  BY DEF Taken, ShapeInv, StepInv
<1>2. WireInv'
  BY DEF Taken, ShapeInv, WireInv
<1>3. received' # <<>>
  BY Counts DEF Taken
<1>4. StepInv'
  BY <1>1, <1>3 DEF Taken, counter, ShapeInv, StepInv, Ended
<1> QED
  BY <1>2, <1>4 DEF ShapeInv

\* A copy of the response goes out.
LEMMA CopyShape ==
  ASSUME ShapeInv, CountInv, Service!SendCopy
  PROVE  /\ phase = "respond" /\ phase' \in {"respond", "ok"}
         /\ sent' = Append(sent, Message("ProbeMatches", header, Len(received)))
         /\ Message("ProbeMatches", header, Len(received)) \in Outbound
         /\ Message("ProbeMatches", header, Len(received)).kind = "ProbeMatches"
         /\ Message("ProbeMatches", header, Len(received)).num = header.num
         /\ UNCHANGED <<master, object, header, inbox, received, uuids, listenerView>>
<1>1. header.id \in Names /\ header.relatesTo \in Names
  BY DEF ShapeInv, WireInv, Headers
<1>2. phase = "respond" => header.num \in Nat
  BY Counts DEF CountInv
<1>3. Len(received) \in Nat
  BY Counts
<1> QED
  BY <1>1, <1>2, <1>3 DEF Service!SendCopy, Service!Message, Message, Outbound

\* The handler of a Probe: the number is final, and the increment over.
LEMMA ProbeEffect ==
  ASSUME ShapeInv, CountInv, NEW crash \in BOOLEAN, HandleProbe(crash)
  PROVE  /\ ~Ended /\ phase = "dispatch" /\ phase' \in {"respond", "fault"}
         /\ listenerStep \in {"stored", "read"} /\ listenerStep' = "idle"
         /\ listenerView' = listenerView + 1
         /\ header'.num = listenerView + 1 /\ header' \in Headers
         /\ main' \in {main, "crashed"}
         /\ uuids' \in Nat /\ object
         /\ UNCHANGED <<master, object, inbox, received, sent, messageNumber, mainView,
                        mainStep, overlap, proxyHeader>>
<1>1. PICK tooLarge \in BOOLEAN : Service!DispatchProbe(tooLarge)
  BY DEF HandleProbe
<1>2. /\ ~Ended /\ phase = "dispatch" /\ phase' \in {"respond", "fault"}
      /\ listenerStep \in {"stored", "read"} /\ listenerStep' = "idle"
      /\ main' \in {main, "crashed"} /\ object
      /\ UNCHANGED <<master, object, inbox, received, sent, messageNumber, mainView,
                     mainStep, overlap, proxyHeader>>
  BY <1>1 DEF HandleProbe, Probed, At, ListenerUnchanged, Service!DispatchProbe
<1>3. listenerView \in Nat /\ listenerView < MaxArrivals + 2 /\ uuids \in Nat
      /\ header \in Headers
  BY <1>2, Counts, TestBounds DEF CountInv, ShapeInv, WireInv
<1>4. uuids' = uuids + 1 /\ listenerView' = listenerView + 1
  BY <1>1, <1>3, NoWrap DEF Service!DispatchProbe
<1>5. header' = Service!ProbeHeader(header, uuids', listenerView')
  BY <1>1 DEF Service!DispatchProbe
<1>6. header'.num = listenerView + 1 /\ header' \in Headers
  <2>1. uuids' \in Nat /\ listenerView' \in Nat
    BY <1>3, <1>4
  <2>2. \A n \in Nat, v \in Nat : \A h : h = Service!ProbeHeader(header, n, v)
                                     => h.num = v /\ h \in Headers
    BY <1>3, AnswerHeader
  <2>3. header'.num = listenerView' /\ header' \in Headers
    BY <1>5, <2>1, <2>2
  <2> QED
    BY <1>4, <2>3
<1> QED
  BY <1>2, <1>3, <1>4, <1>6

\* The steps of the listener that neither number nor send.
Quietly ==
  /\ UNCHANGED <<received, sent, counter, proxyHeader, uuids>>
  /\ \/ UNCHANGED <<phase, header>>
     \/ phase' \notin {"dispatch", "respond"} /\ listenerStep = "idle"
  /\ main' = main \/ main' = "aborted"

LEMMA QuietShape ==
  ASSUME ShapeInv, Quietly,
         inbox' \in Seq(Inbound), Len(received) + Len(inbox') <= MaxArrivals,
         header' \in Headers, phase' \in Handling => phase \in Handling,
         master' # "none" \/ listenerStep # "idle" => object'
  PROVE  ShapeInv'
<1>1. WireInv'
  BY DEF ShapeInv, WireInv, Quietly
<1>2. StepInv'
  BY DEF ShapeInv, StepInv, Quietly, counter, Ended, Handling, Service!Current
<1> QED
  BY <1>1, <1>2 DEF ShapeInv

\* serve() but for receiving, handling a Probe and sending.
ServeQuietly ==
  \/ Service!ReceiveTimeout \/ Service!DispatchSilent \/ Service!DispatchUnknown
  \/ Service!SendFails \/ Service!SendFault

LEMMA ServeQuiet ==
  ASSUME ShapeInv, ServeOne, ServeQuietly
  PROVE  Quietly /\ ShapeInv'
<1>1. UNCHANGED <<main, messageNumber, mainView, mainStep, listenerStep, overlap, proxyHeader>>
  BY DEF ServeOne, GoTo, ListenerUnchanged
<1>2. /\ UNCHANGED <<master, object, header, inbox, received, listenerView, uuids, sent>>
      /\ phase' \in {"eof", "ok", "fault", "failed"}
      /\ phase' = "fault" => phase \in Handling
      /\ phase = "dispatch" => Service!Current.kind # "Probe" \/ ~object
  BY DEF ServeQuietly, Service!ReceiveTimeout, Service!DispatchSilent,
         Service!DispatchUnknown, Service!SendFails, Service!SendFault, Handling
<1>3. listenerStep = "idle"
  BY <1>2 DEF ShapeInv, StepInv, Handling
<1>4. Quietly
  BY <1>1, <1>2, <1>3 DEF Quietly, counter
<1>5. WireInv /\ StepInv
  BY DEF ShapeInv
<1>6. /\ inbox' \in Seq(Inbound) /\ Len(received) + Len(inbox') <= MaxArrivals
      /\ header' \in Headers
  BY <1>2, <1>5 DEF WireInv
<1>7. /\ phase' \in Handling => phase \in Handling
      /\ master' # "none" \/ listenerStep # "idle" => object'
  BY <1>2, <1>3, <1>5 DEF StepInv, Handling
<1> QED
  BY <1>4, <1>6, <1>7, QuietShape

\* What the listener does around serve(), and the datagrams of peers.
LEMMA AroundQuiet ==
  ASSUME ShapeInv,
         \/ \E outcome \in Service!BindOutcomes : BindListener(outcome)
         \/ BindNothing \/ Unlock \/ Turn \/ StdinEnds \/ Served \/ CloseService
         \/ \E d \in Datagrams : PeerSends(d)
  PROVE  Quietly /\ ShapeInv'
<1>0. /\ inbox \in Seq(Inbound) /\ Len(received) + Len(inbox) <= MaxArrivals
      /\ header \in Headers
      /\ master # "none" => object
      /\ listenerStep # "idle" => phase = "dispatch" /\ object
  BY DEF ShapeInv, WireInv, StepInv
<1>1. ASSUME NEW outcome \in Service!BindOutcomes, BindListener(outcome)
      PROVE  Quietly /\ ShapeInv'
  <2>1. /\ UNCHANGED <<received, sent, counter, proxyHeader, uuids, phase, header, inbox>>
        /\ main' = main \/ main' = "aborted"
        /\ object'
    BY <1>1 DEF BindListener, Service!Bind, ListenerUnchanged
  <2>2. Quietly
    BY <2>1 DEF Quietly
  <2> QED
    BY <1>0, <2>1, <2>2, QuietShape
<1>2. CASE BindNothing \/ Unlock \/ Turn
  <2>1. UNCHANGED <<received, sent, counter, proxyHeader, uuids, phase, header, inbox,
                    main, master, object>>
    BY <1>2 DEF BindNothing, Unlock, Turn, GoTo, ListenerUnchanged, service, out
  <2>2. Quietly
    BY <2>1 DEF Quietly
  <2> QED
    BY <1>0, <2>1, <2>2, QuietShape
<1>3. CASE StdinEnds \/ Served
  <2>1. /\ UNCHANGED <<received, sent, counter, proxyHeader, uuids, inbox, main, master,
                       object>>
        /\ phase \notin Handling /\ phase' \notin Handling
        /\ header' = header \/ header' = Service!NoHeader
    BY <1>3 DEF StdinEnds, AtStdin, Served, Service!Return, Service!Results, Handling, GoTo,
       ListenerUnchanged, out, counter
  <2>2. Quietly
    BY <1>0, <2>1 DEF Quietly, Handling
  <2> QED
    BY <1>0, <2>1, <2>2, QuietShape, FreshHeaders
<1>4. CASE CloseService
  <2>1. /\ UNCHANGED <<received, sent, counter, proxyHeader, uuids, main, phase>>
        /\ phase = "idle" /\ master' = "none" /\ inbox' = <<>> /\ header' = Service!NoHeader
    BY <1>4 DEF CloseService, Service!Close, GoTo, ListenerUnchanged, counter
  <2>2. Quietly
    BY <1>0, <2>1 DEF Quietly
  <2>3. inbox' \in Seq(Inbound) /\ Len(inbox') = 0
    BY <2>1
  <2>4. Len(received) + Len(inbox') <= MaxArrivals
    BY <1>0, <2>3, Counts, TestBounds
  <2> QED
    BY <1>0, <2>1, <2>2, <2>3, <2>4, QuietShape, FreshHeaders DEF Handling
<1>5. ASSUME NEW d \in Datagrams, PeerSends(d) PROVE Quietly /\ ShapeInv'
  <2>1. /\ UNCHANGED <<received, sent, counter, proxyHeader, uuids, main, phase, header,
                       master, object>>
        /\ inbox' = Append(inbox, d) /\ Len(received) + Len(inbox) < MaxArrivals
    BY <1>5 DEF PeerSends, Service!Arrive, control, counter
  <2>2. Quietly
    BY <2>1 DEF Quietly
  <2>3. inbox' \in Seq(Inbound) /\ Len(inbox') = Len(inbox) + 1
    BY <1>0, <2>1 DEF Inbound
  <2>4. Len(received) + Len(inbox') <= MaxArrivals
    BY <1>0, <2>1, <2>3, Counts, TestBounds
  <2> QED
    BY <1>0, <2>1, <2>2, <2>3, <2>4, QuietShape
<1> QED
  BY <1>1, <1>2, <1>3, <1>4, <1>5

\* The steps of serve() that matter to the numbers.
LEMMA ServeShape ==
  ASSUME ShapeInv, CountInv, ServeOne, ~ServeQuietly
  PROVE  ShapeInv'
<1>1. UNCHANGED <<main, messageNumber, mainView, mainStep, listenerStep, overlap, proxyHeader>>
  BY DEF ServeOne, GoTo, ListenerUnchanged
<1>2. CASE Service!Receive
  BY <1>2, ReceiveTaken, TakenShape
<1>3. CASE Service!SendCopy
  <2>1. listenerStep = "idle"
    BY <1>3, CopyShape DEF ShapeInv, StepInv
  <2>2. WireInv'
    <3>1. sent \in Seq(Outbound)
      BY DEF ShapeInv, WireInv
    <3>2. sent' \in Seq(Outbound)
      BY <1>3, <3>1, CopyShape
    <3>3. UNCHANGED <<received, inbox, uuids, header, proxyHeader>>
      BY <1>1, <1>3, CopyShape
    <3> QED
      BY <3>2, <3>3 DEF ShapeInv, WireInv
  <2>3. StepInv'
    BY <1>1, <1>3, <2>1, CopyShape DEF ShapeInv, StepInv, Ended, Handling
  <2> QED
    BY <2>2, <2>3 DEF ShapeInv
<1> QED
  BY <1>2, <1>3 DEF ServeOne, ServeQuietly

\* The listener's increments, and the handler they belong to.
LEMMA HandlerShape ==
  ASSUME ShapeInv, CountInv,
         \/ ListenerLoad \/ ListenerStore \/ ListenerReadAgain
         \/ \E crash \in BOOLEAN : HandleProbe(crash)
  PROVE  ShapeInv'
<1>1. CASE ListenerLoad \/ ListenerStore \/ ListenerReadAgain
  <2>1. /\ UNCHANGED <<service, out, proxyHeader, main, mainStep>>
        /\ phase = "dispatch" /\ Service!Current.kind = "Probe" /\ object
        /\ listenerStep' \in {"loaded", "stored", "read"}
    BY <1>1 DEF ListenerLoad, ListenerStore, ListenerReadAgain, Probed, GoTo,
       ListenerUnchanged, ShapeInv, StepInv
  <2>2. WireInv'
    BY <2>1 DEF ShapeInv, WireInv, service, out
  <2>3. StepInv'
    BY <2>1 DEF ShapeInv, StepInv, service, Service!Current, Ended, Steps
  <2> QED
    BY <2>2, <2>3 DEF ShapeInv
<1>2. ASSUME NEW crash \in BOOLEAN, HandleProbe(crash) PROVE ShapeInv'
  <2>1. WireInv'
    BY <1>2, ProbeEffect DEF ShapeInv, WireInv
  <2>2. StepInv'
    BY <1>2, ProbeEffect DEF ShapeInv, StepInv, Ended, Handling, Steps
  <2> QED
    BY <2>1, <2>2 DEF ShapeInv
<1> QED
  BY <1>1, <1>2
-----------------------------------------------------------------------------
(***************************************************************************)
(* The numbers.                                                            *)
(***************************************************************************)
NumbersKept == CountInv' /\ UniqueInv' /\ OrderInv'

\* The counts are numbers, after a step too.
LEMMA StoresNat ==
  ShapeInv => Stores \in Nat /\ MainStores \in Nat /\ ListenerStores \in Nat
BY Counts, TestBounds

LEMMA StoresNatPrime ==
  ShapeInv' => (Stores \in Nat /\ MainStores \in Nat /\ ListenerStores \in Nat)'
BY StoresNat, PTL

\* A number that no step changed is still below the increments stored.
LEMMA CountKeeps ==
  ASSUME CountInv, Stores \in Nat, Stores' \in Nat, Stores <= Stores',
         UNCHANGED <<messageNumber, mainView, mainStep, listenerView, listenerStep, sent>>,
         phase' = "respond" => phase = "respond" /\ header' = header
  PROVE  CountInv'
BY DEF CountInv, Numbered

LEMMA QuietNumbers ==
  ASSUME NumbersInv, ShapeInv', Quietly
  PROVE  NumbersKept
<1> USE DEF NumbersInv
<1>1. /\ UNCHANGED <<messageNumber, mainView, mainStep, listenerView, listenerStep, overlap,
                     sent, received>>
      /\ \/ UNCHANGED <<phase, header>>
         \/ phase' \notin {"dispatch", "respond"} /\ listenerStep = "idle"
      /\ main' = main \/ main' = "aborted"
  BY DEF Quietly, counter
<1>2. Stores \in Nat /\ Stores' \in Nat
  BY StoresNat, StoresNatPrime
<1>3. Stores <= Stores'
  <2>1. MainStores <= MainStores'
    BY <1>1 DEF MainStores, Numbered
  <2>2. ListenerStores <= ListenerStores'
    BY <1>1, Counts DEF ListenerStores
  <2> QED
    BY <2>1, <2>2, StoresNat, StoresNatPrime DEF Stores
<1>4. CountInv'
  BY <1>1, <1>2, <1>3, CountKeeps
<1>5. UniqueInv'
  BY <1>1 DEF UniqueInv, Numbered
<1>6. OrderInv'
  BY <1>1 DEF OrderInv, Numbered
<1> QED
  BY <1>4, <1>5, <1>6 DEF NumbersKept

\* The log with one more message.
LEMMA SentGrows ==
  ASSUME WireInv, NEW m, sent' = Append(sent, m)
  PROVE  /\ Len(sent) \in Nat /\ Len(sent') = Len(sent) + 1
         /\ sent'[Len(sent) + 1] = m
         /\ \A i \in 1..Len(sent) : sent'[i] = sent[i]
         /\ \A i \in 1..Len(sent') : i \in 1..Len(sent) \/ sent'[i] = m
BY DEF WireInv

LEMMA SentNumbers ==
  ASSUME ShapeInv
  PROVE  \A i \in 1..Len(sent) : sent[i].num \in Nat
<1>1. \A i \in 1..Len(sent) : sent[i] \in Outbound
  BY DEF ShapeInv, WireInv
<1>2. \A m \in Outbound : m.num \in Nat
  BY DEF Outbound
<1> QED
  BY <1>1, <1>2

\* Main goes on between its messages.
LEMMA MainQuietNumbers ==
  ASSUME NumbersInv, ShapeInv', ~Ended, Start \/ Enter \/ OpenProxy \/ Join \/ Leave \/ Exit
  PROVE  NumbersKept
<1> USE DEF NumbersInv
<1>1. /\ UNCHANGED <<messageNumber, mainView, mainStep, listenerView, listenerStep, overlap,
                     sent, received, phase, header>>
      /\ \/ main \in {"start", "wait", "open"} /\ main' \in {"wait", "open", "hello"}
         \/ main \in {"join", "leave", "return"} /\ main' \in {"leave", "return", "exited"}
  BY DEF Start, Enter, OpenProxy, Join, Leave, Exit, MainUnchanged, Proxy!Open, service, out,
         counter
<1>2. mainStep = "idle"
  BY <1>1 DEF ShapeInv, StepInv
<1>3. Stores <= Stores' /\ Stores \in Nat /\ Stores' \in Nat
  <2>1. MainStores <= MainStores' /\ ListenerStores' = ListenerStores
    BY <1>1, <1>2 DEF MainStores, ListenerStores, Numbered
  <2> QED
    BY <2>1, StoresNat, StoresNatPrime DEF Stores
<1>4. CountInv'
  BY <1>1, <1>3, CountKeeps
<1>5. UniqueInv'
  BY <1>1 DEF UniqueInv, Numbered
<1>6. OrderInv'
  BY <1>1, <1>2 DEF OrderInv, Numbered
<1> QED
  BY <1>4, <1>5, <1>6 DEF NumbersKept

\* Main's increment: what it has loaded, while the listener may be in one too.
LEMMA MainLoadNumbers ==
  ASSUME NumbersInv, ShapeInv', MainLoad
  PROVE  NumbersKept
<1> USE DEF NumbersInv
<1>1. /\ main \in {"hello", "bye"} /\ mainStep = "idle" /\ mainStep' = "loaded"
      /\ mainView' = messageNumber
      /\ overlap' = (overlap \/ listenerStep # "idle")
      /\ UNCHANGED <<main, messageNumber, listenerView, listenerStep, sent, received, phase,
                     header>>
  BY DEF MainLoad, MainUnchanged, service, out
<1>2. Stores' = Stores /\ Stores \in Nat
  <2>1. MainStores' = MainStores /\ ListenerStores' = ListenerStores
    BY <1>1 DEF MainStores, ListenerStores, Numbered
  <2> QED
    BY <2>1, StoresNat DEF Stores
<1>3. CountInv'
  BY <1>1, <1>2 DEF CountInv, Numbered
<1>4. UniqueInv'
  BY <1>1 DEF UniqueInv, Numbered
<1>5. OrderInv'
  BY <1>1, <1>2 DEF OrderInv, Numbered, CountInv
<1> QED
  BY <1>3, <1>4, <1>5 DEF NumbersKept

\* Main's store.
LEMMA MainStoreNumbers ==
  ASSUME NumbersInv, ShapeInv', ~Ended, MainStore
  PROVE  NumbersKept
<1> USE DEF NumbersInv
<1>1. /\ mainStep = "loaded" /\ mainStep' = "stored"
      /\ main \in {"hello", "bye"}
      /\ messageNumber' = NextNumber(mainView)
      /\ UNCHANGED <<main, mainView, overlap, listenerView, listenerStep, sent, received,
                     phase, header>>
  BY DEF MainStore, MainUnchanged, service, out, ShapeInv, StepInv
<1>2. /\ Stores \in Nat /\ mainView \in Nat /\ messageNumber \in Nat /\ listenerView \in Nat
      /\ mainView <= Stores /\ Stores < MaxArrivals + 2
  BY <1>1, StoresNat, Counts DEF CountInv
<1>3. messageNumber' = mainView + 1
  <2>1. mainView < MaxArrivals + 2
    BY <1>2, TestBounds
  <2> QED
    BY <1>1, <1>2, <2>1, NoWrap
<1>4. Stores' = Stores + 1
  <2>1. MainStores' = MainStores + 1 /\ ListenerStores' = ListenerStores
    BY <1>1 DEF MainStores, ListenerStores, Numbered
  <2> QED
    BY <2>1, StoresNat DEF Stores
<1>5. CountInv'
  BY <1>1, <1>2, <1>3, <1>4 DEF CountInv, Numbered
<1>6. \A i \in 1..Len(sent) : sent[i].num \in Nat
  BY SentNumbers
<1>7. phase = "respond" => header.num \in Nat
  BY <1>2 DEF CountInv
<1>8. UniqueInv'
  BY <1>1, <1>2, <1>3, <1>6, <1>7 DEF UniqueInv, Numbered
<1>9. OrderInv'
  BY <1>1, <1>2, <1>3, <1>6 DEF OrderInv, Numbered
<1> QED
  BY <1>5, <1>8, <1>9 DEF NumbersKept

\* Main reads the number again, which the listener may have stored since.
LEMMA MainReadNumbers ==
  ASSUME NumbersInv, ShapeInv', ~Ended, MainReadAgain
  PROVE  NumbersKept
<1> USE DEF NumbersInv
<1>1. /\ mainStep = "stored" /\ mainStep' = "read" /\ main \in {"hello", "bye"}
      /\ mainView' = messageNumber - 1
      /\ UNCHANGED <<main, messageNumber, overlap, listenerView, listenerStep, sent, received,
                     phase, header>>
  BY DEF MainReadAgain, MainUnchanged, service, out, ShapeInv, StepInv
<1>2. /\ Stores' = Stores /\ Stores \in Nat
      /\ messageNumber \in Nat /\ messageNumber > 0 /\ messageNumber <= Stores
      /\ mainView' \in Nat /\ mainView' + 1 = messageNumber
  <2>1. MainStores' = MainStores /\ ListenerStores' = ListenerStores
    BY <1>1 DEF MainStores, ListenerStores, Numbered
  <2>2. Stores' = Stores /\ Stores \in Nat
    BY <2>1, StoresNat DEF Stores
  <2> QED
    BY <1>1, <2>2 DEF CountInv, Numbered
<1>3. CountInv'
  BY <1>1, <1>2 DEF CountInv, Numbered
<1>4. UniqueInv'
  BY <1>1, <1>2 DEF UniqueInv, Numbered
<1>5. OrderInv'
  BY <1>1, <1>2 DEF OrderInv, Numbered
<1> QED
  BY <1>3, <1>4, <1>5 DEF NumbersKept

\* Hello and Bye leave, or not.
LEMMA AnnounceNumbers ==
  ASSUME NumbersInv, ShapeInv', ~Ended, NEW ok \in BOOLEAN, SendHello(ok) \/ SendBye(ok)
  PROVE  NumbersKept
<1> USE DEF NumbersInv
<1> DEFINE m == [kind |-> IF main = "hello" THEN "Hello" ELSE "Bye", id |-> uuids + 1,
                 relatesTo |-> NoId, num |-> mainView + 1, cause |-> 0]
<1>1. /\ \/ main = "hello" /\ main' \in {"bye", "leave"}
         \/ main = "bye" /\ main' \in {"probe", "leave"}
      /\ mainStep \in {"stored", "read"} /\ mainStep' = "idle"
      /\ mainView \in Nat /\ mainView' = mainView + 1
      /\ main = "hello" /\ ~ok => main' = "leave"
  BY AnnounceEffect DEF Numbered, CountInv
<1>2. sent' = sent \/ sent' = Append(sent, m)
  BY AnnounceEffect
<1>3. UNCHANGED <<messageNumber, overlap, listenerView, listenerStep, received, phase, header>>
  BY DEF SendHello, SendBye, Sent
<1>4. m.kind \in {"Hello", "Bye"} /\ (m.kind = "Hello" <=> main = "hello")
      /\ m.num = mainView + 1
  OBVIOUS
<1> HIDE DEF m
<1>5. /\ Stores <= Stores' /\ Stores \in Nat /\ Stores' \in Nat
      /\ mainView + 1 \in 1..Stores
  <2>1. MainStores <= MainStores' /\ ListenerStores' = ListenerStores
    BY <1>1, <1>3 DEF MainStores, ListenerStores, Numbered
  <2>2. Stores <= Stores' /\ Stores \in Nat /\ Stores' \in Nat
    BY <2>1, StoresNat, StoresNatPrime DEF Stores
  <2> QED
    BY <1>1, <2>2 DEF CountInv, Numbered
<1>6. /\ Len(sent) \in Nat
      /\ \A i \in 1..Len(sent') : \/ i \in 1..Len(sent) /\ sent'[i] = sent[i]
                                  \/ sent'[i] = m
  BY <1>2, SentGrows DEF ShapeInv, WireInv
<1>7. \A i \in 1..Len(sent) : sent[i].num \in Nat
  BY SentNumbers
<1>8. CountInv'
  <2>1. \A i \in 1..Len(sent') : sent'[i].kind # "Probe" => sent'[i].num \in 1..Stores'
    BY <1>4, <1>5, <1>6 DEF CountInv
  <2> QED
    BY <1>1, <1>3, <1>5, <2>1 DEF CountInv, Numbered
<1>9. UniqueInv'
  <2> SUFFICES ASSUME ~overlap PROVE UniqueInv'
    BY <1>3 DEF UniqueInv
  <2>1. /\ listenerStep = "idle" /\ m.num = messageNumber
        /\ phase = "respond" => header.num < messageNumber
        /\ \A i \in 1..Len(sent) : sent[i].kind # "Probe" => sent[i].num < messageNumber
    BY <1>1, <1>4 DEF UniqueInv, Numbered
  <2>2. messageNumber \in Nat /\ (phase = "respond" => header.num \in Nat)
    BY <1>5 DEF CountInv
  <2>3. \A i, j \in 1..Len(sent') :
          "Probe" \notin {sent'[i].kind, sent'[j].kind} /\ sent'[i].num = sent'[j].num
            => sent'[i] = sent'[j]
    <3> SUFFICES ASSUME NEW i \in 1..Len(sent'), NEW j \in 1..Len(sent'),
                        sent'[i].kind # "Probe", sent'[j].kind # "Probe",
                        sent'[i].num = sent'[j].num
                 PROVE  sent'[i] = sent'[j]
      OBVIOUS
    <3>1. CASE sent'[i] = m
      BY <1>6, <1>7, <2>1, <2>2, <3>1
    <3>2. CASE sent'[j] = m
      BY <1>6, <1>7, <2>1, <2>2, <3>2
    <3>3. CASE sent'[i] # m /\ sent'[j] # m
      BY <1>6, <3>3 DEF UniqueInv
    <3> QED
      BY <3>1, <3>2, <3>3
  <2>4. \A i \in 1..Len(sent') : sent'[i].kind # "Probe" =>
          /\ sent'[i].num <= messageNumber
          /\ phase = "respond" /\ sent'[i].num = header.num
               => sent'[i] = Message("ProbeMatches", header, Len(received))
    <3> SUFFICES ASSUME NEW i \in 1..Len(sent'), sent'[i].kind # "Probe"
                 PROVE  /\ sent'[i].num <= messageNumber
                        /\ phase = "respond" /\ sent'[i].num = header.num
                             => sent'[i] = Message("ProbeMatches", header, Len(received))
      OBVIOUS
    <3>1. CASE sent'[i] = m
      BY <2>1, <2>2, <3>1
    <3>2. CASE sent'[i] # m
      BY <1>6, <3>2 DEF UniqueInv
    <3> QED
      BY <3>1, <3>2
  <2>5. Message("ProbeMatches", header, Len(received))'
          = Message("ProbeMatches", header, Len(received))
    BY <1>3 DEF Message
  <2> QED
    BY <1>1, <1>3, <2>1, <2>2, <2>3, <2>4, <2>5 DEF UniqueInv, Numbered
<1>10. OrderInv'
  <2>1. CASE main = "hello"
    <3>1. /\ mainView < messageNumber /\ messageNumber \in Nat /\ listenerView \in Nat
          /\ listenerStep = "loaded" => messageNumber <= listenerView + 1
          /\ \A i \in 1..Len(sent') : sent'[i].kind \in {"Hello", "Bye"} => sent'[i] = m
      BY <1>1, <1>6, <2>1 DEF OrderInv, CountInv, Numbered
    <3> QED
      BY <1>1, <1>3, <1>4, <2>1, <3>1 DEF OrderInv, Numbered
  <2>2. CASE main = "bye"
    <3>1. \A i \in 1..Len(sent') :
            /\ sent'[i].kind = "Hello" => i \in 1..Len(sent) /\ sent'[i] = sent[i]
            /\ sent'[i].kind = "Bye" => sent'[i] = m
      BY <1>4, <1>6, <2>2 DEF OrderInv
    <3>2. \A i \in 1..Len(sent) : sent[i].kind = "Hello" =>
            /\ sent[i].num <= messageNumber
            /\ listenerStep = "loaded" => sent[i].num <= listenerView + 1
            /\ sent[i].num <= m.num
      BY <1>1, <1>4, <2>2 DEF OrderInv, Numbered
    <3> QED
      BY <1>1, <1>3, <2>2, <3>1, <3>2 DEF OrderInv, Numbered
  <2> QED
    BY <1>1, <2>1, <2>2
<1> QED
  BY <1>8, <1>9, <1>10 DEF NumbersKept

\* A Probe leaves, or not.
LEMMA QuestionNumbers ==
  ASSUME NumbersInv, ShapeInv', ~Ended, NEW ok \in BOOLEAN, NEW crash \in BOOLEAN,
         SendProbe(ok, crash)
  PROVE  NumbersKept
<1> USE DEF NumbersInv
<1>1. /\ main = "probe" /\ main' \in {"join", "leave", "crashed"} /\ mainStep' = "idle"
      /\ UNCHANGED <<messageNumber, mainView, overlap, listenerView, listenerStep, received,
                     phase, header>>
  BY QuestionEffect DEF SendProbe, Sent
<1>2. mainStep = "idle"
  BY <1>1 DEF ShapeInv, StepInv, Ended
<1>3. PICK m : m.kind = "Probe" /\ (sent' = sent \/ sent' = Append(sent, m))
  <2>1. [kind |-> "Probe", id |-> uuids + 1, relatesTo |-> NoId, num |-> proxyHeader.num,
         cause |-> 0].kind = "Probe"
    OBVIOUS
  <2> QED
    BY <2>1, QuestionEffect
<1>4. \A i \in 1..Len(sent') : sent'[i].kind # "Probe" =>
        i \in 1..Len(sent) /\ sent'[i] = sent[i]
  BY <1>3, SentGrows DEF ShapeInv, WireInv
<1>5. Stores' = Stores
  BY <1>1, <1>2 DEF Stores, MainStores, ListenerStores, Numbered
<1>6. CountInv'
  BY <1>1, <1>2, <1>4, <1>5 DEF CountInv, Numbered
<1>7. UniqueInv'
  BY <1>1, <1>2, <1>4 DEF UniqueInv, Numbered
<1>8. OrderInv'
  BY <1>1, <1>2, <1>4 DEF OrderInv, Numbered
<1> QED
  BY <1>6, <1>7, <1>8 DEF NumbersKept

\* serve() takes a datagram: one more reason for a number.
LEMMA TakenNumbers ==
  ASSUME NumbersInv, ShapeInv', Taken
  PROVE  NumbersKept
<1> USE DEF NumbersInv
<1>1. /\ UNCHANGED <<main, messageNumber, mainView, mainStep, listenerStep, listenerView,
                     overlap, sent>>
      /\ phase = "idle" /\ phase' \in {"failed", "dispatch"}
      /\ Len(received') = Len(received) + 1
  BY DEF Taken, counter
<1>2. listenerStep = "idle"
  BY <1>1 DEF ShapeInv, StepInv
<1>3. Stores <= Stores' /\ Stores \in Nat /\ Stores' \in Nat
  <2>1. MainStores' = MainStores /\ ListenerStores <= ListenerStores'
    BY <1>1, Counts DEF MainStores, ListenerStores, Numbered
  <2> QED
    BY <2>1, StoresNat, StoresNatPrime DEF Stores
<1>4. CountInv'
  BY <1>1, <1>3, CountKeeps
<1>5. UniqueInv'
  BY <1>1, <1>2 DEF UniqueInv, Numbered
<1>6. OrderInv'
  BY <1>1 DEF OrderInv, Numbered
<1> QED
  BY <1>4, <1>5, <1>6 DEF NumbersKept

\* A copy of the response leaves: it is equal to those with its number.
LEMMA CopyNumbers ==
  ASSUME NumbersInv, ShapeInv', ServeOne, Service!SendCopy
  PROVE  NumbersKept
<1> USE DEF NumbersInv
<1> DEFINE m == Message("ProbeMatches", header, Len(received))
<1>1. /\ UNCHANGED <<main, messageNumber, mainView, mainStep, listenerStep, listenerView,
                     overlap, received, header>>
      /\ phase = "respond" /\ phase' \in {"respond", "ok"}
      /\ sent' = Append(sent, m) /\ m.kind = "ProbeMatches" /\ m.num = header.num
  BY CopyShape DEF ServeOne, GoTo, ListenerUnchanged
<1>2. m' = m
  BY <1>1 DEF Message
<1> HIDE DEF m
<1>3. listenerStep = "idle"
  BY <1>1 DEF ShapeInv, StepInv
<1>4. Stores' = Stores /\ Stores \in Nat
  <2>1. MainStores' = MainStores /\ ListenerStores = ListenerStores'
    BY <1>1, Counts DEF MainStores, ListenerStores, Numbered
  <2> QED
    BY <2>1, StoresNat DEF Stores
<1>5. \A i \in 1..Len(sent') : \/ i \in 1..Len(sent) /\ sent'[i] = sent[i]
                               \/ sent'[i] = m
  BY <1>1, SentGrows DEF ShapeInv, WireInv
<1>6. header.num \in 1..Stores
  BY <1>1 DEF CountInv
<1>7. CountInv'
  <2>1. \A i \in 1..Len(sent') : sent'[i].kind # "Probe" => sent'[i].num \in 1..Stores
    BY <1>1, <1>5, <1>6 DEF CountInv
  <2> QED
    BY <1>1, <1>4, <2>1 DEF CountInv, Numbered
<1>8. UniqueInv'
  <2> SUFFICES ASSUME ~overlap PROVE UniqueInv'
    BY <1>1 DEF UniqueInv
  <2>1. /\ header.num <= messageNumber
        /\ Numbered => header.num < messageNumber
        /\ \A i \in 1..Len(sent) : sent[i].kind # "Probe" /\ sent[i].num = header.num
                                     => sent[i] = m
    BY <1>1 DEF UniqueInv, m
  <2>2. \A i \in 1..Len(sent') : sent'[i].kind # "Probe" =>
          /\ sent'[i].num <= messageNumber
          /\ Numbered => sent'[i].num < messageNumber
          /\ sent'[i].num = header.num => sent'[i] = m
    <3> SUFFICES ASSUME NEW i \in 1..Len(sent'), sent'[i].kind # "Probe"
                 PROVE  /\ sent'[i].num <= messageNumber
                        /\ Numbered => sent'[i].num < messageNumber
                        /\ sent'[i].num = header.num => sent'[i] = m
      OBVIOUS
    <3>1. CASE sent'[i] = m
      BY <1>1, <2>1, <3>1
    <3>2. CASE sent'[i] # m
      BY <1>5, <2>1, <3>2 DEF UniqueInv
    <3> QED
      BY <3>1, <3>2
  <2>3. \A i, j \in 1..Len(sent') :
          "Probe" \notin {sent'[i].kind, sent'[j].kind} /\ sent'[i].num = sent'[j].num
            => sent'[i] = sent'[j]
    <3> SUFFICES ASSUME NEW i \in 1..Len(sent'), NEW j \in 1..Len(sent'),
                        sent'[i].kind # "Probe", sent'[j].kind # "Probe",
                        sent'[i].num = sent'[j].num
                 PROVE  sent'[i] = sent'[j]
      OBVIOUS
    <3>1. CASE sent'[i] = m \/ sent'[j] = m
      BY <1>1, <2>2, <3>1
    <3>2. CASE sent'[i] # m /\ sent'[j] # m
      BY <1>5, <3>2 DEF UniqueInv
    <3> QED
      BY <3>1, <3>2
  <2>4. m = Message("ProbeMatches", header, Len(received))'
    BY <1>2 DEF m
  <2> QED
    BY <1>1, <1>3, <2>1, <2>2, <2>3, <2>4 DEF UniqueInv, Numbered
<1>9. OrderInv'
  <2>1. \A i \in 1..Len(sent') : sent'[i].kind \in {"Hello", "Bye"} =>
          i \in 1..Len(sent) /\ sent'[i] = sent[i]
    BY <1>1, <1>5
  <2> QED
    BY <1>1, <1>3, <2>1 DEF OrderInv, Numbered
<1> QED
  BY <1>7, <1>8, <1>9 DEF NumbersKept

\* The listener's increment.
LEMMA ListenerLoadNumbers ==
  ASSUME NumbersInv, ShapeInv', ListenerLoad
  PROVE  NumbersKept
<1> USE DEF NumbersInv
<1>1. /\ phase = "dispatch" /\ listenerStep = "idle" /\ listenerStep' = "loaded"
      /\ listenerView' = messageNumber
      /\ overlap' = (overlap \/ mainStep # "idle")
      /\ UNCHANGED <<main, messageNumber, mainView, mainStep, sent, received, phase, header>>
  BY DEF ListenerLoad, Probed, GoTo, ListenerUnchanged, service, out
<1>2. Stores' = Stores /\ Stores \in Nat
  <2>1. MainStores' = MainStores /\ ListenerStores' = ListenerStores
    BY <1>1 DEF MainStores, ListenerStores, Numbered
  <2> QED
    BY <2>1, StoresNat DEF Stores
<1>3. CountInv'
  BY <1>1, <1>2 DEF CountInv, Numbered
<1>4. UniqueInv'
  <2> SUFFICES ASSUME ~overlap, mainStep = "idle" PROVE UniqueInv'
    BY <1>1 DEF UniqueInv
  <2>1. \A i \in 1..Len(sent) : sent[i].kind # "Probe" =>
          /\ sent[i].num <= messageNumber
          /\ phase = "respond" /\ sent[i].num = header.num
               => sent[i] = Message("ProbeMatches", header, Len(received))
    BY DEF UniqueInv
  <2> QED
    BY <1>1, <2>1 DEF UniqueInv, Numbered
<1>5. OrderInv'
  <2>1. messageNumber \in Nat /\ \A i \in 1..Len(sent) : sent[i].num \in Nat
    BY <1>2, SentNumbers DEF CountInv
  <2> QED
    BY <1>1, <2>1 DEF OrderInv, Numbered
<1> QED
  BY <1>3, <1>4, <1>5 DEF NumbersKept

LEMMA ListenerStoreNumbers ==
  ASSUME NumbersInv, ShapeInv', ListenerStore
  PROVE  NumbersKept
<1> USE DEF NumbersInv
<1>1. /\ phase = "dispatch" /\ listenerStep = "loaded" /\ listenerStep' = "stored"
      /\ messageNumber' = NextNumber(listenerView)
      /\ UNCHANGED <<main, mainView, mainStep, listenerView, overlap, sent, received, phase,
                     header>>
  BY DEF ListenerStore, Probed, GoTo, ListenerUnchanged, service, out
<1>2. /\ Stores \in Nat /\ mainView \in Nat /\ messageNumber \in Nat /\ listenerView \in Nat
      /\ listenerView <= Stores /\ Stores < MaxArrivals + 2
  BY <1>1, StoresNat, Counts DEF CountInv
<1>3. messageNumber' = listenerView + 1
  <2>1. listenerView < MaxArrivals + 2
    BY <1>2, TestBounds
  <2> QED
    BY <1>1, <1>2, <2>1, NoWrap
<1>4. Stores' = Stores + 1
  <2>1. MainStores' = MainStores /\ ListenerStores' = ListenerStores + 1
    BY <1>1, Counts DEF MainStores, ListenerStores, Numbered
  <2> QED
    BY <2>1, StoresNat DEF Stores
<1>5. CountInv'
  BY <1>1, <1>2, <1>3, <1>4 DEF CountInv, Numbered
<1>6. \A i \in 1..Len(sent) : sent[i].num \in Nat
  BY SentNumbers
<1>7. UniqueInv'
  BY <1>1, <1>2, <1>3, <1>6 DEF UniqueInv, Numbered
<1>8. OrderInv'
  BY <1>1, <1>2, <1>3, <1>6 DEF OrderInv, Numbered
<1> QED
  BY <1>5, <1>7, <1>8 DEF NumbersKept

LEMMA ListenerReadNumbers ==
  ASSUME NumbersInv, ShapeInv', ListenerReadAgain
  PROVE  NumbersKept
<1> USE DEF NumbersInv
<1>1. /\ phase = "dispatch" /\ listenerStep = "stored" /\ listenerStep' = "read"
      /\ listenerView' = messageNumber - 1
      /\ UNCHANGED <<main, messageNumber, mainView, mainStep, overlap, sent, received, phase,
                     header>>
  BY DEF ListenerReadAgain, Probed, GoTo, ListenerUnchanged, service, out
<1>2. /\ Stores' = Stores /\ Stores \in Nat
      /\ messageNumber \in Nat /\ messageNumber > 0 /\ messageNumber <= Stores
      /\ listenerView' \in Nat /\ listenerView' + 1 = messageNumber
  <2>1. MainStores' = MainStores /\ ListenerStores' = ListenerStores
    BY <1>1 DEF MainStores, ListenerStores, Numbered
  <2>2. Stores' = Stores /\ Stores \in Nat
    BY <2>1, StoresNat DEF Stores
  <2> QED
    BY <1>1, <2>2 DEF CountInv
<1>3. CountInv'
  BY <1>1, <1>2 DEF CountInv, Numbered
<1>4. UniqueInv'
  BY <1>1, <1>2 DEF UniqueInv, Numbered
<1>5. OrderInv'
  BY <1>1, <1>2 DEF OrderInv, Numbered
<1> QED
  BY <1>3, <1>4, <1>5 DEF NumbersKept

\* The response gets the listener's number, and main may go on to its next.
LEMMA ProbeNumbers ==
  ASSUME NumbersInv, ShapeInv', NEW crash \in BOOLEAN, HandleProbe(crash)
  PROVE  NumbersKept
<1> USE DEF NumbersInv
<1>1. /\ phase = "dispatch" /\ phase' \in {"respond", "fault"}
      /\ listenerStep \in {"stored", "read"} /\ listenerStep' = "idle"
      /\ listenerView' = listenerView + 1 /\ header'.num = listenerView + 1
      /\ main' \in {main, "crashed"}
      /\ UNCHANGED <<received, sent, messageNumber, mainView, mainStep, overlap>>
  BY ProbeEffect
<1>2. /\ Stores <= Stores' /\ Stores \in Nat /\ Stores' \in Nat
      /\ listenerView \in Nat /\ listenerView + 1 \in 1..Stores
  <2>1. MainStores <= MainStores' /\ ListenerStores' = ListenerStores
    BY <1>1, Counts DEF MainStores, ListenerStores, Numbered
  <2>2. Stores <= Stores' /\ Stores \in Nat /\ Stores' \in Nat
    BY <2>1, StoresNat, StoresNatPrime DEF Stores
  <2> QED
    BY <1>1, <2>2 DEF CountInv
<1>3. CountInv'
  BY <1>1, <1>2 DEF CountInv, Numbered
<1>4. \A i \in 1..Len(sent) : sent[i].num \in Nat
  BY SentNumbers
<1>5. UniqueInv'
  <2> SUFFICES ASSUME ~overlap PROVE UniqueInv'
    BY <1>1 DEF UniqueInv
  <2>1. /\ mainStep = "idle" /\ header'.num = messageNumber
        /\ \A i \in 1..Len(sent) : sent[i].kind # "Probe" => sent[i].num < messageNumber
        /\ messageNumber \in Nat
    BY <1>1, <1>2 DEF UniqueInv, CountInv
  <2> QED
    BY <1>1, <1>4, <2>1 DEF UniqueInv, Numbered
<1>6. OrderInv'
  BY <1>1 DEF OrderInv, Numbered
<1> QED
  BY <1>3, <1>5, <1>6 DEF NumbersKept
-----------------------------------------------------------------------------
LEMMA MainNumbers ==
  ASSUME NumbersInv, ~Ended, Main
  PROVE  NumbersInv'
<1>1. ShapeInv'
  BY MainShape DEF NumbersInv
<1>2. NumbersKept
  BY <1>1, MainQuietNumbers, MainLoadNumbers, MainStoreNumbers, MainReadNumbers,
     AnnounceNumbers, QuestionNumbers DEF Main
<1> QED
  BY <1>1, <1>2 DEF NumbersInv, NumbersKept

LEMMA ListenerNumbers ==
  ASSUME NumbersInv, Listener \/ Stdin \/ \E d \in Datagrams : PeerSends(d)
  PROVE  NumbersInv'
<1> SUFFICES ShapeInv' /\ NumbersKept
  BY DEF NumbersInv, NumbersKept
<1>1. ShapeInv /\ CountInv
  BY DEF NumbersInv
<1>2. CASE ServeOne
  <2>1. CASE ServeQuietly
    BY <1>1, <1>2, <2>1, ServeQuiet, QuietNumbers
  <2>2. CASE ~ServeQuietly
    <3>1. ShapeInv'
      BY <1>1, <1>2, <2>2, ServeShape
    <3>2. Service!Receive \/ Service!SendCopy
      BY <1>2, <2>2 DEF ServeOne, ServeQuietly
    <3> QED
      BY <1>1, <1>2, <3>1, <3>2, ReceiveTaken, TakenNumbers, CopyNumbers
  <2> QED
    BY <2>1, <2>2
<1>3. CASE \/ ListenerLoad \/ ListenerStore \/ ListenerReadAgain
           \/ \E crash \in BOOLEAN : HandleProbe(crash)
  <2>1. ShapeInv'
    BY <1>1, <1>3, HandlerShape
  <2> QED
    BY <1>3, <2>1, ListenerLoadNumbers, ListenerStoreNumbers, ListenerReadNumbers,
       ProbeNumbers
<1>4. CASE \/ \E outcome \in Service!BindOutcomes : BindListener(outcome)
           \/ BindNothing \/ Unlock \/ Turn \/ StdinEnds \/ Served \/ CloseService
           \/ \E d \in Datagrams : PeerSends(d)
  BY <1>1, <1>4, AroundQuiet, QuietNumbers
<1>5. ASSUME NEW d \in Datagrams, ReadStdin(d) PROVE ShapeInv' /\ NumbersKept
  <2>1. Taken
    BY <1>1, <1>5, StdinTaken
  <2> QED
    BY <1>1, <2>1, TakenShape, TakenNumbers
<1> QED
  BY <1>2, <1>3, <1>4, <1>5 DEF Listener, Stdin

\* Every step preserves what the numbers rest on.
LEMMA NumbersStep == NumbersInv /\ [Next]_vars => NumbersInv'
<1> SUFFICES ASSUME NumbersInv, [Next]_vars PROVE NumbersInv'
  OBVIOUS
<1>1. CASE UNCHANGED vars
  <2>1. WireInv' /\ StepInv'
    BY <1>1 DEF NumbersInv, ShapeInv, WireInv, StepInv, vars, service, out, counter, control,
       Ended, Service!Current
  <2>2. Quietly
    BY <1>1 DEF Quietly, vars, service, out, counter, control
  <2> QED
    BY <2>1, <2>2, QuietNumbers DEF NumbersInv, ShapeInv, NumbersKept
<1> QED
  BY <1>1, MainNumbers, ListenerNumbers DEF Next, Over

LEMMA NumbersHold == Spec => []NumbersInv
BY NumbersInit, NumbersStep, PTL DEF Spec

\* For any datagrams and any interleaving of the two threads' loads and stores:
\* numbers tell messages as long as no increments overlapped, and Bye is never
\* numbered below Hello, whatever overlapped.
THEOREM NumbersTheorem == Spec => []NumbersTellMessages
<1>1. NumbersInv => NumbersTellMessages
  <2> SUFFICES ASSUME NumbersInv,
                      NEW i \in 1..Len(sent), NEW j \in 1..Len(sent)
               PROVE  /\ ~overlap /\ "Probe" \notin {sent[i].kind, sent[j].kind}
                           /\ sent[i].num = sent[j].num => sent[i] = sent[j]
                      /\ sent[i].kind = "Hello" /\ sent[j].kind = "Bye"
                           => sent[i].num <= sent[j].num
    BY DEF NumbersTellMessages
  <2>1. ~overlap /\ "Probe" \notin {sent[i].kind, sent[j].kind} /\ sent[i].num = sent[j].num
          => sent[i] = sent[j]
    BY DEF NumbersInv, UniqueInv
  <2>2. sent[i].kind = "Hello" /\ sent[j].kind = "Bye" => sent[i].num <= sent[j].num
    BY DEF NumbersInv, OrderInv
  <2> QED
    BY <2>1, <2>2
<1> QED
  BY <1>1, NumbersHold, PTL
-----------------------------------------------------------------------------
\* What remains of TypeOK: the flags, and where the threads are.
FlagsInv ==
  /\ asserts \in BOOLEAN /\ locked \in BOOLEAN /\ alive \in BOOLEAN
  /\ threw \in BOOLEAN /\ overlap \in BOOLEAN

PlacesInv ==
  /\ main \in {"start", "wait", "open", "hello", "bye", "probe", "join", "leave",
               "return", "exited", "aborted", "crashed"}
  /\ listener \in {"none", "bind", "unlock", "loop", "serve", "close", "done"}
  /\ turns \in 0..MaxTurns

LEMMA FlagsStep == FlagsInv /\ [Next]_vars => FlagsInv'
<1> SUFFICES ASSUME FlagsInv, [Next]_vars PROVE FlagsInv'
  OBVIOUS
<1> USE DEF FlagsInv
<1>1. /\ asserts' = asserts
      /\ locked' \in {locked, TRUE, FALSE} /\ alive' \in {alive, FALSE}
      /\ threw' = threw \/ \E ok \in BOOLEAN : threw' = ~ok
      /\ overlap' = overlap \/ overlap' = (overlap \/ listenerStep # "idle")
           \/ overlap' = (overlap \/ mainStep # "idle")
  <2>1. CASE ~Ended /\ Main
    BY <2>1 DEF Main, Start, Enter, OpenProxy, MainLoad, MainStore, MainReadAgain, SendHello,
       SendBye, SendProbe, Sent, Join, Leave, Exit, MainUnchanged, counter
  <2>2. CASE Listener
    BY <2>2 DEF Listener, BindListener, BindNothing, Unlock, Turn, ServeOne, ListenerLoad,
       ListenerStore, ListenerReadAgain, HandleProbe, Served, CloseService, GoTo,
       ListenerUnchanged, counter
  <2>3. CASE Stdin \/ (\E d \in Datagrams : PeerSends(d)) \/ UNCHANGED vars
    BY <2>3 DEF Stdin, ReadStdin, StdinEnds, GoTo, ListenerUnchanged, PeerSends, vars,
       control, counter
  <2> QED
    BY <2>1, <2>2, <2>3 DEF Next, Over
<1> QED
  BY <1>1, Zenon

LEMMA PlacesStep == PlacesInv /\ [Next]_vars => PlacesInv'
<1> SUFFICES ASSUME PlacesInv, [Next]_vars PROVE PlacesInv'
  OBVIOUS
<1> USE TestBounds DEF PlacesInv
<1>1. CASE ~Ended /\ Main
  <2>1. turns' = turns /\ listener' \in {listener, "bind"}
        /\ main' \in {main, "wait", "open", "hello", "bye", "probe", "join", "leave", "return",
                      "exited", "crashed"}
    BY <1>1 DEF Main, Start, Enter, OpenProxy, MainLoad, MainStore, MainReadAgain, SendHello,
       SendBye, SendProbe, Sent, Join, Leave, Exit, MainUnchanged
  <2> QED
    BY <2>1
<1>2. CASE Listener
  <2>1. CASE Turn
    BY <2>1 DEF Turn
  <2>2. CASE ~Turn
    <3>1. /\ turns' = turns
          /\ listener' \in {listener, "unlock", "loop", "serve", "close", "done"}
          /\ main' \in {main, "aborted", "crashed"}
      BY <1>2, <2>2 DEF Listener, BindListener, BindNothing, Unlock, ServeOne,
         ListenerLoad, ListenerStore, ListenerReadAgain, HandleProbe, Served, CloseService,
         GoTo, ListenerUnchanged
    <3> QED
      BY <3>1
  <2> QED
    BY <2>1, <2>2
<1>3. CASE (\E d \in Datagrams : PeerSends(d)) \/ UNCHANGED vars
  BY <1>3 DEF PeerSends, vars, control
<1>4. CASE Stdin
  <2>1. turns' = turns /\ listener' = "serve" /\ main' = main
    BY <1>4 DEF Stdin, ReadStdin, StdinEnds, GoTo
  <2> QED
    BY <2>1
<1> QED
  BY <1>1, <1>2, <1>3, <1>4 DEF Next, Over

\* The types, and that every number sent is one of the MaxArrivals + 2 that the
\* datagrams, Hello and Bye can ask for.
THEOREM ProgramTypes == Spec => []TypeOK
<1>1. Init => FlagsInv /\ PlacesInv
  <2> SUFFICES ASSUME Init PROVE FlagsInv /\ PlacesInv
    OBVIOUS
  <2>1. FlagsInv
    BY TestBuilds, Zenon DEF Init, FlagsInv
  <2>2. PlacesInv
    BY TestBounds DEF Init, PlacesInv
  <2> QED
    BY <2>1, <2>2
<1>2. NumbersInv /\ FlagsInv /\ PlacesInv => TypeOK
  <2> SUFFICES ASSUME NumbersInv, FlagsInv, PlacesInv PROVE TypeOK
    OBVIOUS
  <2>1. Stores \in 0..(MaxArrivals + 2)
    BY Counts DEF NumbersInv
  <2>2. \A i \in 1..Len(sent) : sent[i].kind # "Probe" => sent[i].num \in 1..(MaxArrivals + 2)
    BY <2>1, TestBounds DEF NumbersInv, CountInv
  <2>3. mainStep \in Steps /\ listenerStep \in Steps
    BY DEF NumbersInv, ShapeInv, StepInv
  <2>4. mainView \in Nat /\ listenerView \in Nat /\ messageNumber \in Nat
    BY <2>1, TestBounds DEF NumbersInv, CountInv
  <2> QED
    BY <2>2, <2>3, <2>4, Zenon DEF FlagsInv, PlacesInv, TypeOK
<1> QED
  BY <1>1, <1>2, FlagsStep, PlacesStep, NumbersHold, PTL DEF Spec
=============================================================================
