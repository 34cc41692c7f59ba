----------------------------- MODULE WsddProofs -----------------------------
(***************************************************************************)
(* The safety of the discovery daemon for every set of datagrams and of    *)
(* signals, every bound on arrivals, with and without assertions.  Inv is  *)
(* inductive; the properties the runs check, and the refinement of the     *)
(* abstract discovery target, follow from it.                              *)
(***************************************************************************)
EXTENDS Wsdd, TLAPS

\* The daemon sends few enough messages that the counter does not wrap.
LEMMA NoWrap ==
  ASSUME NEW n \in Nat, n < MaxArrivals + 2
  PROVE  NextNumber(n) = n + 1 /\ n + 1 \in Numbers
BY ArrivalsAssumption, UintModAssumption, SMT DEF NextNumber, Numbers

\* The last message is a message, and its number a number.
LEMMA LastSentType ==
  ASSUME sent \in Seq(Messages), sent # <<>>
  PROVE  /\ Len(sent) \in Nat \ {0}
         /\ LastSent \in Messages
         /\ LastSent.num \in Nat
<1>1. Len(sent) \in Nat \ {0} /\ LastSent \in Messages
  BY DEF LastSent
<1>2. \A m \in Messages : m.num \in Nat
  BY ArrivalsAssumption DEF Messages, Announcements, Answers, Numbers
<1> QED
  BY <1>1, <1>2

\* The initial state of the daemon satisfies the invariant.
LEMMA InvInit == Init => Inv
<1> SUFFICES ASSUME Init PROVE Inv
  OBVIOUS
<1> USE DEF Init, Service!Init, NoHeader, Service!NoHeader
<1>1. TypeOK
  <2>1. FlagTypes
    BY BuildsAssumption DEF FlagTypes
  <2>2. PlaceTypes
    BY DEF PlaceTypes
  <2>3. HeaderTypes
    BY DEF HeaderTypes, ProxyHeaders, ServiceHeaders
  <2>4. LogTypes /\ CounterTypes
    BY DEF LogTypes, CounterTypes
  <2> QED
    BY <2>1, <2>2, <2>3, <2>4 DEF TypeOK
<1>2. ControlInv
  BY DEF ControlInv, Before, After
<1>3. LifeInv
  BY DEF LifeInv, Before, During, After
<1>4. NumberInv
  BY ArrivalsAssumption DEF NumberInv, During, After
<1>5. ResponseInv /\ AnswersCorrelate
  BY DEF ResponseInv, AnswersCorrelate
<1> QED
  BY <1>1, <1>2, <1>3, <1>4, <1>5 DEF Inv

\* The main thread leaves the service and its messages alone.
LEMMA MainStep == Inv /\ Main => Inv'
<1> SUFFICES ASSUME Inv, Main PROVE Inv'
  OBVIOUS
<1> USE DEF Inv, service, shared, MainUnchanged
<1>0. UNCHANGED <<caught, service, shared, proxyHeader>>
  BY DEF Main, DaemonFails, StartService, SignalHandler, RunReturns, Join, LoopOrLeave
<1>1. TypeOK'
  <2>1. FlagTypes'
    BY <1>0 DEF TypeOK, FlagTypes, Main, DaemonFails, StartService, SignalHandler,
                RunReturns, Join, LoopOrLeave
  <2>2. PlaceTypes'
    BY <1>0 DEF TypeOK, PlaceTypes, Main, DaemonFails, StartService, SignalHandler,
                RunReturns, Join, LoopOrLeave
  <2>3. (HeaderTypes /\ LogTypes /\ CounterTypes)'
    BY <1>0 DEF TypeOK, HeaderTypes, LogTypes, CounterTypes
  <2> QED
    BY <2>1, <2>2, <2>3 DEF TypeOK
<1>2. ControlInv'
  BY <1>0, SignalsAssumption DEF TypeOK, PlaceTypes, ControlInv, Before, After, Main, DaemonFails, StartService,
     SignalHandler, RunReturns, Join, LoopOrLeave
<1>3. LifeInv'
  BY <1>0 DEF ControlInv, LifeInv, LastSent, Before, During, After, Main, DaemonFails,
     StartService, SignalHandler, RunReturns, Join, LoopOrLeave
<1>4. NumberInv'
  BY <1>0 DEF ControlInv, NumberInv, LastSent, During, After, Main, DaemonFails,
     StartService, SignalHandler, RunReturns, Join, LoopOrLeave
<1>5. ResponseInv' /\ AnswersCorrelate'
  BY <1>0 DEF ResponseInv, AnswersCorrelate, LastSent, Service!Current, Message
<1> QED
  BY <1>1, <1>2, <1>3, <1>4, <1>5 DEF Inv

\* A signal only completes the wait.
LEMMA RaiseStep == ASSUME NEW signal \in Signals, Inv, Raise(signal) PROVE Inv'
<1> USE DEF Inv, service, shared, MainUnchanged, Raise
<1>1. TypeOK'
  BY DEF TypeOK, FlagTypes, PlaceTypes, HeaderTypes, LogTypes, CounterTypes
<1>2. ControlInv'
  BY SignalsAssumption DEF TypeOK, PlaceTypes, ControlInv, Before, After
<1>3. LifeInv' /\ NumberInv'
  BY DEF LifeInv, NumberInv, LastSent, Before, During, After
<1>4. ResponseInv' /\ AnswersCorrelate'
  BY DEF ResponseInv, AnswersCorrelate, LastSent, Service!Current, Message
<1> QED
  BY <1>1, <1>2, <1>3, <1>4 DEF Inv

\* while (!ios_.stopped()): the loop goes on, or is left because of a signal.
LEMMA TestStoppedStep == Inv /\ TestStopped => Inv'
<1> SUFFICES ASSUME Inv, TestStopped PROVE Inv'
  OBVIOUS
<1> USE DEF Inv, At, GoTo, ThreadUnchanged, service, shared, TestStopped
<1>1. FlagTypes' /\ PlaceTypes'
  BY DEF TypeOK, FlagTypes, PlaceTypes
<1>2. (HeaderTypes /\ LogTypes /\ CounterTypes)'
  BY DEF TypeOK, HeaderTypes, LogTypes, CounterTypes
<1>3. ControlInv'
  BY DEF TypeOK, PlaceTypes, ControlInv, Before, After
<1>4. LifeInv' /\ NumberInv'
  BY DEF TypeOK, PlaceTypes, LifeInv, NumberInv, LastSent, Before, During, After
<1>5. ResponseInv' /\ AnswersCorrelate'
  BY DEF ResponseInv, AnswersCorrelate, LastSent, Service!Current, Message
<1> QED
  BY <1>1, <1>2, <1>3, <1>4, <1>5 DEF Inv, TypeOK

\* accept() leads to serve() only on a socket that is bound.
LEMMA AcceptStep == Inv /\ Accept => Inv'
<1> SUFFICES ASSUME Inv, Accept PROVE Inv'
  OBVIOUS
<1> USE DEF Inv, At, GoTo, ThreadUnchanged, service, shared, Accept
<1>1. FlagTypes' /\ PlaceTypes'
  BY DEF TypeOK, FlagTypes, PlaceTypes
<1>2. (HeaderTypes /\ LogTypes /\ CounterTypes)'
  BY DEF TypeOK, HeaderTypes, LogTypes, CounterTypes
<1>3. ControlInv'
  BY DEF TypeOK, PlaceTypes, ControlInv, Before, After
<1>4. LifeInv' /\ NumberInv'
  BY DEF TypeOK, PlaceTypes, LifeInv, NumberInv, LastSent, Before, During, After
<1>5. ResponseInv' /\ AnswersCorrelate'
  BY DEF ResponseInv, AnswersCorrelate, LastSent, Service!Current, Message
<1> QED
  BY <1>1, <1>2, <1>3, <1>4, <1>5 DEF Inv, TypeOK

\* work_.reset(): the thread is done, and what it left behind stays.
LEMMA FinishStep == Inv /\ Finish => Inv'
<1> SUFFICES ASSUME Inv, Finish PROVE Inv'
  OBVIOUS
<1> USE DEF Inv, At, GoTo, ThreadUnchanged, service, shared, Finish
<1>1. FlagTypes' /\ PlaceTypes'
  <2>1. FlagTypes /\ PlaceTypes
    BY DEF TypeOK
  <2>2. work' = FALSE /\ thread' = "done"
    OBVIOUS
  <2>3. UNCHANGED <<main, stopped, iosStopped, wait, raised, caught, service>>
    OBVIOUS
  <2>4. FlagTypes'
    BY <2>1, <2>2, <2>3, Zenon DEF FlagTypes
  <2>5. PlaceTypes'
    BY <2>1, <2>2, <2>3 DEF PlaceTypes
  <2> QED
    BY <2>4, <2>5
<1>2. (HeaderTypes /\ LogTypes /\ CounterTypes)'
  BY DEF TypeOK, HeaderTypes, LogTypes, CounterTypes
<1>3. ControlInv'
  BY DEF TypeOK, PlaceTypes, ControlInv, Before, After
<1>4. LifeInv' /\ NumberInv'
  BY DEF TypeOK, PlaceTypes, LifeInv, NumberInv, LastSent, Before, During, After
<1>5. ResponseInv' /\ AnswersCorrelate'
  BY DEF ResponseInv, AnswersCorrelate, LastSent, Service!Current, Message
<1> QED
  BY <1>1, <1>2, <1>3, <1>4, <1>5 DEF Inv, TypeOK

\* bind(), whatever comes of it.
LEMMA BindStep ==
  ASSUME NEW outcome \in Service!BindOutcomes, Inv, BindService(outcome)
  PROVE  Inv'
<1> USE DEF Inv, At, GoTo, ThreadUnchanged, service, shared, BindService, Service!Bind, Service!BindOutcomes
<1>1. FlagTypes' /\ PlaceTypes'
  BY DEF TypeOK, FlagTypes, PlaceTypes
<1>2. (HeaderTypes /\ LogTypes /\ CounterTypes)'
  BY DEF TypeOK, HeaderTypes, LogTypes, CounterTypes, ServiceHeaders, PeerIds
<1>3. ControlInv'
  BY DEF TypeOK, PlaceTypes, ControlInv, Before, After
<1>4. LifeInv'
  BY DEF TypeOK, PlaceTypes, LogTypes, ControlInv, LifeInv, LastSent, Before, During, After
<1>5. NumberInv'
  BY DEF TypeOK, PlaceTypes, LogTypes, CounterTypes, ControlInv, LifeInv, NumberInv, LastSent, Before, During, After
<1>6. ResponseInv'
  BY DEF TypeOK, PlaceTypes, LogTypes, ControlInv, ResponseInv, LastSent, Service!Current, Message
<1>7. AnswersCorrelate'
  BY DEF TypeOK, LogTypes, AnswersCorrelate
<1> QED
  BY <1>1, <1>2, <1>3, <1>4, <1>5, <1>6, <1>7 DEF Inv, TypeOK

\* serve() without a datagram.
LEMMA ReceiveTimeoutStep ==
  ASSUME Inv, At("serve"), Service!ReceiveTimeout, GoTo("serve"), UNCHANGED proxyHeader
  PROVE  Inv'
<1> USE DEF Inv, At, GoTo, ThreadUnchanged, service, shared, Service!ReceiveTimeout
<1>1. FlagTypes' /\ PlaceTypes'
  BY DEF TypeOK, FlagTypes, PlaceTypes
<1>2. (HeaderTypes /\ LogTypes /\ CounterTypes)'
  BY DEF TypeOK, HeaderTypes, LogTypes, CounterTypes, ServiceHeaders, PeerIds
<1>3. ControlInv'
  BY DEF TypeOK, PlaceTypes, ControlInv, Before, After
<1>4. LifeInv'
  BY DEF TypeOK, PlaceTypes, LogTypes, ControlInv, LifeInv, LastSent, Before, During, After
<1>5. NumberInv'
  BY DEF TypeOK, PlaceTypes, LogTypes, CounterTypes, ControlInv, LifeInv, NumberInv, LastSent, Before, During, After
<1>6. ResponseInv'
  BY DEF TypeOK, PlaceTypes, LogTypes, ControlInv, ResponseInv, LastSent, Service!Current, Message
<1>7. AnswersCorrelate'
  BY DEF TypeOK, LogTypes, AnswersCorrelate
<1> QED
  BY <1>1, <1>2, <1>3, <1>4, <1>5, <1>6, <1>7 DEF Inv, TypeOK

\* An announcement is handed over.
LEMMA DispatchSilentStep ==
  ASSUME Inv, At("serve"), Service!DispatchSilent, GoTo("serve"), UNCHANGED proxyHeader
  PROVE  Inv'
<1> USE DEF Inv, At, GoTo, ThreadUnchanged, service, shared, Service!DispatchSilent
<1>1. FlagTypes' /\ PlaceTypes'
  BY DEF TypeOK, FlagTypes, PlaceTypes
<1>2. (HeaderTypes /\ LogTypes /\ CounterTypes)'
  BY DEF TypeOK, HeaderTypes, LogTypes, CounterTypes, ServiceHeaders, PeerIds
<1>3. ControlInv'
  BY DEF TypeOK, PlaceTypes, ControlInv, Before, After
<1>4. LifeInv'
  BY DEF TypeOK, PlaceTypes, LogTypes, ControlInv, LifeInv, LastSent, Before, During, After
<1>5. NumberInv'
  BY DEF TypeOK, PlaceTypes, LogTypes, CounterTypes, ControlInv, LifeInv, NumberInv, LastSent, Before, During, After
<1>6. ResponseInv'
  BY DEF TypeOK, PlaceTypes, LogTypes, ControlInv, ResponseInv, LastSent, Service!Current, Message
<1>7. AnswersCorrelate'
  BY DEF TypeOK, LogTypes, AnswersCorrelate
<1> QED
  BY <1>1, <1>2, <1>3, <1>4, <1>5, <1>6, <1>7 DEF Inv, TypeOK

\* An unknown message.
LEMMA DispatchUnknownStep ==
  ASSUME Inv, At("serve"), Service!DispatchUnknown, GoTo("serve"), UNCHANGED proxyHeader
  PROVE  Inv'
<1> USE DEF Inv, At, GoTo, ThreadUnchanged, service, shared, Service!DispatchUnknown
<1>1. FlagTypes' /\ PlaceTypes'
  BY DEF TypeOK, FlagTypes, PlaceTypes
<1>2. (HeaderTypes /\ LogTypes /\ CounterTypes)'
  BY DEF TypeOK, HeaderTypes, LogTypes, CounterTypes, ServiceHeaders, PeerIds
<1>3. ControlInv'
  BY DEF TypeOK, PlaceTypes, ControlInv, Before, After
<1>4. LifeInv'
  BY DEF TypeOK, PlaceTypes, LogTypes, ControlInv, LifeInv, LastSent, Before, During, After
<1>5. NumberInv'
  BY DEF TypeOK, PlaceTypes, LogTypes, CounterTypes, ControlInv, LifeInv, NumberInv, LastSent, Before, During, After
<1>6. ResponseInv'
  BY DEF TypeOK, PlaceTypes, LogTypes, ControlInv, ResponseInv, LastSent, Service!Current, Message
<1>7. AnswersCorrelate'
  BY DEF TypeOK, LogTypes, AnswersCorrelate
<1> QED
  BY <1>1, <1>2, <1>3, <1>4, <1>5, <1>6, <1>7 DEF Inv, TypeOK

\* A copy that cannot be written.
LEMMA SendFailsStep ==
  ASSUME Inv, At("serve"), Service!SendFails, GoTo("serve"), UNCHANGED proxyHeader
  PROVE  Inv'
<1> USE DEF Inv, At, GoTo, ThreadUnchanged, service, shared, Service!SendFails
<1>1. FlagTypes' /\ PlaceTypes'
  BY DEF TypeOK, FlagTypes, PlaceTypes
<1>2. (HeaderTypes /\ LogTypes /\ CounterTypes)'
  BY DEF TypeOK, HeaderTypes, LogTypes, CounterTypes, ServiceHeaders, PeerIds
<1>3. ControlInv'
  BY DEF TypeOK, PlaceTypes, ControlInv, Before, After
<1>4. LifeInv'
  BY DEF TypeOK, PlaceTypes, LogTypes, ControlInv, LifeInv, LastSent, Before, During, After
<1>5. NumberInv'
  BY DEF TypeOK, PlaceTypes, LogTypes, CounterTypes, ControlInv, LifeInv, NumberInv, LastSent, Before, During, After
<1>6. ResponseInv'
  BY DEF TypeOK, PlaceTypes, LogTypes, ControlInv, ResponseInv, LastSent, Service!Current, Message
<1>7. AnswersCorrelate'
  BY DEF TypeOK, LogTypes, AnswersCorrelate
<1> QED
  BY <1>1, <1>2, <1>3, <1>4, <1>5, <1>6, <1>7 DEF Inv, TypeOK

\* The end of a failed serve().
LEMMA SendFaultStep ==
  ASSUME Inv, At("serve"), Service!SendFault, GoTo("serve"), UNCHANGED proxyHeader
  PROVE  Inv'
<1> USE DEF Inv, At, GoTo, ThreadUnchanged, service, shared, Service!SendFault
<1>1. FlagTypes' /\ PlaceTypes'
  BY DEF TypeOK, FlagTypes, PlaceTypes
<1>2. (HeaderTypes /\ LogTypes /\ CounterTypes)'
  <2>1. Len(received) \in 1..Len(received)
    BY DEF TypeOK, LogTypes, ResponseInv
  <2> QED
    BY <2>1 DEF TypeOK, HeaderTypes, LogTypes, CounterTypes
<1>3. ControlInv'
  BY DEF TypeOK, PlaceTypes, ControlInv, Before, After
<1>4. LifeInv'
  BY DEF TypeOK, PlaceTypes, LogTypes, ControlInv, LifeInv, LastSent, Before, During, After
<1>5. NumberInv'
  BY DEF TypeOK, PlaceTypes, LogTypes, CounterTypes, ControlInv, LifeInv, NumberInv, LastSent, Before, During, After
<1>6. ResponseInv'
  BY DEF TypeOK, PlaceTypes, LogTypes, ControlInv, ResponseInv, LastSent, Service!Current, Message
<1>7. AnswersCorrelate'
  BY DEF TypeOK, LogTypes, AnswersCorrelate
<1> QED
  BY <1>1, <1>2, <1>3, <1>4, <1>5, <1>6, <1>7 DEF Inv, TypeOK

\* The loop body after serve().
LEMMA ServedStep ==
  ASSUME Inv, Served
  PROVE  Inv'
<1> USE DEF Inv, At, GoTo, ThreadUnchanged, service, shared, Served, Service!Return, Service!Results, Service!NoHeader
<1>1. FlagTypes' /\ PlaceTypes'
  BY DEF TypeOK, FlagTypes, PlaceTypes
<1>2. (HeaderTypes /\ LogTypes /\ CounterTypes)'
  BY DEF TypeOK, HeaderTypes, LogTypes, CounterTypes, ServiceHeaders, PeerIds
<1>3. ControlInv'
  BY DEF TypeOK, PlaceTypes, ControlInv, Before, After
<1>4. LifeInv'
  BY DEF TypeOK, PlaceTypes, LogTypes, ControlInv, LifeInv, LastSent, Before, During, After
<1>5. NumberInv'
  BY DEF TypeOK, PlaceTypes, LogTypes, CounterTypes, ControlInv, LifeInv, NumberInv, LastSent, Before, During, After
<1>6. ResponseInv'
  BY DEF TypeOK, PlaceTypes, LogTypes, ControlInv, ResponseInv, LastSent, Service!Current, Message
<1>7. AnswersCorrelate'
  BY DEF TypeOK, LogTypes, AnswersCorrelate
<1> QED
  BY <1>1, <1>2, <1>3, <1>4, <1>5, <1>6, <1>7 DEF Inv, TypeOK

\* The service is deleted.
LEMMA CloseStep ==
  ASSUME Inv, CloseService
  PROVE  Inv'
<1> USE DEF Inv, At, GoTo, ThreadUnchanged, service, shared, CloseService, Service!Close, Service!NoHeader
<1>1. FlagTypes' /\ PlaceTypes'
  BY DEF TypeOK, FlagTypes, PlaceTypes
<1>2. (HeaderTypes /\ LogTypes /\ CounterTypes)'
  BY DEF TypeOK, HeaderTypes, LogTypes, CounterTypes, ServiceHeaders, PeerIds
<1>3. ControlInv'
  BY DEF TypeOK, PlaceTypes, ControlInv, Before, After
<1>4. LifeInv'
  BY DEF TypeOK, PlaceTypes, LogTypes, ControlInv, LifeInv, LastSent, Before, During, After
<1>5. NumberInv'
  <2>1. Len(received) \in Nat /\ Len(inbox) \in Nat /\ Len(inbox') = 0
    BY DEF TypeOK, LogTypes
  <2> QED
    BY <2>1, ArrivalsAssumption DEF TypeOK, CounterTypes, ControlInv, NumberInv, LastSent, During, After
<1>6. ResponseInv'
  BY DEF TypeOK, PlaceTypes, LogTypes, ControlInv, ResponseInv, LastSent, Service!Current, Message
<1>7. AnswersCorrelate'
  BY DEF TypeOK, LogTypes, AnswersCorrelate
<1> QED
  BY <1>1, <1>2, <1>3, <1>4, <1>5, <1>6, <1>7 DEF Inv, TypeOK

\* A new proxy.
LEMMA OpenProxyStep ==
  ASSUME NEW place, NEW next, <<place, next>> \in {<<"open", "hello">>, <<"reopen", "bye">>},
         Inv, OpenProxy(place, next)
  PROVE  Inv'
<1> USE DEF Inv, At, GoTo, ThreadUnchanged, service, shared, OpenProxy, Proxy!Open, Proxy!NoHeader, ProxyHeaders
<1>1. FlagTypes' /\ PlaceTypes'
  BY DEF TypeOK, FlagTypes, PlaceTypes
<1>2. (HeaderTypes /\ LogTypes /\ CounterTypes)'
  BY DEF TypeOK, HeaderTypes, LogTypes, CounterTypes, ServiceHeaders, PeerIds
<1>3. ControlInv'
  BY DEF TypeOK, PlaceTypes, ControlInv, Before, After
<1>4. LifeInv'
  BY DEF TypeOK, PlaceTypes, LogTypes, ControlInv, LifeInv, LastSent, Before, During, After
<1>5. NumberInv'
  BY DEF TypeOK, PlaceTypes, LogTypes, CounterTypes, ControlInv, LifeInv, NumberInv, LastSent, Before, During, After
<1>6. ResponseInv'
  BY DEF TypeOK, PlaceTypes, LogTypes, ControlInv, ResponseInv, LastSent, Service!Current, Message
<1>7. AnswersCorrelate'
  BY DEF TypeOK, LogTypes, AnswersCorrelate
<1> QED
  BY <1>1, <1>2, <1>3, <1>4, <1>5, <1>6, <1>7 DEF Inv, TypeOK

\* A datagram arrives.
LEMMA ArriveStep ==
  ASSUME NEW d \in Datagrams, Inv, PeerSends(d)
  PROVE  Inv'
<1> USE DEF Inv, service, shared, control, PeerSends, Service!Arrive
<1>1. FlagTypes' /\ PlaceTypes'
  BY DEF TypeOK, FlagTypes, PlaceTypes
<1>2. (HeaderTypes /\ LogTypes /\ CounterTypes)'
  BY DEF TypeOK, HeaderTypes, LogTypes, CounterTypes, ServiceHeaders, PeerIds
<1>3. ControlInv'
  BY DEF TypeOK, PlaceTypes, ControlInv, Before, After
<1>4. LifeInv'
  BY DEF TypeOK, PlaceTypes, LogTypes, ControlInv, LifeInv, LastSent, Before, During, After
<1>5. NumberInv'
  <2>1. /\ Len(received) \in Nat /\ Len(inbox) \in Nat
        /\ Len(inbox') = Len(inbox) + 1
    BY DEF TypeOK, LogTypes
  <2> QED
    BY <2>1, ArrivalsAssumption DEF NumberInv, LastSent, During, After
<1>6. ResponseInv'
  BY DEF TypeOK, PlaceTypes, LogTypes, ControlInv, ResponseInv, LastSent, Service!Current, Message
<1>7. AnswersCorrelate'
  BY DEF TypeOK, LogTypes, AnswersCorrelate
<1> QED
  BY <1>1, <1>2, <1>3, <1>4, <1>5, <1>6, <1>7 DEF Inv, TypeOK

\* A datagram is taken from the socket.
LEMMA ReceiveStep ==
  ASSUME Inv, At("serve"), Service!Receive, GoTo("serve"), UNCHANGED proxyHeader
  PROVE  Inv'
<1> USE DEF Inv, At, GoTo, ThreadUnchanged, Service!Receive, Service!Take
<1>0. /\ received \in Seq(Datagrams) /\ inbox \in Seq(Datagrams)
      /\ Head(inbox) \in Datagrams
      /\ Len(received) \in Nat /\ Len(inbox) \in Nat
      /\ received' \in Seq(Datagrams) /\ inbox' \in Seq(Datagrams)
      /\ Len(received') = Len(received) + 1
      /\ Len(inbox') = Len(inbox) - 1
      /\ received'[Len(received')] = Head(inbox)
      /\ \A n \in 1..Len(received) : received'[n] = received[n]
  BY DEF TypeOK, LogTypes
<1>1. FlagTypes' /\ PlaceTypes'
  BY DEF TypeOK, FlagTypes, PlaceTypes
<1>2. HeaderTypes'
  BY <1>0, ArrivalsAssumption
     DEF TypeOK, HeaderTypes, ServiceHeaders, PeerIds
<1>3. LogTypes' /\ CounterTypes'
  <2>1. failed \subseteq 1..Len(received)
    BY DEF TypeOK, LogTypes
  <2>2. /\ 1..Len(received) \subseteq 1..Len(received')
        /\ Len(received') \in 1..Len(received')
    BY <1>0
  <2>3. failed' = failed \/ failed' = failed \cup {Len(received')}
    OBVIOUS
  <2>4. failed' \subseteq 1..Len(received')
    BY <2>1, <2>2, <2>3
  <2> QED
    BY <1>0, <2>4 DEF TypeOK, LogTypes, CounterTypes
<1>4. ControlInv'
  BY DEF TypeOK, PlaceTypes, ControlInv, Before, After
<1>5. LifeInv'
  BY DEF TypeOK, PlaceTypes, LifeInv, LastSent, Before, During, After
<1>6. NumberInv'
  BY <1>0, ArrivalsAssumption DEF TypeOK, CounterTypes, NumberInv, LastSent, During, After
<1>7. ResponseInv'
  BY <1>0 DEF ResponseInv, Service!Current
<1>8. AnswersCorrelate'
  BY <1>0 DEF AnswersCorrelate
<1> QED
  BY <1>1, <1>2, <1>3, <1>4, <1>5, <1>6, <1>7, <1>8 DEF Inv, TypeOK

\* A Probe becomes an answer: the number it takes is above the whole log, and
\* RelatesTo is the MessageID the header held on entry.
LEMMA DispatchProbeStep ==
  ASSUME Inv, At("serve"), Service!DispatchProbe(FALSE), GoTo("serve"),
         UNCHANGED proxyHeader
  PROVE  Inv'
<1> USE DEF Inv, At, GoTo, ThreadUnchanged, Service!DispatchProbe
<1>0. /\ messageNumber \in Nat /\ Len(received) \in Nat /\ Len(inbox) \in Nat
      /\ messageNumber <= Len(received) /\ Len(received) <= MaxArrivals
  BY ArrivalsAssumption DEF TypeOK, LogTypes, CounterTypes, NumberInv
<1>1. /\ messageNumber' = messageNumber + 1 /\ uuids' = messageNumber + 1
      /\ messageNumber' \in Numbers
  BY <1>0, NoWrap, ArrivalsAssumption DEF NumberInv, Service!NextNumber, NextNumber
<1>2. Service!Current.id = header.id /\ Service!Current.id \in PeerIds
  BY DEF TypeOK, LogTypes, ResponseInv, Service!Current, PeerIds
<1>3. header' = [id |-> messageNumber', relatesTo |-> Service!Current.id,
                 num |-> messageNumber']
  BY <1>1, <1>2
     DEF TypeOK, HeaderTypes, ServiceHeaders, Service!ProbeHeader,
         Service!AddAppSequence, Service!AddRelatesTo, Service!Request
<1>4. FlagTypes' /\ PlaceTypes'
  BY DEF TypeOK, FlagTypes, PlaceTypes
<1>5. HeaderTypes'
  BY <1>1, <1>2, <1>3, <1>0 DEF TypeOK, HeaderTypes, ServiceHeaders
<1>6. LogTypes' /\ CounterTypes'
  BY <1>0, <1>1 DEF TypeOK, LogTypes, CounterTypes
<1>7. ControlInv' /\ LifeInv'
  BY DEF TypeOK, PlaceTypes, ControlInv, LifeInv, LastSent, Before, During, After
<1>8. sent # <<>> /\ LastSent.num \in Nat /\ LastSent.num <= messageNumber
  BY LastSentType DEF TypeOK, LogTypes, LifeInv, NumberInv, During
<1>9. NumberInv'
  BY <1>0, <1>1, <1>8 DEF NumberInv, LastSent, During, After
<1>10. ResponseInv'
  BY <1>0, <1>1, <1>3, <1>8 DEF ResponseInv, LastSent, Service!Current
<1>11. AnswersCorrelate'
  BY DEF AnswersCorrelate
<1> QED
  BY <1>4, <1>5, <1>6, <1>7, <1>9, <1>10, <1>11 DEF Inv, TypeOK

\* The message of an answer: its number is the last one taken.
LEMMA CopyMessage ==
  ASSUME Inv, At("serve"), Service!SendCopy
  PROVE  LET m == Message("ProbeMatches", header, Len(received)) IN
         /\ received \in Seq(Datagrams) /\ received # <<>>
         /\ Len(received) \in Nat \ {0} /\ Len(inbox) \in Nat
         /\ Len(received) <= MaxArrivals
         /\ Service!Current.kind = "Probe"
         /\ sent' = Append(sent, m) /\ m \in Messages
         /\ m.kind = "ProbeMatches" /\ m.num = messageNumber
         /\ m.cause = Len(received) /\ m.relatesTo = Service!Current.id
         /\ sent \in Seq(Messages) /\ sent # <<>> /\ Len(sent) \in Nat \ {0}
         /\ Len(sent') = Len(sent) + 1 /\ sent'[Len(sent')] = m
         /\ \A i \in 1..Len(sent) : sent'[i] = sent[i]
<1> DEFINE m == Message("ProbeMatches", header, Len(received))
<1> USE DEF Inv, At, Service!SendCopy
<1>0. /\ received \in Seq(Datagrams) /\ received # <<>>
      /\ Len(received) \in Nat \ {0} /\ Len(inbox) \in Nat
      /\ Len(received) <= MaxArrivals
      /\ Service!Current \in Datagrams /\ Service!Current.kind = "Probe"
  BY ArrivalsAssumption DEF TypeOK, LogTypes, NumberInv, ResponseInv, Service!Current
<1>1. /\ messageNumber \in Numbers
      /\ header.id = messageNumber /\ header.num = messageNumber
      /\ header.relatesTo = Service!Current.id
  BY <1>0, ArrivalsAssumption DEF TypeOK, CounterTypes, NumberInv, ResponseInv, During, Numbers
<1>2. /\ sent' = Append(sent, m) /\ m \in Messages
      /\ m.kind = "ProbeMatches" /\ m.num = messageNumber
      /\ m.cause = Len(received) /\ m.relatesTo = Service!Current.id
  <2>1. m = [kind |-> "ProbeMatches", id |-> messageNumber,
             relatesTo |-> Service!Current.id, num |-> messageNumber,
             cause |-> Len(received)]
    BY <1>1 DEF Message
  <2>2. Len(received) \in 1..MaxArrivals /\ Service!Current.id \in PeerIds
    BY <1>0, ArrivalsAssumption DEF PeerIds
  <2>3. m \in Answers
    BY <2>1, <2>2, <1>1 DEF Answers
  <2>4. sent' = Append(sent, m)
    BY DEF Service!Message, Message
  <2> QED
    BY <2>1, <2>3, <2>4 DEF Messages
<1>3. /\ sent \in Seq(Messages) /\ sent # <<>> /\ Len(sent) \in Nat \ {0}
      /\ Len(sent') = Len(sent) + 1 /\ sent'[Len(sent')] = m
      /\ \A i \in 1..Len(sent) : sent'[i] = sent[i]
  BY <1>2, LastSentType DEF TypeOK, LogTypes, LifeInv, During
<1> QED
  BY <1>0, <1>2, <1>3

\* A copy of the answer is written.
LEMMA SendCopyStep ==
  ASSUME Inv, At("serve"), Service!SendCopy, GoTo("serve"), UNCHANGED proxyHeader
  PROVE  Inv'
<1> DEFINE m == Message("ProbeMatches", header, Len(received))
<1> USE DEF Inv, At, GoTo, ThreadUnchanged, Service!SendCopy
<1>m. /\ received \in Seq(Datagrams) /\ received # <<>>
      /\ Len(received) \in Nat \ {0} /\ Len(inbox) \in Nat
      /\ Len(received) <= MaxArrivals
      /\ Service!Current.kind = "Probe"
      /\ sent' = Append(sent, m) /\ m \in Messages
      /\ m.kind = "ProbeMatches" /\ m.num = messageNumber
      /\ m.cause = Len(received) /\ m.relatesTo = Service!Current.id
      /\ sent \in Seq(Messages) /\ sent # <<>> /\ Len(sent) \in Nat \ {0}
      /\ Len(sent') = Len(sent) + 1 /\ sent'[Len(sent')] = m
      /\ \A i \in 1..Len(sent) : sent'[i] = sent[i]
  BY CopyMessage
<1>4. FlagTypes' /\ PlaceTypes'
  BY DEF TypeOK, FlagTypes, PlaceTypes
<1>5. HeaderTypes' /\ LogTypes' /\ CounterTypes'
  BY <1>m DEF TypeOK, HeaderTypes, LogTypes, CounterTypes, ResponseInv
<1>6. ControlInv'
  BY DEF TypeOK, PlaceTypes, ControlInv, Before, After
<1>7. LifeInv'
  BY <1>m DEF LifeInv, LastSent, Before, During, After
<1>8. NumberInv'
  <2>1. LastSent'.num = messageNumber' /\ messageNumber' = messageNumber
    BY <1>m DEF LastSent
  <2>2. messageNumber \in Nat /\ phase' # "dispatch"
    BY DEF TypeOK, CounterTypes
  <2> QED
    BY <1>m, <2>1, <2>2 DEF NumberInv, During, After
<1>9. ResponseInv'
  <2>1. copies = 0 => LastSent.num < messageNumber /\ sent'[Len(sent') - 1] = LastSent
    BY <1>m DEF ResponseInv, LastSent
  <2> QED
    BY <1>m, <2>1 DEF ResponseInv, LastSent, Service!Current, Message
<1>10. AnswersCorrelate'
  <2>1. \A i \in 1..Len(sent') : i \in 1..Len(sent) \/ i = Len(sent')
    BY <1>m
  <2>2. received' = received /\ m.relatesTo = received[Len(received)].id
        /\ received[Len(received)].kind = "Probe"
    BY <1>m DEF Service!Current
  <2>3. ASSUME NEW i \in 1..Len(sent), sent'[i].kind = "ProbeMatches"
        PROVE  /\ sent'[i].cause \in 1..Len(received)
               /\ received[sent'[i].cause].kind = "Probe"
               /\ sent'[i].relatesTo = received[sent'[i].cause].id
    BY <1>m, <2>3 DEF AnswersCorrelate
  <2>4. /\ sent'[Len(sent')].cause \in 1..Len(received)
        /\ received[sent'[Len(sent')].cause].kind = "Probe"
        /\ sent'[Len(sent')].relatesTo = received[sent'[Len(sent')].cause].id
    BY <1>m, <2>2
  <2> QED
    BY <2>1, <2>2, <2>3, <2>4 DEF AnswersCorrelate
<1> QED
  BY <1>4, <1>5, <1>6, <1>7, <1>8, <1>9, <1>10 DEF Inv, TypeOK

\* The message of a Hello: its number is the next one.
LEMMA HelloMessage ==
  ASSUME NEW ok \in BOOLEAN, Inv, SendHello(ok)
  PROVE  LET m == Message("Hello", proxyHeader', 0) IN
         /\ thread \in {"hello", "bye"} /\ master = "none" /\ phase = "idle"
         /\ inbox = <<>> /\ inbox' = <<>> /\ ~caught
         /\ messageNumber \in Nat /\ Len(received) \in Nat /\ Len(inbox) = 0
         /\ Len(received) <= MaxArrivals
         /\ messageNumber' = messageNumber + 1 /\ uuids' = messageNumber + 1
         /\ messageNumber' \in Numbers
         /\ proxyHeader' = [id |-> messageNumber', relatesTo |-> NoId,
                            num |-> messageNumber']
         /\ sent' = IF ok THEN Append(sent, m) ELSE sent
         /\ m \in Messages /\ m.kind = "Hello" /\ m.num = messageNumber'
<1> DEFINE m == Message("Hello", proxyHeader', 0)
<1> USE DEF Inv, At, SendHello, Announced, Loopback, ThreadUnchanged,
            Proxy!Hello, Proxy!Announce, Proxy!Send
<1>0. /\ thread \in {"hello", "bye"} /\ master = "none" /\ phase = "idle"
      /\ inbox = <<>> /\ inbox' = <<>> /\ ~caught
      /\ messageNumber \in Nat /\ Len(received) \in Nat /\ Len(inbox) = 0
      /\ Len(received) <= MaxArrivals
      /\ messageNumber < MaxArrivals + 2
  BY ArrivalsAssumption
     DEF TypeOK, LogTypes, CounterTypes, ControlInv, LifeInv, NumberInv, Before, During, After
<1>1. /\ messageNumber' = messageNumber + 1 /\ uuids' = messageNumber + 1
      /\ messageNumber' \in Numbers
  BY <1>0, NoWrap DEF NumberInv, Proxy!NextNumber, NextNumber
<1>2. proxyHeader' = [id |-> messageNumber', relatesTo |-> NoId, num |-> messageNumber']
  BY <1>1 DEF TypeOK, HeaderTypes, ProxyHeaders, Proxy!AddAppSequence, Proxy!Request
<1>3. /\ sent' = IF ok THEN Append(sent, m) ELSE sent
      /\ m \in Messages /\ m.kind = "Hello" /\ m.num = messageNumber'
  BY <1>1, <1>2, ArrivalsAssumption DEF Proxy!Message, Message, Messages, Announcements
<1> QED
  BY <1>0, <1>1, <1>2, <1>3

\* Hello goes out, or fails and leads to the catch.
LEMMA SendHelloStep ==
  ASSUME NEW ok \in BOOLEAN, Inv, SendHello(ok)
  PROVE  Inv'
<1> DEFINE m == Message("Hello", proxyHeader', 0)
<1>m. /\ thread \in {"hello", "bye"} /\ master = "none" /\ phase = "idle"
      /\ inbox = <<>> /\ inbox' = <<>> /\ ~caught
      /\ messageNumber \in Nat /\ Len(received) \in Nat /\ Len(inbox) = 0
      /\ Len(received) <= MaxArrivals
      /\ messageNumber' = messageNumber + 1 /\ uuids' = messageNumber + 1
      /\ messageNumber' \in Numbers
      /\ proxyHeader' = [id |-> messageNumber', relatesTo |-> NoId,
                         num |-> messageNumber']
      /\ sent' = IF ok THEN Append(sent, m) ELSE sent
      /\ m \in Messages /\ m.kind = "Hello" /\ m.num = messageNumber'
  BY HelloMessage
<1> USE DEF Inv, At, SendHello, Announced, Loopback, ThreadUnchanged,
            Proxy!Hello, Proxy!Announce, Proxy!Send
<1>4. FlagTypes' /\ PlaceTypes'
  BY DEF TypeOK, FlagTypes, PlaceTypes
<1>5. HeaderTypes'
  BY <1>m, ArrivalsAssumption
     DEF TypeOK, HeaderTypes, ProxyHeaders, Numbers
<1>6. LogTypes' /\ CounterTypes'
  BY <1>m DEF TypeOK, LogTypes, CounterTypes
<1>7. ControlInv'
  BY <1>m DEF ControlInv, Before, After
<1>8. /\ sent \in Seq(Messages) /\ Len(sent) \in Nat
      /\ ok => /\ sent' # <<>> /\ Len(sent') = Len(sent) + 1 /\ LastSent' = m
               /\ \A i \in 1..Len(sent) : sent'[i] = sent[i]
  BY <1>m DEF TypeOK, LogTypes, LastSent
<1>9. LifeInv'
  BY <1>m, <1>8 DEF LifeInv, Before, During, After
<1>10. NumberInv'
  <2>1. sent' # <<>> => LastSent'.num <= messageNumber'
    <3>1. CASE ok
      BY <3>1, <1>m, <1>8
    <3>2. CASE ~ok /\ sent # <<>>
      BY <3>2, <1>m, LastSentType DEF TypeOK, LogTypes, NumberInv, LastSent
    <3> QED
      BY <1>m, <3>1, <3>2
  <2> QED
    BY <1>m, <2>1 DEF LifeInv, NumberInv, Before, During, After
<1>11. ResponseInv'
  BY <1>m DEF ResponseInv
<1>12. AnswersCorrelate'
  BY <1>m, <1>8 DEF AnswersCorrelate
<1> QED
  BY <1>4, <1>5, <1>6, <1>7, <1>9, <1>10, <1>11, <1>12 DEF Inv, TypeOK

\* The message of a Bye: its number is the next one.
LEMMA ByeMessage ==
  ASSUME NEW ok \in BOOLEAN, Inv, SendBye(ok)
  PROVE  LET m == Message("Bye", proxyHeader', 0) IN
         /\ thread \in {"hello", "bye"} /\ master = "none" /\ phase = "idle"
         /\ inbox = <<>> /\ inbox' = <<>> /\ ~caught
         /\ messageNumber \in Nat /\ Len(received) \in Nat /\ Len(inbox) = 0
         /\ Len(received) <= MaxArrivals
         /\ messageNumber' = messageNumber + 1 /\ uuids' = messageNumber + 1
         /\ messageNumber' \in Numbers
         /\ proxyHeader' = [id |-> messageNumber', relatesTo |-> NoId,
                            num |-> messageNumber']
         /\ sent' = IF ok THEN Append(sent, m) ELSE sent
         /\ m \in Messages /\ m.kind = "Bye" /\ m.num = messageNumber'
<1> DEFINE m == Message("Bye", proxyHeader', 0)
<1> USE DEF Inv, At, SendBye, Announced, Loopback, ThreadUnchanged,
            Proxy!Bye, Proxy!Announce, Proxy!Send
<1>0. /\ thread \in {"hello", "bye"} /\ master = "none" /\ phase = "idle"
      /\ inbox = <<>> /\ inbox' = <<>> /\ ~caught
      /\ messageNumber \in Nat /\ Len(received) \in Nat /\ Len(inbox) = 0
      /\ Len(received) <= MaxArrivals
      /\ messageNumber < MaxArrivals + 2
  BY ArrivalsAssumption
     DEF TypeOK, LogTypes, CounterTypes, ControlInv, LifeInv, NumberInv, Before, During, After
<1>1. /\ messageNumber' = messageNumber + 1 /\ uuids' = messageNumber + 1
      /\ messageNumber' \in Numbers
  BY <1>0, NoWrap DEF NumberInv, Proxy!NextNumber, NextNumber
<1>2. proxyHeader' = [id |-> messageNumber', relatesTo |-> NoId, num |-> messageNumber']
  BY <1>1 DEF TypeOK, HeaderTypes, ProxyHeaders, Proxy!AddAppSequence, Proxy!Request
<1>3. /\ sent' = IF ok THEN Append(sent, m) ELSE sent
      /\ m \in Messages /\ m.kind = "Bye" /\ m.num = messageNumber'
  BY <1>1, <1>2, ArrivalsAssumption DEF Proxy!Message, Message, Messages, Announcements
<1> QED
  BY <1>0, <1>1, <1>2, <1>3

\* Bye goes out, or fails and leads to the catch.
LEMMA SendByeStep ==
  ASSUME NEW ok \in BOOLEAN, Inv, SendBye(ok)
  PROVE  Inv'
<1> DEFINE m == Message("Bye", proxyHeader', 0)
<1>m. /\ thread \in {"hello", "bye"} /\ master = "none" /\ phase = "idle"
      /\ inbox = <<>> /\ inbox' = <<>> /\ ~caught
      /\ messageNumber \in Nat /\ Len(received) \in Nat /\ Len(inbox) = 0
      /\ Len(received) <= MaxArrivals
      /\ messageNumber' = messageNumber + 1 /\ uuids' = messageNumber + 1
      /\ messageNumber' \in Numbers
      /\ proxyHeader' = [id |-> messageNumber', relatesTo |-> NoId,
                         num |-> messageNumber']
      /\ sent' = IF ok THEN Append(sent, m) ELSE sent
      /\ m \in Messages /\ m.kind = "Bye" /\ m.num = messageNumber'
  BY ByeMessage
<1> USE DEF Inv, At, SendBye, Announced, Loopback, ThreadUnchanged,
            Proxy!Bye, Proxy!Announce, Proxy!Send
<1>4. FlagTypes' /\ PlaceTypes'
  BY DEF TypeOK, FlagTypes, PlaceTypes
<1>5. HeaderTypes'
  BY <1>m, ArrivalsAssumption
     DEF TypeOK, HeaderTypes, ProxyHeaders, Numbers
<1>6. LogTypes' /\ CounterTypes'
  BY <1>m DEF TypeOK, LogTypes, CounterTypes
<1>7. ControlInv'
  BY <1>m DEF ControlInv, Before, After
<1>8. /\ sent \in Seq(Messages) /\ Len(sent) \in Nat
      /\ ok => /\ sent' # <<>> /\ Len(sent') = Len(sent) + 1 /\ LastSent' = m
               /\ \A i \in 1..Len(sent) : sent'[i] = sent[i]
  <2>1. sent \in Seq(Messages)
    BY DEF TypeOK, LogTypes
  <2>2. ASSUME ok
        PROVE  /\ sent' # <<>> /\ Len(sent') = Len(sent) + 1
               /\ sent'[Len(sent')] = m
               /\ \A i \in 1..Len(sent) : sent'[i] = sent[i]
    <3> HIDE DEF m
    <3> QED
      BY <1>m, <2>1, <2>2
  <2> QED
    BY <2>1, <2>2 DEF LastSent
<1>9. LifeInv'
  BY <1>m, <1>8 DEF ControlInv, LifeInv, Before, During, After
<1>10. NumberInv'
  <2>1. sent' # <<>> => LastSent'.num <= messageNumber'
    <3>1. CASE ok
      BY <3>1, <1>m, <1>8
    <3>2. CASE ~ok /\ sent # <<>>
      BY <3>2, <1>m, LastSentType DEF TypeOK, LogTypes, NumberInv, LastSent
    <3> QED
      BY <1>m, <3>1, <3>2
  <2> QED
    BY <1>m, <2>1 DEF LifeInv, NumberInv, Before, During, After
<1>11. ResponseInv'
  BY <1>m DEF ResponseInv
<1>12. AnswersCorrelate'
  BY <1>m, <1>8 DEF AnswersCorrelate
<1> QED
  BY <1>4, <1>5, <1>6, <1>7, <1>9, <1>10, <1>11, <1>12 DEF Inv, TypeOK

\* Every step of the daemon preserves the invariant.
LEMMA InvStep == Inv /\ [Next]_vars => Inv'
<1> SUFFICES ASSUME Inv, [Next]_vars PROVE Inv'
  OBVIOUS
<1>1. CASE Main
  BY <1>1, MainStep
<1>2. CASE \E ok \in BOOLEAN : SendHello(ok) \/ SendBye(ok)
  BY <1>2, SendHelloStep, SendByeStep
<1>3. CASE OpenProxy("open", "hello") \/ OpenProxy("reopen", "bye")
  BY <1>3, OpenProxyStep
<1>4. CASE \E outcome \in Service!BindOutcomes : BindService(outcome)
  BY <1>4, BindStep
<1>5. CASE ServeOne
  BY <1>5, ReceiveTimeoutStep, ReceiveStep, DispatchSilentStep, DispatchUnknownStep,
     DispatchProbeStep, SendCopyStep, SendFailsStep, SendFaultStep
     DEF ServeOne, Service!Serve
<1>6. CASE TestStopped \/ Accept \/ Served \/ CloseService \/ Finish
  BY <1>6, TestStoppedStep, AcceptStep, ServedStep, CloseStep, FinishStep
<1>7. CASE \E signal \in Signals : Raise(signal)
  BY <1>7, RaiseStep
<1>8. CASE \E d \in Datagrams : PeerSends(d)
  BY <1>8, ArriveStep
<1>9. CASE UNCHANGED vars
  BY <1>9 DEF vars, service, shared, control, Inv, TypeOK, FlagTypes, PlaceTypes,
     HeaderTypes, LogTypes, CounterTypes, ControlInv, LifeInv, NumberInv,
     ResponseInv, AnswersCorrelate, LastSent, Service!Current
<1> QED
  BY <1>1, <1>2, <1>3, <1>4, <1>5, <1>6, <1>7, <1>8, <1>9 DEF Next, Thread, Over

\* The invariant holds throughout the life of the daemon.
THEOREM Invariance == Spec => []Inv
BY InvInit, InvStep, PTL DEF Spec

\* Type correctness.
THEOREM TypeTheorem == Spec => []TypeOK
<1>1. Inv => TypeOK
  BY DEF Inv
<1> QED
  BY <1>1, Invariance, PTL

\* exec() gives up the Wsdd object, by returning or by the failed assertion,
\* only when no service thread is left that could use it.
THEOREM JoinTheorem == Spec => []NoThreadOutlivesExec
<1>1. Inv => NoThreadOutlivesExec
  BY DEF Inv, ControlInv, NoThreadOutlivesExec, Ended
<1> QED
  BY <1>1, Invariance, PTL

\* Nothing but a signal, or a Hello that could not be sent, ends the service
\* loop, and a process that announced itself ends only after trying to say Bye.
THEOREM LoopTheorem == Spec => []LoopEndsOnlyBySignal
<1>1. ASSUME Inv PROVE LoopEndsOnlyBySignal
  <2>1. thread \in {"close", "reopen", "bye", "finish", "done"} /\ ~iosStopped
          => caught /\ sent = <<>>
    BY <1>1 DEF Inv, ControlInv, LifeInv, After
  <2>2. ASSUME Ended, Said("Hello"), ~caught PROVE Said("Bye")
    <3>1. thread = "done"
      BY <1>1, <2>2 DEF Inv, ControlInv, LifeInv, Ended, Said, Before
    <3>2. sent # <<>> /\ LastSent.kind = "Bye"
      BY <1>1, <2>2, <3>1 DEF Inv, LifeInv, After
    <3> QED
      BY <1>1, <3>2 DEF Inv, TypeOK, LogTypes, LastSent, Said
  <2> QED
    BY <2>1, <2>2 DEF LoopEndsOnlyBySignal
<1> QED
  BY <1>1, Invariance, PTL

\* Every ProbeMatches names the Probe it answers.
THEOREM CorrelationTheorem == Spec => []AnswersCorrelate
<1>1. Inv => AnswersCorrelate
  BY DEF Inv
<1> QED
  BY <1>1, Invariance, PTL

\* What the daemon puts on the network is what a discovery target promises:
\* Hello, then answers in the order of their numbers and at most twice, then Bye.
THEOREM Refinement == Spec => TargetSpec
<1>1. Init => Target!Init
  BY DEF Init, Service!Init, Target!Init
<1>2. ASSUME Inv, [Next]_vars PROVE [Target!Next]_sent
  <2>1. ASSUME NEW ok \in BOOLEAN, SendHello(ok) PROVE [Target!Next]_sent
    <3>1. sent = <<>>
      BY <1>2, <2>1 DEF Inv, SendHello, At, LifeInv, Before
    <3> QED
      BY <1>2, <2>1, <3>1, HelloMessage DEF Target!Next, Target!Announce
  <2>2. ASSUME NEW ok \in BOOLEAN, SendBye(ok) PROVE [Target!Next]_sent
    <3>1. /\ sent # <<>> /\ LastSent.kind # "Bye"
          /\ LastSent.num \in Nat /\ LastSent.num <= messageNumber
      BY <1>2, <2>2, LastSentType
         DEF Inv, TypeOK, LogTypes, SendBye, At, LifeInv, NumberInv, During
    <3> QED
      BY <1>2, <2>2, <3>1, ByeMessage
         DEF Target!Next, Target!Leave, Target!Present, Target!New, Target!Last, LastSent
  <2>3. ASSUME At("serve"), Service!SendCopy PROVE [Target!Next]_sent
    <3> DEFINE m == Message("ProbeMatches", header, Len(received))
    <3>1. /\ sent' = Append(sent, m) /\ m \in Messages
          /\ m.kind = "ProbeMatches" /\ m.num = messageNumber
          /\ sent # <<>>
      BY <1>2, <2>3, CopyMessage
    <3>2. LastSent.kind # "Bye" /\ messageNumber \in Nat
      BY <1>2, <2>3 DEF Inv, TypeOK, CounterTypes, At, LifeInv, During
    <3>3. CASE copies = 0
      BY <1>2, <2>3, <3>1, <3>2, <3>3
         DEF Inv, ResponseInv, Service!SendCopy, LastSent,
             Target!Next, Target!Answer, Target!Present, Target!New, Target!Last
    <3>4. CASE copies = 1
      <4>1. LastSent = m /\ (Len(sent) > 1 => sent[Len(sent) - 1].num < m.num)
        BY <1>2, <2>3, <3>1, <3>4 DEF Inv, ResponseInv, Service!SendCopy
      <4> QED
        BY <3>1, <3>2, <4>1
           DEF LastSent, Target!Next, Target!Repeat, Target!Present, Target!Last
    <3> QED
      BY <1>2, <2>3, <3>3, <3>4 DEF Inv, ResponseInv, Service!SendCopy
  <2>4. CASE UNCHANGED sent
    BY <2>4
  <2> QED
    BY <1>2, <2>1, <2>2, <2>3, <2>4
       DEF Next, Thread, Main, MainUnchanged, shared, vars, Over,
           DaemonFails, StartService, SignalHandler, RunReturns, Join, LoopOrLeave,
           OpenProxy, Proxy!Open, BindService, Service!Bind, TestStopped, Accept,
           ServeOne, Service!Serve, Service!ReceiveTimeout, Service!Receive,
           Service!DispatchSilent, Service!DispatchUnknown, Service!DispatchProbe,
           Service!SendFails, Service!SendFault, Served, Service!Return,
           CloseService, Service!Close, Finish, Raise, PeerSends, Service!Arrive
<1> QED
  BY <1>1, <1>2, Invariance, PTL DEF Spec, TargetSpec, Target!Spec

\* The daemon's messages are numbered.
LEMMA NumbersAreNatural == \A m \in Messages : m.num \in Nat
BY ArrivalsAssumption DEF Messages, Announcements, Answers, Numbers

\* What a discovery target puts on the network are messages.
THEOREM Typing == TargetSpec => []Target!TypeOK
<1>1. Target!Init => Target!TypeOK
  BY DEF Target!Init, Target!TypeOK
<1>2. Target!TypeOK /\ [Target!Next]_sent => Target!TypeOK'
  BY DEF Target!TypeOK, Target!Next, Target!Announce, Target!Answer, Target!Repeat,
         Target!Leave, Target!Present, Target!Last
<1> QED
  BY <1>1, <1>2, PTL DEF TargetSpec, Target!Spec

\* Sorting by number is sorting by time of sending, up to repetitions that
\* follow each other.
THEOREM OrderTheorem == TargetSpec => []NumbersOrderMessages
<1>1. Target!Init => NumbersOrderMessages
  BY DEF Target!Init, NumbersOrderMessages, Target!NumbersOrderMessages
<1>2. Target!TypeOK /\ NumbersOrderMessages /\ [Target!Next]_sent
        => NumbersOrderMessages'
  <2> SUFFICES ASSUME Target!TypeOK, NumbersOrderMessages, [Target!Next]_sent
               PROVE  NumbersOrderMessages'
    OBVIOUS
  <2> USE NumbersAreNatural DEF Target!TypeOK
  <2>1. ASSUME NEW m \in Messages, Target!New(m), sent' = Append(sent, m)
        PROVE  NumbersOrderMessages'
    <3>1. \A i \in 1..Len(sent) : sent[i].num < m.num
      BY <2>1 DEF Target!New, Target!Last, NumbersOrderMessages, Target!NumbersOrderMessages
    <3>2. /\ Len(sent') = Len(sent) + 1 /\ sent'[Len(sent) + 1] = m
          /\ \A i \in 1..Len(sent) : sent'[i] = sent[i]
      BY <2>1
    <3>3. SUFFICES ASSUME NEW i \in 1..Len(sent'), NEW j \in 1..Len(sent'), i < j
                   PROVE  \/ sent'[i].num < sent'[j].num
                          \/ j = i + 1 /\ sent'[i] = sent'[j]
      BY DEF NumbersOrderMessages, Target!NumbersOrderMessages
    <3>4. /\ Len(sent) \in Nat /\ i \in 1..Len(sent)
          /\ j = Len(sent) + 1 \/ j \in 1..Len(sent)
      BY <3>2, <3>3
    <3>5. CASE j = Len(sent) + 1
      BY <3>1, <3>2, <3>4, <3>5
    <3>6. CASE j \in 1..Len(sent)
      BY <3>2, <3>3, <3>4, <3>6 DEF NumbersOrderMessages, Target!NumbersOrderMessages
    <3> QED
      BY <3>4, <3>5, <3>6
  <2>2. CASE \E m \in Messages : Target!Announce(m) \/ Target!Answer(m) \/ Target!Leave(m)
    BY <2>1, <2>2 DEF Target!Announce, Target!Answer, Target!Leave, Target!New
  <2>3. CASE Target!Repeat
    <3>1. /\ sent # <<>> /\ Len(sent) \in Nat \ {0}
          /\ sent' = Append(sent, sent[Len(sent)])
      BY <2>3 DEF Target!Repeat, Target!Present, Target!Last
    <3>2. \A i \in 1..Len(sent) : i < Len(sent) => sent[i].num < sent[Len(sent)].num
      BY <2>3, <3>1 DEF Target!Repeat, Target!Last, NumbersOrderMessages, Target!NumbersOrderMessages
    <3>3. /\ Len(sent') = Len(sent) + 1 /\ sent'[Len(sent) + 1] = sent[Len(sent)]
          /\ \A i \in 1..Len(sent) : sent'[i] = sent[i]
      BY <3>1
    <3>4. SUFFICES ASSUME NEW i \in 1..Len(sent'), NEW j \in 1..Len(sent'), i < j
                   PROVE  \/ sent'[i].num < sent'[j].num
                          \/ j = i + 1 /\ sent'[i] = sent'[j]
      BY DEF NumbersOrderMessages, Target!NumbersOrderMessages
    <3>5. /\ i \in 1..Len(sent)
          /\ j = Len(sent) + 1 \/ j \in 1..Len(sent)
      BY <3>1, <3>3, <3>4
    <3>6. CASE j = Len(sent) + 1 /\ i < Len(sent)
      BY <3>1, <3>2, <3>3, <3>5, <3>6
    <3>7. CASE j = Len(sent) + 1 /\ i = Len(sent)
      BY <3>1, <3>3, <3>5, <3>7
    <3>8. CASE j \in 1..Len(sent)
      BY <3>3, <3>4, <3>5, <3>8 DEF NumbersOrderMessages, Target!NumbersOrderMessages
    <3> QED
      BY <3>1, <3>5, <3>6, <3>7, <3>8
  <2>4. CASE UNCHANGED sent
    BY <2>4 DEF NumbersOrderMessages, Target!NumbersOrderMessages
  <2> QED
    BY <2>2, <2>3, <2>4 DEF Target!Next
<1> QED
  BY <1>1, <1>2, Typing, PTL DEF TargetSpec, Target!Spec

\* The announcement opens the life of a target and the leave closes it.
THEOREM FrameTheorem == TargetSpec => []HelloFirstByeLast
<1>1. Target!Init => HelloFirstByeLast
  BY DEF Target!Init, HelloFirstByeLast, Target!HelloFirstByeLast
<1>2. Target!TypeOK /\ HelloFirstByeLast /\ [Target!Next]_sent
        => HelloFirstByeLast'
  <2> SUFFICES ASSUME Target!TypeOK, HelloFirstByeLast, [Target!Next]_sent
               PROVE  HelloFirstByeLast'
    OBVIOUS
  <2> USE DEF Target!TypeOK, HelloFirstByeLast, Target!HelloFirstByeLast
  <2>1. ASSUME NEW m \in Messages, Target!Announce(m) PROVE HelloFirstByeLast'
    BY <2>1 DEF Target!Announce
  <2>2. ASSUME NEW m \in Messages, Target!Answer(m) PROVE HelloFirstByeLast'
    BY <2>2 DEF Target!Answer, Target!Present, Target!Last
  <2>3. ASSUME NEW m \in Messages, Target!Leave(m) PROVE HelloFirstByeLast'
    BY <2>3 DEF Target!Leave, Target!Present, Target!Last
  <2>4. CASE Target!Repeat
    BY <2>4 DEF Target!Repeat, Target!Present, Target!Last
  <2>5. CASE UNCHANGED sent
    BY <2>5
  <2> QED
    BY <2>1, <2>2, <2>3, <2>4, <2>5 DEF Target!Next
<1> QED
  BY <1>1, <1>2, Typing, PTL DEF TargetSpec, Target!Spec

\* A listener that sorts the daemon's messages by number sees the order in which
\* they were sent, and drops only the second copies of answers.
THEOREM ListenerTheorem == Spec => []NumbersOrderMessages
BY OrderTheorem, Refinement, PTL

\* Nothing leaves the daemon before its Hello or after its Bye.
THEOREM LifeTheorem == Spec => []HelloFirstByeLast
BY FrameTheorem, Refinement, PTL

\* A signal is the first of its process or it is not.
LEMMA FirstKept ==
  ASSUME Inv, NEW signal \in Signals, NEW new \in Signals, raised' = Append(raised, new)
  PROVE  /\ raised' # <<>>
         /\ First(signal) => First(signal)'
         /\ raised = <<>> => First(new)'
BY DEF Inv, TypeOK, PlaceTypes, First

\* Only the first signal reaches the handler, and only the handler sets stopped_.
LEMMA SignalStep == Inv /\ SignalInv /\ [Next]_vars => SignalInv'
<1> SUFFICES ASSUME Inv, SignalInv, [Next]_vars PROVE SignalInv'
  OBVIOUS
<1>1. ASSUME NEW signal \in Signals, Raise(signal) PROVE SignalInv'
  <2>1. /\ raised' = Append(raised, signal) /\ UNCHANGED <<main, thread, stopped>>
        /\ wait' = IF wait = "armed" THEN signal ELSE wait
    BY <1>1 DEF Raise
  <2>2. raised' # <<>> /\ wait' # "armed"
    BY <2>1, FirstKept, SignalsAssumption
  <2>3. wait' \in Signals => First(wait)'
    BY <2>1, FirstKept, SignalsAssumption DEF SignalInv, First
  <2>4. stopped' => \E s \in Signals \ {"SIGHUP"} : First(s)'
    BY <2>1, FirstKept DEF SignalInv
  <2> QED
    BY <2>1, <2>2, <2>3, <2>4 DEF SignalInv
<1>2. CASE SignalHandler
  <2>1. /\ wait \in Signals /\ First(wait) /\ stopped' = (wait # "SIGHUP")
        /\ wait' = "over" /\ main' = "run" /\ raised' = raised /\ raised # <<>>
    BY <1>2 DEF SignalHandler, MainUnchanged, SignalInv, First
  <2>2. stopped' => \E s \in Signals \ {"SIGHUP"} : First(s)'
    BY <2>1 DEF First
  <2> QED
    BY <2>1, <2>2, SignalsAssumption DEF SignalInv
<1>3. CASE DaemonFails \/ StartService \/ RunReturns \/ Join \/ LoopOrLeave
  <2>1. /\ UNCHANGED <<wait, raised, stopped>>
        /\ main' = "exited" /\ thread' # "none" => stopped
    BY <1>3 DEF DaemonFails, StartService, RunReturns, Join, LoopOrLeave, MainUnchanged,
       Inv, ControlInv
  <2> QED
    BY <2>1 DEF SignalInv, First
<1>4. CASE Thread
  <2>1. UNCHANGED <<main, wait, raised, stopped>> /\ ~Ended
    BY <1>4 DEF Ended, At, GoTo, ThreadUnchanged, Thread,
       OpenProxy, SendHello, SendBye, Announced, BindService, TestStopped, Accept,
       ServeOne, Served, CloseService, Finish
  <2> QED
    BY <2>1 DEF SignalInv, First, Ended
<1>5. CASE UNCHANGED <<main, thread, wait, raised, stopped>>
  BY <1>5 DEF SignalInv, First
<1> QED
  BY <1>1, <1>2, <1>3, <1>4, <1>5 DEF Next, Main, PeerSends, control, Over, vars

\* Whatever signals come, in whatever number and order, only the first one makes
\* exec() return, and only if it is not SIGHUP.
THEOREM StopTheorem == Spec => []FirstSignalDecides
<1>1. Init => SignalInv
  BY SignalsAssumption DEF Init, SignalInv
<1>2. SignalInv => FirstSignalDecides
  BY DEF SignalInv, FirstSignalDecides
<1> QED
  BY <1>1, <1>2, SignalStep, Invariance, PTL DEF Spec

\* What makes a handler fail is no announcement, neither the one at hand nor an
\* earlier one.
SilenceInv ==
  /\ phase = "fault" => Service!Current.kind \notin {"Hello", "Bye"}
  /\ \A n \in failed : received[n].kind \notin {"Hello", "Bye"}

\* The service's steps: only a Probe or what is no operation leads to a fault,
\* and only the datagram at hand can fail.
LEMMA SilenceStep == Inv /\ SilenceInv /\ [Next]_vars => SilenceInv'
<1> SUFFICES ASSUME Inv, SilenceInv, [Next]_vars PROVE SilenceInv'
  OBVIOUS
<1>1. /\ Len(received) \in Nat /\ received \in Seq(Datagrams)
      /\ inbox \in Seq(Datagrams) /\ failed \subseteq 1..Len(received)
  BY DEF Inv, TypeOK, LogTypes
<1>2. CASE Service!Receive
  <2>1. /\ received' = Append(received, Head(inbox)) /\ phase' # "fault"
        /\ \/ failed' = failed
           \/ /\ Head(inbox).kind = "Garbage"
              /\ failed' = failed \cup {Len(received) + 1}
    BY <1>1, <1>2 DEF Service!Receive, Service!Take
  <2>2. Head(inbox) \in Datagrams
    BY <1>1, <1>2 DEF Service!Receive, Service!Take
  <2>3. \A n \in failed : received'[n] = received[n]
    BY <1>1, <2>1, <2>2
  <2>4. received'[Len(received) + 1] = Head(inbox)
    BY <1>1, <2>1, <2>2
  <2> QED
    BY <2>1, <2>3, <2>4 DEF SilenceInv
<1>3. CASE Service!SendFault
  <2>1. phase = "fault" /\ received # <<>>
    BY <1>3 DEF Inv, ResponseInv, Service!SendFault
  <2> QED
    BY <1>1, <1>3, <2>1 DEF SilenceInv, Service!SendFault, Service!Current
<1>4. CASE Service!DispatchUnknown \/ Service!SendFails
  BY <1>4 DEF Inv, ResponseInv, SilenceInv, Service!DispatchUnknown,
     Service!SendFails, Service!Current
<1>5. CASE UNCHANGED <<received, failed>> /\ phase' # "fault"
  BY <1>5 DEF SilenceInv, Service!Current
<1>6. CASE UNCHANGED <<received, failed, phase>>
  BY <1>6 DEF SilenceInv, Service!Current
<1> QED
  BY <1>2, <1>3, <1>4, <1>5, <1>6
     DEF Next, Thread, Main, MainUnchanged, service, shared, vars, Over,
         DaemonFails, StartService, SignalHandler, RunReturns, Join, LoopOrLeave,
         OpenProxy, SendHello, SendBye, Announced, BindService, Service!Bind,
         TestStopped, Accept, ServeOne, Service!Serve, Service!ReceiveTimeout,
         Service!DispatchSilent, Service!DispatchProbe, Service!SendCopy,
         Served, Service!Return, CloseService, Service!Close, Finish, Raise,
         PeerSends, Service!Arrive

\* A peer's Hello or Bye fails no handler and is the cause of no message.
THEOREM SilenceTheorem == Spec => []AnnouncementsStaySilent
<1>1. Init => SilenceInv
  BY DEF Init, Service!Init, SilenceInv
<1>2. ASSUME Inv, SilenceInv PROVE AnnouncementsStaySilent
  <2> SUFFICES ASSUME NEW n \in 1..Len(received), received[n].kind \in {"Hello", "Bye"}
               PROVE  n \notin failed /\ Service!Answers(n) = {}
    BY DEF AnnouncementsStaySilent
  <2>1. n \notin failed
    BY <1>2 DEF SilenceInv
  <2>2. ASSUME NEW i \in 1..Len(sent), sent[i].cause = n PROVE FALSE
    <3>1. sent[i].kind = "ProbeMatches" => received[n].kind = "Probe"
      BY <1>2, <2>2 DEF Inv, AnswersCorrelate
    <3>2. sent[i] \in Messages
      BY <1>2, <2>2 DEF Inv, TypeOK, LogTypes
    <3>3. sent[i].kind # "ProbeMatches" => sent[i].cause = 0
      BY <3>2 DEF Messages, Announcements, Answers
    <3> QED
      BY <2>2, <3>1, <3>3
  <2> QED
    BY <2>1, <2>2 DEF Service!Answers
<1> QED
  BY <1>1, <1>2, SilenceStep, Invariance, PTL DEF Spec

\* Every datagram in the socket and every one taken from it is a peer's.
THEOREM StrangersTheorem == Spec => []NoSelfDelivery
<1>1. ASSUME Inv PROVE NoSelfDelivery
  <2>1. inbox \in Seq(Datagrams) /\ received \in Seq(Datagrams) /\ uuids \in Nat
    BY <1>1 DEF Inv, TypeOK, LogTypes, CounterTypes
  <2>2. \A own \in 1..uuids : \A d \in Datagrams : d.id # own
    BY <2>1, IdsAssumption
  <2>3. /\ \A i \in 1..Len(inbox) : inbox[i] \in Datagrams
        /\ \A i \in 1..Len(received) : received[i] \in Datagrams
    BY <2>1
  <2> QED
    BY <2>2, <2>3 DEF NoSelfDelivery
<1> QED
  BY <1>1, Invariance, PTL
=============================================================================
