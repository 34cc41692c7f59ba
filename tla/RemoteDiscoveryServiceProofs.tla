-------------------- MODULE RemoteDiscoveryServiceProofs --------------------
(***************************************************************************)
(* The service on its own, for every set of datagrams, any number of them, *)
(* and a user's object that may throw at every one: which answers leave    *)
(* for which Probe, and what the result of serve() says of them.           *)
(***************************************************************************)
EXTENDS RemoteDiscoveryService, FiniteSetTheorems, TLAPS

\* Lengths are numbers, and entries of the logs are of their sets.
LEMMA Lengths ==
  ASSUME TypeOK
  PROVE  /\ Len(received) \in Nat /\ Len(inbox) \in Nat /\ Len(sent) \in Nat
         /\ \A n \in 1..Len(received) : received[n] \in Datagrams
         /\ \A i \in 1..Len(sent) : sent[i] \in Responses
         /\ received # <<>> => Len(received) \in 1..Len(received) /\ Current \in Datagrams
BY DEF TypeOK, Current

\* The answers to a datagram are finitely many.
LEMMA AnswersCounted ==
  ASSUME TypeOK, NEW n
  PROVE  IsFiniteSet(Answers(n)) /\ Cardinality(Answers(n)) \in Nat
<1>1. Answers(n) \in SUBSET (1..Len(sent)) /\ Len(sent) \in Int
  BY Lengths DEF Answers
<1>2. IsFiniteSet(1..Len(sent))
  BY <1>1, FS_Interval
<1> QED
  BY <1>1, <1>2, FS_Subset, FS_CardinalityType

\* A message that leaves is one more answer to its datagram, and to no other.
LEMMA AnswersGrow ==
  ASSUME TypeOK, NEW m, sent' = Append(sent, m), NEW n
  PROVE  Cardinality(Answers(n)') =
           IF m.cause = n THEN Cardinality(Answers(n)) + 1 ELSE Cardinality(Answers(n))
<1>1. /\ Len(sent) \in Nat /\ Len(sent') = Len(sent) + 1
      /\ sent'[Len(sent) + 1] = m /\ \A i \in 1..Len(sent) : sent'[i] = sent[i]
  BY DEF TypeOK
<1>2. CASE m.cause = n
  <2>1. Answers(n)' = Answers(n) \cup {Len(sent) + 1} /\ Len(sent) + 1 \notin Answers(n)
    BY <1>1, <1>2 DEF Answers
  <2> QED
    BY <1>2, <2>1, AnswersCounted, FS_AddElement
<1>3. CASE m.cause # n
  <2>1. Answers(n)' = Answers(n)
    BY <1>1, <1>3 DEF Answers
  <2> QED
    BY <1>3, <2>1
<1> QED
  BY <1>2, <1>3

\* A datagram that has just been taken has no answers yet.
LEMMA NoAnswersYet ==
  ASSUME TypeOK, LogInv, NEW n \in Nat, n > Len(received)
  PROVE  Answers(n) = {} /\ Cardinality(Answers(n)) = 0
<1>1. Answers(n) = {}
  BY Lengths DEF Answers, LogInv, Responses
<1> QED
  BY <1>1, FS_EmptySet

\* The counter does not wrap.
LEMMA NoWrap ==
  ASSUME TypeOK, LogInv, phase = "dispatch"
  PROVE  NextNumber(messageNumber) = messageNumber + 1
<1>1. messageNumber \in Nat /\ messageNumber + 1 < UintMod /\ UintMod \in Nat
  BY Lengths, MaxArrivalsAssumption, UintModAssumption DEF TypeOK, LogInv
<1> HIDE DEF TypeOK, LogInv
<1> QED
  BY <1>1, SMT DEF NextNumber

\* The header of a fresh context is one.
LEMMA FreshHeader == NoHeader \in Headers
BY DEF NoHeader, Headers

\* Nothing has arrived and nothing is sent.
LEMMA InvInit == Init => Inv
<1> SUFFICES ASSUME Init PROVE Inv
  OBVIOUS
<1> USE DEF Init
<1>1. TypeOK
  <2>1. object \in BOOLEAN
    BY Zenon
  <2> QED
    BY <2>1, FreshHeader DEF TypeOK
<1>2. LogInv /\ HandlingInv /\ CountInv
  BY MaxArrivalsAssumption DEF LogInv, HandlingInv, CountInv, Handling
<1>3. AnswersCorrelate /\ OutcomeTellsCopies /\ CopiesAreOneAnswer
  BY DEF AnswersCorrelate, OutcomeTellsCopies, CopiesAreOneAnswer
<1> QED
  BY <1>1, <1>2, <1>3 DEF Inv

\* What answers say of the datagrams they answer depends on the two logs.
LEMMA AnswersKept ==
  ASSUME AnswersCorrelate, CopiesAreOneAnswer, UNCHANGED <<received, sent>>
  PROVE  AnswersCorrelate' /\ CopiesAreOneAnswer'
BY DEF AnswersCorrelate, CopiesAreOneAnswer

\* Nothing was taken from the socket: nobody was asked.
LEMMA NobodyAsked ==
  ASSUME TypeOK, received' = received,
         asked' = asked \cup {n \in 1..Len(received') : Asked(n)}
  PROVE  asked' = asked
<1>1. \A n \in 1..Len(received') : ~Asked(n)
  BY Lengths DEF Asked
<1> QED
  BY <1>1

\* What is said of one datagram is kept by a step that leaves its answers and its
\* place in the histories alone and does not finish it.
LEMMA OutcomeKept ==
  ASSUME Inv, NEW n \in 1..Len(received),
         Cardinality(Answers(n)') = Cardinality(Answers(n)),
         n \in failed' <=> n \in failed, n \in asked' <=> n \in asked,
         n \in thrown' <=> n \in thrown, Finished(n)' => Finished(n)
  PROVE  Outcome(n)'
<1>1. Outcome(n)
  BY DEF Inv, OutcomeTellsCopies
<1> QED
  BY <1>1 DEF Outcome

\* What is said of the logs alone is kept by a step that leaves them alone.
LEMMA LogsKept ==
  ASSUME Inv, UNCHANGED <<received, sent, failed, asked, thrown>>
  PROVE  /\ AnswersCorrelate' /\ CopiesAreOneAnswer'
         /\ \A n : Answers(n)' = Answers(n)
         /\ (\A n : Finished(n)' => Finished(n)) => OutcomeTellsCopies'
<1>1. AnswersCorrelate' /\ CopiesAreOneAnswer'
  BY AnswersKept DEF Inv
<1>2. \A n : Answers(n)' = Answers(n)
  BY DEF Answers
<1>3. ASSUME \A n : Finished(n)' => Finished(n) PROVE OutcomeTellsCopies'
  BY <1>2, <1>3, OutcomeKept DEF OutcomeTellsCopies
<1> QED
  BY <1>1, <1>2, <1>3

\* bind(), and what reaches the socket.
LEMMA SocketStep ==
  ASSUME Inv,
         \/ \E obj \in BOOLEAN, outcome \in BindOutcomes : Bind(obj, outcome)
         \/ \E d \in Datagrams : Arrive(d)
         \/ Close,
         UNCHANGED <<asked, thrown>>
  PROVE  Inv'
<1>1. /\ UNCHANGED <<phase, received, failed, messageNumber, uuids, sent>>
      /\ phase # "idle" => UNCHANGED <<header, copies>>
      /\ phase \in Handling => object' = object
      /\ phase \in Handling => master' # "none"
  BY DEF Bind, Arrive, Close, Inv, HandlingInv, Handling
<1>2. TypeOK'
  <2>1. ASSUME NEW obj \in BOOLEAN, NEW outcome \in BindOutcomes, Bind(obj, outcome)
        PROVE  TypeOK'
    BY <2>1 DEF Inv, TypeOK, Bind, BindOutcomes
  <2>2. ASSUME NEW d \in Datagrams, Arrive(d) PROVE TypeOK'
    BY <2>2 DEF Inv, TypeOK, Arrive
  <2>3. CASE Close
    <3>1. object' \in BOOLEAN
      BY <2>3, Zenon DEF Close
    <3> QED
      BY <2>3, <3>1, FreshHeader DEF Inv, TypeOK, Close
  <2> QED
    BY <2>1, <2>2, <2>3
<1>3. LogInv'
  <2>1. /\ Len(received) \in Nat /\ Len(inbox) \in Nat
        /\ Len(received) + Len(inbox) <= MaxArrivals /\ MaxArrivals \in Nat
    BY Lengths, MaxArrivalsAssumption DEF Inv, LogInv
  <2>2. CASE \E d \in Datagrams : Arrive(d)
    <3>1. Len(inbox') = Len(inbox) + 1 /\ Len(received) + Len(inbox) < MaxArrivals
      BY <2>2 DEF Arrive, Inv, TypeOK
    <3> QED
      BY <1>1, <2>1, <3>1 DEF Inv, LogInv
  <2>3. CASE Close
    <3>1. Len(inbox') = 0
      BY <2>3 DEF Close
    <3> QED
      BY <1>1, <2>1, <3>1 DEF Inv, LogInv
  <2>4. CASE inbox' = inbox
    BY <1>1, <2>4 DEF Inv, LogInv
  <2> QED
    BY <2>2, <2>3, <2>4 DEF Bind
<1>4. HandlingInv'
  BY <1>1 DEF Inv, HandlingInv, Handling, Current, Message
<1>5. CountInv' /\ OutcomeTellsCopies'
  <2>1. /\ \A n : Answers(n)' = Answers(n)
        /\ (\A n : Finished(n)' => Finished(n)) => OutcomeTellsCopies'
    BY <1>1, LogsKept
  <2>2. OutcomeTellsCopies'
    BY <1>1, <2>1 DEF Finished
  <2>3. CountInv'
    BY <1>1, <2>1 DEF Inv, CountInv, Handling, Current
  <2> QED
    BY <2>2, <2>3
<1> QED
  BY <1>1, <1>2, <1>3, <1>4, <1>5, LogsKept DEF Inv

\* The steps of serve() and of its caller between the logs' changes.
LEMMA QuietStep ==
  ASSUME Inv,
         \/ ReceiveTimeout \/ DispatchSilent \/ DispatchUnknown \/ SendFails \/ Return,
         UNCHANGED <<asked, thrown>>
  PROVE  Inv'
<1> USE DEF ReceiveTimeout, DispatchSilent, DispatchUnknown, SendFails, Return, Results
<1> DEFINE n == Len(received)
<1>1. /\ UNCHANGED <<master, object, copies, inbox, received, failed, messageNumber,
                     uuids, sent>>
      /\ phase' \in {"idle", "fault", "ok", "eof"}
      /\ phase' = "fault" => phase \in Handling
      /\ phase' = "ok" => phase = "dispatch"
      /\ phase' \in {"idle", "eof"} => phase \in Results \cup {"idle"}
  BY DEF Handling
<1>2. TypeOK'
  BY <1>1, FreshHeader DEF Inv, TypeOK
<1>3. LogInv' /\ HandlingInv'
  BY <1>1 DEF Inv, LogInv, HandlingInv, Handling
<1>4. /\ \A i : Answers(i)' = Answers(i)
      /\ (\A i : Finished(i)' => Finished(i)) => OutcomeTellsCopies'
      /\ AnswersCorrelate' /\ CopiesAreOneAnswer'
  BY <1>1, LogsKept
<1>5. CountInv'
  <2> SUFFICES ASSUME phase' = "fault" PROVE CountInv'
    BY <1>1 DEF CountInv, Handling
  <2>1. CASE DispatchUnknown
    BY <1>1, <1>4, <2>1 DEF Inv, CountInv, Handling, Current
  <2>2. CASE SendFails
    <3>1. n \in asked \ thrown /\ Cardinality(Answers(n)) \in {0, 1} /\ n \notin failed
      BY <2>2 DEF Inv, CountInv, Handling, HandlingInv
    <3>2. n \in asked <=> Current.kind = "Probe" /\ object
      BY <2>2 DEF Inv, CountInv, Handling
    <3> QED
      BY <1>1, <1>4, <3>1, <3>2 DEF CountInv, Current
  <2> QED
    BY <2>1, <2>2
<1>6. OutcomeTellsCopies'
  <2>1. CASE phase' = "fault"
    BY <1>1, <1>4, <2>1 DEF Finished
  <2>2. CASE phase' \in {"idle", "eof"}
    BY <1>1, <1>4, <2>2 DEF Finished
  <2>3. CASE DispatchSilent
    <3> SUFFICES ASSUME NEW i \in 1..n PROVE Outcome(i)'
      BY <1>1 DEF OutcomeTellsCopies
    <3>1. CASE i = n
      <4>1. n \notin asked /\ n \notin thrown /\ Cardinality(Answers(n)) = 0
        BY <2>3 DEF Inv, CountInv, Handling
      <4> QED
        BY <1>1, <1>4, <3>1, <4>1 DEF Outcome
    <3>2. CASE i # n
      <4>1. Finished(i)' => Finished(i)
        BY <1>1, <3>2, Lengths DEF Finished, Inv
      <4> QED
        BY <1>1, <1>4, <4>1, OutcomeKept
    <3> QED
      BY <3>1, <3>2
  <2> QED
    BY <1>1, <2>1, <2>2, <2>3
<1> QED
  BY <1>2, <1>3, <1>4, <1>5, <1>6 DEF Inv

\* The user's object throws at an announcement: no Probe, hence nobody is answered.
LEMMA ThrowStep ==
  ASSUME Inv, DispatchThrows, asked' = asked, thrown' = thrown \cup {Len(received)}
  PROVE  Inv'
<1> USE DEF DispatchThrows
<1> DEFINE n == Len(received)
<1>1. /\ UNCHANGED <<master, object, header, copies, inbox, received, failed,
                     messageNumber, uuids, sent>>
      /\ phase = "dispatch" /\ phase' = "fault" /\ n \in 1..n
      /\ n \notin asked /\ n \notin failed /\ Cardinality(Answers(n)) = 0
      /\ Current.kind # "Probe"
  BY Lengths DEF Inv, HandlingInv, CountInv, Handling
<1>2. TypeOK'
  BY <1>1 DEF Inv, TypeOK
<1>3. LogInv' /\ HandlingInv'
  BY <1>1 DEF Inv, LogInv, HandlingInv, Handling
<1>4. AnswersCorrelate' /\ CopiesAreOneAnswer'
  BY <1>1, AnswersKept DEF Inv
<1>5. \A i : Answers(i)' = Answers(i)
  BY <1>1 DEF Answers
<1>6. CountInv'
  BY <1>1, <1>5 DEF CountInv, Current
<1>7. OutcomeTellsCopies'
  <2> SUFFICES ASSUME NEW i \in 1..n PROVE Outcome(i)'
    BY <1>1 DEF OutcomeTellsCopies
  <2>1. CASE i = n
    BY <1>1, <1>5, <2>1 DEF Outcome, Finished, Results
  <2>2. CASE i # n
    <3>1. Finished(i)' => Finished(i)
      BY <1>1, <2>2, Lengths DEF Finished, Inv
    <3> QED
      BY <1>1, <1>5, <2>2, <3>1, OutcomeKept
  <2> QED
    BY <2>1, <2>2
<1> QED
  BY <1>2, <1>3, <1>4, <1>6, <1>7 DEF Inv

\* The handler failed: the datagram is among those whose serve() failed.
LEMMA SendFaultStep ==
  ASSUME Inv, SendFault, UNCHANGED <<asked, thrown>>
  PROVE  Inv'
<1> USE DEF SendFault
<1> DEFINE n == Len(received)
<1>1. /\ phase = "fault" /\ phase' = "failed"
      /\ UNCHANGED <<received, sent, messageNumber, uuids, inbox>>
      /\ n \in 1..n /\ n \notin failed /\ failed' = failed \cup {n}
      /\ Cardinality(Answers(n)) \in (IF n \in asked \ thrown THEN {0, 1} ELSE {0})
  BY Lengths DEF Inv, HandlingInv, CountInv, Handling
<1>2. TypeOK'
  BY <1>1 DEF Inv, TypeOK, Results
<1>3. LogInv' /\ HandlingInv' /\ CountInv'
  BY <1>1 DEF Inv, LogInv, HandlingInv, CountInv, Handling
<1>4. AnswersCorrelate' /\ CopiesAreOneAnswer'
  <2>1. AnswersCorrelate /\ CopiesAreOneAnswer /\ UNCHANGED <<received, sent>>
    BY <1>1 DEF Inv
  <2> QED
    BY <2>1, AnswersKept
<1>5. OutcomeTellsCopies'
  <2> SUFFICES ASSUME NEW i \in 1..n PROVE Outcome(i)'
    BY <1>1 DEF OutcomeTellsCopies
  <2>1. Answers(i)' = Answers(i)
    BY <1>1 DEF Answers
  <2>2. CASE i = n
    BY <1>1, <2>1, <2>2 DEF Outcome
  <2>3. CASE i # n
    <3>1. Finished(i)' => Finished(i)
      BY <1>1, <2>3, Lengths DEF Finished, Inv
    <3> QED
      BY <1>1, <2>1, <2>3, <3>1, OutcomeKept
  <2> QED
    BY <2>2, <2>3
<1> QED
  BY <1>2, <1>3, <1>4, <1>5 DEF Inv

\* A datagram is taken: it is the last one received, and nothing answers it yet.
LEMMA ReceiveStep ==
  ASSUME Inv, Receive, thrown' = thrown,
         asked' = asked \cup {n \in 1..Len(received') : Asked(n)}
  PROVE  Inv'
<1> DEFINE n == Len(received)
<1>1. /\ n \in Nat /\ Len(received') = n + 1
      /\ received' \in Seq(Datagrams) /\ inbox' \in Seq(Datagrams)
      /\ received'[n + 1] = Head(inbox) /\ Head(inbox) \in Datagrams
      /\ \A i \in 1..n : received'[i] = received[i]
      /\ Len(inbox') = Len(inbox) - 1 /\ Len(inbox) \in Nat
  BY DEF Receive, Take, Inv, TypeOK
<1>2. /\ phase = "idle" /\ master # "none"
      /\ UNCHANGED <<master, object, copies, messageNumber, uuids, sent>>
      /\ \/ /\ Head(inbox).kind = "Garbage" /\ phase' = "failed"
            /\ failed' = failed \cup {n + 1} /\ header' = header
         \/ /\ phase' = "dispatch" /\ failed' = failed
            /\ header' = [id |-> Head(inbox).id, relatesTo |-> Head(inbox).relatesTo,
                          num |-> Head(inbox).num]
  BY <1>1 DEF Receive, Take
<1>3. /\ failed \subseteq 1..n /\ asked \subseteq 1..n /\ thrown \subseteq 1..n
      /\ messageNumber \in Nat
  BY DEF Inv, TypeOK
<1>4. header' \in Headers
  BY <1>1, <1>2, DatagramsAssumption DEF Inv, TypeOK, Headers
<1>5. TypeOK'
  <2>1. /\ failed' \subseteq 1..(n + 1) /\ asked' \subseteq 1..(n + 1)
        /\ thrown' \subseteq 1..(n + 1)
    <3>1. 1..n \subseteq 1..(n + 1) /\ n + 1 \in 1..(n + 1)
      BY <1>1
    <3>2. asked' \subseteq asked \cup 1..(n + 1)
      BY <1>1
    <3> HIDE DEF n
    <3> QED
      BY <1>2, <1>3, <3>1, <3>2
  <2> QED
    BY <1>1, <1>2, <1>4, <2>1 DEF Inv, TypeOK, Results
<1>6. LogInv'
  BY <1>1, <1>2, <1>3, Lengths DEF Inv, LogInv, Responses
<1>7. HandlingInv'
  BY <1>1, <1>2 DEF HandlingInv, Handling, Current
<1>8. /\ \A i : Answers(i)' = Answers(i)
      /\ Cardinality(Answers(n + 1)) = 0
  BY <1>1, <1>2, NoAnswersYet DEF Answers, Inv
<1>9. CountInv'
  <2>1. n + 1 \in asked' <=> received'[n + 1].kind = "Probe" /\ object
    BY <1>1, <1>3 DEF Asked
  <2>2. n + 1 \notin failed /\ n + 1 \notin thrown
    BY <1>1, <1>3
  <2> QED
    BY <1>1, <1>2, <1>8, <2>1, <2>2 DEF CountInv, Handling, Current
<1>10. AnswersCorrelate' /\ CopiesAreOneAnswer'
  BY <1>1, <1>2 DEF Inv, AnswersCorrelate, CopiesAreOneAnswer
<1>11. OutcomeTellsCopies'
  <2> SUFFICES ASSUME NEW i \in 1..(n + 1) PROVE Outcome(i)'
    BY <1>1 DEF OutcomeTellsCopies
  <2>1. CASE i = n + 1
    <3>1. Cardinality(Answers(i)') = 0 /\ i \notin thrown
      BY <1>1, <1>3, <1>8, <2>1
    <3>2. phase' = "failed" \/ ~Finished(i)'
      BY <1>1, <1>2, <2>1 DEF Finished, Results
    <3>3. phase' = "failed" => i \notin asked' /\ i \in failed'
      BY <1>1, <1>2, <1>3, <2>1 DEF Asked
    <3> QED
      BY <3>1, <3>2, <3>3 DEF Outcome
  <2>2. CASE i # n + 1
    <3>1. /\ i \in 1..n /\ Finished(i)
          /\ (i \in failed' <=> i \in failed) /\ (i \in asked' <=> i \in asked)
      BY <1>1, <1>2, <2>2 DEF Finished, Asked
    <3> QED
      BY <1>8, <3>1, OutcomeKept
  <2> QED
    BY <2>1, <2>2
<1> QED
  BY <1>5, <1>6, <1>7, <1>9, <1>10, <1>11 DEF Inv

\* The response's header: a number and an id of its own, and the MessageID of
\* the Probe, also when that is the empty one.
LEMMA ProbeHeaderNames ==
  ASSUME NEW I, NEW R, NEW hdr \in [id : I, relatesTo : R, num : Nat], NEW n \in Nat,
         NEW response, response = ProbeHeader(hdr, n, n)
  PROVE  response = [id |-> n, relatesTo |-> hdr.id, num |-> n]
BY DEF ProbeHeader, AddAppSequence, AddRelatesTo, Request

LEMMA ProbeHeaderKnown ==
  ASSUME NEW hdr \in Headers, NEW n \in Nat
  PROVE  ProbeHeader(hdr, n, n) = [id |-> n, relatesTo |-> hdr.id, num |-> n]
<1>1. PICK I, R : hdr \in [id : I, relatesTo : R, num : Nat]
  BY DEF Headers
<1> QED
  BY <1>1, ProbeHeaderNames

\* The handler of a Probe up to its first write.
LEMMA DispatchProbeStep ==
  ASSUME Inv, NEW throws \in BOOLEAN, DispatchProbe(throws), asked' = asked,
         thrown' = IF throws THEN thrown \cup {Len(received)} ELSE thrown
  PROVE  Inv'
<1> USE DEF DispatchProbe
<1>1. /\ messageNumber \in Nat /\ Len(received) \in 1..Len(received)
      /\ messageNumber' = messageNumber + 1 /\ uuids' = messageNumber + 1
      /\ UNCHANGED <<master, object, inbox, received, failed, sent>>
      /\ phase = "dispatch" /\ Current.kind = "Probe" /\ Current \in Datagrams
      /\ phase' \in {"respond", "fault"} /\ copies' = 0
      /\ header.id = Current.id
  BY NoWrap, Lengths DEF Inv, TypeOK, LogInv, HandlingInv, Handling
<1>2. header' = [id |-> messageNumber', relatesTo |-> Current.id, num |-> messageNumber']
  <2>1. header \in Headers /\ header' = ProbeHeader(header, messageNumber', messageNumber')
    BY <1>1 DEF Inv, TypeOK
  <2>2. header' = [id |-> messageNumber', relatesTo |-> header.id, num |-> messageNumber']
    <3>1. messageNumber' \in Nat
      BY <1>1
    <3> QED
      BY <2>1, <3>1, ProbeHeaderKnown
  <2> QED
    BY <1>1, <2>2
<1>3. header' \in Headers
  BY <1>1, <1>2 DEF Headers
<1>4. TypeOK'
  <2>1. thrown' \subseteq 1..Len(received)
    BY <1>1 DEF Inv, TypeOK
  <2> QED
    BY <1>1, <1>3, <2>1 DEF Inv, TypeOK
<1>5. LogInv'
  BY <1>1, Lengths DEF Inv, LogInv, Responses
<1>6. Answers(Len(received)) = {} /\ Cardinality(Answers(Len(received))) = 0
  <2>1. IsFiniteSet(Answers(Len(received))) /\ Cardinality(Answers(Len(received))) = 0
    BY <1>1, AnswersCounted DEF Inv, CountInv, Handling
  <2> QED
    BY <2>1, FS_EmptySet
<1>7. \A i \in 1..Len(sent) :
        sent[i].cause # Len(received) /\ sent[i].num < messageNumber + 1
  BY <1>1, <1>6, Lengths DEF Inv, LogInv, Answers, Responses
<1>8. HandlingInv'
  BY <1>1, <1>2, <1>7 DEF Inv, HandlingInv, Handling, Current
<1>9. CountInv'
  <2>1. /\ Len(received) \in asked /\ Len(received) \notin thrown
        /\ Len(received) \notin failed /\ object
    BY <1>1 DEF Inv, CountInv, Handling
  <2>2. phase' = "respond" => thrown' = thrown
    OBVIOUS
  <2>3. Cardinality(Answers(Len(received))') = 0
    BY <1>1, <1>6 DEF Answers
  <2> QED
    BY <1>1, <2>1, <2>2, <2>3 DEF CountInv, Current
<1>10. OutcomeTellsCopies'
  <2> SUFFICES ASSUME NEW i \in 1..Len(received) PROVE Outcome(i)'
    BY <1>1 DEF OutcomeTellsCopies
  <2>1. Answers(i)' = Answers(i)
    BY <1>1 DEF Answers
  <2>2. CASE i = Len(received)
    <3>1. ~Finished(i)'
      BY <1>1, <2>2 DEF Finished, Results
    <3>2. Cardinality(Answers(i)') = 0
      BY <1>6, <2>1, <2>2
    <3> QED
      BY <3>1, <3>2 DEF Outcome
  <2>3. CASE i # Len(received)
    <3>1. (i \in thrown' <=> i \in thrown) /\ (Finished(i)' => Finished(i))
      BY <1>1, <2>3, Lengths DEF Finished, Inv
    <3> QED
      BY <1>1, <2>1, <3>1, OutcomeKept
  <2> QED
    BY <2>2, <2>3
<1>11. AnswersCorrelate' /\ CopiesAreOneAnswer'
  BY <1>1, AnswersKept DEF Inv
<1> QED
  BY <1>4, <1>5, <1>8, <1>9, <1>10, <1>11 DEF Inv

\* A copy leaves: the first is a new answer, the second the same again.
LEMMA SendCopyStep ==
  ASSUME Inv, SendCopy, UNCHANGED <<asked, thrown>>
  PROVE  Inv'
<1> DEFINE n == Len(received)
           m == Message("ProbeMatches", header, n)
           len == Len(sent)
<1>1. /\ phase = "respond" /\ sent' = Append(sent, m) /\ copies' = copies + 1
      /\ phase' = IF copies' = 2 THEN "ok" ELSE "respond"
      /\ UNCHANGED <<master, object, header, inbox, received, failed, messageNumber, uuids>>
  BY DEF SendCopy
<1>2. /\ n \in 1..n /\ n \in Nat /\ n \notin failed
      /\ Current \in Datagrams /\ Current.kind = "Probe"
      /\ Cardinality(Answers(n)) = copies /\ copies \in {0, 1}
      /\ messageNumber \in Nat /\ n \in asked /\ n \notin thrown /\ object
  BY <1>1, Lengths DEF Inv, HandlingInv, CountInv, Handling, TypeOK
<1>3. m = [kind |-> "ProbeMatches", id |-> messageNumber, relatesTo |-> Current.id,
           num |-> messageNumber, cause |-> n]
  BY <1>1 DEF Inv, HandlingInv, Message
<1>4. m \in Responses
  BY <1>2, <1>3 DEF Responses
<1>5. /\ len \in Nat /\ Len(sent') = len + 1 /\ sent'[len + 1] = m
      /\ \A i \in 1..len : sent'[i] = sent[i] /\ sent[i] \in Responses
      /\ sent' \in Seq(Responses)
  BY <1>1, <1>4 DEF Inv, TypeOK
<1>6. \A i \in 1..len : IF sent[i].cause = n THEN sent[i] = m ELSE sent[i].num < messageNumber
  BY <1>1 DEF Inv, HandlingInv
<1>7. TypeOK'
  BY <1>1, <1>2, <1>5 DEF Inv, TypeOK, Results
<1>8. LogInv'
  BY <1>1, <1>2, <1>3, <1>5 DEF Inv, LogInv
<1>9. HandlingInv'
  BY <1>1, <1>3, <1>5, <1>6 DEF Inv, HandlingInv, Handling, Current
<1>10. \A i : Cardinality(Answers(i)') =
                IF i = n THEN copies + 1 ELSE Cardinality(Answers(i))
  BY <1>1, <1>2, <1>3, AnswersGrow DEF Inv
<1>11. CountInv'
  BY <1>1, <1>2, <1>10 DEF CountInv, Handling, Current
<1>12. AnswersCorrelate'
  BY <1>1, <1>2, <1>3, <1>5 DEF Inv, AnswersCorrelate, Current
<1>13. OutcomeTellsCopies'
  <2> SUFFICES ASSUME NEW i \in 1..n PROVE Outcome(i)'
    BY <1>1 DEF OutcomeTellsCopies
  <2>1. CASE i = n
    BY <1>1, <1>2, <1>10, <2>1 DEF Outcome, Finished, Results
  <2>2. CASE i # n
    <3>1. Finished(i)' => Finished(i)
      BY <1>1, <1>2, <2>2 DEF Finished
    <3> QED
      BY <1>1, <1>2, <1>10, <2>2, <3>1, OutcomeKept
  <2> QED
    BY <2>1, <2>2
<1>14. CopiesAreOneAnswer'
  <2> SUFFICES ASSUME NEW i \in 1..(len + 1), NEW j \in 1..(len + 1)
               PROVE  /\ sent'[i].id = sent'[j].id \/ sent'[i].num = sent'[j].num
                           => sent'[i] = sent'[j]
                      /\ sent'[i].cause < sent'[j].cause
                           => i < j /\ sent'[i].num < sent'[j].num
    BY <1>5 DEF CopiesAreOneAnswer
  <2>1. \A k \in 1..len : /\ sent[k].id = sent[k].num /\ sent[k].cause <= n
                          /\ sent[k].cause \in Nat /\ sent[k].num \in Nat
    BY <1>5 DEF Inv, LogInv, Responses
  <2>2. CASE i \in 1..len /\ j \in 1..len
    BY <1>5, <2>2 DEF Inv, CopiesAreOneAnswer
  <2>3. CASE i \in 1..len /\ j = len + 1
    BY <1>2, <1>3, <1>5, <1>6, <2>1, <2>3
  <2>4. CASE i = len + 1 /\ j \in 1..len
    BY <1>2, <1>3, <1>5, <1>6, <2>1, <2>4
  <2>5. CASE i = len + 1 /\ j = len + 1
    BY <1>2, <1>3, <1>5, <2>5
  <2> QED
    BY <1>5, <2>2, <2>3, <2>4, <2>5
<1> QED
  BY <1>7, <1>8, <1>9, <1>11, <1>12, <1>13, <1>14 DEF Inv
-----------------------------------------------------------------------------
\* The inductive invariant of a service on its own: types, numbers spent per
\* datagram, the header and the copies of the datagram being handled.
THEOREM Invariance == Spec => []Inv
<1>1. Inv /\ [Next]_vars => Inv'
  <2> SUFFICES ASSUME Inv, [Next]_vars PROVE Inv'
    OBVIOUS
  <2>1. CASE Next
    <3>1. asked' = asked \cup {n \in 1..Len(received') : Asked(n)} /\ TypeOK
      BY <2>1 DEF Next, Inv
    <3>2. CASE Receive /\ thrown' = thrown
      BY <3>1, <3>2, ReceiveStep
    <3>3. ASSUME UNCHANGED received PROVE asked' = asked
      BY <3>1, <3>3, NobodyAsked
    <3>4. CASE /\ \/ \E obj \in BOOLEAN, outcome \in BindOutcomes : Bind(obj, outcome)
                  \/ \E d \in Datagrams : Arrive(d)
                  \/ Close
               /\ thrown' = thrown
      BY <3>3, <3>4, SocketStep DEF Bind, Arrive, Close
    <3>5. CASE /\ ReceiveTimeout \/ DispatchSilent \/ DispatchUnknown \/ SendFails \/ Return
               /\ thrown' = thrown
      BY <3>3, <3>5, QuietStep
         DEF ReceiveTimeout, DispatchSilent, DispatchUnknown, SendFails, Return
    <3>6. CASE (SendFault \/ SendCopy) /\ thrown' = thrown
      BY <3>3, <3>6, SendFaultStep, SendCopyStep DEF SendFault, SendCopy
    <3>7. CASE DispatchProbe(FALSE) /\ thrown' = thrown
      BY <3>3, <3>7, DispatchProbeStep DEF DispatchProbe
    <3>8. CASE UserThrows /\ thrown' = thrown \cup {Len(received)}
      BY <3>3, <3>8, DispatchProbeStep, ThrowStep DEF UserThrows, DispatchProbe, DispatchThrows
    <3> QED
      BY <2>1, <3>2, <3>4, <3>5, <3>6, <3>7, <3>8 DEF Next, Steps, Serve
  <2>2. CASE UNCHANGED vars
    BY <2>2, LogsKept DEF vars, private, Inv, TypeOK, LogInv, HandlingInv, CountInv,
       Current, Message, Finished
  <2> QED
    BY <2>1, <2>2
<1> QED
  BY <1>1, InvInit, PTL DEF Spec

\* Type correctness of the service, its header and its logs.
THEOREM ServiceTypes == Spec => []TypeOK
<1>1. Inv => TypeOK
  BY DEF Inv
<1> QED
  BY <1>1, Invariance, PTL

\* An answer names the very Probe it answers, whatever the headers held before.
THEOREM ServiceCorrelates == Spec => []AnswersCorrelate
<1>1. Inv => AnswersCorrelate
  BY DEF Inv
<1> QED
  BY <1>1, Invariance, PTL

\* What became of a datagram says how many copies left for it, whatever failed:
\* two for a Probe served without error, at most one with an error, none for a
\* Probe whose handler threw, nor for anything but a Probe of a bound object.
THEOREM OutcomeTheorem == Spec => []OutcomeTellsCopies
<1>1. Inv => OutcomeTellsCopies
  BY DEF Inv
<1> QED
  BY <1>1, Invariance, PTL

\* A listener may take messages with one number, or one id, for copies.
THEOREM CopiesTheorem == Spec => []CopiesAreOneAnswer
<1>1. Inv => CopiesAreOneAnswer
  BY DEF Inv
<1> QED
  BY <1>1, Invariance, PTL
=============================================================================
