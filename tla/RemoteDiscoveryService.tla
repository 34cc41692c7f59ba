---------------------- MODULE RemoteDiscoveryService ----------------------
(***************************************************************************)
(* The listening side of discovery (wsdd/remotediscovery_service.cpp): a   *)
(* UDP socket, one soap context with its header, and the user's object the *)
(* decoded requests are handed to.  serve() takes one datagram and runs    *)
(*                                                                         *)
(*    idle -> dispatch -> respond -> ok        (USER_ERROR is no error)    *)
(*                  \________\____-> fault -> failed   (soap_senderfault)  *)
(*    idle -> eof                              (receive timeout)           *)
(*                                                                         *)
(* and is back in "idle" when its caller has looked at the result.  A      *)
(* Probe is answered inside its handler, by writing the same response to   *)
(* the socket twice.                                                       *)
(***************************************************************************)
EXTENDS Wsa, Sequences, FiniteSets

CONSTANTS
  Datagrams,     \* what peers send: [kind, id, relatesTo, num]
  MaxArrivals    \* bound on the datagrams that reach the socket

Kinds == {"Hello", "Bye", "Probe", "Other", "Garbage"}

ASSUME DatagramsAssumption ==
  \A d \in Datagrams : d.kind \in Kinds /\ d.num \in Nat

\* The counter does not wrap within the datagrams looked at: a daemon sends a
\* Hello, one numbered answer per datagram, and a Bye.
ASSUME MaxArrivalsAssumption == MaxArrivals \in Nat /\ MaxArrivals + 2 < UintMod

VARIABLES
  master,         \* the socket: "none", bound ("open"), or also in the group ("member")
  object,         \* whether a user's object is bound (p != nullptr)
  phase,          \* where serve() is; its result when it has returned
  header,         \* the header of the service's context
  copies,         \* copies of the current response already written
  inbox,          \* datagrams queued at the socket
  received,       \* history: the datagrams taken from the socket
  failed,         \* history: positions in received whose serve() returned an error
  asked,          \* history: positions in received of the Probes an object was asked
  thrown,         \* history: positions in received whose handler the object left
                  \* by throwing
  messageNumber, uuids, sent   \* shared with the proxies of the process

private == <<master, object, phase, header, copies, inbox, received, failed>>
vars == <<private, asked, thrown, messageNumber, uuids, sent>>

Results == {"ok", "eof", "failed"}

Init ==
  /\ master = "none" /\ object = FALSE
  /\ phase = "idle" /\ header = NoHeader /\ copies = 0
  /\ inbox = <<>> /\ received = <<>> /\ failed = {} /\ asked = {} /\ thrown = {}
  /\ messageNumber = 0 /\ uuids = 0 /\ sent = <<>>

Current == received[Len(received)]

\* bind(): the object is stored first.  When only joining the group fails the
\* result is an invalid socket, and yet the context keeps the bound one.
Bind(obj, outcome) ==
  /\ master = "none"
  /\ object' = obj
  /\ master' = outcome
  /\ UNCHANGED <<phase, header, copies, inbox, received, failed,
                 messageNumber, uuids, sent>>

\* Joined; bound, but the join failed; not bound.
BindOutcomes == {"member", "open", "none"}

\* A peer's datagram reaches the socket.  Lost, repeated and reordered
\* datagrams are the choices of d this action makes.
Arrive(d) ==
  /\ master # "none"
  /\ Len(received) + Len(inbox) < MaxArrivals
  /\ inbox' = Append(inbox, d)
  /\ UNCHANGED <<master, object, phase, header, copies, received, failed,
                 messageNumber, uuids, sent>>

\* serve() gives up after recv_timeout without a datagram.
ReceiveTimeout ==
  /\ phase = "idle" /\ master # "none" /\ inbox = <<>>
  /\ phase' = "eof"
  /\ UNCHANGED <<master, object, header, copies, inbox, received, failed,
                 messageNumber, uuids, sent>>

\* What serve() makes of a message it reads: its header replaces the context's.
\* One that is not an envelope ends serve() before dispatch.
Take(d) ==
  /\ phase = "idle"
  /\ received' = Append(received, d)
  /\ IF d.kind = "Garbage"
       THEN /\ phase' = "failed" /\ failed' = failed \cup {Len(received')}
            /\ UNCHANGED header
       ELSE /\ phase' = "dispatch" /\ UNCHANGED failed
            /\ header' = [id |-> d.id, relatesTo |-> d.relatesTo, num |-> d.num]

\* serve() reads a datagram.
Receive ==
  /\ master # "none" /\ inbox # <<>>
  /\ Take(Head(inbox))
  /\ inbox' = Tail(inbox)
  /\ UNCHANGED <<master, object, copies, messageNumber, uuids, sent>>

\* Mutant of DispatchSilent: SOAP_USER_ERROR treated like any other error.
DispatchUserError ==
  /\ phase = "dispatch"
  /\ Current.kind \in {"Hello", "Bye"} \/ (Current.kind = "Probe" /\ ~object)
  /\ phase' = "fault"
  /\ UNCHANGED <<master, object, header, copies, inbox, received, failed,
                 messageNumber, uuids, sent>>

\* Hello() and Bye() hand the announcement over and answer nothing; so does
\* Probe() when no object is bound.  SOAP_USER_ERROR becomes SOAP_OK.
DispatchSilent ==
  /\ phase = "dispatch"
  /\ Current.kind \in {"Hello", "Bye"} \/ (Current.kind = "Probe" /\ ~object)
  /\ phase' = "ok"
  /\ UNCHANGED <<master, object, header, copies, inbox, received, failed,
                 messageNumber, uuids, sent>>

\* An envelope with no operation of the service: SOAP_NO_METHOD.
DispatchUnknown ==
  /\ phase = "dispatch" /\ Current.kind = "Other"
  /\ phase' = "fault"
  /\ UNCHANGED <<master, object, header, copies, inbox, received, failed,
                 messageNumber, uuids, sent>>

\* Mutant of ProbeHeader: the MessageID is read after request().
ProbeHeaderLate(hdr, uuid, number) ==
  LET relatesTo == Request(hdr, uuid).id
  IN  AddAppSequence(AddRelatesTo(Request(hdr, uuid), relatesTo), number)

\* Probe() turns the request's header into the response's: the MessageID is
\* read before request() overwrites it.
ProbeHeader(hdr, uuid, number) ==
  LET relatesTo == hdr.id
  IN  AddAppSequence(AddRelatesTo(Request(hdr, uuid), relatesTo), number)

\* Probe() up to the return of the user's probe(): it comes back with the
\* matches, or throws when the header is already built and its number spent.
DispatchProbe(throws) ==
  /\ phase = "dispatch" /\ Current.kind = "Probe" /\ object
  /\ uuids' = uuids + 1
  /\ messageNumber' = NextNumber(messageNumber)
  /\ header' = ProbeHeader(header, uuids', messageNumber')
  /\ copies' = 0
  /\ phase' = IF throws THEN "fault" ELSE "respond"
  /\ UNCHANGED <<master, object, inbox, received, failed, sent>>

\* The user's hello() or bye() throws: dispatch() catches.
DispatchThrows ==
  /\ phase = "dispatch" /\ Current.kind \in {"Hello", "Bye"} /\ object
  /\ phase' = "fault"
  /\ UNCHANGED <<master, object, header, copies, inbox, received, failed,
                 messageNumber, uuids, sent>>

\* Mutant of SendCopy: the loop runs three times.
SendCopyThrice ==
  /\ phase = "respond"
  /\ sent' = Append(sent, Message("ProbeMatches", header, Len(received)))
  /\ copies' = copies + 1
  /\ phase' = IF copies' = 3 THEN "ok" ELSE "respond"
  /\ UNCHANGED <<master, object, header, inbox, received, failed,
                 messageNumber, uuids>>

\* Mutant of SendCopy: the header is prepared again for every copy.
SendCopyAnew ==
  /\ phase = "respond"
  /\ uuids' = uuids + 1
  /\ header' = Request(header, uuids')
  /\ sent' = Append(sent, Message("ProbeMatches", header', Len(received)))
  /\ copies' = copies + 1
  /\ phase' = IF copies' = 2 THEN "ok" ELSE "respond"
  /\ UNCHANGED <<master, object, inbox, received, failed, messageNumber>>

\* One turn of the loop that writes the response twice.
SendCopy ==
  /\ phase = "respond"
  /\ sent' = Append(sent, Message("ProbeMatches", header, Len(received)))
  /\ copies' = copies + 1
  /\ phase' = IF copies' = 2 THEN "ok" ELSE "respond"
  /\ UNCHANGED <<master, object, header, inbox, received, failed,
                 messageNumber, uuids>>

\* Mutant of SendFails: the error is not returned.
SendFailsSilently ==
  /\ phase = "respond"
  /\ phase' = "ok"
  /\ UNCHANGED <<master, object, header, copies, inbox, received, failed,
                 messageNumber, uuids, sent>>

\* An error leaves the handler at once, whether or not a copy is already out.
SendFails ==
  /\ phase = "respond"
  /\ phase' = "fault"
  /\ UNCHANGED <<master, object, header, copies, inbox, received, failed,
                 messageNumber, uuids, sent>>

\* dispatch() returned SOAP_FAULT; serve() sends the fault, and returns the
\* error whether or not that worked.
SendFault ==
  /\ phase = "fault"
  /\ phase' = "failed"
  /\ failed' = failed \cup {Len(received)}
  /\ UNCHANGED <<master, object, header, copies, inbox, received,
                 messageNumber, uuids, sent>>

\* The caller looks at serve()'s result, and calls destroy() if it is SOAP_OK.
Return ==
  /\ phase \in Results
  /\ phase' = "idle"
  /\ header' = IF phase = "ok" THEN NoHeader ELSE header
  /\ UNCHANGED <<master, object, copies, inbox, received, failed,
                 messageNumber, uuids, sent>>

\* The service is deleted: the socket is closed, what it queued is gone.
Close ==
  /\ phase = "idle"
  /\ master' = "none" /\ object' = FALSE /\ header' = NoHeader
  /\ copies' = 0 /\ inbox' = <<>>
  /\ UNCHANGED <<phase, received, failed, messageNumber, uuids, sent>>

Serve ==
  \/ ReceiveTimeout \/ Receive
  \/ DispatchSilent \/ DispatchUnknown \/ DispatchProbe(FALSE)
  \/ SendCopy \/ SendFails \/ SendFault

(***************************************************************************)
(* A service on its own: a user's object that may throw, a caller that     *)
(* goes on after every result.                                             *)
(***************************************************************************)
UserThrows == DispatchProbe(TRUE) \/ DispatchThrows

\* The history variables look on.
Steps ==
  \/ UserThrows /\ thrown' = thrown \cup {Len(received)}
  \/ /\ \/ \E obj \in BOOLEAN, outcome \in BindOutcomes : Bind(obj, outcome)
        \/ \E d \in Datagrams : Arrive(d)
        \/ Serve \/ Return \/ Close
     /\ UNCHANGED thrown

Asked(n) == object /\ n > Len(received) /\ received'[n].kind = "Probe"

Next ==
  /\ Steps
  /\ asked' = asked \cup {n \in 1..Len(received') : Asked(n)}

Spec == Init /\ [][Next]_vars
-----------------------------------------------------------------------------
Headers == [id : Nat \cup {NoId} \cup {d.id : d \in Datagrams},
            relatesTo : {NoId} \cup {d.id : d \in Datagrams}
                               \cup {d.relatesTo : d \in Datagrams},
            num : Nat]

Responses == [kind : {"ProbeMatches"}, id : Nat,
              relatesTo : {NoId} \cup {d.id : d \in Datagrams},
              num : Nat, cause : Nat \ {0}]

TypeOK ==
  /\ master \in {"none", "open", "member"}
  /\ object \in BOOLEAN
  /\ phase \in {"idle", "dispatch", "respond", "fault"} \cup Results
  /\ header \in Headers
  /\ copies \in 0..2
  /\ inbox \in Seq(Datagrams) /\ received \in Seq(Datagrams)
  /\ failed \subseteq 1..Len(received)
  /\ asked \subseteq 1..Len(received) /\ thrown \subseteq 1..Len(received)
  /\ messageNumber \in Nat /\ uuids \in Nat
  /\ sent \in Seq(Responses)

\* The messages that answer the n-th datagram.
Answers(n) == {i \in 1..Len(sent) : sent[i].cause = n}

\* serve() has returned for the n-th datagram.
Finished(n) ==
  /\ n \in 1..Len(received)
  /\ n < Len(received) \/ phase \in Results \cup {"idle"}

\* Every message the service sends answers a Probe it took from the socket, and
\* names that very Probe: RelatesTo is the Probe's MessageID, nothing when the
\* Probe had none, and never a value left in the context's header.
AnswersCorrelate ==
  \A i \in 1..Len(sent) :
    LET m == sent[i] IN
      /\ m.cause \in 1..Len(received)
      /\ received[m.cause].kind = "Probe"
      /\ m.relatesTo = received[m.cause].id

\* The copies the n-th datagram costs when it is finished, at most two before.
Outcome(n) ==
  LET c == Cardinality(Answers(n)) IN
    /\ c <= 2
    /\ Finished(n) =>
         /\ n \in thrown => n \in failed
         /\ c \in (IF n \notin asked \/ n \in thrown THEN {0}
                  ELSE IF n \in failed THEN {0, 1} ELSE {2})

\* What the peer got for a datagram follows from what became of it.  A Probe that
\* an object was asked about, and that was served without an error, had two copies
\* of an answer; with an error, at most one, and none at all when the object threw,
\* which always is an error.  Nothing else is answered, and a Probe neither while
\* no object is bound.
OutcomeTellsCopies == \A n \in 1..Len(received) : Outcome(n)

\* Messages with one number, or with one MessageID, are copies of one answer;
\* different answers have different ids, and numbers in the order of the Probes.
CopiesAreOneAnswer ==
  \A i, j \in 1..Len(sent) :
    /\ sent[i].id = sent[j].id \/ sent[i].num = sent[j].num => sent[i] = sent[j]
    /\ sent[i].cause < sent[j].cause => i < j /\ sent[i].num < sent[j].num
-----------------------------------------------------------------------------
(***************************************************************************)
(* The inductive invariant behind the safety properties.                   *)
(***************************************************************************)
Handling == {"dispatch", "respond", "fault"}

\* A datagram costs at most one number, and one id with it; answers lie in the
\* log in the order of what they answer.
LogInv ==
  /\ uuids = messageNumber
  /\ Len(received) + Len(inbox) <= MaxArrivals
  /\ messageNumber <= Len(received)
  /\ phase = "dispatch" => messageNumber < Len(received)
  /\ \A i \in 1..Len(sent) :
       /\ sent[i].id = sent[i].num /\ sent[i].num <= messageNumber
       /\ sent[i].cause <= Len(received)

\* The header while a datagram is handled, and what has been sent for it.
HandlingInv ==
  /\ phase \in Handling => received # <<>> /\ master # "none"
  /\ phase = "dispatch" => header.id = Current.id
  /\ phase = "respond" =>
       /\ Current.kind = "Probe"
       /\ header = [id |-> messageNumber, relatesTo |-> Current.id,
                    num |-> messageNumber]
       /\ \A i \in 1..Len(sent) :
            IF sent[i].cause = Len(received)
              THEN sent[i] = Message("ProbeMatches", header, Len(received))
              ELSE sent[i].num < messageNumber

\* The copies already written, as long as there is no result that tells, and what
\* the histories say of the datagram at hand.
CountInv ==
  phase \in Handling =>
    LET n == Len(received)
        c == Cardinality(Answers(n))
    IN
      /\ n \notin failed
      /\ n \in asked <=> Current.kind = "Probe" /\ object
      /\ phase = "dispatch" => n \notin thrown /\ c = 0
      /\ phase = "respond" => object /\ n \notin thrown /\ c = copies /\ c \in {0, 1}
      /\ phase = "fault" => c \in (IF n \in asked \ thrown THEN {0, 1} ELSE {0})

Inv ==
  /\ TypeOK /\ LogInv /\ HandlingInv /\ CountInv
  /\ AnswersCorrelate /\ OutcomeTellsCopies /\ CopiesAreOneAnswer
=============================================================================
