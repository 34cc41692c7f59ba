-------------------------- MODULE ConversionsProofs --------------------------
(***************************************************************************)
(* What a listener is told, for all texts, versions and null pointers.     *)
(***************************************************************************)
EXTENDS Conversions, TLAPS

\* Without a port type an endpoint reference is heard as it was said.
LEMMA EndpointKept ==
  ASSUME NEW endpoint \in {Absent} \cup Endpoints,
         endpoint # Absent => endpoint.portType = Absent
  PROVE  HeardEndpoint(endpoint) = endpoint
BY DEF HeardEndpoint, Endpoints

\* The body of a message holds what its listener depends on.
LEMMA SendStep == Inv /\ Send => Inv'
<1> SUFFICES ASSUME Inv, Send PROVE Inv'
  OBVIOUS
<1> USE DEF Inv, Send
<1>1. phase' = "sent" /\ kind' = kind /\ said' = said
  OBVIOUS
<1>2. CASE kind = "Hello"
  BY <1>1, <1>2 DEF Sent, HeardAsSaid, Versioned, Request
<1>3. CASE kind = "Bye"
  BY <1>1, <1>3 DEF Sent, HeardAsSaid, Versioned, Request
<1>4. CASE kind = "Probe"
  BY <1>1, <1>4 DEF Sent, HeardAsSaid, Questions
<1>5. CASE kind \notin {"Hello", "Bye", "Probe"}
  BY <1>1, <1>5 DEF Sent, HeardAsSaid
<1> QED
  BY <1>2, <1>3, <1>4, <1>5

\* The listener's argument is made of the body.
LEMMA HearStep == Inv /\ Hear => Inv'
<1> SUFFICES ASSUME Inv, Hear PROVE Inv'
  OBVIOUS
<1> USE DEF Inv, Hear
<1>1. phase' = "heard" /\ kind' = kind /\ said' = said /\ Sent
  OBVIOUS
<1>2. ASSUME kind = "Hello", ~HasPortType PROVE heard' = said
  <2>1. /\ said \in Announcements
        /\ body = Versioned(Request(said), said.version)
        /\ said.version # Absent
    BY <1>1, <1>2, VersionsAssumption DEF Sent, Announcements
  <2>2. HeardEndpoint(said.endpoint) = said.endpoint
    BY <1>2, <2>1, EndpointKept DEF HasPortType, Announcements
  <2>3. /\ heard' = Versioned(Arg(body), IF body.version = Absent THEN 0 ELSE body.version)
        /\ body.version = said.version
    BY <1>2, <2>1 DEF Versioned
  <2> QED
    BY <2>1, <2>2, <2>3 DEF Versioned, Request, Arg, Announcements
<1>3. ASSUME kind = "Bye", ~HasPortType PROVE heard'.endpoint = said.endpoint
  <2>1. said \in Announcements /\ body.endpoint = said.endpoint
    BY <1>1, <1>3 DEF Sent
  <2>2. HeardEndpoint(said.endpoint) = said.endpoint
    BY <1>3, <2>1, EndpointKept DEF HasPortType, Announcements
  <2> QED
    BY <1>3, <2>1, <2>2 DEF Versioned, Arg
<1>4. kind = "Probe" => heard' = said
  BY <1>1 DEF Sent
<1>5. HasPortType' <=> HasPortType
  BY <1>1 DEF HasPortType
<1>6. HeardAsSaid'
  BY <1>1, <1>2, <1>3, <1>4, <1>5 DEF HeardAsSaid
<1> QED
  BY <1>1, <1>6

\* Whatever is announced or asked, a listener's object is told it, as long as no
\* port type is involved.
THEOREM HeardTheorem == Spec => []HeardAsSaid
<1>1. Init => Inv
  BY DEF Init, Inv, HeardAsSaid
<1>2. Inv /\ [Next]_vars => Inv'
  <2>1. Inv /\ UNCHANGED vars => Inv'
    BY DEF Inv, vars, Sent, HeardAsSaid, HasPortType
  <2> QED
    BY <2>1, SendStep, HearStep DEF Next
<1>3. Inv => HeardAsSaid
  BY DEF Inv
<1> QED
  BY <1>1, <1>2, <1>3, PTL DEF Spec
=============================================================================
