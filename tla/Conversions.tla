----------------------------- MODULE Conversions -----------------------------
(***************************************************************************)
(* What a listener's object is told of what another program announced or   *)
(* asked: the body a proxy builds (class Wsa::Request in wsdd/wsa.hpp and  *)
(* hello(), bye(), probe() in wsdd/remotediscovery_proxy.cpp), and the     *)
(* argument a service makes of it (class Arg and Hello(), Bye(), Probe()   *)
(* in wsdd/remotediscovery_service.cpp).  Every field is a pointer that    *)
(* may be null, Absent, and the network keeps which ones are.              *)
(***************************************************************************)
EXTENDS Naturals

CONSTANTS
  Absent,        \* a null pointer
  Texts,         \* the contents of a string
  Versions       \* metadata versions

ASSUME VersionsAssumption == Versions \subseteq Nat \ {Absent}

Optional(S) == S \cup {Absent}

ScopesTypes == [item : Texts, matchBy : Optional(Texts)]
ServiceNames == [item : Texts, portName : Optional(Texts)]
Endpoints == [address : Optional(Texts), portType : Optional(Texts),
              serviceName : {Absent} \cup ServiceNames]

\* Hello_t and Bye_t; of a Probe_t only types and scopes are there.
Announcements == [types : Optional(Texts), scopes : {Absent} \cup ScopesTypes,
                  endpoint : {Absent} \cup Endpoints,
                  xaddrs : Optional(Texts), version : Versions]
Questions == [types : Optional(Texts), scopes : {Absent} \cup ScopesTypes]

VARIABLES
  kind,     \* "Hello", "Bye" or "Probe"
  said,     \* the caller's argument
  body,     \* the body on the network
  heard,    \* the argument of the listener's object
  phase     \* "said", "sent" or "heard"

vars == <<kind, said, body, heard, phase>>

Init ==
  /\ \/ kind \in {"Hello", "Bye"} /\ said \in Announcements
     \/ kind = "Probe" /\ said \in Questions
  /\ body = Absent /\ heard = Absent
  /\ phase = "said"

\* Mutant of Request: the port of the service name is left out.
RequestWithoutPort(arg) ==
  [types |-> arg.types, xaddrs |-> arg.xaddrs, scopes |-> arg.scopes,
   endpoint |-> IF arg.endpoint = Absent \/ arg.endpoint.serviceName = Absent
                  THEN arg.endpoint
                  ELSE [arg.endpoint EXCEPT !.serviceName.portName = Absent]]

\* Wsa::Request copies what is there, level by level.
Request(arg) == [types |-> arg.types, xaddrs |-> arg.xaddrs,
                 scopes |-> arg.scopes, endpoint |-> arg.endpoint]

Versioned(content, version) ==
  [types |-> content.types, xaddrs |-> content.xaddrs, scopes |-> content.scopes,
   endpoint |-> content.endpoint, version |-> version]

\* hello(): everything.  bye(): the endpoint; no version.  probe(): the question.
Send ==
  /\ phase = "said"
  /\ body' = CASE kind = "Hello" -> Versioned(Request(said), said.version)
               [] kind = "Bye"   -> Versioned([Request(said) EXCEPT
                                                 !.types = Absent, !.scopes = Absent,
                                                 !.xaddrs = Absent], Absent)
               [] kind = "Probe" -> [types |-> said.types, scopes |-> said.scopes]
  /\ phase' = "sent"
  /\ UNCHANGED <<kind, said, heard>>

\* Arg's endpoint: the port type is stored where the address is.
HeardEndpoint(endpoint) ==
  IF endpoint = Absent THEN Absent
  ELSE [address |-> IF endpoint.portType # Absent THEN endpoint.portType
                                                  ELSE endpoint.address,
        portType |-> Absent,
        serviceName |-> endpoint.serviceName]

Arg(content) == [types |-> content.types, xaddrs |-> content.xaddrs,
                 scopes |-> content.scopes,
                 endpoint |-> HeardEndpoint(content.endpoint)]

\* Hello(), Bye() and Probe(): a Bye without a version is heard with version 0.
Hear ==
  /\ phase = "sent"
  /\ heard' = IF kind = "Probe" THEN body
              ELSE Versioned(Arg(body), IF body.version = Absent THEN 0 ELSE body.version)
  /\ phase' = "heard"
  /\ UNCHANGED <<kind, said, body>>

Next == Send \/ Hear

Spec == Init /\ [][Next]_vars
-----------------------------------------------------------------------------
HasPortType == said.endpoint # Absent /\ said.endpoint.portType # Absent

\* A listener is told all of a Hello, the endpoint of a Bye, and all of a Probe,
\* with the fields absent that the caller left out -- if there is no port type.
HeardAsSaid ==
  phase = "heard" =>
    /\ kind = "Hello" /\ ~HasPortType => heard = said
    /\ kind = "Bye" /\ ~HasPortType => heard.endpoint = said.endpoint
    /\ kind = "Probe" => heard = said

\* The interface declares address and portType as two members of an endpoint
\* reference: a listener finds each where the caller has put it.
EndpointHeard ==
  phase = "heard" /\ kind # "Probe" => heard.endpoint = said.endpoint
-----------------------------------------------------------------------------
\* The body on the network, as far as the listener depends on it.
Sent ==
  /\ kind = "Hello" => body = Versioned(Request(said), said.version)
  /\ kind = "Bye" => body.endpoint = said.endpoint
  /\ kind = "Probe" => body = said

\* The inductive invariant behind HeardAsSaid.
Inv ==
  /\ phase \in {"said", "sent", "heard"}
  /\ kind \in {"Hello", "Bye"} => said \in Announcements
  /\ kind = "Probe" => said \in Questions
  /\ phase = "sent" => Sent
  /\ HeardAsSaid
=============================================================================
