----------------------- MODULE RemoteDiscoveryProxy -----------------------
(***************************************************************************)
(* The sending side of discovery (wsdd/remotediscovery_proxy.cpp).  A      *)
(* proxy owns a soap context and through it one header, which outlives the *)
(* calls; the message counter and the uuid generator are statics of class  *)
(* Wsa, shared by every context of the process.                            *)
(*                                                                         *)
(* A call builds its header first and sends afterwards: when the send      *)
(* fails, SoapException is thrown and the number and the id are spent.     *)
(* Who calls is another module's: Host, Wsdd, TestProgram.                 *)
(***************************************************************************)
EXTENDS Wsa, Sequences

VARIABLES
  header,         \* the header of the proxy's context
  messageNumber,  \* static of Wsa::messageNumber
  uuids,          \* ids handed out by Wsa::randUuid; the n-th one is n
  sent            \* what has left the host, in order

Init ==
  /\ header = NoHeader
  /\ messageNumber = 0
  /\ uuids = 0
  /\ sent = <<>>

\* RemoteDiscovery::proxy(), into a pointer that releases the previous proxy.
Open ==
  /\ header' = NoHeader
  /\ UNCHANGED <<messageNumber, uuids, sent>>

Send(kind, hdr, ok) ==
  /\ header' = hdr
  /\ sent' = IF ok THEN Append(sent, Message(kind, hdr, 0)) ELSE sent

\* Mutant of Announce: the number is taken, and the header not pointed to it.
AnnounceUnsequenced(kind, ok) ==
  /\ uuids' = uuids + 1
  /\ messageNumber' = NextNumber(messageNumber)
  /\ Send(kind, Request(header, uuids'), ok)

\* request() then addAppSequence() then the one-way send.
Announce(kind, ok) ==
  /\ uuids' = uuids + 1
  /\ messageNumber' = NextNumber(messageNumber)
  /\ Send(kind, AddAppSequence(Request(header, uuids'), messageNumber'), ok)

Hello(ok) == Announce("Hello", ok)

Bye(ok) == Announce("Bye", ok)

\* A Probe asks for no AppSequence of its own.
Probe(ok) ==
  /\ uuids' = uuids + 1
  /\ Send("Probe", Request(header, uuids'), ok)
  /\ UNCHANGED messageNumber
=============================================================================
