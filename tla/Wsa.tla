-------------------------------- MODULE Wsa --------------------------------
(***************************************************************************)
(* WS-Addressing and WS-Discovery headers (wsdd/wsa.cpp).  A soap context  *)
(* owns one SOAP header; class Wsa edits it in place, and the header keeps *)
(* what nobody resets.  Each operator takes a header and returns the       *)
(* header the corresponding method leaves behind.                          *)
(*                                                                         *)
(* Of the header only what the discovery protocol correlates is kept:      *)
(*   id         wsa:MessageID                                              *)
(*   relatesTo  wsa:RelatesTo, NoId when the pointer is null               *)
(*   num        MessageNumber of the wsd:AppSequence the header points to, *)
(*              0 when the pointer is null                                 *)
(***************************************************************************)
EXTENDS Naturals

CONSTANTS NoId,     \* the empty MessageID, and the absent RelatesTo
          UintMod   \* 2^w for the w bits of the uint that counts messages

ASSUME UintModAssumption == UintMod \in Nat \ {0}

\* The header of a context that has sent and received nothing, and of one
\* whose memory destroy() has released.
NoHeader == [id |-> NoId, relatesTo |-> NoId, num |-> 0]

\* Mutants of Request: the MessageID, or the old RelatesTo, is left as it was.
RequestKeepsId(header, uuid) == [header EXCEPT !.relatesTo = NoId]
RequestKeepsRelatesTo(header, uuid) == [header EXCEPT !.id = uuid]

\* Wsa::request: a fresh MessageID, RelatesTo cleared.  The AppSequence pointer
\* is not among the members that are reset.
Request(header, uuid) == [header EXCEPT !.id = uuid, !.relatesTo = NoId]

\* Wsa::addRelatesTo: an empty id leaves RelatesTo as it is.
AddRelatesTo(header, id) ==
  IF id = NoId THEN header ELSE [header EXCEPT !.relatesTo = id]

\* Wsa::messageNumber increments the process-wide counter and returns it.
NextNumber(number) == (number + 1) % UintMod

\* Wsa::addAppSequence: the header points to a sequence with this number.
AddAppSequence(header, number) == [header EXCEPT !.num = number]

\* What leaves the host: the kind of body and the header.  "cause" is a
\* history field: the position, among the datagrams taken from the socket, of
\* the one this message answers; 0 when it answers none.
Message(kind, header, cause) ==
  [kind |-> kind, id |-> header.id, relatesTo |-> header.relatesTo,
   num |-> header.num, cause |-> cause]
=============================================================================
