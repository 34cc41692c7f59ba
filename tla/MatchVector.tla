----------------------------- MODULE MatchVector -----------------------------
(***************************************************************************)
(* The life of matches_, the vector in which Probe() converts the user's   *)
(* matches (wsdd/remotediscovery_service.cpp, class Wsa::Request in        *)
(* wsdd/wsa.hpp).  The response points into the vector, which is never     *)
(* cleared; an element is the copy of a temporary, and its Scopes points   *)
(* where the temporary's did.                                              *)
(*                                                                         *)
(* A place in memory is a buffer of the vector, by the number of its       *)
(* allocation, and an index.  A pointer is good while its buffer is the    *)
(* vector's current one.                                                   *)
(***************************************************************************)
EXTENDS Naturals, Sequences

CONSTANTS
  ItemCounts,   \* how many matches a user's probe() may return
  ScopeKinds,   \* "null": a match without scopes; "given": one with scopes
  MaxProbes     \* bound on the Probes of one service

ASSUME ItemCountsAssumption == ItemCounts \subseteq Nat
ASSUME ScopeKindsAssumption == ScopeKinds \subseteq {"null", "given"}

VARIABLES
  phase,        \* "idle", "fill" in the loop, "send" while it is serialized
  probes,       \* Probes handled so far
  items,        \* size of the vector p->probe() returned
  elements,     \* the contents of matches_
  capacity,     \* matches_.capacity()
  buffer,       \* number of the allocation matches_ lives in
  response      \* wsd__ProbeResponse->ProbeMatch: pointers to elements

vars == <<phase, probes, items, elements, capacity, buffer, response>>

Init ==
  /\ phase = "idle" /\ probes = 0 /\ items = 0
  /\ elements = <<>> /\ capacity = 0 /\ buffer = 0 /\ response = <<>>

\* matches_.reserve(items.size()): the elements move if there is no room.
Reserve(n) ==
  IF n > capacity THEN capacity' = n /\ buffer' = buffer + 1
                  ELSE UNCHANGED <<capacity, buffer>>

\* Mutant of Begin: no reserve().
BeginUnreserved(n) ==
  /\ phase = "idle" /\ probes < MaxProbes
  /\ probes' = probes + 1
  /\ items' = n /\ response' = <<>>
  /\ phase' = "fill"
  /\ UNCHANGED <<elements, capacity, buffer>>

Begin(n) ==
  /\ phase = "idle" /\ probes < MaxProbes
  /\ probes' = probes + 1
  /\ items' = n /\ response' = <<>>
  /\ Reserve(n)
  /\ phase' = "fill"
  /\ UNCHANGED elements

\* The vector of the GNU library doubles when it is full.
Grow(n) == IF n = 0 THEN 1 ELSE 2 * n

\* Wsa::Request(soap, arg) sets Scopes to its own member; the element copied
\* from it keeps that pointer.
Converted(scopes) ==
  [probe |-> probes, item |-> Len(response) + 1,
   scopes |-> IF scopes = "given" THEN "temporary" ELSE "null"]

\* Mutant of PushBack: grows only when already beyond the capacity.
PushBackLate(scopes) ==
  /\ phase = "fill" /\ Len(response) < items
  /\ elements' = Append(elements, Converted(scopes))
  /\ IF Len(elements) > capacity
       THEN capacity' = Grow(capacity) /\ buffer' = buffer + 1
       ELSE UNCHANGED <<capacity, buffer>>
  /\ response' = Append(response, [buffer |-> buffer', index |-> Len(elements')])
  /\ UNCHANGED <<phase, probes, items>>

\* push_back of a temporary, and the address of the new element.
PushBack(scopes) ==
  /\ phase = "fill" /\ Len(response) < items
  /\ elements' = Append(elements, Converted(scopes))
  /\ IF Len(elements) = capacity
       THEN capacity' = Grow(capacity) /\ buffer' = buffer + 1
       ELSE UNCHANGED <<capacity, buffer>>
  /\ response' = Append(response, [buffer |-> buffer', index |-> Len(elements')])
  /\ UNCHANGED <<phase, probes, items>>

Serialize ==
  /\ phase = "fill" /\ Len(response) = items
  /\ phase' = "send"
  /\ UNCHANGED <<probes, items, elements, capacity, buffer, response>>

Return ==
  /\ phase = "send"
  /\ phase' = "idle"
  /\ UNCHANGED <<probes, items, elements, capacity, buffer, response>>

Next ==
  \/ \E n \in ItemCounts : Begin(n)
  \/ \E scopes \in ScopeKinds : PushBack(scopes)
  \/ Serialize \/ Return

Spec == Init /\ [][Next]_vars
-----------------------------------------------------------------------------
TypeOK ==
  /\ phase \in {"idle", "fill", "send"}
  /\ probes \in Nat /\ items \in ItemCounts \cup {0}
  /\ elements \in Seq([probe : Nat, item : Nat, scopes : {"null", "temporary"}])
  /\ capacity \in Nat /\ buffer \in Nat /\ Len(elements) <= capacity
  /\ response \in Seq([buffer : Nat, index : Nat])

\* When the response is written, every entry points into the vector as it is
\* now, and to the match of this very Probe it was made for.
ResponseLive ==
  phase = "send" =>
    /\ Len(response) = items
    /\ \A i \in 1..items :
         /\ response[i].buffer = buffer
         /\ response[i].index \in 1..Len(elements)
         /\ elements[response[i].index].probe = probes
         /\ elements[response[i].index].item = i

\* "Fill the result array wsd__ProbeMatchType, converted from ProbeMatch": when
\* the response is written, the scopes of a match are still those converted
\* from the user's, in the element and not in a temporary that is gone.
ScopesLive ==
  phase = "send" =>
    \A i \in 1..items : elements[response[i].index].scopes # "temporary"
-----------------------------------------------------------------------------
(***************************************************************************)
(* Why ResponseLive holds if every Probe has n matches or none: the        *)
(* capacity and, between Probes, the size are multiples of n, so that a    *)
(* vector that is not full has room for all of a Probe's matches, and one  *)
(* that is full moves at the first of them.                                *)
(***************************************************************************)
Multiple(x, n) == \E k \in 0..x : x = k * n

\* The size of the vector when the Probe at hand came.
Base == IF phase = "fill" THEN Len(elements) - Len(response) ELSE Len(elements)

RoomInv(n) ==
  /\ Multiple(capacity, n) /\ Multiple(Base, n)
  /\ phase # "idle" => items = 0 \/ (items = n /\ n <= capacity)
  /\ phase = "fill" => Len(response) <= items
  /\ phase = "send" => Len(response) = items
  /\ phase = "fill" /\ response # <<>> => Base + n <= capacity

\* The entries made so far point to the last elements, in order.
EntriesInv ==
  phase \in {"fill", "send"} =>
    /\ Len(response) <= Len(elements)
    /\ \A i \in 1..Len(response) :
         LET e == Len(elements) - Len(response) + i IN
           /\ response[i] = [buffer |-> buffer, index |-> e]
           /\ elements[e].probe = probes /\ elements[e].item = i

Inv(n) == TypeOK /\ RoomInv(n) /\ EntriesInv
=============================================================================
