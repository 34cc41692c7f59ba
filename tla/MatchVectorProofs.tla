-------------------------- MODULE MatchVectorProofs --------------------------
(***************************************************************************)
(* The response to a Probe never dangles, although matches_ is never       *)
(* cleared, if every Probe of the service has n matches or none, for any n *)
(* and any number of Probes.                                               *)
(***************************************************************************)
EXTENDS MatchVector, TLAPS

\* A multiple below another leaves room for n.
LEMMA Room ==
  ASSUME NEW n \in Nat \ {0}, NEW x \in Nat, NEW y \in Nat,
         Multiple(x, n), Multiple(y, n), x < y
  PROVE  x + n <= y
<1>1. PICK j \in 0..x : x = j * n
  BY DEF Multiple
<1>2. PICK k \in 0..y : y = k * n
  BY DEF Multiple
<1>3. j < k
  <2>1. ASSUME k <= j PROVE FALSE
    <3>1. PICK d \in Nat : j = k + d
      BY <1>1, <1>2, <2>1
    <3>2. j * n = k * n + d * n /\ d * n \in Nat
      BY <1>1, <1>2, <3>1
    <3> QED
      BY <1>1, <1>2, <3>2
  <2> QED
    BY <1>1, <1>2, <2>1
<1>4. PICK d \in Nat : k = j + 1 + d
  BY <1>1, <1>2, <1>3
<1>5. k * n = j * n + n + d * n /\ d * n \in Nat
  BY <1>1, <1>2, <1>4
<1> QED
  BY <1>1, <1>2, <1>5

\* None, n, one n more, and twice as many.
LEMMA Multiples ==
  ASSUME NEW n \in Nat \ {0}
  PROVE  /\ Multiple(0, n) /\ Multiple(n, n)
         /\ \A x \in Nat : Multiple(x, n) => Multiple(x + n, n) /\ Multiple(2 * x, n)
<1>1. Multiple(0, n)
  BY DEF Multiple
<1>2. Multiple(n, n)
  BY DEF Multiple
<1>3. ASSUME NEW x \in Nat, Multiple(x, n)
      PROVE  Multiple(x + n, n) /\ Multiple(2 * x, n)
  <2>1. PICK k \in 0..x : x = k * n
    BY <1>3 DEF Multiple
  <2>2. x + n = (k + 1) * n /\ k + 1 \in 0..(x + n)
    BY <2>1
  <2>3. 2 * x = (2 * k) * n /\ 2 * k \in 0..(2 * x)
    BY <2>1
  <2> QED
    BY <2>2, <2>3 DEF Multiple
<1> QED
  BY <1>1, <1>2, <1>3

\* A converted match is an element.
LEMMA ConvertedType ==
  ASSUME TypeOK, NEW scopes
  PROVE  /\ Converted(scopes) \in [probe : Nat, item : Nat, scopes : {"null", "temporary"}]
         /\ Converted(scopes).probe = probes
         /\ Converted(scopes).item = Len(response) + 1
BY DEF Converted, TypeOK

\* The vector is typed whatever a user returns, and holds no more than its
\* capacity.
LEMMA TypeStep == TypeOK /\ [Next]_vars => TypeOK'
<1> SUFFICES ASSUME TypeOK, [Next]_vars PROVE TypeOK'
  OBVIOUS
<1> USE ItemCountsAssumption DEF TypeOK
<1>1. ASSUME NEW n \in ItemCounts, Begin(n) PROVE TypeOK'
  BY <1>1 DEF Begin, Reserve
<1>2. ASSUME NEW scopes \in ScopeKinds, PushBack(scopes) PROVE TypeOK'
  <2>1. /\ elements' = Append(elements, Converted(scopes))
        /\ response' = Append(response, [buffer |-> buffer', index |-> Len(elements')])
        /\ UNCHANGED <<phase, probes, items>>
    BY <1>2 DEF PushBack
  <2>2. /\ capacity' \in Nat /\ buffer' \in Nat /\ Len(elements) + 1 <= capacity'
    <3>1. Len(elements) \in Nat /\ Len(elements) <= capacity
      OBVIOUS
    <3>2. \/ capacity' = capacity /\ buffer' = buffer /\ Len(elements) # capacity
          \/ /\ Len(elements) = capacity
             /\ capacity' = Grow(capacity) /\ buffer' = buffer + 1
      BY <1>2 DEF PushBack
    <3>3. /\ Grow(capacity) \in Nat
          /\ Len(elements) = capacity => Len(elements) + 1 <= Grow(capacity)
      BY <3>1 DEF Grow
    <3> QED
      BY <3>1, <3>2, <3>3
  <2>3. /\ elements' \in Seq([probe : Nat, item : Nat, scopes : {"null", "temporary"}])
        /\ Len(elements') = Len(elements) + 1
    BY <2>1, ConvertedType
  <2>4. response' \in Seq([buffer : Nat, index : Nat])
    BY <2>1, <2>2, <2>3
  <2> QED
    BY <2>1, <2>2, <2>3, <2>4
<1>3. CASE Serialize \/ Return \/ UNCHANGED vars
  BY <1>3 DEF Serialize, Return, vars
<1> QED
  BY <1>1, <1>2, <1>3 DEF Next

\* The vector's types, for every number of matches a user may return.
THEOREM VectorTypes == Spec => []TypeOK
<1>1. Init => TypeOK
  BY DEF Init, TypeOK
<1> QED
  BY <1>1, TypeStep, PTL DEF Spec

\* A Probe begins: reserve() makes room for the first n matches of all.
LEMMA BeginStep ==
  ASSUME NEW n \in Nat \ {0}, ItemCounts \subseteq {0, n}, Inv(n),
         NEW c \in ItemCounts, Begin(c)
  PROVE  RoomInv(n)' /\ EntriesInv'
<1>1. /\ phase = "idle" /\ phase' = "fill" /\ response' = <<>> /\ items' = c
      /\ elements' = elements
      /\ capacity' = IF c > capacity THEN c ELSE capacity
      /\ c \in {0, n} /\ capacity \in Nat /\ Len(elements) \in Nat
  BY DEF Begin, Reserve, Inv, TypeOK
<1>2. Base = Len(elements) /\ Base' = Len(elements)
  BY <1>1 DEF Base
<1>3. Multiple(capacity', n) /\ (c = n => n <= capacity')
  <2>1. Multiple(capacity, n) /\ Multiple(n, n)
    BY Multiples DEF Inv, RoomInv
  <2>2. capacity' = capacity \/ capacity' = n
    BY <1>1
  <2> QED
    BY <1>1, <2>1, <2>2
<1>4. EntriesInv'
  BY <1>1 DEF EntriesInv
<1> QED
  BY <1>1, <1>2, <1>3, <1>4 DEF Inv, RoomInv

\* The buffer is exchanged at the first match or not at all.
LEMMA PushBackStep ==
  ASSUME NEW n \in Nat \ {0}, ItemCounts \subseteq {0, n}, Inv(n), NEW scopes, PushBack(scopes)
  PROVE  RoomInv(n)' /\ EntriesInv'
<1> DEFINE len == Len(elements)
           r == Len(response)
<1>1. /\ phase = "fill" /\ phase' = "fill" /\ items' = items /\ probes' = probes
      /\ len \in Nat /\ r \in Nat /\ capacity \in Nat /\ items \in Nat
      /\ r < items /\ items = n /\ n <= capacity /\ r <= len /\ len <= capacity
      /\ Multiple(capacity, n) /\ Multiple(len - r, n)
  <2>1. /\ phase = "fill" /\ r < items
        /\ phase' = "fill" /\ items' = items /\ probes' = probes
    BY DEF PushBack
  <2>2. len \in Nat /\ r \in Nat /\ capacity \in Nat /\ items \in Nat /\ len <= capacity
    BY ItemCountsAssumption DEF Inv, TypeOK
  <2>3. /\ items = 0 \/ (items = n /\ n <= capacity)
        /\ Multiple(capacity, n) /\ Multiple(len - r, n) /\ r <= len
    BY <2>1 DEF Inv, RoomInv, EntriesInv, Base
  <2> HIDE DEF len, r
  <2> QED
    BY <2>1, <2>2, <2>3
<1>2. /\ Len(elements') = len + 1 /\ elements'[len + 1].probe = probes
      /\ elements'[len + 1].item = r + 1
      /\ \A e \in 1..len : elements'[e] = elements[e]
  BY ConvertedType DEF PushBack, Inv, TypeOK
<1>3. /\ Len(response') = r + 1
      /\ response'[r + 1] = [buffer |-> buffer', index |-> len + 1]
      /\ \A i \in 1..r : response'[i] = response[i]
  BY <1>2 DEF PushBack, Inv, TypeOK
<1>4. /\ Multiple(capacity', n) /\ len - r + n <= capacity'
      /\ r > 0 => buffer' = buffer
  <2>1. CASE len = capacity
    <3>1. r = 0
      BY <1>1, <2>1 DEF Inv, RoomInv, Base
    <3>2. capacity' = 2 * capacity
      BY <1>1, <2>1 DEF PushBack, Grow
    <3> QED
      BY <1>1, <2>1, <3>1, <3>2, Multiples
  <2>2. CASE len # capacity
    <3>1. capacity' = capacity /\ buffer' = buffer
      BY <2>2 DEF PushBack
    <3>2. CASE r = 0
      BY <1>1, <2>2, <3>1, <3>2, Room
    <3>3. CASE r > 0
      BY <1>1, <3>1, <3>3 DEF Inv, RoomInv, Base
    <3> QED
      BY <1>1, <3>1, <3>2, <3>3
  <2> QED
    BY <2>1, <2>2
<1>5. Base' = len - r /\ Len(response') <= items
  BY <1>1, <1>2, <1>3 DEF Base
<1>6. RoomInv(n)'
  <2>1. Multiple(Base', n) /\ Base' + n <= capacity'
    BY <1>1, <1>4, <1>5
  <2>2. n <= capacity'
    <3>1. len - r + n >= n
      BY <1>1
    <3>2. capacity' \in Nat
      BY <1>1 DEF PushBack, Grow
    <3> QED
      BY <1>1, <1>4, <3>1, <3>2
  <2> QED
    BY <1>1, <1>4, <1>5, <2>1, <2>2 DEF RoomInv
<1>7. EntriesInv'
  <2> SUFFICES ASSUME NEW i \in 1..(r + 1)
               PROVE  LET e == len - r + i IN
                        /\ response'[i] = [buffer |-> buffer', index |-> e]
                        /\ elements'[e].probe = probes /\ elements'[e].item = i
    BY <1>1, <1>2, <1>3 DEF EntriesInv
  <2>1. CASE i = r + 1
    BY <1>1, <1>2, <1>3, <2>1
  <2>2. CASE i \in 1..r
    <3>1. len - r + i \in 1..len /\ r > 0
      BY <1>1, <2>2
    <3> QED
      BY <1>1, <1>2, <1>3, <1>4, <2>2, <3>1 DEF Inv, EntriesInv
  <2> QED
    BY <1>1, <2>1, <2>2
<1> QED
  BY <1>6, <1>7

\* When every Probe has n matches or none, no entry of a response dangles when
\* it is written, and each shows the match it was made for: the vector, which is
\* never cleared, moves at the first match of a Probe if at all.
THEOREM ResponseTheorem ==
  ASSUME NEW n \in Nat \ {0}, ItemCounts \subseteq {0, n}
  PROVE  Spec => []ResponseLive
<1>1. Init => Inv(n)
  <2> SUFFICES ASSUME Init PROVE Inv(n)
    OBVIOUS
  <2>1. TypeOK /\ EntriesInv
    BY DEF Init, TypeOK, EntriesInv
  <2>2. RoomInv(n)
    BY Multiples DEF Init, RoomInv, Base
  <2> QED
    BY <2>1, <2>2 DEF Inv
<1>2. Inv(n) /\ [Next]_vars => Inv(n)'
  <2> SUFFICES ASSUME Inv(n), [Next]_vars PROVE Inv(n)'
    OBVIOUS
  <2>1. TypeOK'
    BY TypeStep DEF Inv
  <2>2. CASE Serialize
    <3>1. UNCHANGED <<probes, items, elements, capacity, buffer, response>>
      BY <2>2 DEF Serialize
    <3>2. /\ phase = "fill" /\ phase' = "send" /\ Len(response) = items
          /\ Len(elements) \in Nat /\ items \in Nat
      BY <2>2, ItemCountsAssumption DEF Serialize, Inv, TypeOK
    <3>3. items = 0 \/ items = n
      BY <3>2 DEF Inv, RoomInv
    <3>4. Base = Len(elements) - items /\ Base' = Len(elements) /\ Base \in Nat
      BY <3>1, <3>2 DEF Base, Inv, EntriesInv
    <3>5. Multiple(Base', n)
      <4>1. Multiple(Base, n) /\ Multiple(Base + n, n)
        BY <3>4, Multiples DEF Inv, RoomInv
      <4>2. Base' = Base \/ Base' = Base + n
        BY <3>2, <3>3, <3>4
      <4> QED
        BY <4>1, <4>2
    <3> QED
      BY <2>1, <3>1, <3>2, <3>5 DEF Inv, RoomInv, EntriesInv
  <2>3. CASE Return
    BY <2>1, <2>3 DEF Return, Inv, RoomInv, EntriesInv, Base
  <2>4. CASE UNCHANGED vars
    BY <2>1, <2>4 DEF vars, Inv, RoomInv, EntriesInv, Base
  <2> QED
    BY <2>1, <2>2, <2>3, <2>4, BeginStep, PushBackStep DEF Next, Inv
<1>3. Inv(n) => ResponseLive
  <2> SUFFICES ASSUME Inv(n), phase = "send" PROVE ResponseLive
    BY DEF ResponseLive
  <2>1. /\ Len(response) = items /\ items \in Nat /\ Len(elements) \in Nat
        /\ items <= Len(elements)
    BY ItemCountsAssumption DEF Inv, RoomInv, EntriesInv, TypeOK
  <2>2. ASSUME NEW i \in 1..items
        PROVE  /\ response[i].buffer = buffer
               /\ response[i].index \in 1..Len(elements)
               /\ elements[response[i].index].probe = probes
               /\ elements[response[i].index].item = i
    BY <2>1, <2>2 DEF Inv, EntriesInv
  <2> QED
    BY <2>1, <2>2 DEF ResponseLive
<1> QED
  BY <1>1, <1>2, <1>3, PTL DEF Spec
=============================================================================
