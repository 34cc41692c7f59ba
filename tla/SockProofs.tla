----------------------------- MODULE SockProofs -----------------------------
(***************************************************************************)
(* The adapter for any number of Socks, transports, urls and addresses.    *)
(***************************************************************************)
EXTENDS Sock, FiniteSetTheorems, TLAPS

\* With assertions only gSOAP's functions are ever saved.
ContextInv ==
  /\ saved \in [Socks -> {"gsoap", None}]
  /\ user \in Socks \cup {None}
  /\ ContextRestored

\* With assertions, whatever Socks are made and destroyed on it, a context
\* belongs to the one Sock there is, or to gSOAP.
THEOREM ContextTheorem ==
  ASSUME AssertsEnabled
  PROVE  Spec => []ContextRestored
<1> USE NoneAssumption
<1>1. Init => ContextInv
  BY DEF Init, ContextInv, ContextRestored, Alive
<1>2. ContextInv /\ [Next]_vars => ContextInv'
  <2> SUFFICES ASSUME ContextInv, [Next]_vars PROVE ContextInv'
    OBVIOUS
  <2> USE DEF ContextInv, ContextRestored, Alive
  <2>1. ASSUME NEW k \in Socks, Construct(k) PROVE ContextInv'
    BY <2>1, AssertsEnabled DEF Construct, Stop, TakeOver
  <2>2. ASSUME NEW k \in Socks, Destroy(k) PROVE ContextInv'
    BY <2>2 DEF Destroy
  <2>3. ASSUME UNCHANGED <<hooks, user, saved>> PROVE ContextInv'
    BY <2>3
  <2> QED
    BY <2>1, <2>2, <2>3 DEF Next, Connect, Close, NullPointer, Stop, vars
<1>3. ContextInv => ContextRestored
  BY DEF ContextInv
<1> QED
  BY <1>1, <1>2, <1>3, PTL DEF Spec

Transports == [id : Nat, udp : BOOLEAN, peer : Peers, open : BOOLEAN]

\* A transport whose socket is closed is the same transport.
Shut(t, i) == IF t.id = i THEN [t EXCEPT !.open = FALSE] ELSE t

LEMMA ShutTransport ==
  ASSUME NEW t \in Transports, NEW i
  PROVE  Shut(t, i) \in Transports /\ Shut(t, i).id = t.id /\ Shut(t, i).peer = t.peer
BY DEF Shut, Transports

\* Where a Sock's functions look, and what is there.
KeptInv ==
  /\ user \in Socks \cup {None}
  /\ ip \in [Socks -> Nat \cup {None}] /\ opened \in [Socks -> Peers \cup {None}]
  /\ allocated \in Nat
  /\ heap \subseteq Transports
  /\ OwnTransports
  /\ TransportKept
  /\ CrashOnlyUnconnected

\* connect() gives the Sock a transport of its own, or leaves it the one it has.
LEMMA ConnectStep ==
  ASSUME KeptInv, NEW scheme \in Schemes, NEW peer \in Peers, NEW ok \in BOOLEAN,
         Connect(scheme, peer, ok)
  PROVE  KeptInv'
<1> USE NoneAssumption DEF KeptInv
<1>1. CASE scheme = "" /\ AssertsEnabled
  <2>1. /\ process' = "aborted"
        /\ UNCHANGED <<user, saved, ip, heap, allocated, opened>>
    BY <1>1 DEF Connect, Stop
  <2> QED
    BY <2>1 DEF OwnTransports, TransportKept, Alive, CrashOnlyUnconnected
<1>2. CASE ~(scheme = "" /\ AssertsEnabled) /\ ~ok
  <2>1. /\ process = "running" /\ allocated' = allocated + 1
        /\ heap' = heap /\ ip' = ip /\ opened' = opened
        /\ process' = process /\ user' = user /\ saved' = saved
    BY <1>2 DEF Connect, Called
  <2>2. OwnTransports'
    BY <2>1 DEF OwnTransports
  <2>3. TransportKept' /\ CrashOnlyUnconnected'
    BY <2>1 DEF TransportKept, Alive, CrashOnlyUnconnected
  <2> QED
    BY <2>1, <2>2, <2>3
<1>3. CASE ~(scheme = "" /\ AssertsEnabled) /\ ok
  <2>1. /\ user \in Socks /\ allocated' = allocated + 1
        /\ heap' = {t \in heap : t.id # ip[user]} \cup {New(scheme, peer)}
        /\ ip' = [ip EXCEPT ![user] = allocated]
        /\ opened' = [opened EXCEPT ![user] = peer]
        /\ UNCHANGED <<process, user, saved>> /\ process = "running"
    BY <1>3 DEF Connect, Called
  <2>2. OwnTransports'
    BY <2>1 DEF OwnTransports
  <2>3. TransportKept'
    <3> SUFFICES ASSUME NEW k \in Socks, k \in Alive', opened'[k] # None
                 PROVE  \E t \in heap' : t.id = ip'[k] /\ t.peer = opened'[k]
      BY DEF TransportKept, Alive
    <3>1. CASE k = user
      <4>1. ip'[k] = allocated /\ opened'[k] = peer
        BY <2>1, <3>1
      <4>2. /\ New(scheme, peer) \in heap'
            /\ New(scheme, peer).id = allocated /\ New(scheme, peer).peer = peer
        BY <2>1 DEF New
      <4> QED
        BY <4>1, <4>2
    <3>2. CASE k # user
      <4>1. /\ ip'[k] = ip[k] /\ opened'[k] = opened[k] /\ k \in Alive
            /\ ip[k] # None /\ ip[k] # ip[user]
        BY <2>1, <3>2 DEF Alive, OwnTransports
      <4>2. PICK t \in heap : t.id = ip[k] /\ t.peer = opened[k]
        BY <4>1 DEF TransportKept
      <4> QED
        BY <2>1, <4>1, <4>2
    <3> QED
      BY <3>1, <3>2
  <2>4. heap' \subseteq Transports
    <3>1. (scheme = "soap.udp") \in BOOLEAN
      OBVIOUS
    <3>2. New(scheme, peer) \in Transports
      BY <3>1 DEF New, Transports
    <3> QED
      BY <2>1, <3>2
  <2> QED
    BY <2>1, <2>2, <2>3, <2>4 DEF CrashOnlyUnconnected
<1> QED
  BY <1>1, <1>2, <1>3

\* Every step keeps it.
LEMMA KeptHolds == Spec => []KeptInv
<1> USE NoneAssumption
<1>1. Init => KeptInv
  <2> SUFFICES ASSUME Init PROVE KeptInv
    OBVIOUS
  <2>1. \A k \in Socks : ip[k] = None /\ opened[k] = None
    BY DEF Init
  <2>2. OwnTransports /\ TransportKept
    BY <2>1 DEF OwnTransports, TransportKept, Alive
  <2> QED
    BY <2>2 DEF Init, KeptInv, CrashOnlyUnconnected
<1>2. KeptInv /\ [Next]_vars => KeptInv'
  <2> SUFFICES ASSUME KeptInv, [Next]_vars PROVE KeptInv'
    OBVIOUS
  <2> USE DEF KeptInv
  <2>1. ASSUME NEW k \in Socks, Construct(k) PROVE KeptInv'
    <3>1. CASE Stop("aborted")
      BY <3>1 DEF Stop, OwnTransports, TransportKept, Alive, CrashOnlyUnconnected
    <3>2. CASE TakeOver(k)
      <4>1. /\ k \in Socks /\ user' = k /\ process = "running" /\ process' = process
            /\ ip' = [ip EXCEPT ![k] = None] /\ opened' = [opened EXCEPT ![k] = None]
            /\ heap' = heap /\ allocated' = allocated
            /\ \A j \in Socks : j # k => saved'[j] = saved[j]
        BY <2>1, <3>2 DEF Construct, Stop, TakeOver
      <4>2. OwnTransports'
        BY <4>1 DEF OwnTransports
      <4>3. TransportKept'
        BY <4>1 DEF TransportKept, Alive
      <4> QED
        BY <4>1, <4>2, <4>3 DEF CrashOnlyUnconnected
    <3> QED
      BY <2>1, <3>1, <3>2 DEF Construct
  <2>2. ASSUME NEW k \in Socks, Destroy(k) PROVE KeptInv'
    BY <2>2 DEF Destroy, OwnTransports, TransportKept, Alive, CrashOnlyUnconnected
  <2>3. ASSUME Close PROVE KeptInv'
    <3>1. /\ heap' = {Shut(t, ip[user]) : t \in heap}
          /\ UNCHANGED <<process, user, saved, ip, allocated, opened>>
      BY <2>3 DEF Close, Shut
    <3>2. \A t \in heap : Shut(t, ip[user]) \in heap'
      BY <3>1
    <3>3. \A t \in heap : /\ Shut(t, ip[user]) \in Transports
                          /\ Shut(t, ip[user]).id = t.id
                          /\ Shut(t, ip[user]).peer = t.peer
      BY ShutTransport
    <3>4. TransportKept'
      BY <3>1, <3>2, <3>3 DEF TransportKept, Alive
    <3>5. heap' \subseteq Transports
      BY <3>1, <3>3
    <3>6. OwnTransports'
      BY <3>1 DEF OwnTransports
    <3> QED
      BY <3>1, <3>4, <3>5, <3>6 DEF CrashOnlyUnconnected
  <2>4. ASSUME NullPointer PROVE KeptInv'
    BY <2>4 DEF NullPointer, Stop, OwnTransports, TransportKept, Alive,
                CrashOnlyUnconnected
  <2>5. CASE UNCHANGED vars
    BY <2>5 DEF vars, OwnTransports, TransportKept, Alive, CrashOnlyUnconnected
  <2> QED
    BY <2>1, <2>2, <2>3, <2>4, <2>5, ConnectStep DEF Next
<1> QED
  BY <1>1, <1>2, PTL DEF Spec

\* With or without assertions: a Sock keeps the transport of its last successful
\* connect().
THEOREM KeptTheorem == Spec => []TransportKept
<1>1. KeptInv => TransportKept
  BY DEF KeptInv
<1> QED
  BY <1>1, KeptHolds, PTL

\* And so its functions do not meet a null pointer after one.
THEOREM ConnectedTheorem == Spec => []CrashOnlyUnconnected
<1>1. KeptInv => CrashOnlyUnconnected
  BY DEF KeptInv
<1> QED
  BY <1>1, KeptHolds, PTL
-----------------------------------------------------------------------------
\* What the functions of a Sock point at is allocated, and its own.
PointerInv == TypeOK /\ OwnTransports

\* Making and destroying Socks leaves the transports alone.
LEMMA PointerSocks ==
  ASSUME PointerInv, NEW k \in Socks, Construct(k) \/ Destroy(k)
  PROVE  PointerInv'
<1> USE NoneAssumption, BoundsAssumption DEF PointerInv
<1>1. CASE Stop("aborted")
  BY <1>1 DEF Stop, TypeOK, OwnTransports
<1>2. CASE (TakeOver(k) /\ made < MaxSocks) \/ Destroy(k)
  <2>1. /\ user' \in {k, None} /\ hooks' \in {"gsoap", "sock", saved[k]}
        /\ saved' \in {[saved EXCEPT ![k] = hooks], [saved EXCEPT ![k] = None]}
        /\ ip' = [ip EXCEPT ![k] = None] /\ opened' = [opened EXCEPT ![k] = None]
        /\ UNCHANGED <<process, heap, allocated>>
        /\ \/ made' = made
           \/ made' = made + 1 /\ made < MaxSocks
        /\ hooks' # None
    BY <1>2 DEF TakeOver, Destroy, Alive, TypeOK
  <2>2. OwnTransports'
    BY <2>1 DEF OwnTransports, TypeOK
  <2>3. TypeOK'
    BY <2>1 DEF TypeOK
  <2> QED
    BY <2>2, <2>3
<1> QED
  BY <1>1, <1>2 DEF Construct

\* connect() points at the transport it has put on the heap, and deletes one that
\* nothing else points at.
LEMMA PointerConnect ==
  ASSUME PointerInv, NEW scheme \in Schemes, NEW peer \in Peers, NEW ok \in BOOLEAN,
         Connect(scheme, peer, ok)
  PROVE  PointerInv'
<1> USE NoneAssumption, BoundsAssumption DEF PointerInv
<1>1. CASE scheme = "" /\ AssertsEnabled
  <2>1. Stop("aborted")
    BY <1>1 DEF Connect
  <2> QED
    BY <2>1 DEF Stop, TypeOK, OwnTransports
<1>2. CASE ~(scheme = "" /\ AssertsEnabled) /\ ~ok
  <2>1. /\ allocated < MaxTransports /\ allocated' = allocated + 1
        /\ UNCHANGED <<process, hooks, user, saved, ip, heap, made, opened>>
    BY <1>2 DEF Connect
  <2> QED
    BY <2>1 DEF TypeOK, OwnTransports
<1>3. CASE ~(scheme = "" /\ AssertsEnabled) /\ ok
  <2>1. /\ user \in Socks /\ allocated < MaxTransports /\ allocated' = allocated + 1
        /\ heap' = {t \in heap : t.id # ip[user]} \cup {New(scheme, peer)}
        /\ ip' = [ip EXCEPT ![user] = allocated]
        /\ opened' = [opened EXCEPT ![user] = peer]
        /\ UNCHANGED <<process, hooks, user, saved, made>>
    BY <1>3 DEF Connect, TypeOK
  <2>2. OwnTransports'
    BY <2>1 DEF OwnTransports, TypeOK
  <2>3. New(scheme, peer).id = allocated
    BY DEF New
  <2>4. \A k \in Socks : ip'[k] \in {t.id : t \in heap'} \cup {None}
    <3> TAKE k \in Socks
    <3>1. CASE k = user
      BY <2>1, <2>3, <3>1 DEF TypeOK
    <3>2. CASE k # user /\ ip[k] # None
      <4>1. PICK t \in heap : t.id = ip[k]
        BY <3>2 DEF TypeOK
      <4>2. ip[k] # ip[user] /\ ip'[k] = ip[k]
        BY <2>1, <3>2 DEF OwnTransports, TypeOK
      <4> QED
        BY <2>1, <4>1, <4>2
    <3>3. CASE k # user /\ ip[k] = None
      BY <2>1, <3>3 DEF TypeOK
    <3> QED
      BY <3>1, <3>2, <3>3
  <2>5. heap' \subseteq
          [id : 0..(MaxTransports - 1), udp : BOOLEAN, peer : Peers, open : BOOLEAN]
    <3>1. (scheme = "soap.udp") \in BOOLEAN /\ allocated \in 0..(MaxTransports - 1)
      BY <2>1 DEF TypeOK
    <3>2. New(scheme, peer) \in
            [id : 0..(MaxTransports - 1), udp : BOOLEAN, peer : Peers, open : BOOLEAN]
      BY <3>1 DEF New
    <3> QED
      BY <2>1, <3>2 DEF TypeOK
  <2>6. ip' \in [Socks -> {t.id : t \in heap'} \cup {None}]
    <3>1. ip' = [k \in Socks |-> ip'[k]]
      BY <2>1 DEF TypeOK
    <3> QED
      BY <2>4, <3>1
  <2> QED
    BY <2>1, <2>2, <2>5, <2>6 DEF TypeOK
<1> QED
  BY <1>1, <1>2, <1>3

\* close() changes a socket, no pointer.
LEMMA PointerClose == PointerInv /\ Close => PointerInv'
<1> SUFFICES ASSUME PointerInv, Close PROVE PointerInv'
  OBVIOUS
<1> USE DEF PointerInv
<1>1. /\ heap' = {Shut(t, ip[user]) : t \in heap}
      /\ UNCHANGED <<process, hooks, user, saved, ip, made, allocated, opened>>
  BY DEF Close, Shut
<1>2. ASSUME NEW t \in heap
      PROVE  /\ Shut(t, ip[user]) \in [id : 0..(MaxTransports - 1), udp : BOOLEAN,
                                       peer : Peers, open : BOOLEAN]
             /\ Shut(t, ip[user]).id = t.id
  BY <1>2 DEF Shut, TypeOK
<1>3. {t.id : t \in heap} = {t.id : t \in heap'}
  BY <1>1, <1>2
<1> QED
  BY <1>1, <1>2, <1>3 DEF TypeOK, OwnTransports

\* Pointers stay valid in every run.
LEMMA PointersHold == Spec => []PointerInv
<1>1. Init => PointerInv
  BY NoneAssumption, BoundsAssumption DEF Init, PointerInv, TypeOK, OwnTransports
<1>2. PointerInv /\ [Next]_vars => PointerInv'
  <2>1. ASSUME PointerInv, NullPointer \/ UNCHANGED vars PROVE PointerInv'
    BY <2>1 DEF NullPointer, Stop, vars, PointerInv, TypeOK, OwnTransports
  <2> QED
    BY <2>1, PointerSocks, PointerConnect, PointerClose DEF Next
<1> QED
  BY <1>1, <1>2, PTL DEF Spec

\* The state has its types; above all, what impl_->ip of a Sock points at is a
\* transport that has not been deleted.
THEOREM SockTypes == Spec => []TypeOK
<1>1. PointerInv => TypeOK
  BY DEF PointerInv
<1> QED
  BY <1>1, PointersHold, PTL
-----------------------------------------------------------------------------
OwedInv == made \in Nat /\ OwedTransports

\* A new Sock is owed a transport; one that is destroyed is owed none any more.
LEMMA OwedSocks ==
  ASSUME PointerInv, OwedInv, NEW k \in Socks, Construct(k) \/ Destroy(k)
  PROVE  OwedInv'
<1> USE NoneAssumption DEF OwedInv, OwedTransports
<1>1. CASE UNCHANGED <<user, saved, ip, heap, made>>
  BY <1>1 DEF Unconnected, Alive
<1>2. CASE Construct(k) /\ TakeOver(k)
  <2>1. /\ k \notin Unconnected /\ hooks # None
        /\ saved' = [saved EXCEPT ![k] = hooks] /\ ip' = [ip EXCEPT ![k] = None]
        /\ user' = k /\ made' = made + 1 /\ heap' = heap
    BY <1>2 DEF Construct, Stop, TakeOver, Unconnected, PointerInv, TypeOK
  <2>2. k \in Alive' /\ Unconnected' = Unconnected \cup {k}
    BY <2>1 DEF Unconnected, Alive, PointerInv, TypeOK
  <2>3. /\ IsFiniteSet(Unconnected \cup {k})
        /\ Cardinality(Unconnected \cup {k}) = Cardinality(Unconnected) + 1
    BY <2>1, FS_AddElement
  <2> QED
    BY <2>1, <2>2, <2>3, FS_CardinalityType
<1>3. CASE Destroy(k)
  <2>1. /\ saved' = [saved EXCEPT ![k] = None] /\ ip' = [ip EXCEPT ![k] = None]
        /\ user' = None /\ made' = made /\ heap' = heap
    BY <1>3 DEF Destroy
  <2>2. Unconnected' = Unconnected \ {k}
    BY <2>1 DEF Unconnected, Alive, PointerInv, TypeOK
  <2>3. /\ IsFiniteSet(Unconnected \ {k})
        /\ Cardinality(Unconnected \ {k}) <= Cardinality(Unconnected)
    BY FS_Subset
  <2>4. Cardinality(heap) \in Nat /\ Cardinality(Unconnected) \in Nat
        /\ Cardinality(Unconnected \ {k}) \in Nat
    BY <2>3, FS_CardinalityType
  <2> QED
    BY <2>1, <2>2, <2>3, <2>4
<1> QED
  BY <1>1, <1>2, <1>3 DEF Construct, Stop

\* connect() deletes a transport for the one it adds, or serves a Sock that had none.
LEMMA OwedConnect ==
  ASSUME PointerInv, OwedInv,
         NEW scheme \in Schemes, NEW peer \in Peers, NEW ok \in BOOLEAN,
         Connect(scheme, peer, ok)
  PROVE  OwedInv'
<1> USE NoneAssumption DEF OwedInv, OwedTransports
<1>1. CASE UNCHANGED <<user, saved, ip, heap, made>>
  BY <1>1 DEF Unconnected, Alive
<1>2. CASE ~(scheme = "" /\ AssertsEnabled) /\ ok
  <2> DEFINE rest == {t \in heap : t.id # ip[user]}
             fresh == New(scheme, peer)
  <2>1. /\ user \in Socks /\ user \in Alive
        /\ heap' = rest \cup {fresh}
        /\ ip' = [ip EXCEPT ![user] = allocated] /\ allocated # None
        /\ UNCHANGED <<user, saved, made>>
    <3>1. user \in Socks \cup {None} /\ allocated \in Nat
      BY BoundsAssumption DEF PointerInv, TypeOK
    <3>2. /\ user # None
          /\ heap' = rest \cup {fresh}
          /\ ip' = [ip EXCEPT ![user] = allocated]
          /\ UNCHANGED <<user, saved, made>>
      BY <1>2 DEF Connect
    <3> QED
      BY <3>1, <3>2
  <2>2. Unconnected' = Unconnected \ {user} /\ Alive' = Alive
    BY <2>1 DEF Unconnected, Alive, PointerInv, TypeOK
  <2>3. IsFiniteSet(rest) /\ Cardinality(rest) <= Cardinality(heap)
    BY FS_Subset
  <2>4. /\ IsFiniteSet(rest \cup {fresh})
        /\ Cardinality(rest \cup {fresh}) <= Cardinality(rest) + 1
    <3>1. /\ IsFiniteSet(rest \cup {fresh})
          /\ Cardinality(rest \cup {fresh}) =
               IF fresh \in rest THEN Cardinality(rest) ELSE Cardinality(rest) + 1
      BY <2>3, FS_AddElement
    <3> QED
      BY <2>3, <3>1, FS_CardinalityType
  <2>5. IsFiniteSet(Unconnected \ {user})
    BY FS_RemoveElement
  <2>6. /\ Cardinality(heap) \in Nat /\ Cardinality(rest) \in Nat
        /\ Cardinality(rest \cup {fresh}) \in Nat
        /\ Cardinality(Unconnected) \in Nat /\ Cardinality(Unconnected \ {user}) \in Nat
    BY <2>3, <2>4, <2>5, FS_CardinalityType
  <2>7. Cardinality(rest) + 1 + Cardinality(Unconnected \ {user})
          <= Cardinality(heap) + Cardinality(Unconnected)
    <3>1. CASE user \in Unconnected
      <4>1. Cardinality(Unconnected \ {user}) = Cardinality(Unconnected) - 1
        BY <3>1, FS_RemoveElement
      <4> QED
        BY <2>3, <2>6, <4>1
    <3>2. CASE user \notin Unconnected
      <4>1. PICK t \in heap : t.id = ip[user]
        BY <2>1, <3>2 DEF Unconnected, PointerInv, TypeOK
      <4>2. rest # heap /\ rest \in SUBSET heap
        BY <4>1
      <4>3. Cardinality(rest) # Cardinality(heap)
        <5> HIDE DEF rest
        <5> QED
          BY <4>2, FS_Subset
      <4>4. Cardinality(Unconnected \ {user}) = Cardinality(Unconnected)
        <5>1. Unconnected \ {user} = Unconnected
          BY <3>2
        <5> QED
          BY <5>1
      <4>5. Cardinality(rest) + 1 <= Cardinality(heap)
        BY <2>3, <2>6, <4>3
      <4> QED
        BY <2>6, <4>4, <4>5
    <3> QED
      BY <3>1, <3>2
  <2>8. Cardinality(heap') + Cardinality(Unconnected') <= made'
    <3> HIDE DEF rest, fresh
    <3> QED
      BY <2>1, <2>2, <2>4, <2>6, <2>7
  <2> QED
    BY <2>1, <2>2, <2>4, <2>5, <2>8
<1> QED
  BY <1>1, <1>2 DEF Connect, Stop

\* close() leaves as many transports as there were.
LEMMA OwedClose == OwedInv /\ Close => OwedInv'
<1> SUFFICES ASSUME OwedInv, Close PROVE OwedInv'
  OBVIOUS
<1> USE DEF OwedInv, OwedTransports
<1>1. /\ heap' = {Shut(t, ip[user]) : t \in heap}
      /\ UNCHANGED <<user, saved, ip, made>>
  BY DEF Close, Shut
<1>2. Unconnected' = Unconnected /\ Alive' = Alive
  BY <1>1 DEF Unconnected, Alive
<1>3. IsFiniteSet(heap') /\ Cardinality(heap') <= Cardinality(heap)
  <2> DEFINE shut == [t \in heap |-> Shut(t, ip[user])]
  <2>1. shut \in Surjection(heap, heap')
    BY <1>1 DEF Surjection
  <2> HIDE DEF shut
  <2> QED
    BY <2>1, FS_Surjection
<1>4. Cardinality(heap) \in Nat /\ Cardinality(heap') \in Nat
      /\ Cardinality(Unconnected) \in Nat
  BY <1>3, FS_CardinalityType
<1> QED
  BY <1>1, <1>2, <1>3, <1>4

\* However often Socks reconnect, in whatever order they come and go, no more
\* transports are left than Socks were made: ~Sock leaks its transport, connect()
\* leaks none.
THEOREM LeakTheorem == Spec => []OneTransportEach
<1>1. Init => OwedInv
  <2> SUFFICES ASSUME Init PROVE OwedInv
    OBVIOUS
  <2>1. heap = {} /\ Unconnected = {} /\ user = None /\ made = 0
    BY DEF Init, Unconnected, Alive
  <2> QED
    BY <2>1, FS_EmptySet DEF OwedInv, OwedTransports
<1>2. PointerInv /\ OwedInv /\ [Next]_vars => OwedInv'
  <2>1. ASSUME OwedInv, NullPointer \/ UNCHANGED vars PROVE OwedInv'
    BY <2>1 DEF NullPointer, Stop, vars, OwedInv, OwedTransports, Unconnected, Alive
  <2> QED
    BY <2>1, OwedSocks, OwedConnect, OwedClose DEF Next
<1>3. OwedInv => OneTransportEach
  <2> SUFFICES ASSUME OwedInv PROVE OneTransportEach
    OBVIOUS
  <2>1. Cardinality(heap) \in Nat /\ Cardinality(Unconnected) \in Nat
    BY FS_CardinalityType DEF OwedInv, OwedTransports
  <2> QED
    BY <2>1 DEF OwedInv, OwedTransports, OneTransportEach
<1> QED
  BY <1>1, <1>2, <1>3, PointersHold, PTL DEF Spec
=============================================================================
