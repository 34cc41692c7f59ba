-------------------------------- MODULE Sock --------------------------------
(***************************************************************************)
(* The transport adapter (sock/sock.cpp): a Sock takes over the ten i/o    *)
(* functions of a soap context, finds itself again through context->user,  *)
(* and gives the functions back when it is destroyed.  connect() makes a   *)
(* transport, Tcp or Udp by the scheme of the url; send(), recv() and      *)
(* close() use the one there is.                                           *)
(*                                                                         *)
(* The functions are exchanged together and are one variable.  ignore(),   *)
(* accept(), poll() and serveloop() return at once and change nothing.     *)
(***************************************************************************)
EXTENDS Naturals, FiniteSets

CONSTANTS
  Socks,            \* the objects a program has room for
  Schemes,          \* of urls: "http", "https", "soap.udp", "" for any other
  Peers,            \* numeric addresses, and one that is not
  AssertsEnabled,   \* whether the build has BOOST_ASSERT (no NDEBUG)
  None,             \* a null pointer
  MaxSocks,         \* bound on the Socks constructed
  MaxTransports     \* bound on the transports allocated

ASSUME BoundsAssumption == MaxSocks \in Nat /\ MaxTransports \in Nat
ASSUME NoneAssumption == None \notin Socks \cup Peers \cup Nat \cup {"gsoap", "sock"}

VARIABLES
  process,      \* "running", "aborted" by an assertion, "crashed" on a null pointer
  hooks,        \* the functions in the context: "gsoap" or "sock"
  user,         \* context->user: None or a Sock
  saved,        \* Impl::context of each Sock that exists, None of the others
  ip,           \* Impl::ip of each Sock: None or a transport
  heap,         \* the transports allocated: [id, udp, peer, open]
  made,         \* Socks constructed so far
  allocated,    \* transports allocated so far
  opened        \* history: where the last successful connect() of a Sock went

vars == <<process, hooks, user, saved, ip, heap, made, allocated, opened>>

Alive == {k \in Socks : saved[k] # None}

Init ==
  /\ process = "running"
  /\ hooks = "gsoap" /\ user = None
  /\ saved = [k \in Socks |-> None]
  /\ ip = [k \in Socks |-> None] /\ opened = [k \in Socks |-> None]
  /\ heap = {} /\ made = 0 /\ allocated = 0

Stop(how) ==
  /\ process' = how
  /\ UNCHANGED <<hooks, user, saved, ip, heap, made, allocated, opened>>

TakeOver(k) ==
  /\ saved' = [saved EXCEPT ![k] = hooks]
  /\ hooks' = "sock" /\ user' = k
  /\ ip' = [ip EXCEPT ![k] = None] /\ opened' = [opened EXCEPT ![k] = None]
  /\ made' = made + 1
  /\ UNCHANGED <<process, heap, allocated>>

\* Mutant of Construct: the assertions about the context are gone.
ConstructUnchecked(k) ==
  /\ process = "running" /\ k \notin Alive /\ made < MaxSocks
  /\ TakeOver(k)

\* Sock::Sock asserts that the context has no user, and gSOAP's own functions.
Construct(k) ==
  /\ process = "running" /\ k \notin Alive /\ made < MaxSocks
  /\ IF AssertsEnabled /\ (user # None \/ hooks # "gsoap")
       THEN Stop("aborted")
       ELSE TakeOver(k)

\* Sock::~Sock: the functions go back; the transport is not deleted.
Destroy(k) ==
  /\ process = "running" /\ k \in Alive
  /\ hooks' = saved[k] /\ user' = None
  /\ saved' = [saved EXCEPT ![k] = None]
  /\ ip' = [ip EXCEPT ![k] = None] /\ opened' = [opened EXCEPT ![k] = None]
  /\ UNCHANGED <<process, heap, made, allocated>>

\* gSOAP calls one of the functions of this module.
Called == process = "running" /\ hooks = "sock"

\* fromUrl(): a url with none of the schemes is left without a host; without
\* assertions it counts as one of Tcp.  Anything but a numeric address fails.
Connectable(peer, ok) == ok => peer # "name"

New(scheme, peer) ==
  [id |-> allocated, udp |-> scheme = "soap.udp", peer |-> peer, open |-> TRUE]

\* Mutants of Connect: the old transport is not deleted; it is deleted first.
ConnectBeside(scheme, peer, ok) ==
  /\ Called /\ user # None /\ allocated < MaxTransports /\ Connectable(peer, ok)
  /\ allocated' = allocated + 1
  /\ heap' = IF ok THEN heap \cup {New(scheme, peer)} ELSE heap
  /\ ip' = IF ok THEN [ip EXCEPT ![user] = allocated] ELSE ip
  /\ opened' = IF ok THEN [opened EXCEPT ![user] = peer] ELSE opened
  /\ UNCHANGED <<process, hooks, user, saved, made>>
ConnectAfresh(scheme, peer, ok) ==
  /\ Called /\ user # None /\ allocated < MaxTransports /\ Connectable(peer, ok)
  /\ allocated' = allocated + 1
  /\ heap' = {t \in heap : t.id # ip[user]} \cup (IF ok THEN {New(scheme, peer)} ELSE {})
  /\ ip' = [ip EXCEPT ![user] = IF ok THEN allocated ELSE None]
  /\ opened' = IF ok THEN [opened EXCEPT ![user] = peer] ELSE opened
  /\ UNCHANGED <<process, hooks, user, saved, made>>

\* connect(): the new transport replaces the old one, which is deleted, only
\* when it is connected; otherwise the new one goes and the old one stays.
Connect(scheme, peer, ok) ==
  /\ Called /\ user # None /\ allocated < MaxTransports
  /\ IF scheme = "" /\ AssertsEnabled
       THEN Stop("aborted")
       ELSE /\ Connectable(peer, ok)
            /\ allocated' = allocated + 1
            /\ heap' = IF ok THEN {t \in heap : t.id # ip[user]} \cup {New(scheme, peer)}
                             ELSE heap
            /\ ip' = IF ok THEN [ip EXCEPT ![user] = allocated] ELSE ip
            /\ opened' = IF ok THEN [opened EXCEPT ![user] = peer] ELSE opened
            /\ UNCHANGED <<process, hooks, user, saved, made>>

\* send(), recv() and close() look for their Sock in context->user, and for its
\* transport, without asking whether they are there.
NullPointer ==
  /\ Called
  /\ user # None => ip[user] = None
  /\ Stop("crashed")

\* Mutant of Close: the transport is deleted, and the pointer stays.
CloseDeletes ==
  /\ Called /\ user # None /\ ip[user] # None
  /\ heap' = {t \in heap : t.id # ip[user]}
  /\ UNCHANGED <<process, hooks, user, saved, ip, made, allocated, opened>>

\* close(): the socket is closed, the transport stays.
Close ==
  /\ Called /\ user # None /\ ip[user] # None
  /\ heap' = {IF t.id = ip[user] THEN [t EXCEPT !.open = FALSE] ELSE t : t \in heap}
  /\ UNCHANGED <<process, hooks, user, saved, ip, made, allocated, opened>>

Next ==
  \/ \E k \in Socks : Construct(k) \/ Destroy(k)
  \/ \E scheme \in Schemes, peer \in Peers, ok \in BOOLEAN : Connect(scheme, peer, ok)
  \/ Close \/ NullPointer

Spec == Init /\ [][Next]_vars
-----------------------------------------------------------------------------
TypeOK ==
  /\ process \in {"running", "aborted", "crashed"}
  /\ hooks \in {"gsoap", "sock"} /\ user \in Socks \cup {None}
  /\ saved \in [Socks -> {"gsoap", "sock", None}]
  /\ ip \in [Socks -> {t.id : t \in heap} \cup {None}]
  /\ opened \in [Socks -> Peers \cup {None}]
  /\ made \in 0..MaxSocks /\ allocated \in 0..MaxTransports
  /\ heap \subseteq [id : 0..(MaxTransports - 1), udp : BOOLEAN, peer : Peers, open : BOOLEAN]

\* Through any sequence of Socks on one context: while one exists the context is
\* its, and when none does the context is gSOAP's again.
ContextRestored ==
  IF Alive = {} THEN hooks = "gsoap" /\ user = None
                ELSE hooks = "sock" /\ Alive = {user}

\* A Sock keeps the transport of its last successful connect(), whatever failed
\* or was closed since.
TransportKept ==
  \A k \in Alive :
    opened[k] # None => \E t \in heap : t.id = ip[k] /\ t.peer = opened[k]

\* Once a connect() of a Sock has succeeded its functions find a transport: a
\* null pointer is met only before that.
CrashOnlyUnconnected ==
  process = "crashed" => user = None \/ opened[user] = None

\* Reconnecting does not leak: at most one transport is left for each Sock that
\* was ever made.
OneTransportEach == Cardinality(heap) <= made
-----------------------------------------------------------------------------
\* What TransportKept needs to be inductive: no transport is shared, and new
\* ones are new.
OwnTransports ==
  /\ \A k \in Socks : ip[k] # None => ip[k] \in Nat /\ ip[k] < allocated
  /\ \A j, k \in Socks : j # k /\ ip[j] # None => ip[j] # ip[k]
  /\ \A k \in Socks : opened[k] # None => ip[k] # None

\* What OneTransportEach needs: a Sock that has no transport yet is still owed
\* one, and only a Sock that exists can ask for it.
Unconnected == {k \in Alive : ip[k] = None}

OwedTransports ==
  /\ user # None => user \in Alive
  /\ IsFiniteSet(heap) /\ IsFiniteSet(Unconnected)
  /\ Cardinality(heap) + Cardinality(Unconnected) <= made
=============================================================================
