# onvifxx in TLA+

This directory specifies the WS-Discovery part of onvifxx: the library's
discovery proxy and service (`src/wsdd`), the discovery daemon and the test
program built on them (`src/examples/ws-discovery`, `src/tests`), and the
transport adapter (`src/sock`).  TLC
checks the modules on small instances, TLAPS proves theorems about them for
all values of their constants, and this file says what the results mean.

`PROJECT.json` lists, for every definition that models code, the lines it
stands for; for every hazard the line where it bites and the properties that
watch it.

## 1. The system

### Components

| Component | Code | State | Operations | Module |
|---|---|---|---|---|
| Addressing header, class `Wsa` | `wsdd/wsa.cpp`, `wsa.hpp` | the SOAP header of one gSOAP context; process-wide statics: message counter, instance id, uuid generator | `request`, `addRelatesTo`, `addAppSequence`, `messageNumber`; `randUuid`'s number generator | `Wsa`, `Uuid` |
| Statics of `Wsa` over the lives of a host | `wsdd/wsa.cpp` | message counter, instance id, generator; all of them new in each process | calls, failed sends, crash and restart | `Host` |
| Discovery proxy | `wsdd/remotediscovery_proxy.cpp` | a gSOAP context and its header | construction, `hello`, `bye`, `probe` | `RemoteDiscoveryProxy` |
| Discovery service | `wsdd/remotediscovery_service.cpp`, `include/onvifxx/onvifxx.hpp` | UDP socket, bound user object, header, stage of `serve()` | `bind`, `accept`, `serve`, `dispatch`, `Hello`, `Bye`, `Probe`, `destroy`, destructor | `RemoteDiscoveryService` |
| Converted matches | same, `matches_` | a vector and pointers into it | one conversion for each match of a Probe | `MatchVector` |
| Converted announcements | same, class `Arg`; `Wsa::Request` | none | user's argument to body, body to listener's argument | `Conversions` |
| Daemon | `examples/ws-discovery/wsdd.cpp` | `stopped_`, `ios_`, `work_`, the wait for a signal, two threads | `exec`, `runService`, `signalHandler` | `Wsdd`, over `DiscoveryTarget` |
| Daemon's matching | `Wsdd::probe`, `isMatched` | a local copy of the types | strip the prefixes, compare | `ProbeMatching` |
| Transport adapter | `sock/*.cpp` | ten functions of a gSOAP context, `context->user`, a transport | construct, destroy, connect, close, send, recv | `Sock` |
| Test program | `tests/main.cpp` | a mutex, a listener thread, the listener's object | announce and ask while listening | `TestProgram` |
| Command line, logging, exceptions, `media.hpp`, schemas, build | | none that matters to the order of steps | | no |

### How they interact

```
   peers ---- UDP ----> socket -> serve() -> dispatch() -> Hello/Bye/Probe -> user's object
                          ^                                     |            (Wsdd::probe)
                          +------- the response, twice ---------+
   main thread                                 service thread
   exec(): start thread, ios_.run()            runService():
     signalHandler(): stopped_, ios_.stop() -->  Hello, bind,
   join  <------------------------------------   while (!ios_.stopped()) accept, serve
   assert(stopped_); again while !stopped_       close the service, Bye, work_.reset()
```

The two threads share `ios_`, `work_` and the `Wsdd` object.  In the daemon
the service thread is the only user of the two gSOAP contexts and of the
statics of `Wsa`; both contexts take numbers and ids from these.

In the test program the proxy is on the main thread and the service on another,
so that two threads use these statics at once:

```
   main                                     listener (run())
   lock readyMutex, start the thread  --->  assert(bind(this) != -1)
   lock readyMutex again  <---------------  unlock readyMutex
   hello, bye, probe  --- multicast ----->  100000 times: accept, serve
   join  <--------------------------------  close the service
   unlock, destroy the listener's object
```

### What is hard about it

* A header is edited in place and outlives the call: what a call does not reset
  leaves with the next message (`RelatesTo`, the AppSequence pointer).
* A Probe is answered from inside its handler by two writes, and either may
  fail; the result of `serve()` then tells of an error although a copy is out.
* Numbers and ids are spent before the send that may fail.
* A signal may come at any point of the service thread, which asks only once
  per turn; `SIGHUP` stops the io_service but not the daemon; the wait for a
  signal is not renewed.
* The daemon's own multicasts come back to a socket that is in the group.
* The response to a Probe points into a vector that grows while it is filled.
* Each pointer of an announcement has its own line in two conversions.
* Several Socks on one gSOAP context save each other's functions.
* The message counter is a static without a lock and is returned by reference.
* Nothing survives a restart but the clock, in seconds, and the counter wraps.
* In the test program a mutex is locked by one thread and unlocked by another, a
  throwing send destroys an object under the thread that uses it, and a bind
  stands inside an assertion.
* The generator of uuids works on 32-bit ints from a negative seed.

## 2. The modules

`Wsa` holds the header as a record `[id, relatesTo, num]` and one operator per
method; `num` is the MessageNumber of the AppSequence the header points to.  The
uuid generator is a counter, `uuids`.  Everything that leaves the host is
appended to `sent`, with the history field `cause`: which received datagram
it answers.

`Uuid` is the arithmetic of the generator in the build without OpenSSL: division
that truncates towards zero, the correction, the mask.

`RemoteDiscoveryProxy` has one action per call, each with a send that works or
fails.  It is a component; `Host`, `Wsdd` and `TestProgram` say who calls it, and
when.  `RemoteDiscoveryService` has one action per step of `serve()`
(`phase`: idle, dispatch, respond, fault, then one of the results ok, eof,
failed), because the datagrams of peers and, in the daemon, the signal come
between these steps.  Lost, repeated and reordered datagrams are the choices of
`Arrive`.  `received` and `failed` are history, and so are `asked` and `thrown`: the
Probes an object was asked about, and the requests whose handler it left by
throwing.  Only the service on its own keeps these two.

`Wsdd` composes them: `Proxy` and `Service` are instances, the service thread's
position is `thread`, main's is `main`; each action of the service thread
conjoins one action of an instance with a move of `thread`.  The catch of
`runService` is the move to `"finish"`.  `wait` is the asynchronous wait of the
signal set, started once and never again; `raised` is history, the signals as they
came.  The handler runs inside `ios_.run()`, hence is an action of main.
`Loopback` gives the daemon its own multicast if its socket is in the group.

Whether `BOOST_ASSERT` is compiled in is a variable, `asserts`, chosen at the
beginning from the constant `Builds`.

`Host` is a program that announces itself through one proxy after another, ends
at any point, and is started again.  `instance` and `k` are the statics of
`instanceId()` and `randUuid`, the counter is the proxy's.  `Tick` is a second
that passes, `Restart` gives every static its first value again.  `lives` and
`stamps` are history: when a life began, and under which life, InstanceId and
time each message was sent.

`TestProgram` composes a proxy and a service as two threads of one process.
`++rv; return rv;` is split into a load, a store, and a second load that may
happen or not, because the reference is read by the caller.  The instances get
`mainView` and `listenerView` in the place of `messageNumber`: what each thread
believes the counter to be.  `locked` is `readyMutex`; `turns` counts the loop.
The listener's `probe` has no return statement, so the vector `Probe()` works
with is one that can be served, is too large to reserve room for, or is none
and the process crashes; each is a choice of `HandleProbe`.  The proxy's `probe` has
none either, and main destroys what it left: `SendProbe` may crash.
Without assertions the bind is not made, and `serve()` reads the file descriptor
of a context without a socket, which is standard input: a message
(`ReadStdin`), its end (`StdinEnds`), or nothing, for ever.

`DiscoveryTarget` is the abstract specification: its only variable is what is
on the air.  A target says Hello first, answers with increasing numbers and
repeats an answer at most once, and says Bye last.  `Wsdd` implements it with
`air <- sent`; all else the daemon does is a stuttering step.

`MatchVector` models `matches_` as a size, a capacity and the number of the
buffer it lives in, with the growth of the GNU library.  A pointer of the
response is a buffer and an index.  `ProbeMatching` is the one module with
strings, since positions are what the loop of `Wsdd::probe` may get wrong; its
reference says what a match means in terms of tokens.  What it decides is the list
that `probe()` returns; the service answers with an empty list too.  It has two sorts of
white space, because the code looks for a blank in one place and for any white
space in another.  `Conversions` carries
an announcement or a Probe through both conversions, with each pointer that
may be null.  `Sock` holds the context's functions as one value, since they
are exchanged together; `heap` keeps the transports that are allocated.

Each module ends with its properties; operators that are marked "Mutant of"
are deliberate mistakes, each of which breaks a property, and are no part of
the specification.

## 3. What TLC checks

| Run | Module | Instance | Distinct states | Shows |
|---|---|---|---|---|
| `host_lives` | `Host` | 2 lives, 5 calls, 1 second, a counter of 2 bits | 386 532 | numbers advance within a life, also around the wrap; InstanceIds across lives; the generator's step fits an int |
| `service_replies` | `RemoteDiscoveryService` | 3 datagrams of 5 sorts | 83 648 | answers name their Probe; how many copies left, from what became of the Probe; equal numbers are copies |
| `daemon` | `Wsdd` | 2 datagrams, 2 signals out of `SIGHUP` and `SIGTERM`, with and without assertions, fair | 100 777 | the properties below, and `TargetSpec` |
| `daemon_sighup` | `Wsdd` | 1 datagram | violation | `SIGHUP` fails the assertion behind `join()` |
| `match_vector` | `MatchVector` | 3 matches or none, 4 Probes | 27 881 | the response never dangles, if each Probe has 0 or n matches |
| `match_scopes` | `MatchVector` | one match or none | violation | scopes of a match point into a destroyed temporary |
| `match_growth` | `MatchVector` | one match, then two | violation | the vector moves under a response |
| `probe_matching` | `ProbeMatching` | 6 characters of 5 sorts | 274 520 | stripping keeps the names, but for those a tab costs; a Probe that asks for the daemon gets its match; the loop ends |
| `conversions` | `Conversions` | 2 texts, 2 versions | 48 447 | a listener is told what was said, port types aside |
| `port_type` | `Conversions` | the same | violation | a port type is heard as the address |
| `sock_adapter` | `Sock` | 3 Socks in 2 places, 4 transports | 19 544 | the functions go back; transports are kept, and replaced without leaking |
| `test_program` | `TestProgram` | 2 datagrams, 3 turns, with and without assertions, fair | 309 378 | main announces to a listener that listens; what a race does to the numbers; the object outlives the listener; the process ends, or its listener reads standard input for ever |

The daemon's safety properties are, in words: no thread outlives `exec()`
(`NoThreadOutlivesExec`); the loop ends by a signal, or never began because
Hello failed (`LoopEndsOnlyBySignal`); the daemon never handles its own
announcements (`NoSelfDelivery`); a peer's announcement makes it send nothing
(`AnnouncementsStaySilent`); answers name their Probe (`AnswersCorrelate`); a
listener may sort by number (`NumbersOrderMessages`) and sees Hello first and
Bye last (`HelloFirstByeLast`); of several signals the first decides, and `exec()`
returns only if that is one that stops the daemon (`FirstSignalDecides`), so that
a `SIGTERM` after a `SIGHUP` is lost.  Its liveness: a first signal
other than `SIGHUP` makes `exec()` return (`SignalEndsProcess`), a Bye follows
unless its send fails (`ByeFollowsStop`), a Probe that was taken is answered
twice or ends in an error (`ProbesAreServed`), and datagrams do not stay in the
socket, but are served or go with it (`InboxDrained`).

`service_replies` counts copies (`OutcomeTellsCopies`).  A Probe that an object was
asked about has two if it was served without an error and at most one if a send
failed; none has left if the object threw, and none for anything else, a Probe
without an object included.

`probe_matching` is about the list that `Wsdd::probe` returns
(`MatchesWhatIsAsked`): it holds the daemon's match for the Probes that ask for it,
tabs aside, and is empty for all others.  An empty list is answered all the same:
`Probe()` writes its two ProbeMatches without a look at their number, which
`OutcomeTellsCopies` and `ProbesAreServed` say of every Probe.

`host_lives` makes precise what a listener may rely on.  Within a life every
announcement is numbered above all before it, and beyond the wrap the distance
of two, modulo the width, is at least one and at most the calls in between
(`AnnouncementsAdvance`).  All announcements of a life have one InstanceId, and a
life that began a second after a message has a greater one (`LivesOrdered`).
Within the same second two lives may share an InstanceId and number their
messages alike; the property does not exclude it, because the code does not.

`test_program` says of the race: if no two increments overlap, different
messages have different numbers, and whatever overlaps, Bye is not numbered
below Hello (`NumbersTellMessages`).  With assertions main announces only to a
listener that is in the group (`ListensWhenTold`); without them the bind is not
made at all, and main announces to nobody.  The listener's object is
destroyed under a running listener only if a send threw
(`ObjectOutlivesListener`), which then does happen.  Once the listener is started the
process ends, by a return, an assertion or a crash, with one exception
(`RunEnds`): without assertions there is no socket, and the listener may wait for
standard input for ever, and main for the listener.

### Bounds, and why they are enough

* Two datagrams let one be in the handler while the other is queued, and let a
  header, a number or a failure of the first meet the second.  The service
  alone gets three, so that an answer has one before and one after it.  The
  five sorts are a Probe with a MessageID, one without that brings a RelatesTo
  of its own, an announcement, an unknown operation, and one that is no
  envelope: one for each path of `serve()` and `dispatch()`.
* Two signals (`MaxSignals`) are one the daemon reacts to and one that finds no
  handler; two sorts are told apart by the code.
* Five calls over two lives are announcements before and after a restart, with
  failures and Probes between them; a counter of two bits wraps within them.
  One second lets a life begin in the second of the last one, or after it.
* Three turns of the test program's loop, for 100000 in the code, let a datagram
  be served, another arrive meanwhile, and the loop end before main is through.
  Three datagrams and four turns were tried too and show nothing else.
* Four Probes of three matches make the vector fill, double and be reserved
  again; one and two matches suffice for the violation.
* Six characters of two letters, colon, blank and tab hold two prefixed names, empty names, doubled separators and
  a colon or space at either end.
* Two texts show when one member takes another's place.
* Two places for Socks allow one to be made while another exists, and the third
  Sock is one after a destroyed one.

`UintMod` is the width of the message counter, 2^32 in the code.  `Wsdd`,
`TestProgram` and the service assume `MaxArrivals + 2 < UintMod`, that is, no wrap;
`Host` does not.

### Fairness

`Wsdd` assumes weak fairness of each thread: the operating system schedules
both, and every operation the service thread may block in has a timeout
(`remotediscovery_service.cpp:68-70`, five seconds to accept, send and receive),
so that `serve()` without a datagram ends as `ReceiveTimeout`.  Nothing is
assumed of peers and of signals.  A send or a bind may fail, or succeed, every
time.  Main waits in `run()` or `join()` when no action of it is enabled.
`TestProgram` assumes the same of its two threads, until the process has ended, but
nothing of standard input: reading it is outside the fair action, since no timeout
bounds it.  `RemoteDiscoveryService` on its own assumes nothing; that `serve()`
returns is what the timeouts, hence the fairness of the daemon, stand for, and no
property claims to show it.  `ProbeMatching` is a sequential function that goes on.

`CHECK_DEADLOCK FALSE` stands where the modelled program ends: the bounded
sequences of Probes, conversions, matching, and an adapter that has aborted.
The daemon and the test program have an action `Over` for their end, so a
deadlock of their two threads would be found.

### Disagreements found

* `daemon_sighup`: `signalHandler` clears `stopped_` for `SIGHUP` and stops the
  io_service all the same, so `BOOST_ASSERT(stopped_)` in `exec()` fails.  In a
  build without assertions `exec()` goes round its loop with an io_service that
  is never reset, and a service thread that has ended.  `daemon` shows that other
  signals behave.
* `match_scopes`: `push_back(Wsa::Request(...))` copies pointers to members of
  the temporary.
* `match_growth`: `matches_` is never cleared, so `reserve(items.size())` does
  not make room, and growth inside the loop leaves pointers behind.
* `port_type`: `Arg` stores the port type in `address`.

## 4. What is proved

`WsddProofs`, about the whole daemon, for any set of peers' datagrams, any bound
on them, any set of signals with `SIGHUP`, with and without assertions:

* `Invariance`: `Spec => []Inv`.  `Inv` is the conjunction of
  `TypeOK`;
  `ControlInv` (how the threads wait for each other, and what the place of the
  service thread says of socket and queue);
  `LifeInv` (what the place says of the messages sent: none before Hello, some
  and no Bye while serving, a Bye after);
  `NumberInv` (ids and numbers advance together, at most one per datagram, two
  for the announcements, and the last message is not ahead of them);
  `ResponseInv` (the header while a request is handled); and
  `AnswersCorrelate`.
  The parts are needed because the properties are about what was sent, while
  the steps depend on what is in progress: that a second copy equals the first
  follows only if the header has been left alone between them, and that Bye
  has the highest number only if numbers never fall behind the log.
* `TypeTheorem`, `JoinTheorem`, `LoopTheorem`, `CorrelationTheorem`:
  the properties that follow from `Inv`.
* `StopTheorem`: `FirstSignalDecides`, from `SignalInv`, which follows the first
  signal from the wait it completes to `stopped_` and to the end of `exec()`.
* `SilenceTheorem` and `StrangersTheorem`: `AnnouncementsStaySilent` and
  `NoSelfDelivery`.  The first has an invariant of its own, `SilenceInv`: neither
  the fault under way nor any handler that failed belongs to an announcement.
  The second holds if ids differ between hosts (`IdsAssumption`).
* `Refinement`: `Spec => TargetSpec`.  Initial states map to the empty air; a
  step that sends maps to `Announce`, `Answer`, `Repeat` or `Leave`, and all
  others stutter.
* `ListenerTheorem` and `LifeTheorem`: `NumbersOrderMessages` and
  `HelloFirstByeLast` of the daemon, from `Refinement` and the theorems about
  the abstract target.
* `Typing`, `OrderTheorem` and `FrameTheorem` are those theorems: of any history of
  messages that `TargetSpec` allows, whoever produces it.

`ConversionsProofs`: `HeardTheorem`, for all texts, versions and pointers.

`HostProofs` has two parts.  About every 32-bit int: the products, the difference and
the result of the generator's step are ints, and the result is positive (`Fits`); what
it keeps is an int again (`Stays`); truncating division with the correction is 16807 * k modulo 2^31 - 1
(`MinimalStandard`).  And for any number of lives, calls and seconds and any width
of the counter: `HostTypes`, `NumbersAdvance`, `InstancesOrdered` and
`GeneratorSafe`, from `Invariance`.  The invariant adds to the properties what a
life began with (`LifeInv`: its start is not after its InstanceId, which is not
after its messages) and where the counter is (`NumberInv`).  The latter is stated
twice because the counter wraps: while a life has made fewer calls than the
counter has values, no message of it is ahead of the counter; and always, the
steps from the number of an announcement to the counter (`Distance`) are at most
the calls since.  Both are needed, since the first is lost at the wrap and the
second alone does not order numbers.

`RemoteDiscoveryServiceProofs`, about the service without the daemon, for any
datagrams and any bound on them, whoever owns the object and whatever fails:
`ServiceTypes`, `ServiceCorrelates`, `OutcomeTheorem` and `CopiesTheorem`, from
`Invariance`.  The invariant (end of `RemoteDiscoveryService`) adds to the
properties: that ids and numbers advance together and behind the datagrams
(`LogInv`); that the header, once a Probe's handler has run, is the one every copy
for this Probe has, while all other answers are numbered lower (`HandlingInv`); and
how many copies are out in the phases that have no result yet, with what the
histories say of the request at hand (`CountInv`).
Without the last one `OutcomeTellsCopies` is not inductive, since it speaks of
finished datagrams, and what makes it true happens before they finish.

`MatchVectorProofs`: `VectorTypes`, and `ResponseTheorem`, for every n, if each Probe
has n matches or none (the daemon's have one or none): no response dangles.  `RoomInv` says why.  The capacity,
and the size when a Probe comes, are multiples of n, and growth by doubling
keeps that so; a vector that is not full thus has room for all n
matches, and one that is full moves at the first match, when the response is
still empty.  The run `match_growth` shows that the hypothesis is needed.

`SockProofs`: `ContextTheorem`, for any Socks in a build with assertions; and, with
or without them, `KeptTheorem`, `ConnectedTheorem`, `SockTypes` and `LeakTheorem`.
`OwnTransports` says that no two Socks share a transport and that a new one is new,
without which to close one could shut another's.  For the leak it is not enough
to count the heap, because a `connect()` adds to it: `OwedTransports` counts
each Sock without a transport as one still to come, so that construction pays for
the first `connect()`, and any later one deletes what it replaces.

`TestProgramProofs`, for any datagrams and turns.  `ListeningTheorem` and
`ObjectTheorem` come from an invariant of three parts: whose the mutex is
(`LockInv`), what the listener has bound (`HeardInv`), and how main left its
block (`BlockInv`).  `NumbersTheorem` is about the race on the message counter,
and its invariant has three parts too, beside the shapes of the data.
`CountInv` bounds every number in the program, those in the threads' views
included, by the stores the two threads have had reason to make.  `UniqueInv`
says that while no increments have overlapped a number that is stored is above
all that were sent.  `OrderInv` is about Hello and Bye, and holds
whatever overlaps: main is inside an increment only for these two messages, so
until it stores Hello's number the listener's view cannot be stale, and from then
on it is stale by at most one; a listener that stores such a view brings the
counter down to Hello's number and no further, and Bye starts from there.
`ProgramTypes` completes it.

`ProbeMatchingProofs`, for types of every length over any letters: `StrippingTheorem`
(the loop that erases prefixes in place keeps the names), `MatchTheorem` (what the
list that is returned says of what was asked) and `MatchingTypes`.  The three properties are
inductive together; the work is in the lemmas.  A name is known by
the place where it stands (`KeptAt`: marks around it, none within, and no colon
behind it before the next space), and `KeptNamesProperties` shows that what
stands in these places is what the reference definition yields.  A turn of the loop
is a cut (`Cuts`, `StripProperties`); names in front of it keep their places, those
behind it move by its length, and none overlaps it (`KeptInFront`,
`KeptBehind`, `KeptApart`).  Once no colon is left the names are the tokens that
are compared (`KeptAreTokens`), each is the local name of a token of what was received
(`KeptIsLocal`), and a local name that is lost has a tab and then a prefix
behind it (`LostBehindTab`).  Greatest positions exist because inclusion is well-founded on
the finite sets, a fact of the library, so that no induction is needed.

Assumptions are those of the modules: datagrams have natural numbers, the counter
does not wrap (but for `Host`), the ids of peers are not the daemon's, the
strings for the state of a wait are no signals, a null pointer is no value, a
letter is neither a colon nor white space, and the daemon's own type is one name
of letters ("NetworkVideoTransmitter" in the code).
TLC evaluates them in every run.

Every inductive invariant was checked by TLC, on the instance of its component's
run, before it was proved; `OwnTransports` and `OwedTransports` on a build without
assertions as well.

Only model-checked: liveness, since fairness and ENABLED are out of the prover's
reach (`ProbesAreServed`, `SignalEndsProcess` and the like).  Every safety property of
the passing runs, and the refinement, is also a theorem.

## 5. What is assumed, and what is left out

* Ids from `randUuid` are fresh.  `Uuid` models its number generator only: from
  its seed that has a tail of 15646 values and a period of 6723, and it starts
  anew in each process, so freshness rests on the time, on `rand()` and on
  whatever the buffer holds, which are not modelled.  The sum of the generator's
  step with four bytes of that buffer (`wsa.cpp:90`) is not modelled either, and may
  well overflow an int; no property or theorem is about it.
* A message that dispatch accepts has a SOAP header; a Probe without any would
  make `Probe()` read a null pointer.
* `allocHeader` does not run out of memory, nor does a `matches_` that grows for
  the life of the service.
* `Wsa::addAppSequence` and the proxy's `probe` end without a return statement.
  No modelled state depends on the first result, and the model returns from the
  call.  Of the second `Host` takes the messages; in `TestProgram` the caller may
  crash over it.
* `addFrom`, `addReplyTo`, `addFaultTo` and `addNoReply` have no callers.
* gSOAP is external: `soap_begin_serve` gives the header of the datagram to the
  context, a fault is sent after a handler's error, and whether that works does
  not change the result of `serve()`.  The contents of faults are left out.
* When the bind fails, the daemon turns around `accept()` without a pause; when
  Hello fails it stays alive without a service.  Both are modelled as they are
  and no property calls them wrong.
* A Probe that matches nothing gets two ProbeMatches that hold nothing, where a prober
  may expect silence.  It is modelled as it is, and no property calls it wrong.
* `MatchVector` takes the growth of the GNU library; another may reallocate at
  other sizes, and `match_growth` would then need other numbers of matches.
* The code strips prefixes at blanks (`rfind(' ', ...)`) and splits at any white
  space (`boost::is_space`), so a list of types separated by tabs loses the
  names in front of its last prefix; `StrippingKeepsNames` and
  `MatchesWhatIsAsked` say exactly which.  The tab stands for every white space but
  the blank.  Rules to match scopes (`MatchBy`) are not looked at by the code.
* In `Sock` a `recv()` that works returns 0 and not a count, `https` gets a plain
  `Tcp`, and the destructor leaves the transport allocated: none of these is a
  property of order, and the model keeps the last one.  Of the assertions in the
  constructor only those that another Sock could fail are kept.
* The fork in `daemon(0, 0)` and the option parser are left out, and so is
  logging: `Log` buffers a line in an object both threads may use without a lock,
  and `LOG_E` and `LOG_W` cast the buffer of `clog`, which is a `Log` only in a
  process started without `-D`.  The daemon is modelled as started without it.
* After `SIGHUP` without assertions `exec()` goes round for ever; the model has the
  loop, and of `SIGHUP` `SignalEndsProcess` says no more than that.
* Most source lines the map leaves out are commented-out code: all of
  `remotediscovery_proxy.cpp` from line 118, of `remotediscovery_service.cpp` from
  line 261, and much of `wsa.cpp`.

## 6. Plan

Done: `Wsa`, `Uuid`, `RemoteDiscoveryProxy`, `Host`, `RemoteDiscoveryService`,
`Wsdd`, `DiscoveryTarget`, `MatchVector`, `ProbeMatching`, `Conversions`, `Sock`,
`TestProgram`, and the proofs of section 4.

Left, in this order:

1. `Discovery`: several hosts and a listener that orders by InstanceId and
   message number over a network that loses, repeats and reorders; uses
   `DiscoveryTarget` for each life.
2. Logging, as a buffer shared by two threads.
