-------------------------------- MODULE Host --------------------------------
(***************************************************************************)
(* A host over several lives of its process: a program that announces      *)
(* itself through proxies (RemoteDiscoveryProxy), ends or crashes anywhere *)
(* and is started again.  Nothing is stored: the statics of class Wsa are  *)
(* initialized anew, and only the clock tells the lives apart.             *)
(*                                                                         *)
(*   instance  static of Wsa::instanceId, the time of the first call       *)
(*   k         static of Wsa::randUuid                                     *)
(*                                                                         *)
(* The message counter is the proxies'; it wraps at UintMod.               *)
(***************************************************************************)
EXTENDS Wsa, Uuid, Sequences

CONSTANTS
  MaxCalls,   \* bound on the calls of all lives
  MaxLives,   \* bound on the lives
  MaxClock    \* bound on the seconds that pass

ASSUME HostBounds == MaxCalls \in Nat /\ MaxLives \in Nat /\ MaxClock \in Nat

VARIABLES header, messageNumber, uuids, sent   \* see RemoteDiscoveryProxy

VARIABLES
  instance,   \* Wsa::instanceId(), Unset before its first call
  k,          \* the generator's state
  clock,      \* time(nullptr)
  lives,      \* history: for each life, the clock and the ids used at its start
  stamps      \* history: for each message sent, its life, its InstanceId (that
              \* of the sequence a Probe repeats) and the clock

Proxy == INSTANCE RemoteDiscoveryProxy

vars == <<header, messageNumber, uuids, sent, instance, k, clock, lives, stamps>>

Unset == -1

Init ==
  /\ Proxy!Init
  /\ instance = Unset /\ k = Seed
  /\ clock = 0
  /\ lives = <<[start |-> 0, born |-> 0]>> /\ stamps = <<>>

\* A message that left is stamped; one that failed is not.
Stamp(ok) ==
  stamps' = IF ok THEN Append(stamps, [life |-> Len(lives), instance |-> instance',
                                       at |-> clock])
                  ELSE stamps

\* Each call of a proxy makes one id.
Calls == uuids < MaxCalls /\ k' = NextK(k) /\ UNCHANGED <<clock, lives>>

\* Mutant of InstanceId: the time of this call.
InstanceIdNow == clock

\* static uint rv = time(nullptr)
InstanceId == IF instance = Unset THEN clock ELSE instance

\* addAppSequence reads instanceId() before the send may fail.
Announce(ok) ==
  /\ Calls
  /\ Proxy!Hello(ok) \/ Proxy!Bye(ok)
  /\ instance' = InstanceId
  /\ Stamp(ok)

Probe(ok) ==
  /\ Calls
  /\ Proxy!Probe(ok)
  /\ UNCHANGED instance
  /\ Stamp(ok)

Open ==
  /\ Proxy!Open
  /\ UNCHANGED <<instance, k, clock, lives, stamps>>

Tick ==
  /\ clock < MaxClock
  /\ clock' = clock + 1
  /\ UNCHANGED <<header, messageNumber, uuids, sent, instance, k, lives, stamps>>

\* The process ends, however, and another one starts.
Restart ==
  /\ Len(lives) < MaxLives
  /\ header' = NoHeader /\ messageNumber' = 0
  /\ instance' = Unset /\ k' = Seed
  /\ lives' = Append(lives, [start |-> clock, born |-> uuids])
  /\ UNCHANGED <<uuids, sent, clock, stamps>>

Next ==
  \/ \E ok \in BOOLEAN : Announce(ok) \/ Probe(ok)
  \/ Open \/ Tick \/ Restart

Spec == Init /\ [][Next]_vars
-----------------------------------------------------------------------------
Announcements == {"Hello", "Bye"}
Announcement(i) == sent[i].kind \in Announcements

Messages == [kind : Announcements \cup {"Probe"}, id : Nat, relatesTo : {NoId},
             num : 0..(UintMod - 1), cause : {0}]

Lives == [start : Nat, born : Nat]
Stamps == [life : Nat, instance : {Unset} \cup Nat, at : Nat]

TypeOK ==
  /\ messageNumber \in 0..(UintMod - 1) /\ uuids \in Nat
  /\ header \in [id : Nat \cup {NoId}, relatesTo : {NoId}, num : 0..(UintMod - 1)]
  /\ sent \in Seq(Messages)
  /\ instance \in {Unset} \cup Nat /\ clock \in Nat
  /\ lives \in Seq(Lives) /\ stamps \in Seq(Stamps)
  /\ Len(lives) > 0 /\ Len(stamps) = Len(sent)

\* Calls of its life up to and including message i, sent or not.
CallsUpTo(i) == sent[i].id - lives[stamps[i].life].born

\* Within a life an announcement is numbered above every message sent before
\* it, whatever failed in between and although a Probe repeats the sequence of
\* an announcement; and when the counter has wrapped, the distance of two
\* announcements, modulo the width of the counter, is still between one and
\* the calls made in between, if they are fewer than the counter has values.
AnnouncementsAdvance ==
  \A i, j \in 1..Len(sent) :
    i < j /\ stamps[i].life = stamps[j].life /\ Announcement(j) =>
      /\ CallsUpTo(j) < UintMod => sent[i].num < sent[j].num
      /\ LET calls == sent[j].id - sent[i].id IN
           Announcement(i) /\ calls < UintMod =>
             (sent[j].num + UintMod - sent[i].num) % UintMod \in 1..calls

\* All announcements of a life have one InstanceId.  One of a life that was
\* started at least a second after a message of an earlier life has a greater
\* InstanceId than that message: a listener that sorts by InstanceId first, and
\* then by number, has the order of sending across a crash.
LivesOrdered ==
  \A i, j \in 1..Len(sent) :
    Announcement(i) /\ Announcement(j) =>
      /\ stamps[i].life = stamps[j].life => stamps[i].instance = stamps[j].instance
      /\ stamps[i].life < stamps[j].life /\ stamps[i].at < lives[stamps[j].life].start
           => stamps[i].instance < stamps[j].instance

\* The product, the correction and the result of the generator's step are ints,
\* whatever the sign of k, and the result is positive.
GeneratorSound ==
  IsInt(k) /\ IsInt(Product(k)) /\ IsInt(Step(k)) /\ Step(k) > 0
-----------------------------------------------------------------------------
(***************************************************************************)
(* The inductive invariant.                                                *)
(***************************************************************************)
\* What a life began with, and the InstanceIds it has used.
LifeInv ==
  /\ \A l \in 1..Len(lives) : lives[l].start <= clock /\ lives[l].born <= uuids
  /\ instance # Unset => lives[Len(lives)].start <= instance /\ instance <= clock
  /\ \A i \in 1..Len(sent) :
       /\ stamps[i].life \in 1..Len(lives) /\ sent[i].id <= uuids
       /\ Announcement(i) =>
            /\ lives[stamps[i].life].start <= stamps[i].instance
            /\ stamps[i].instance <= stamps[i].at
            /\ stamps[i].life = Len(lives) => stamps[i].instance = instance

\* Steps of the counter from a to b.
Distance(a, b) == IF a <= b THEN b - a ELSE b + UintMod - a

\* Where the counter is, seen from this life's calls and messages.
NumberInv ==
  /\ uuids - lives[Len(lives)].born < UintMod =>
       /\ messageNumber <= uuids - lives[Len(lives)].born
       /\ header.num <= messageNumber
       /\ \A i \in 1..Len(sent) :
            stamps[i].life = Len(lives) => sent[i].num <= messageNumber
  /\ \A i \in 1..Len(sent) :
       stamps[i].life = Len(lives) /\ Announcement(i) =>
         Distance(sent[i].num, messageNumber) <= uuids - sent[i].id

SameInstance ==
  \A i, j \in 1..Len(sent) :
    Announcement(i) /\ Announcement(j) /\ stamps[i].life = stamps[j].life
      => stamps[i].instance = stamps[j].instance

Inv ==
  TypeOK /\ IsInt(k) /\ LifeInv /\ NumberInv /\ SameInstance /\ AnnouncementsAdvance
=============================================================================
