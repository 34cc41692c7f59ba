-------------------------- MODULE DiscoveryTarget --------------------------
(***************************************************************************)
(* What a discovery target promises to whoever listens on the network, in  *)
(* terms of the messages it puts there and of nothing else.  It announces  *)
(* itself once, answers Probes while it is announced, each answer at most  *)
(* twice and in the same words, and takes its leave once; whatever is not  *)
(* a repetition carries a higher number than everything before it.         *)
(***************************************************************************)
EXTENDS Naturals, Sequences

CONSTANT Messages   \* the messages: records with a kind and a num

Numbered == \A m \in Messages : m.num \in Nat

VARIABLE air        \* the messages put on the network, in order

Init == air = <<>>

Last == air[Len(air)]

\* A new message is numbered above the last one, hence above all.
New(m) == air # <<>> => Last.num < m.num

Announce(m) ==
  /\ air = <<>>
  /\ m.kind = "Hello"
  /\ air' = Append(air, m)

Present == air # <<>> /\ Last.kind # "Bye"

Answer(m) ==
  /\ Present
  /\ m.kind = "ProbeMatches" /\ New(m)
  /\ air' = Append(air, m)

\* Once more the last answer, if it has been given only once.
Repeat ==
  /\ Present /\ Last.kind = "ProbeMatches"
  /\ Len(air) > 1 => air[Len(air) - 1] # Last
  /\ air' = Append(air, Last)

Leave(m) ==
  /\ Present
  /\ m.kind = "Bye" /\ New(m)
  /\ air' = Append(air, m)

Next ==
  \/ \E m \in Messages : Announce(m) \/ Answer(m) \/ Leave(m)
  \/ Repeat

Spec == Init /\ [][Next]_air
-----------------------------------------------------------------------------
TypeOK == air \in Seq(Messages)

\* A listener that sorts by number sees the order of sending, and drops only
\* the repetitions: two messages with one number are one message, next to
\* each other.
NumbersOrderMessages ==
  \A i, j \in 1..Len(air) :
    i < j => \/ air[i].num < air[j].num
             \/ j = i + 1 /\ air[i] = air[j]

\* The Hello is the first message and only that, the Bye the last.
HelloFirstByeLast ==
  \A i \in 1..Len(air) :
    /\ air[i].kind = "Hello" <=> i = 1
    /\ air[i].kind = "Bye" => i = Len(air)
=============================================================================
