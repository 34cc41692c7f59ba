----------------------------- MODULE HostProofs -----------------------------
(***************************************************************************)
(* The numbering of a host's messages over any number of lives, calls and  *)
(* seconds, and for a counter of any width.  Inv is inductive; the         *)
(* properties the run checks follow from it.  The generator comes first.   *)
(***************************************************************************)
EXTENDS Host, TLAPS

(***************************************************************************)
(* The generator of Wsa::randUuid (module Uuid) computes what it is meant  *)
(* to, 16807 * n modulo 2^31 - 1, for every int, and its products, their   *)
(* difference and its result are ints.                                     *)
(***************************************************************************)
\* Truncating division leaves a remainder of the sign of n.
LEMMA Division ==
  ASSUME NEW n, IsInt(n)
  PROVE  /\ Quot(n) \in Int /\ Rem(n) \in Int /\ n = 127773 * Quot(n) + Rem(n)
         /\ n >= 0 => /\ 0 <= Quot(n) /\ Quot(n) <= 16807
                      /\ 0 <= Rem(n) /\ Rem(n) <= 127772
         /\ n < 0 => /\ -16807 <= Quot(n) /\ Quot(n) <= 0
                     /\ -127772 <= Rem(n) /\ Rem(n) <= 0
BY SMT DEF Quot, Rem, IsInt, MaxInt

\* Neither product nor their difference overflows, and the result is a
\* positive int: for the seed, and for every n that is left of an earlier call.
THEOREM Fits ==
  ASSUME NEW n, IsInt(n)
  PROVE  /\ IsInt(16807 * Rem(n)) /\ IsInt(2836 * Quot(n))
         /\ IsInt(Product(n)) /\ -MaxInt < Product(n) /\ Product(n) < MaxInt
         /\ IsInt(Step(n)) /\ Step(n) > 0
<1>1. /\ IsInt(16807 * Rem(n)) /\ IsInt(2836 * Quot(n))
      /\ IsInt(Product(n)) /\ -MaxInt < Product(n) /\ Product(n) < MaxInt
  BY Division, SMT DEF Product, IsInt, MaxInt
<1> QED
  BY <1>1, SMT DEF Step, IsInt, MaxInt

\* What is kept of it for the next call is an int again, and not negative.
THEOREM Stays ==
  ASSUME NEW n, IsInt(n)
  PROVE  IsInt(NextK(n)) /\ NextK(n) >= 0 /\ NextK(n) < 268435456
BY Fits, SMT DEF NextK, Masked, IsInt, MaxInt

\* The value is that of the minimal standard generator, for every n it has a
\* value for.  (For the other three it is 2^31 - 1, so that no n is stuck.)
THEOREM MinimalStandard ==
  ASSUME NEW n, IsInt(n), n # 0, n # MaxInt, n # -MaxInt
  PROVE  Step(n) = (16807 * n) % MaxInt
<1> DEFINE q == Quot(n)
           r == Rem(n)
           p == Product(n)
<1>1. /\ q \in Int /\ r \in Int /\ n = 127773 * q + r /\ n \in Int
      /\ -16807 <= q /\ q <= 16807 /\ -127772 <= r /\ r <= 127772
      /\ -MaxInt < n /\ n < MaxInt
  BY Division, SMT DEF IsInt, MaxInt
<1>2. /\ p \in Int /\ -MaxInt < p /\ p < MaxInt
      /\ p = 16807 * r - 2836 * q
  BY Fits, SMT DEF Product, IsInt
<1>3. Step(n) = IF p <= 0 THEN p + MaxInt ELSE p
  BY SMT DEF Step
<1> HIDE DEF q, r, p
<1>4. 16807 * n = MaxInt * q + p
  BY <1>1, <1>2, SMT DEF MaxInt
<1>5. p # 0
  BY <1>1, <1>2, SMT DEF MaxInt
<1> QED
  BY <1>1, <1>2, <1>3, <1>4, <1>5, SMT DEF MaxInt
-----------------------------------------------------------------------------

\* The counter goes up by one, or from its last value to zero.
LEMMA Increment ==
  ASSUME NEW n \in 0..(UintMod - 1)
  PROVE  /\ NextNumber(n) \in 0..(UintMod - 1)
         /\ n < UintMod - 1 => NextNumber(n) = n + 1
         /\ n = UintMod - 1 => NextNumber(n) = 0
<1>1. UintMod \in Nat \ {0} /\ n \in Nat /\ n + 1 <= UintMod
  BY UintModAssumption
<1>2. CASE n + 1 < UintMod
  BY <1>1, <1>2 DEF NextNumber
<1>3. CASE n + 1 = UintMod
  BY <1>1, <1>3 DEF NextNumber
<1> QED
  BY <1>1, <1>2, <1>3

\* The steps from one number to another, by the remainder and by cases.
LEMMA Remainder ==
  ASSUME NEW a \in 0..(UintMod - 1), NEW b \in 0..(UintMod - 1)
  PROVE  (b + UintMod - a) % UintMod = Distance(a, b)
<1>1. UintMod \in Nat \ {0} /\ a \in Nat /\ b \in Nat /\ a < UintMod /\ b < UintMod
  BY UintModAssumption
<1>2. CASE a <= b
  <2>1. b - a \in 0..(UintMod - 1) /\ b + UintMod - a = (b - a) + UintMod
    BY <1>1, <1>2
  <2>2. ((b - a) + UintMod) % UintMod = b - a
    BY <1>1, <2>1
  <2> QED
    BY <1>2, <2>1, <2>2 DEF Distance
<1>3. CASE a > b
  <2>1. b + UintMod - a \in 0..(UintMod - 1)
    BY <1>1, <1>3
  <2>2. (b + UintMod - a) % UintMod = b + UintMod - a
    BY <1>1, <2>1
  <2> QED
    BY <1>1, <1>3, <2>2 DEF Distance
<1> QED
  BY <1>1, <1>2, <1>3

\* One more step lengthens the distance by one, unless it has gone all round.
LEMMA OneFurther ==
  ASSUME NEW a \in 0..(UintMod - 1), NEW n \in 0..(UintMod - 1)
  PROVE  /\ Distance(a, n) \in 0..(UintMod - 1)
         /\ Distance(a, NextNumber(n)) \in 0..(Distance(a, n) + 1)
         /\ Distance(a, n) < UintMod - 1
              => Distance(a, NextNumber(n)) = Distance(a, n) + 1
BY Increment, UintModAssumption DEF Distance

\* One step more for one call more, while the calls are fewer than the numbers.
LEMMA CallsCounted ==
  ASSUME NEW calls \in Nat, NEW id \in Nat, NEW d \in Nat, NEW e,
         d <= calls - id, calls + 1 - id < UintMod, d < UintMod - 1 => e = d + 1
  PROVE  e \in 1..(calls + 1 - id)
BY UintModAssumption

\* The host starts within the invariant.
LEMMA InvInit == Init => Inv
<1> SUFFICES ASSUME Init PROVE Inv
  OBVIOUS
<1> USE DEF Init, Proxy!Init, NoHeader, Proxy!NoHeader, Unset
<1>1. TypeOK
  BY UintModAssumption DEF TypeOK, Messages, Lives, Stamps
<1>2. IsInt(k)
  BY SMT DEF Seed, IsInt, MaxInt
<1>3. LifeInv /\ NumberInv
  BY UintModAssumption DEF LifeInv, NumberInv
<1>4. SameInstance /\ AnnouncementsAdvance
  BY DEF SameInstance, AnnouncementsAdvance
<1> QED
  BY <1>1, <1>2, <1>3, <1>4 DEF Inv

\* What the types say of one message and its stamp.
LEMMA Elements ==
  ASSUME TypeOK
  PROVE  /\ Len(sent) \in Nat /\ Len(stamps) = Len(sent) /\ Len(lives) \in Nat \ {0}
         /\ \A i \in 1..Len(sent) :
              /\ sent[i].id \in Nat /\ sent[i].num \in 0..(UintMod - 1)
              /\ stamps[i].life \in Nat /\ stamps[i].at \in Nat
              /\ stamps[i].instance \in {Unset} \cup Nat
         /\ \A l \in 1..Len(lives) : lives[l].start \in Nat /\ lives[l].born \in Nat
<1>1. /\ sent \in Seq(Messages) /\ lives \in Seq(Lives) /\ stamps \in Seq(Stamps)
      /\ Len(lives) > 0 /\ Len(stamps) = Len(sent)
  BY DEF TypeOK
<1>2. Len(sent) \in Nat /\ Len(lives) \in Nat \ {0}
  BY <1>1
<1>3. ASSUME NEW i \in 1..Len(sent)
      PROVE  sent[i].id \in Nat /\ sent[i].num \in 0..(UintMod - 1)
  <2>1. sent[i] \in Messages
    BY <1>1, <1>3
  <2> QED
    BY <2>1 DEF Messages
<1>4. ASSUME NEW i \in 1..Len(sent)
      PROVE  /\ stamps[i].life \in Nat /\ stamps[i].at \in Nat
             /\ stamps[i].instance \in {Unset} \cup Nat
  <2>1. stamps[i] \in Stamps
    BY <1>1, <1>4
  <2> QED
    BY <2>1 DEF Stamps
<1>5. ASSUME NEW l \in 1..Len(lives)
      PROVE  lives[l].start \in Nat /\ lives[l].born \in Nat
  <2>1. lives[l] \in Lives
    BY <1>1, <1>5
  <2> QED
    BY <2>1 DEF Lives
<1> QED
  BY <1>1, <1>2, <1>3, <1>4, <1>5

\* The message of a call: a new id, and the number the header then has.
CallMade(kind, ok) ==
  LET m == [kind |-> kind, id |-> uuids + 1, relatesTo |-> NoId,
            num |-> header'.num, cause |-> 0]
      s == [life |-> Len(lives), instance |-> instance', at |-> clock]
  IN  /\ uuids' = uuids + 1
      /\ header' = [id |-> uuids + 1, relatesTo |-> NoId, num |-> header'.num]
      /\ sent' = IF ok THEN Append(sent, m) ELSE sent
      /\ stamps' = IF ok THEN Append(stamps, s) ELSE stamps
      /\ k' = NextK(k) /\ UNCHANGED <<clock, lives>>

\* An announcement's number is the counter's next, its instance that of the life.
LEMMA AnnounceFacts ==
  ASSUME TypeOK, NEW ok \in BOOLEAN, Announce(ok)
  PROVE  /\ \E kind \in Announcements : CallMade(kind, ok)
         /\ messageNumber' = NextNumber(messageNumber) /\ header'.num = messageNumber'
         /\ instance' = InstanceId
<1> USE DEF Announce, Calls, Stamp, TypeOK, CallMade, Announcements,
            Proxy!Announce, Proxy!Send, Proxy!Request, Proxy!AddAppSequence,
            Proxy!Message, Proxy!NextNumber, NextNumber
<1>1. CASE Proxy!Hello(ok)
  BY <1>1 DEF Proxy!Hello
<1>2. CASE Proxy!Bye(ok)
  BY <1>2 DEF Proxy!Bye
<1> QED
  BY <1>1, <1>2

\* A Probe repeats the number of the header it finds.
LEMMA ProbeFacts ==
  ASSUME TypeOK, NEW ok \in BOOLEAN, Probe(ok)
  PROVE  /\ CallMade("Probe", ok) /\ header'.num = header.num
         /\ UNCHANGED <<messageNumber, instance>>
BY DEF Probe, Calls, Stamp, TypeOK, CallMade,
       Proxy!Probe, Proxy!Send, Proxy!Request, Proxy!Message

\* A call keeps the log and adds at most one message, its own.
LEMMA LogStep ==
  ASSUME TypeOK, NEW kind \in Announcements \cup {"Probe"}, NEW ok \in BOOLEAN,
         CallMade(kind, ok), header'.num \in 0..(UintMod - 1),
         instance' \in {Unset} \cup Nat
  PROVE  /\ sent' \in Seq(Messages)
         /\ stamps' \in Seq(Stamps)
         /\ Len(stamps') = Len(sent')
         /\ \A i \in 1..Len(sent) : sent'[i] = sent[i] /\ stamps'[i] = stamps[i]
         /\ \/ ~ok /\ Len(sent') = Len(sent)
            \/ /\ ok /\ Len(sent') = Len(sent) + 1
               /\ sent'[Len(sent')].kind = kind /\ sent'[Len(sent')].id = uuids + 1
               /\ sent'[Len(sent')].num = header'.num
               /\ stamps'[Len(sent')].life = Len(lives)
               /\ stamps'[Len(sent')].instance = instance'
               /\ stamps'[Len(sent')].at = clock
<1> DEFINE m == [kind |-> kind, id |-> uuids + 1, relatesTo |-> NoId,
                 num |-> header'.num, cause |-> 0]
           s == [life |-> Len(lives), instance |-> instance', at |-> clock]
<1>1. m \in Messages /\ s \in Stamps
  BY DEF TypeOK, Messages, Stamps
<1>2. /\ sent' = IF ok THEN Append(sent, m) ELSE sent
      /\ stamps' = IF ok THEN Append(stamps, s) ELSE stamps
      /\ sent \in Seq(Messages) /\ stamps \in Seq(Stamps) /\ Len(stamps) = Len(sent)
  BY DEF CallMade, TypeOK
<1>3. /\ m.kind = kind /\ m.id = uuids + 1 /\ m.num = header'.num
      /\ s.life = Len(lives) /\ s.instance = instance' /\ s.at = clock
  OBVIOUS
<1> HIDE DEF m, s
<1>4. CASE ok
  BY <1>1, <1>2, <1>3, <1>4
<1>5. CASE ~ok
  BY <1>2, <1>5
<1> QED
  BY <1>4, <1>5

\* What a call leaves, message by message: the old ones, and perhaps its own.
LEMMA MessagesAfter ==
  ASSUME TypeOK, NEW kind \in Announcements \cup {"Probe"}, NEW ok \in BOOLEAN,
         CallMade(kind, ok), header'.num \in 0..(UintMod - 1),
         instance' \in {Unset} \cup Nat
  PROVE  /\ Len(sent) \in Nat /\ Len(sent') \in Nat
         /\ \A i \in 1..Len(sent) :
              i \in 1..Len(sent') /\ sent'[i] = sent[i] /\ stamps'[i] = stamps[i]
         /\ \A i \in 1..Len(sent') :
              \/ i \in 1..Len(sent)
              \/ /\ i = Len(sent) + 1
                 /\ sent'[i].kind = kind /\ sent'[i].id = uuids + 1
                 /\ sent'[i].num = header'.num
                 /\ stamps'[i].life = Len(lives) /\ stamps'[i].instance = instance'
                 /\ stamps'[i].at = clock
<1>1. Len(sent) \in Nat
  BY Elements
<1> QED
  BY <1>1, LogStep

\* An announcement, sent or not, preserves the invariant.
LEMMA AnnounceStep ==
  ASSUME Inv, NEW ok \in BOOLEAN, Announce(ok)
  PROVE  Inv'
<1>1. PICK kind \in Announcements : CallMade(kind, ok)
  BY AnnounceFacts DEF Inv
<1>2. /\ messageNumber' = NextNumber(messageNumber) /\ header'.num = messageNumber'
      /\ instance' = InstanceId
  BY AnnounceFacts DEF Inv
<1>3. /\ messageNumber \in 0..(UintMod - 1) /\ messageNumber' \in 0..(UintMod - 1)
      /\ messageNumber < UintMod - 1 => messageNumber' = messageNumber + 1
  BY <1>2, Increment DEF Inv, TypeOK
<1>4. instance \in {Unset} \cup Nat /\ clock \in Nat /\ instance' \in Nat /\ instance' # Unset
  BY <1>2 DEF Inv, TypeOK, InstanceId, Unset
<1>5. /\ uuids \in Nat /\ uuids' = uuids + 1 /\ clock' = clock /\ lives' = lives
      /\ k' = NextK(k)
      /\ header' = [id |-> uuids + 1, relatesTo |-> NoId, num |-> messageNumber']
  BY <1>1, <1>2 DEF CallMade, Inv, TypeOK
<1>c. uuids \in Nat /\ uuids' = uuids + 1 /\ lives' = lives
  BY <1>5
<1>6. TypeOK'
  <2>1. /\ sent' \in Seq(Messages) /\ stamps' \in Seq(Stamps)
        /\ Len(stamps') = Len(sent')
    BY <1>1, <1>2, <1>3, <1>4, LogStep DEF Inv
  <2> QED
    BY <2>1, <1>3, <1>4, <1>5 DEF Inv, TypeOK
<1>7. IsInt(k')
  BY <1>5, Stays DEF Inv
<1> DEFINE n == Len(sent)
           life == Len(lives)
<1>8. /\ n \in Nat /\ Len(sent') \in Nat
      /\ \A i \in 1..Len(sent') : i \in 1..n \/ i = n + 1
  BY <1>1, <1>2, <1>3, <1>4, MessagesAfter DEF Inv
<1>a. \A i \in 1..n : sent'[i] = sent[i] /\ stamps'[i] = stamps[i]
  BY <1>1, <1>2, <1>3, <1>4, MessagesAfter DEF Inv
<1>b. n + 1 \in 1..Len(sent') =>
        /\ sent'[n + 1].kind = kind /\ sent'[n + 1].id = uuids + 1
        /\ sent'[n + 1].num = messageNumber' /\ stamps'[n + 1].life = life
        /\ stamps'[n + 1].instance = instance' /\ stamps'[n + 1].at = clock
  <2>1. n \in Nat /\ n + 1 \notin 1..n
    BY <1>8
  <2> QED
    BY <2>1, <1>1, <1>2, <1>3, <1>4, MessagesAfter DEF Inv
<1>9. /\ life \in Nat \ {0} /\ life \in 1..life
      /\ \A l \in 1..life : lives[l].start \in Nat /\ lives[l].born \in Nat
      /\ \A i \in 1..n :
           /\ sent[i].id \in Nat /\ sent[i].num \in 0..(UintMod - 1)
           /\ stamps[i].life \in Nat /\ stamps[i].at \in Nat
           /\ stamps[i].instance \in {Unset} \cup Nat
  BY Elements DEF Inv
<1>10. \A l \in 1..life : lives[l].start <= clock /\ lives[l].born <= uuids
  BY DEF Inv, LifeInv
<1>11. lives[life].start <= instance' /\ instance' <= clock
  BY <1>2, <1>4, <1>9, <1>10 DEF InstanceId, Inv, LifeInv
<1>12. \A i \in 1..n :
         Announcement(i) => (stamps[i].life = life => instance' = stamps[i].instance)
  BY <1>2, <1>9 DEF InstanceId, Inv, LifeInv, Unset
<1>13. LifeInv'
  <2>1. \A l \in 1..life : lives[l].start <= clock /\ lives[l].born <= uuids'
    BY <1>5, <1>9, <1>10
  <2>2. ASSUME NEW i \in 1..Len(sent')
        PROVE  /\ stamps'[i].life \in 1..life /\ sent'[i].id <= uuids'
               /\ Announcement(i)' =>
                    /\ lives[stamps'[i].life].start <= stamps'[i].instance
                    /\ stamps'[i].instance <= stamps'[i].at
                    /\ stamps'[i].life = life => stamps'[i].instance = instance'
    <3>1. CASE i \in 1..n
      <4>1. sent'[i] = sent[i] /\ stamps'[i] = stamps[i] /\ sent[i].id \in Nat
        BY <3>1, <1>a, <1>9
      <4>2. stamps[i].life \in 1..life /\ sent[i].id <= uuids
        BY <3>1 DEF Inv, LifeInv
      <4>3. Announcement(i) =>
              /\ lives[stamps[i].life].start <= stamps[i].instance
              /\ stamps[i].instance <= stamps[i].at
        BY <3>1 DEF Inv, LifeInv
      <4>4. Announcement(i)' => Announcement(i)
        BY <4>1 DEF Announcement
      <4> QED
        BY <3>1, <4>1, <4>2, <4>3, <4>4, <1>5, <1>12
    <3>2. CASE i = n + 1
      BY <2>2, <3>2, <1>5, <1>9, <1>11, <1>b
    <3> QED
      BY <3>1, <3>2, <1>8
  <2> QED
    BY <2>1, <2>2, <1>5, <1>11 DEF LifeInv
<1>14. NumberInv'
  <2>1. uuids' - lives[life].born < UintMod =>
          /\ messageNumber' = messageNumber + 1
          /\ messageNumber <= uuids - lives[life].born
          /\ \A i \in 1..n : stamps[i].life = life => sent[i].num <= messageNumber
    BY <1>3, <1>c, <1>9, UintModAssumption, SMTT(30) DEF Inv, NumberInv
  <2>2. uuids' - lives[life].born < UintMod =>
          /\ messageNumber' <= uuids' - lives[life].born
          /\ header'.num <= messageNumber'
          /\ \A i \in 1..Len(sent') :
               stamps'[i].life = life => sent'[i].num <= messageNumber'
    <3> SUFFICES ASSUME uuids' - lives[life].born < UintMod
                 PROVE  /\ messageNumber' <= uuids' - lives[life].born
                        /\ header'.num <= messageNumber'
                        /\ \A i \in 1..Len(sent') :
                             stamps'[i].life = life => sent'[i].num <= messageNumber'
      OBVIOUS
    <3>1. /\ messageNumber' <= uuids' - lives[life].born
          /\ header'.num <= messageNumber'
      BY <2>1, <1>2, <1>3, <1>c, <1>9, UintModAssumption
    <3>2. ASSUME NEW i \in 1..Len(sent'), stamps'[i].life = life
          PROVE  sent'[i].num <= messageNumber'
      <4>1. CASE i \in 1..n
        <5>1. sent[i].num <= messageNumber
          BY <4>1, <3>2, <2>1, <1>a
        <5>2. sent'[i].num = sent[i].num /\ sent[i].num \in 0..(UintMod - 1)
          BY <4>1, <1>9, <1>a
        <5> QED
          BY <5>1, <5>2, <2>1, <1>3, UintModAssumption
      <4>2. CASE i = n + 1
        BY <3>2, <4>2, <1>3, <1>b, UintModAssumption
      <4> QED
        BY <4>1, <4>2, <1>8
    <3> QED
      BY <3>1, <3>2
  <2>3. ASSUME NEW i \in 1..Len(sent'), stamps'[i].life = life, Announcement(i)'
        PROVE  Distance(sent'[i].num, messageNumber') <= uuids' - sent'[i].id
    <3>1. CASE i \in 1..n
      <4>1. Distance(sent[i].num, messageNumber) <= uuids - sent[i].id
        BY <2>3, <3>1, <1>a DEF Inv, NumberInv, Announcement
      <4>2. /\ Distance(sent[i].num, messageNumber) \in 0..(UintMod - 1)
            /\ Distance(sent[i].num, messageNumber')
                 \in 0..(Distance(sent[i].num, messageNumber) + 1)
        BY <3>1, <1>2, <1>3, <1>9, OneFurther
      <4>3. sent'[i] = sent[i] /\ sent[i].id \in Nat
        BY <3>1, <1>9, <1>a
      <4>4. Distance(sent[i].num, messageNumber') <= uuids + 1 - sent[i].id
        BY <4>1, <4>2, <4>3, <1>c, UintModAssumption, SMTT(30)
      <4> QED
        BY <4>3, <4>4, <1>c
    <3>2. CASE i = n + 1
      BY <2>3, <3>2, <1>3, <1>c, <1>b, UintModAssumption DEF Distance
    <3> QED
      BY <3>1, <3>2, <1>8
  <2> QED
    BY <2>2, <2>3, <1>c DEF NumberInv
<1>15. SameInstance'
  <2> SUFFICES ASSUME NEW i \in 1..Len(sent'), NEW j \in 1..Len(sent'),
                      Announcement(i)', Announcement(j)',
                      stamps'[i].life = stamps'[j].life
               PROVE  stamps'[i].instance = stamps'[j].instance
    BY DEF SameInstance
  <2>1. CASE i \in 1..n /\ j \in 1..n
    BY <2>1, <1>a DEF Inv, SameInstance, Announcement
  <2>2. CASE i \in 1..n /\ j = n + 1
    BY <2>2, <1>12, <1>a, <1>b DEF Announcement
  <2>3. CASE i = n + 1 /\ j \in 1..n
    BY <2>3, <1>12, <1>a, <1>b DEF Announcement
  <2>4. CASE i = n + 1 /\ j = n + 1
    BY <2>4
  <2> QED
    BY <2>1, <2>2, <2>3, <2>4, <1>8
<1>16. AnnouncementsAdvance'
  <2> SUFFICES ASSUME NEW i \in 1..Len(sent'), NEW j \in 1..Len(sent'), i < j,
                      stamps'[i].life = stamps'[j].life, Announcement(j)'
               PROVE  /\ CallsUpTo(j)' < UintMod => sent'[i].num < sent'[j].num
                      /\ Announcement(i)' /\ sent'[j].id - sent'[i].id < UintMod =>
                           (sent'[j].num + UintMod - sent'[i].num) % UintMod
                             \in 1..(sent'[j].id - sent'[i].id)
    BY DEF AnnouncementsAdvance
  <2>1. CASE j \in 1..n
    <3>1. i \in 1..n /\ sent'[i] = sent[i] /\ stamps'[i] = stamps[i]
          /\ sent'[j] = sent[j] /\ stamps'[j] = stamps[j]
      BY <2>1, <1>8, <1>a
    <3> QED
      BY <2>1, <3>1, <1>c DEF Inv, AnnouncementsAdvance, Announcement, CallsUpTo
  <2>2. CASE j = n + 1
    <3>1. /\ i \in 1..n /\ sent'[i] = sent[i] /\ stamps'[i] = stamps[i]
          /\ stamps[i].life = life /\ sent'[j].id = uuids + 1
          /\ sent'[j].num = messageNumber' /\ stamps'[j].life = life
      BY <2>2, <1>8, <1>a, <1>b
    <3>2. sent[i].id \in Nat /\ sent[i].num \in 0..(UintMod - 1)
      BY <3>1, <1>9
    <3>3. ASSUME CallsUpTo(j)' < UintMod
          PROVE  sent'[i].num < sent'[j].num
      <4>1. uuids + 1 - lives[life].born < UintMod /\ lives[life].born \in Nat
        <5>1. sent'[j].id - lives'[stamps'[j].life].born < UintMod
          BY <3>3 DEF CallsUpTo
        <5>2. lives[life].born \in Nat
          BY <1>9
        <5> QED
          BY <5>1, <5>2, <3>1, <1>c, UintModAssumption, SMTT(30)
      <4>2. uuids - lives[life].born < UintMod
        BY <4>1, <1>c, UintModAssumption
      <4>3. /\ messageNumber <= uuids - lives[life].born
            /\ sent[i].num <= messageNumber
        BY <4>2, <3>1 DEF Inv, NumberInv
      <4>4. messageNumber' = messageNumber + 1
        BY <4>1, <4>3, <1>3, <1>c, UintModAssumption, SMTT(30)
      <4> QED
        BY <4>3, <4>4, <3>1, <3>2, <1>3, UintModAssumption
    <3>4. ASSUME Announcement(i)', sent'[j].id - sent'[i].id < UintMod
          PROVE  (sent'[j].num + UintMod - sent'[i].num) % UintMod
                   \in 1..(sent'[j].id - sent'[i].id)
      <4>1. Announcement(i)
        BY <3>1, <3>4 DEF Announcement
      <4>6. uuids + 1 - sent[i].id < UintMod
        BY <3>1, <3>2, <3>4, <1>c, UintModAssumption
      <4>2. Distance(sent[i].num, messageNumber) <= uuids - sent[i].id
        BY <3>1, <4>1 DEF Inv, NumberInv
      <4>3. /\ Distance(sent[i].num, messageNumber) \in 0..(UintMod - 1)
            /\ Distance(sent[i].num, messageNumber) < UintMod - 1 =>
                 Distance(sent[i].num, messageNumber')
                   = Distance(sent[i].num, messageNumber) + 1
        BY <3>2, <1>2, <1>3, OneFurther
      <4>4. Distance(sent[i].num, messageNumber') \in 1..(uuids + 1 - sent[i].id)
        <5>1. Distance(sent[i].num, messageNumber) \in Nat
          BY <4>3, UintModAssumption
        <5> QED
          BY <5>1, <4>2, <4>3, <4>6, <3>2, <1>c, CallsCounted
      <4>5. (messageNumber' + UintMod - sent[i].num) % UintMod
              = Distance(sent[i].num, messageNumber')
        BY <3>2, <1>3, Remainder
      <4>7. /\ sent'[i].num = sent[i].num /\ sent'[i].id = sent[i].id
            /\ sent'[j].num = messageNumber' /\ sent'[j].id = uuids + 1
        BY <3>1
      <4> QED
        BY <4>4, <4>5, <4>7, <3>2, <1>3, <1>c, UintModAssumption, SMTT(30)
    <3> QED
      BY <3>3, <3>4
  <2> QED
    BY <2>1, <2>2, <1>8
<1> QED
  BY <1>6, <1>7, <1>13, <1>14, <1>15, <1>16 DEF Inv

\* So does a Probe: it is no announcement, and its number is an old one.
LEMMA ProbeStep ==
  ASSUME Inv, NEW ok \in BOOLEAN, Probe(ok)
  PROVE  Inv'
<1>1. /\ CallMade("Probe", ok) /\ header'.num = header.num
      /\ messageNumber' = messageNumber /\ instance' = instance
  BY ProbeFacts DEF Inv
<1>2. /\ messageNumber \in 0..(UintMod - 1) /\ header'.num \in 0..(UintMod - 1)
      /\ instance' \in {Unset} \cup Nat
  BY <1>1 DEF Inv, TypeOK
<1>3. /\ uuids \in Nat /\ uuids' = uuids + 1
      /\ clock \in Nat /\ clock' = clock /\ lives' = lives /\ k' = NextK(k)
      /\ header' = [id |-> uuids + 1, relatesTo |-> NoId, num |-> header'.num]
  BY <1>1 DEF CallMade, Inv, TypeOK
<1>4. TypeOK'
  <2>1. /\ sent' \in Seq(Messages) /\ stamps' \in Seq(Stamps)
        /\ Len(stamps') = Len(sent')
    BY <1>1, <1>2, LogStep DEF Inv
  <2> QED
    BY <2>1, <1>1, <1>2, <1>3 DEF Inv, TypeOK
<1>5. IsInt(k')
  BY <1>3, Stays DEF Inv
<1> DEFINE n == Len(sent)
           life == Len(lives)
<1>6. /\ n \in Nat /\ Len(sent') \in Nat
      /\ \A i \in 1..Len(sent') : i \in 1..n \/ i = n + 1
  BY <1>1, <1>2, MessagesAfter DEF Inv
<1>a. \A i \in 1..n : sent'[i] = sent[i] /\ stamps'[i] = stamps[i]
  BY <1>1, <1>2, MessagesAfter DEF Inv
<1>b. n + 1 \in 1..Len(sent') =>
        /\ sent'[n + 1].kind = "Probe" /\ sent'[n + 1].id = uuids + 1
        /\ sent'[n + 1].num = header.num /\ stamps'[n + 1].life = life
  <2>1. n \in Nat /\ n + 1 \notin 1..n
    BY <1>6
  <2> QED
    BY <2>1, <1>1, <1>2, MessagesAfter DEF Inv
<1>7. /\ life \in Nat \ {0}
      /\ \A l \in 1..life : lives[l].start \in Nat /\ lives[l].born \in Nat
      /\ \A i \in 1..n :
           /\ sent[i].id \in Nat /\ sent[i].num \in 0..(UintMod - 1)
           /\ stamps[i].life \in Nat
  BY Elements DEF Inv
<1>8. \A i \in 1..Len(sent') : Announcement(i)' =>
        i \in 1..n /\ Announcement(i) /\ sent'[i] = sent[i] /\ stamps'[i] = stamps[i]
  BY <1>6, <1>a, <1>b DEF Announcement, Announcements
<1>9. LifeInv'
  <2>1. \A l \in 1..life : lives[l].start <= clock /\ lives[l].born <= uuids'
    BY <1>3, <1>7 DEF Inv, LifeInv
  <2>2. ASSUME NEW i \in 1..Len(sent')
        PROVE  stamps'[i].life \in 1..life /\ sent'[i].id <= uuids'
    <3>1. CASE i \in 1..n
      BY <3>1, <1>3, <1>7, <1>a, SMTT(30) DEF Inv, LifeInv
    <3>2. CASE i = n + 1
      BY <2>2, <3>2, <1>3, <1>7, <1>b
    <3> QED
      BY <3>1, <3>2, <1>6
  <2>3. ASSUME NEW i \in 1..Len(sent'), Announcement(i)'
        PROVE  /\ lives[stamps'[i].life].start <= stamps'[i].instance
               /\ stamps'[i].instance <= stamps'[i].at
               /\ stamps'[i].life = life => stamps'[i].instance = instance
    BY <2>3, <1>8 DEF Inv, LifeInv
  <2>4. instance # Unset => lives[life].start <= instance /\ instance <= clock
    BY DEF Inv, LifeInv
  <2> QED
    BY <2>1, <2>2, <2>3, <2>4, <1>1, <1>3 DEF LifeInv
<1>10. NumberInv'
  <2>1. ASSUME uuids' - lives[life].born < UintMod
        PROVE  /\ messageNumber' <= uuids' - lives[life].born
               /\ header'.num <= messageNumber'
               /\ \A i \in 1..Len(sent') :
                    stamps'[i].life = life => sent'[i].num <= messageNumber'
    <3>1. uuids - lives[life].born < UintMod /\ lives[life].born \in Nat
      BY <2>1, <1>3, <1>7, UintModAssumption
    <3>2. /\ messageNumber <= uuids - lives[life].born
          /\ header.num <= messageNumber
          /\ \A i \in 1..n : stamps[i].life = life => sent[i].num <= messageNumber
      BY <3>1 DEF Inv, NumberInv
    <3>3. messageNumber' <= uuids' - lives[life].born /\ header'.num <= messageNumber'
      BY <3>1, <3>2, <1>1, <1>2, <1>3, UintModAssumption
    <3>4. ASSUME NEW i \in 1..Len(sent'), stamps'[i].life = life
          PROVE  sent'[i].num <= messageNumber'
      <4>1. CASE i \in 1..n
        BY <3>2, <3>4, <4>1, <1>1, <1>a
      <4>2. CASE i = n + 1
        BY <3>2, <3>4, <4>2, <1>1, <1>b
      <4> QED
        BY <4>1, <4>2, <1>6
    <3> QED
      BY <3>3, <3>4
  <2>2. ASSUME NEW i \in 1..Len(sent'), stamps'[i].life = life, Announcement(i)'
        PROVE  Distance(sent'[i].num, messageNumber') <= uuids' - sent'[i].id
    <3>1. i \in 1..n /\ Announcement(i) /\ sent'[i] = sent[i] /\ stamps'[i] = stamps[i]
      BY <2>2, <1>8
    <3>2. Distance(sent[i].num, messageNumber) <= uuids - sent[i].id
      BY <2>2, <3>1 DEF Inv, NumberInv
    <3>3. Distance(sent[i].num, messageNumber) \in Nat
      <4>1. sent[i].num \in 0..(UintMod - 1)
        BY <3>1, <1>7
      <4>2. messageNumber \in 0..(UintMod - 1)
        BY <1>2
      <4>3. Distance(sent[i].num, messageNumber) \in 0..(UintMod - 1)
        BY <4>1, <4>2, OneFurther
      <4> QED
        BY <4>3, UintModAssumption
    <3> QED
      BY <3>1, <3>2, <3>3, <1>1, <1>3, <1>7
  <2> QED
    BY <2>1, <2>2, <1>3 DEF NumberInv
<1>11. SameInstance'
  BY <1>8 DEF Inv, SameInstance
<1>12. AnnouncementsAdvance'
  <2> SUFFICES ASSUME NEW i \in 1..Len(sent'), NEW j \in 1..Len(sent'), i < j,
                      stamps'[i].life = stamps'[j].life, Announcement(j)'
               PROVE  /\ CallsUpTo(j)' < UintMod => sent'[i].num < sent'[j].num
                      /\ Announcement(i)' /\ sent'[j].id - sent'[i].id < UintMod =>
                           (sent'[j].num + UintMod - sent'[i].num) % UintMod
                             \in 1..(sent'[j].id - sent'[i].id)
    BY DEF AnnouncementsAdvance
  <2>1. /\ j \in 1..n /\ Announcement(j) /\ sent'[j] = sent[j] /\ stamps'[j] = stamps[j]
        /\ i \in 1..n /\ sent'[i] = sent[i] /\ stamps'[i] = stamps[i]
    BY <1>6, <1>8, <1>a
  <2> QED
    BY <2>1, <1>3 DEF Inv, AnnouncementsAdvance, Announcement, CallsUpTo
<1> QED
  BY <1>4, <1>5, <1>9, <1>10, <1>11, <1>12 DEF Inv

\* A new proxy's header has no sequence: number 0, which is below any other.
LEMMA OpenStep ==
  ASSUME Inv, Open
  PROVE  Inv'
<1> USE DEF Open, Proxy!Open, Proxy!NoHeader
<1>1. TypeOK'
  BY UintModAssumption DEF Inv, TypeOK
<1>2. messageNumber \in Nat
  BY UintModAssumption DEF Inv, TypeOK
<1>3. NumberInv'
  BY <1>2 DEF Inv, NumberInv, Announcement
<1>4. IsInt(k)' /\ LifeInv' /\ SameInstance' /\ AnnouncementsAdvance'
  BY DEF Inv, LifeInv, SameInstance, AnnouncementsAdvance, Announcement, CallsUpTo
<1> QED
  BY <1>1, <1>3, <1>4 DEF Inv

\* A second passes.
LEMMA TickStep ==
  ASSUME Inv, Tick
  PROVE  Inv'
<1> USE DEF Tick
<1>1. TypeOK' /\ clock \in Nat /\ clock' = clock + 1
  BY DEF Inv, TypeOK
<1>2. /\ Len(lives) \in Nat \ {0} /\ instance \in {Unset} \cup Nat
      /\ \A l \in 1..Len(lives) : lives[l].start \in Nat
  BY Elements DEF Inv, TypeOK
<1>3. LifeInv'
  BY <1>1, <1>2 DEF Inv, LifeInv, Announcement, Unset
<1>4. IsInt(k)' /\ NumberInv' /\ SameInstance' /\ AnnouncementsAdvance'
  BY DEF Inv, NumberInv, SameInstance, AnnouncementsAdvance, Announcement, CallsUpTo
<1> QED
  BY <1>1, <1>3, <1>4 DEF Inv

\* Another life begins: nothing was sent in it, and no call was made.
LEMMA RestartStep ==
  ASSUME Inv, Restart
  PROVE  Inv'
<1> DEFINE n == Len(lives)
           new == [start |-> clock, born |-> uuids]
<1>1. /\ lives \in Seq(Lives) /\ new \in Lives /\ lives' = Append(lives, new)
      /\ uuids \in Nat /\ clock \in Nat /\ n \in Nat \ {0}
      /\ new.start = clock /\ new.born = uuids
  BY Elements DEF Inv, TypeOK, Lives, Restart
<1> HIDE DEF new
<1>2. /\ lives' \in Seq(Lives) /\ Len(lives') = n + 1
      /\ \A l \in 1..n : lives'[l] = lives[l]
      /\ lives'[n + 1].start = clock /\ lives'[n + 1].born = uuids
  BY <1>1
<1>3. /\ header' = [id |-> NoId, relatesTo |-> NoId, num |-> 0] /\ messageNumber' = 0
      /\ instance' = Unset /\ k' = Seed
      /\ uuids' = uuids /\ sent' = sent /\ clock' = clock /\ stamps' = stamps
  BY DEF Restart, NoHeader
<1>4. \A i \in 1..Len(sent) : stamps[i].life \in 1..n
  BY DEF Inv, LifeInv
<1>5. TypeOK'
  BY <1>1, <1>2, <1>3, UintModAssumption DEF Inv, TypeOK
<1>6. IsInt(k')
  BY <1>3, SMT DEF Seed, IsInt, MaxInt
<1>7. LifeInv'
  <2>1. \A l \in 1..Len(lives') : lives'[l].start <= clock' /\ lives'[l].born <= uuids'
    BY <1>1, <1>2, <1>3 DEF Inv, LifeInv
  <2>2. ASSUME NEW i \in 1..Len(sent)
        PROVE  /\ stamps[i].life \in 1..Len(lives') /\ stamps[i].life # Len(lives')
               /\ lives'[stamps[i].life] = lives[stamps[i].life]
    BY <1>1, <1>2, <1>4
  <2> QED
    BY <2>1, <2>2, <1>3 DEF Inv, LifeInv, Announcement
<1>8. NumberInv'
  <2>1. \A i \in 1..Len(sent') : stamps'[i].life # Len(lives')
    BY <1>1, <1>2, <1>3, <1>4
  <2> QED
    BY <2>1, <1>1, <1>2, <1>3 DEF NumberInv
<1>9. SameInstance'
  BY <1>3 DEF Inv, SameInstance, Announcement
<1>10. AnnouncementsAdvance'
  BY <1>2, <1>3, <1>4, SMTT(30) DEF Inv, AnnouncementsAdvance, Announcement, CallsUpTo
<1> QED
  BY <1>5, <1>6, <1>7, <1>8, <1>9, <1>10 DEF Inv

\* Every step of the host preserves the invariant.
LEMMA InvStep == Inv /\ [Next]_vars => Inv'
<1> SUFFICES ASSUME Inv, [Next]_vars PROVE Inv'
  OBVIOUS
<1>1. CASE \E ok \in BOOLEAN : Announce(ok)
  BY <1>1, AnnounceStep
<1>2. CASE \E ok \in BOOLEAN : Probe(ok)
  BY <1>2, ProbeStep
<1>3. CASE Open
  BY <1>3, OpenStep
<1>4. CASE Tick
  BY <1>4, TickStep
<1>5. CASE Restart
  BY <1>5, RestartStep
<1>6. CASE UNCHANGED vars
  BY <1>6 DEF vars, Inv, TypeOK, LifeInv, NumberInv, SameInstance,
              AnnouncementsAdvance, Announcement, CallsUpTo
<1> QED
  BY <1>1, <1>2, <1>3, <1>4, <1>5, <1>6 DEF Next
-----------------------------------------------------------------------------
\* Whatever the program calls and whenever it is started again, the numbers,
\* the instances and the generator stay within the invariant.
THEOREM Invariance == Spec => []Inv
<1>1. Init => Inv
  BY InvInit
<1>2. Inv /\ [Next]_vars => Inv'
  BY InvStep
<1> QED
  BY <1>1, <1>2, PTL DEF Spec

\* The statics, the header and the log have their types: the counter keeps its
\* width.
THEOREM HostTypes == Spec => []TypeOK
<1>1. Inv => TypeOK
  BY DEF Inv
<1> QED
  BY <1>1, Invariance, PTL

\* addAppSequence numbers an announcement above all that its life has sent,
\* up to the wrap, and by a bounded distance beyond it.
THEOREM NumbersAdvance == Spec => []AnnouncementsAdvance
<1>1. Inv => AnnouncementsAdvance
  BY DEF Inv
<1> QED
  BY <1>1, Invariance, PTL

\* instanceId tells the lives apart, in order, if a second lies between.
THEOREM InstancesOrdered == Spec => []LivesOrdered
<1>1. ASSUME Inv PROVE LivesOrdered
  <2> SUFFICES ASSUME NEW i \in 1..Len(sent), NEW j \in 1..Len(sent),
                      Announcement(i), Announcement(j)
               PROVE  /\ stamps[i].life = stamps[j].life
                           => stamps[i].instance = stamps[j].instance
                      /\ stamps[i].at < lives[stamps[j].life].start
                           => stamps[i].instance < stamps[j].instance
    BY DEF LivesOrdered
  <2>1. stamps[i].life = stamps[j].life => stamps[i].instance = stamps[j].instance
    BY <1>1 DEF Inv, SameInstance
  <2>2. /\ stamps[i].instance <= stamps[i].at
        /\ stamps[j].life \in 1..Len(lives)
        /\ lives[stamps[j].life].start <= stamps[j].instance
    BY <1>1 DEF Inv, LifeInv
  <2>3. /\ stamps[i].at \in Nat /\ lives[stamps[j].life].start \in Nat
        /\ stamps[i].instance \in {Unset} \cup Nat
        /\ stamps[j].instance \in {Unset} \cup Nat
    BY <1>1, <2>2, Elements DEF Inv
  <2> QED
    BY <2>1, <2>2, <2>3, SMTT(30) DEF Unset
<1>2. Inv => LivesOrdered
  BY <1>1
<1> QED
  BY <1>2, Invariance, PTL

\* Wherever the calls leave the generator, its next step stays an int.
THEOREM GeneratorSafe == Spec => []GeneratorSound
<1>1. ASSUME Inv PROVE GeneratorSound
  <2>1. IsInt(k)
    BY <1>1 DEF Inv
  <2> QED
    BY <2>1, Fits DEF GeneratorSound
<1>2. Inv => GeneratorSound
  BY <1>1
<1> QED
  BY <1>2, Invariance, PTL
=============================================================================
