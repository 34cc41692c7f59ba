------------------------- MODULE ProbeMatchingProofs -------------------------
(***************************************************************************)
(* Wsdd::probe strips and compares names correctly for types of every      *)
(* length over every alphabet.  A name is known by the place where it      *)
(* stands, KeptAt; StripLast moves the places and keeps what stands there. *)
(***************************************************************************)
EXTENDS ProbeMatching, FiniteSetTheorems, SequenceTheorems, TLAPS

Strings == Seq(Characters)

\* The characters that the stripping tells apart are different ones.
LEMMA CharactersDiffer ==
  /\ Space # ":" /\ Tab # ":" /\ Space # Tab
  /\ Blanks = {Space, Tab}
BY Zenon DEF Space, Tab, Blanks

-----------------------------------------------------------------------------
(* Positions in a text. *)

\* A set of positions has a greatest one, for there is no endless descent in the
\* sets of the positions from one of them on.
LEMMA MaxProperties ==
  ASSUME NEW n \in Nat, NEW T, T \subseteq 1..n, T # {}
  PROVE  Max(T) \in T /\ \A i \in T : i <= Max(T)
<1> DEFINE Tails == {S \in SUBSET (1..n) : \E t \in T : S = t..n}
<1>1. IsWellFoundedOn(StrictSubsetOrdering(1..n), FiniteSubsetsOf(1..n))
  BY FS_StrictSubsetOrderingWellFounded
<1>2. Tails \subseteq FiniteSubsetsOf(1..n)
  <2>1. IsFiniteSet(1..n)
    BY FS_Interval
  <2> QED
    BY <2>1, FS_Subset DEF FiniteSubsetsOf
<1>3. Tails # {}
  <2>1. PICK t \in T : TRUE
    OBVIOUS
  <2>2. t..n \in Tails
    BY <2>1
  <2> QED
    BY <2>2
<1>4. \E S \in Tails : \A U \in Tails : <<U, S>> \notin StrictSubsetOrdering(1..n)
  <2> HIDE DEF Tails
  <2> QED
    BY <1>1, <1>2, <1>3, WFMin
<1>5. PICK x \in T : \A U \in Tails : <<U, x..n>> \notin StrictSubsetOrdering(1..n)
  BY <1>4
<1>6. ASSUME NEW y \in T, x < y PROVE FALSE
  <2>1. /\ x..n \in SUBSET (1..n) /\ y..n \in Tails
        /\ y..n \subseteq x..n /\ x \in x..n /\ x \notin y..n
    BY <1>6
  <2>2. <<y..n, x..n>> \in StrictSubsetOrdering(1..n)
    BY <2>1 DEF StrictSubsetOrdering
  <2> QED
    BY <1>5, <2>1, <2>2
<1>7. \A y \in T : x >= y
  BY <1>6
<1> QED
  BY <1>7 DEF Max

\* The last position of a set before a place, or 0.
LEMMA LastBefore ==
  ASSUME NEW n \in Nat, NEW T, T \subseteq 1..n, NEW a \in 1..(n + 1)
  PROVE  \E c \in 0..(a - 1) : /\ c = 0 \/ c \in T
                               /\ \A i \in (c + 1)..(a - 1) : i \notin T
<1> DEFINE U == {i \in T : i < a}
<1>1. CASE U = {}
  BY <1>1
<1>2. CASE U # {}
  <2>1. U \subseteq 1..n
    OBVIOUS
  <2>2. PICK c \in U : \A i \in U : i <= c
    BY <1>2, <2>1, MaxProperties
  <2>3. c \in 0..(a - 1) /\ c \in T /\ \A i \in (c + 1)..(a - 1) : i \notin T
    BY <2>2
  <2> QED
    BY <2>3
<1> QED
  BY <1>1, <1>2

\* The first position of a set behind a place, or the one behind the end.
LEMMA FirstBehind ==
  ASSUME NEW n \in Nat, NEW T, T \subseteq 1..n, NEW b \in 0..n
  PROVE  \E c \in (b + 1)..(n + 1) : /\ c = n + 1 \/ c \in T
                                     /\ \A i \in (b + 1)..(c - 1) : i \notin T
<1> DEFINE U == {i \in 1..n : n + 1 - i \in T}
<1>1. PICK d \in 0..(n - b) : /\ d = 0 \/ d \in U
                              /\ \A i \in (d + 1)..(n - b) : i \notin U
  <2>1. PICK m \in 1..(n + 1) : m = n + 1 - b
    OBVIOUS
  <2>2. U \subseteq 1..n
    OBVIOUS
  <2> HIDE DEF U
  <2>3. \E d \in 0..(m - 1) : /\ d = 0 \/ d \in U
                              /\ \A i \in (d + 1)..(m - 1) : i \notin U
    BY <2>2, LastBefore
  <2>4. m - 1 = n - b
    BY <2>1
  <2> QED
    BY <2>3, <2>4
<1>2. n + 1 - d \in (b + 1)..(n + 1) /\ (n + 1 - d = n + 1 \/ n + 1 - d \in T)
  BY <1>1
<1>3. ASSUME NEW i \in (b + 1)..(n + 1 - d - 1) PROVE i \notin T
  <2>1. n + 1 - i \in (d + 1)..(n - b) /\ n + 1 - (n + 1 - i) = i
    BY <1>1
  <2> QED
    BY <1>1, <2>1
<1> QED
  BY <1>2, <1>3

-----------------------------------------------------------------------------
(* Parts of a text. *)

\* What a part of a text is.
LEMMA PartProperties ==
  ASSUME NEW text \in Strings, NEW a \in 1..(Len(text) + 1), NEW b \in (a - 1)..Len(text)
  PROVE  /\ SubSeq(text, a, b) \in Strings
         /\ Len(SubSeq(text, a, b)) = b - a + 1
         /\ \A i \in 1..(b - a + 1) : SubSeq(text, a, b)[i] = text[a + i - 1]
<1>1. \A i \in a..b : text[i] \in Characters
  BY DEF Strings
<1>2. a \in Int /\ b \in Int
  BY DEF Strings
<1> QED
  BY <1>1, <1>2, SubSeqProperties DEF Strings

\* A part of a part is a part.
LEMMA PartOfPart ==
  ASSUME NEW text \in Strings, NEW a \in 1..(Len(text) + 1), NEW b \in (a - 1)..Len(text),
         NEW i \in 1..(b - a + 2), NEW j \in (i - 1)..(b - a + 1)
  PROVE  SubSeq(SubSeq(text, a, b), i, j) = SubSeq(text, a + i - 1, a + j - 1)
<1> DEFINE part == SubSeq(text, a, b)
           left == SubSeq(part, i, j)
           right == SubSeq(text, a + i - 1, a + j - 1)
<1>1. /\ part \in Strings /\ Len(part) = b - a + 1
      /\ \A k \in 1..(b - a + 1) : part[k] = text[a + k - 1]
  BY PartProperties
<1>2. /\ left \in Strings /\ Len(left) = j - i + 1
      /\ \A k \in 1..(j - i + 1) : left[k] = part[i + k - 1]
  <2>1. i \in 1..(Len(part) + 1) /\ j \in (i - 1)..Len(part)
    BY <1>1
  <2> HIDE DEF part
  <2> QED
    BY <1>1, <2>1, PartProperties
<1>3. /\ right \in Strings /\ Len(right) = j - i + 1
      /\ \A k \in 1..(j - i + 1) : right[k] = text[a + i - 1 + k - 1]
  <2>1. /\ a + i - 1 \in 1..(Len(text) + 1)
        /\ a + j - 1 \in (a + i - 1 - 1)..Len(text)
        /\ (a + j - 1) - (a + i - 1) + 1 = j - i + 1
    BY DEF Strings
  <2> QED
    BY <2>1, PartProperties
<1>4. ASSUME NEW k \in 1..(j - i + 1) PROVE left[k] = right[k]
  <2>1. /\ i + k - 1 \in 1..(b - a + 1)
        /\ a + (i + k - 1) - 1 = a + i - 1 + k - 1
    OBVIOUS
  <2> HIDE DEF part, left, right
  <2> QED
    BY <1>1, <1>2, <1>3, <2>1
<1> HIDE DEF left, right
<1>5. left = right
  BY <1>2, <1>3, <1>4, SeqEqual DEF Strings
<1> QED
  BY <1>5 DEF left, right

\* From a to b there is no separator, and at either end one or the end.
Run(text, separators, a, b) ==
  /\ a \in 1..Len(text) /\ b \in a..Len(text)
  /\ a = 1 \/ text[a - 1] \in separators
  /\ b = Len(text) \/ text[b + 1] \in separators
  /\ \A k \in a..b : text[k] \notin separators

\* Pieces are what stands in the runs.
LEMMA PiecesProperties ==
  ASSUME NEW text \in Strings, NEW separators, NEW x
  PROVE  x \in Pieces(text, separators) <=>
           \E a, b \in 1..Len(text) :
             Run(text, separators, a, b) /\ x = SubSeq(text, a, b)
<1>1. ASSUME NEW a \in 1..Len(text), NEW b \in 1..Len(text)
      PROVE  <<a, b>> \in Runs(text, separators) <=> Run(text, separators, a, b)
  <2>1. /\ Len(text) \in Nat /\ a - 1 # Len(text) + 1 /\ (a - 1 = 0 <=> a = 1)
        /\ b + 1 # 0 /\ (b + 1 = Len(text) + 1 <=> b = Len(text))
        /\ (b \in a..Len(text) <=> a <= b)
    BY DEF Strings
  <2> QED
    BY <2>1 DEF Runs, Run
<1>2. ASSUME x \in Pieces(text, separators)
      PROVE  \E a, b \in 1..Len(text) :
               Run(text, separators, a, b) /\ x = SubSeq(text, a, b)
  <2>1. PICK r \in Runs(text, separators) : x = SubSeq(text, r[1], r[2])
    BY <1>2 DEF Pieces
  <2>2. r[1] \in 1..Len(text) /\ r[2] \in 1..Len(text) /\ r = <<r[1], r[2]>>
    BY DEF Runs
  <2> QED
    BY <1>1, <2>1, <2>2
<1>3. ASSUME NEW a \in 1..Len(text), NEW b \in 1..Len(text),
             Run(text, separators, a, b), x = SubSeq(text, a, b)
      PROVE  x \in Pieces(text, separators)
  <2>1. <<a, b>> \in Runs(text, separators)
    BY <1>1, <1>3
  <2>2. \A r \in Runs(text, separators) :
          SubSeq(text, r[1], r[2]) \in Pieces(text, separators)
    BY DEF Pieces
  <2>3. <<a, b>>[1] = a /\ <<a, b>>[2] = b
    OBVIOUS
  <2>4. SubSeq(text, a, b) \in Pieces(text, separators)
    BY <2>1, <2>2, <2>3
  <2> QED
    BY <1>3, <2>4
<1> QED
  BY <1>2, <1>3

\* What holds no separator lies in a run.
LEMMA Enclosing ==
  ASSUME NEW text \in Strings, NEW separators,
         NEW i \in 1..Len(text), NEW j \in i..Len(text),
         \A k \in i..j : text[k] \notin separators
  PROVE  \E a \in 1..i, b \in j..Len(text) : Run(text, separators, a, b)
<1> DEFINE n == Len(text)
           T == {k \in 1..n : text[k] \in separators}
<1>1. n \in Nat /\ T \subseteq 1..n /\ i \in 1..(n + 1) /\ j \in 0..n
  BY DEF Strings
<1>2. PICK c \in 0..(i - 1) : (c = 0 \/ c \in T) /\ \A k \in (c + 1)..(i - 1) : k \notin T
  <2> HIDE DEF n, T
  <2> QED
    BY <1>1, LastBefore
<1>3. PICK d \in (j + 1)..(n + 1) :
        (d = n + 1 \/ d \in T) /\ \A k \in (j + 1)..(d - 1) : k \notin T
  <2> HIDE DEF n, T
  <2> QED
    BY <1>1, FirstBehind
<1>4. c + 1 \in 1..i /\ d - 1 \in j..n /\ c + 1 \in 1..n /\ d - 1 \in (c + 1)..n
  BY <1>1, <1>2, <1>3
<1>5. /\ c + 1 = 1 \/ text[(c + 1) - 1] \in separators
      /\ d - 1 = n \/ text[(d - 1) + 1] \in separators
  <2>1. (c + 1) - 1 = c /\ (d - 1) + 1 = d
    BY <1>2, <1>3
  <2> QED
    BY <1>1, <1>2, <1>3, <2>1
<1>6. ASSUME NEW k \in (c + 1)..(d - 1) PROVE text[k] \notin separators
  <2>1. k \in (c + 1)..(i - 1) \/ k \in i..j \/ k \in (j + 1)..(d - 1)
    BY <1>1, <1>2, <1>3
  <2>2. k \in 1..n
    BY <1>1, <1>4
  <2> QED
    BY <1>2, <1>3, <2>1, <2>2
<1>7. Run(text, separators, c + 1, d - 1)
  BY <1>4, <1>5, <1>6 DEF Run
<1> QED
  BY <1>4, <1>7

\* The last colon from a to b is at c, or there is none and c is in front of a.
LastColon(text, a, b, c) ==
  /\ c \in (a - 1)..b
  /\ c = a - 1 \/ text[c] = ":"
  /\ \A k \in (c + 1)..b : text[k] # ":"

\* The local name of a part begins behind the last colon in it.
LEMMA LocalNameProperties ==
  ASSUME NEW text \in Strings, NEW a \in 1..Len(text), NEW b \in a..Len(text)
  PROVE  \E c \in (a - 1)..b :
           /\ LastColon(text, a, b, c)
           /\ LocalName(SubSeq(text, a, b)) = SubSeq(text, c + 1, b)
<1> USE DEF LastColon
<1> DEFINE part == SubSeq(text, a, b)
           colons == Positions(part, ":")
<1>1. /\ part \in Strings /\ Len(part) = b - a + 1 /\ Len(part) \in Nat
      /\ \A k \in 1..(b - a + 1) : part[k] = text[a + k - 1]
  <2>1. a \in 1..(Len(text) + 1) /\ b \in (a - 1)..Len(text) /\ b - a + 1 \in Nat
    BY DEF Strings
  <2> QED
    BY <2>1, PartProperties
<1>2. \A k \in a..b : text[k] = ":" <=> k - a + 1 \in colons
  <2> SUFFICES ASSUME NEW k \in a..b PROVE text[k] = ":" <=> k - a + 1 \in colons
    OBVIOUS
  <2>1. k - a + 1 \in 1..(b - a + 1) /\ a + (k - a + 1) - 1 = k
    BY DEF Strings
  <2> HIDE DEF part
  <2> QED
    BY <1>1, <2>1 DEF Positions
<1>3. CASE colons = {}
  <2>1. \A k \in ((a - 1) + 1)..b : text[k] # ":"
    <3>1. (a - 1) + 1 = a
      BY DEF Strings
    <3> QED
      BY <1>2, <1>3, <3>1
  <2>2. LocalName(part) = SubSeq(text, (a - 1) + 1, b)
    BY <1>3 DEF LocalName, Strings
  <2>3. a - 1 \in (a - 1)..b
    BY DEF Strings
  <2> QED
    BY <2>1, <2>2, <2>3
<1>4. CASE colons # {}
  <2>1. colons \subseteq 1..Len(part)
    BY DEF Positions
  <2>2. PICK m \in colons : m = Max(colons) /\ \A k \in colons : k <= m
    <3> HIDE DEF colons, part
    <3> QED
      BY <1>1, <1>4, <2>1, MaxProperties
  <2> DEFINE c == a + m - 1
  <2>3. m \in 1..(b - a + 1) /\ c \in a..b /\ c - a + 1 = m /\ c \in (a - 1)..b
    <3>1. m \in 1..(b - a + 1)
      <4> HIDE DEF colons, part
      <4> QED
        BY <1>1, <2>1
    <3> QED
      BY <3>1 DEF Strings
  <2>4. text[c] = ":"
    BY <1>2, <2>2, <2>3
  <2>5. ASSUME NEW k \in (c + 1)..b PROVE text[k] # ":"
    <3>1. k \in a..b /\ ~(k - a + 1 <= m)
      BY <2>3
    <3> HIDE DEF colons
    <3> QED
      BY <1>2, <2>2, <3>1
  <2>6. LocalName(part) = SubSeq(part, m + 1, b - a + 1)
    BY <1>1, <1>4, <2>2 DEF LocalName
  <2>7. SubSeq(part, m + 1, b - a + 1) = SubSeq(text, c + 1, b)
    <3>1. /\ a \in 1..(Len(text) + 1) /\ b \in (a - 1)..Len(text)
          /\ m + 1 \in 1..(b - a + 2) /\ b - a + 1 \in ((m + 1) - 1)..(b - a + 1)
      BY <2>3 DEF Strings
    <3>2. a + (m + 1) - 1 = c + 1 /\ a + (b - a + 1) - 1 = b
      BY <2>3 DEF Strings
    <3>3. SubSeq(part, m + 1, b - a + 1)
            = SubSeq(text, a + (m + 1) - 1, a + (b - a + 1) - 1)
      BY <3>1, PartOfPart
    <3> QED
      BY <3>2, <3>3
  <2> HIDE DEF c
  <2> QED
    BY <2>3, <2>4, <2>5, <2>6, <2>7
<1> QED
  BY <1>3, <1>4

\* From a to b there is no space, and at either end one or the end.
Field(text, a, b) == Run(text, {Space}, a, b)

\* The fields are the pieces between spaces.
LEMMA FieldProperties ==
  ASSUME NEW text \in Strings
  PROVE  /\ \A a, b \in 1..Len(text) :
              Field(text, a, b) => SubSeq(text, a, b) \in Pieces(text, {Space})
         /\ \A x \in Pieces(text, {Space}) :
              \E a, b \in 1..Len(text) : Field(text, a, b) /\ x = SubSeq(text, a, b)
<1> DEFINE separators == {Space}
<1>1. \A x : x \in Pieces(text, separators) <=>
               \E a, b \in 1..Len(text) :
                 Run(text, separators, a, b) /\ x = SubSeq(text, a, b)
  <2> HIDE DEF separators
  <2> QED
    BY PiecesProperties
<1>2. \A a, b : Field(text, a, b) <=> Run(text, separators, a, b)
  BY DEF Field
<1>3. Pieces(text, {Space}) = Pieces(text, separators)
  OBVIOUS
<1> HIDE DEF separators
<1> QED
  BY <1>1, <1>2, <1>3

\* What holds no space lies in a field.
LEMMA EnclosingField ==
  ASSUME NEW text \in Strings,
         NEW i \in 1..Len(text), NEW j \in i..Len(text),
         \A k \in i..j : text[k] # Space
  PROVE  \E a \in 1..i, b \in j..Len(text) : Field(text, a, b)
<1> DEFINE separators == {Space}
<1>1. \A k \in i..j : text[k] \notin separators
  OBVIOUS
<1>2. \A a, b : Field(text, a, b) <=> Run(text, separators, a, b)
  BY DEF Field
<1> HIDE DEF separators
<1> QED
  BY <1>1, <1>2, Enclosing

-----------------------------------------------------------------------------
(* Where the names stand that stripping keeps. *)

Marks == Blanks \cup {":"}

\* A name without a colon, behind a mark or the beginning, in front of white
\* space or the end, and without a colon behind it before the next space.
KeptAt(text, a, b) ==
  /\ a \in 1..Len(text) /\ b \in a..Len(text)
  /\ a = 1 \/ text[a - 1] \in Marks
  /\ b = Len(text) \/ text[b + 1] \in Blanks
  /\ \A k \in a..b : text[k] \notin Marks
  /\ \A j \in (b + 1)..Len(text) :
       text[j] = ":" => \E k \in (b + 1)..(j - 1) : text[k] = Space

\* What stands behind the last colon of a field is kept.
LEMMA TokenIsKept ==
  ASSUME NEW text \in Strings,
         NEW f1 \in Nat, NEW f2 \in Nat, Field(text, f1, f2),
         NEW c \in Nat, LastColon(text, f1, f2, c),
         NEW p \in Nat, NEW q \in Nat, Run(SubSeq(text, c + 1, f2), Blanks, p, q)
  PROVE  /\ KeptAt(text, c + p, c + q)
         /\ SubSeq(SubSeq(text, c + 1, f2), p, q) = SubSeq(text, c + p, c + q)
<1> DEFINE name == SubSeq(text, c + 1, f2)
<1>1. /\ Len(text) \in Nat /\ f1 \in 1..Len(text) /\ f2 \in f1..Len(text)
      /\ f1 = 1 \/ text[f1 - 1] = Space
      /\ f2 = Len(text) \/ text[f2 + 1] = Space
      /\ \A k \in f1..f2 : text[k] # Space
      /\ c \in (f1 - 1)..f2 /\ (c = f1 - 1 \/ text[c] = ":")
      /\ \A k \in (c + 1)..f2 : text[k] # ":"
  BY DEF Field, Run, Strings, LastColon
<1>2. c + 1 \in 1..(Len(text) + 1) /\ f2 \in ((c + 1) - 1)..Len(text) /\ c \in Nat
  BY <1>1
<1>3. /\ name \in Strings /\ Len(name) = f2 - (c + 1) + 1
      /\ \A k \in 1..(f2 - (c + 1) + 1) : name[k] = text[(c + 1) + k - 1]
  <2> HIDE DEF name
  <2> QED
    BY <1>2, PartProperties DEF name
<1>4. /\ p \in 1..(f2 - c) /\ q \in p..(f2 - c)
      /\ p = 1 \/ name[p - 1] \in Blanks
      /\ q = f2 - c \/ name[q + 1] \in Blanks
      /\ \A k \in p..q : name[k] \notin Blanks
  <2>1. Run(name, Blanks, p, q) /\ Len(name) = f2 - c
    BY <1>1, <1>3
  <2> HIDE DEF name
  <2> QED
    BY <2>1 DEF Run
<1>5. \A k \in 1..(f2 - c) : name[k] = text[c + k]
  <2> SUFFICES ASSUME NEW k \in 1..(f2 - c) PROVE name[k] = text[c + k]
    OBVIOUS
  <2>1. k \in 1..(f2 - (c + 1) + 1) /\ (c + 1) + k - 1 = c + k
    BY <1>1
  <2> HIDE DEF name
  <2> QED
    BY <1>3, <2>1
<1> HIDE DEF name
<1>6. /\ c + p \in 1..Len(text) /\ c + q \in (c + p)..Len(text)
      /\ c + p \in (c + 1)..f2 /\ c + q \in (c + 1)..f2
  BY <1>1, <1>2, <1>4
<1>7. c + p = 1 \/ text[(c + p) - 1] \in Marks
  <2>1. CASE p = 1
    <3>1. (c + p) - 1 = c
      BY <1>1, <2>1
    <3> QED
      BY <1>1, <2>1, <3>1 DEF Marks, Blanks
  <2>2. CASE p # 1
    <3>1. p - 1 \in 1..(f2 - c) /\ c + (p - 1) = (c + p) - 1
      BY <1>1, <1>4, <2>2
    <3> QED
      BY <1>4, <1>5, <2>2, <3>1 DEF Marks
  <2> QED
    BY <2>1, <2>2
<1>8. c + q = Len(text) \/ text[(c + q) + 1] \in Blanks
  <2>1. CASE q = f2 - c
    <3>1. c + q = f2
      BY <1>1, <2>1
    <3> QED
      BY <1>1, <3>1 DEF Blanks
  <2>2. CASE q # f2 - c
    <3>1. q + 1 \in 1..(f2 - c) /\ c + (q + 1) = (c + q) + 1
      BY <1>1, <1>4, <2>2
    <3> QED
      BY <1>4, <1>5, <2>2, <3>1
  <2> QED
    BY <2>1, <2>2
<1>9. ASSUME NEW k \in (c + p)..(c + q) PROVE text[k] \notin Marks
  <2>1. k - c \in p..q /\ k - c \in 1..(f2 - c) /\ c + (k - c) = k /\ k \in (c + 1)..f2
    BY <1>1, <1>4
  <2>2. text[k] \notin Blanks
    BY <1>4, <1>5, <2>1
  <2> QED
    BY <1>1, <2>1, <2>2 DEF Marks
<1>10. ASSUME NEW j \in ((c + q) + 1)..Len(text), text[j] = ":"
       PROVE  \E k \in ((c + q) + 1)..(j - 1) : text[k] = Space
  <2>1. ~(j \in (c + 1)..f2)
    BY <1>1, <1>10
  <2>2. f2 < j /\ f2 # Len(text) /\ text[f2 + 1] = Space
    BY <1>1, <1>4, <1>6, <2>1
  <2>3. j # f2 + 1
    BY <1>10, <2>2, CharactersDiffer
  <2>4. f2 + 1 \in ((c + q) + 1)..(j - 1)
    BY <1>1, <1>2, <1>6, <2>2, <2>3
  <2> QED
    BY <2>2, <2>4
<1>11. KeptAt(text, c + p, c + q)
  BY <1>6, <1>7, <1>8, <1>9, <1>10 DEF KeptAt
<1>12. SubSeq(name, p, q) = SubSeq(text, c + p, c + q)
  <2>1. p \in 1..(f2 - (c + 1) + 2) /\ q \in (p - 1)..(f2 - (c + 1) + 1)
    BY <1>1, <1>4
  <2>2. SubSeq(name, p, q) = SubSeq(text, (c + 1) + p - 1, (c + 1) + q - 1)
    BY <1>2, <2>1, PartOfPart DEF name
  <2>3. (c + 1) + p - 1 = c + p /\ (c + 1) + q - 1 = c + q
    BY <1>1, <1>4
  <2> QED
    BY <2>2, <2>3
<1> QED
  BY <1>11, <1>12 DEF name

\* What is kept stands behind the last colon of a field.
LEMMA KeptIsToken ==
  ASSUME NEW text \in Strings,
         NEW a \in 1..Len(text), NEW b \in 1..Len(text), KeptAt(text, a, b)
  PROVE  SubSeq(text, a, b) \in KeptNames(text)
<1>1. /\ Len(text) \in Nat /\ a <= b
      /\ a = 1 \/ text[a - 1] \in Marks
      /\ b = Len(text) \/ text[b + 1] \in Blanks
      /\ \A k \in a..b : text[k] \notin Marks
      /\ \A j \in (b + 1)..Len(text) :
           text[j] = ":" => \E k \in (b + 1)..(j - 1) : text[k] = Space
  BY DEF KeptAt, Strings
<1>2. PICK f1 \in 1..a, f2 \in b..Len(text) : Field(text, f1, f2)
  <2>1. b \in a..Len(text) /\ \A k \in a..b : text[k] # Space
    BY <1>1 DEF Marks, Blanks
  <2> QED
    BY <2>1, EnclosingField
<1>3. /\ f1 \in 1..Len(text) /\ f2 \in f1..Len(text)
      /\ f1 = 1 \/ text[f1 - 1] = Space
      /\ f2 = Len(text) \/ text[f2 + 1] = Space
      /\ \A k \in f1..f2 : text[k] # Space
  BY <1>2 DEF Field, Run
<1> DEFINE field == SubSeq(text, f1, f2)
<1>4. field \in Pieces(text, {Space})
  <2>1. f2 \in 1..Len(text)
    BY <1>3
  <2> QED
    BY <1>2, <1>3, <2>1, FieldProperties
<1>5. PICK c \in (f1 - 1)..f2 :
        /\ c = f1 - 1 \/ text[c] = ":"
        /\ \A k \in (c + 1)..f2 : text[k] # ":"
        /\ LocalName(field) = SubSeq(text, c + 1, f2)
  <2>1. \E c \in (f1 - 1)..f2 :
          /\ LastColon(text, f1, f2, c)
          /\ LocalName(field) = SubSeq(text, c + 1, f2)
    BY <1>3, LocalNameProperties
  <2> HIDE DEF field
  <2> QED
    BY <2>1 DEF LastColon
<1> HIDE DEF field
<1>6. \A j \in a..f2 : text[j] # ":"
  <2> SUFFICES ASSUME NEW j \in a..f2, text[j] = ":" PROVE FALSE
    OBVIOUS
  <2>1. j \in (b + 1)..Len(text)
    <3>1. ~(j \in a..b)
      BY <1>1 DEF Marks
    <3> QED
      BY <1>1, <1>3, <3>1
  <2>2. PICK k \in (b + 1)..(j - 1) : text[k] = Space
    BY <1>1, <2>1
  <2>3. k \in f1..f2
    BY <1>1, <1>2, <1>3, <2>1
  <2> QED
    BY <1>3, <2>2, <2>3
<1>7. c < a /\ c \in Nat
  <2>1. CASE c = f1 - 1
    BY <1>2, <1>3, <2>1
  <2>2. CASE c # f1 - 1
    <3>1. ~(c \in a..f2)
      BY <1>5, <1>6, <2>2
    <3> QED
      BY <1>3, <1>5, <3>1
  <2> QED
    BY <2>1, <2>2
<1> DEFINE name == SubSeq(text, c + 1, f2)
<1>8. /\ name \in Strings /\ Len(name) = f2 - c
      /\ \A k \in 1..(f2 - c) : name[k] = text[c + k]
  <2>1. c + 1 \in 1..(Len(text) + 1) /\ f2 \in ((c + 1) - 1)..Len(text)
    BY <1>1, <1>3, <1>7
  <2>2. /\ name \in Strings /\ Len(name) = f2 - (c + 1) + 1
        /\ \A k \in 1..(f2 - (c + 1) + 1) : name[k] = text[(c + 1) + k - 1]
    BY <2>1, PartProperties
  <2>3. f2 - (c + 1) + 1 = f2 - c /\ \A k \in 1..(f2 - c) : (c + 1) + k - 1 = c + k
    BY <1>3, <1>7
  <2> HIDE DEF name
  <2> QED
    BY <2>2, <2>3
<1> HIDE DEF name
<1>9. a - c \in 1..(f2 - c) /\ b - c \in (a - c)..(f2 - c)
  BY <1>1, <1>2, <1>3, <1>7
<1>10. a - c = 1 \/ name[(a - c) - 1] \in Blanks
  <2> SUFFICES ASSUME a - c # 1 PROVE name[(a - c) - 1] \in Blanks
    OBVIOUS
  <2>1. /\ a - 1 \in (c + 1)..f2 /\ (a - c) - 1 \in 1..(f2 - c)
        /\ c + ((a - c) - 1) = a - 1 /\ a # 1
    BY <1>1, <1>2, <1>3, <1>7
  <2>2. text[a - 1] \in Marks /\ text[a - 1] # ":"
    BY <1>1, <1>5, <2>1
  <2> QED
    BY <1>8, <2>1, <2>2 DEF Marks
<1>11. b - c = f2 - c \/ name[(b - c) + 1] \in Blanks
  <2> SUFFICES ASSUME b - c # f2 - c PROVE name[(b - c) + 1] \in Blanks
    OBVIOUS
  <2>1. /\ (b - c) + 1 \in 1..(f2 - c) /\ c + ((b - c) + 1) = b + 1
        /\ b # Len(text)
    BY <1>1, <1>2, <1>3, <1>7
  <2> QED
    BY <1>1, <1>8, <2>1
<1>12. ASSUME NEW k \in (a - c)..(b - c) PROVE name[k] \notin Blanks
  <2>1. c + k \in a..b /\ k \in 1..(f2 - c)
    BY <1>1, <1>2, <1>3, <1>7
  <2> QED
    BY <1>1, <1>8, <2>1 DEF Marks
<1>13. Run(name, Blanks, a - c, b - c)
  BY <1>8, <1>9, <1>10, <1>11, <1>12 DEF Run
<1>14. SubSeq(name, a - c, b - c) = SubSeq(text, a, b) /\ SubSeq(text, a, b) # <<>>
  <2>1. SubSeq(name, a - c, b - c) = SubSeq(text, c + (a - c), c + (b - c))
    <3>1. /\ c + 1 \in 1..(Len(text) + 1) /\ f2 \in ((c + 1) - 1)..Len(text)
          /\ a - c \in 1..(f2 - (c + 1) + 2)
          /\ b - c \in ((a - c) - 1)..(f2 - (c + 1) + 1)
      BY <1>1, <1>3, <1>7, <1>9
    <3>2. SubSeq(name, a - c, b - c)
            = SubSeq(text, (c + 1) + (a - c) - 1, (c + 1) + (b - c) - 1)
      BY <3>1, PartOfPart DEF name
    <3>3. /\ (c + 1) + (a - c) - 1 = c + (a - c)
          /\ (c + 1) + (b - c) - 1 = c + (b - c)
      BY <1>3, <1>7
    <3> QED
      BY <3>2, <3>3
  <2>2. c + (a - c) = a /\ c + (b - c) = b
    BY <1>3, <1>7
  <2>3. Len(SubSeq(text, a, b)) = b - a + 1 /\ b - a + 1 # 0
    <3>1. a \in 1..(Len(text) + 1) /\ b \in (a - 1)..Len(text) /\ b - a + 1 # 0
      BY <1>1
    <3> QED
      BY <3>1, PartProperties
  <2>4. Len(<<>>) = 0
    OBVIOUS
  <2> QED
    BY <2>1, <2>2, <2>3, <2>4
<1>15. SubSeq(text, a, b) \in Pieces(name, Blanks)
  <2>1. a - c \in 1..Len(name) /\ b - c \in 1..Len(name)
    BY <1>8, <1>9, <1>3, <1>7
  <2> QED
    BY <1>8, <1>13, <1>14, <2>1, PiecesProperties
<1>16. SubSeq(text, a, b) \in Tokens(LocalName(field))
  BY <1>5, <1>15 DEF Tokens, name
<1>17. Tokens(LocalName(field)) \ {<<>>} \subseteq KeptNames(text)
  BY <1>4 DEF KeptNames
<1> QED
  BY <1>14, <1>16, <1>17

\* The names that are kept are known by where they stand.
LEMMA KeptNamesProperties ==
  ASSUME NEW text \in Strings, NEW x
  PROVE  x \in KeptNames(text) <=>
           \E a, b \in 1..Len(text) : KeptAt(text, a, b) /\ x = SubSeq(text, a, b)
<1>1. ASSUME x \in KeptNames(text)
      PROVE  \E a, b \in 1..Len(text) : KeptAt(text, a, b) /\ x = SubSeq(text, a, b)
  <2>1. PICK field \in Pieces(text, {Space}) : x \in Tokens(LocalName(field)) /\ x # <<>>
    BY <1>1 DEF KeptNames
  <2>2. PICK f1, f2 \in 1..Len(text) :
          Field(text, f1, f2) /\ field = SubSeq(text, f1, f2)
    BY <2>1, FieldProperties
  <2>3. f2 \in f1..Len(text) /\ Len(text) \in Nat
    BY <2>2 DEF Field, Run, Strings
  <2>4. PICK c : /\ LastColon(text, f1, f2, c) /\ c \in (f1 - 1)..f2
                 /\ LocalName(field) = SubSeq(text, c + 1, f2)
    BY <2>2, <2>3, LocalNameProperties
  <2> DEFINE name == SubSeq(text, c + 1, f2)
  <2>5. name \in Strings
    <3>1. c + 1 \in 1..(Len(text) + 1) /\ f2 \in ((c + 1) - 1)..Len(text)
      BY <2>3, <2>4
    <3> QED
      BY <3>1, PartProperties
  <2>6. x \in Pieces(name, Blanks)
    BY <2>1, <2>4 DEF Tokens
  <2>7. PICK p, q \in 1..Len(name) : Run(name, Blanks, p, q) /\ x = SubSeq(name, p, q)
    <3> HIDE DEF name
    <3> QED
      BY <2>5, <2>6, PiecesProperties
  <2>8. KeptAt(text, c + p, c + q) /\ x = SubSeq(text, c + p, c + q)
    <3>1. /\ Field(text, f1, f2) /\ LastColon(text, f1, f2, c)
          /\ f1 \in Nat /\ f2 \in Nat /\ c \in Nat
      BY <2>2, <2>3, <2>4
    <3>2. p \in Nat /\ q \in Nat
      BY <2>5, <2>7 DEF Strings
    <3>3. /\ KeptAt(text, c + p, c + q)
          /\ SubSeq(SubSeq(text, c + 1, f2), p, q) = SubSeq(text, c + p, c + q)
      BY <2>7, <3>1, <3>2, TokenIsKept
    <3> QED
      BY <2>7, <3>3
  <2>9. c + p \in 1..Len(text) /\ c + q \in 1..Len(text)
    BY <2>3, <2>8 DEF KeptAt
  <2> QED
    BY <2>8, <2>9
<1> QED
  BY <1>1, KeptIsToken

-----------------------------------------------------------------------------
(* The stripping. *)

\* cut is text without what stands from first to last: behind a space or the
\* beginning, without a space, up to the last colon of all.
Cuts(text, cut, first, last) ==
  /\ last \in 1..Len(text) /\ first \in 1..last
  /\ text[last] = ":"
  /\ \A k \in (last + 1)..Len(text) : text[k] # ":"
  /\ first = 1 \/ text[first - 1] = Space
  /\ \A k \in first..last : text[k] # Space
  /\ Len(cut) = Len(text) - (last - first + 1)
  /\ \A k \in 1..(first - 1) : cut[k] = text[k]
  /\ \A k \in first..Len(cut) : cut[k] = text[k + (last - first + 1)]

\* One turn of the loop cuts out a prefix.
LEMMA StripProperties ==
  ASSUME types \in Strings, Positions(types, ":") # {}, StripLast
  PROVE  /\ types' \in Strings
         /\ \E first, last \in 1..Len(types) : Cuts(types, types', first, last)
<1> DEFINE colons == Positions(types, ":")
           last == Max(colons)
           spaces == {i \in Positions(types, Space) : i < last}
           first == IF spaces = {} THEN 1 ELSE Max(spaces) + 1
<1>1. Len(types) \in Nat /\ colons \subseteq 1..Len(types)
  BY DEF Positions, Strings
<1>2. last \in colons /\ \A i \in colons : i <= last
  <2> HIDE DEF colons
  <2> QED
    BY <1>1, MaxProperties DEF colons
<1>3. last \in 1..Len(types) /\ types[last] = ":"
  BY <1>1, <1>2 DEF Positions
<1>4. \A k \in (last + 1)..Len(types) : types[k] # ":"
  <2> SUFFICES ASSUME NEW k \in (last + 1)..Len(types), types[k] = ":" PROVE FALSE
    OBVIOUS
  <2> HIDE DEF last
  <2>1. k \in 1..Len(types) /\ ~(k <= last)
    BY <1>1, <1>3
  <2> QED
    BY <1>2, <2>1 DEF Positions
<1>5. types' = SubSeq(types, 1, first - 1) \o SubSeq(types, last + 1, Len(types))
  BY DEF StripLast
<1>6. /\ first \in 1..last
      /\ first = 1 \/ types[first - 1] = Space
      /\ \A k \in first..last : types[k] # Space
  <2> HIDE DEF last
  <2>1. spaces \subseteq 1..Len(types)
    BY DEF Positions
  <2>2. CASE spaces = {}
    <3>1. first = 1
      BY <2>2
    <3>2. ASSUME NEW k \in 1..last PROVE types[k] # Space
      <4>1. k = last \/ (k \in 1..Len(types) /\ k < last)
        BY <1>1, <1>3
      <4> QED
        BY <1>3, <2>2, <4>1, CharactersDiffer DEF Positions
    <3> HIDE DEF first
    <3> QED
      BY <1>3, <3>1, <3>2
  <2>3. CASE spaces # {}
    <3>1. PICK m \in spaces : m = Max(spaces) /\ \A i \in spaces : i <= m
      <4> HIDE DEF spaces
      <4> QED
        BY <1>1, <2>1, <2>3, MaxProperties
    <3>2. first = m + 1
      BY <2>3, <3>1
    <3>3. m \in 1..Len(types) /\ m < last /\ types[m] = Space
      BY <3>1 DEF Positions
    <3>4. ASSUME NEW k \in (m + 1)..last PROVE types[k] # Space
      <4>1. k = last \/ (k \in 1..Len(types) /\ k < last /\ ~(k <= m))
        BY <1>1, <1>3, <3>3
      <4> QED
        BY <1>3, <3>1, <4>1, CharactersDiffer DEF Positions
    <3> HIDE DEF first
    <3> QED
      BY <1>1, <1>3, <3>2, <3>3, <3>4
  <2> QED
    BY <2>2, <2>3
<1> HIDE DEF last, first
<1> DEFINE left == SubSeq(types, 1, first - 1)
           right == SubSeq(types, last + 1, Len(types))
<1>7. /\ left \in Strings /\ Len(left) = first - 1
      /\ \A k \in 1..(first - 1) : left[k] = types[k]
  <2>1. 1 \in 1..(Len(types) + 1) /\ first - 1 \in (1 - 1)..Len(types)
    BY <1>1, <1>3, <1>6
  <2>2. (first - 1) - 1 + 1 = first - 1 /\ \A k \in 1..(first - 1) : 1 + k - 1 = k
    BY <1>3, <1>6
  <2>3. /\ left \in Strings /\ Len(left) = (first - 1) - 1 + 1
        /\ \A k \in 1..((first - 1) - 1 + 1) : left[k] = types[1 + k - 1]
    BY <2>1, PartProperties
  <2> HIDE DEF left
  <2> QED
    BY <2>2, <2>3
<1>8. /\ right \in Strings /\ Len(right) = Len(types) - last
      /\ \A k \in 1..(Len(types) - last) : right[k] = types[last + k]
  <2>1. last + 1 \in 1..(Len(types) + 1) /\ Len(types) \in ((last + 1) - 1)..Len(types)
    BY <1>1, <1>3
  <2>2. /\ Len(types) - (last + 1) + 1 = Len(types) - last
        /\ \A k \in 1..(Len(types) - last) : (last + 1) + k - 1 = last + k
    BY <1>1, <1>3
  <2>3. /\ right \in Strings /\ Len(right) = Len(types) - (last + 1) + 1
        /\ \A k \in 1..(Len(types) - (last + 1) + 1) : right[k] = types[(last + 1) + k - 1]
    BY <2>1, PartProperties
  <2> HIDE DEF right
  <2> QED
    BY <2>2, <2>3
<1>9. types' = left \o right
  BY <1>5
<1> HIDE DEF left, right
<1>10. /\ types' \in Strings /\ Len(types') = Len(left) + Len(right)
       /\ \A k \in 1..(Len(left) + Len(right)) :
            types'[k] = IF k <= Len(left) THEN left[k] ELSE right[k - Len(left)]
  BY <1>7, <1>8, <1>9, ConcatProperties DEF Strings
<1>11. Len(types') = Len(types) - (last - first + 1)
  BY <1>1, <1>3, <1>6, <1>7, <1>8, <1>10
<1>12. \A k \in 1..(first - 1) : types'[k] = types[k]
  BY <1>1, <1>3, <1>6, <1>7, <1>8, <1>10
<1>13. ASSUME NEW k \in first..Len(types')
       PROVE  types'[k] = types[k + (last - first + 1)]
  <2>1. /\ k \in 1..(Len(left) + Len(right)) /\ ~(k <= Len(left))
        /\ k - Len(left) \in 1..(Len(types) - last)
        /\ last + (k - Len(left)) = k + (last - first + 1)
    BY <1>1, <1>3, <1>6, <1>7, <1>8, <1>10
  <2> QED
    BY <1>8, <1>10, <2>1
<1>14. first \in 1..Len(types)
  BY <1>1, <1>3, <1>6
<1>15. Cuts(types, types', first, last)
  BY <1>3, <1>4, <1>6, <1>11, <1>12, <1>13 DEF Cuts
<1> QED
  BY <1>3, <1>10, <1>14, <1>15

\* In front of the cut the same names are kept.
LEMMA KeptInFront ==
  ASSUME NEW text \in Strings, NEW cut \in Strings,
         NEW first \in 1..Len(text), NEW last \in 1..Len(text),
         Cuts(text, cut, first, last),
         NEW a \in Nat, NEW b \in Nat, b < first
  PROVE  KeptAt(cut, a, b) <=> KeptAt(text, a, b)
<1> DEFINE d == last - first + 1
<1>1. /\ Len(text) \in Nat /\ Len(cut) \in Nat /\ first <= last
      /\ text[last] = ":"
      /\ \A k \in (last + 1)..Len(text) : text[k] # ":"
      /\ first = 1 \/ text[first - 1] = Space
      /\ Len(cut) = Len(text) - d /\ d \in Nat
      /\ \A k \in 1..(first - 1) : cut[k] = text[k]
      /\ \A k \in first..Len(cut) : cut[k] = text[k + d]
  BY DEF Cuts, Strings
<1> HIDE DEF d
<1>2. \A k \in first..Len(cut) : cut[k] # ":"
  <2> SUFFICES ASSUME NEW k \in first..Len(cut) PROVE cut[k] # ":"
    OBVIOUS
  <2>1. k + d \in (last + 1)..Len(text)
    BY <1>1 DEF d
  <2> QED
    BY <1>1, <2>1
<1>3. first - 1 <= Len(cut) /\ first - 1 < Len(text)
  BY <1>1 DEF d
<1>4. ASSUME KeptAt(cut, a, b) PROVE KeptAt(text, a, b)
  <2>1. /\ a \in 1..Len(cut) /\ b \in a..Len(cut)
        /\ a = 1 \/ cut[a - 1] \in Marks
        /\ b = Len(cut) \/ cut[b + 1] \in Blanks
        /\ \A k \in a..b : cut[k] \notin Marks
    BY <1>4 DEF KeptAt
  <2>2. b < first - 1
    <3> SUFFICES ASSUME b = first - 1 PROVE FALSE
      BY <1>1
    <3>1. text[b] = Space /\ b \in a..b /\ b \in 1..(first - 1)
      BY <1>1, <2>1
    <3> QED
      BY <1>1, <2>1, <3>1, CharactersDiffer DEF Marks
  <2>3. /\ a \in 1..Len(text) /\ b \in a..Len(text) /\ b + 1 \in 1..(first - 1)
        /\ b + 1 \in (b + 1)..(first - 1)
    BY <1>1, <1>3, <2>1, <2>2
  <2>4. a = 1 \/ text[a - 1] \in Marks
    BY <1>1, <2>1, <2>2
  <2>5. text[b + 1] \in Blanks
    <3>1. text[b + 1] = cut[b + 1]
      BY <1>1, <2>3
    <3>2. b # Len(cut)
      BY <1>1, <1>3, <2>1, <2>2
    <3> QED
      BY <2>1, <3>1, <3>2
  <2>6. \A k \in a..b : text[k] \notin Marks
    <3>1. \A k \in a..b : k \in 1..(first - 1)
      BY <1>1, <2>2, <2>3
    <3> QED
      BY <1>1, <2>1, <3>1
  <2>7. ASSUME NEW j \in (b + 1)..Len(text), text[j] = ":"
        PROVE  \E k \in (b + 1)..(j - 1) : text[k] = Space
    <3>1. CASE j \in (b + 1)..(first - 1)
      <4>1. j \in (b + 1)..Len(cut) /\ cut[j] = ":"
        BY <1>1, <1>3, <2>1, <2>7, <3>1
      <4>2. PICK k \in (b + 1)..(j - 1) : cut[k] = Space
        BY <1>4, <4>1 DEF KeptAt
      <4> QED
        BY <1>1, <2>1, <3>1, <4>2
    <3>2. CASE ~(j \in (b + 1)..(first - 1))
      <4>1. first - 1 \in (b + 1)..(j - 1) /\ first # 1
        BY <1>1, <2>1, <2>2, <3>2
      <4> QED
        BY <1>1, <4>1
    <3> QED
      BY <3>1, <3>2
  <2> QED
    BY <2>3, <2>4, <2>5, <2>6, <2>7 DEF KeptAt
<1>5. ASSUME KeptAt(text, a, b) PROVE KeptAt(cut, a, b)
  <2>1. /\ a \in 1..Len(text) /\ b \in a..Len(text)
        /\ a = 1 \/ text[a - 1] \in Marks
        /\ b = Len(text) \/ text[b + 1] \in Blanks
        /\ \A k \in a..b : text[k] \notin Marks
    BY <1>5 DEF KeptAt
  <2>2. b < first - 1
    <3> SUFFICES ASSUME b = first - 1 PROVE FALSE
      BY <1>1
    <3>1. text[b] = Space /\ b \in a..b
      BY <1>1, <2>1
    <3> QED
      BY <1>1, <2>1, <3>1, CharactersDiffer DEF Marks
  <2>3. /\ a \in 1..Len(cut) /\ b \in a..Len(cut) /\ b + 1 \in 1..(first - 1)
        /\ b # Len(text)
    BY <1>1, <1>3, <2>1, <2>2
  <2>4. a = 1 \/ cut[a - 1] \in Marks
    BY <1>1, <2>1, <2>2
  <2>5. cut[b + 1] \in Blanks
    BY <1>1, <2>1, <2>3
  <2>6. \A k \in a..b : cut[k] \notin Marks
    BY <1>1, <2>1, <2>2
  <2>7. ASSUME NEW j \in (b + 1)..Len(cut), cut[j] = ":"
        PROVE  \E k \in (b + 1)..(j - 1) : cut[k] = Space
    <3>1. j \in (b + 1)..(first - 1)
      BY <1>1, <1>2, <2>7
    <3>2. j \in (b + 1)..Len(text) /\ text[j] = ":"
      BY <1>1, <1>3, <2>1, <2>7, <3>1
    <3>3. PICK k \in (b + 1)..(j - 1) : text[k] = Space
      BY <1>5, <3>2 DEF KeptAt
    <3>4. k \in 1..(first - 1)
      BY <1>1, <2>1, <3>1
    <3> QED
      BY <1>1, <3>3, <3>4
  <2> QED
    BY <2>3, <2>4, <2>5, <2>6, <2>7 DEF KeptAt
<1> QED
  BY <1>4, <1>5

\* Behind the cut the same names are kept, only closer to the beginning.
LEMMA KeptBehind ==
  ASSUME NEW text \in Strings, NEW cut \in Strings,
         NEW first \in 1..Len(text), NEW last \in 1..Len(text),
         Cuts(text, cut, first, last),
         NEW a \in Nat, NEW b \in Nat, first <= a,
         NEW i \in Nat, i = a + (last - first + 1),
         NEW j \in Nat, j = b + (last - first + 1)
  PROVE  KeptAt(cut, a, b) <=> KeptAt(text, i, j)
<1>0. PICK d \in Nat : d = last - first + 1 /\ i = a + d /\ j = b + d
  <2>1. last - first + 1 \in Nat
    BY DEF Cuts
  <2> QED
    BY <2>1
<1>1. /\ Len(text) \in Nat /\ Len(cut) \in Nat /\ first <= last
      /\ text[last] = ":"
      /\ \A k \in (last + 1)..Len(text) : text[k] # ":"
      /\ first = 1 \/ text[first - 1] = Space
      /\ Len(cut) = Len(text) - d
      /\ \A k \in 1..(first - 1) : cut[k] = text[k]
      /\ \A k \in first..Len(cut) : cut[k] = text[k + d]
  BY <1>0 DEF Cuts, Strings
<1>2. first + d = last + 1
  BY <1>0
<1>3. /\ a \in 1..Len(cut) <=> a + d \in 1..Len(text)
      /\ b \in a..Len(cut) <=> b + d \in (a + d)..Len(text)
      /\ b = Len(cut) <=> b + d = Len(text)
  BY <1>1, <1>2
<1> SUFFICES ASSUME a \in 1..Len(cut), b \in a..Len(cut)
             PROVE  KeptAt(cut, a, b) <=> KeptAt(text, a + d, b + d)
  BY <1>0, <1>3 DEF KeptAt
<1>4. \/ /\ a = 1 \/ cut[a - 1] \in Marks
         /\ a + d = 1 \/ text[(a + d) - 1] \in Marks
      \/ /\ a # 1 /\ a + d # 1
         /\ cut[a - 1] = text[(a + d) - 1]
  <2>1. CASE a = first
    <3>1. (a + d) - 1 = last
      BY <1>2, <2>1
    <3>2. a = 1 \/ (a - 1 \in 1..(first - 1) /\ a - 1 = first - 1 /\ first # 1)
      BY <2>1
    <3> QED
      BY <1>1, <3>1, <3>2, CharactersDiffer DEF Marks
  <2>2. CASE a # first
    <3>1. /\ a - 1 \in first..Len(cut) /\ (a - 1) + d = (a + d) - 1
          /\ a # 1 /\ a + d # 1
      BY <1>1, <2>2
    <3> QED
      BY <1>1, <3>1
  <2> QED
    BY <2>1, <2>2
<1>5. b # Len(cut) => cut[b + 1] = text[(b + d) + 1]
  <2> SUFFICES ASSUME b # Len(cut) PROVE cut[b + 1] = text[(b + d) + 1]
    OBVIOUS
  <2>1. PICK k \in first..Len(cut) : k = b + 1
    <3>1. Len(cut) \in Nat /\ a <= b /\ b <= Len(cut)
      BY <1>1
    <3>2. first <= b + 1 /\ b + 1 <= Len(cut)
      BY <3>1
    <3> QED
      BY <3>1, <3>2
  <2>2. cut[k] = text[k + d]
    BY <1>1
  <2>3. k + d = (b + d) + 1
    BY <2>1
  <2> QED
    BY <2>1, <2>2, <2>3
<1>6. (\A k \in a..b : cut[k] \notin Marks)
        <=> (\A k \in (a + d)..(b + d) : text[k] \notin Marks)
  <2>1. \A k \in a..b : k \in first..Len(cut) /\ k + d \in (a + d)..(b + d)
    BY <1>1
  <2>2. \A k \in (a + d)..(b + d) : k - d \in a..b /\ (k - d) + d = k
    BY <1>1
  <2>3. \A k \in a..b : cut[k] = text[k + d]
    BY <1>1, <2>1
  <2>4. ASSUME \A k \in a..b : cut[k] \notin Marks, NEW k \in (a + d)..(b + d)
        PROVE  text[k] \notin Marks
    BY <2>2, <2>3, <2>4
  <2>5. ASSUME \A k \in (a + d)..(b + d) : text[k] \notin Marks, NEW k \in a..b
        PROVE  cut[k] \notin Marks
    BY <2>1, <2>3, <2>5
  <2> QED
    BY <2>4, <2>5
<1>7. \A k \in ((b + d) + 1)..Len(text) : text[k] # ":"
  <2> SUFFICES ASSUME NEW k \in ((b + d) + 1)..Len(text) PROVE text[k] # ":"
    OBVIOUS
  <2>1. k \in (last + 1)..Len(text)
    BY <1>1, <1>2
  <2> QED
    BY <1>1, <2>1
<1>8. \A k \in (b + 1)..Len(cut) : cut[k] # ":"
  <2> SUFFICES ASSUME NEW k \in (b + 1)..Len(cut) PROVE cut[k] # ":"
    OBVIOUS
  <2>1. k \in first..Len(cut) /\ k + d \in (last + 1)..Len(text)
    BY <1>1, <1>2
  <2> QED
    BY <1>1, <2>1
<1> QED
  BY <1>3, <1>4, <1>5, <1>6, <1>7, <1>8 DEF KeptAt

\* No name is kept that the cut touches.
LEMMA KeptApart ==
  ASSUME NEW text \in Strings, NEW cut \in Strings,
         NEW first \in 1..Len(text), NEW last \in 1..Len(text),
         Cuts(text, cut, first, last),
         NEW a \in Nat, NEW b \in Nat
  PROVE  /\ KeptAt(text, a, b) => b < first \/ last < a
         /\ KeptAt(cut, a, b) => b < first \/ first <= a
<1>1. /\ Len(text) \in Nat /\ Len(cut) \in Nat /\ first <= last
      /\ text[last] = ":"
      /\ first = 1 \/ text[first - 1] = Space
      /\ \A k \in first..last : text[k] # Space
      /\ \A k \in 1..(first - 1) : cut[k] = text[k]
  BY DEF Cuts, Strings
<1>2. ASSUME KeptAt(text, a, b), first <= b, a <= last PROVE FALSE
  <2>1. last \notin a..b
    BY <1>1, <1>2 DEF KeptAt, Marks
  <2>2. last \in (b + 1)..Len(text)
    BY <1>1, <1>2, <2>1
  <2>3. PICK k \in (b + 1)..(last - 1) : text[k] = Space
    BY <1>1, <1>2, <2>2 DEF KeptAt
  <2> QED
    BY <1>1, <1>2, <2>3
<1>3. ASSUME KeptAt(cut, a, b), first <= b, a < first PROVE FALSE
  <2>1. a \in 1..Len(cut) /\ \A k \in a..b : cut[k] \notin Marks
    BY <1>3 DEF KeptAt
  <2>2. first # 1 /\ first - 1 \in a..b /\ first - 1 \in 1..(first - 1)
    BY <1>1, <1>3, <2>1
  <2> QED
    BY <1>1, <2>1, <2>2, CharactersDiffer DEF Marks
<1> QED
  BY <1>2, <1>3

\* From a to b stands after the cut what stood from i to j before.
Moves(first, last, a, b, i, j) ==
  \/ b < first /\ i = a /\ j = b
  \/ first <= a /\ i = a + (last - first + 1) /\ j = b + (last - first + 1)

\* A part in front of the cut, or behind it, is what it was.
LEMMA PartsStay ==
  ASSUME NEW text \in Strings, NEW cut \in Strings,
         NEW first \in 1..Len(text), NEW last \in 1..Len(text),
         Cuts(text, cut, first, last),
         NEW a \in 1..Len(cut), NEW b \in a..Len(cut),
         NEW i \in 1..Len(text), NEW j \in i..Len(text),
         Moves(first, last, a, b, i, j)
  PROVE  SubSeq(cut, a, b) = SubSeq(text, i, j)
<1> USE DEF Moves
<1> DEFINE new == SubSeq(cut, a, b)
           old == SubSeq(text, i, j)
<1>1. /\ Len(text) \in Nat /\ Len(cut) \in Nat /\ first <= last
      /\ \A k \in 1..(first - 1) : cut[k] = text[k]
      /\ \A k \in first..Len(cut) : cut[k] = text[k + (last - first + 1)]
  BY DEF Cuts, Strings
<1>2. /\ new \in Strings /\ Len(new) = b - a + 1
      /\ \A k \in 1..(b - a + 1) : new[k] = cut[a + k - 1]
  <2>1. a \in 1..(Len(cut) + 1) /\ b \in (a - 1)..Len(cut)
    BY <1>1
  <2> QED
    BY <2>1, PartProperties
<1>3. /\ old \in Strings /\ Len(old) = j - i + 1
      /\ \A k \in 1..(j - i + 1) : old[k] = text[i + k - 1]
  <2>1. i \in 1..(Len(text) + 1) /\ j \in (i - 1)..Len(text)
    BY <1>1
  <2> QED
    BY <2>1, PartProperties
<1>4. j - i = b - a
  BY <1>1
<1>5. ASSUME NEW k \in 1..(b - a + 1) PROVE new[k] = old[k]
  <2> HIDE DEF new, old
  <2>1. CASE b < first /\ i = a /\ j = b
    <3>1. a + k - 1 \in 1..(first - 1) /\ i + k - 1 = a + k - 1
      BY <1>1, <2>1
    <3> QED
      BY <1>1, <1>2, <1>3, <1>4, <3>1
  <2>2. CASE first <= a /\ i = a + (last - first + 1) /\ j = b + (last - first + 1)
    <3>1. /\ a + k - 1 \in first..Len(cut)
          /\ i + k - 1 = (a + k - 1) + (last - first + 1)
      BY <1>1, <2>2
    <3> QED
      BY <1>1, <1>2, <1>3, <1>4, <3>1
  <2> QED
    BY <2>1, <2>2
<1> HIDE DEF new, old
<1>6. new = old
  BY <1>2, <1>3, <1>4, <1>5, SeqEqual DEF Strings
<1> QED
  BY <1>6 DEF new, old

\* A turn of the loop keeps the names.
LEMMA CutKeepsNames ==
  ASSUME NEW text \in Strings, NEW cut \in Strings,
         NEW first \in 1..Len(text), NEW last \in 1..Len(text),
         Cuts(text, cut, first, last)
  PROVE  KeptNames(cut) = KeptNames(text)
<1>1. /\ Len(text) \in Nat /\ Len(cut) \in Nat /\ first <= last
      /\ Len(cut) = Len(text) - (last - first + 1)
  BY DEF Cuts, Strings
<1>2. ASSUME NEW x, x \in KeptNames(cut) PROVE x \in KeptNames(text)
  <2>1. PICK a, b \in 1..Len(cut) : KeptAt(cut, a, b) /\ x = SubSeq(cut, a, b)
    BY <1>2, KeptNamesProperties
  <2>2. b \in a..Len(cut) /\ a \in Nat /\ b \in Nat
    BY <1>1, <2>1 DEF KeptAt
  <2>3. CASE b < first
    <3>1. KeptAt(text, a, b)
      BY <2>1, <2>2, <2>3, KeptInFront
    <3>2. a \in 1..Len(text) /\ b \in 1..Len(text) /\ b \in a..Len(text)
      BY <1>1, <2>2, <2>3
    <3>3. x = SubSeq(text, a, b)
      <4>1. Moves(first, last, a, b, a, b)
        BY <2>3 DEF Moves
      <4> QED
        BY <2>1, <2>2, <3>2, <4>1, PartsStay
    <3> QED
      BY <3>1, <3>2, <3>3, KeptNamesProperties
  <2>4. CASE first <= a
    <3>1. PICK i, j \in Nat : i = a + (last - first + 1) /\ j = b + (last - first + 1)
      BY <1>1, <2>2
    <3>2. KeptAt(text, i, j)
      BY <2>1, <2>2, <2>4, <3>1, KeptBehind
    <3>3. i \in 1..Len(text) /\ j \in 1..Len(text) /\ j \in i..Len(text)
      BY <1>1, <2>2, <3>1
    <3>4. x = SubSeq(text, i, j)
      <4>1. Moves(first, last, a, b, i, j)
        BY <2>4, <3>1 DEF Moves
      <4> QED
        BY <2>1, <2>2, <3>3, <4>1, PartsStay
    <3> QED
      BY <3>2, <3>3, <3>4, KeptNamesProperties
  <2> QED
    BY <2>1, <2>2, <2>3, <2>4, KeptApart
<1>3. ASSUME NEW x, x \in KeptNames(text) PROVE x \in KeptNames(cut)
  <2>1. PICK i, j \in 1..Len(text) : KeptAt(text, i, j) /\ x = SubSeq(text, i, j)
    BY <1>3, KeptNamesProperties
  <2>2. j \in i..Len(text) /\ i \in Nat /\ j \in Nat
    BY <1>1, <2>1 DEF KeptAt
  <2>3. CASE j < first
    <3>1. KeptAt(cut, i, j)
      BY <2>1, <2>2, <2>3, KeptInFront
    <3>2. i \in 1..Len(cut) /\ j \in i..Len(cut) /\ j \in 1..Len(cut)
      BY <1>1, <2>2, <3>1 DEF KeptAt
    <3>3. x = SubSeq(cut, i, j)
      <4>1. Moves(first, last, i, j, i, j)
        BY <2>3 DEF Moves
      <4> QED
        BY <2>1, <2>2, <3>2, <4>1, PartsStay
    <3> QED
      BY <3>1, <3>2, <3>3, KeptNamesProperties
  <2>4. CASE last < i
    <3>1. PICK a, b \in Nat : i = a + (last - first + 1) /\ j = b + (last - first + 1)
      <4>1. i - (last - first + 1) \in Nat /\ j - (last - first + 1) \in Nat
        BY <1>1, <2>2, <2>4
      <4> QED
        BY <4>1
    <3>2. first <= a
      BY <1>1, <2>2, <2>4, <3>1
    <3>3. KeptAt(cut, a, b)
      BY <2>1, <2>2, <3>1, <3>2, KeptBehind
    <3>4. a \in 1..Len(cut) /\ b \in a..Len(cut) /\ b \in 1..Len(cut)
      BY <1>1, <3>1, <3>3 DEF KeptAt
    <3>5. x = SubSeq(cut, a, b)
      <4>1. Moves(first, last, a, b, i, j)
        BY <3>1, <3>2 DEF Moves
      <4> QED
        BY <2>1, <2>2, <3>4, <4>1, PartsStay
    <3> QED
      BY <3>3, <3>4, <3>5, KeptNamesProperties
  <2> QED
    BY <2>1, <2>2, <2>3, <2>4, KeptApart
<1> QED
  BY <1>2, <1>3

-----------------------------------------------------------------------------
(* The comparison. *)

\* Pieces are not empty.
LEMMA PieceNotEmpty ==
  ASSUME NEW text \in Strings, NEW a \in 1..Len(text), NEW b \in a..Len(text)
  PROVE  /\ SubSeq(text, a, b) \in Strings
         /\ SubSeq(text, a, b) # <<>>
<1>1. /\ a \in 1..(Len(text) + 1) /\ b \in (a - 1)..Len(text)
      /\ b - a + 1 # 0
  BY DEF Strings
<1>2. SubSeq(text, a, b) \in Strings /\ Len(SubSeq(text, a, b)) = b - a + 1
  BY <1>1, PartProperties
<1>3. Len(<<>>) = 0
  OBVIOUS
<1> QED
  BY <1>1, <1>2, <1>3

\* Once no colon is left, the names that are kept are the tokens.
LEMMA KeptAreTokens ==
  ASSUME NEW text \in Strings, Positions(text, ":") = {}
  PROVE  \A x : x # <<>> => (x \in Tokens(text) <=> x \in KeptNames(text))
<1>1. \A k \in 1..Len(text) : text[k] # ":"
  BY DEF Positions
<1>2. Len(text) \in Nat
  BY DEF Strings
<1>3. \A a, b \in 1..Len(text) : KeptAt(text, a, b) <=> Run(text, Blanks, a, b)
  <2> SUFFICES ASSUME NEW a \in 1..Len(text), NEW b \in 1..Len(text)
               PROVE  KeptAt(text, a, b) <=> Run(text, Blanks, a, b)
    OBVIOUS
  <2>1. a # 1 => (text[a - 1] \in Marks <=> text[a - 1] \in Blanks)
    <3>1. a # 1 => a - 1 \in 1..Len(text)
      BY <1>2
    <3> QED
      BY <1>1, <3>1 DEF Marks
  <2>2. b \in a..Len(text) =>
          \A k \in a..b : text[k] \notin Marks <=> text[k] \notin Blanks
    <3>1. b \in a..Len(text) => \A k \in a..b : k \in 1..Len(text)
      BY <1>2
    <3> QED
      BY <1>1, <3>1 DEF Marks
  <2>3. \A k \in (b + 1)..Len(text) : text[k] # ":"
    <3>1. \A k \in (b + 1)..Len(text) : k \in 1..Len(text)
      BY <1>2
    <3> QED
      BY <1>1, <3>1
  <2> QED
    BY <2>1, <2>2, <2>3 DEF KeptAt, Run
<1>4. \A x : x \in Pieces(text, Blanks) <=> x \in KeptNames(text)
  BY <1>3, PiecesProperties, KeptNamesProperties
<1> QED
  BY <1>4 DEF Tokens

\* The type of the daemon is one name.
LEMMA OwnTokens ==
  /\ OwnTypes # <<>>
  /\ Tokens(OwnTypes) = {OwnTypes}
<1> DEFINE n == Len(OwnTypes)
<1>1. /\ OwnTypes \in Strings /\ OwnTypes # <<>> /\ n \in Nat /\ n # 0
      /\ \A k \in 1..n : OwnTypes[k] \notin Blanks
  <2>1. /\ OwnTypes \in Seq(Letters) /\ OwnTypes # <<>>
        /\ Letters \cap Blanks = {} /\ Letters \subseteq Characters
    BY OwnTypesAssumption, LettersAssumption DEF Characters
  <2>2. OwnTypes \in Seq(Characters)
    BY <2>1, SeqMonotonic
  <2>3. n \in Nat /\ n # 0
    BY <2>1, EmptySeq
  <2>4. \A k \in 1..n : OwnTypes[k] \in Letters
    BY <2>1, ElementOfSeq
  <2> QED
    BY <2>1, <2>2, <2>3, <2>4 DEF Strings
<1>2. SubSeq(OwnTypes, 1, n) = OwnTypes
  BY <1>1, SubSeqFull DEF Strings
<1>3. \A a, b \in 1..n : Run(OwnTypes, Blanks, a, b) <=> a = 1 /\ b = n
  <2> SUFFICES ASSUME NEW a \in 1..n, NEW b \in 1..n
               PROVE  Run(OwnTypes, Blanks, a, b) <=> a = 1 /\ b = n
    OBVIOUS
  <2>1. a # 1 => OwnTypes[a - 1] \notin Blanks
    <3>1. a # 1 => a - 1 \in 1..n
      BY <1>1
    <3> QED
      BY <1>1, <3>1
  <2>2. b # n => OwnTypes[b + 1] \notin Blanks
    <3>1. b # n => b + 1 \in 1..n
      BY <1>1
    <3> QED
      BY <1>1, <3>1
  <2>3. n \in 1..n
    BY <1>1
  <2> QED
    BY <1>1, <2>1, <2>2, <2>3 DEF Run
<1>4. \A x : x \in Pieces(OwnTypes, Blanks) <=> x = OwnTypes
  <2>1. 1 \in 1..n /\ n \in 1..n
    BY <1>1
  <2>2. \A x : x \in Pieces(OwnTypes, Blanks) <=>
                 \E a, b \in 1..n :
                   Run(OwnTypes, Blanks, a, b) /\ x = SubSeq(OwnTypes, a, b)
    BY <1>1, PiecesProperties
  <2> HIDE DEF n
  <2> QED
    BY <1>2, <1>3, <2>1, <2>2
<1>5. n # 0 /\ OwnTypes[1] \notin Blanks /\ OwnTypes[n] \notin Blanks
  BY <1>1
<1> QED
  BY <1>1, <1>4, <1>5 DEF Tokens

\* So the types are taken to match just when the own type is a name that is kept.
LEMMA MatchMeansKept ==
  ASSUME NEW text \in Strings, Positions(text, ":") = {}
  PROVE  IsMatched(Tokens(text), Tokens(OwnTypes)) <=> OwnTypes \in KeptNames(text)
BY OwnTokens, KeptAreTokens DEF IsMatched

\* A name that is kept is the local name of a token.
LEMMA KeptIsLocal ==
  ASSUME NEW text \in Strings, NEW x \in KeptNames(text)
  PROVE  x \in LocalNames(text)
<1>1. PICK a, b \in 1..Len(text) : KeptAt(text, a, b) /\ x = SubSeq(text, a, b)
  BY KeptNamesProperties
<1>2. /\ Len(text) \in Nat /\ b \in a..Len(text)
      /\ a = 1 \/ text[a - 1] \in Marks
      /\ b = Len(text) \/ text[b + 1] \in Blanks
      /\ \A k \in a..b : text[k] \notin Marks
  BY <1>1 DEF KeptAt, Strings
<1>3. PICK p \in 1..a, q \in b..Len(text) : Run(text, Blanks, p, q)
  <2>1. \A k \in a..b : text[k] \notin Blanks
    BY <1>2 DEF Marks
  <2> QED
    BY <1>2, <2>1, Enclosing
<1>4. /\ p \in 1..Len(text) /\ q \in p..Len(text)
      /\ \A k \in p..q : text[k] \notin Blanks
  BY <1>3 DEF Run
<1>5. q = b
  <2> SUFFICES ASSUME b < q PROVE FALSE
    BY <1>2, <1>3
  <2>1. b # Len(text) /\ b + 1 \in p..q
    BY <1>2, <1>3, <1>4
  <2> QED
    BY <1>2, <1>4, <2>1
<1>6. PICK c \in (p - 1)..b :
        /\ c = p - 1 \/ text[c] = ":"
        /\ \A k \in (c + 1)..b : text[k] # ":"
        /\ LocalName(SubSeq(text, p, b)) = SubSeq(text, c + 1, b)
  BY <1>4, <1>5, LocalNameProperties DEF LastColon
<1>7. c = a - 1
  <2>1. ~(a <= c)
    <3> SUFFICES ASSUME a <= c PROVE FALSE
      OBVIOUS
    <3>1. c \in a..b /\ c # p - 1
      BY <1>2, <1>3, <1>6
    <3> QED
      BY <1>2, <1>6, <3>1 DEF Marks
  <2>2. ~(c < a - 1)
    <3> SUFFICES ASSUME c < a - 1 PROVE FALSE
      OBVIOUS
    <3>1. /\ a - 1 \in p..q /\ a - 1 \in (c + 1)..b /\ a # 1
      BY <1>2, <1>3, <1>5, <1>6
    <3> QED
      BY <1>2, <1>4, <1>6, <3>1 DEF Marks
  <2> QED
    BY <1>3, <1>6, <2>1, <2>2
<1>8. LocalName(SubSeq(text, p, b)) = x
  <2>1. c + 1 = a
    BY <1>7
  <2> QED
    BY <1>1, <1>6, <2>1
<1>9. SubSeq(text, p, b) \in Tokens(text)
  <2>1. SubSeq(text, p, b) \in Pieces(text, Blanks)
    BY <1>3, <1>4, <1>5, PiecesProperties
  <2> QED
    BY <2>1 DEF Tokens
<1>10. x # <<>>
  BY <1>1, <1>2, PieceNotEmpty
<1> QED
  BY <1>8, <1>9, <1>10 DEF LocalNames

\* A local name that is not kept has a tab behind it and then a prefix.
LEMMA LostBehindTab ==
  ASSUME NEW text \in Strings, NEW x \in LocalNames(text), x \notin KeptNames(text)
  PROVE  PrefixBehindTab(text)
<1>0. Len(text) \in Nat
  BY DEF Strings
<1>1. PICK t \in Tokens(text) : x = LocalName(t) /\ x # <<>>
  BY DEF LocalNames
<1>2. t # <<>>
  <2> SUFFICES ASSUME t = <<>> PROVE FALSE
    OBVIOUS
  <2>1. Positions(t, ":") = {}
    BY DEF Positions
  <2> QED
    BY <1>1, <2>1 DEF LocalName
<1>3. t \in Pieces(text, Blanks)
  BY <1>1, <1>2 DEF Tokens
<1>4. PICK p, q \in 1..Len(text) : Run(text, Blanks, p, q) /\ t = SubSeq(text, p, q)
  BY <1>3, PiecesProperties
<1>5. /\ q \in p..Len(text)
      /\ p = 1 \/ text[p - 1] \in Blanks
      /\ q = Len(text) \/ text[q + 1] \in Blanks
      /\ \A k \in p..q : text[k] \notin Blanks
  BY <1>4 DEF Run
<1>6. PICK c \in (p - 1)..q :
        /\ c = p - 1 \/ text[c] = ":"
        /\ \A k \in (c + 1)..q : text[k] # ":"
        /\ x = SubSeq(text, c + 1, q)
  BY <1>1, <1>4, <1>5, LocalNameProperties DEF LastColon
<1>7. PICK a \in Nat : a = c + 1
  BY <1>0, <1>5, <1>6
<1>8. a \in 1..Len(text) /\ q \in a..Len(text)
  <2>1. c # q
    <3> SUFFICES ASSUME c = q PROVE FALSE
      OBVIOUS
    <3>1. SubSeq(text, c + 1, q) = <<>>
      BY <1>0, <1>5, SubSeqEmpty
    <3> QED
      BY <1>1, <1>6, <3>1
  <2> QED
    BY <1>0, <1>5, <1>6, <1>7, <2>1
<1>9. a = 1 \/ text[a - 1] \in Marks
  <2>1. a - 1 = c
    BY <1>6, <1>7
  <2>2. c = p - 1 => a = p
    BY <1>7
  <2> QED
    BY <1>5, <1>6, <2>1, <2>2 DEF Marks
<1>10. \A k \in a..q : text[k] \notin Marks
  <2>1. \A k \in a..q : k \in p..q /\ k \in (c + 1)..q
    BY <1>0, <1>5, <1>6, <1>7
  <2> QED
    BY <1>5, <1>6, <2>1 DEF Marks
<1>11. ~KeptAt(text, a, q)
  BY <1>6, <1>7, <1>8, KeptNamesProperties
<1>12. PICK j \in (q + 1)..Len(text) :
         text[j] = ":" /\ \A k \in (q + 1)..(j - 1) : text[k] # Space
  BY <1>5, <1>8, <1>9, <1>10, <1>11 DEF KeptAt
<1>13. q # Len(text) /\ j # q + 1 /\ q + 1 \in (q + 1)..(j - 1)
  <2>1. q # Len(text)
    BY <1>0, <1>12
  <2>2. text[q + 1] # ":"
    BY <1>5, <2>1, CharactersDiffer
  <2>3. j # q + 1
    BY <1>12, <2>2
  <2> QED
    BY <1>0, <1>12, <2>1, <2>3
<1>14. text[q + 1] = Tab
  BY <1>5, <1>12, <1>13, CharactersDiffer
<1>15. PICK f1 \in 1..(q + 1), f2 \in j..Len(text) : Field(text, f1, f2)
  <2>1. q + 1 \in 1..Len(text) /\ j \in (q + 1)..Len(text)
    BY <1>0, <1>12, <1>13
  <2>2. ASSUME NEW k \in (q + 1)..j PROVE text[k] # Space
    <3>1. k = j \/ k \in (q + 1)..(j - 1)
      BY <1>0, <1>12
    <3> QED
      BY <1>12, <3>1, CharactersDiffer
  <2>3. PICK i \in 1..Len(text) : i = q + 1
    BY <2>1
  <2>4. j \in i..Len(text) /\ \A k \in i..j : text[k] # Space
    BY <2>1, <2>2, <2>3
  <2>5. \E f1 \in 1..i, f2 \in j..Len(text) : Field(text, f1, f2)
    BY <2>3, <2>4, EnclosingField
  <2> QED
    BY <2>3, <2>5
<1> DEFINE field == SubSeq(text, f1, f2)
<1>16. f1 \in 1..Len(text) /\ f2 \in 1..Len(text) /\ f2 \in f1..Len(text)
  BY <1>0, <1>12, <1>13, <1>15
<1>17. field \in Pieces(text, {Space})
  BY <1>15, <1>16, FieldProperties
<1>18. /\ Len(field) = f2 - f1 + 1
       /\ \A k \in 1..(f2 - f1 + 1) : field[k] = text[f1 + k - 1]
  <2>1. f1 \in 1..(Len(text) + 1) /\ f2 \in (f1 - 1)..Len(text)
    BY <1>0, <1>16
  <2> QED
    BY <2>1, PartProperties
<1> HIDE DEF field
<1>19. PICK u, v \in 1..(f2 - f1 + 1) : /\ f1 + u - 1 = q + 1 /\ f1 + v - 1 = j
                                        /\ u < v
  <2> DEFINE U == q + 1 - f1 + 1
             V == j - f1 + 1
  <2>1. U \in 1..(f2 - f1 + 1) /\ V \in 1..(f2 - f1 + 1) /\ U < V
    BY <1>0, <1>12, <1>13, <1>15, <1>16
  <2>2. f1 + U - 1 = q + 1 /\ f1 + V - 1 = j
    BY <1>0, <1>12, <1>15, <1>16
  <2> HIDE DEF U, V
  <2> QED
    BY <2>1, <2>2
<1>20. u \in Positions(field, Tab) /\ v \in Positions(field, ":")
  BY <1>12, <1>14, <1>18, <1>19 DEF Positions
<1> QED
  BY <1>17, <1>19, <1>20 DEF PrefixBehindTab

-----------------------------------------------------------------------------
(* The theorems. *)

\* The texts are the strings up to the bound.
LEMMA TextsProperties ==
  \A text : text \in Texts <=> text \in Strings /\ Len(text) <= MaxLength
<1> SUFFICES ASSUME NEW text
             PROVE  text \in Texts <=> text \in Strings /\ Len(text) <= MaxLength
  OBVIOUS
<1>1. ASSUME text \in Texts PROVE text \in Strings /\ Len(text) <= MaxLength
  <2>1. PICK n \in 0..MaxLength : text \in [1..n -> Characters]
    BY <1>1 DEF Texts
  <2>2. n \in Nat /\ n <= MaxLength
    BY <2>1, MaxLengthAssumption
  <2>3. text \in Seq(Characters)
    BY <2>1, <2>2, SeqDef
  <2>4. Len(text) = n
    BY <2>1, <2>2, <2>3, LenProperties
  <2> QED
    BY <2>2, <2>3, <2>4 DEF Strings
<1>2. ASSUME text \in Strings, Len(text) <= MaxLength PROVE text \in Texts
  <2>1. /\ Len(text) \in 0..MaxLength
        /\ text \in [1..Len(text) -> Characters]
    BY <1>2, MaxLengthAssumption, LenProperties DEF Strings
  <2> QED
    BY <2>1 DEF Texts
<1> QED
  BY <1>1, <1>2

\* All that is proved of the comparison.
Inv == TypeOK /\ StrippingKeepsNames /\ MatchesWhatIsAsked

\* It holds when probe() has copied the types.
LEMMA InitInv == Init => Inv
<1> SUFFICES ASSUME Init PROVE Inv
  OBVIOUS
<1>1. <<>> \in Texts
  <2>1. <<>> \in Seq(Characters) /\ Len(<<>>) = 0
    BY EmptySeq
  <2>2. 0 <= MaxLength
    BY MaxLengthAssumption
  <2> QED
    BY <2>1, <2>2, TextsProperties DEF Strings
<1>2. TypeOK
  BY <1>1 DEF Init, TypeOK
<1>3. StrippingKeepsNames
  BY DEF Init, StrippingKeepsNames
<1>4. MatchesWhatIsAsked
  BY DEF Init, MatchesWhatIsAsked
<1> QED
  BY <1>2, <1>3, <1>4 DEF Inv

\* A turn of the loop preserves it.
LEMMA StripInv == Inv /\ Strip => Inv'
<1> SUFFICES ASSUME Inv, Strip PROVE Inv'
  OBVIOUS
<1>1. /\ returned' = "open" /\ given' = given /\ scopes' = scopes
      /\ Positions(types, ":") # {} /\ StripLast
  BY DEF Strip
<1>2. types \in Strings /\ Len(types) <= MaxLength
  BY TextsProperties DEF Inv, TypeOK
<1>3. PICK first, last \in 1..Len(types) : Cuts(types, types', first, last)
  BY <1>1, <1>2, StripProperties
<1>4. types' \in Strings
  BY <1>1, <1>2, StripProperties
<1>5. Len(types') <= MaxLength
  <2>1. /\ Len(types') = Len(types) - (last - first + 1)
        /\ first \in 1..last /\ Len(types) \in Nat
    BY <1>2, <1>3 DEF Cuts, Strings
  <2> QED
    BY <1>2, <2>1, MaxLengthAssumption
<1>6. TypeOK'
  BY <1>1, <1>4, <1>5, TextsProperties DEF Inv, TypeOK
<1>7. StrippingKeepsNames'
  <2>1. KeptNames(types') = KeptNames(types)
    BY <1>2, <1>3, <1>4, CutKeepsNames
  <2>2. given # Absent => KeptNames(types) = KeptNames(given)
    BY DEF Inv, StrippingKeepsNames
  <2>3. given # Absent => KeptNames(types') = KeptNames(given)
    BY <2>1, <2>2
  <2> QED
    BY <1>1, <2>3 DEF StrippingKeepsNames
<1>8. MatchesWhatIsAsked'
  BY <1>1 DEF MatchesWhatIsAsked
<1> QED
  BY <1>6, <1>7, <1>8 DEF Inv

\* The return preserves it.
LEMMA DecideInv == Inv /\ Decide => Inv'
<1> SUFFICES ASSUME Inv, Decide PROVE Inv'
  OBVIOUS
<1>1. /\ Positions(types, ":") = {}
      /\ given' = given /\ scopes' = scopes /\ types' = types
  BY DEF Decide
<1>2. PICK matched \in BOOLEAN :
        /\ matched <=>
             /\ given = Absent \/ IsMatched(Tokens(types), Tokens(OwnTypes))
             /\ scopes # Absent => IsMatched(scopes, OwnScopes)
        /\ returned' = IF matched THEN "own" ELSE "empty"
  BY DEF Decide
<1>3. types \in Strings /\ (given # Absent => given \in Strings)
  BY TextsProperties DEF Inv, TypeOK
<1>4. given # Absent =>
        (IsMatched(Tokens(types), Tokens(OwnTypes)) <=> OwnTypes \in KeptNames(given))
  BY <1>1, <1>3, MatchMeansKept DEF Inv, StrippingKeepsNames
<1>5. given # Absent /\ OwnTypes \in KeptNames(given) => OwnTypes \in LocalNames(given)
  BY <1>3, KeptIsLocal
<1>6. given # Absent /\ OwnTypes \in LocalNames(given) /\ OwnTypes \notin KeptNames(given)
        => PrefixBehindTab(given)
  BY <1>3, LostBehindTab
<1>7. TypeOK'
  BY <1>1, <1>2 DEF Inv, TypeOK
<1>8. StrippingKeepsNames'
  BY <1>1 DEF Inv, StrippingKeepsNames
<1>9. MatchesWhatIsAsked'
  <2> DEFINE asked == /\ given = Absent \/ OwnTypes \in LocalNames(given)
                      /\ scopes = Absent \/ scopes \cap OwnScopes # {}
  <2>1. returned' = "own" => asked
    BY <1>2, <1>4, <1>5 DEF IsMatched
  <2>2. returned' = "empty" /\ asked => given # Absent /\ PrefixBehindTab(given)
    BY <1>2, <1>4, <1>6 DEF IsMatched
  <2> QED
    BY <1>1, <2>1, <2>2 DEF MatchesWhatIsAsked
<1> QED
  BY <1>7, <1>8, <1>9 DEF Inv

\* probe() preserves it at every step.
LEMMA Invariance == Spec => []Inv
<1>1. Inv /\ UNCHANGED vars => Inv'
  BY DEF Inv, vars, TypeOK, StrippingKeepsNames, MatchesWhatIsAsked
<1>2. Inv /\ [Next]_vars => Inv'
  BY <1>1, StripInv, DecideInv DEF Next
<1> QED
  BY <1>2, InitInv, PTL DEF Spec

\* The copy of the types never grows: each turn leaves a text within the bound.
THEOREM MatchingTypes == Spec => []TypeOK
<1>1. Inv => TypeOK
  BY DEF Inv
<1> QED
  BY <1>1, Invariance, PTL

\* The loop of Wsdd::probe, which erases the prefixes from the last to the first
\* in the string it searches, neither merges, splits nor loses a name behind the
\* last colon between two spaces: for types of every length.
THEOREM StrippingTheorem == Spec => []StrippingKeepsNames
<1>1. Inv => StrippingKeepsNames
  BY DEF Inv
<1> QED
  BY <1>1, Invariance, PTL

\* probe() returns the daemon's match to Probes that ask for its type and scopes,
\* whatever types and scopes they name, and keeps it from those only where a prefix
\* follows on a name and a tab.
THEOREM MatchTheorem == Spec => []MatchesWhatIsAsked
<1>1. Inv => MatchesWhatIsAsked
  BY DEF Inv
<1> QED
  BY <1>1, Invariance, PTL
=============================================================================
