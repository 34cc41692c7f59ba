---------------------------- MODULE ProbeMatching ----------------------------
(***************************************************************************)
(* Wsdd::probe (examples/ws-discovery/wsdd.cpp): whether it returns the    *)
(* daemon's own match or an empty list.  The service answers the Probe in  *)
(* both cases (RemoteDiscoveryService); what is decided here is what the   *)
(* ProbeMatches hold.                                                      *)
(*                                                                         *)
(* The types of a Probe are qualified names separated by white space; the  *)
(* loop strips the prefixes from the last to the first, in place, and then *)
(* one name in common is enough.  It looks for spaces where the names are  *)
(* split at any white space: a tab stands for all of that which is not a   *)
(* space.  Scopes are compared without stripping.                          *)
(*                                                                         *)
(* A string is a sequence of characters, since positions are the point of  *)
(* the stripping; scopes are only split, and are the sets of their tokens. *)
(***************************************************************************)
EXTENDS Naturals, Sequences, FiniteSets, FiniteSetsExt

CONSTANTS
  Letters,      \* characters of names
  MaxLength,    \* bound on the length of the types of a Probe
  OwnTypes,     \* the type the daemon advertises, a sequence of letters
  Scopes,       \* tokens a scopes list may hold
  OwnScopes,    \* those the daemon advertises
  Absent        \* a null pointer in the Probe

Space == " "
Tab == "\t"
Blanks == {Space, Tab}
Characters == Letters \cup {":"} \cup Blanks

ASSUME LettersAssumption == Letters \cap (Blanks \cup {":"}) = {}
ASSUME MaxLengthAssumption == MaxLength \in Nat
\* One name without a prefix.
ASSUME OwnTypesAssumption == OwnTypes \in Seq(Letters) /\ OwnTypes # <<>>
ASSUME OwnScopesAssumption == OwnScopes \subseteq Scopes

Texts == UNION {[1..n -> Characters] : n \in 0..MaxLength}

VARIABLES
  given,     \* arg.types as received, or Absent
  scopes,    \* arg.scopes as received, or Absent
  types,     \* the local copy the loop works on
  returned   \* "open", then "own" for probeMatches_, or "empty"

vars == <<given, scopes, types, returned>>

Init ==
  /\ given \in Texts \cup {Absent}
  /\ scopes \in SUBSET Scopes \cup {Absent}
  /\ types = IF given = Absent THEN <<>> ELSE given
  /\ returned = "open"

Positions(text, c) == {i \in 1..Len(text) : text[i] = c}

\* Mutants of StripLast: the positions swapped; the space erased with the
\* prefix; the colon kept.
StripSwapped ==
  LET pos1 == Max(Positions(types, ":"))
  IN  types' = SubSeq(types, 1, pos1) \o SubSeq(types, 1, Len(types))
StripWithSpace ==
  LET pos1 == Max(Positions(types, ":"))
      spaces == {i \in Positions(types, Space) : i < pos1}
      pos2 == IF spaces = {} THEN 1 ELSE Max(spaces)
  IN  types' = SubSeq(types, 1, pos2 - 1) \o SubSeq(types, pos1 + 1, Len(types))
StripUpToColon ==
  LET pos1 == Max(Positions(types, ":"))
      spaces == {i \in Positions(types, Space) : i < pos1}
      pos2 == IF spaces = {} THEN 1 ELSE Max(spaces) + 1
  IN  types' = SubSeq(types, 1, pos2 - 1) \o SubSeq(types, pos1, Len(types))

\* One turn of the loop: from behind the last space before the last colon, or
\* from the start, up to and including that colon.
StripLast ==
  LET pos1 == Max(Positions(types, ":"))
      spaces == {i \in Positions(types, Space) : i < pos1}
      pos2 == IF spaces = {} THEN 1 ELSE Max(spaces) + 1
  IN  types' = SubSeq(types, 1, pos2 - 1) \o SubSeq(types, pos1 + 1, Len(types))

Strip ==
  /\ returned = "open" /\ Positions(types, ":") # {}
  /\ StripLast
  /\ UNCHANGED <<given, scopes, returned>>

\* The maximal runs without a separator, as pairs of positions.
Runs(text, separators) ==
  LET n == Len(text)
      Edge(i) == i \in {0, n + 1} \/ text[i] \in separators
  IN  {r \in (1..n) \X (1..n) :
         /\ r[1] <= r[2] /\ Edge(r[1] - 1) /\ Edge(r[2] + 1)
         /\ \A k \in r[1]..r[2] : text[k] \notin separators}

Pieces(text, separators) == {SubSeq(text, r[1], r[2]) : r \in Runs(text, separators)}

\* boost::split at is_space with token_compress_on: the runs, and an empty token
\* when the text is empty or begins or ends with white space.
Tokens(text) ==
  LET n == Len(text)
  IN  Pieces(text, Blanks)
        \cup (IF n = 0 \/ text[1] \in Blanks \/ text[n] \in Blanks THEN {<<>>} ELSE {})

\* find_first_of: one token in common.
IsMatched(left, right) == left \cap right # {}

\* Mutant of Decide: scopes looked at only when the types did not match.
DecideEither ==
  /\ returned = "open" /\ Positions(types, ":") = {}
  /\ LET typesMatch == given = Absent \/ IsMatched(Tokens(types), Tokens(OwnTypes))
         matched == typesMatch \/ (scopes # Absent /\ IsMatched(scopes, OwnScopes))
     IN  returned' = IF matched THEN "own" ELSE "empty"
  /\ UNCHANGED <<given, scopes, types>>

\* The types first, and the scopes only if the types matched.
Decide ==
  /\ returned = "open" /\ Positions(types, ":") = {}
  /\ LET typesMatch == given = Absent \/ IsMatched(Tokens(types), Tokens(OwnTypes))
         matched == typesMatch /\ (scopes # Absent => IsMatched(scopes, OwnScopes))
     IN  returned' = IF matched THEN "own" ELSE "empty"
  /\ UNCHANGED <<given, scopes, types>>

Next == Strip \/ Decide

\* probe() is a sequential function.
Spec == Init /\ [][Next]_vars /\ WF_vars(Next)
-----------------------------------------------------------------------------
TypeOK ==
  /\ given \in Texts \cup {Absent} /\ scopes \in SUBSET Scopes \cup {Absent}
  /\ types \in Texts
  /\ returned \in {"open", "own", "empty"}

\* The reference: what is behind the last colon.
LocalName(name) ==
  LET colons == Positions(name, ":")
  IN  IF colons = {} THEN name ELSE SubSeq(name, Max(colons) + 1, Len(name))

\* The local names of a list of qualified names.
LocalNames(text) == {LocalName(t) : t \in Tokens(text)} \ {<<>>}

\* Names behind the last colon of what lies between two spaces.
KeptNames(text) ==
  (UNION {Tokens(LocalName(field)) : field \in Pieces(text, {Space})}) \ {<<>>}

\* Some name is followed by a tab and, before the next space, by a prefix.
PrefixBehindTab(text) ==
  \E field \in Pieces(text, {Space}) :
    \E i \in Positions(field, Tab), j \in Positions(field, ":") : i < j

\* Stripping in place, right to left, never merges, splits or loses a name that
\* stands behind the last colon between two spaces: at every turn these names
\* are those of the text received.
StrippingKeepsNames ==
  given # Absent => KeptNames(types) = KeptNames(given)

\* The list that probe() returns holds the daemon's match only if the Probe names
\* its type, under any prefix, or no type, and one of its scopes, or no scopes; and
\* then it does, unless a prefix follows on a name and a tab.  (A Probe that gets
\* the empty list is answered too, by ProbeMatches that hold nothing.)
MatchesWhatIsAsked ==
  LET asked == /\ given = Absent \/ OwnTypes \in LocalNames(given)
               /\ scopes = Absent \/ scopes \cap OwnScopes # {}
  IN  /\ returned = "own" => asked
      /\ returned = "empty" /\ asked => given # Absent /\ PrefixBehindTab(given)

\* The loop ends, whatever the positions of colons and spaces.
ProbeReturns == <>(returned # "open")
=============================================================================
