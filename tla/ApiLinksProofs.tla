--------------------------- MODULE ApiLinksProofs ---------------------------
(***************************************************************************)
(* Theorems about ApiLinks, for every set of entries and every set-up      *)
(* whose proxy is Transparent: whatever its addresses, prefixes and        *)
(* headers are.                                                            *)
(***************************************************************************)
EXTENDS ApiLinks, SequenceTheorems, FiniteSetTheorems, WellFoundedInduction, TLAPS

Path == Seq(Words)

-----------------------------------------------------------------------------
(* Prefixes of sequences. *)

LEMMA PrefixElements ==
    ASSUME NEW S, NEW s \in Seq(S), NEW t \in Seq(S)
    PROVE  IsPrefix(s, t) <=> Len(s) <= Len(t) /\ \A k \in 1..Len(s) : s[k] = t[k]
<1> DEFINE n == Len(s)
<1>1. SubSeq(s, 1, n) = s
  BY SubSeqFull
<1>2. ASSUME n <= Len(t)
      PROVE  /\ SubSeq(t, 1, n) \in Seq(S)
             /\ Len(SubSeq(t, 1, n)) = n
             /\ \A k \in 1..n : SubSeq(t, 1, n)[k] = t[k]
  <2>1. n \in Int /\ \A k \in 1..n : t[k] \in S
    BY <1>2, LenProperties
  <2>2. /\ SubSeq(t, 1, n) \in Seq(S)
        /\ Len(SubSeq(t, 1, n)) = IF 1 <= n THEN n - 1 + 1 ELSE 0
        /\ \A k \in 1 .. n - 1 + 1 : SubSeq(t, 1, n)[k] = t[1 + k - 1]
    BY <2>1, SubSeqProperties
  <2> QED
    BY <2>2, LenProperties
<1>3. ASSUME n <= Len(t), \A k \in 1..n : s[k] = t[k]
      PROVE  s = SubSeq(t, 1, n)
  BY <1>2, <1>3, SeqEqual
<1> QED
  BY <1>1, <1>2, <1>3 DEF IsPrefix

LEMMA PrefixSplits ==
    ASSUME NEW S, NEW s \in Seq(S), NEW t \in Seq(S), IsPrefix(s, t)
    PROVE  /\ SubSeq(t, Len(s) + 1, Len(t)) \in Seq(S)
           /\ t = s \o SubSeq(t, Len(s) + 1, Len(t))
<1> DEFINE n == Len(s)
           m == Len(t)
           rest == SubSeq(t, n + 1, m)
<1>1. /\ n \in Nat /\ m \in Nat /\ n <= m /\ \A k \in 1..n : s[k] = t[k]
      /\ \A k \in 1..m : t[k] \in S
  BY PrefixElements, LenProperties
<1>2. /\ rest \in Seq(S)
      /\ Len(rest) = m - n
      /\ \A k \in 1..(m - n) : rest[k] = t[n + k]
  <2>1. \A k \in (n + 1)..m : t[k] \in S
    BY <1>1
  <2>2. /\ rest \in Seq(S)
        /\ Len(rest) = IF n + 1 <= m THEN m - (n + 1) + 1 ELSE 0
        /\ \A k \in 1..(m - (n + 1) + 1) : rest[k] = t[n + 1 + k - 1]
    BY <1>1, <2>1, SubSeqProperties
  <2> QED
    BY <1>1, <2>2
<1> HIDE DEF rest
<1> DEFINE cat == s \o rest
<1>3. /\ cat \in Seq(S) /\ Len(cat) = n + Len(rest)
      /\ \A k \in 1..(n + Len(rest)) : cat[k] = IF k <= n THEN s[k] ELSE rest[k - n]
  BY <1>2, ConcatProperties
<1> HIDE DEF cat, n, m
<1>4. ASSUME NEW k \in 1..m
      PROVE  t[k] = cat[k]
  <2>1. cat[k] = IF k <= n THEN s[k] ELSE rest[k - n]
    BY <1>1, <1>2, <1>3
  <2>2. CASE k <= n
    BY <1>1, <2>1, <2>2
  <2>3. CASE k > n
    <3>1. k - n \in 1..(m - n) /\ n + (k - n) = k
      BY <1>1, <2>3
    <3>2. rest[k - n] = t[k]
      BY <1>2, <3>1
    <3> QED
      BY <1>1, <2>1, <2>3, <3>2
  <2> QED
    BY <1>1, <2>2, <2>3
<1>5. t = cat
  <2>1. Len(t) = Len(cat) /\ Len(t) = m
    BY <1>1, <1>2, <1>3 DEF m
  <2> QED
    BY <1>3, <1>4, <2>1, SeqEqual
<1> QED
  BY <1>2, <1>5 DEF rest, cat, n, m

LEMMA PrefixOfConcat ==
    ASSUME NEW S, NEW s \in Seq(S), NEW t \in Seq(S)
    PROVE  /\ IsPrefix(s, s \o t)
           /\ SubSeq(s \o t, Len(s) + 1, Len(s \o t)) = t
<1> DEFINE cat == s \o t
           rest == SubSeq(cat, Len(s) + 1, Len(cat))
<1>1. /\ cat \in Seq(S) /\ Len(cat) = Len(s) + Len(t)
      /\ \A k \in 1..(Len(s) + Len(t)) : cat[k] = IF k <= Len(s) THEN s[k] ELSE t[k - Len(s)]
      /\ Len(s) \in Nat /\ Len(t) \in Nat
  BY ConcatProperties, LenProperties
<1> HIDE DEF cat
<1>2. IsPrefix(s, cat)
  <2>1. \A k \in 1..Len(s) : s[k] = cat[k]
    BY <1>1
  <2> QED
    BY <1>1, <2>1, PrefixElements
<1>3. rest \in Seq(S) /\ cat = s \o rest
  BY <1>1, <1>2, PrefixSplits
<1>4. rest = t
  <2> HIDE DEF rest
  <2>1. s \o t = s \o rest
    BY <1>3 DEF cat
  <2> QED
    BY <1>3, <2>1, ConcatSimplifications
<1> QED
  BY <1>2, <1>4 DEF cat

LEMMA PrefixesCompare ==
    ASSUME NEW S, NEW s \in Seq(S), NEW t \in Seq(S), NEW u \in Seq(S),
           IsPrefix(s, u), IsPrefix(t, u)
    PROVE  IsPrefix(s, t) \/ IsPrefix(t, s)
BY PrefixElements, LenProperties

LEMMA EmptyIsPrefix ==
    ASSUME NEW S, NEW t \in Seq(S)
    PROVE  IsPrefix(<< >>, t) /\ << >> \in Seq(S) /\ Len(<< >>) = 0
<1> DEFINE empty == << >>
<1>1. empty \in Seq(S) /\ Len(empty) = 0
  BY EmptySeq
<1>2. Len(t) \in Nat
  BY LenProperties
<1> HIDE DEF empty
<1>3. IsPrefix(empty, t)
  <2>1. Len(empty) <= Len(t) /\ \A k \in 1..Len(empty) : empty[k] = t[k]
    BY <1>1, <1>2
  <2> QED
    BY <1>1, <2>1, PrefixElements
<1> QED
  BY <1>1, <1>3 DEF empty

\* A set of numbers has a least one: the sets below its elements are finite.
LEMMA LeastOne ==
    ASSUME NEW T, T \subseteq Nat, T # {}
    PROVE  \E i \in T : \A j \in T : i <= j
<1> DEFINE R == StrictSubsetOrdering(Nat)
           Fin == FiniteSubsetsOf(Nat)
           Below == {1..i : i \in T}
<1>1. IsWellFoundedOn(R, Fin)
  BY FS_StrictSubsetOrderingWellFounded
<1>2. Below \subseteq Fin /\ Below # {}
  <2>1. \A i \in Nat : IsFiniteSet(1..i)
    BY FS_Interval
  <2>2. \A i \in T : 1..i \in SUBSET Nat /\ i \in Nat
    OBVIOUS
  <2>3. \A i \in T : 1..i \in Fin
    BY <2>1, <2>2 DEF FiniteSubsetsOf
  <2> HIDE DEF Fin
  <2> QED
    BY <2>3
<1>3. PICK B \in Below : \A C \in Below : <<C, B>> \notin R
  <2> HIDE DEF R, Fin, Below
  <2> QED
    BY <1>1, <1>2, WFMin
<1>4. PICK i \in T : B = 1..i
  OBVIOUS
<1>5. ASSUME NEW j \in T, j < i
      PROVE  FALSE
  <2>1. 1..j \in SUBSET Nat /\ 1..i \in SUBSET Nat /\ 1..j \subseteq 1..i
    BY <1>5
  <2>2. i \in 1..i /\ i \notin 1..j
    BY <1>5
  <2>3. <<1..j, B>> \in R
    BY <1>4, <2>1, <2>2 DEF StrictSubsetOrdering
  <2> QED
    BY <1>3, <2>3
<1> QED
  BY <1>5

-----------------------------------------------------------------------------
(* What the proxy makes of a path. *)

RuleType == [from : Path, to : Path]

\* The path the service receives.
PassedOn(path) ==
    LET rule == CHOOSE r \in RuleFor(path) : TRUE
    IN  rule.to \o SubSeq(path, Len(rule.from) + 1, Len(path))

\* A path that gets through, to a path with a first segment.
GetsThrough(path) ==
    /\ path \in Path /\ RuleFor(path) # {}
    /\ PassedOn(path) \in Path /\ PassedOn(path) # << >>

LEMMA RuleTypes ==
    ASSUME setup \in Setups
    PROVE  /\ setup \in SetupType
           /\ Len(setup.rules) \in Nat /\ DOMAIN setup.rules = 1..Len(setup.rules)
           /\ \A i \in DOMAIN setup.rules : setup.rules[i] \in RuleType
<1>1. setup \in SetupType
  BY SetupAssumption
<1>2. setup.rules \in Seq(RuleType)
  BY <1>1 DEF SetupType, RuleType, Path
<1> QED
  BY <1>1, <1>2, LenProperties, ElementOfSeq

LEMMA FirstRule ==
    ASSUME setup \in Setups, NEW path \in Path, RuleFor(path) # {}
    PROVE  \E i \in DOMAIN setup.rules :
             /\ RuleFor(path) = {setup.rules[i]} /\ IsPrefix(setup.rules[i].from, path)
             /\ \A j \in DOMAIN setup.rules : IsPrefix(setup.rules[j].from, path) => i <= j
<1> DEFINE fits == {i \in DOMAIN setup.rules : IsPrefix(setup.rules[i].from, path)}
<1>1. fits # {} /\ RuleFor(path) = {setup.rules[CHOOSE i \in fits : \A j \in fits : i <= j]}
  BY DEF RuleFor
<1>2. fits \subseteq Nat
  BY RuleTypes
<1>3. \E i \in fits : \A j \in fits : i <= j
  <2> HIDE DEF fits
  <2> QED
    BY <1>1, <1>2, LeastOne
<1> QED
  BY <1>1, <1>3

LEMMA SomeRule ==
    ASSUME NEW path, NEW i \in DOMAIN setup.rules, IsPrefix(setup.rules[i].from, path)
    PROVE  RuleFor(path) # {}
BY DEF RuleFor

LEMMA ByFirstRule ==
    ASSUME setup \in Setups, NEW path \in Path, NEW i \in DOMAIN setup.rules,
           RuleFor(path) = {setup.rules[i]}, IsPrefix(setup.rules[i].from, path)
    PROVE  \E rest \in Path : /\ path = setup.rules[i].from \o rest
                             /\ PassedOn(path) = setup.rules[i].to \o rest
<1> DEFINE rule == setup.rules[i]
           rest == SubSeq(path, Len(rule.from) + 1, Len(path))
<1>1. rule.from \in Path /\ rule.to \in Path
  BY RuleTypes DEF RuleType
<1>2. rest \in Path /\ path = rule.from \o rest
  BY <1>1, PrefixSplits DEF Path
<1>3. (CHOOSE r \in RuleFor(path) : TRUE) = rule
  OBVIOUS
<1> QED
  BY <1>2, <1>3 DEF PassedOn

\* A path that starts with the prefix of a rule, when all such rules have this prefix.
LEMMA ByRule ==
    ASSUME setup \in Setups, NEW i \in DOMAIN setup.rules, NEW rest \in Path,
           \A j \in DOMAIN setup.rules :
             IsPrefix(setup.rules[j].from, setup.rules[i].from \o rest) =>
               setup.rules[j] = setup.rules[i]
    PROVE  /\ setup.rules[i].from \o rest \in Path
           /\ RuleFor(setup.rules[i].from \o rest) = {setup.rules[i]}
           /\ PassedOn(setup.rules[i].from \o rest) = setup.rules[i].to \o rest
<1> DEFINE path == setup.rules[i].from \o rest
<1>1. setup.rules[i].from \in Path /\ path \in Path
  BY RuleTypes, ConcatProperties DEF RuleType, Path
<1>2. IsPrefix(setup.rules[i].from, path)
  BY <1>1, PrefixOfConcat DEF Path
<1> HIDE DEF path
<1>3. RuleFor(path) = {setup.rules[i]}
  <2>1. RuleFor(path) # {}
    BY <1>2, SomeRule
  <2> QED
    BY <1>1, <2>1, FirstRule DEF path
<1>4. PICK tail \in Path : /\ path = setup.rules[i].from \o tail
                         /\ PassedOn(path) = setup.rules[i].to \o tail
  BY <1>1, <1>2, <1>3, ByFirstRule
<1>5. tail = rest
  <2>1. setup.rules[i].from \o tail = setup.rules[i].from \o rest
    BY <1>4 DEF path
  <2> QED
    BY <1>1, <2>1, ConcatSimplifications DEF Path
<1> QED
  BY <1>1, <1>3, <1>4, <1>5 DEF path

-----------------------------------------------------------------------------
(* What the service takes for the base of its links. *)

Base(asked, url) ==
    LET at == Occurrences(asked, url)
    IN  IF at = {} THEN << >> ELSE SubSeq(url.path, 1, Max(at))

LEMMA MaxIs ==
    ASSUME NEW n \in Nat, NEW S, n \in S, S \subseteq 0..n
    PROVE  Max(S) = n
<1>1. \E x \in S : \A y \in S : x >= y
  OBVIOUS
<1>2. Max(S) \in S /\ \A y \in S : Max(S) >= y
  BY <1>1 DEF Max
<1> DEFINE m == Max(S)
<1> HIDE DEF m
<1>3. m \in 0..n /\ m >= n
  BY <1>2 DEF m
<1>4. m = n
  BY <1>3
<1> QED
  BY <1>4 DEF m

\* The last occurrence of a path is the one at the end.
LEMMA BaseBeforeTheEnd ==
    ASSUME NEW from \in Path, NEW asked \in Path, asked # << >>,
           NEW url, url.path = from \o asked
    PROVE  Base(asked, url) = from
<1> DEFINE path == from \o asked
           n == Len(from)
           m == Len(asked)
           at == Occurrences(asked, url)
<1>1. /\ n \in Nat /\ m \in Nat /\ m # 0
      /\ path \in Path /\ Len(path) = n + m
      /\ \A k \in 1..(n + m) : path[k] = IF k <= n THEN from[k] ELSE asked[k - n]
  BY ConcatProperties, LenProperties, EmptySeq DEF Path
<1>2. SubSeq(path, n + 1, n + m - 1) = SubSeq(asked, 1, m - 1)
  <2>1. CASE m = 1
    <3>1. SubSeq(path, n + 1, n + m - 1) = << >>
      BY <1>1, <2>1, SubSeqEmpty
    <3>2. SubSeq(asked, 1, m - 1) = << >>
      BY <1>1, <2>1, SubSeqEmpty
    <3> QED
      BY <3>1, <3>2
  <2>2. CASE m > 1
    <3>1. n + 1 \in n + 1 .. n + m /\ n + m - 1 \in n + 1 .. n + m
      BY <1>1, <2>2
    <3>2. SubSeq(path, n + 1, n + m - 1) = SubSeq(asked, n + 1 - n, n + m - 1 - n)
      BY <3>1, SubSeqOfConcat2 DEF Path
    <3>3. n + 1 - n = 1 /\ n + m - 1 - n = m - 1
      BY <1>1
    <3> QED
      BY <3>2, <3>3
  <2> QED
    BY <1>1, <2>1, <2>2
<1>3. path[n + m] = asked[m]
  <2>1. path[n + m] = asked[n + m - n]
    BY <1>1
  <2> QED
    BY <1>1, <2>1
<1>4. n \in at /\ at \subseteq 0..n
  <2> HIDE DEF path
  <2>1. url.path = path
    BY DEF path
  <2>2. Len(url.path) - Len(asked) = n
    BY <1>1, <2>1
  <2> QED
    BY <1>1, <1>2, <1>3, <2>1, <2>2 DEF Occurrences, Front, Last
<1>5. Max(at) = n
  BY <1>1, <1>4, MaxIs
<1>6. SubSeq(path, 1, n) = from
  BY <1>1, PrefixOfConcat, SubSeqFull DEF IsPrefix, Path
<1> QED
  BY <1>4, <1>5, <1>6 DEF Base

\* A path does not occur where its first segment does not.
LEMMA DoesNotOccur ==
    ASSUME NEW path \in Path, NEW asked \in Path, asked # << >>, asked[1] # Blank,
           NEW n \in Nat,
           Len(path) < n + Len(asked), \A k \in 1..n : k <= Len(path) => path[k] # asked[1],
           NEW url, url.path = path
    PROVE  Occurrences(asked, url) = {}
<1> DEFINE m == Len(asked)
<1>1. m \in Nat /\ m # 0 /\ Len(path) \in Nat
  BY LenProperties, EmptySeq DEF Path
<1>2. SUFFICES ASSUME NEW i \in Occurrences(asked, url)
               PROVE  FALSE
  OBVIOUS
<1>3. /\ i \in 0..(Len(path) - m)
      /\ SubSeq(path, i + 1, i + m - 1) = SubSeq(asked, 1, m - 1)
      /\ asked[m] \in {Blank, path[i + m]}
  BY DEF Occurrences, Front, Last
<1>4. i + 1 \in 1..n /\ i + 1 <= Len(path) /\ path[i + 1] # asked[1]
  BY <1>1, <1>3
<1>5. m # 1
  BY <1>3, <1>4
<1>6. SubSeq(path, i + 1, i + m - 1)[1] = path[i + 1]
  <2>1. \A k \in (i + 1)..(i + m - 1) : path[k] \in Words
    <3>1. \A k \in (i + 1)..(i + m - 1) : k \in 1..Len(path)
      BY <1>1, <1>3
    <3> QED
      BY <3>1, ElementOfSeq DEF Path
  <2>2. \A k \in 1..((i + m - 1) - (i + 1) + 1) :
            SubSeq(path, i + 1, i + m - 1)[k] = path[(i + 1) + k - 1]
    BY <1>1, <1>3, <2>1, SubSeqProperties
  <2>3. 1 \in 1..((i + m - 1) - (i + 1) + 1) /\ (i + 1) + 1 - 1 = i + 1
    BY <1>1, <1>3, <1>5
  <2> QED
    BY <2>2, <2>3
<1>7. SubSeq(asked, 1, m - 1)[1] = asked[1]
  <2>1. \A k \in 1..(m - 1) : asked[k] \in Words
    <3>1. \A k \in 1..(m - 1) : k \in 1..Len(asked)
      BY <1>1
    <3> QED
      BY <3>1, ElementOfSeq DEF Path
  <2>2. \A k \in 1..((m - 1) - 1 + 1) : SubSeq(asked, 1, m - 1)[k] = asked[1 + k - 1]
    BY <1>1, <2>1, SubSeqProperties
  <2>3. 1 \in 1..((m - 1) - 1 + 1) /\ 1 + 1 - 1 = 1
    BY <1>1, <1>5
  <2> QED
    BY <2>2, <2>3
<1> QED
  BY <1>3, <1>4, <1>6, <1>7

LEMMA OneSegment ==
    ASSUME NEW segment \in Words, NEW rest \in Path
    PROVE  /\ <<segment>> \o rest \in Path /\ <<segment>> \o rest # << >>
           /\ Len(<<segment>> \o rest) = Len(rest) + 1
           /\ (<<segment>> \o rest)[1] = segment /\ Head(<<segment>> \o rest) = segment
<1> DEFINE one == <<segment>>
<1>1. one \in Path /\ Len(one) = 1 /\ one[1] = segment
  BY DEF Path
<1> HIDE DEF one
<1>2. /\ one \o rest \in Path /\ Len(one \o rest) = 1 + Len(rest)
      /\ (one \o rest)[1] = segment /\ Len(rest) \in Nat
  <2>1. /\ one \o rest \in Path /\ Len(one \o rest) = Len(one) + Len(rest)
        /\ \A k \in 1..(Len(one) + Len(rest)) :
              (one \o rest)[k] = IF k <= Len(one) THEN one[k] ELSE rest[k - Len(one)]
    BY <1>1, ConcatProperties DEF Path
  <2>2. Len(rest) \in Nat
    BY LenProperties DEF Path
  <2> QED
    BY <1>1, <2>1, <2>2
<1>3. one \o rest # << >>
  BY <1>2, EmptySeq
<1> QED
  BY <1>2, <1>3 DEF one

\* A path whose first segment the proxy has put in place of a prefix does not occur.
LEMMA NoBaseWhenRenamed ==
    ASSUME NEW from \in Path, NEW rest \in Path, NEW segment \in Words, segment # Blank,
           segment \notin ToSet(from), NEW url, url.path = from \o rest
    PROVE  Base(<<segment>> \o rest, url) = << >>
<1> DEFINE asked == <<segment>> \o rest
           path == from \o rest
<1>1. /\ path \in Path /\ Len(path) = Len(from) + Len(rest)
      /\ \A k \in 1..(Len(from) + Len(rest)) :
            path[k] = IF k <= Len(from) THEN from[k] ELSE rest[k - Len(from)]
      /\ Len(from) \in Nat /\ Len(rest) \in Nat /\ DOMAIN from = 1..Len(from)
  BY ConcatProperties, LenProperties DEF Path
<1>2. asked \in Path /\ asked # << >> /\ Len(asked) = Len(rest) + 1 /\ asked[1] = segment
  BY OneSegment
<1> HIDE DEF asked, path
<1>3. \A k \in 1..Len(from) : path[k] # segment
  BY <1>1 DEF ToSet
<1>4. Len(path) < Len(from) + Len(asked)
  BY <1>1, <1>2
<1>5. Occurrences(asked, url) = {}
  BY <1>1, <1>2, <1>3, <1>4, DoesNotOccur DEF path
<1> QED
  BY <1>5 DEF Base, asked

-----------------------------------------------------------------------------
(* Through each kind of proxy, the links that are built for a path get through too, *)
(* and a link under the service's own prefix reaches it as it is.                   *)

LEMMA GetsThroughBy ==
    ASSUME setup \in Setups, NEW path, GetsThrough(path)
    PROVE  \E i \in DOMAIN setup.rules : \E rest \in Path :
             /\ setup.rules[i].from \in Path /\ setup.rules[i].to \in Path
             /\ IsPrefix(setup.rules[i].from, path)
             /\ path = setup.rules[i].from \o rest
             /\ PassedOn(path) = setup.rules[i].to \o rest
             /\ \A j \in DOMAIN setup.rules : IsPrefix(setup.rules[j].from, path) => i <= j
<1>1. PICK i \in DOMAIN setup.rules :
        /\ RuleFor(path) = {setup.rules[i]} /\ IsPrefix(setup.rules[i].from, path)
        /\ \A j \in DOMAIN setup.rules : IsPrefix(setup.rules[j].from, path) => i <= j
  BY FirstRule DEF GetsThrough
<1>2. setup.rules[i].from \in Path /\ setup.rules[i].to \in Path
  BY RuleTypes DEF RuleType
<1> QED
  BY <1>1, <1>2, ByFirstRule DEF GetsThrough

LEMMA KeepingPassesAll ==
    ASSUME setup \in Setups, Keeping(setup.rules), NEW path \in Path, RuleFor(path) # {}
    PROVE  PassedOn(path) = path
<1>1. PICK i \in DOMAIN setup.rules :
        RuleFor(path) = {setup.rules[i]} /\ IsPrefix(setup.rules[i].from, path)
  BY FirstRule
<1>2. PICK rest \in Path : /\ path = setup.rules[i].from \o rest
                         /\ PassedOn(path) = setup.rules[i].to \o rest
  BY <1>1, ByFirstRule
<1>3. setup.rules[i].to = setup.rules[i].from
  BY DEF Keeping
<1> QED
  BY <1>2, <1>3

LEMMA KeepingLinks ==
    ASSUME setup \in Setups, Keeping(setup.rules), NEW url, GetsThrough(url.path),
           NEW rest \in Path
    PROVE  /\ Base(PassedOn(url.path), url) = << >>
           /\ PassedOn(url.path)[1] \in Words
           /\ GetsThrough(<<PassedOn(url.path)[1]>> \o rest)
           /\ PassedOn(<<PassedOn(url.path)[1]>> \o rest) = <<PassedOn(url.path)[1]>> \o rest
<1> DEFINE path == url.path
           head == path[1]
           link == <<head>> \o rest
<1>1. path \in Path /\ path # << >> /\ PassedOn(path) = path
  BY KeepingPassesAll DEF GetsThrough
<1>2. Base(path, url) = << >>
  <2>1. path = << >> \o path /\ << >> \in Path
    BY <1>1, ConcatEmptySeq, EmptySeq DEF Path
  <2> QED
    BY <1>1, <2>1, BaseBeforeTheEnd
<1>3. Len(path) \in Nat /\ Len(path) # 0 /\ head \in Words
  <2>1. Len(path) \in Nat /\ Len(path) # 0
    BY <1>1, EmptySeq, LenProperties DEF Path
  <2>2. 1 \in 1..Len(path)
    BY <2>1
  <2> QED
    BY <1>1, <2>1, <2>2, ElementOfSeq DEF Path
<1>4. link \in Path /\ link # << >> /\ Len(link) = Len(rest) + 1 /\ link[1] = head
  BY <1>3, OneSegment
<1>5. PICK i \in DOMAIN setup.rules :
        setup.rules[i].from \in Path /\ IsPrefix(setup.rules[i].from, path)
  BY GetsThroughBy
<1>6. RuleFor(link) # {}
  <2> DEFINE from == setup.rules[i].from
  <2>1. Len(from) \in Nat /\ Len(from) <= 1 /\ \A k \in 1..Len(from) : from[k] = path[k]
    BY <1>1, <1>5, PrefixElements, LenProperties DEF Keeping, Path
  <2>2. Len(rest) \in Nat
    BY LenProperties DEF Path
  <2> HIDE DEF link
  <2>3. \A k \in 1..Len(from) : from[k] = link[k]
    BY <1>4, <2>1
  <2>4. IsPrefix(from, link)
    BY <1>4, <1>5, <2>1, <2>2, <2>3, PrefixElements DEF Path
  <2> QED
    BY <2>4, SomeRule
<1> HIDE DEF link
<1>7. PassedOn(link) = link
  BY <1>4, <1>6, KeepingPassesAll
<1> QED
  BY <1>1, <1>2, <1>3, <1>4, <1>6, <1>7 DEF GetsThrough, link

LEMMA StrippingLinks ==
    ASSUME setup \in Setups, Stripping(setup.rules), NEW url, GetsThrough(url.path),
           NEW rest \in Path, rest # << >>
    PROVE  /\ Base(PassedOn(url.path), url) \in Path
           /\ GetsThrough(Base(PassedOn(url.path), url) \o rest)
           /\ PassedOn(Base(PassedOn(url.path), url) \o rest) = rest
<1> DEFINE asked == PassedOn(url.path)
<1>1. PICK i \in DOMAIN setup.rules : \E tail \in Path :
        /\ setup.rules[i].from \in Path
        /\ url.path = setup.rules[i].from \o tail
        /\ asked = setup.rules[i].to \o tail
  BY GetsThroughBy
<1> DEFINE from == setup.rules[i].from
<1>2. setup.rules[i].to = << >>
  BY DEF Stripping
<1>3. asked \in Path /\ asked # << >> /\ url.path = from \o asked
  BY <1>1, <1>2, ConcatEmptySeq DEF GetsThrough, Path
<1> HIDE DEF asked
<1>4. Base(asked, url) = from
  BY <1>1, <1>3, BaseBeforeTheEnd
<1>5. ASSUME NEW j \in DOMAIN setup.rules, IsPrefix(setup.rules[j].from, from \o rest)
      PROVE  setup.rules[j] = setup.rules[i]
  <2>1. setup.rules[i] \in RuleType /\ setup.rules[j] \in RuleType
    BY RuleTypes
  <2>2. IsPrefix(from, from \o rest) /\ from \o rest \in Path
    BY <1>1, PrefixOfConcat, ConcatProperties DEF Path
  <2>3. IsPrefix(setup.rules[j].from, from) \/ IsPrefix(from, setup.rules[j].from)
    BY <1>5, <2>1, <2>2, PrefixesCompare DEF RuleType, Path
  <2>4. setup.rules[j].from = from /\ setup.rules[j].to = setup.rules[i].to
    BY <2>3 DEF Stripping
  <2> QED
    BY <2>1, <2>4 DEF RuleType
<1>6. /\ from \o rest \in Path /\ RuleFor(from \o rest) = {setup.rules[i]}
      /\ PassedOn(from \o rest) = setup.rules[i].to \o rest
  BY <1>5, ByRule
<1>7. PassedOn(from \o rest) = rest
  BY <1>2, <1>6, ConcatEmptySeq DEF Path
<1> QED
  BY <1>1, <1>4, <1>6, <1>7 DEF GetsThrough, asked

LEMMA RenamingPasses ==
    ASSUME setup \in Setups, Renaming(setup.rules), NEW path \in Path, path # << >>
    PROVE  /\ GetsThrough(path)
           /\ \/ PassedOn(path) = path
              \/ \E rest \in Path : /\ path = setup.rules[1].from \o rest
                                   /\ PassedOn(path) = <<"v1-secrets">> \o rest
           /\ path[1] = "v1-secrets" => PassedOn(path) = path
<1> DEFINE from == setup.rules[1].from
<1>1. 1 \in DOMAIN setup.rules /\ 2 \in DOMAIN setup.rules
  BY RuleTypes DEF Renaming
<1>2. from \in Path /\ setup.rules[2].from = << >> /\ setup.rules[2].to = << >>
  BY <1>1, RuleTypes DEF RuleType, Renaming
<1>3. RuleFor(path) # {}
  <2>1. IsPrefix(<< >>, path)
    BY EmptyIsPrefix DEF Path
  <2>2. IsPrefix(setup.rules[2].from, path)
    BY <1>2, <2>1
  <2> QED
    BY <1>1, <2>2, SomeRule
<1>4. PICK i \in DOMAIN setup.rules :
        RuleFor(path) = {setup.rules[i]} /\ IsPrefix(setup.rules[i].from, path)
  BY <1>3, FirstRule
<1>5. PICK rest \in Path : /\ path = setup.rules[i].from \o rest
                         /\ PassedOn(path) = setup.rules[i].to \o rest
  BY <1>4, ByFirstRule
<1>6. i = 1 \/ i = 2
  BY RuleTypes DEF Renaming
<1>7. CASE i = 1
  <2>1. PassedOn(path) = <<"v1-secrets">> \o rest /\ path = from \o rest
    BY <1>5, <1>7 DEF Renaming
  <2>2. /\ <<"v1-secrets">> \o rest \in Path
        /\ <<"v1-secrets">> \o rest # << >>
    BY OneSegment, WordsAssumption
  <2>3. path[1] # "v1-secrets"
    <3>1. Len(from) \in Nat /\ Len(from) # 0 /\ DOMAIN from = 1..Len(from)
      BY <1>2, EmptySeq, LenProperties DEF Path, Renaming
    <3>2. 1 \in 1..Len(from) /\ path[1] = from[1]
      BY <1>2, <1>4, <1>7, <3>1, PrefixElements DEF Path
    <3>3. from[1] \in ToSet(from)
      BY <3>1, <3>2 DEF ToSet
    <3> QED
      BY <3>2, <3>3 DEF Renaming
  <2> QED
    BY <1>3, <2>1, <2>2, <2>3 DEF GetsThrough
<1>8. CASE i = 2
  <2>1. PassedOn(path) = path
    BY <1>2, <1>5, <1>8
  <2> QED
    BY <1>3, <2>1 DEF GetsThrough
<1> QED
  BY <1>6, <1>7, <1>8

LEMMA RenamingLinks ==
    ASSUME setup \in Setups, Renaming(setup.rules), NEW url, GetsThrough(url.path),
           url.path # << >>, NEW rest \in Path
    PROVE  /\ Base(PassedOn(url.path), url) = << >>
           /\ PassedOn(url.path)[1] \in Words
           /\ GetsThrough(<<PassedOn(url.path)[1]>> \o rest)
           /\ PassedOn(url.path)[1] = "v1-secrets" =>
                PassedOn(<<PassedOn(url.path)[1]>> \o rest) = <<PassedOn(url.path)[1]>> \o rest
<1> DEFINE path == url.path
           asked == PassedOn(path)
           link == <<asked[1]>> \o rest
<1>1. path \in Path /\ asked \in Path /\ asked # << >>
  BY DEF GetsThrough
<1>2. Base(asked, url) = << >>
  <2>1. CASE asked = path
    <3>1. path = << >> \o path /\ << >> \in Path
      BY <1>1, ConcatEmptySeq, EmptySeq DEF Path
    <3> QED
      BY <1>1, <2>1, <3>1, BaseBeforeTheEnd
  <2>2. ASSUME NEW tail \in Path, path = setup.rules[1].from \o tail,
               asked = <<"v1-secrets">> \o tail
        PROVE  Base(asked, url) = << >>
    <3>1. setup.rules[1].from \in Path
      BY RuleTypes DEF Renaming, RuleType
    <3>2. "v1-secrets" \in Words /\ "v1-secrets" # Blank
      BY WordsAssumption DEF Blank
    <3>3. "v1-secrets" \notin ToSet(setup.rules[1].from)
      BY DEF Renaming
    <3> QED
      BY <2>2, <3>1, <3>2, <3>3, NoBaseWhenRenamed
  <2> QED
    BY <1>1, <2>1, <2>2, RenamingPasses
<1>3. asked[1] \in Words
  <2>1. Len(asked) \in Nat /\ Len(asked) # 0
    BY <1>1, EmptySeq, LenProperties DEF Path
  <2>2. 1 \in 1..Len(asked)
    BY <2>1
  <2> QED
    BY <1>1, <2>2, ElementOfSeq DEF Path
<1>4. link \in Path /\ link # << >> /\ link[1] = asked[1]
  BY <1>3, OneSegment
<1> HIDE DEF link
<1>5. GetsThrough(link) /\ (link[1] = "v1-secrets" => PassedOn(link) = link)
  BY <1>4, RenamingPasses
<1> QED
  BY <1>2, <1>3, <1>4, <1>5 DEF link

LEMMA RenamingNeedsPath ==
    ASSUME setup \in Setups, Renaming(setup.rules), NEW path, GetsThrough(path)
    PROVE  path # << >>
<1>1. PICK i \in DOMAIN setup.rules : \E tail \in Path :
        /\ setup.rules[i].from \in Path
        /\ path = setup.rules[i].from \o tail
        /\ PassedOn(path) = setup.rules[i].to \o tail
  BY GetsThroughBy
<1>2. PICK tail \in Path : /\ setup.rules[i].from \in Path
                         /\ path = setup.rules[i].from \o tail
                         /\ PassedOn(path) = setup.rules[i].to \o tail
  BY <1>1
<1>3. i = 1 \/ i = 2
  BY RuleTypes DEF Renaming
<1>4. ASSUME path = << >>
      PROVE  PassedOn(path) = << >>
  <2>1. setup.rules[i].from = << >> /\ tail = << >>
    BY <1>2, <1>4, ConcatSimplifications DEF Path
  <2>2. setup.rules[i].to = << >>
    BY <1>3, <2>1 DEF Renaming
  <2>3. PassedOn(path) = << >> \o tail
    BY <1>2, <2>2
  <2> QED
    BY <2>1, <2>3, ConcatEmptySeq DEF Path
<1> QED
  BY <1>4 DEF GetsThrough

LEMMA LinkPaths ==
    ASSUME setup \in Setups, Transparent(setup), NEW url, GetsThrough(url.path),
           NEW rest \in Path
    PROVE  LET asked == PassedOn(url.path)
               base == Base(asked, url)
               link == base \o <<asked[1]>> \o rest
           IN  /\ base \in Path /\ asked[1] \in Words /\ Head(asked) = asked[1]
               /\ GetsThrough(link)
               /\ asked[1] = "v1-secrets" => PassedOn(link) = <<asked[1]>> \o rest
<1> DEFINE asked == PassedOn(url.path)
           base == Base(asked, url)
           link == base \o <<asked[1]>> \o rest
           local == <<asked[1]>> \o rest
           Goal == /\ base \in Path /\ GetsThrough(link)
                   /\ asked[1] = "v1-secrets" => PassedOn(link) = local
<1>1. asked \in Path /\ asked # << >> /\ url.path \in Path
  BY DEF GetsThrough
<1>2. asked[1] \in Words /\ Head(asked) = asked[1]
  <2>1. Len(asked) \in Nat /\ Len(asked) # 0
    BY <1>1, EmptySeq, LenProperties DEF Path
  <2>2. 1 \in 1..Len(asked)
    BY <2>1
  <2> QED
    BY <1>1, <2>2, ElementOfSeq DEF Path
<1>3. local \in Path /\ local # << >>
  BY <1>2, OneSegment
<1>4. <<asked[1]>> \in Path
  BY <1>2 DEF Path
<1>5. ASSUME base = << >>, GetsThrough(local),
             asked[1] = "v1-secrets" => PassedOn(local) = local
      PROVE  Goal
  <2>1. base \in Path
    BY <1>5, EmptySeq DEF Path
  <2>2. << >> \o <<asked[1]>> = <<asked[1]>>
    <3> DEFINE one == <<asked[1]>>
    <3>1. one \in Path
      BY <1>4
    <3> HIDE DEF one
    <3>2. << >> \o one = one
      BY <3>1, ConcatEmptySeq DEF Path
    <3> QED
      BY <3>2 DEF one
  <2>3. link = local
    BY <1>5, <2>2
  <2> QED
    BY <1>5, <2>1, <2>3
<1>6. ASSUME Keeping(setup.rules)
      PROVE  Goal
  <2>1. base = << >> /\ GetsThrough(local) /\ PassedOn(local) = local
    BY <1>6, KeepingLinks
  <2> HIDE DEF asked, base, local, link
  <2> QED
    BY <1>5, <2>1
<1>7. ASSUME Stripping(setup.rules)
      PROVE  Goal
  <2>1. base \in Path /\ GetsThrough(base \o local) /\ PassedOn(base \o local) = local
    BY <1>3, <1>7, StrippingLinks
  <2>2. link = base \o local
    <3> DEFINE one == <<asked[1]>>
    <3>1. one \in Path /\ base \in Path
      BY <1>4, <2>1
    <3> HIDE DEF one, base
    <3>2. (base \o one) \o rest = base \o (one \o rest)
      BY <3>1, ConcatAssociative DEF Path
    <3> QED
      BY <3>2 DEF one
  <2> HIDE DEF asked, base, local, link
  <2> QED
    BY <2>1, <2>2
<1>8. ASSUME Renaming(setup.rules)
      PROVE  Goal
  <2>1. url.path # << >>
    BY <1>8, RenamingNeedsPath
  <2>2. /\ base = << >> /\ GetsThrough(local)
        /\ asked[1] = "v1-secrets" => PassedOn(local) = local
    BY <1>8, <2>1, RenamingLinks
  <2> HIDE DEF asked, base, local, link
  <2> QED
    BY <1>5, <2>2
<1>9. Keeping(setup.rules) \/ Stripping(setup.rules) \/ Renaming(setup.rules)
  BY DEF Transparent
<1> QED
  BY <1>2, <1>5, <1>6, <1>7, <1>8, <1>9

-----------------------------------------------------------------------------
(* What the service knows of the URL it was asked by. *)

LEMMA ReceivedIs ==
    ASSUME NEW method, NEW url
    PROVE  Received(method, url) =
             [method |-> method, query |-> url.query, host |-> setup.host,
              path |-> PassedOn(url.path),
              requestUrl |-> IF setup.sendsUrl THEN <<url>> ELSE << >>,
              proto |-> setup.proto, forwardedHost |-> setup.forwardedHost,
              forwardedPort |-> setup.forwardedPort]
BY DEF Received, PassedOn

OfFront(asked, path) ==
    /\ asked \in UrlType /\ asked.path = path
    /\ asked.scheme = setup.front.scheme
    /\ asked.host.name = setup.front.host.name
    /\ PortOf(asked) = PortOf(setup.front)

\* It is the URL the client used, but for its query.
LEMMA AskedAtFront ==
    ASSUME setup \in Setups, Transparent(setup), NEW method,
           NEW url \in UrlType, AtFront(url)
    PROVE  OfFront(RequestUrl(Received(method, url)), url.path)
<1> SUFFICES ASSUME NEW asked, asked = RequestUrl(Received(method, url))
             PROVE  OfFront(asked, url.path)
  OBVIOUS
<1> DEFINE req == Received(method, url)
<1>1. Blank \in Words /\ "http" \in Words
  BY WordsAssumption
<1>2. setup \in SetupType
  BY SetupAssumption
<1>3. CASE setup.sendsUrl
  <2>1. req.requestUrl = <<url>>
    BY <1>3, ReceivedIs
  <2>2. req.requestUrl # << >> /\ Head(req.requestUrl) = url
    BY <2>1
  <2>3. asked = [url EXCEPT !.query = Blank]
    BY <2>2 DEF RequestUrl, Override
  <2> QED
    BY <1>1, <2>3 DEF OfFront, UrlType, AtFront, PortOf
<1>4. CASE ~setup.sendsUrl
  <2>1. Keeping(setup.rules) /\ Truthful(setup)
    BY <1>4 DEF Transparent
  <2>2. /\ req.requestUrl = << >> /\ req.host = setup.host
        /\ req.proto = setup.proto /\ req.forwardedHost = setup.forwardedHost
        /\ req.forwardedPort = setup.forwardedPort
    BY <1>4, ReceivedIs
  <2>3. req.path = url.path
    <3>1. req.path = PassedOn(url.path)
      BY ReceivedIs
    <3>2. url.path \in Path /\ RuleFor(url.path) # {}
      BY DEF UrlType, AtFront, Path
    <3> QED
      BY <2>1, <3>1, <3>2, KeepingPassesAll
  <2>4. CASE setup.proto = << >>
    <3>1. asked = [scheme |-> "http", host |-> setup.host, path |-> url.path, query |-> Blank]
      BY <2>2, <2>3, <2>4 DEF RequestUrl
    <3> QED
      BY <1>1, <1>2, <2>1, <2>4, <3>1 DEF OfFront, UrlType, SetupType, Truthful, PortOf
  <2>5. CASE setup.proto # << >>
    <3> DEFINE host == IF setup.forwardedHost = << >> THEN setup.host
                       ELSE Head(setup.forwardedHost)
               port == IF setup.forwardedPort = << >> THEN Blank ELSE Head(setup.forwardedPort)
               address == IF port \in {Blank, "80", "443"} THEN host
                          ELSE [host EXCEPT !.port = port]
    <3>1. asked = [scheme |-> Head(setup.proto), host |-> address, path |-> url.path,
                   query |-> Blank]
      BY <2>2, <2>3, <2>5 DEF RequestUrl, Override, ForwardedAddress
    <3>2. host \in HostType /\ port \in Words /\ Head(setup.proto) \in Words
      BY <1>1, <1>2, <2>5, HeadTailProperties DEF SetupType
    <3>3. /\ setup.front.scheme = Head(setup.proto)
          /\ setup.front.host.name = host.name
          /\ IF port \in {Blank, "80", "443"}
             THEN PortOf([scheme |-> setup.front.scheme, host |-> host]) = PortOf(setup.front)
             ELSE port = PortOf(setup.front)
      BY <2>1, <2>5 DEF Truthful
    <3> HIDE DEF host, port
    <3>4. CASE port \in {Blank, "80", "443"}
      BY <1>1, <3>1, <3>2, <3>3, <3>4 DEF OfFront, UrlType, HostType, PortOf
    <3>5. CASE port \notin {Blank, "80", "443"}
      <4>1. /\ address \in HostType /\ address.name = host.name /\ address.port = port
            /\ port # Blank
        BY <3>2, <3>5 DEF HostType
      <4> HIDE DEF address
      <4> QED
        BY <1>1, <3>1, <3>2, <3>3, <3>5, <4>1 DEF OfFront, UrlType, PortOf
    <3> QED
      BY <3>4, <3>5
  <2> QED
    BY <2>4, <2>5
<1> QED
  BY <1>3, <1>4

-----------------------------------------------------------------------------
(* The handlers of the paths that links have. *)

LEMMA Names ==
    /\ Listable = {"apiVersion", "schema", "secret", "secretInput", "encryptedSecret",
                   "rewrappedSecret", "bulkSecretInput", "bulkEncryptedSecret",
                   "bulkRewrappedSecret"}
    /\ Plurals["schema"] = "schemas" /\ Plurals["secret"] = "secrets"
    /\ \A id \in Listable : Plurals[id] \in Words
    /\ SchemaIds \subseteq Words /\ Operations \subseteq Words
    /\ "v1-secrets" \in Words /\ "secrets" \in Words /\ "bulk" \in Words /\ Blank \in Words
<1>1. Listable = {"apiVersion", "schema", "secret", "secretInput", "encryptedSecret",
                   "rewrappedSecret", "bulkSecretInput", "bulkEncryptedSecret",
                   "bulkRewrappedSecret"}
  BY DEF Listable, Plurals
<1>2. Plurals["schema"] = "schemas" /\ Plurals["secret"] = "secrets"
  BY DEF Plurals
<1> QED
  BY <1>1, <1>2, WordsAssumption

LEMMA BlankIsNoName ==
    /\ Blank # "schemas" /\ Blank # "v1-secrets" /\ Blank # "secrets" /\ Blank # "bulk"
    /\ Blank # "other" /\ Blank \notin SchemaIds /\ Blank \notin Operations
<1>1. Blank \notin Listable /\ Blank # "error"
  BY Names DEF Blank
<1>2. Blank \notin Operations
  BY DEF Blank, Operations
<1> QED
  BY <1>1, <1>2 DEF Blank, SchemaIds

LEMMA AppendIs ==
    ASSUME NEW S, NEW s \in Seq(S), NEW last \in S, NEW t \in Seq(S),
           Len(t) = Len(s) + 1, \A k \in 1..Len(s) : t[k] = s[k], t[Len(s) + 1] = last
    PROVE  Append(s, last) = t
<1> DEFINE u == Append(s, last)
<1>1. /\ u \in Seq(S) /\ Len(u) = Len(s) + 1
      /\ \A k \in 1..Len(s) : u[k] = s[k]
      /\ u[Len(s) + 1] = last
  BY AppendProperties
<1> HIDE DEF u
<1>2. \A k \in 1..Len(u) : u[k] = t[k]
  <2>1. Len(s) \in Nat
    BY LenProperties
  <2> QED
    BY <1>1, <2>1
<1>3. u = t
  BY <1>1, <1>2, SeqEqual
<1> QED
  BY <1>3 DEF u

LEMMA AppendToOne ==
    ASSUME NEW a, NEW b
    PROVE  Append(<<a>>, b) = <<a, b>>
<1> DEFINE S == {a, b}
           s == <<a>>
           t == <<a, b>>
<1>1. s \in Seq(S) /\ Len(s) = 1 /\ s[1] = a
  OBVIOUS
<1>2. t \in Seq(S) /\ Len(t) = 2 /\ t[1] = a /\ t[2] = b
  OBVIOUS
<1>3. b \in S
  OBVIOUS
<1> HIDE DEF S, s, t
<1>4. /\ \A k \in 1..Len(s) : t[k] = s[k]
      /\ Len(t) = Len(s) + 1 /\ t[Len(s) + 1] = b
  BY <1>1, <1>2
<1>5. Append(s, b) = t
  BY <1>1, <1>2, <1>3, <1>4, AppendIs
<1> QED
  BY <1>5 DEF s, t

LEMMA AppendToTwo ==
    ASSUME NEW a, NEW b, NEW c
    PROVE  Append(<<a, b>>, c) = <<a, b, c>>
<1> DEFINE S == {a, b, c}
           s == <<a, b>>
           t == <<a, b, c>>
<1>1. s \in Seq(S) /\ Len(s) = 2 /\ s[1] = a /\ s[2] = b
  OBVIOUS
<1>2. t \in Seq(S) /\ Len(t) = 3 /\ t[1] = a /\ t[2] = b /\ t[3] = c
  OBVIOUS
<1>3. c \in S
  OBVIOUS
<1> HIDE DEF S, s, t
<1>4. /\ \A k \in 1..Len(s) : t[k] = s[k]
      /\ Len(t) = Len(s) + 1 /\ t[Len(s) + 1] = c
  BY <1>1, <1>2
<1>5. Append(s, c) = t
  BY <1>1, <1>2, <1>3, <1>4, AppendIs
<1> QED
  BY <1>5 DEF s, t

LEMMA AppendToThree ==
    ASSUME NEW a, NEW b, NEW c, NEW d
    PROVE  Append(<<a, b, c>>, d) = <<a, b, c, d>>
<1> DEFINE S == {a, b, c, d}
           s == <<a, b, c>>
           t == <<a, b, c, d>>
<1>1. s \in Seq(S) /\ Len(s) = 3 /\ s[1] = a /\ s[2] = b /\ s[3] = c
  OBVIOUS
<1>2. t \in Seq(S) /\ Len(t) = 4 /\ t[1] = a /\ t[2] = b /\ t[3] = c /\ t[4] = d
  OBVIOUS
<1>3. d \in S
  OBVIOUS
<1> HIDE DEF S, s, t
<1>4. /\ \A k \in 1..Len(s) : t[k] = s[k]
      /\ Len(t) = Len(s) + 1 /\ t[Len(s) + 1] = d
  BY <1>1, <1>2
<1>5. Append(s, d) = t
  BY <1>1, <1>2, <1>3, <1>4, AppendIs
<1> QED
  BY <1>5 DEF s, t

LEMMA AppendedSegments ==
    /\ \A a, b : Append(<<a>>, b) = <<a, b>>
    /\ \A a, b, c : Append(<<a, b>>, c) = <<a, b, c>>
    /\ \A a, b, c, d : Append(<<a, b, c>>, d) = <<a, b, c, d>>
BY AppendToOne, AppendToTwo, AppendToThree

LEMMA JoinedSegments ==
    ASSUME NEW a, NEW b, NEW c
    PROVE  /\ <<a>> \o <<b>> = <<a, b>> /\ <<a, b>> \o <<c>> = <<a, b, c>>
           /\ <<a>> \o <<b, c>> = <<a, b, c>> /\ <<a, b>> \o << >> = <<a, b>>
<1> DEFINE S == {a, b, c}
           A == <<a>>
           B == <<b>>
           C == <<c>>
           AB == <<a, b>>
<1>1. /\ A \in Seq(S) /\ B \in Seq(S) /\ C \in Seq(S) /\ AB \in Seq(S)
      /\ b \in S /\ c \in S
  OBVIOUS
<1>2. Append(A, b) = AB /\ Append(B, c) = <<b, c>> /\ Append(AB, c) = <<a, b, c>>
  BY AppendedSegments
<1> HIDE DEF S, A, AB
<1>3. Append(A, b) = A \o B /\ Append(AB, c) = AB \o C /\ AB \o << >> = AB
  BY <1>1, AppendIsConcat, ConcatEmptySeq
<1>4. Append(B, c) = B \o C
  BY <1>1, AppendIsConcat
<1> HIDE DEF B, C
<1>5. (A \o B) \o C = A \o (B \o C)
  BY <1>1, ConcatAssociative
<1>6. A \o Append(B, c) = Append(AB, c)
  BY <1>2, <1>3, <1>4, <1>5
<1> QED
  BY <1>2, <1>3, <1>6 DEF A, B, C, AB

LEMMA GotSchemas ==
    ASSUME NEW req, req.path = <<"v1-secrets", "schemas">>
    PROVE  Got(req) = "SchemasHandler"
BY AppendedSegments, BlankIsNoName DEF Got, Is

LEMMA GotSchema ==
    ASSUME NEW req, NEW id \in SchemaIds, req.path = <<"v1-secrets", "schemas", id>>
    PROVE  Got(req) = "SchemaHandler"
BY AppendedSegments, BlankIsNoName DEF Got, Is

LEMMA SecretsPaths ==
    /\ Secrets \o << >> = <<"v1-secrets", "secrets">>
    /\ \A op : /\ Secrets \o <<op>> = <<"v1-secrets", "secrets", op>>
             /\ Append(Secrets, op) = <<"v1-secrets", "secrets", op>>
<1>1. Secrets \o << >> = <<"v1-secrets", "secrets">>
  BY JoinedSegments DEF Secrets
<1>2. ASSUME NEW op
      PROVE  /\ Secrets \o <<op>> = <<"v1-secrets", "secrets", op>>
             /\ Append(Secrets, op) = <<"v1-secrets", "secrets", op>>
  BY AppendToTwo, JoinedSegments DEF Secrets
<1> QED
  BY <1>1, <1>2

LEMMA GotList ==
    ASSUME NEW req,
           \/ req.path = <<"v1-secrets", "secrets">>
           \/ req.path = <<"v1-secrets", "secrets", "create">>
           \/ req.path = <<"v1-secrets", "secrets", "rewrap">>
    PROVE  Got(req) = "ListSecrets"
<1>1. ~ Is(req, <<"v1-secrets">>) /\ ~ Is(req, <<"v1-secrets", "schemas">>)
  <2>1. Is(req, <<"v1-secrets">>) =>
          req.path = <<"v1-secrets">> \/ req.path = <<"v1-secrets", Blank>>
    BY AppendedSegments DEF Is
  <2>2. Is(req, <<"v1-secrets", "schemas">>) =>
          \/ req.path = <<"v1-secrets", "schemas">>
          \/ req.path = <<"v1-secrets", "schemas", Blank>>
    BY AppendedSegments DEF Is
  <2>3. req.path[1] = "v1-secrets" /\ req.path[2] = "secrets"
    OBVIOUS
  <2>4. req.path # <<"v1-secrets">>
    OBVIOUS
  <2>5. req.path # <<"v1-secrets", Blank>>
    BY <2>3, BlankIsNoName
  <2>6. /\ req.path # <<"v1-secrets", "schemas">>
        /\ req.path # <<"v1-secrets", "schemas", Blank>>
    BY <2>3
  <2>7. ~ Is(req, <<"v1-secrets">>)
    BY <2>1, <2>4, <2>5
  <2>8. ~ Is(req, <<"v1-secrets", "schemas">>)
    BY <2>2, <2>6
  <2> QED
    BY <2>7, <2>8
<1>2. ~ \E id \in SchemaIds \union {"other"} : Is(req, <<"v1-secrets", "schemas", id>>)
  <2>1. SUFFICES ASSUME NEW id, Is(req, <<"v1-secrets", "schemas", id>>)
                 PROVE  FALSE
    OBVIOUS
  <2>2. \/ req.path = <<"v1-secrets", "schemas", id>>
        \/ req.path = <<"v1-secrets", "schemas", id, Blank>>
    BY <2>1, AppendedSegments DEF Is
  <2>3. req.path[2] = "secrets"
    OBVIOUS
  <2> QED
    BY <2>2, <2>3
<1>3. \E rest \in {<< >>, <<"create">>, <<"rewrap">>} : req.path = Secrets \o rest
  BY SecretsPaths
<1>4. \E rest \in {<< >>, <<"create">>, <<"rewrap">>} : Is(req, Secrets \o rest)
  BY <1>3 DEF Is
<1> QED
  BY <1>1, <1>2, <1>4 DEF Got

LEMMA PostedTo ==
    ASSUME NEW req, NEW op \in Operations, req.method = "POST",
           req.path = <<"v1-secrets", "secrets", op>>
    PROVE  HandlerOf(req) = Posted(op, req)
<1>1. req.path = Append(Secrets, op)
  BY SecretsPaths
<1>2. Last(req.path) = op
  BY DEF Last
<1> QED
  BY <1>1, <1>2 DEF HandlerOf

\* Only paths under the service's own prefix have a route.
LEMMA Routed ==
    ASSUME NEW req, HandlerOf(req) # "NotFoundHandler"
    PROVE  req.path[1] = "v1-secrets"
<1>1. CASE req.method = "GET"
  <2>1. Got(req) # "NotFoundHandler"
    BY <1>1 DEF HandlerOf
  <2>2. \/ Is(req, <<"v1-secrets">>) \/ Is(req, <<"v1-secrets", "schemas">>)
        \/ \E id \in SchemaIds \union {"other"} : Is(req, <<"v1-secrets", "schemas", id>>)
        \/ \E rest \in {<< >>, <<"create">>, <<"rewrap">>} : Is(req, Secrets \o rest)
    BY <2>1 DEF Got
  <2>3. CASE Is(req, <<"v1-secrets">>)
    BY <2>3, AppendedSegments DEF Is
  <2>4. CASE Is(req, <<"v1-secrets", "schemas">>)
    BY <2>4, AppendedSegments DEF Is
  <2>5. ASSUME NEW id, Is(req, <<"v1-secrets", "schemas", id>>)
        PROVE  req.path[1] = "v1-secrets"
    BY <2>5, AppendedSegments DEF Is
  <2>6. ASSUME NEW rest \in {<< >>, <<"create">>, <<"rewrap">>}, Is(req, Secrets \o rest)
        PROVE  req.path[1] = "v1-secrets"
    <3>1. \/ Secrets \o rest = <<"v1-secrets", "secrets">>
          \/ \E op : Secrets \o rest = <<"v1-secrets", "secrets", op>>
      BY SecretsPaths
    <3>2. ASSUME Secrets \o rest = <<"v1-secrets", "secrets">>
          PROVE  req.path[1] = "v1-secrets"
      BY <2>6, <3>2, AppendedSegments DEF Is
    <3>3. ASSUME NEW op, Secrets \o rest = <<"v1-secrets", "secrets", op>>
          PROVE  req.path[1] = "v1-secrets"
      BY <2>6, <3>3, AppendedSegments DEF Is
    <3> QED
      BY <3>1, <3>2, <3>3
  <2> QED
    BY <2>2, <2>3, <2>4, <2>5, <2>6
<1>2. CASE req.method # "GET"
  BY <1>2, SecretsPaths DEF HandlerOf
<1> QED
  BY <1>1, <1>2

-----------------------------------------------------------------------------
(* Every URL of an answer reaches the service again. *)

Reaches(url) == url \in UrlType /\ AtFront(url) /\ GetsThrough(url.path)

\* What the links of an answer are built from: a request that came through the proxy.
CameThrough(req) ==
    \E method \in Methods : \E url : Reaches(url) /\ req = Received(method, url)

LEMMA AskedReaches ==
    ASSUME setup \in Setups, Transparent(setup), NEW req, CameThrough(req)
    PROVE  Reaches(RequestUrl(req)) /\ PassedOn(RequestUrl(req).path) = req.path
<1>1. PICK method, url : Reaches(url) /\ req = Received(method, url)
  BY DEF CameThrough
<1>2. OfFront(RequestUrl(req), url.path)
  BY <1>1, AskedAtFront DEF Reaches
<1>3. req.path = PassedOn(url.path)
  BY <1>1, ReceivedIs
<1> QED
  BY <1>1, <1>2, <1>3 DEF OfFront, Reaches, AtFront

LEMMA BuiltReaches ==
    ASSUME setup \in Setups, Transparent(setup), NEW req, CameThrough(req), NEW rest \in Path
    PROVE  /\ Reaches(Url(req, rest))
           /\ req.path[1] = "v1-secrets" =>
                PassedOn(Url(req, rest).path) = <<"v1-secrets">> \o rest
<1>1. PICK method, url : Reaches(url) /\ req = Received(method, url)
  BY DEF CameThrough
<1> DEFINE asked == PassedOn(url.path)
           base == Base(asked, url)
           link == base \o <<asked[1]>> \o rest
           self == RequestUrl(req)
<1>2. OfFront(self, url.path)
  BY <1>1, AskedAtFront DEF Reaches
<1>3. req.path = asked
  BY <1>1, ReceivedIs
<1>4. /\ Head(asked) = asked[1] /\ GetsThrough(link)
      /\ asked[1] = "v1-secrets" => PassedOn(link) = <<asked[1]>> \o rest
  BY <1>1, LinkPaths DEF Reaches
<1>5. Url(req, rest) = [self EXCEPT !.path = link]
  <2>1. Occurrences(req.path, self) = Occurrences(asked, url) /\ self.path = url.path
    BY <1>2, <1>3 DEF Occurrences, OfFront
  <2>2. ResponseUrlBase(req) = [self EXCEPT !.path = base]
    BY <1>3, <2>1 DEF ResponseUrlBase, Base
  <2>3. Version(req) = asked[1]
    BY <1>3, <1>4 DEF Version
  <2> HIDE DEF self, base, asked
  <2>4. ResponseUrlBase(req).path = base
    BY <1>2, <2>2 DEF OfFront, UrlType
  <2>5. Url(req, rest) = [ResponseUrlBase(req) EXCEPT !.path = base \o <<asked[1]>> \o rest]
    BY <2>3, <2>4 DEF Url
  <2> QED
    BY <1>2, <2>2, <2>5 DEF OfFront, UrlType
<1> HIDE DEF self, link
<1>6. Reaches(Url(req, rest)) /\ Url(req, rest).path = link
  BY <1>2, <1>4, <1>5 DEF Reaches, OfFront, AtFront, GetsThrough, UrlType, PortOf, Path
<1> QED
  BY <1>3, <1>4, <1>6

-----------------------------------------------------------------------------
(* Every link of an answer reaches the handler it was meant for. *)

Sound(link) ==
    /\ Reaches(link.url)
    /\ \A p \in Promised(link) : HandlerOf(Received(p[1], link.url)) = p[2]

LEMMA HandlerNames ==
    /\ \A op \in Operations : Single[op] \in PostHandlers /\ Bulk[op] \in PostHandlers
    /\ PostHandlers = {"CreateSecret", "RewrapSecret", "DeleteSecret", "BulkCreateSecret",
                       "BulkRewrapSecret", "BulkDeleteSecret"}
    /\ Single["purge"] = "DeleteSecret" /\ Bulk["purge"] = "BulkDeleteSecret"
<1>1. /\ Single["create"] = "CreateSecret" /\ Single["rewrap"] = "RewrapSecret"
      /\ Single["purge"] = "DeleteSecret" /\ Bulk["create"] = "BulkCreateSecret"
      /\ Bulk["rewrap"] = "BulkRewrapSecret" /\ Bulk["purge"] = "BulkDeleteSecret"
  BY DEF Single, Bulk
<1>2. PostHandlers = {Single[op] : op \in Operations} \union {Bulk[op] : op \in Operations}
  BY DEF PostHandlers
<1>3. Operations = {"create", "rewrap", "purge"}
  BY DEF Operations
<1> QED
  BY <1>1, <1>2, <1>3

LEMMA PromisedBy ==
    ASSUME NEW of, NEW url
    PROVE  /\ Promised(Link("action", of, url)) = {<<"POST", of>>}
           /\ Promised(Link("entry", of, url)) = {}
           /\ Promised(Link("schemas", of, url)) = {<<"GET", "SchemasHandler">>}
           /\ Promised(Link("collection", of, url)) =
                IF of = "schema" THEN {<<"GET", "SchemasHandler">>}
                ELSE IF of = "secret" THEN {<<"GET", "ListSecrets">>} ELSE {}
           /\ Promised(Link("self", of, url)) =
                IF of \in {"SchemasHandler", "SchemaHandler", "ListSecrets"} THEN {<<"GET", of>>}
                ELSE IF of \in PostHandlers \ {"DeleteSecret", "BulkDeleteSecret"}
                THEN {<<"GET", "ListSecrets">>} ELSE {}
<1>1. \A rel : /\ Link(rel, of, url).rel = rel /\ Link(rel, of, url).of = of
              /\ Link(rel, of, url).url = url
  BY DEF Link
<1> QED
  BY <1>1, HandlerNames DEF Promised

LEMMA GetIsByPath ==
    ASSUME NEW req, NEW url, PassedOn(url.path) = req.path
    PROVE  HandlerOf(Received("GET", url)) = Got(req)
<1>1. Received("GET", url).method = "GET" /\ Received("GET", url).path = req.path
  BY ReceivedIs
<1> QED
  BY <1>1 DEF HandlerOf, Got, Is

\* What a request with this handler can be.
LEMMA HandledHow ==
    ASSUME NEW req
    PROVE  /\ HandlerOf(req) \in {"SchemasHandler", "SchemaHandler", "ListSecrets"} =>
                Got(req) = HandlerOf(req)
           /\ HandlerOf(req) \in PostHandlers =>
                \E op \in Operations : /\ req.path = <<"v1-secrets", "secrets", op>>
                                      /\ HandlerOf(req) = Posted(op, req)
<1>1. CASE req.method = "GET"
  <2>1. HandlerOf(req) = Got(req)
    BY <1>1 DEF HandlerOf
  <2>2. Got(req) \notin PostHandlers
    BY HandlerNames DEF Got
  <2> QED
    BY <2>1, <2>2
<1>2. CASE req.method # "GET" /\ \E op \in Operations : req.path = Append(Secrets, op)
  <2>1. PICK op \in Operations : req.path = <<"v1-secrets", "secrets", op>>
    BY <1>2, SecretsPaths
  <2>2. Last(req.path) = op
    BY <2>1 DEF Last
  <2>3. HandlerOf(req) = Posted(op, req)
    BY <1>2, <2>2 DEF HandlerOf
  <2>4. Posted(op, req) \in PostHandlers
    BY HandlerNames DEF Posted
  <2>5. Posted(op, req) \notin {"SchemasHandler", "SchemaHandler", "ListSecrets"}
    BY <2>4, HandlerNames
  <2> QED
    BY <2>1, <2>3, <2>5
<1>3. CASE req.method # "GET" /\ ~ \E op \in Operations : req.path = Append(Secrets, op)
  <2>1. HandlerOf(req) = "NotFoundHandler"
    BY <1>3 DEF HandlerOf
  <2> QED
    BY <2>1, HandlerNames
<1> QED
  BY <1>1, <1>2, <1>3

LEMMA SelfSound ==
    ASSUME setup \in Setups, Transparent(setup), NEW req, CameThrough(req)
    PROVE  Sound(Link("self", HandlerOf(req), RequestUrl(req)))
<1> DEFINE url == RequestUrl(req)
           of == HandlerOf(req)
           link == Link("self", of, url)
<1>1. Reaches(url) /\ HandlerOf(Received("GET", url)) = Got(req)
  BY AskedReaches, GetIsByPath
<1> HIDE DEF url
<1>2. link.url = url
  BY DEF Link
<1>3. CASE of \in {"SchemasHandler", "SchemaHandler", "ListSecrets"}
  <2>1. Promised(link) = {<<"GET", of>>} /\ Got(req) = of
    BY <1>3, PromisedBy, HandledHow
  <2> QED
    BY <1>1, <1>2, <2>1 DEF Sound, url
<1>4. CASE of \in PostHandlers \ {"DeleteSecret", "BulkDeleteSecret"}
  <2>1. PICK op \in Operations : /\ req.path = <<"v1-secrets", "secrets", op>>
                                /\ of = Posted(op, req)
    BY <1>4, HandledHow
  <2>2. op # "purge"
    BY <1>4, <2>1, HandlerNames DEF Posted
  <2>3. op = "create" \/ op = "rewrap"
    BY <2>2 DEF Operations
  <2>4. Got(req) = "ListSecrets"
    BY <2>1, <2>3, GotList
  <2>5. Promised(link) = {<<"GET", "ListSecrets">>}
    BY <1>4, PromisedBy, HandlerNames
  <2> QED
    BY <1>1, <1>2, <2>4, <2>5 DEF Sound, url
<1>5. CASE /\ of \notin {"SchemasHandler", "SchemaHandler", "ListSecrets"}
           /\ of \notin PostHandlers \ {"DeleteSecret", "BulkDeleteSecret"}
  <2>1. Promised(link) = {}
    BY <1>5, PromisedBy
  <2> QED
    BY <1>1, <1>2, <2>1 DEF Sound, url
<1> QED
  BY <1>3, <1>4, <1>5

LEMMA UnderVersion ==
    ASSUME setup \in Setups, Transparent(setup), NEW req, CameThrough(req), NEW rest \in Path,
           req.path[1] = "v1-secrets", NEW got, got.path = <<"v1-secrets">> \o rest
    PROVE  HandlerOf(Received("GET", Url(req, rest))) = Got(got)
BY BuiltReaches, GetIsByPath

LEMMA SchemasHeaderSound ==
    ASSUME setup \in Setups, Transparent(setup), NEW req, CameThrough(req),
           HandlerOf(req) # "NotFoundHandler"
    PROVE  Sound(SchemasHeader(req))
<1> DEFINE rest == <<"schemas">>
           url == Url(req, rest)
           of == HandlerOf(req)
           got == [path |-> <<"v1-secrets">> \o rest]
<1>1. rest \in Path
  <2>1. "schemas" \in Words
    BY Names
  <2> QED
    BY <2>1 DEF Path
<1>2. Collection(req, "schema") = url
  BY Names DEF Collection
<1>3. SchemasHeader(req) = Link("schemas", of, url) /\ SchemasHeader(req).url = url
  BY <1>2 DEF SchemasHeader, Link
<1>4. Reaches(url)
  BY <1>1, BuiltReaches
<1>5. HandlerOf(Received("GET", url)) = Got(got)
  BY <1>1, Routed, UnderVersion
<1>6. got.path = <<"v1-secrets", "schemas">>
  BY JoinedSegments
<1>7. Got(got) = "SchemasHandler"
  BY <1>6, GotSchemas
<1>8. Promised(SchemasHeader(req)) = {<<"GET", "SchemasHandler">>}
  BY <1>3, PromisedBy
<1> HIDE DEF url
<1> QED
  BY <1>3, <1>4, <1>5, <1>7, <1>8 DEF Sound, url

LEMMA CollectionSound ==
    ASSUME setup \in Setups, Transparent(setup), NEW req, CameThrough(req),
           req.path[1] = "v1-secrets", NEW type \in Listable
    PROVE  Sound(Link("collection", type, Collection(req, type)))
<1> DEFINE rest == <<Plurals[type]>>
           url == Url(req, rest)
           link == Link("collection", type, url)
           got == [path |-> <<"v1-secrets">> \o rest]
<1>1. rest \in Path
  BY Names DEF Path
<1>2. link.url = url /\ Collection(req, type) = url
  BY DEF Link, Collection
<1>3. Reaches(url) /\ HandlerOf(Received("GET", url)) = Got(got)
  BY <1>1, BuiltReaches, UnderVersion
<1>4. got.path = <<"v1-secrets", Plurals[type]>>
  BY JoinedSegments
<1>5. CASE type = "schema"
  <2>1. Got(got) = "SchemasHandler"
    BY <1>4, <1>5, GotSchemas, Names
  <2>2. Promised(link) = {<<"GET", "SchemasHandler">>}
    BY <1>5, PromisedBy
  <2> HIDE DEF url, link, got
  <2> QED
    BY <1>2, <1>3, <2>1, <2>2 DEF Sound, link
<1>6. CASE type = "secret"
  <2>1. Got(got) = "ListSecrets"
    BY <1>4, <1>6, GotList, Names
  <2>2. Promised(link) = {<<"GET", "ListSecrets">>}
    BY <1>6, PromisedBy
  <2> HIDE DEF url, link, got
  <2> QED
    BY <1>2, <1>3, <2>1, <2>2 DEF Sound, link
<1>7. CASE type # "schema" /\ type # "secret"
  <2>1. Promised(link) = {}
    BY <1>7, PromisedBy
  <2> HIDE DEF url, link
  <2> QED
    BY <1>2, <1>3, <2>1 DEF Sound, link
<1> QED
  BY <1>5, <1>6, <1>7

LEMMA SchemaSelfSound ==
    ASSUME setup \in Setups, Transparent(setup), NEW req, CameThrough(req),
           req.path[1] = "v1-secrets", NEW id \in SchemaIds
    PROVE  Sound(Link("self", "SchemaHandler", ById(req, "schema", id)))
<1> DEFINE rest == <<Plurals["schema"], id>>
           url == Url(req, rest)
           link == Link("self", "SchemaHandler", url)
           got == [path |-> <<"v1-secrets">> \o rest]
<1>1. Plurals["schema"] = "schemas" /\ "schemas" \in Words /\ id \in Words
  BY Names
<1>2. rest \in Path
  BY <1>1 DEF Path
<1>3. link.url = url /\ ById(req, "schema", id) = url
  BY DEF Link, ById
<1>4. Reaches(url)
  BY <1>2, BuiltReaches
<1>5. got.path = <<"v1-secrets">> \o rest
  OBVIOUS
<1>6. HandlerOf(Received("GET", url)) = Got(got)
  <2>1. PassedOn(url.path) = <<"v1-secrets">> \o rest
    BY <1>2, BuiltReaches
  <2>2. PassedOn(url.path) = got.path
    BY <1>5, <2>1
  <2> HIDE DEF url, got, link, rest
  <2> QED
    BY ONLY <2>2, GetIsByPath
<1>7. got.path = <<"v1-secrets", "schemas", id>>
  <2>1. <<"v1-secrets">> \o <<"schemas", id>> = <<"v1-secrets", "schemas", id>>
    BY JoinedSegments
  <2>2. rest = <<"schemas", id>>
    BY <1>1
  <2> HIDE DEF rest, got
  <2> QED
    BY <1>5, <2>1, <2>2
<1>8. Got(got) = "SchemaHandler"
  BY <1>7, GotSchema
<1>9. Promised(link) = {<<"GET", "SchemaHandler">>}
  BY PromisedBy
<1> HIDE DEF url, link, got
<1> QED
  BY <1>3, <1>4, <1>6, <1>8, <1>9 DEF Sound, link

LEMMA VersionSelfSound ==
    ASSUME setup \in Setups, Transparent(setup), NEW req, CameThrough(req)
    PROVE  Sound(Link("self", "VersionHandler", ById(req, "apiVersion", "v1-secrets")))
<1> DEFINE rest == <<Plurals["apiVersion"], "v1-secrets">>
           url == Url(req, rest)
           link == Link("self", "VersionHandler", url)
<1>1. Plurals["apiVersion"] \in Words /\ "v1-secrets" \in Words
  BY Names
<1>2. rest \in Path
  BY <1>1 DEF Path
<1>3. link.url = url /\ ById(req, "apiVersion", "v1-secrets") = url
  BY DEF Link, ById
<1>4. Reaches(url)
  BY <1>2, BuiltReaches
<1>5. Promised(link) = {}
  BY PromisedBy, HandlerNames
<1> HIDE DEF url, link
<1> QED
  BY <1>3, <1>4, <1>5 DEF Sound, link

\* An action on many secrets leads to the bulk handler, one on a single to the other.
LEMMA ActionSound ==
    ASSUME setup \in Setups, Transparent(setup), NEW req, CameThrough(req),
           req.path[1] = "v1-secrets", NEW op \in Operations
    PROVE  /\ Sound(Link("action", Single[op], Operation(req, op, Blank)))
           /\ Sound(Link("action", Bulk[op], Operation(req, op, "bulk")))
<1> DEFINE rest == <<"secrets", op>>
<1>1. rest \in Path
  <2>1. "secrets" \in Words /\ op \in Words
    BY Names
  <2> QED
    BY <2>1 DEF Path
<1>2. ASSUME NEW query \in Words, NEW of,
             \A r : r.query = query => Posted(op, r) = of
      PROVE  Sound(Link("action", of, Operation(req, op, query)))
  <2> DEFINE url == Operation(req, op, query)
             link == Link("action", of, url)
             got == Received("POST", url)
  <2>1. /\ Reaches(Url(req, rest))
        /\ PassedOn(Url(req, rest).path) = <<"v1-secrets">> \o rest
    BY <1>1, BuiltReaches
  <2>2. url = [Url(req, rest) EXCEPT !.query = query]
    BY DEF Operation
  <2> HIDE DEF rest, url
  <2>3. Reaches(url) /\ url.path = Url(req, rest).path /\ url.query = query
    BY <1>2, <2>1, <2>2 DEF Reaches, UrlType, AtFront, PortOf
  <2>4. got.method = "POST" /\ got.query = query /\ got.path = <<"v1-secrets">> \o rest
    BY <2>1, <2>3, ReceivedIs
  <2>5. got.path = <<"v1-secrets", "secrets", op>>
    BY <2>4, JoinedSegments DEF rest
  <2>6. HandlerOf(got) = of
    BY <1>2, <2>4, <2>5, PostedTo
  <2>7. Promised(link) = {<<"POST", of>>} /\ link.url = url
    BY PromisedBy DEF Link
  <2> HIDE DEF link
  <2> QED
    BY <2>3, <2>6, <2>7 DEF Sound, link, url
<1>3. \A r : r.query = Blank => Posted(op, r) = Single[op]
  BY BlankIsNoName DEF Posted
<1>4. \A r : r.query = "bulk" => Posted(op, r) = Bulk[op]
  BY DEF Posted
<1>5. Blank \in Words /\ "bulk" \in Words
  BY Names
<1> QED
  BY <1>2, <1>3, <1>4, <1>5

\* A promise to the handler that answered is kept by every link of a basic answer.
LEMMA BasicsSound ==
    ASSUME setup \in Setups, Transparent(setup), NEW req, CameThrough(req),
           HandlerOf(req) # "NotFoundHandler", NEW self,
           Sound(Link("self", HandlerOf(req), self))
    PROVE  \A link \in Basics(req, self) : Sound(link)
BY SchemasHeaderSound DEF Basics

LEMMA CollectionsSound ==
    ASSUME setup \in Setups, Transparent(setup), NEW req, CameThrough(req),
           req.path[1] = "v1-secrets", NEW types \in SUBSET Listable
    PROVE  \A link \in Collections(req, types) : Sound(link)
BY CollectionSound DEF Collections

LEMMA SchemaLinksSound ==
    ASSUME setup \in Setups, Transparent(setup), NEW req, CameThrough(req),
           req.path[1] = "v1-secrets", NEW id \in SchemaIds
    PROVE  \A link \in SchemaLinks(req, id) : Sound(link)
<1>1. \A link \in Collections(req, {id} \intersect Listable) : Sound(link)
  BY CollectionsSound
<1> QED
  BY <1>1, SchemaSelfSound DEF SchemaLinks

LEMMA VersionLinksSound ==
    ASSUME setup \in Setups, Transparent(setup), NEW req, CameThrough(req),
           HandlerOf(req) = "VersionHandler"
    PROVE  \A link \in VersionLinks(req) : Sound(link)
<1>1. req.path[1] = "v1-secrets"
  BY Routed
<1>2. Sound(Link("self", HandlerOf(req), ById(req, "apiVersion", "v1-secrets")))
  BY VersionSelfSound
<1>3. \A link \in Collections(req, Listable) : Sound(link)
  BY <1>1, CollectionsSound
<1> QED
  BY <1>2, <1>3, BasicsSound DEF VersionLinks

LEMMA SchemasLinksSound ==
    ASSUME setup \in Setups, Transparent(setup), NEW req, CameThrough(req),
           HandlerOf(req) = "SchemasHandler"
    PROVE  \A link \in SchemasLinks(req) : Sound(link)
<1>1. req.path[1] = "v1-secrets"
  BY Routed
<1>2. \A link \in Basics(req, RequestUrl(req)) : Sound(link)
  BY SelfSound, BasicsSound
<1>3. \A id \in SchemaIds : \A link \in SchemaLinks(req, id) : Sound(link)
  BY <1>1, SchemaLinksSound
<1> QED
  BY <1>2, <1>3 DEF SchemasLinks

LEMMA ActionLinksSound ==
    ASSUME setup \in Setups, Transparent(setup), NEW req, CameThrough(req),
           HandlerOf(req) = "ListSecrets"
    PROVE  \A link \in ActionLinks(req) : Sound(link)
<1>1. req.path[1] = "v1-secrets"
  BY Routed
<1>2. \A link \in Basics(req, RequestUrl(req)) : Sound(link)
  BY SelfSound, BasicsSound
<1>3. \A op \in Operations : /\ Sound(Link("action", Single[op], Operation(req, op, Blank)))
                             /\ Sound(Link("action", Bulk[op], Operation(req, op, "bulk")))
  BY <1>1, ActionSound
<1> QED
  BY <1>2, <1>3 DEF ActionLinks

-----------------------------------------------------------------------------
(* The invariant: whatever the client knows is sound. *)

LinksInv ==
    /\ setup \in Setups
    /\ \A link \in links : Sound(link)

\* A client that starts from a path of the service gets through.
LEMMA EntryReaches ==
    ASSUME setup \in Setups, Transparent(setup), NEW url \in EntryUrls
    PROVE  Reaches(url)
<1> DEFINE Asked(rule, q, path) ==
             [scheme |-> setup.front.scheme, host |-> setup.front.host, query |-> q,
              path |-> rule.from \o SubSeq(path, Len(rule.to) + 1, Len(path))]
           By(rule) == {Asked(rule, q, path) : q \in {Blank, "bulk"},
                          path \in {p \in Entries : IsPrefix(rule.to, p)}}
<1>1. PICK rule \in ToSet(setup.rules) : url \in By(rule)
  <2>1. EntryUrls = UNION {By(rule) : rule \in ToSet(setup.rules)}
    BY DEF EntryUrls
  <2> HIDE DEF By
  <2> QED
    BY <2>1
<1> HIDE DEF Asked
<1>2. PICK entry \in Entries, q \in {Blank, "bulk"} :
        IsPrefix(rule.to, entry) /\ url = Asked(rule, q, entry)
  BY <1>1
<1> USE DEF Asked
<1>3. PICK i \in DOMAIN setup.rules : rule = setup.rules[i]
  BY DEF ToSet
<1>4. rule.from \in Path /\ rule.to \in Path /\ entry \in Path /\ entry # << >>
  BY <1>2, <1>3, RuleTypes, EntriesAssumption DEF RuleType, Path
<1>5. PICK rest \in Path : entry = rule.to \o rest /\ url.path = rule.from \o rest
  BY <1>2, <1>4, PrefixSplits DEF Path
<1>6. url.path \in Path /\ IsPrefix(rule.from, url.path)
  BY <1>4, <1>5, PrefixOfConcat, ConcatProperties DEF Path
<1>7. RuleFor(url.path) # {}
  BY <1>3, <1>6, SomeRule
<1>8. url \in UrlType /\ AtFront(url)
  BY <1>2, <1>6, <1>7, RuleTypes, Names DEF UrlType, SetupType, AtFront, PortOf, Path
<1>9. CASE Keeping(setup.rules)
  <2>1. url.path = entry
    BY <1>3, <1>5, <1>9 DEF Keeping
  <2>2. PassedOn(url.path) = entry
    BY <1>6, <1>7, <1>9, <2>1, KeepingPassesAll
  <2> QED
    BY <1>4, <1>6, <1>7, <1>8, <2>2 DEF Reaches, GetsThrough
<1>10. CASE Stripping(setup.rules)
  <2>1. rule.to = << >> /\ entry = rest
    BY <1>3, <1>4, <1>5, <1>10, ConcatEmptySeq DEF Stripping, Path
  <2>2. url.path = setup.rules[i].from \o entry
    BY <1>3, <1>5, <2>1
  <2>3. ASSUME NEW j \in DOMAIN setup.rules,
               IsPrefix(setup.rules[j].from, setup.rules[i].from \o entry)
        PROVE  setup.rules[j] = setup.rules[i]
    <3>1. /\ setup.rules[i] \in RuleType /\ setup.rules[j] \in RuleType
          /\ setup.rules[i].from \in Path /\ setup.rules[j].from \in Path
      BY RuleTypes DEF RuleType
    <3>2. \/ IsPrefix(setup.rules[i].from, setup.rules[j].from)
          \/ IsPrefix(setup.rules[j].from, setup.rules[i].from)
      BY <1>3, <1>6, <2>2, <2>3, <3>1, PrefixesCompare DEF Path
    <3>3. setup.rules[i].from = setup.rules[j].from
      BY <1>10, <3>2 DEF Stripping
    <3>4. setup.rules[i].to = setup.rules[j].to
      BY <1>10 DEF Stripping
    <3> QED
      BY <3>1, <3>3, <3>4 DEF RuleType
  <2>4. PassedOn(url.path) = setup.rules[i].to \o entry
    BY <1>4, <2>2, <2>3, ByRule
  <2>5. PassedOn(url.path) = entry
    BY <1>3, <1>5, <2>1, <2>4
  <2> QED
    BY <1>4, <1>6, <1>7, <1>8, <2>5 DEF Reaches, GetsThrough
<1>11. CASE Renaming(setup.rules)
  <2>1. i = 1 \/ i = 2
    BY <1>11, RuleTypes DEF Renaming
  <2>2. url.path # << >>
    <3>1. CASE i = 1
      <4>1. rule.from # << >>
        BY <1>3, <1>11, <3>1 DEF Renaming
      <4> QED
        BY <1>4, <1>5, <4>1, ConcatProperties, EmptySeq DEF Path
    <3>2. CASE i = 2
      <4>1. rule.from = << >> /\ rule.to = << >>
        BY <1>3, <1>11, <3>2 DEF Renaming
      <4>2. url.path = entry
        BY <1>5, <4>1
      <4> QED
        BY <1>4, <4>2
    <3> QED
      BY <2>1, <3>1, <3>2
  <2> QED
    BY <1>6, <1>8, <1>11, <2>2, RenamingPasses DEF Reaches
<1> QED
  BY <1>9, <1>10, <1>11 DEF Transparent

LEMMA LinksInvInit ==
    ASSUME \A s \in Setups : Transparent(s), Init
    PROVE  LinksInv
<1>1. ASSUME NEW link \in links
      PROVE  Sound(link)
  <2>1. PICK url \in EntryUrls : link = Link("entry", "none", url)
    BY <1>1 DEF Init
  <2>2. Reaches(url)
    BY <2>1, EntryReaches DEF Init
  <2>3. Promised(link) = {} /\ link.url = url
    BY <2>1, PromisedBy DEF Link
  <2> QED
    BY <2>2, <2>3 DEF Sound
<1> QED
  BY <1>1 DEF LinksInv, Init

\* No step changes how the service is reached, so that a sound link stays sound.
LEMMA StaysSound ==
    ASSUME setup' = setup, NEW link
    PROVE  Sound(link)' <=> Sound(link)
<1>1. ASSUME NEW path
      PROVE  RuleFor(path)' = RuleFor(path)
  BY DEF RuleFor
<1>2. ASSUME NEW path
      PROVE  PassedOn(path)' = PassedOn(path)
  BY <1>1 DEF PassedOn
<1>3. ASSUME NEW method, NEW url
      PROVE  Received(method, url)' = Received(method, url)
  BY <1>1 DEF Received
<1>4. ASSUME NEW url
      PROVE  Reaches(url)' <=> Reaches(url)
  BY <1>1, <1>2 DEF Reaches, AtFront, GetsThrough
<1> QED
  BY <1>3, <1>4 DEF Sound

\* An answer whose links are sound, like those the client has.
LEMMA AnswerSound ==
    ASSUME LinksInv, NEW method, NEW url, NEW handler, NEW answer,
           Exchange(method, url, handler, answer), \A link \in answer : Sound(link)
    PROVE  LinksInv'
BY StaysSound DEF LinksInv, Exchange

LEMMA LinksInvNext ==
    ASSUME \A s \in Setups : Transparent(s), LinksInv, [Next]_vars
    PROVE  LinksInv'
<1>1. setup \in Setups /\ Transparent(setup)
  BY DEF LinksInv
<1>2. CASE UNCHANGED vars
  BY <1>2, StaysSound DEF LinksInv, vars
<1>3. ASSUME NEW link \in links, NEW method \in Methods
      PROVE  CameThrough(Received(method, link.url))
  BY DEF LinksInv, Sound, CameThrough
<1>4. ASSUME NEW req, CameThrough(req)
      PROVE  /\ \A link \in ErrorLinks(req) : Sound(link)
             /\ HandlerOf(req) # "NotFoundHandler" =>
                    \A link \in Basics(req, RequestUrl(req)) : Sound(link)
  BY <1>1, <1>4, SelfSound, BasicsSound DEF ErrorLinks
<1>5. ASSUME NEW link \in links, GetVersion(link.url)
      PROVE  LinksInv'
  <2> DEFINE req == Received("GET", link.url)
  <2>1. CameThrough(req)
    BY <1>3 DEF Methods
  <2>2. HandlerOf(req) = "VersionHandler"
    BY <1>5 DEF GetVersion, Exchange
  <2>3. \A l \in VersionLinks(req) : Sound(l)
    BY <1>1, <2>1, <2>2, VersionLinksSound
  <2> QED
    BY <1>5, <2>3, AnswerSound DEF GetVersion
<1>6. ASSUME NEW link \in links, GetSchemas(link.url)
      PROVE  LinksInv'
  <2> DEFINE req == Received("GET", link.url)
  <2>1. CameThrough(req)
    BY <1>3 DEF Methods
  <2>2. HandlerOf(req) = "SchemasHandler"
    BY <1>6 DEF GetSchemas, Exchange
  <2>3. \A l \in SchemasLinks(req) : Sound(l)
    BY <1>1, <2>1, <2>2, SchemasLinksSound
  <2> QED
    BY <1>6, <2>3, AnswerSound DEF GetSchemas
<1>7. ASSUME NEW link \in links, GetSchema(link.url)
      PROVE  LinksInv'
  <2> DEFINE req == Received("GET", link.url)
             id == IF Last(req.path) = Blank THEN req.path[Len(req.path) - 1]
                   ELSE Last(req.path)
             answer == IF id \in SchemaIds
                       THEN SchemaLinks(req, id) \union Basics(req, ById(req, "schema", id))
                       ELSE Basics(req, RequestUrl(req))
  <2>1. CameThrough(req)
    BY <1>3 DEF Methods
  <2>2. Exchange("GET", link.url, "SchemaHandler", answer)
    BY <1>7 DEF GetSchema
  <2>3. HandlerOf(req) = "SchemaHandler" /\ req.path[1] = "v1-secrets"
    <3>1. HandlerOf(req) = "SchemaHandler"
      BY <2>2 DEF Exchange
    <3> QED
      BY <3>1, Routed
  <2>4. CASE id \in SchemaIds
    <3>1. \A l \in SchemaLinks(req, id) : Sound(l)
      BY <1>1, <2>1, <2>3, <2>4, SchemaLinksSound
    <3>2. Sound(Link("self", "SchemaHandler", ById(req, "schema", id)))
      BY <1>1, <2>1, <2>3, <2>4, SchemaSelfSound
    <3>3. \A l \in Basics(req, ById(req, "schema", id)) : Sound(l)
      BY <1>1, <2>1, <2>3, <3>2, BasicsSound
    <3>4. \A l \in answer : Sound(l)
      BY <2>4, <3>1, <3>3
    <3> HIDE DEF answer
    <3> QED
      BY <2>2, <3>4, AnswerSound
  <2>5. CASE id \notin SchemaIds
    <3>1. \A l \in answer : Sound(l)
      BY <1>4, <2>1, <2>3, <2>5
    <3> HIDE DEF answer
    <3> QED
      BY <2>2, <3>1, AnswerSound
  <2> QED
    BY <2>4, <2>5
<1>8. ASSUME NEW link \in links, ListSecrets(link.url)
      PROVE  LinksInv'
  <2> DEFINE req == Received("GET", link.url)
  <2>1. CameThrough(req)
    BY <1>3 DEF Methods
  <2>2. HandlerOf(req) = "ListSecrets"
    BY <1>8 DEF ListSecrets, Exchange
  <2>3. \A l \in ActionLinks(req) : Sound(l)
    BY <1>1, <2>1, <2>2, ActionLinksSound
  <2> QED
    BY <1>8, <2>3, AnswerSound DEF ListSecrets
<1>9. ASSUME NEW link \in links, Operate(link.url)
      PROVE  LinksInv'
  <2> DEFINE req == Received("POST", link.url)
  <2>1. CameThrough(req)
    BY <1>3 DEF Methods
  <2>2. PICK answer \in {links, Basics(req, RequestUrl(req)), ErrorLinks(req)},
             handler \in PostHandlers : Exchange("POST", link.url, handler, answer)
    BY <1>9 DEF Operate
  <2>3. HandlerOf(req) # "NotFoundHandler"
    BY <2>2, HandlerNames DEF Exchange
  <2>4. \A l \in answer : Sound(l)
    BY <1>4, <2>1, <2>2, <2>3 DEF LinksInv
  <2> QED
    BY <2>2, <2>4, AnswerSound
<1>10. ASSUME NEW link \in links, NEW method \in Methods, NotFound(method, link.url)
       PROVE  LinksInv'
  <2> DEFINE req == Received(method, link.url)
  <2>1. PICK answer \in {links, ErrorLinks(req)} :
             Exchange(method, link.url, "NotFoundHandler", answer)
    BY <1>10 DEF NotFound
  <2>2. \A l \in answer : Sound(l)
    BY <1>3, <1>4, <2>1 DEF LinksInv
  <2> QED
    BY <2>1, <2>2, AnswerSound
<1> QED
  BY <1>2, <1>5, <1>6, <1>7, <1>8, <1>9, <1>10 DEF Next

-----------------------------------------------------------------------------
(* The theorems. *)

\* Behind a transparent proxy every link a client ever knows gets through it again,
\* to a path with a first segment: the version that the next links start with.
THEOREM LinksStaySound ==
    ASSUME \A s \in Setups : Transparent(s)
    PROVE  Spec => []LinksInv
<1>1. Init => LinksInv
  BY LinksInvInit
<1>2. LinksInv /\ [Next]_vars => LinksInv'
  BY LinksInvNext
<1> QED
  BY <1>1, <1>2, PTL DEF Spec

\* No answer of the service leads a client past such a proxy: the base it computes
\* from the text of two paths is the prefix the proxy took off.
THEOREM LinksAlwaysComeBack ==
    ASSUME \A s \in Setups : Transparent(s)
    PROVE  Spec => []LinksComeBack
<1>1. LinksInv => LinksComeBack
  BY DEF LinksInv, LinksComeBack, Sound, Reaches
<1> QED
  BY <1>1, LinksStaySound, PTL

\* Every link leads to the handler it was meant for: an action on many secrets never
\* to the handler of a single one, the link of an answer to what gave the answer.
THEOREM LinksAlwaysLeadWhereTheySay ==
    ASSUME \A s \in Setups : Transparent(s)
    PROVE  Spec => []LinksLeadWhereTheySay
<1>1. LinksInv => LinksLeadWhereTheySay
  BY DEF LinksInv, LinksLeadWhereTheySay, Sound
<1> QED
  BY <1>1, LinksStaySound, PTL

\* The port that X-Forwarded-Port names is in every link when it is the port clients
\* use: only a header that says otherwise is left out of a link.
THEOREM TruePortIsUsed ==
    ASSUME \A s \in Setups : Transparent(s),
           \A s \in Setups : s.forwardedPort # << >> =>
             Override(s.forwardedPort) = PortOf(s.front)
    PROVE  Spec => []ForwardedPortIsUsed
<1>1. LinksInv => ForwardedPortIsUsed
  BY DEF LinksInv, ForwardedPortIsUsed, Sound, Reaches, AtFront
<1> QED
  BY <1>1, LinksStaySound, PTL
=============================================================================
