------------------------ MODULE PodEnvironmentProofs ------------------------
(***************************************************************************)
(* Proofs about Expansion and PodEnvironment, for texts of any length, any *)
(* pods, services and caches:                                              *)
(*   1. what Expand makes of escaped texts and references;                 *)
(*   2. the environment that each container gets.                          *)
(* Expand, FlattenSeq and the reference definition Own are recursive       *)
(* functions: that they have values, and what these are, is proved by      *)
(* induction over positions and entries (InductionOnNat).                  *)
(***************************************************************************)
EXTENDS PodEnvironment, SequenceTheorems, FiniteSetTheorems, WellFoundedInduction, TLAPS

-----------------------------------------------------------------------------
(* Natural numbers. *)

(* There is a smallest among some natural numbers. *)
LEMMA LeastNatural ==
    ASSUME NEW S \in SUBSET Nat, S # {} PROVE \E m \in S : \A k \in S : m <= k
<1> DEFINE Segments == {0..m : m \in S}
<1>1. Segments \subseteq FiniteSubsetsOf(Nat) /\ Segments # {}
  <2>1. \A m \in S : 0..m \in SUBSET Nat /\ IsFiniteSet(0..m)
    BY FS_Interval
  <2> QED
    BY <2>1 DEF FiniteSubsetsOf
<1>2. IsWellFoundedOn(StrictSubsetOrdering(Nat), FiniteSubsetsOf(Nat))
  BY FS_StrictSubsetOrderingWellFounded
<1> HIDE DEF Segments
<1>3. PICK x \in Segments : \A y \in Segments : <<y, x>> \notin StrictSubsetOrdering(Nat)
  BY <1>1, <1>2, WFMin
<1>4. PICK m \in S : x = 0..m
  BY <1>3 DEF Segments
<1>5. ASSUME NEW k \in S PROVE m <= k
  <2>1. <<0..k, 0..m>> \notin StrictSubsetOrdering(Nat)
    BY <1>3, <1>4 DEF Segments
  <2>2. ~(0..k \subseteq 0..m) \/ 0..k = 0..m
    BY <2>1 DEF StrictSubsetOrdering
  <2>3. m \in Nat /\ k \in Nat
    OBVIOUS
  <2>4. k < m => 0..k \subseteq 0..m /\ m \notin 0..k /\ m \in 0..m
    BY <2>3
  <2> QED
    BY <2>2, <2>3, <2>4
<1> QED
  BY <1>5

(* Induction, for the set of those numbers of which a statement holds.        *)
LEMMA InductionOnNat ==
    ASSUME NEW G, 0 \in G, \A n \in Nat : n \in G => n + 1 \in G
    PROVE  \A n \in Nat : n \in G
<1> DEFINE S == Nat \ G
<1>1. CASE S = {}
  BY <1>1
<1>2. CASE S # {}
  <2>1. S \in SUBSET Nat
    OBVIOUS
  <2> HIDE DEF S
  <2>2. PICK m \in S : \A k \in S : m <= k
    BY <1>2, <2>1, LeastNatural
  <2>3. m # 0 /\ m \in Nat
    BY DEF S
  <2>4. m - 1 \in Nat /\ ~(m <= m - 1) /\ (m - 1) + 1 = m
    BY <2>3
  <2>5. m - 1 \in G
    BY <2>2, <2>4 DEF S
  <2> QED
    BY <2>4, <2>5 DEF S
<1> QED
  BY <1>1, <1>2

LEMMA MinIs ==
    ASSUME NEW S \in SUBSET Nat, S # {}
    PROVE  Min(S) \in S /\ \A k \in S : Min(S) <= k
<1>1. \E m \in S : \A k \in S : m <= k
  BY LeastNatural
<1> QED
  BY <1>1 DEF Min

LEMMA MaxIs ==
    ASSUME NEW n \in Nat, NEW S \in SUBSET (0..n), S # {}
    PROVE  Max(S) \in S /\ \A k \in S : k <= Max(S)
<1> DEFINE above == {n - k : k \in S}
<1>0. \A k \in S : k \in Nat /\ k <= n /\ n - k \in Nat
  <2>1. \A k \in S : k \in 0..n
    OBVIOUS
  <2> QED
    BY <2>1
<1>1. above \in SUBSET Nat /\ above # {}
  BY <1>0
<1>2. PICK a \in above : \A b \in above : a <= b
  <2> HIDE DEF above
  <2> QED
    BY <1>1, LeastNatural
<1>3. PICK m \in S : a = n - m
  OBVIOUS
<1>4. ASSUME NEW k \in S PROVE k <= m
  <2>1. a <= n - k
    BY <1>2
  <2>2. k \in Nat /\ m \in Nat
    BY <1>0
  <2> QED
    BY <1>3, <2>1, <2>2
<1>5. \A k \in S : m >= k
  <2> QED
    BY <1>0, <1>4
<1>6. Max(S) \in S /\ \A k \in S : Max(S) >= k
  BY <1>5 DEF Max
<1> QED
  BY <1>0, <1>6

-----------------------------------------------------------------------------
(* 1. Expand. *)

(* An environment: texts under names.                                         *)
IsEnv(env) == \A n \in DOMAIN env : n \in Name /\ env[n] \in Text

LEMMA TextIs ==
    ASSUME NEW t \in Text
    PROVE  /\ Len(t) \in Nat /\ DOMAIN t = 1..Len(t) /\ t \in [1..Len(t) -> Chars]
           /\ \A i \in 1..Len(t) : t[i] \in Chars
           /\ Range(t) = {t[i] : i \in 1..Len(t)}
<1>1. /\ Len(t) \in Nat /\ DOMAIN t = 1..Len(t) /\ t \in [1..Len(t) -> Chars]
  BY LenProperties DEF Text
<1>2. \A i \in 1..Len(t) : t[i] \in Chars
  BY <1>1
<1> QED
  BY <1>1, <1>2, RangeEquality DEF Text

LEMMA Concatenated ==
    ASSUME NEW s \in Text, NEW t \in Text
    PROVE  /\ s \o t \in Text /\ Len(s \o t) = Len(s) + Len(t)
           /\ \A i \in 1..Len(s) : (s \o t)[i] = s[i]
           /\ \A i \in 1..Len(t) : (s \o t)[Len(s) + i] = t[i]
<1>1. /\ s \o t \in Seq(Chars) /\ Len(s \o t) = Len(s) + Len(t)
      /\ \A i \in 1..Len(s) + Len(t) : (s \o t)[i] = IF i <= Len(s) THEN s[i] ELSE t[i - Len(s)]
  BY ConcatProperties DEF Text
<1>2. Len(s) \in Nat /\ Len(t) \in Nat
  BY TextIs
<1>3. ASSUME NEW i \in 1..Len(s) PROVE (s \o t)[i] = s[i]
  <2>1. i \in 1..Len(s) + Len(t) /\ i <= Len(s)
    BY <1>2
  <2> QED
    BY <1>1, <2>1
<1>4. ASSUME NEW i \in 1..Len(t) PROVE (s \o t)[Len(s) + i] = t[i]
  <2>1. Len(s) + i \in 1..Len(s) + Len(t) /\ ~(Len(s) + i <= Len(s)) /\ (Len(s) + i) - Len(s) = i
    BY <1>2
  <2> QED
    BY <1>1, <2>1
<1> QED
  BY <1>1, <1>3, <1>4 DEF Text

(* Texts are the same when they have the same letters. *)
LEMMA SameText ==
    ASSUME NEW s \in Text, NEW t \in Text, Len(s) = Len(t), \A i \in 1..Len(s) : s[i] = t[i]
    PROVE  s = t
  BY SeqEqual DEF Text

(* Associativity and the empty text. *)
LEMMA TextAlgebra ==
    /\ \A s, t, u \in Text : (s \o t) \o u = s \o (t \o u)
    /\ \A s \in Text : s \o <<>> = s /\ <<>> \o s = s
    /\ <<>> \in Text /\ Len(<<>>) = 0
  BY ConcatAssociative, ConcatEmptySeq, EmptySeq DEF Text

(* A text of one character, and of two. *)
LEMMA One ==
    ASSUME NEW c \in Chars
    PROVE  <<c>> \in Text /\ Len(<<c>>) = 1 /\ <<c>>[1] = c
  BY DEF Text

LEMMA Two ==
    ASSUME NEW c \in Chars, NEW d \in Chars
    PROVE  /\ <<c, d>> \in Text /\ Len(<<c, d>>) = 2 /\ <<c, d>>[1] = c /\ <<c, d>>[2] = d
           /\ <<c, d>> = <<c>> \o <<d>>
<1>1. /\ <<c, d>> \in Text /\ Len(<<c, d>>) = 2 /\ <<c, d>>[1] = c /\ <<c, d>>[2] = d
  BY DEF Text
<1>2. /\ <<c>> \o <<d>> \in Text /\ Len(<<c>> \o <<d>>) = 2
      /\ (<<c>> \o <<d>>)[1] = c /\ (<<c>> \o <<d>>)[2] = d
  <2>1. 1 \in 1..1 /\ 1 + 1 = 2
    OBVIOUS
  <2> QED
    BY <2>1, One, Concatenated
<1>3. <<c, d>> = <<c>> \o <<d>>
  <2>1. \A i \in 1..2 : i = 1 \/ i = 2
    OBVIOUS
  <2> QED
    BY <1>1, <1>2, <2>1, SameText
<1> QED
  BY <1>1, <1>3

(* The characters that mean something to Expand. *)
LEMMA Signs ==
    /\ operator \in Chars /\ referenceOpener \in Chars /\ referenceCloser \in Chars
    /\ operator # referenceOpener /\ operator # referenceCloser /\ referenceOpener # referenceCloser
<1>1. operator # referenceOpener /\ operator # referenceCloser /\ referenceOpener # referenceCloser
  BY DEF operator, referenceOpener, referenceCloser
<1>2. {operator, referenceOpener, referenceCloser} \subseteq Chars
  BY Zenon, TextAssumption
<1> QED
  BY <1>1, <1>2

(* A part of a text. *)
LEMMA Part ==
    ASSUME NEW t \in Text, NEW m \in Nat \ {0}, NEW n \in 0..Len(t), m <= n + 1
    PROVE  /\ SubSeq(t, m, n) \in Text /\ Len(SubSeq(t, m, n)) = n - m + 1
           /\ \A i \in 1..n - m + 1 : SubSeq(t, m, n)[i] = t[m + i - 1]
<1>1. Len(t) \in Nat /\ \A i \in 1..Len(t) : t[i] \in Chars
  BY TextIs
<1>2. \A i \in m..n : t[i] \in Chars
  BY <1>1
<1>3. m \in Int /\ n \in Int
  BY <1>1
<1>4. /\ SubSeq(t, m, n) \in Seq(Chars)
      /\ Len(SubSeq(t, m, n)) = IF m <= n THEN n - m + 1 ELSE 0
      /\ \A i \in 1..n - m + 1 : SubSeq(t, m, n)[i] = t[m + i - 1]
  BY <1>2, <1>3, SubSeqProperties
<1>5. Len(SubSeq(t, m, n)) = n - m + 1
  BY <1>3, <1>4
<1> QED
  BY <1>4, <1>5 DEF Text

LEMMA WrapIs ==
    ASSUME NEW n \in Text
    PROVE  /\ syntaxWrap(n) \in Text /\ Len(syntaxWrap(n)) = Len(n) + 3
           /\ syntaxWrap(n)[1] = operator /\ syntaxWrap(n)[2] = referenceOpener
           /\ \A i \in 1..Len(n) : syntaxWrap(n)[i + 2] = n[i]
           /\ syntaxWrap(n)[Len(n) + 3] = referenceCloser
<1> DEFINE open == <<operator, referenceOpener>>
           close == <<referenceCloser>>
<1>1. /\ open \in Text /\ Len(open) = 2 /\ open[1] = operator /\ open[2] = referenceOpener
      /\ close \in Text /\ Len(close) = 1 /\ close[1] = referenceCloser
  BY Signs, One, Two
<1>2. syntaxWrap(n) = (open \o n) \o close
  BY DEF syntaxWrap
<1> HIDE DEF open, close
<1>3. /\ open \o n \in Text /\ Len(open \o n) = Len(n) + 2 /\ Len(n) \in Nat
      /\ (open \o n)[1] = operator /\ (open \o n)[2] = referenceOpener
      /\ \A i \in 1..Len(n) : (open \o n)[i + 2] = n[i]
  <2>1. Len(n) \in Nat
    BY TextIs
  <2>2. /\ open \o n \in Text /\ Len(open \o n) = Len(open) + Len(n)
        /\ \A i \in 1..Len(open) : (open \o n)[i] = open[i]
        /\ \A i \in 1..Len(n) : (open \o n)[Len(open) + i] = n[i]
    BY <1>1, Concatenated
  <2>3. \A i \in 1..Len(n) : 2 + i = i + 2
    BY <2>1
  <2>4. 1 \in 1..2 /\ 2 \in 1..2 /\ 2 + Len(n) = Len(n) + 2
    BY <2>1
  <2> QED
    BY <1>1, <2>1, <2>2, <2>3, <2>4
<1>4. /\ syntaxWrap(n) \in Text /\ Len(syntaxWrap(n)) = Len(open \o n) + 1
      /\ \A i \in 1..Len(open \o n) : syntaxWrap(n)[i] = (open \o n)[i]
      /\ syntaxWrap(n)[Len(open \o n) + 1] = close[1]
  <2>1. /\ (open \o n) \o close \in Text
        /\ Len((open \o n) \o close) = Len(open \o n) + Len(close)
        /\ \A i \in 1..Len(open \o n) : ((open \o n) \o close)[i] = (open \o n)[i]
        /\ \A i \in 1..Len(close) : ((open \o n) \o close)[Len(open \o n) + i] = close[i]
    BY <1>1, <1>3, Concatenated
  <2>2. 1 \in 1..1
    OBVIOUS
  <2> QED
    BY <1>1, <1>2, <2>1, <2>2
<1>5. /\ 1 \in 1..(Len(n) + 2) /\ 2 \in 1..(Len(n) + 2) /\ (Len(n) + 2) + 1 = Len(n) + 3
      /\ \A i \in 1..Len(n) : i + 2 \in 1..(Len(n) + 2)
  BY <1>3
<1> HIDE DEF syntaxWrap
<1> QED
  BY <1>1, <1>3, <1>4, <1>5

LEMMA MappingType ==
    ASSUME NEW first, IsEnv(first), NEW second, IsEnv(second), NEW n \in Text
    PROVE  Mapping(first, second, n) \in Text
  BY WrapIs DEF Mapping, IsEnv

(* tryReadVariableName takes up at least one letter of what is there.         *)
LEMMA ReadIs ==
    ASSUME NEW rest \in Text, rest # <<>>
    PROVE  LET r == tryReadVariableName(rest)
           IN  r.read \in Text /\ r.advance \in 1..Len(rest)
<1>1. Len(rest) \in Nat \ {0}
  BY EmptySeq DEF Text
<1> DEFINE closers == {i \in DOMAIN rest : rest[i] = referenceCloser}
<1>2. CASE rest[1] = operator
  <2>1. tryReadVariableName(rest) = Result(<<operator>>, FALSE, 1)
    BY <1>2, Signs DEF tryReadVariableName
  <2>2. <<operator>> \in Text
    BY Signs, One
  <2> QED
    BY <1>1, <2>1, <2>2 DEF Result
<1>3. CASE rest[1] = referenceOpener /\ closers # {}
  <2>1. closers \subseteq 1..Len(rest)
    BY TextIs
  <2>2. Min(closers) \in closers
    <3>1. closers \in SUBSET Nat
      BY <2>1
    <3> HIDE DEF closers
    <3> QED
      BY <1>3, <3>1, MinIs
  <2>3. Min(closers) \in 1..Len(rest) /\ Min(closers) # 1
    BY <1>3, <2>1, <2>2 DEF referenceOpener, referenceCloser
  <2>4. tryReadVariableName(rest) = Result(SubSeq(rest, 2, Min(closers) - 1), TRUE, Min(closers))
    BY <1>3 DEF tryReadVariableName, operator, referenceOpener
  <2> HIDE DEF closers
  <2>5. SubSeq(rest, 2, Min(closers) - 1) \in Text
    <3>1. Min(closers) - 1 \in 0..Len(rest) /\ 2 <= (Min(closers) - 1) + 1
      BY <1>1, <2>3
    <3> QED
      BY <3>1, Part
  <2> QED
    BY <2>3, <2>4, <2>5 DEF Result
<1>4. CASE rest[1] # operator /\ ~(rest[1] = referenceOpener /\ closers # {})
  <2>1. tryReadVariableName(rest) = Result(<<operator, rest[1]>>, FALSE, 1)
    BY <1>4 DEF tryReadVariableName
  <2>2. rest[1] \in Chars
    BY <1>1, TextIs
  <2>3. <<operator, rest[1]>> \in Text
    BY <2>2, Signs, Two
  <2> QED
    BY <1>1, <2>1, <2>3 DEF Result
<1> QED
  BY <1>2, <1>3, <1>4

(* What Expand puts for the character at a position, and where it goes on.    *)
AtReference(input, c) == input[c] = operator /\ c < Len(input)
Read(input, c) == tryReadVariableName(SubSeq(input, c + 1, Len(input)))
Piece(input, first, second, c) ==
    IF AtReference(input, c)
    THEN IF Read(input, c).isVar THEN Mapping(first, second, Read(input, c).read) ELSE Read(input, c).read
    ELSE <<input[c]>>
GoesOn(input, c) == IF AtReference(input, c) THEN c + Read(input, c).advance + 1 ELSE c + 1

(* What Expand's recursive function has to be.                                *)
IsFrom(input, first, second, from) ==
    from = [cursor \in 1..(Len(input) + 1) |->
              IF cursor > Len(input) THEN <<>>
              ELSE IF input[cursor] = operator /\ cursor < Len(input)
                   THEN LET r == tryReadVariableName(SubSeq(input, cursor + 1, Len(input)))
                        IN  (IF r.isVar THEN Mapping(first, second, r.read) ELSE r.read)
                              \o from[cursor + r.advance + 1]
                   ELSE <<input[cursor]>> \o from[cursor + 1]]

LEMMA ExpandIsFrom ==
    ASSUME NEW input, NEW first, NEW second
    PROVE  Expand(input, first, second) = (CHOOSE from : IsFrom(input, first, second, from))[1]
  BY DEF Expand, IsFrom

(* It is a function from positions to texts that solves one equation each.    *)
Solves(input, first, second, from) ==
    /\ from[Len(input) + 1] = <<>>
    /\ \A c \in 1..Len(input) :
         from[c] = Piece(input, first, second, c) \o from[GoesOn(input, c)]

LEMMA FromSolves ==
    ASSUME NEW input \in Text, NEW first, NEW second, NEW from
    PROVE  IsFrom(input, first, second, from)
             <=> /\ from = [c \in 1..(Len(input) + 1) |-> from[c]]
                 /\ Solves(input, first, second, from)
<1> DEFINE Body(cursor) ==
              IF cursor > Len(input) THEN <<>>
              ELSE IF input[cursor] = operator /\ cursor < Len(input)
                   THEN LET r == tryReadVariableName(SubSeq(input, cursor + 1, Len(input)))
                        IN  (IF r.isVar THEN Mapping(first, second, r.read) ELSE r.read)
                              \o from[cursor + r.advance + 1]
                   ELSE <<input[cursor]>> \o from[cursor + 1]
           D == 1..(Len(input) + 1)
<1>1. IsFrom(input, first, second, from) <=> from = [c \in D |-> Body(c)]
  BY DEF IsFrom
<1>2. Len(input) \in Nat
  BY TextIs
<1>3. Len(input) + 1 \in D /\ Body(Len(input) + 1) = <<>>
  <2>1. Len(input) + 1 > Len(input) /\ Len(input) + 1 \in D
    BY <1>2
  <2> QED
    BY <2>1
<1>4. ASSUME NEW c \in 1..Len(input)
      PROVE  c \in D /\ Body(c) = Piece(input, first, second, c) \o from[GoesOn(input, c)]
  <2>1. ~(c > Len(input)) /\ c \in D
    BY <1>2
  <2>2. CASE AtReference(input, c)
    BY <2>1, <2>2 DEF Piece, GoesOn, AtReference, Read
  <2>3. CASE ~AtReference(input, c)
    BY <2>1, <2>3 DEF Piece, GoesOn, AtReference, Read
  <2> QED
    BY <2>1, <2>2, <2>3
<1>5. \A c \in D : c \in 1..Len(input) \/ c = Len(input) + 1
  BY <1>2
<1> HIDE DEF Body
<1>6. (\A c \in D : from[c] = Body(c)) <=> Solves(input, first, second, from)
  BY <1>3, <1>4, <1>5 DEF Solves
<1>7. from = [c \in D |-> Body(c)] <=> from = [c \in D |-> from[c]] /\ \A c \in D : from[c] = Body(c)
  OBVIOUS
<1> QED
  BY <1>1, <1>6, <1>7

(* Expand always goes on, and what it puts is a text.                         *)
LEMMA StepIs ==
    ASSUME NEW input \in Text, NEW first, IsEnv(first), NEW second, IsEnv(second),
           NEW c \in 1..Len(input)
    PROVE  /\ Piece(input, first, second, c) \in Text
           /\ GoesOn(input, c) \in (c + 1)..(Len(input) + 1)
<1>1. Len(input) \in Nat /\ input[c] \in Chars /\ c \in Nat
  BY TextIs
<1>2. CASE AtReference(input, c)
  <2> DEFINE rest == SubSeq(input, c + 1, Len(input))
  <2>1. c < Len(input)
    BY <1>2 DEF AtReference
  <2>2. c + 1 \in Nat \ {0} /\ Len(input) \in 0..Len(input) /\ c + 1 <= Len(input) + 1
    BY <1>1, <2>1
  <2>3. rest \in Text /\ Len(rest) = Len(input) - (c + 1) + 1
    BY <2>2, Part
  <2>4. Len(rest) = Len(input) - c /\ Len(rest) # 0
    BY <1>1, <2>1, <2>3
  <2>5. rest # <<>>
    BY <2>4, TextAlgebra
  <2> HIDE DEF rest
  <2>6. Read(input, c).read \in Text /\ Read(input, c).advance \in 1..Len(rest)
    BY <2>3, <2>5, ReadIs DEF Read, rest
  <2>7. Piece(input, first, second, c) \in Text
    BY <1>2, <2>6, MappingType DEF Piece
  <2>8. GoesOn(input, c) = c + Read(input, c).advance + 1
    BY <1>2 DEF GoesOn
  <2> QED
    BY <1>1, <2>4, <2>6, <2>7, <2>8
<1>3. CASE ~AtReference(input, c)
  <2>1. Piece(input, first, second, c) \in Text
    BY <1>1, <1>3, One DEF Piece
  <2>2. GoesOn(input, c) = c + 1
    BY <1>3 DEF GoesOn
  <2> QED
    BY <1>1, <2>1, <2>2
<1> QED
  BY <1>2, <1>3

(* There is such a function: it is made from the last position back.          *)
LEMMA FromExists ==
    ASSUME NEW input \in Text, NEW first, IsEnv(first), NEW second, IsEnv(second)
    PROVE  \E from \in [1..(Len(input) + 1) -> Text] : Solves(input, first, second, from)
<1> DEFINE N == Len(input)
           D == 1..(N + 1)
           P(c) == Piece(input, first, second, c)
           Q(c) == GoesOn(input, c)
           SolvesLast(from, k) == /\ from[N + 1] = <<>>
                                  /\ \A c \in 1..N : c > N - k => from[c] = P(c) \o from[Q(c)]
           G == {k \in Nat : k <= N => \E from \in [D -> Text] : SolvesLast(from, k)}
<1>1. N \in Nat
  BY TextIs
<1>2. \A c \in 1..N : P(c) \in Text /\ Q(c) \in (c + 1)..(N + 1)
  BY StepIs
<1> HIDE DEF N, P, Q
<1>3. 0 \in G
  <2> DEFINE none == [c \in D |-> <<>>]
  <2>1. none \in [D -> Text] /\ none[N + 1] = <<>>
    BY <1>1, TextAlgebra
  <2>2. \A c \in 1..N : ~(c > N - 0)
    BY <1>1
  <2> HIDE DEF none
  <2> QED
    BY <2>1, <2>2
<1>4. ASSUME NEW k \in Nat, k \in G PROVE k + 1 \in G
  <2> SUFFICES ASSUME k + 1 <= N PROVE \E from \in [D -> Text] : SolvesLast(from, k + 1)
    OBVIOUS
  <2>1. PICK from \in [D -> Text] : SolvesLast(from, k)
    <3>1. k <= N
      BY <1>1
    <3> QED
      BY <1>4, <3>1
  <2> DEFINE d == N - k
             next == [from EXCEPT ![d] = P(d) \o from[Q(d)]]
  <2>2. d \in 1..N /\ d \in D /\ d # N + 1 /\ N + 1 \in D
    BY <1>1
  <2>3. Q(d) \in D /\ Q(d) # d
    BY <1>1, <1>2, <2>2
  <2> HIDE DEF d
  <2>4. P(d) \o from[Q(d)] \in Text
    BY <1>2, <2>2, <2>3, Concatenated
  <2>5. next \in [D -> Text]
    BY <2>4
  <2>6. next[d] = P(d) \o next[Q(d)] /\ next[N + 1] = <<>>
    BY <2>1, <2>2, <2>3
  <2>7. ASSUME NEW c \in 1..N, c > d PROVE next[c] = P(c) \o next[Q(c)]
    <3>1. c \in D /\ Q(c) \in D /\ c # d /\ Q(c) # d
      BY <1>1, <1>2, <2>2, <2>7
    <3>2. from[c] = P(c) \o from[Q(c)]
      BY <2>1, <2>7 DEF d
    <3> QED
      BY <3>1, <3>2
  <2>8. \A c \in 1..N : c > N - (k + 1) => c = d \/ c > d
    BY <1>1 DEF d
  <2> HIDE DEF next
  <2> QED
    BY <2>5, <2>6, <2>7, <2>8
<1>5. N \in G
  <2> HIDE DEF G
  <2> QED
    BY <1>1, <1>3, <1>4, InductionOnNat
<1>6. PICK from \in [D -> Text] : SolvesLast(from, N)
  BY <1>1, <1>5
<1>7. \A c \in 1..N : c > N - N
  BY <1>1
<1> QED
  BY <1>6, <1>7 DEF Solves, N, P, Q

(* What Expand makes of the end of a text does not depend on what is before.  *)
LEMMA StepOfSuffix ==
    ASSUME NEW x \in Text, NEW y \in Text, NEW first, NEW second, NEW c \in 1..Len(y)
    PROVE  /\ Piece(x \o y, first, second, Len(x) + c) = Piece(y, first, second, c)
           /\ GoesOn(x \o y, Len(x) + c) = Len(x) + GoesOn(y, c)
<1> DEFINE t == x \o y
           m == Len(x)
<1>1. /\ t \in Text /\ Len(t) = m + Len(y) /\ t[m + c] = y[c]
      /\ \A i \in 1..Len(y) : t[m + i] = y[i]
  BY Concatenated
<1>2. m \in Nat /\ Len(y) \in Nat
  BY TextIs
<1> HIDE DEF t, m
<1>3. m + c < Len(t) <=> c < Len(y)
  BY <1>1, <1>2
<1>4. AtReference(t, m + c) <=> AtReference(y, c)
  BY <1>1, <1>3 DEF AtReference
<1>5. ASSUME AtReference(y, c) PROVE Read(t, m + c) = Read(y, c)
  <2>1. c < Len(y)
    BY <1>5 DEF AtReference
  <2>2. /\ m + c + 1 \in Nat \ {0} /\ Len(t) \in 0..Len(t) /\ m + c + 1 <= Len(t) + 1
        /\ c + 1 \in Nat \ {0} /\ Len(y) \in 0..Len(y) /\ c + 1 <= Len(y) + 1
    BY <1>1, <1>2, <2>1
  <2> DEFINE a == SubSeq(t, m + c + 1, Len(t))
             b == SubSeq(y, c + 1, Len(y))
  <2>3. /\ a \in Text /\ Len(a) = Len(t) - (m + c + 1) + 1
        /\ \A i \in 1..(Len(t) - (m + c + 1) + 1) : a[i] = t[(m + c + 1) + i - 1]
    BY <1>1, <2>2, Part
  <2>4. /\ b \in Text /\ Len(b) = Len(y) - (c + 1) + 1
        /\ \A i \in 1..(Len(y) - (c + 1) + 1) : b[i] = y[(c + 1) + i - 1]
    BY <2>2, Part
  <2> HIDE DEF a, b
  <2>5. Len(a) = Len(b)
    BY <1>1, <1>2, <2>3, <2>4
  <2>6. ASSUME NEW i \in 1..Len(a) PROVE a[i] = b[i]
    <3>1. /\ i \in 1..(Len(t) - (m + c + 1) + 1) /\ i \in 1..(Len(y) - (c + 1) + 1)
          /\ (m + c + 1) + i - 1 = m + (c + i) /\ (c + 1) + i - 1 = c + i /\ c + i \in 1..Len(y)
      BY <1>1, <1>2, <2>3, <2>4, <2>5
    <3> QED
      BY <1>1, <2>3, <2>4, <3>1
  <2>7. a = b
    BY <2>3, <2>4, <2>5, <2>6, SameText
  <2> QED
    BY <2>7 DEF Read, a, b
<1>6. Piece(t, first, second, m + c) = Piece(y, first, second, c)
  BY <1>1, <1>4, <1>5 DEF Piece
<1>7. GoesOn(t, m + c) = m + GoesOn(y, c)
  <2>1. CASE AtReference(y, c)
    <3>1. Read(y, c).advance \in Int
      <4>1. /\ c + 1 \in Nat \ {0} /\ Len(y) \in 0..Len(y) /\ c + 1 <= Len(y)
            /\ Len(y) - (c + 1) + 1 # 0
        BY <1>2, <2>1 DEF AtReference
      <4>2. SubSeq(y, c + 1, Len(y)) \in Text /\ Len(SubSeq(y, c + 1, Len(y))) # 0
        BY <4>1, <1>2, Part
      <4>3. SubSeq(y, c + 1, Len(y)) # <<>>
        BY <4>2, TextAlgebra
      <4>4. Len(SubSeq(y, c + 1, Len(y))) \in Nat
        BY <4>2, TextIs
      <4>5. Read(y, c).advance \in 1..Len(SubSeq(y, c + 1, Len(y)))
        BY <4>2, <4>3, ReadIs DEF Read
      <4> QED
        BY <4>4, <4>5
    <3> QED
      BY <1>2, <1>4, <1>5, <2>1, <3>1 DEF GoesOn
  <2>2. CASE ~AtReference(y, c)
    BY <1>2, <1>4, <2>2 DEF GoesOn
  <2> QED
    BY <2>1, <2>2
<1> QED
  BY <1>6, <1>7 DEF t, m

LEMMA SuffixSame ==
    ASSUME NEW x \in Text, NEW y \in Text,
           NEW first, IsEnv(first), NEW second, IsEnv(second),
           NEW f, Solves(x \o y, first, second, f), NEW g, Solves(y, first, second, g)
    PROVE  \A c \in 1..(Len(y) + 1) : f[Len(x) + c] = g[c]
<1> DEFINE N == Len(y)
           m == Len(x)
           P(c) == Piece(y, first, second, c)
           Q(c) == GoesOn(y, c)
           G == {k \in Nat : \A c \in 1..(N + 1) : c > N - k => f[m + c] = g[c]}
<1>1. N \in Nat /\ m \in Nat /\ Len(x \o y) = m + N
  BY TextIs, Concatenated
<1>2. \A c \in 1..N : Q(c) \in (c + 1)..(N + 1)
  BY StepIs
<1>3. g[N + 1] = <<>> /\ \A c \in 1..N : g[c] = P(c) \o g[Q(c)]
  BY DEF Solves
<1>4. f[m + (N + 1)] = <<>> /\ \A c \in 1..N : f[m + c] = P(c) \o f[m + Q(c)]
  <2>1. f[Len(x \o y) + 1] = <<>> /\ Len(x \o y) + 1 = m + (N + 1)
    BY <1>1 DEF Solves
  <2>2. ASSUME NEW c \in 1..N PROVE f[m + c] = P(c) \o f[m + Q(c)]
    <3>1. m + c \in 1..Len(x \o y)
      BY <1>1
    <3>2. f[m + c] = Piece(x \o y, first, second, m + c) \o f[GoesOn(x \o y, m + c)]
      BY <3>1 DEF Solves
    <3>3. /\ Piece(x \o y, first, second, m + c) = P(c)
          /\ GoesOn(x \o y, m + c) = m + Q(c)
      BY StepOfSuffix
    <3> QED
      BY <3>2, <3>3
  <2> QED
    BY <2>1, <2>2
<1> HIDE DEF N, m, P, Q
<1>5. 0 \in G
  <2>1. \A c \in 1..(N + 1) : c > N - 0 => c = N + 1
    BY <1>1
  <2> QED
    BY <1>3, <1>4, <2>1
<1>6. ASSUME NEW k \in Nat, k \in G PROVE k + 1 \in G
  <2> SUFFICES ASSUME NEW c \in 1..(N + 1), c > N - (k + 1) PROVE f[m + c] = g[c]
    OBVIOUS
  <2>1. CASE c > N - k
    BY <1>6, <2>1
  <2>2. CASE ~(c > N - k) /\ c \in 1..N
    <3>1. Q(c) \in 1..(N + 1) /\ Q(c) > N - k
      BY <1>1, <1>2, <2>2
    <3>2. f[m + Q(c)] = g[Q(c)]
      BY <1>6, <3>1
    <3> QED
      BY <1>3, <1>4, <2>2, <3>2
  <2> QED
    BY <1>1, <2>1, <2>2
<1>7. N + 1 \in G
  <2> HIDE DEF G
  <2> QED
    BY <1>1, <1>5, <1>6, InductionOnNat
<1>8. \A c \in 1..(N + 1) : c > N - (N + 1)
  BY <1>1
<1> QED
  BY <1>7, <1>8 DEF N, m

(* So Expand is the value at the first position of the one such function.     *)
LEMMA ExpandIs ==
    ASSUME NEW input \in Text, NEW first, IsEnv(first), NEW second, IsEnv(second)
    PROVE  \E from \in [1..(Len(input) + 1) -> Text] :
              Solves(input, first, second, from) /\ Expand(input, first, second) = from[1]
<1> DEFINE D == 1..(Len(input) + 1)
<1>1. PICK f \in [D -> Text] : Solves(input, first, second, f)
  BY FromExists
<1>2. f = [c \in D |-> f[c]]
  BY <1>1
<1>3. IsFrom(input, first, second, f)
  BY <1>1, <1>2, FromSolves
<1> DEFINE h == CHOOSE from : IsFrom(input, first, second, from)
<1>4. IsFrom(input, first, second, h)
  BY <1>3
<1> HIDE DEF h
<1>5. h = [c \in D |-> h[c]] /\ Solves(input, first, second, h)
  BY <1>4, FromSolves
<1>6. \A c \in D : h[c] = f[c]
  <2> DEFINE empty == <<>>
  <2>1. empty \in Text /\ empty \o input = input /\ Len(empty) = 0 /\ Len(input) \in Nat
    BY TextAlgebra, TextIs
  <2> HIDE DEF empty
  <2>2. \A c \in D : h[Len(empty) + c] = f[c]
    <3>1. Solves(empty \o input, first, second, h)
      BY <1>5, <2>1
    <3>2. empty \in Text
      BY <2>1
    <3> QED
      BY <1>1, <3>1, <3>2, SuffixSame
  <2>3. \A c \in D : Len(empty) + c = c
    BY <2>1
  <2> QED
    BY <2>2, <2>3
<1>7. h = f
  BY <1>2, <1>5, <1>6
<1> QED
  BY <1>1, <1>7, ExpandIsFrom DEF h

LEMMA ExpandType ==
    ASSUME NEW input \in Text, NEW first, IsEnv(first), NEW second, IsEnv(second)
    PROVE  Expand(input, first, second) \in Text
<1>1. Len(input) \in Nat /\ 1 \in 1..(Len(input) + 1)
  BY TextIs
<1>2. PICK from \in [1..(Len(input) + 1) -> Text] :
        Solves(input, first, second, from) /\ Expand(input, first, second) = from[1]
  BY ExpandIs
<1> QED
  BY <1>1, <1>2

(* Expand of a text whose first characters it reads at once.                  *)
LEMMA ExpandStep ==
    ASSUME NEW x \in Text, NEW y \in Text, NEW first, IsEnv(first), NEW second, IsEnv(second),
           Len(x) # 0, GoesOn(x \o y, 1) = Len(x) + 1
    PROVE  Expand(x \o y, first, second) = Piece(x \o y, first, second, 1) \o Expand(y, first, second)
<1>1. /\ x \o y \in Text /\ Len(x \o y) = Len(x) + Len(y)
      /\ Len(x) \in Nat /\ Len(y) \in Nat
  BY Concatenated, TextIs
<1>2. PICK f : Solves(x \o y, first, second, f) /\ Expand(x \o y, first, second) = f[1]
  BY <1>1, ExpandIs
<1>3. PICK g : Solves(y, first, second, g) /\ Expand(y, first, second) = g[1]
  BY ExpandIs
<1>4. f[1] = Piece(x \o y, first, second, 1) \o f[Len(x) + 1]
  <2>1. 1 \in 1..Len(x \o y)
    BY <1>1
  <2> QED
    BY <1>2, <2>1 DEF Solves
<1>5. f[Len(x) + 1] = g[1]
  <2>1. 1 \in 1..(Len(y) + 1)
    BY <1>1
  <2> QED
    BY <1>2, <1>3, <2>1, SuffixSame
<1> QED
  BY <1>2, <1>3, <1>4, <1>5

LEMMA ExpandEmpty ==
    ASSUME NEW first, IsEnv(first), NEW second, IsEnv(second)
    PROVE  Expand(<<>>, first, second) = <<>>
<1> DEFINE empty == <<>>
<1>1. empty \in Text /\ Len(empty) = 0 /\ 0 + 1 = 1
  BY TextAlgebra
<1> HIDE DEF empty
<1>2. PICK f : Solves(empty, first, second, f) /\ Expand(empty, first, second) = f[1]
  BY <1>1, ExpandIs
<1>3. f[1] = <<>>
  BY <1>1, <1>2 DEF Solves
<1> QED
  BY <1>2, <1>3 DEF empty

(* What is behind the operator at the start of a text.                        *)
LEMMA BehindOperator ==
    ASSUME NEW t \in Text, Len(t) > 1
    PROVE  LET rest == SubSeq(t, 2, Len(t))
           IN  /\ rest \in Text /\ Len(rest) = Len(t) - 1
               /\ \A i \in 1..(Len(t) - 1) : rest[i] = t[i + 1]
<1> DEFINE rest == SubSeq(t, 2, Len(t))
<1>1. Len(t) \in Nat
  BY TextIs
<1>2. 2 \in Nat \ {0} /\ Len(t) \in 0..Len(t) /\ 2 <= Len(t) + 1 /\ Len(t) - 2 + 1 = Len(t) - 1
  BY <1>1
<1>3. /\ rest \in Text /\ Len(rest) = Len(t) - 2 + 1
      /\ \A i \in 1..(Len(t) - 2 + 1) : rest[i] = t[2 + i - 1]
  BY <1>2, Part
<1>4. \A i \in 1..(Len(t) - 1) : 2 + i - 1 = i + 1
  BY <1>1
<1> QED
  BY <1>2, <1>3, <1>4

(* An operator before another is one operator.                                *)
LEMMA ExpandOperators ==
    ASSUME NEW y \in Text, NEW first, IsEnv(first), NEW second, IsEnv(second)
    PROVE  Expand(<<operator, operator>> \o y, first, second) = <<operator>> \o Expand(y, first, second)
<1> DEFINE x == <<operator, operator>>
           t == x \o y
<1>1. x \in Text /\ Len(x) = 2 /\ x[1] = operator /\ x[2] = operator
  BY Signs, Two
<1> HIDE DEF x
<1>2. /\ t \in Text /\ Len(t) = Len(x) + Len(y) /\ Len(y) \in Nat
      /\ \A i \in 1..Len(x) : t[i] = x[i]
  BY <1>1, Concatenated, TextIs
<1>3. Len(t) > 1 /\ 1 \in 1..2 /\ 2 \in 1..2 /\ 1 \in 1..(Len(t) - 1)
  BY <1>1, <1>2
<1>4. t[1] = operator /\ t[2] = operator
  BY <1>1, <1>2, <1>3
<1> HIDE DEF t
<1>5. AtReference(t, 1)
  BY <1>3, <1>4 DEF AtReference
<1>6. Read(t, 1) = Result(<<operator>>, FALSE, 1)
  <2> DEFINE rest == SubSeq(t, 2, Len(t))
  <2>1. rest[1] = operator
    BY <1>2, <1>3, <1>4, BehindOperator
  <2>2. Read(t, 1) = tryReadVariableName(rest)
    BY DEF Read
  <2> HIDE DEF rest
  <2> QED
    BY <2>1, <2>2, Signs DEF tryReadVariableName
<1>7. Piece(t, first, second, 1) = <<operator>> /\ GoesOn(t, 1) = Len(x) + 1
  BY <1>1, <1>5, <1>6 DEF Piece, GoesOn, Result
<1>8. Expand(x \o y, first, second) = Piece(x \o y, first, second, 1) \o Expand(y, first, second)
  <2>1. Len(x) # 0 /\ GoesOn(x \o y, 1) = Len(x) + 1
    BY <1>1, <1>7 DEF t
  <2>2. x \in Text
    BY <1>1
  <2> QED
    BY <2>1, <2>2, ExpandStep
<1> QED
  BY <1>7, <1>8 DEF t, x

(* Any other character stays.                                                 *)
LEMMA ExpandOther ==
    ASSUME NEW x \in Text, 1 = Len(x), x[1] # operator, NEW y \in Text,
           NEW first, IsEnv(first), NEW second, IsEnv(second)
    PROVE  Expand(x \o y, first, second) = x \o Expand(y, first, second)
<1> DEFINE t == x \o y
           c == x[1]
<1>1. c # operator /\ Len(x) # 0 /\ x = <<c>>
  <2>1. c \in Chars
    BY TextIs
  <2>2. <<c>> \in Text /\ Len(<<c>>) = 1 /\ <<c>>[1] = c
    BY <2>1, One
  <2>3. \A i \in 1..1 : i = 1
    OBVIOUS
  <2>4. x = <<c>>
    BY <2>2, <2>3, SameText
  <2> QED
    BY <2>4
<1>2. \A i \in 1..Len(x) : t[i] = x[i]
  BY Concatenated
<1>3. t[1] = c
  BY <1>2
<1> HIDE DEF c
<1> HIDE DEF t
<1>4. ~AtReference(t, 1)
  BY <1>1, <1>3 DEF AtReference
<1>5. Piece(t, first, second, 1) = <<c>> /\ GoesOn(t, 1) = Len(x) + 1
  BY <1>3, <1>4 DEF Piece, GoesOn
<1>6. Len(x) # 0 /\ GoesOn(x \o y, 1) = Len(x) + 1
  BY <1>1, <1>5 DEF t
<1>7. Expand(x \o y, first, second) = Piece(x \o y, first, second, 1) \o Expand(y, first, second)
  BY <1>6, ExpandStep
<1> QED
  BY <1>1, <1>5, <1>7 DEF t

(* A reference to a name is replaced by what the name stands for.             *)
LEMMA ExpandReference ==
    ASSUME NEW n \in Name, NEW y \in Text, NEW first, IsEnv(first), NEW second, IsEnv(second)
    PROVE  Expand(syntaxWrap(n) \o y, first, second)
             = Mapping(first, second, n) \o Expand(y, first, second)
<1> DEFINE x == syntaxWrap(n)
           t == x \o y
           L == Len(n)
<1>1. n \in Text /\ L \in Nat /\ \A i \in 1..L : n[i] # referenceCloser
  <2>1. n \in Text /\ referenceCloser \notin Range(n)
    BY DEF Name
  <2> QED
    BY <2>1, TextIs
<1>2. /\ x \in Text /\ Len(x) = L + 3 /\ x[1] = operator /\ x[2] = referenceOpener
      /\ \A i \in 1..L : x[i + 2] = n[i]
      /\ x[L + 3] = referenceCloser
  BY <1>1, WrapIs
<1> HIDE DEF x, L
<1>3. /\ t \in Text /\ Len(t) = Len(x) + Len(y) /\ Len(y) \in Nat
      /\ \A i \in 1..Len(x) : t[i] = x[i]
  BY <1>2, Concatenated, TextIs
<1> HIDE DEF t
<1>4. Len(t) > 1 /\ t[1] = operator
  BY <1>1, <1>2, <1>3
<1>5. AtReference(t, 1)
  BY <1>4 DEF AtReference
<1> DEFINE rest == SubSeq(t, 2, Len(t))
           closers == {i \in DOMAIN rest : rest[i] = referenceCloser}
<1>6. /\ rest \in Text /\ Len(rest) = Len(t) - 1
      /\ \A i \in 1..(Len(t) - 1) : rest[i] = t[i + 1]
  BY <1>3, <1>4, BehindOperator
<1>7. /\ rest[1] = referenceOpener
      /\ \A i \in 1..L : rest[i + 1] = n[i]
      /\ rest[L + 2] = referenceCloser
      /\ L + 2 \in DOMAIN rest /\ DOMAIN rest = 1..Len(rest)
  <2>1. /\ 1 \in 1..(Len(t) - 1) /\ 1 + 1 = 2 /\ 2 \in 1..Len(x)
        /\ L + 2 \in 1..(Len(t) - 1) /\ (L + 2) + 1 = L + 3 /\ L + 3 \in 1..Len(x)
    BY <1>1, <1>2, <1>3
  <2>2. rest[1] = referenceOpener /\ rest[L + 2] = referenceCloser
    BY <1>2, <1>3, <1>6, <2>1
  <2>3. ASSUME NEW i \in 1..L PROVE rest[i + 1] = n[i]
    <3>1. i + 1 \in 1..(Len(t) - 1) /\ (i + 1) + 1 = i + 2 /\ i + 2 \in 1..Len(x)
      BY <1>1, <1>2, <1>3
    <3> QED
      BY <1>2, <1>3, <1>6, <3>1
  <2>4. DOMAIN rest = 1..Len(rest)
    BY <1>6, TextIs
  <2> QED
    BY <1>6, <2>1, <2>2, <2>3, <2>4
<1> HIDE DEF rest
<1>8. closers # {} /\ Min(closers) = L + 2
  <2>1. L + 2 \in closers /\ closers \in SUBSET Nat
    BY <1>7
  <2>2. ASSUME NEW i \in closers PROVE L + 2 <= i
    <3>1. i \in 1..Len(rest) /\ rest[i] = referenceCloser
      BY <1>7
    <3>2. i # 1
      BY <1>7, <3>1, Signs
    <3>3. ~(i <= L + 1)
      <4> SUFFICES ASSUME i <= L + 1 PROVE FALSE
        OBVIOUS
      <4>1. i - 1 \in 1..L /\ (i - 1) + 1 = i
        BY <1>1, <3>1, <3>2
      <4> QED
        BY <1>1, <1>7, <3>1, <4>1
    <3> QED
      BY <1>1, <3>1, <3>3
  <2> HIDE DEF closers
  <2>3. Min(closers) \in closers /\ \A k \in closers : Min(closers) <= k
    BY <2>1, MinIs
  <2>4. Min(closers) \in Nat
    BY <2>1, <2>3
  <2> QED
    BY <1>1, <2>1, <2>2, <2>3, <2>4
<1>9. SubSeq(rest, 2, (L + 2) - 1) = n
  <2> DEFINE part == SubSeq(rest, 2, (L + 2) - 1)
  <2>1. /\ 2 \in Nat \ {0} /\ (L + 2) - 1 \in 0..Len(rest) /\ 2 <= ((L + 2) - 1) + 1
        /\ ((L + 2) - 1) - 2 + 1 = L
    BY <1>1, <1>2, <1>3, <1>6
  <2>2. /\ part \in Text /\ Len(part) = ((L + 2) - 1) - 2 + 1
        /\ \A i \in 1..(((L + 2) - 1) - 2 + 1) : part[i] = rest[2 + i - 1]
    BY <1>6, <2>1, Part
  <2>3. \A i \in 1..L : 2 + i - 1 = i + 1
    BY <1>1
  <2>4. Len(part) = L /\ \A i \in 1..L : part[i] = n[i]
    BY <1>7, <2>1, <2>2, <2>3
  <2> HIDE DEF part
  <2>5. part = n
    BY <1>1, <2>2, <2>4, SameText DEF L
  <2> QED
    BY <2>5 DEF part
<1>10. Read(t, 1) = Result(n, TRUE, L + 2)
  <2>1. tryReadVariableName(rest)
          = Result(SubSeq(rest, 2, Min(closers) - 1), TRUE, Min(closers))
    BY <1>7, <1>8, Signs DEF tryReadVariableName
  <2>2. Read(t, 1) = tryReadVariableName(rest)
    BY DEF Read, rest
  <2> QED
    BY <1>8, <1>9, <2>1, <2>2
<1>11. Piece(t, first, second, 1) = Mapping(first, second, n)
  BY <1>5, <1>10 DEF Piece, Result
<1>12. GoesOn(t, 1) = Len(x) + 1
  <2>1. GoesOn(t, 1) = 1 + (L + 2) + 1
    BY <1>5, <1>10 DEF GoesOn, Result
  <2> QED
    BY <1>1, <1>2, <2>1
<1>13. Expand(x \o y, first, second) = Piece(x \o y, first, second, 1) \o Expand(y, first, second)
  <2>1. Len(x) # 0 /\ GoesOn(x \o y, 1) = Len(x) + 1
    BY <1>1, <1>2, <1>12 DEF t
  <2> QED
    BY <1>2, <2>1, ExpandStep
<1> QED
  BY <1>11, <1>13 DEF t, x

-----------------------------------------------------------------------------
(* 2. Escaped texts. *)

(* FlattenSeq is the last of a sequence of growing texts.                     *)
IsFlatten(seqs, flatten) ==
    flatten = [i \in 1..Len(seqs) |-> IF i = 1 THEN seqs[i] ELSE flatten[i - 1] \o seqs[i]]

LEMMA FlattenExists ==
    ASSUME NEW seqs \in Seq(Text) PROVE \E flatten : IsFlatten(seqs, flatten)
<1> DEFINE N == Len(seqs)
           D == 1..N
           Body(f, i) == IF i = 1 THEN seqs[i] ELSE f[i - 1] \o seqs[i]
           G == {k \in Nat : \E f \in [D -> Text] : \A i \in D : i <= k => f[i] = Body(f, i)}
<1>1. N \in Nat /\ \A i \in D : seqs[i] \in Text
  BY LenProperties
<1> HIDE DEF N
<1>2. 0 \in G
  <2> DEFINE none == [i \in D |-> <<>>]
  <2>1. none \in [D -> Text] /\ \A i \in D : ~(i <= 0)
    BY TextAlgebra
  <2> HIDE DEF none
  <2> QED
    BY <2>1
<1>3. ASSUME NEW k \in Nat, k \in G PROVE k + 1 \in G
  <2>1. PICK f \in [D -> Text] : \A i \in D : i <= k => f[i] = Body(f, i)
    BY <1>3
  <2> DEFINE g == [f EXCEPT ![k + 1] = Body(f, k + 1)]
  <2>2. g \in [D -> Text]
    <3>1. CASE k + 1 \in D
      <4>1. CASE k = 0
        BY <1>1, <3>1, <4>1
      <4>2. CASE k # 0
        <5>1. k \in D /\ (k + 1) - 1 = k /\ k + 1 # 1
          BY <1>1, <3>1, <4>2
        <5>2. f[k] \o seqs[k + 1] \in Text
          BY <1>1, <3>1, <5>1, Concatenated
        <5> QED
          BY <5>1, <5>2
      <4> QED
        BY <4>1, <4>2
    <3>2. CASE k + 1 \notin D
      BY <3>2
    <3> QED
      BY <3>1, <3>2
  <2>3. ASSUME NEW i \in D, i <= k + 1 PROVE g[i] = Body(g, i)
    <3>1. Body(g, i) = Body(f, i)
      <4>1. i # 1 => i - 1 \in D /\ i - 1 # k + 1
        BY <1>1, <2>3
      <4> QED
        BY <4>1
    <3>2. CASE i = k + 1
      BY <3>1, <3>2
    <3>3. CASE i # k + 1
      <4>1. i <= k
        BY <1>1, <2>3, <3>3
      <4>2. g[i] = f[i]
        BY <3>3
      <4> QED
        BY <2>1, <3>1, <4>1, <4>2
    <3> QED
      BY <3>2, <3>3
  <2> HIDE DEF g, Body
  <2>4. \E h \in [D -> Text] : \A i \in D : i <= k + 1 => h[i] = Body(h, i)
    BY <2>2, <2>3, Zenon
  <2>5. k + 1 \in Nat
    OBVIOUS
  <2> HIDE DEF D
  <2> QED
    BY Zenon, <2>4, <2>5
<1>4. N \in G
  <2> HIDE DEF G
  <2> QED
    BY <1>1, <1>2, <1>3, InductionOnNat
<1>5. PICK f \in [D -> Text] : \A i \in D : i <= N => f[i] = Body(f, i)
  BY <1>4
<1>6. f = [i \in D |-> Body(f, i)]
  <2>1. \A i \in D : i <= N
    BY <1>1
  <2>2. \A i \in D : f[i] = Body(f, i)
    BY <1>5, <2>1
  <2> HIDE DEF Body
  <2> QED
    BY <2>2
<1> QED
  BY <1>6 DEF IsFlatten, N

LEMMA FlattenIs ==
    ASSUME NEW seqs \in Seq(Text), Len(seqs) # 0
    PROVE  \E f \in [1..Len(seqs) -> Text] :
              /\ f[1] = seqs[1]
              /\ \A i \in 1..Len(seqs) : i # 1 => f[i] = f[i - 1] \o seqs[i]
              /\ FlattenSeq(seqs) = f[Len(seqs)]
<1> DEFINE N == Len(seqs)
           f == CHOOSE flatten : IsFlatten(seqs, flatten)
           G == {k \in Nat : k + 1 \in 1..N => f[k + 1] \in Text}
<1>1. N \in Nat /\ \A i \in 1..N : seqs[i] \in Text
  BY LenProperties
<1>2. IsFlatten(seqs, f)
  BY FlattenExists
<1>3. FlattenSeq(seqs) = f[N]
  BY DEF FlattenSeq, IsFlatten
<1> HIDE DEF N, f
<1>4. f = [i \in 1..N |-> IF i = 1 THEN seqs[i] ELSE f[i - 1] \o seqs[i]]
  BY <1>2 DEF IsFlatten, N
<1>5. /\ 1 \in 1..N => f[1] = seqs[1]
      /\ \A i \in 1..N : i # 1 => f[i] = f[i - 1] \o seqs[i]
  BY <1>4
<1>6. 0 \in G
  BY <1>1, <1>5
<1>7. ASSUME NEW k \in Nat, k \in G PROVE k + 1 \in G
  <2> SUFFICES ASSUME (k + 1) + 1 \in 1..N PROVE f[(k + 1) + 1] \in Text
    OBVIOUS
  <2>1. k + 1 \in 1..N /\ ((k + 1) + 1) - 1 = k + 1 /\ (k + 1) + 1 # 1
    BY <1>1
  <2>2. f[(k + 1) + 1] = f[k + 1] \o seqs[(k + 1) + 1]
    BY <1>5, <2>1
  <2> QED
    BY <1>1, <1>7, <2>1, <2>2, Concatenated
<1>8. ASSUME NEW i \in 1..N PROVE f[i] \in Text
  <2>1. i - 1 \in Nat /\ (i - 1) + 1 = i
    BY <1>1
  <2>2. i - 1 \in G
    <3> HIDE DEF G
    <3> QED
      BY <1>6, <1>7, <2>1, InductionOnNat
  <2> QED
    BY <2>1, <2>2
<1>9. f \in [1..N -> Text] /\ 1 \in 1..N
  <2>1. f = [i \in 1..N |-> f[i]]
    BY <1>4
  <2>2. 1 \in 1..N
    BY <1>1 DEF N
  <2> QED
    BY <1>8, <2>1, <2>2
<1> QED
  BY <1>3, <1>5, <1>9 DEF N

(* A character as Escape writes it.                                           *)
Escaped(c) == IF c = operator THEN <<operator, operator>> ELSE <<c>>

LEMMA ExpandEscaped ==
    ASSUME NEW c \in Chars, NEW y \in Text, NEW first, IsEnv(first), NEW second, IsEnv(second)
    PROVE  Expand(Escaped(c) \o y, first, second) = <<c>> \o Expand(y, first, second)
<1>1. CASE c = operator
  BY <1>1, ExpandOperators DEF Escaped
<1>2. CASE c # operator
  <2>1. Escaped(c) = <<c>>
    BY <1>2 DEF Escaped
  <2>2. Expand(<<c>> \o y, first, second) = <<c>> \o Expand(y, first, second)
    <3> DEFINE x == <<c>>
    <3>1. x \in Text /\ Len(x) = 1 /\ x[1] # operator
      BY <1>2, One
    <3> HIDE DEF x
    <3>2. Expand(x \o y, first, second) = x \o Expand(y, first, second)
      BY <3>1, ExpandOther
    <3> QED
      BY <3>2 DEF x
  <2> HIDE DEF Escaped
  <2> QED
    BY <2>1, <2>2
<1> QED
  BY <1>1, <1>2

LEMMA EscapedType ==
    ASSUME NEW c \in Chars PROVE Escaped(c) \in Text
<1>1. CASE c = operator
  <2>1. Escaped(c) = <<operator, operator>>
    BY <1>1 DEF Escaped
  <2> QED
    <3>1. operator \in Chars
      BY Signs
    <3>2. <<operator, operator>> \in Text
      BY <3>1, Two
    <3> QED
      BY <2>1, <3>2
<1>2. CASE c # operator
  <2>1. Escaped(c) = <<c>>
    BY <1>2 DEF Escaped
  <2> QED
    BY <2>1, One
<1> QED
  BY <1>1, <1>2

(* A text longer by one character.                                            *)
LEMMA OneMore ==
    ASSUME NEW t \in Text, NEW k \in Nat, k + 1 \in 1..Len(t)
    PROVE  /\ SubSeq(t, 1, k) \in Text
           /\ SubSeq(t, 1, k + 1) = SubSeq(t, 1, k) \o <<t[k + 1]>>
<1> DEFINE a == SubSeq(t, 1, k)
           b == SubSeq(t, 1, k + 1)
           x == <<t[k + 1]>>
<1>1. Len(t) \in Nat /\ t[k + 1] \in Chars
  BY TextIs
<1>2. /\ 1 \in Nat \ {0} /\ k \in 0..Len(t) /\ k + 1 \in 0..Len(t) /\ 1 <= k + 1 /\ 1 <= (k + 1) + 1
      /\ k - 1 + 1 = k /\ (k + 1) - 1 + 1 = k + 1
  BY <1>1
<1>3. a \in Text /\ Len(a) = k /\ \A i \in 1..k : a[i] = t[1 + i - 1]
  BY <1>2, Part
<1>4. b \in Text /\ Len(b) = k + 1 /\ \A i \in 1..(k + 1) : b[i] = t[1 + i - 1]
  BY <1>2, Part
<1>5. x \in Text /\ Len(x) = 1 /\ x[1] = t[k + 1]
  BY <1>1, One
<1> HIDE DEF a, b, x
<1>6. /\ a \o x \in Text /\ Len(a \o x) = Len(a) + Len(x)
      /\ \A i \in 1..Len(a) : (a \o x)[i] = a[i]
      /\ \A i \in 1..Len(x) : (a \o x)[Len(a) + i] = x[i]
  BY <1>3, <1>5, Concatenated
<1>7. ASSUME NEW i \in 1..Len(b) PROVE b[i] = (a \o x)[i]
  <2>1. i \in 1..(k + 1) /\ 1 + i - 1 = i
    BY <1>4
  <2>2. CASE i = k + 1
    <3>1. 1 \in 1..1
      OBVIOUS
    <3> QED
      BY <1>3, <1>4, <1>5, <1>6, <2>1, <2>2, <3>1
  <2>3. CASE i # k + 1
    <3>1. i \in 1..k
      BY <2>1, <2>3
    <3> QED
      BY <1>3, <1>4, <1>6, <2>1, <3>1
  <2> QED
    BY <2>2, <2>3
<1>8. b = a \o x
  <2>1. Len(b) = Len(a \o x)
    BY <1>3, <1>4, <1>5, <1>6
  <2> QED
    BY <1>4, <1>6, <1>7, <2>1, SameText
<1> QED
  BY <1>3, <1>8 DEF a, b, x

(* Escaping keeps Expand from changing a text, whatever comes behind it.      *)
LEMMA EscapeIs ==
    ASSUME NEW t \in Text, NEW first, IsEnv(first), NEW second, IsEnv(second)
    PROVE  /\ Escape(t) \in Text
           /\ \A y \in Text : Expand(Escape(t) \o y, first, second) = t \o Expand(y, first, second)
<1> DEFINE N == Len(t)
           seqs == [i \in DOMAIN t |-> Escaped(t[i])]
           E(y) == Expand(y, first, second)
<1>1. N \in Nat /\ DOMAIN t = 1..N /\ \A i \in 1..N : t[i] \in Chars
  BY TextIs
<1>2. seqs \in Seq(Text) /\ Len(seqs) = N
  <2>1. \A i \in 1..N : Escaped(t[i]) \in Text
    BY <1>1, EscapedType
  <2>2. seqs \in [1..N -> Text]
    <3> HIDE DEF N
    <3> QED
      BY <1>1, <2>1
  <2>3. \A i \in 1..N : seqs[i] \in Text
    BY <2>2
  <2> HIDE DEF seqs
  <2>4. seqs = [i \in 1..N |-> seqs[i]]
    BY <2>2
  <2> QED
    BY <1>1, <2>2, SeqDef
<1>3. Escape(t) = FlattenSeq(seqs)
  BY DEF Escape, Escaped
<1>4. \A i \in 1..N : seqs[i] = Escaped(t[i])
  BY <1>1
<1>5. \A y \in Text : E(y) \in Text
  BY ExpandType
<1> HIDE DEF seqs, E, N
<1>6. CASE N = 0
  <2>1. FlattenSeq(seqs) = seqs /\ seqs = <<>> /\ t = <<>>
    <3>1. seqs = <<>> /\ t = <<>>
      BY <1>2, <1>6, EmptySeq DEF N, Text
    <3> QED
      BY <1>2, <1>6, <3>1 DEF FlattenSeq
  <2>2. Escape(t) = t
    BY <1>3, <2>1
  <2>3. ASSUME NEW y \in Text PROVE E(t \o y) = t \o E(y)
    <3>1. E(y) \in Text
      BY <1>5
    <3>2. t \o y = y /\ t \o E(y) = E(y)
      BY <2>1, <3>1, TextAlgebra
    <3> QED
      BY <3>2
  <2> QED
    BY <2>2, <2>3 DEF E
<1>7. CASE N # 0
  <2>1. PICK f \in [1..N -> Text] :
          /\ f[1] = seqs[1]
          /\ \A i \in 1..N : i # 1 => f[i] = f[i - 1] \o seqs[i]
          /\ FlattenSeq(seqs) = f[N]
    BY <1>2, <1>7, FlattenIs
  <2> DEFINE G == {k \in Nat : k + 1 \in 1..N =>
                     \A y \in Text : E(f[k + 1] \o y) = SubSeq(t, 1, k + 1) \o E(y)}
  <2>2. \A i \in 1..N, y \in Text : seqs[i] \in Text /\ E(seqs[i] \o y) = <<t[i]>> \o E(y)
    <3> SUFFICES ASSUME NEW i \in 1..N, NEW y \in Text
                 PROVE  seqs[i] \in Text /\ E(seqs[i] \o y) = <<t[i]>> \o E(y)
      OBVIOUS
    <3>1. t[i] \in Chars /\ seqs[i] = Escaped(t[i])
      BY <1>1, <1>4
    <3>2. Escaped(t[i]) \in Text
      BY <3>1, EscapedType
    <3>3. Expand(Escaped(t[i]) \o y, first, second) = <<t[i]>> \o Expand(y, first, second)
      <4>1. t[i] \in Chars
        BY <3>1
      <4> QED
        BY <4>1, ExpandEscaped
    <3> QED
      BY <3>1, <3>2, <3>3 DEF E
  <2>3. \A k \in Nat : k + 1 \in 1..N =>
          SubSeq(t, 1, k) \in Text /\ SubSeq(t, 1, k + 1) = SubSeq(t, 1, k) \o <<t[k + 1]>>
    BY OneMore DEF N
  <2>4. 0 \in G
    <3>1. 1 \in 1..N /\ 0 + 1 = 1
      BY <1>1, <1>7
    <3>2. SubSeq(t, 1, 0) = <<>> /\ \A x \in Text : <<>> \o x = x
      <4>1. \A x \in Text : <<>> \o x = x
        BY TextAlgebra
      <4> QED
        BY <4>1, SubSeqEmpty, EmptySeq DEF Text
    <3>3. <<t[1]>> \in Text
      BY <1>1, <3>1, One
    <3>4. SubSeq(t, 1, 1) = <<t[1]>>
      BY <2>3, <3>1, <3>2, <3>3
    <3>5. \A y \in Text : E(f[1] \o y) = SubSeq(t, 1, 1) \o E(y)
      BY <2>1, <2>2, <3>1, <3>4
    <3> QED
      BY <3>1, <3>5
  <2>5. ASSUME NEW k \in Nat, k \in G PROVE k + 1 \in G
    <3> SUFFICES ASSUME (k + 1) + 1 \in 1..N, NEW y \in Text
                 PROVE  E(f[(k + 1) + 1] \o y) = SubSeq(t, 1, (k + 1) + 1) \o E(y)
      OBVIOUS
    <3> DEFINE i == (k + 1) + 1
    <3>1. i \in 1..N /\ k + 1 \in 1..N /\ i - 1 = k + 1 /\ i # 1 /\ k + 1 \in Nat
      BY <1>1
    <3>2. f[i] = f[k + 1] \o seqs[i]
      BY <2>1, <3>1
    <3>3. f[k + 1] \in Text /\ seqs[i] \in Text /\ seqs[i] \o y \in Text
      BY <2>1, <2>2, <3>1, Concatenated
    <3>4. f[i] \o y = f[k + 1] \o (seqs[i] \o y)
      <4>1. (f[k + 1] \o seqs[i]) \o y = f[k + 1] \o (seqs[i] \o y)
        <5>1. \A a, b, c \in Text : (a \o b) \o c = a \o (b \o c)
          BY TextAlgebra
        <5>2. f[k + 1] \in Text /\ seqs[i] \in Text
          BY <3>3
        <5> QED
          BY Zenon, <5>1, <5>2
      <4> QED
        BY <3>2, <4>1
    <3>5. E(f[k + 1] \o (seqs[i] \o y)) = SubSeq(t, 1, k + 1) \o E(seqs[i] \o y)
      BY <2>5, <3>1, <3>3
    <3>6. E(seqs[i] \o y) = <<t[i]>> \o E(y)
      BY <2>2, <3>1
    <3>7. SubSeq(t, 1, k + 1) \in Text /\ SubSeq(t, 1, i) = SubSeq(t, 1, k + 1) \o <<t[i]>>
      BY <2>3, <3>1
    <3>8. <<t[i]>> \in Text /\ E(y) \in Text
      BY <1>1, <1>5, <3>1, One
    <3> HIDE DEF i
    <3>9. SubSeq(t, 1, k + 1) \o (<<t[i]>> \o E(y)) = (SubSeq(t, 1, k + 1) \o <<t[i]>>) \o E(y)
      <4>1. \A a, b, c \in Text : (a \o b) \o c = a \o (b \o c)
        BY TextAlgebra
      <4>2. SubSeq(t, 1, k + 1) \in Text
        BY <3>7
      <4> QED
        BY Zenon, <3>8, <4>1, <4>2
    <3> QED
      BY <3>4, <3>5, <3>6, <3>7, <3>9 DEF i
  <2>6. N - 1 \in G
    <3>1. N - 1 \in Nat
      BY <1>1, <1>7
    <3> HIDE DEF G
    <3> QED
      BY <2>4, <2>5, <3>1, InductionOnNat
  <2>7. (N - 1) + 1 = N /\ N \in 1..N
    BY <1>1, <1>7
  <2>8. SubSeq(t, 1, N) = t
    BY SubSeqFull DEF N, Text
  <2>9. \A y \in Text : E(f[N] \o y) = t \o E(y)
    BY <2>6, <2>7, <2>8
  <2> QED
    BY <1>3, <2>1, <2>7, <2>9 DEF E
<1> QED
  BY <1>6, <1>7

(* env.go: an escaped text is left as it is, and a reference in between is    *)
(* replaced.                                                                  *)
LEMMA ReferenceReplaced ==
    ASSUME NEW before \in Text, NEW after \in Text, NEW n \in Name,
           NEW first, IsEnv(first), NEW second, IsEnv(second)
    PROVE  Expand(Escape(before) \o syntaxWrap(n) \o Escape(after), first, second)
             = before \o Mapping(first, second, n) \o after
<1> DEFINE E(y) == Expand(y, first, second)
           b == Escape(before)
           w == syntaxWrap(n)
           a == Escape(after)
           m == Mapping(first, second, n)
           empty == <<>>
<1>1. n \in Text
  BY DEF Name
<1>2. b \in Text /\ w \in Text /\ a \in Text /\ m \in Text /\ empty \in Text
  BY <1>1, EscapeIs, WrapIs, MappingType, TextAlgebra
<1>3. \A y \in Text : E(b \o y) = before \o E(y) /\ E(a \o y) = after \o E(y)
  <2>1. \A y \in Text : E(b \o y) = before \o E(y)
    <3>1. \A y \in Text : Expand(Escape(before) \o y, first, second)
                           = before \o Expand(y, first, second)
      BY EscapeIs, SMTT(30)
    <3> QED
      BY Zenon, <3>1 DEF E, b
  <2>2. \A y \in Text : E(a \o y) = after \o E(y)
    <3>1. \A y \in Text : Expand(Escape(after) \o y, first, second)
                           = after \o Expand(y, first, second)
      BY EscapeIs, SMTT(30)
    <3> QED
      BY Zenon, <3>1 DEF E, a
  <2> QED
    BY <2>1, <2>2
<1>4. \A y \in Text : E(w \o y) = m \o E(y)
  BY ExpandReference
<1>5. E(empty) = empty
  BY ExpandEmpty
<1> HIDE DEF E, b, w, a, m, empty
<1>6. a \o empty = a /\ after \o empty = after /\ w \o a \in Text
  BY <1>2, TextAlgebra, Concatenated DEF empty
<1>7. E(a) = after
  BY <1>2, <1>3, <1>5, <1>6
<1>8. E(b \o (w \o a)) = before \o (m \o after)
  BY <1>2, <1>3, <1>4, <1>6, <1>7
<1>9. (b \o w) \o a = b \o (w \o a) /\ (before \o m) \o after = before \o (m \o after)
  <2>1. (b \o w) \o a = b \o (w \o a)
    BY Zenon, <1>2, TextAlgebra
  <2>2. (before \o m) \o after = before \o (m \o after)
    <3>1. m \in Text
      BY <1>2
    <3>2. \A s, t, u \in Text : (s \o t) \o u = s \o (t \o u)
      BY TextAlgebra
    <3> QED
      BY Zenon, <3>1, <3>2
  <2> QED
    BY <2>1, <2>2
<1> QED
  BY <1>8, <1>9 DEF E, b, w, a, m

-----------------------------------------------------------------------------
(* 3. The environments that are made are texts under names. *)

Envs == UNION {[D -> Text] : D \in SUBSET Name}

LEMMA EnvIs ==
    ASSUME NEW env \in Envs
    PROVE  IsEnv(env) /\ DOMAIN env \subseteq Name /\ env = [n \in DOMAIN env |-> env[n]]
  BY DEF Envs, IsEnv

LEMMA NoVariables == << >> \in Envs
<1>1. << >> \in [1..0 -> Text]
  OBVIOUS
<1>2. 1..0 \in SUBSET Name
  OBVIOUS
<1> QED
  BY <1>1, <1>2 DEF Envs

LEMMA VariableType == ASSUME NEW n \in Name, NEW t \in Text PROVE Variable(n, t) \in Envs
<1>1. Variable(n, t) \in [{n} -> Text] /\ {n} \in SUBSET Name
  BY DEF Variable
<1> QED
  BY <1>1 DEF Envs

LEMMA PutType == ASSUME NEW a \in Envs, NEW b \in Envs PROVE Put(a, b) \in Envs
<1> DEFINE D == DOMAIN a \cup DOMAIN b
<1>1. D \in SUBSET Name /\ \A n \in DOMAIN a : a[n] \in Text /\ \A k \in DOMAIN b : b[k] \in Text
  BY EnvIs DEF IsEnv
<1>2. \A n \in DOMAIN a : a[n] \in Text
  BY EnvIs DEF IsEnv
<1>3. Put(a, b) \in [D -> Text]
  <2>1. \A n \in D : (IF n \in DOMAIN b THEN b[n] ELSE a[n]) \in Text
    BY <1>2, EnvIs DEF IsEnv
  <2> QED
    BY <2>1 DEF Put
<1> QED
  BY <1>1, <1>3 DEF Envs

LEMMA PutAllType == ASSUME NEW envs \in Seq(Envs) PROVE PutAll(envs) \in Envs
<1> DEFINE D == UNION {DOMAIN envs[i] : i \in DOMAIN envs}
           who(n) == {i \in DOMAIN envs : n \in DOMAIN envs[i]}
<1>1. Len(envs) \in Nat /\ DOMAIN envs = 1..Len(envs) /\ \A i \in DOMAIN envs : envs[i] \in Envs
  BY LenProperties
<1>2. D \in SUBSET Name
  BY <1>1, EnvIs
<1>3. ASSUME NEW n \in D PROVE envs[Max(who(n))][n] \in Text
  <2>1. who(n) \in SUBSET (0..Len(envs)) /\ who(n) # {}
    BY <1>1
  <2> HIDE DEF who
  <2>2. Max(who(n)) \in who(n)
    BY <1>1, <2>1, MaxIs
  <2>3. Max(who(n)) \in DOMAIN envs /\ n \in DOMAIN envs[Max(who(n))]
    BY <2>2 DEF who
  <2> QED
    BY <1>1, <2>3, EnvIs DEF IsEnv
<1>4. PutAll(envs) = [n \in D |-> envs[Max(who(n))][n]]
  BY DEF PutAll
<1> HIDE DEF D, who
<1>5. PutAll(envs) \in [D -> Text]
  BY <1>3, <1>4
<1> QED
  BY <1>2, <1>5 DEF Envs

(* Names made from parts. *)
LEMMA NameIs ==
    ASSUME NEW t \in Text, \A i \in 1..Len(t) : t[i] # referenceCloser PROVE t \in Name
  BY TextIs DEF Name

LEMMA NameParts ==
    ASSUME NEW n \in Name
    PROVE  n \in Text /\ Len(n) \in Nat /\ \A i \in 1..Len(n) : n[i] # referenceCloser
<1>1. n \in Text /\ referenceCloser \notin Range(n)
  BY DEF Name
<1> QED
  BY <1>1, TextIs

LEMMA LongerName == ASSUME NEW m \in Name, NEW n \in Name PROVE m \o n \in Name
<1>1. /\ m \in Text /\ Len(m) \in Nat /\ \A i \in 1..Len(m) : m[i] # referenceCloser
      /\ n \in Text /\ Len(n) \in Nat /\ \A i \in 1..Len(n) : n[i] # referenceCloser
  BY NameParts
<1>2. /\ m \o n \in Text /\ Len(m \o n) = Len(m) + Len(n)
      /\ \A i \in 1..Len(m) : (m \o n)[i] = m[i]
      /\ \A i \in 1..Len(n) : (m \o n)[Len(m) + i] = n[i]
  BY <1>1, Concatenated
<1>3. ASSUME NEW i \in 1..Len(m \o n) PROVE (m \o n)[i] # referenceCloser
  <2>1. CASE i <= Len(m)
    <3>1. i \in 1..Len(m)
      BY <2>1
    <3> QED
      BY <1>1, <1>2, <3>1
  <2>2. CASE ~(i <= Len(m))
    <3>1. i - Len(m) \in 1..Len(n) /\ Len(m) + (i - Len(m)) = i
      BY <1>1, <1>2, <2>2
    <3> QED
      BY <1>1, <1>2, <3>1
  <2> QED
    BY <2>1, <2>2
<1> QED
  BY <1>2, <1>3, NameIs

LEMMA OneName == ASSUME NEW c \in Chars, c # referenceCloser PROVE <<c>> \in Name
<1>1. <<c>> \in Text /\ Len(<<c>>) = 1 /\ <<c>>[1] = c
  BY One
<1>2. \A i \in 1..1 : i = 1
  OBVIOUS
<1>3. \A i \in 1..Len(<<c>>) : <<c>>[i] # referenceCloser
  BY <1>1, <1>2
<1> QED
  BY <1>1, <1>3, NameIs

Words == {"_", "SERVICE", "HOST", "PORT", "PROTO", "ADDR"}

LEMMA WordsAre == \A c \in Words : c \in Chars /\ c # referenceCloser
<1>1. \A c \in Words : c \in Chars
  BY Zenon, TextAssumption DEF Words
<1>2. \A c \in Words : c # referenceCloser
  BY Zenon DEF Words, referenceCloser
<1> QED
  BY <1>1, <1>2

LEMMA UpperIs == \A c \in DOMAIN Upper : c \in Chars /\ Upper[c] \in Chars \ {referenceCloser}
  BY Zenon, TextAssumption

LEMMA UnderName ==
    ASSUME NEW n \in Name, NEW c \in Chars, c # referenceCloser PROVE Under(n, c) \in Name
<1> DEFINE u == "_"
<1>1. u \in Words
  BY DEF Words
<1>2. u \in Chars /\ u # referenceCloser
  <2> HIDE DEF u
  <2> QED
    BY <1>1, WordsAre
<1>3. Under(n, c) = n \o <<u, c>>
  BY DEF Under
<1> HIDE DEF u
<1>4. <<u, c>> = <<u>> \o <<c>>
  BY <1>2, Two
<1>5. <<u>> \o <<c>> \in Name
  BY <1>2, OneName, LongerName
<1> QED
  BY <1>3, <1>4, <1>5, LongerName

LEMMA makeEnvVariableNameIs == ASSUME NEW l \in Label PROVE makeEnvVariableName(l) \in Name
<1> DEFINE t == makeEnvVariableName(l)
<1>1. Len(l) \in Nat /\ DOMAIN l = 1..Len(l) /\ \A i \in 1..Len(l) : l[i] \in DOMAIN Upper
  BY LenProperties DEF Label
<1>2. \A i \in 1..Len(l) : Upper[l[i]] \in Chars \ {referenceCloser}
  BY <1>1, UpperIs
<1>3. t \in [1..Len(l) -> Chars] /\ \A i \in 1..Len(l) : t[i] # referenceCloser
  BY <1>1, <1>2 DEF makeEnvVariableName
<1> HIDE DEF t
<1>4. t \in Text /\ Len(t) = Len(l)
  BY <1>1, <1>3, SeqDef, LenProperties DEF Text
<1> QED
  BY <1>3, <1>4, NameIs DEF t

(* A service that has an address, and one of its ports.                       *)
AddressedServices == {s \in Services : IsServiceIPSet(s)}

LEMMA ServiceIs ==
    ASSUME NEW s \in AddressedServices
    PROVE  /\ s.name \in Label /\ s.ip \in Chars
           /\ s.ports \in Seq(Ports) /\ 1 \in DOMAIN s.ports /\ DOMAIN s.ports = 1..Len(s.ports)
           /\ Len(s.ports) \in Nat
           /\ \A i \in DOMAIN s.ports : s.ports[i] \in Ports
<1>1. s.name \in Label /\ s.ip \in Chars /\ s.ports \in Seq(Ports) /\ s.ports # <<>>
  BY ServiceAssumption DEF AddressedServices, IsServiceIPSet
<1>2. /\ Len(s.ports) \in Nat /\ DOMAIN s.ports = 1..Len(s.ports)
      /\ \A i \in DOMAIN s.ports : s.ports[i] \in Ports
  BY <1>1, LenProperties
<1>3. Len(s.ports) # 0
  BY <1>1, EmptySeq
<1> QED
  BY <1>1, <1>2, <1>3

LEMMA PortIs ==
    ASSUME NEW p \in Ports
    PROVE  /\ p.name \in Label
           /\ p.port \in Chars /\ p.port # referenceCloser
           /\ p.protocol \in Chars /\ Upper[p.protocol] \in Chars /\ Upper[p.protocol] # referenceCloser
  BY UpperIs DEF Ports

LEMMA URLType == ASSUME NEW s \in AddressedServices, NEW p \in Ports PROVE URL(s, p) \in Text
<1> DEFINE colon == ":"
           slash == "/"
<1>1. p.protocol \in Chars /\ s.ip \in Chars /\ p.port \in Chars
  BY ServiceIs, PortIs
<1>2. {colon, slash} \subseteq Chars
  BY Zenon, TextAssumption
<1>3. URL(s, p) = <<p.protocol, colon, slash, slash, s.ip, colon, p.port>>
  BY DEF URL
<1> HIDE DEF colon, slash
<1> QED
  BY <1>1, <1>2, <1>3 DEF Text

(* A variable under one word more.                                            *)
LEMMA UnderWord == ASSUME NEW n \in Name, NEW c \in Words PROVE Under(n, c) \in Name
  BY WordsAre, UnderName

(* Tuples are sequences. *)
LEMMA Four ==
    ASSUME NEW S, NEW a \in S, NEW b \in S, NEW c \in S, NEW d \in S
    PROVE  <<a, b>> \in Seq(S) /\ <<a>> \in Seq(S) /\ <<a, b, c, d>> \in Seq(S)
  OBVIOUS

LEMMA PortLinksType ==
    ASSUME NEW s \in AddressedServices, NEW p \in Ports PROVE PortLinks(s, p) \in Envs
<1> DEFINE port == "PORT"
           proto == "PROTO"
           addr == "ADDR"
           prefix == Under(Under(Under(makeEnvVariableName(s.name), port), p.port), Upper[p.protocol])
           a == Variable(prefix, URL(s, p))
           b == Variable(Under(prefix, proto), <<p.protocol>>)
           c == Variable(Under(prefix, port), <<p.port>>)
           d == Variable(Under(prefix, addr), <<s.ip>>)
<1>1. port \in Words /\ proto \in Words /\ addr \in Words
  BY DEF Words
<1>2. PortLinks(s, p) = PutAll(<<a, b, c, d>>)
  BY DEF PortLinks
<1> HIDE DEF port, proto, addr
<1>3. prefix \in Name
  <2>1. makeEnvVariableName(s.name) \in Name
    BY ServiceIs, makeEnvVariableNameIs
  <2>2. Under(makeEnvVariableName(s.name), port) \in Name
    BY <1>1, <2>1, UnderWord
  <2>3. Under(Under(makeEnvVariableName(s.name), port), p.port) \in Name
    BY <2>2, PortIs, UnderName
  <2> QED
    BY <2>3, PortIs, UnderName
<1> HIDE DEF prefix
<1>4. Under(prefix, proto) \in Name /\ Under(prefix, port) \in Name /\ Under(prefix, addr) \in Name
  BY <1>1, <1>3, UnderWord
<1>5. <<p.protocol>> \in Text /\ <<p.port>> \in Text /\ <<s.ip>> \in Text
  BY ServiceIs, PortIs, One
<1>6. a \in Envs /\ b \in Envs /\ c \in Envs /\ d \in Envs
  BY <1>3, <1>4, <1>5, URLType, VariableType
<1> HIDE DEF a, b, c, d
<1>7. <<a, b, c, d>> \in Seq(Envs)
  BY <1>6, Four
<1> QED
  BY <1>2, <1>7, PutAllType

(* One environment for each port.                                             *)
LEMMA OfPorts ==
    ASSUME NEW s \in AddressedServices, NEW f, DOMAIN f = DOMAIN s.ports, f = [i \in DOMAIN s.ports |-> f[i]],
           \A i \in DOMAIN s.ports : f[i] \in Envs
    PROVE  f \in Seq(Envs)
<1>1. DOMAIN s.ports = 1..Len(s.ports) /\ Len(s.ports) \in Nat
  BY ServiceIs
<1>2. f \in [1..Len(s.ports) -> Envs]
  BY <1>1
<1> QED
  BY <1>1, <1>2, SeqDef

LEMMA makeLinkVariablesType == ASSUME NEW s \in AddressedServices PROVE makeLinkVariables(s) \in Envs
<1> DEFINE port == "PORT"
           a == Variable(Under(makeEnvVariableName(s.name), port), URL(s, s.ports[1]))
           f == [i \in DOMAIN s.ports |-> PortLinks(s, s.ports[i])]
<1>1. port \in Words
  BY DEF Words
<1>2. makeLinkVariables(s) = PutAll(<<a>> \o f)
  BY DEF makeLinkVariables
<1> HIDE DEF port
<1>3. a \in Envs
  <2>1. Under(makeEnvVariableName(s.name), port) \in Name
    BY <1>1, ServiceIs, makeEnvVariableNameIs, UnderWord
  <2>2. URL(s, s.ports[1]) \in Text
    BY ServiceIs, URLType
  <2> QED
    BY <2>1, <2>2, VariableType
<1>4. f \in Seq(Envs)
  <2>1. \A i \in DOMAIN s.ports : f[i] \in Envs
    BY ServiceIs, PortLinksType
  <2>2. DOMAIN f = DOMAIN s.ports /\ f = [i \in DOMAIN s.ports |-> f[i]]
    OBVIOUS
  <2> HIDE DEF f
  <2> QED
    BY <2>1, <2>2, OfPorts
<1> HIDE DEF a, f
<1>5. <<a>> \o f \in Seq(Envs)
  <2>1. <<a>> \in Seq(Envs)
    BY <1>3, Four
  <2> QED
    BY <1>4, <2>1, ConcatProperties
<1> QED
  BY <1>2, <1>5, PutAllType

LEMMA NamedPortType ==
    ASSUME NEW n \in Name, NEW p \in Ports PROVE NamedPort(n, p) \in Envs
<1> DEFINE port == "PORT"
           u == "_"
<1>1. port \in Words /\ u \in Words
  BY DEF Words
<1>2. NamedPort(n, p) = IF p.name = <<>> THEN << >>
                        ELSE Variable((Under(n, port) \o <<u>>) \o makeEnvVariableName(p.name), <<p.port>>)
  BY DEF NamedPort
<1> HIDE DEF port, u
<1>3. Under(n, port) \in Name /\ <<u>> \in Name /\ makeEnvVariableName(p.name) \in Name
  BY <1>1, UnderWord, WordsAre, OneName, PortIs, makeEnvVariableNameIs
<1>4. (Under(n, port) \o <<u>>) \o makeEnvVariableName(p.name) \in Name
  BY <1>3, LongerName
<1>5. <<p.port>> \in Text
  BY PortIs, One
<1> QED
  BY <1>2, <1>4, <1>5, VariableType, NoVariables

LEMMA FromServiceType == ASSUME NEW s \in AddressedServices PROVE FromService(s) \in Envs
<1> DEFINE port == "PORT"
           host == "HOST"
           word == "SERVICE"
           service == Under(makeEnvVariableName(s.name), word)
           a == Variable(Under(service, host), <<s.ip>>)
           b == Variable(Under(service, port), <<s.ports[1].port>>)
           f == [i \in DOMAIN s.ports |-> NamedPort(service, s.ports[i])]
           l == makeLinkVariables(s)
<1>1. port \in Words /\ host \in Words /\ word \in Words
  BY DEF Words
<1>2. FromService(s) = PutAll((<<a, b>> \o f) \o <<l>>)
  BY DEF FromService
<1> HIDE DEF port, host, word
<1>3. service \in Name
  BY <1>1, ServiceIs, makeEnvVariableNameIs, UnderWord
<1> HIDE DEF service
<1>4. a \in Envs /\ b \in Envs
  <2>1. Under(service, host) \in Name /\ Under(service, port) \in Name
    BY <1>1, <1>3, UnderWord
  <2>2. <<s.ip>> \in Text /\ <<s.ports[1].port>> \in Text
    BY ServiceIs, PortIs, One
  <2> QED
    BY <2>1, <2>2, VariableType
<1>5. f \in Seq(Envs)
  <2>1. \A i \in DOMAIN s.ports : f[i] \in Envs
    BY <1>3, ServiceIs, NamedPortType
  <2>2. DOMAIN f = DOMAIN s.ports /\ f = [i \in DOMAIN s.ports |-> f[i]]
    OBVIOUS
  <2> HIDE DEF f
  <2> QED
    BY <2>1, <2>2, OfPorts
<1>6. l \in Envs
  BY makeLinkVariablesType
<1> HIDE DEF a, b, f, l
<1>7. (<<a, b>> \o f) \o <<l>> \in Seq(Envs)
  <2>1. <<a, b>> \in Seq(Envs) /\ <<l>> \in Seq(Envs)
    BY <1>4, <1>6, Four
  <2> QED
    BY <1>5, <2>1, ConcatProperties
<1> QED
  BY <1>2, <1>7, PutAllType

(* Whatever the order in which the services are gone through.                 *)
LEMMA ServiceEnvsType == ServiceEnvs \subseteq Envs
<1> SUFFICES ASSUME NEW order \in SetToSeqs(serviceMap)
             PROVE  PutAll([i \in DOMAIN order |-> FromService(order[i])]) \in Envs
  BY DEF ServiceEnvs
<1>1. serviceMap \subseteq AddressedServices
  BY DEF serviceMap, AddressedServices
<1>2. serviceMap \subseteq Services
  BY <1>1 DEF AddressedServices
<1>3. Cardinality(serviceMap) \in Nat
  BY <1>2, ServiceAssumption, FS_Subset, FS_CardinalityType
<1>4. order \in [1..Cardinality(serviceMap) -> serviceMap]
  BY DEF SetToSeqs
<1> DEFINE f == [i \in DOMAIN order |-> FromService(order[i])]
<1>5. \A i \in DOMAIN order : FromService(order[i]) \in Envs
  BY <1>1, <1>4, FromServiceType
<1>6. f \in [1..Cardinality(serviceMap) -> Envs]
  BY <1>4, <1>5
<1> HIDE DEF f
<1>7. f \in Seq(Envs)
  BY <1>3, <1>6, SeqDef
<1> QED
  BY <1>7, PutAllType DEF f

(* The variables an object gives.                                             *)
LEMMA GivenType ==
    ASSUME NEW data, \A k \in DOMAIN data : k \in Text /\ data[k] \in Text, NEW prefix \in Text
    PROVE  Given(data, prefix) \in Envs
<1> DEFINE keys == {k \in DOMAIN data : IsEnvVarName(prefix \o k)}
           D == {prefix \o k : k \in keys}
<1>1. Given(data, prefix) = [n \in D |-> data[CHOOSE k \in keys : n = prefix \o k]]
  BY DEF Given
<1>2. ASSUME NEW k \in keys PROVE prefix \o k \in Name
  <2>1. prefix \o k \in Text
    BY Concatenated
  <2>2. referenceCloser \notin Range(prefix \o k)
    <3>1. Range(prefix \o k) \subseteq NameChars
      BY DEF IsEnvVarName
    <3>2. referenceCloser \notin NameChars
      BY Zenon, TextAssumption
    <3> QED
      BY <3>1, <3>2
  <2> QED
    BY <2>1, <2>2 DEF Name
<1>3. ASSUME NEW n \in D PROVE data[CHOOSE k \in keys : n = prefix \o k] \in Text
  <2>1. \E k \in keys : n = prefix \o k
    OBVIOUS
  <2>2. (CHOOSE k \in keys : n = prefix \o k) \in DOMAIN data
    BY <2>1
  <2> QED
    BY <2>2
<1>4. D \in SUBSET Name
  BY <1>2
<1> HIDE DEF D, keys
<1>5. Given(data, prefix) \in [D -> Text]
  BY <1>1, <1>3
<1> QED
  BY <1>4, <1>5 DEF Envs

(* What getEnvironmentVariableValue gives: a text, if anything.               *)
LEMMA FieldValueType == \A label : FieldValue(label) \in Text \cup {None}
<1> SUFFICES ASSUME NEW label PROVE FieldValue(label) \in Text \cup {None}
  OBVIOUS
<1> DEFINE path == ConvertDownwardAPIFieldLabel(label)
           two == {"spec.nodeName", "spec.serviceAccountName"}
<1>1. FieldValue(label) = IF path \in two THEN Fields[path]
                          ELSE IF path \in metadataPaths THEN Fields[path] ELSE None
  BY DEF FieldValue, ExtractFieldPathAsString
<1>2. FieldPaths = two \cup metadataPaths
  BY DEF FieldPaths
<1> HIDE DEF path, two
<1>3. \A p \in FieldPaths : Fields[p] \in Text
  BY PodAssumption
<1> QED
  BY <1>1, <1>2, <1>3

(* A cache as the listers answer from it.                                     *)
LEMMA CacheIs ==
    ASSUME NEW c \in Caches, NEW o \in DOMAIN c, NEW k \in DOMAIN c[o]
    PROVE  k \in Text /\ c[o][k] \in Text
  BY PodAssumption

LEMMA ContainerIs ==
    ASSUME NEW c \in ContainerSpecs
    PROVE  /\ Len(c.envFrom) \in Nat /\ DOMAIN c.envFrom = 1..Len(c.envFrom)
           /\ \A i \in 1..Len(c.envFrom) : c.envFrom[i].prefix \in Text
           /\ Len(c.env) \in Nat /\ DOMAIN c.env = 1..Len(c.env)
           /\ \A j \in 1..Len(c.env) : c.env[j].name \in Name /\ c.env[j].value \in Text
<1> DEFINE R == [object : STRING, prefix : Text, optional : BOOLEAN]
           E == [name : Name, from : STRING, value : Text, object : STRING, key : Text,
                 optional : BOOLEAN]
<1>1. c.envFrom \in Seq(R) /\ c.env \in Seq(E)
  BY DEF ContainerSpecs
<1>2. (\A r \in R : r.prefix \in Text) /\ \A e \in E : e.name \in Name /\ e.value \in Text
  OBVIOUS
<1> HIDE DEF R, E
<1>3. /\ Len(c.envFrom) \in Nat /\ DOMAIN c.envFrom = 1..Len(c.envFrom)
      /\ \A i \in 1..Len(c.envFrom) : c.envFrom[i] \in R
  BY <1>1, LenProperties
<1>4. /\ Len(c.env) \in Nat /\ DOMAIN c.env = 1..Len(c.env)
      /\ \A j \in 1..Len(c.env) : c.env[j] \in E
  BY <1>1, LenProperties
<1> QED
  BY <1>2, <1>3, <1>4

LEMMA PodIs ==
    ASSUME NEW p \in Pods
    PROVE  /\ Len(p) \in Nat \ {0} /\ DOMAIN p = 1..Len(p)
           /\ \A i \in 1..Len(p) : p[i] \in ContainerSpecs
<1>1. p \in Seq(ContainerSpecs) /\ p # <<>>
  BY PodAssumption
<1> QED
  BY <1>1, LenProperties, EmptySeq

(* An entry gives a value, a text, or it is passed over.                      *)
GivesValue(e, objects) == \/ e.from \in {"value", "fieldRef"}
                          \/ e.from = "keyRef" /\ KeyExists(objects, e)

LEMMA ValueIs ==
    ASSUME NEW e, e.value \in Text, NEW objects \in Caches,
           NEW env \in Envs, NEW services \in Envs, ~Missing(e, objects)
    PROVE  IF GivesValue(e, objects) THEN Value(e, objects, env, services) \in Text
           ELSE Value(e, objects, env, services) = None
<1> DEFINE v == Value(e, objects, env, services)
<1>1. CASE e.from = "value"
  <2>1. v = Expand(e.value, env, services)
    BY <1>1 DEF Value
  <2> QED
    BY <1>1, <2>1, ExpandType, EnvIs DEF GivesValue
<1>2. CASE e.from = "keyRef" /\ KeyExists(objects, e)
  <2>1. v = objects[e.object][e.key]
    BY <1>2 DEF Value
  <2>2. v \in Text
    BY <1>2, <2>1, CacheIs DEF KeyExists
  <2> QED
    BY <1>2, <2>2 DEF GivesValue
<1>3. CASE e.from = "fieldRef"
  <2>1. v = FieldValue(e.object)
    BY <1>3 DEF Value
  <2>2. FieldValue(e.object) # None
    BY <1>3 DEF Missing
  <2> QED
    BY <1>3, <2>1, <2>2, FieldValueType DEF GivesValue
<1>4. CASE ~(e.from = "value") /\ ~(e.from = "keyRef" /\ KeyExists(objects, e)) /\ ~(e.from = "fieldRef")
  <2>1. v = None
    BY <1>4 DEF Value
  <2> QED
    BY <1>4, <2>1 DEF GivesValue
<1> QED
  BY <1>1, <1>2, <1>3, <1>4

-----------------------------------------------------------------------------
(* 4. The reference environment, entry by entry. *)

(* What Own's recursive function is after k entries.                          *)
OwnBody(d, after, k) ==
    LET entries(n) == {j \in 1..k : d.container.env[j].name = n /\ Gives(d, j)}
        refs(n) == {i \in References(d) : n \in DOMAIN GivenBy(d, i)}
        names == {d.container.env[j].name : j \in {j \in 1..k : Gives(d, j)}}
                   \cup UNION {DOMAIN GivenBy(d, i) : i \in References(d)}
    IN  [n \in names |->
           IF entries(n) # {}
           THEN LET j == Max(entries(n))
                IN  Value(d.container.env[j], SeenBy(d, j), after[j - 1], d.svcEnv)
           ELSE GivenBy(d, Max(refs(n)))[n]]
IsAfter(d, after) == after = [k \in {0} \cup Entries(d) |-> OwnBody(d, after, k)]

LEMMA OwnIsAfter ==
    ASSUME NEW d PROVE Own(d) = (CHOOSE after : IsAfter(d, after))[Len(d.container.env)]
  BY DEF Own, IsAfter, OwnBody

(* The variables of the first m references, and of one entry more.            *)
RefsAfter(d, m) == PutAll([i \in 1..m |-> GivenBy(d, i)])
WithEntry(d, env, j) ==
    IF Gives(d, j)
    THEN Put(env, Variable(d.container.env[j].name,
                           Value(d.container.env[j], SeenBy(d, j), env, d.svcEnv)))
    ELSE env

(* The last of the entries up to j that give a value to n.                    *)
LEMMA LastEntry ==
    ASSUME NEW S \in SUBSET Nat, NEW j \in Nat, j \in S, \A i \in S : i <= j
    PROVE  Max(S) = j
<1>1. S \in SUBSET (0..j)
  OBVIOUS
<1> DEFINE m == Max(S)
<1>2. m \in S /\ j <= m
  BY <1>1, MaxIs
<1> HIDE DEF m
<1>3. m = j
  BY <1>2
<1> QED
  BY <1>3 DEF m

LEMMA OwnBodyNone ==
    ASSUME NEW d, d.container \in ContainerSpecs, NEW after
    PROVE  OwnBody(d, after, 0) = RefsAfter(d, Len(d.container.envFrom))
<1> DEFINE m == Len(d.container.envFrom)
           g == [i \in 1..m |-> GivenBy(d, i)]
           refs(n) == {i \in 1..m : n \in DOMAIN GivenBy(d, i)}
           names == UNION {DOMAIN GivenBy(d, i) : i \in 1..m}
<1>1. References(d) = 1..m /\ m \in Nat
  BY ContainerIs DEF References
<1>2. OwnBody(d, after, 0) = [n \in names |-> GivenBy(d, Max(refs(n)))[n]]
  <2>1. \A j : j \notin 1..0
    OBVIOUS
  <2>2. \A n : {j \in 1..0 : d.container.env[j].name = n /\ Gives(d, j)} = {}
    BY <2>1
  <2>3. {d.container.env[j].name : j \in {j \in 1..0 : Gives(d, j)}} = {}
    BY <2>1
  <2> QED
    BY <1>1, <2>2, <2>3 DEF OwnBody
<1>3. DOMAIN g = 1..m /\ \A i \in 1..m : g[i] = GivenBy(d, i)
  OBVIOUS
<1> HIDE DEF g
<1>4. \A n : {i \in DOMAIN g : n \in DOMAIN g[i]} = refs(n)
  BY <1>3
<1>5. UNION {DOMAIN g[i] : i \in DOMAIN g} = names
  BY <1>3
<1>6. ASSUME NEW n \in names PROVE g[Max(refs(n))][n] = GivenBy(d, Max(refs(n)))[n]
  <2>1. refs(n) # {} /\ refs(n) \in SUBSET (0..m)
    BY <1>1
  <2>2. Max(refs(n)) \in refs(n)
    <3> HIDE DEF refs
    <3> QED
      BY <1>1, <2>1, MaxIs
  <2> QED
    BY <1>3, <2>2
<1>7. PutAll(g) = [n \in names |-> g[Max(refs(n))][n]]
  BY <1>4, <1>5 DEF PutAll
<1> QED
  BY <1>2, <1>6, <1>7 DEF RefsAfter, g

LEMMA OwnBodyNext ==
    ASSUME NEW d, NEW after, NEW k \in Nat
    PROVE  OwnBody(d, after, k + 1) =
             IF Gives(d, k + 1)
             THEN Put(OwnBody(d, after, k),
                      Variable(d.container.env[k + 1].name,
                               Value(d.container.env[k + 1], SeenBy(d, k + 1), after[k], d.svcEnv)))
             ELSE OwnBody(d, after, k)
<1> DEFINE name(j) == d.container.env[j].name
           value(j) == Value(d.container.env[j], SeenBy(d, j), after[j - 1], d.svcEnv)
           given == UNION {DOMAIN GivenBy(d, i) : i \in References(d)}
           ref(n) == GivenBy(d, Max({i \in References(d) : n \in DOMAIN GivenBy(d, i)}))[n]
           entries(m, n) == {j \in 1..m : name(j) = n /\ Gives(d, j)}
           names(m) == {name(j) : j \in {j \in 1..m : Gives(d, j)}} \cup given
           own(m, n) == IF entries(m, n) # {} THEN value(Max(entries(m, n))) ELSE ref(n)
<1>1. \A m : OwnBody(d, after, m) = [n \in names(m) |-> own(m, n)]
  BY DEF OwnBody
<1>2. 1..(k + 1) = 1..k \cup {k + 1} /\ (k + 1) - 1 = k
  OBVIOUS
<1> HIDE DEF name, value, given, ref
<1>3. CASE ~Gives(d, k + 1)
  <2>1. \A n : entries(k + 1, n) = entries(k, n)
    BY <1>2, <1>3
  <2>2. names(k + 1) = names(k)
    BY <1>2, <1>3
  <2>3. \A n : own(k + 1, n) = own(k, n)
    BY <2>1
  <2> HIDE DEF names, own
  <2>4. OwnBody(d, after, k + 1) = OwnBody(d, after, k)
    BY <1>1, <2>2, <2>3
  <2> QED
    BY <1>3, <2>4
<1>4. CASE Gives(d, k + 1)
  <2> DEFINE e == name(k + 1)
             new == Variable(e, value(k + 1))
             old == OwnBody(d, after, k)
  <2>1. names(k + 1) = names(k) \cup {e}
    BY <1>2, <1>4
  <2>2. own(k + 1, e) = value(k + 1)
    <3>1. /\ entries(k + 1, e) \in SUBSET Nat /\ k + 1 \in entries(k + 1, e) /\ k + 1 \in Nat
          /\ \A i \in entries(k + 1, e) : i <= k + 1
      BY <1>2, <1>4
    <3>2. Max(entries(k + 1, e)) = k + 1
      <4> HIDE DEF entries
      <4> QED
        BY <3>1, LastEntry
    <3> QED
      BY <3>1, <3>2
  <2>3. ASSUME NEW n, n # e PROVE own(k + 1, n) = own(k, n)
    <3>1. entries(k + 1, n) = entries(k, n)
      BY <1>2, <2>3
    <3> QED
      BY <3>1
  <2> HIDE DEF names, own, e
  <2>4. DOMAIN old = names(k) /\ \A n \in names(k) : old[n] = own(k, n)
    BY <1>1
  <2>5. DOMAIN new = {e} /\ new[e] = value(k + 1)
    BY DEF Variable
  <2>6. Put(old, new) = [n \in names(k) \cup {e} |-> IF n \in {e} THEN new[n] ELSE old[n]]
    BY <2>4, <2>5 DEF Put
  <2>7. ASSUME NEW n \in names(k) \cup {e}
        PROVE  (IF n \in {e} THEN new[n] ELSE old[n]) = own(k + 1, n)
    BY <2>2, <2>3, <2>4, <2>5
  <2>8. OwnBody(d, after, k + 1) = Put(old, new)
    BY <1>1, <2>1, <2>6, <2>7
  <2>9. value(k + 1) = Value(d.container.env[k + 1], SeenBy(d, k + 1), after[k], d.svcEnv)
    BY <1>2 DEF value
  <2> QED
    BY <1>4, <2>8, <2>9 DEF e, name
<1> QED
  BY <1>3, <1>4

(* The environments after 0, 1, .. k entries.                                 *)
Chain(d, f, k) == /\ f[0] = RefsAfter(d, Len(d.container.envFrom))
                  /\ \A j \in 0..(k - 1) : f[j + 1] = WithEntry(d, f[j], j + 1)

LEMMA OwnBodyIsEntry ==
    ASSUME NEW d, NEW f, NEW k \in Nat, f[k] = OwnBody(d, f, k)
    PROVE  OwnBody(d, f, k + 1) = WithEntry(d, f[k], k + 1)
  BY OwnBodyNext DEF WithEntry

LEMMA ChainIsOwnBody ==
    ASSUME NEW d, d.container \in ContainerSpecs, NEW f, NEW n \in Nat, Chain(d, f, n)
    PROVE  \A k \in 0..n : f[k] = OwnBody(d, f, k)
<1> DEFINE G == {k \in Nat : k <= n => f[k] = OwnBody(d, f, k)}
<1>1. 0 \in G
  BY OwnBodyNone DEF Chain
<1>2. ASSUME NEW k \in Nat, k \in G PROVE k + 1 \in G
  <2> SUFFICES ASSUME k + 1 <= n PROVE f[k + 1] = OwnBody(d, f, k + 1)
    OBVIOUS
  <2>1. k \in 0..(n - 1) /\ k <= n
    OBVIOUS
  <2>2. f[k] = OwnBody(d, f, k)
    BY <1>2, <2>1
  <2>3. f[k + 1] = WithEntry(d, f[k], k + 1)
    BY <2>1 DEF Chain
  <2> QED
    BY <2>2, <2>3, OwnBodyIsEntry
<1>3. \A k \in Nat : k \in G
  <2> HIDE DEF G
  <2> QED
    BY <1>1, <1>2, InductionOnNat
<1> QED
  BY <1>3

(* There is one chain.                                                        *)
LEMMA OneChain ==
    ASSUME NEW d, NEW f, NEW g, NEW n \in Nat, Chain(d, f, n), Chain(d, g, n)
    PROVE  f[n] = g[n]
<1> DEFINE G == {k \in Nat : k <= n => f[k] = g[k]}
<1>1. 0 \in G
  BY DEF Chain
<1>2. ASSUME NEW k \in Nat, k \in G PROVE k + 1 \in G
  <2> SUFFICES ASSUME k + 1 <= n PROVE f[k + 1] = g[k + 1]
    OBVIOUS
  <2>1. k \in 0..(n - 1) /\ k <= n
    OBVIOUS
  <2> QED
    BY <1>2, <2>1 DEF Chain
<1>3. n \in G
  <2> HIDE DEF G
  <2> QED
    BY <1>1, <1>2, InductionOnNat
<1> QED
  BY <1>3

(* What Own is: the last environment of a chain.                              *)
LEMMA OwnIs ==
    ASSUME NEW d, d.container \in ContainerSpecs, NEW f, Chain(d, f, Len(d.container.env))
    PROVE  Own(d) = f[Len(d.container.env)]
<1> DEFINE N == Len(d.container.env)
           D == {0} \cup Entries(d)
           g == [k \in D |-> f[k]]
           h == CHOOSE after : IsAfter(d, after)
<1>1. N \in Nat /\ D = 0..N
  <2>1. N \in Nat /\ Entries(d) = 1..N
    BY ContainerIs DEF Entries
  <2> QED
    BY <2>1
<1>2. Chain(d, f, N)
  OBVIOUS
<1>3. Own(d) = h[N]
  BY OwnIsAfter
<1> HIDE DEF N
<1>4. Chain(d, g, N)
  <2>1. 0 \in D /\ \A j \in 0..(N - 1) : j \in D /\ j + 1 \in D
    BY <1>1
  <2>2. \A j \in D : g[j] = f[j]
    OBVIOUS
  <2> HIDE DEF g
  <2> QED
    BY <1>2, <2>1, <2>2 DEF Chain
<1>5. IsAfter(d, g)
  <2>1. \A k \in D : g[k] = OwnBody(d, g, k)
    BY <1>1, <1>4, ChainIsOwnBody
  <2>2. g = [k \in D |-> g[k]]
    OBVIOUS
  <2> HIDE DEF g
  <2>3. g = [k \in D |-> OwnBody(d, g, k)]
    BY <2>1, <2>2
  <2> QED
    BY <2>3 DEF IsAfter
<1>6. IsAfter(d, h)
  <2> HIDE DEF g
  <2> QED
    BY <1>5
<1> HIDE DEF h
<1>7. \A k \in D : h[k] = OwnBody(d, h, k)
  BY <1>6 DEF IsAfter
<1>8. Chain(d, h, N)
  <2>1. h[0] = RefsAfter(d, Len(d.container.envFrom))
    BY <1>7, OwnBodyNone
  <2>2. ASSUME NEW j \in 0..(N - 1) PROVE h[j + 1] = WithEntry(d, h[j], j + 1)
    <3>1. j \in D /\ j + 1 \in D /\ j \in Nat
      BY <1>1
    <3>2. h[j] = OwnBody(d, h, j) /\ h[j + 1] = OwnBody(d, h, j + 1)
      BY <1>7, <3>1
    <3> QED
      BY <3>1, <3>2, OwnBodyIsEntry
  <2> QED
    BY <2>1, <2>2 DEF Chain
<1> QED
  BY <1>1, <1>2, <1>3, <1>8, OneChain DEF N

(* One reference more. *)
LEMMA NoReferences == ASSUME NEW d PROVE RefsAfter(d, 0) = << >>
<1> DEFINE g == [i \in 1..0 |-> GivenBy(d, i)]
<1>1. DOMAIN g = {} /\ UNION {DOMAIN g[i] : i \in DOMAIN g} = {}
  OBVIOUS
<1> HIDE DEF g
<1>2. DOMAIN PutAll(g) = {} /\ PutAll(g) = [n \in {} |-> PutAll(g)[n]]
  BY <1>1 DEF PutAll
<1>3. << >> = [n \in {} |-> PutAll(g)[n]]
  OBVIOUS
<1> QED
  BY <1>2, <1>3 DEF RefsAfter, g

LEMMA OneReferenceMore ==
    ASSUME NEW d, NEW m \in Nat
    PROVE  RefsAfter(d, m + 1) = Put(RefsAfter(d, m), GivenBy(d, m + 1))
<1> DEFINE gives(i) == GivenBy(d, i)
           who(k, n) == {i \in 1..k : n \in DOMAIN gives(i)}
           names(k) == UNION {DOMAIN gives(i) : i \in 1..k}
           refs(k, n) == gives(Max(who(k, n)))[n]
<1>1. 1..(m + 1) = 1..m \cup {m + 1}
  OBVIOUS
<1>2. ASSUME NEW k \in Nat PROVE RefsAfter(d, k) = [n \in names(k) |-> refs(k, n)]
  <2> DEFINE g == [i \in 1..k |-> gives(i)]
  <2>1. DOMAIN g = 1..k /\ \A i \in 1..k : g[i] = gives(i)
    OBVIOUS
  <2>2. RefsAfter(d, k) = PutAll(g)
    BY DEF RefsAfter
  <2> HIDE DEF g, gives
  <2>3. \A n : {i \in DOMAIN g : n \in DOMAIN g[i]} = who(k, n)
    BY <2>1
  <2>4. UNION {DOMAIN g[i] : i \in DOMAIN g} = names(k)
    BY <2>1
  <2>5. ASSUME NEW n \in names(k) PROVE g[Max(who(k, n))][n] = refs(k, n)
    <3>1. who(k, n) # {} /\ who(k, n) \in SUBSET (0..k)
      OBVIOUS
    <3>2. Max(who(k, n)) \in who(k, n)
      <4> HIDE DEF who
      <4> QED
        BY <3>1, MaxIs
    <3> QED
      BY <2>1, <3>2
  <2>6. PutAll(g) = [n \in names(k) |-> g[Max(who(k, n))][n]]
    BY <2>3, <2>4 DEF PutAll
  <2> HIDE DEF names, who, refs
  <2>7. PutAll(g) = [n \in names(k) |-> refs(k, n)]
    BY <2>5, <2>6 DEF refs
  <2> QED
    BY <2>2, <2>7
<1> HIDE DEF gives
<1> DEFINE new == gives(m + 1)
<1>3. names(m + 1) = names(m) \cup DOMAIN new
  BY <1>1
<1>4. ASSUME NEW n \in DOMAIN new PROVE refs(m + 1, n) = new[n]
  <2>1. /\ who(m + 1, n) \in SUBSET Nat /\ m + 1 \in who(m + 1, n) /\ m + 1 \in Nat
        /\ \A i \in who(m + 1, n) : i <= m + 1
    BY <1>1
  <2>2. Max(who(m + 1, n)) = m + 1
    <3> HIDE DEF who
    <3> QED
      BY <2>1, LastEntry
  <2> QED
    BY <2>2
<1>5. ASSUME NEW n, n \notin DOMAIN new PROVE refs(m + 1, n) = refs(m, n)
  <2>1. who(m + 1, n) = who(m, n)
    BY <1>1, <1>5
  <2> QED
    BY <2>1
<1> HIDE DEF names, refs, new
<1>6. RefsAfter(d, m) = [n \in names(m) |-> refs(m, n)]
  BY <1>2
<1>7. RefsAfter(d, m + 1) = [n \in names(m) \cup DOMAIN new |-> refs(m + 1, n)]
  BY <1>2, <1>3
<1>8. Put(RefsAfter(d, m), new)
        = [n \in names(m) \cup DOMAIN new |-> IF n \in DOMAIN new THEN new[n] ELSE refs(m, n)]
  <2>1. DOMAIN RefsAfter(d, m) = names(m) /\ \A n \in names(m) : RefsAfter(d, m)[n] = refs(m, n)
    BY <1>6
  <2> QED
    BY <2>1 DEF Put
<1>9. \A n \in names(m) \cup DOMAIN new :
        refs(m + 1, n) = IF n \in DOMAIN new THEN new[n] ELSE refs(m, n)
  BY <1>4, <1>5
<1>10. RefsAfter(d, m + 1) = Put(RefsAfter(d, m), new)
  BY <1>7, <1>8, <1>9
<1> QED
  BY <1>10 DEF new, gives

(* Two works that have looked up the same so far.                             *)
LEMMA SameLookUps ==
    ASSUME NEW d, NEW e, e.container = d.container, e.container \in ContainerSpecs, NEW n \in Nat,
           \A i \in 1..n : e.seen[i] = d.seen[i]
    PROVE  /\ n <= Len(e.container.envFrom) => RefsAfter(e, n) = RefsAfter(d, n)
           /\ \A k \in 0..Len(e.container.env) : \A f :
                 /\ Len(e.container.envFrom) + k <= n
                 /\ e.svcEnv = d.svcEnv
                 /\ Chain(d, f, k)
                 => Chain(e, f, k)
<1> DEFINE m == Len(e.container.envFrom)
<1>1. /\ m \in Nat /\ Len(e.container.env) \in Nat
      /\ DOMAIN e.container.envFrom = 1..m /\ DOMAIN e.container.env = 1..Len(e.container.env)
  BY ContainerIs
<1>2. ASSUME NEW i \in 1..n PROVE GivenBy(e, i) = GivenBy(d, i)
  BY DEF GivenBy
<1>3. ASSUME NEW r \in Nat, r <= n PROVE RefsAfter(e, r) = RefsAfter(d, r)
  <2>1. \A i \in 1..r : GivenBy(e, i) = GivenBy(d, i)
    BY <1>2, <1>3
  <2>2. [i \in 1..r |-> GivenBy(e, i)] = [i \in 1..r |-> GivenBy(d, i)]
    BY <2>1
  <2> QED
    BY <2>2 DEF RefsAfter
<1>4. ASSUME NEW k \in 0..Len(e.container.env), NEW f, m + k <= n, e.svcEnv = d.svcEnv, Chain(d, f, k)
      PROVE  Chain(e, f, k)
  <2>1. f[0] = RefsAfter(e, m)
    <3>1. m <= n
      BY <1>1, <1>4
    <3> QED
      BY <1>1, <1>3, <1>4, <3>1 DEF Chain
  <2>2. ASSUME NEW j \in 0..(k - 1) PROVE f[j + 1] = WithEntry(e, f[j], j + 1)
    <3>1. m + (j + 1) \in 1..n
      <4>1. m \in Nat /\ k \in Nat /\ j \in Nat /\ j + 1 <= k /\ m + k <= n
        BY <1>1, <1>4
      <4> HIDE DEF m
      <4> QED
        BY <4>1
    <3>2. SeenBy(e, j + 1) = SeenBy(d, j + 1)
      BY <3>1 DEF SeenBy
    <3>3. WithEntry(e, f[j], j + 1) = WithEntry(d, f[j], j + 1)
      BY <1>4, <3>2 DEF WithEntry, Gives
    <3> QED
      BY <1>4, <3>3 DEF Chain
  <2> QED
    BY <2>1, <2>2 DEF Chain
<1> QED
  BY <1>3, <1>4

LEMMA PutNothing == ASSUME NEW env \in Envs PROVE Put(env, << >>) = env
<1> DEFINE none == << >>
<1>1. DOMAIN none = {}
  OBVIOUS
<1> HIDE DEF none
<1>2. Put(env, none) = [n \in DOMAIN env |-> env[n]]
  BY <1>1 DEF Put
<1> QED
  BY <1>2, EnvIs DEF none

(* The chain of a work that has looked up its next entry.                     *)
LEMMA LongerChain ==
    ASSUME NEW d, NEW k \in Nat, NEW f, Chain(d, f, k)
    PROVE  \E g : Chain(d, g, k + 1) /\ g[k + 1] = WithEntry(d, f[k], k + 1)
<1> DEFINE g == [i \in 0..(k + 1) |-> IF i = k + 1 THEN WithEntry(d, f[k], k + 1) ELSE f[i]]
<1>1. g[k + 1] = WithEntry(d, f[k], k + 1) /\ \A i \in 0..k : g[i] = f[i]
  OBVIOUS
<1> HIDE DEF g
<1>2. g[0] = f[0]
  BY <1>1
<1>3. ASSUME NEW j \in 0..((k + 1) - 1) PROVE g[j + 1] = WithEntry(d, g[j], j + 1)
  <2>1. g[j] = f[j]
    BY <1>1
  <2>2. CASE j = k
    BY <1>1, <2>1, <2>2
  <2>3. CASE j # k
    <3>1. j \in 0..(k - 1) /\ j + 1 \in 0..k
      BY <2>3
    <3> QED
      BY <1>1, <2>1, <3>1 DEF Chain
  <2> QED
    BY <2>2, <2>3
<1>4. Chain(d, g, k + 1)
  BY <1>2, <1>3 DEF Chain
<1> QED
  BY <1>1, <1>4

-----------------------------------------------------------------------------
(* 5. The invariant. *)

(* How far the container's look-ups are, and which containers are finished.   *)
PodInv ==
    /\ pod \in Pods /\ cache \in Caches /\ idx \in 1..Len(pod)
    /\ phase \in {"envFrom", "env", "returned", "failed"}
    /\ seen \in Seq(Caches) /\ res \in Envs /\ svcEnv \in Envs
    /\ phase = "envFrom" => Len(seen) <= Len(Container.envFrom)
    /\ phase = "env" => /\ Len(Container.envFrom) <= Len(seen)
                        /\ Len(seen) <= Len(Container.envFrom) + Len(Container.env)
    /\ \E S : done \in Seq(S)
    /\ phase \in {"envFrom", "env"} => Len(done) = idx - 1

(* The container that is worked on, and how many of its entries were taken.   *)
Work == [container |-> Container, seen |-> seen, svcEnv |-> svcEnv]
taken == Len(seen) - Len(Container.envFrom)

(* The map made so far is the reference environment so far.                   *)
ProgressInv ==
    /\ phase = "envFrom" => res = RefsAfter(Work, Len(seen))
    /\ phase = "env" => \E f : Chain(Work, f, taken) /\ res = f[taken]

IInv == PodInv /\ ProgressInv /\ EnvironmentIsReference

LEMMA PodContainer ==
    ASSUME PodInv
    PROVE  /\ Container \in ContainerSpecs
           /\ Len(Container.envFrom) \in Nat /\ Len(Container.env) \in Nat /\ Len(seen) \in Nat
           /\ idx \in Nat /\ Len(pod) \in Nat
<1>1. pod \in Pods /\ idx \in 1..Len(pod) /\ seen \in Seq(Caches)
  BY DEF PodInv
<1>2. pod[idx] \in ContainerSpecs /\ Len(pod) \in Nat
  BY <1>1, PodIs
<1> QED
  BY <1>1, <1>2, ContainerIs, LenProperties DEF Container

LEMMA InitInv == Init => IInv
<1> SUFFICES ASSUME Init PROVE IInv
  OBVIOUS
<1>1. pod \in Pods /\ cache \in Caches /\ phase = "envFrom" /\ idx = 1
  BY DEF Init
<1>2. seen = <<>> /\ res = << >> /\ svcEnv = << >> /\ done = <<>>
  BY DEF Init
<1>3. Len(seen) = 0 /\ seen \in Seq(Caches) /\ Len(done) = 0 /\ done \in Seq(Caches) /\ DOMAIN done = {}
  BY <1>2, EmptySeq
<1>4. idx \in 1..Len(pod) /\ Container \in ContainerSpecs
  BY <1>1, PodIs DEF Container
<1>5. PodInv
  BY <1>1, <1>2, <1>3, <1>4, NoVariables, ContainerIs DEF PodInv
<1>6. ProgressInv
  BY <1>1, <1>2, <1>3, NoReferences DEF ProgressInv
<1>7. EnvironmentIsReference
  BY <1>3 DEF EnvironmentIsReference
<1> QED
  BY <1>5, <1>6, <1>7 DEF IInv

LEMMA ChangeInv == IInv /\ Change => IInv'
<1> SUFFICES ASSUME IInv, Change PROVE IInv'
  OBVIOUS
<1>1. cache' \in Caches /\ UNCHANGED <<pod, links, phase, idx, seen, res, svcEnv, done>>
  BY DEF Change
<1>2. PodInv'
  BY <1>1 DEF IInv, PodInv, Container
<1>3. ProgressInv'
  BY <1>1 DEF IInv, ProgressInv, Work, taken, Container
<1>4. EnvironmentIsReference'
  BY <1>1 DEF IInv, EnvironmentIsReference
<1> QED
  BY <1>2, <1>3, <1>4 DEF IInv

(* One look-up more. *)
LEMMA SeenMore ==
    ASSUME PodInv, seen' = Append(seen, cache)
    PROVE  /\ seen' \in Seq(Caches) /\ Len(seen') = Len(seen) + 1
           /\ \A i \in 1..Len(seen) : seen'[i] = seen[i]
           /\ seen'[Len(seen) + 1] = cache
  BY AppendProperties DEF PodInv

LEMMA EnvFromInv == IInv /\ EnvFrom => IInv'
<1> SUFFICES ASSUME IInv, EnvFrom PROVE IInv'
  OBVIOUS
<1> DEFINE n == Len(seen)
           ref == Container.envFrom[n + 1]
           given == Given(cache[ref.object], ref.prefix)
<1>1. /\ phase = "envFrom" /\ n < Len(Container.envFrom)
      /\ seen' = Append(seen, cache)
      /\ UNCHANGED <<pod, links, cache, changes>>
  BY DEF EnvFrom
<1>2. \/ ref.object \in DOMAIN cache /\ res' = Put(res, given) /\ UNCHANGED <<phase, idx, svcEnv, done>>
      \/ ref.object \notin DOMAIN cache /\ UNCHANGED <<phase, idx, res, svcEnv, done>>
      \/ ref.object \notin DOMAIN cache /\ Fail
  <2>1. CASE ref.object \in DOMAIN cache
    BY <2>1 DEF EnvFrom
  <2>2. CASE ref.object \notin DOMAIN cache /\ ref.optional
    BY <2>2 DEF EnvFrom
  <2>3. CASE ref.object \notin DOMAIN cache /\ ~ref.optional
    BY <2>3 DEF EnvFrom
  <2> QED
    BY <2>1, <2>2, <2>3
<1>3. /\ Container \in ContainerSpecs /\ Container' = Container
      /\ Len(Container.envFrom) \in Nat /\ n \in Nat
      /\ UNCHANGED <<pod, cache, idx, svcEnv, done>>
  BY <1>1, <1>2, PodContainer DEF IInv, Container, Fail
<1>4. /\ seen' \in Seq(Caches) /\ Len(seen') = n + 1
      /\ \A i \in 1..n : seen'[i] = seen[i]
      /\ seen'[n + 1] = cache
  BY <1>1, SeenMore DEF IInv
<1>5. given \in Envs \/ ref.object \notin DOMAIN cache
  <2> SUFFICES ASSUME ref.object \in DOMAIN cache PROVE given \in Envs
    OBVIOUS
  <2>1. n + 1 \in 1..Len(Container.envFrom)
    BY <1>1, <1>3
  <2>2. ref.prefix \in Text
    BY <1>3, <2>1, ContainerIs
  <2>3. cache \in Caches
    BY DEF IInv, PodInv
  <2>4. \A k \in DOMAIN cache[ref.object] : k \in Text /\ cache[ref.object][k] \in Text
    BY <2>3, CacheIs
  <2> HIDE DEF ref
  <2> QED
    BY <2>2, <2>4, GivenType
<1>6. phase' \in {"envFrom", "failed"}
  BY <1>1, <1>2 DEF Fail
<1>7. res' \in Envs /\ (phase' = "envFrom" => res' = Put(res, GivenBy(Work', n + 1)))
  <2>1. GivenBy(Work', n + 1) = IF ref.object \in DOMAIN cache THEN given ELSE << >>
    BY <1>3, <1>4 DEF GivenBy, Work
  <2>2. res \in Envs
    BY DEF IInv, PodInv
  <2> HIDE DEF ref, given
  <2>3. CASE ref.object \in DOMAIN cache /\ res' = Put(res, given)
    BY <1>5, <2>1, <2>2, <2>3, PutType
  <2>4. CASE ref.object \notin DOMAIN cache /\ res' = res
    BY <2>1, <2>2, <2>4, PutNothing
  <2> QED
    BY <1>2, <2>3, <2>4 DEF Fail
<1>8. PodInv'
  <2>1. Len(seen') <= Len(Container'.envFrom)
    BY <1>1, <1>3, <1>4
  <2>2. svcEnv \in Envs /\ pod \in Pods /\ cache \in Caches /\ idx \in 1..Len(pod)
    BY DEF IInv, PodInv
  <2>3. (\E S : done \in Seq(S)) /\ Len(done) = idx - 1
    BY <1>1 DEF IInv, PodInv
  <2> QED
    BY <1>3, <1>4, <1>6, <1>7, <2>1, <2>2, <2>3 DEF PodInv
<1>9. ProgressInv'
  <2>1. res = RefsAfter(Work, n)
    BY <1>1 DEF IInv, ProgressInv
  <2>2. RefsAfter(Work', n) = RefsAfter(Work, n)
    <3> DEFINE d == Work
               e == Work'
    <3>1. /\ e.container = d.container /\ e.container = Container
          /\ \A i \in 1..n : e.seen[i] = d.seen[i]
      BY <1>3, <1>4 DEF Work
    <3> HIDE DEF d, e
    <3>2. e.container \in ContainerSpecs /\ n \in Nat /\ n <= Len(e.container.envFrom)
      BY <1>1, <1>3, <3>1
    <3>3. RefsAfter(e, n) = RefsAfter(d, n)
      <4> HIDE DEF n
      <4> QED
        BY <3>1, <3>2, SameLookUps
    <3> QED
      BY <3>3 DEF d, e
  <2>3. RefsAfter(Work', n + 1) = Put(RefsAfter(Work', n), GivenBy(Work', n + 1))
    <3> DEFINE e == Work'
    <3> HIDE DEF e
    <3>1. RefsAfter(e, n + 1) = Put(RefsAfter(e, n), GivenBy(e, n + 1))
      BY <1>3, OneReferenceMore
    <3> QED
      BY <3>1 DEF e
  <2>4. phase' = "envFrom" => res' = RefsAfter(Work', Len(seen'))
    BY <1>4, <1>7, <2>1, <2>2, <2>3
  <2> QED
    BY <1>6, <2>4 DEF ProgressInv
<1>10. EnvironmentIsReference'
  BY <1>3 DEF IInv, EnvironmentIsReference
<1> QED
  BY <1>8, <1>9, <1>10 DEF IInv

LEMMA getServiceEnvVarMapInv == IInv /\ getServiceEnvVarMap => IInv'
<1> SUFFICES ASSUME IInv, getServiceEnvVarMap PROVE IInv'
  OBVIOUS
<1> DEFINE d == Work
           e == Work'
           m == Len(Container.envFrom)
<1>1. /\ phase = "envFrom" /\ Len(seen) = m /\ svcEnv' \in ServiceEnvs /\ phase' = "env"
      /\ UNCHANGED <<pod, links, cache, changes, idx, seen, res, done>>
  BY DEF getServiceEnvVarMap
<1>2. /\ Container \in ContainerSpecs /\ Container' = Container /\ m \in Nat
      /\ Len(Container.env) \in Nat
  BY <1>1, PodContainer DEF IInv, Container
<1>3. PodInv'
  <2>1. svcEnv' \in Envs
    BY <1>1, ServiceEnvsType
  <2>2. Len(Container.envFrom) <= Len(seen) /\ Len(seen) <= Len(Container.envFrom) + Len(Container.env)
    <3> DEFINE x == Len(Container.envFrom)
               y == Len(Container.env)
               z == Len(seen)
    <3>1. x \in Nat /\ y \in Nat /\ z = x
      BY <1>1, <1>2
    <3> HIDE DEF x, y, z
    <3>2. x <= z /\ z <= x + y
      BY <3>1
    <3> QED
      BY <3>2 DEF x, y, z
  <2> HIDE DEF m
  <2> QED
    BY <1>1, <1>2, <2>1, <2>2 DEF IInv, PodInv
<1>4. ProgressInv'
  <2>1. /\ e.container = d.container /\ e.container = Container
        /\ \A i \in 1..m : e.seen[i] = d.seen[i]
    BY <1>1, <1>2 DEF Work
  <2>2. res = RefsAfter(d, m)
    BY <1>1 DEF IInv, ProgressInv
  <2> HIDE DEF d, e
  <2>3. RefsAfter(e, m) = RefsAfter(d, m)
    <3>1. e.container \in ContainerSpecs /\ m <= Len(e.container.envFrom)
      BY <1>2, <2>1
    <3> HIDE DEF m
    <3> QED
      BY <1>2, <2>1, <3>1, SameLookUps
  <2> DEFINE f == [i \in {0} |-> res]
  <2>4. Chain(e, f, 0) /\ f[0] = res
    <3>1. f[0] = RefsAfter(e, Len(e.container.envFrom))
      BY <2>1, <2>2, <2>3
    <3>2. \A j : j \notin 0..(0 - 1)
      OBVIOUS
    <3> QED
      BY <3>1, <3>2 DEF Chain
  <2>5. taken' = 0
    BY <1>1, <1>2 DEF taken
  <2> HIDE DEF f
  <2>6. \E g : Chain(e, g, taken') /\ res' = g[taken']
    BY <1>1, <2>4, <2>5
  <2> QED
    BY <1>1, <2>6 DEF ProgressInv, e
<1>5. EnvironmentIsReference'
  BY <1>1 DEF IInv, EnvironmentIsReference
<1> QED
  BY <1>3, <1>4, <1>5 DEF IInv

LEMMA EnvInv == IInv /\ Env => IInv'
<1> SUFFICES ASSUME IInv, Env PROVE IInv'
  OBVIOUS
<1> DEFINE m == Len(Container.envFrom)
           k == Len(seen) - m
           entry == Container.env[k + 1]
           value == Value(entry, cache, res, svcEnv)
           d == Work
           e == Work'
<1>1. /\ phase = "env" /\ k < Len(Container.env)
      /\ seen' = Append(seen, cache)
      /\ UNCHANGED <<pod, links, cache, changes>>
  BY DEF Env
<1>2. \/ Missing(entry, cache) /\ Fail
      \/ /\ ~Missing(entry, cache)
         /\ res' = IF value = None THEN res ELSE Put(res, Variable(entry.name, value))
         /\ UNCHANGED <<phase, idx, svcEnv, done>>
  BY DEF Env
<1>3. /\ Container \in ContainerSpecs /\ Container' = Container
      /\ m \in Nat /\ Len(Container.env) \in Nat /\ Len(seen) \in Nat
      /\ UNCHANGED <<pod, cache, idx, svcEnv, done>>
  BY <1>1, <1>2, PodContainer DEF IInv, Container, Fail
<1>4. k \in Nat /\ k + 1 \in 1..Len(Container.env) /\ m + k = Len(seen) /\ Len(seen) + 1 = m + (k + 1)
  <2> DEFINE l == Len(seen)
             y == Len(Container.env)
  <2>1. m <= l /\ m \in Nat /\ l \in Nat /\ y \in Nat /\ l - m < y /\ k = l - m
    BY <1>1, <1>3 DEF IInv, PodInv
  <2> HIDE DEF k, m, l, y
  <2>2. k \in Nat /\ k + 1 \in 1..y /\ m + k = l /\ l + 1 = m + (k + 1)
    BY <2>1
  <2> QED
    BY <2>2 DEF l, y
<1>5. /\ seen' \in Seq(Caches) /\ Len(seen') = Len(seen) + 1
      /\ \A i \in 1..Len(seen) : seen'[i] = seen[i]
      /\ seen'[Len(seen) + 1] = cache
  BY <1>1, SeenMore DEF IInv
<1>6. phase' \in {"env", "failed"}
  BY <1>1, <1>2 DEF Fail
<1>7. /\ entry.name \in Name /\ entry.value \in Text
      /\ cache \in Caches /\ res \in Envs /\ svcEnv \in Envs
  <2>1. entry.name \in Name /\ entry.value \in Text
    BY <1>3, <1>4, ContainerIs
  <2> QED
    BY <2>1 DEF IInv, PodInv
<1>8. taken = k /\ taken' = k + 1
  <2>1. taken = k
    BY DEF taken
  <2> DEFINE l == Len(seen)
  <2>2. taken' = (l + 1) - m /\ l \in Nat /\ m \in Nat /\ k \in Nat /\ m + k = l
    BY <1>3, <1>4, <1>5 DEF taken
  <2> HIDE DEF k, m, l
  <2>3. (l + 1) - m = k + 1
    BY <2>2
  <2> QED
    BY <2>1, <2>2, <2>3
<1>9. /\ d.container = Container /\ e.container = Container
      /\ d.seen = seen /\ e.seen = seen'
      /\ d.svcEnv = svcEnv /\ e.svcEnv = svcEnv
  BY <1>3 DEF Work
<1> HIDE DEF m, k, d, e
<1>10. SeenBy(e, k + 1) = cache
  BY <1>4, <1>5, <1>9 DEF SeenBy, m
<1>11. Gives(e, k + 1) <=> GivesValue(entry, cache)
  BY <1>9, <1>10 DEF Gives, GivesValue
<1>12. ~Missing(entry, cache) => res' = WithEntry(e, res, k + 1) /\ res' \in Envs
  <2> SUFFICES ASSUME ~Missing(entry, cache) PROVE res' = WithEntry(e, res, k + 1) /\ res' \in Envs
    OBVIOUS
  <2>1. IF GivesValue(entry, cache) THEN value \in Text ELSE value = None
    BY <1>7, ValueIs
  <2>2. res' = IF value = None THEN res ELSE Put(res, Variable(entry.name, value))
    BY <1>2
  <2>3. WithEntry(e, res, k + 1)
          = IF GivesValue(entry, cache) THEN Put(res, Variable(entry.name, value)) ELSE res
    BY <1>9, <1>10, <1>11 DEF WithEntry
  <2>4. None \notin Text
    BY Zenon, TextAssumption
  <2> HIDE DEF entry, value
  <2>5. CASE GivesValue(entry, cache)
    BY <1>7, <2>1, <2>2, <2>3, <2>4, <2>5, VariableType, PutType
  <2>6. CASE ~GivesValue(entry, cache)
    BY <1>7, <2>1, <2>2, <2>3, <2>6
  <2> QED
    BY <2>5, <2>6
<1> HIDE DEF entry, value
<1>13. PodInv'
  <2>1. res' \in Envs
    BY <1>2, <1>7, <1>12 DEF Fail
  <2>2. Len(Container'.envFrom) <= Len(seen') /\ Len(seen') <= Len(Container'.envFrom) + Len(Container'.env)
    <3> DEFINE x == Len(Container.envFrom)
               y == Len(Container.env)
               z == Len(seen')
    <3>1. x \in Nat /\ y \in Nat /\ k \in Nat /\ k + 1 \in 1..y /\ z = x + (k + 1)
      BY <1>3, <1>4, <1>5 DEF m
    <3> HIDE DEF x, y, z
    <3>2. x <= z /\ z <= x + y
      BY <3>1
    <3> QED
      BY <1>3, <3>2 DEF x, y, z
  <2>3. pod \in Pods /\ idx \in 1..Len(pod) /\ (\E S : done \in Seq(S)) /\ Len(done) = idx - 1
    BY <1>1 DEF IInv, PodInv
  <2> QED
    BY <1>3, <1>5, <1>6, <1>7, <2>1, <2>2, <2>3 DEF PodInv
<1>14. ProgressInv'
  <2> SUFFICES ASSUME phase' = "env" PROVE \E f : Chain(e, f, k + 1) /\ res' = f[k + 1]
    BY <1>6, <1>8 DEF ProgressInv, e
  <2>1. ~Missing(entry, cache)
    BY <1>2 DEF Fail
  <2>2. PICK f : Chain(d, f, k) /\ res = f[k]
    BY <1>1, <1>8 DEF IInv, ProgressInv, d
  <2>3. Chain(e, f, k)
    <3>1. \A i \in 1..Len(seen) : e.seen[i] = d.seen[i]
      BY <1>5, <1>9
    <3>2. e.container = d.container /\ e.container \in ContainerSpecs /\ e.svcEnv = d.svcEnv
      BY <1>3, <1>9
    <3>3. k \in 0..Len(e.container.env) /\ Len(e.container.envFrom) + k <= Len(seen)
      BY <1>3, <1>4, <1>9 DEF m
    <3> QED
      BY <1>3, <2>2, <3>1, <3>2, <3>3, SameLookUps
  <2>4. PICK g : Chain(e, g, k + 1) /\ g[k + 1] = WithEntry(e, f[k], k + 1)
    BY <1>4, <2>3, LongerChain
  <2> QED
    BY <1>12, <2>1, <2>2, <2>4
<1>15. EnvironmentIsReference'
  BY <1>3 DEF IInv, EnvironmentIsReference
<1> QED
  BY <1>13, <1>14, <1>15 DEF IInv

(* A finished container has its reference environment, and the next starts    *)
(* with nothing.                                                              *)
LEMMA FinishInv == IInv /\ Finish => IInv'
<1> SUFFICES ASSUME IInv, Finish PROVE IInv'
  OBVIOUS
<1> DEFINE d == [container |-> Container, seen |-> seen, svcEnv |-> svcEnv, env |-> Put(svcEnv, res)]
           N == Len(Container.env)
<1>1. /\ phase = "env" /\ Len(seen) = Len(Container.envFrom) + N
      /\ done' = Append(done, d)
      /\ phase' = (IF idx = Len(pod) THEN "returned" ELSE "envFrom")
      /\ idx' = (IF idx = Len(pod) THEN idx ELSE idx + 1)
      /\ seen' = <<>> /\ res' = << >> /\ svcEnv' = << >>
      /\ UNCHANGED <<pod, links, cache, changes>>
  BY DEF Finish, Finished, NextContainer
<1>2. /\ Container \in ContainerSpecs /\ N \in Nat /\ Len(Container.envFrom) \in Nat
      /\ Len(seen) \in Nat /\ idx \in 1..Len(pod) /\ Len(pod) \in Nat
      /\ res \in Envs /\ svcEnv \in Envs /\ Len(done) = idx - 1
  BY <1>1, PodContainer DEF IInv, PodInv
<1>3. PICK S : done \in Seq(S)
  BY DEF IInv, PodInv
<1> HIDE DEF d
<1>4. /\ done' \in Seq(S \cup {d}) /\ Len(done') = idx /\ DOMAIN done' = 1..idx
      /\ DOMAIN done = 1..(idx - 1)
      /\ \A i \in 1..(idx - 1) : done'[i] = done[i]
      /\ done'[idx] = d
  <2>1. done \in Seq(S \cup {d}) /\ d \in S \cup {d}
    <3>1. Seq(S) \subseteq Seq(S \cup {d})
      BY SeqMonotonic
    <3> QED
      BY <1>3, <3>1
  <2>2. /\ Append(done, d) \in Seq(S \cup {d}) /\ Len(Append(done, d)) = Len(done) + 1
        /\ \A i \in 1..Len(done) : Append(done, d)[i] = done[i]
        /\ Append(done, d)[Len(done) + 1] = d
    BY <2>1, AppendProperties
  <2>3. DOMAIN done = 1..Len(done) /\ DOMAIN Append(done, d) = 1..Len(Append(done, d))
    BY <2>1, <2>2, LenProperties
  <2>4. (idx - 1) + 1 = idx
    BY <1>2
  <2> QED
    BY <1>1, <1>2, <2>2, <2>3, <2>4
<1>5. PodInv'
  <2>1. seen' \in Seq(Caches) /\ Len(seen') = 0
    BY <1>1, EmptySeq
  <2>2. idx' \in 1..Len(pod') /\ (phase' = "envFrom" => Len(done') = idx' - 1)
    BY <1>1, <1>2, <1>4
  <2>3. Container' \in ContainerSpecs
    <3>1. pod' \in Pods
      BY <1>1 DEF IInv, PodInv
    <3> QED
      BY <2>2, <3>1, PodIs DEF Container
  <2>4. Len(seen') <= Len(Container'.envFrom)
    BY <2>1, <2>3, ContainerIs
  <2>5. /\ pod' \in Pods /\ cache' \in Caches /\ phase' \in {"envFrom", "returned"}
        /\ res' \in Envs /\ svcEnv' \in Envs
    BY <1>1, NoVariables DEF IInv, PodInv
  <2>6. \E T : done' \in Seq(T)
    BY <1>4
  <2> QED
    BY <2>1, <2>2, <2>4, <2>5, <2>6 DEF PodInv
<1>6. ProgressInv'
  <2>1. Len(seen') = 0 /\ phase' # "env"
    BY <1>1, EmptySeq
  <2>2. RefsAfter(Work', 0) = << >>
    BY NoReferences
  <2> QED
    BY <1>1, <2>1, <2>2 DEF ProgressInv
<1>7. Own(d) = res
  <2> DEFINE w == Work
  <2>1. taken = N
    BY <1>1, <1>2 DEF taken
  <2>2. PICK f : Chain(w, f, N) /\ res = f[N]
    BY <1>1, <2>1 DEF IInv, ProgressInv
  <2>3. /\ d.container = w.container /\ d.container = Container
        /\ d.svcEnv = w.svcEnv /\ \A i \in 1..Len(seen) : d.seen[i] = w.seen[i]
    BY DEF d, Work
  <2> HIDE DEF w
  <2>4. Chain(d, f, N)
    <3>1. N \in 0..Len(d.container.env) /\ Len(d.container.envFrom) + N <= Len(seen)
      BY <1>1, <1>2, <2>3
    <3>2. d.container \in ContainerSpecs
      BY <1>2, <2>3
    <3> HIDE DEF N
    <3> QED
      BY <1>2, <2>2, <2>3, <3>1, <3>2, SameLookUps
  <2>5. Own(d) = f[Len(d.container.env)]
    BY <1>2, <2>3, <2>4, OwnIs
  <2> QED
    BY <2>2, <2>3, <2>5
<1>8. EnvironmentIsReference'
  <2>1. ASSUME NEW i \in 1..(idx - 1)
        PROVE  LET x == done'[i]
                   own == Own(x)
               IN  /\ x.container = pod[i]
                   /\ DOMAIN x.env = DOMAIN own \cup DOMAIN x.svcEnv
                   /\ \A n \in DOMAIN x.env :
                        x.env[n] = IF n \in DOMAIN own THEN own[n] ELSE x.svcEnv[n]
    BY <1>4 DEF IInv, EnvironmentIsReference
  <2>2. d.container = pod[idx] /\ d.env = Put(svcEnv, res) /\ d.svcEnv = svcEnv
    BY DEF d, Container
  <2>3. /\ DOMAIN d.env = DOMAIN res \cup DOMAIN d.svcEnv
        /\ \A n \in DOMAIN d.env : d.env[n] = IF n \in DOMAIN res THEN res[n] ELSE d.svcEnv[n]
    BY <2>2 DEF Put
  <2>4. \A i \in 1..idx : i \in 1..(idx - 1) \/ i = idx
    BY <1>2
  <2>5. ASSUME NEW i \in DOMAIN done'
        PROVE  LET x == done'[i]
                   own == Own(x)
               IN  /\ x.container = pod'[i]
                   /\ DOMAIN x.env = DOMAIN own \cup DOMAIN x.svcEnv
                   /\ \A n \in DOMAIN x.env :
                        x.env[n] = IF n \in DOMAIN own THEN own[n] ELSE x.svcEnv[n]
    <3>1. CASE i \in 1..(idx - 1)
      BY <1>1, <2>1, <3>1
    <3>2. CASE i = idx
      BY <1>1, <1>4, <1>7, <2>2, <2>3, <3>2
    <3> QED
      BY <1>4, <2>4, <3>1, <3>2
  <2> QED
    BY <2>5 DEF EnvironmentIsReference
<1> QED
  BY <1>5, <1>6, <1>8 DEF IInv

THEOREM Inductive == Spec => []IInv
<1>1. IInv /\ UNCHANGED vars => IInv'
  <2> SUFFICES ASSUME IInv, UNCHANGED vars PROVE IInv'
    OBVIOUS
  <2>1. UNCHANGED <<pod, links, cache, changes, phase, idx, seen, res, svcEnv, done>>
    BY DEF vars
  <2>2. PodInv'
    BY <2>1 DEF IInv, PodInv, Container
  <2>3. ProgressInv'
    BY <2>1 DEF IInv, ProgressInv, Work, taken, Container
  <2>4. EnvironmentIsReference'
    BY <2>1 DEF IInv, EnvironmentIsReference
  <2> QED
    BY <2>2, <2>3, <2>4 DEF IInv
<1>2. IInv /\ [Next]_vars => IInv'
  BY <1>1, ChangeInv, EnvFromInv, getServiceEnvVarMapInv, EnvInv, FinishInv DEF Next
<1> QED
  BY <1>2, InitInv, PTL DEF Spec

(* PopulateEnvironmentVariables: every finished container has the reference   *)
(* environment, made of its own variables and, below them, the services'.     *)
THEOREM EveryEnvironment == Spec => []EnvironmentIsReference
<1>1. IInv => EnvironmentIsReference
  BY DEF IInv
<1> QED
  BY <1>1, Inductive, PTL

(* Expand: what is escaped stays, and a reference is replaced.                *)
THEOREM EveryReference == Spec => []ReferencesAreReplaced
<1>1. IInv => ReferencesAreReplaced
  <2> SUFFICES ASSUME PodInv, phase = "env",
                      NEW before \in {e.value : e \in Range(Container.env)},
                      NEW after \in {e.value : e \in Range(Container.env)},
                      NEW n \in DOMAIN res \cup DOMAIN svcEnv
                             \cup {t \in {e.value : e \in Range(Container.env)} :
                                     referenceCloser \notin Range(t)}
               PROVE  Expand(Escape(before) \o syntaxWrap(n) \o Escape(after), res, svcEnv)
                        = before \o Mapping(res, svcEnv, n) \o after
    BY DEF IInv, ReferencesAreReplaced
  <2>1. \A t \in {e.value : e \in Range(Container.env)} : t \in Text
    <3>1. Container \in ContainerSpecs
      BY PodContainer
    <3>2. /\ DOMAIN Container.env = 1..Len(Container.env)
          /\ \A j \in 1..Len(Container.env) : Container.env[j].value \in Text
      BY <3>1, ContainerIs
    <3> QED
      BY <3>2 DEF Range
  <2>2. res \in Envs /\ svcEnv \in Envs
    BY DEF PodInv
  <2>3. IsEnv(res) /\ IsEnv(svcEnv)
    BY <2>2, EnvIs
  <2>4. n \in Name
    BY <2>1, <2>2, EnvIs DEF Name
  <2>5. before \in Text /\ after \in Text
    BY <2>1
  <2> QED
    BY <2>3, <2>4, <2>5, ReferenceReplaced, SMTT(30)
<1> QED
  BY <1>1, Inductive, PTL
=============================================================================
