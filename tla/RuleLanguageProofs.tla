------------------------- MODULE RuleLanguageProofs -------------------------
(***************************************************************************)
(* What the lexer, the parser, the builder of the guided form and the      *)
(* renderer return, for every text and every rule, what the lexer makes of *)
(* a rendering, and how deep and how long the parser reads texts that nest *)
(* one another.  But for ParsingEnds, lemmas for the dialog's proofs.      *)
(*                                                                         *)
(* Each loop of the code is a recursive function of a place in a sequence. *)
(* That such a function exists, and what it returns, goes by induction     *)
(* from the end of the sequence (Recursion).  A loop is then four lemmas:  *)
(* its body as an operator of the function it calls (..Step), that the     *)
(* body looks only ahead and returns what is claimed if what lies ahead    *)
(* does (..StepIs), that the function is the body's fixed point (..FromIs), *)
(* and what the operator of the model returns (..Typed, ..Is).             *)
(*                                                                         *)
(* A rendering is pieces with blanks between them.  Of a piece the lexer   *)
(* makes tokens and goes on behind it (Reads..); those of a rule are its   *)
(* ..Spec, which LexesRule proves to be all that the lexer returns.        *)
(***************************************************************************)
EXTENDS RuleLanguage, SequenceTheorems, FiniteSetTheorems, TLAPS

-----------------------------------------------------------------------------
(* Induction and recursion over places in a sequence.                      *)

\* Induction over the natural numbers, for a set: a number missing from S
\* would give a smallest initial segment whose end is missing, and initial
\* segments are finite sets, well-founded under strict inclusion.
LEMMA NatSetInduction ==
    ASSUME NEW S, 0 \in S, \A n \in Nat : n \in S => n + 1 \in S
    PROVE  Nat \subseteq S
<1>. SUFFICES ASSUME NEW m \in Nat, m \notin S PROVE FALSE
  OBVIOUS
<1>. DEFINE below(k) == 0..k
            Bad == {below(k) : k \in {j \in Nat : j \notin S}}
<1>1. Bad \subseteq FiniteSubsetsOf(Nat)
  <2>1. ASSUME NEW k \in Nat PROVE IsFiniteSet(below(k)) /\ below(k) \subseteq Nat
    BY FS_Interval
  <2>. QED
    BY <2>1 DEF FiniteSubsetsOf
<1>2. Bad # {}
  OBVIOUS
<1>3. PICK B \in Bad : \A C \in Bad : ~ (<<C, B>> \in StrictSubsetOrdering(Nat))
  <2>. HIDE DEF Bad
  <2>. QED
    BY <1>1, <1>2, FS_StrictSubsetOrderingWellFounded, WFMin
<1>4. PICK k \in Nat : k \notin S /\ B = below(k)
  OBVIOUS
<1>5. k # 0 /\ k - 1 \in Nat /\ k - 1 \notin S
  <2>1. k # 0
    BY <1>4
  <2>2. k - 1 \in Nat /\ (k - 1) + 1 = k
    BY <2>1
  <2>. QED
    BY <1>4, <2>1, <2>2
<1>6. below(k - 1) \in Bad
  BY <1>5
<1>7. below(k - 1) \subseteq Nat /\ below(k) \subseteq Nat
  OBVIOUS
<1>8. below(k - 1) \subseteq below(k) /\ below(k - 1) # below(k)
  <2>1. k \in below(k) /\ k \notin below(k - 1)
    BY <1>5
  <2>. QED
    BY <2>1, <1>5
<1>9. <<below(k - 1), below(k)>> \in StrictSubsetOrdering(Nat)
  <2>. HIDE DEF below
  <2>. QED
    BY <1>7, <1>8 DEF StrictSubsetOrdering
<1>. QED
  BY <1>3, <1>4, <1>6, <1>9

\* Induction on a measure that ends at n.
LEMMA UpTo ==
    ASSUME NEW n \in Nat, NEW S, 0 \in S, \A k \in Nat : k < n /\ k \in S => k + 1 \in S
    PROVE  n \in S
<1>. DEFINE T == {k \in Nat : k <= n => k \in S}
<1>1. 0 \in T
  OBVIOUS
<1>2. \A k \in Nat : k \in T => k + 1 \in T
  OBVIOUS
<1>. HIDE DEF T
<1>3. n \in T
  BY <1>1, <1>2, NatSetInduction
<1>. QED
  BY <1>3 DEF T

\* Induction from the end: what holds behind the end N, and of a place if it
\* holds of all later ones, holds of all places.
LEMMA FromTheEnd ==
    ASSUME NEW D \in SUBSET Nat, NEW N \in Nat, NEW S,
           \A p \in D : (\A q \in D : q > p /\ p <= N => q \in S) => p \in S
    PROVE  \A p \in D : p \in S
<1>. DEFINE T == {k \in Nat : \A p \in D : p + k > N => p \in S}
<1>1. 0 \in T
  OBVIOUS
<1>2. ASSUME NEW k \in Nat, k \in T PROVE k + 1 \in T
  <2>. SUFFICES ASSUME NEW p \in D, p + (k + 1) > N PROVE p \in S
    OBVIOUS
  <2>1. ASSUME NEW q \in D, q > p PROVE q \in S
    <3>1. q \in Nat /\ p \in Nat /\ q + k > N
      BY <2>1
    <3>. QED
      BY <1>2, <3>1
  <2>. QED
    BY <2>1
<1>. HIDE DEF T
<1>3. N + 1 \in T
  BY <1>1, <1>2, NatSetInduction
<1>4. ASSUME NEW p \in D PROVE p \in S
  <2>1. p \in Nat /\ p + (N + 1) > N
    OBVIOUS
  <2>. QED
    BY <1>3, <2>1 DEF T
<1>. QED
  BY <1>4

\* Functions are what they map to.
LEMMA SameFunction ==
    ASSUME NEW D, NEW V, NEW f \in [D -> V], NEW g \in [D -> V], \A d \in D : f[d] = g[d]
    PROVE  f = g
OBVIOUS

\* f and g agree behind p, where that matters.
SameAfter(D, N, p, f, g) == \A q \in D : q > p /\ p <= N => f[q] = g[q]

\* G maps the functions of T to such functions, and what it makes of one at a
\* place depends on later places alone.
LooksAheadIn(D, V, T, N, G) ==
    /\ D \in SUBSET Nat /\ N \in Nat /\ T \in SUBSET [D -> V] /\ T # {} /\ G \in [T -> T]
    /\ \A f, g \in T, p \in D : SameAfter(D, N, p, f, g) => G[f][p] = G[g][p]

\* The same for all functions.
LooksAhead(D, V, N, G) ==
    /\ D \in SUBSET Nat /\ V # {} /\ N \in Nat /\ G \in [[D -> V] -> [D -> V]]
    /\ \A f, g \in [D -> V], p \in D : SameAfter(D, N, p, f, g) => G[f][p] = G[g][p]

\* f and g are equal at a place if they are behind it.
AlikeAhead(D, N, f, g) ==
    /\ D \in SUBSET Nat /\ N \in Nat
    /\ \A p \in D : SameAfter(D, N, p, f, g) => f[p] = g[p]

\* A definition by recursion towards the end has a solution.
LEMMA RecursionIn ==
    ASSUME NEW D, NEW V, NEW T, NEW N, NEW G, LooksAheadIn(D, V, T, N, G)
    PROVE  \E f \in T : f = G[f]
<1>0. /\ D \in SUBSET Nat /\ N \in Nat /\ T \in SUBSET [D -> V] /\ T # {} /\ G \in [T -> T]
      /\ \A f, g \in T, p \in D : SameAfter(D, N, p, f, g) => G[f][p] = G[g][p]
  BY DEF LooksAheadIn
<1>. DEFINE P(k, f) == \A p \in D : p + k > N => f[p] = G[f][p]
            K == {k \in Nat : \E f \in T : P(k, f)}
<1>1. 0 \in K
  <2>1. PICK c \in T : TRUE
    BY <1>0
  <2>2. c \in T /\ G[c] \in T
    BY <1>0
  <2>3. ASSUME NEW p \in D, p + 0 > N PROVE G[c][p] = G[G[c]][p]
    <3>1. p > N
      BY <1>0, <2>3
    <3>2. SameAfter(D, N, p, c, G[c])
      BY <1>0, <3>1 DEF SameAfter
    <3>. QED
      BY <1>0, <2>2, <3>2
  <2>4. P(0, G[c])
    BY <2>3
  <2>5. \E f \in T : P(0, f)
    BY <2>2, <2>4
  <2>. QED
    BY <2>5
<1>2. ASSUME NEW k \in Nat, k \in K PROVE k + 1 \in K
  <2>1. PICK f \in T : P(k, f)
    BY <1>2
  <2>2. G[f] \in T
    BY <1>0
  <2>3. ASSUME NEW p \in D, p + (k + 1) > N PROVE G[f][p] = G[G[f]][p]
    <3>1. ASSUME NEW q \in D, q > p PROVE f[q] = G[f][q]
      <4>1. q \in Nat /\ p \in Nat /\ q + k > N
        BY <1>0, <2>3, <3>1
      <4>. QED
        BY <2>1, <4>1
    <3>2. SameAfter(D, N, p, f, G[f])
      BY <3>1 DEF SameAfter
    <3>. QED
      BY <1>0, <2>2, <3>2
  <2>4. P(k + 1, G[f])
    BY <2>3
  <2>5. \E h \in T : P(k + 1, h)
    BY <2>2, <2>4
  <2>. HIDE DEF P
  <2>. QED
    BY <2>5
<1>. HIDE DEF K
<1>3. N + 1 \in K
  BY <1>0, <1>1, <1>2, NatSetInduction
<1>4. PICK f \in T : P(N + 1, f)
  <2>. HIDE DEF P
  <2>. QED
    BY <1>3 DEF K
<1>5. ASSUME NEW p \in D PROVE f[p] = G[f][p]
  <2>1. p \in Nat /\ p + (N + 1) > N
    BY <1>0
  <2>. QED
    BY <1>4, <2>1
<1>6. f \in [D -> V] /\ G[f] \in [D -> V]
  BY <1>0
<1>7. f = G[f]
  BY <1>5, <1>6, SameFunction
<1>. QED
  BY <1>7

LEMMA Recursion ==
    ASSUME NEW D, NEW V, NEW N, NEW G, LooksAhead(D, V, N, G)
    PROVE  \E f \in [D -> V] : f = G[f]
<1>. DEFINE T == [D -> V]
<1>1. /\ D \in SUBSET Nat /\ V # {} /\ N \in Nat /\ G \in [T -> T]
      /\ \A f, g \in T, p \in D : SameAfter(D, N, p, f, g) => G[f][p] = G[g][p]
  BY DEF LooksAhead
<1>2. T # {}
  <2>1. PICK v : v \in V
    BY <1>1
  <2>. DEFINE c == [p \in D |-> v]
  <2>2. c \in T
    BY <2>1
  <2>. HIDE DEF c
  <2>. QED
    BY <2>2
<1>3. T \in SUBSET [D -> V]
  OBVIOUS
<1>4. LooksAheadIn(D, V, T, N, G)
  <2>. HIDE DEF T
  <2>. QED
    BY <1>1, <1>2, <1>3 DEF LooksAheadIn
<1>. HIDE DEF T
<1>5. \E f \in T : f = G[f]
  BY <1>4, RecursionIn
<1>. QED
  BY <1>5 DEF T

\* Two solutions agree.
LEMMA Agree ==
    ASSUME NEW D, NEW N, NEW f, NEW g, AlikeAhead(D, N, f, g)
    PROVE  \A p \in D : f[p] = g[p]
<1>. DEFINE S == {p \in D : f[p] = g[p]}
<1>0. D \in SUBSET Nat /\ N \in Nat
  BY DEF AlikeAhead
<1>1. ASSUME NEW p \in D, (\A q \in D : q > p /\ p <= N => q \in S) PROVE p \in S
  BY <1>1 DEF SameAfter, AlikeAhead
<1>. HIDE DEF S
<1>2. \A p \in D : p \in S
  BY <1>0, <1>1, FromTheEnd
<1>. QED
  BY <1>2 DEF S

\* The first of some places.
LEMMA FirstIs ==
    ASSUME NEW S \in SUBSET Nat
    PROVE  /\ S = {} => First(S) = 0
           /\ S # {} => First(S) \in S /\ \A p \in S : First(S) <= p
<1>. SUFFICES ASSUME S # {} PROVE First(S) \in S /\ \A p \in S : First(S) <= p
  BY DEF First
<1>1. \E x \in S : \A y \in S : x =< y
  <2>. SUFFICES ASSUME \A x \in S : \E y \in S : ~(x =< y) PROVE FALSE
    OBVIOUS
  <2>. DEFINE T == {k \in Nat : \A p \in S : p > k}
  <2>1. 0 \in T
    <3>. SUFFICES ASSUME NEW p \in S, ~(p > 0) PROVE FALSE
      OBVIOUS
    <3>1. PICK y \in S : ~(p =< y)
      OBVIOUS
    <3>. QED
      BY <3>1
  <2>2. ASSUME NEW k \in Nat, k \in T PROVE k + 1 \in T
    <3>. SUFFICES ASSUME NEW p \in S, ~(p > k + 1) PROVE FALSE
      OBVIOUS
    <3>1. PICK y \in S : ~(p =< y)
      OBVIOUS
    <3>2. y > k /\ p \in Nat /\ y \in Nat
      BY <2>2
    <3>. QED
      BY <3>1, <3>2
  <2>. HIDE DEF T
  <2>3. PICK p \in S : TRUE
    OBVIOUS
  <2>4. p \in T
    BY <2>1, <2>2, NatSetInduction
  <2>5. p > p /\ p \in Nat
    BY <2>4 DEF T
  <2>. QED
    BY <2>5
<1>2. Min(S) \in S /\ \A y \in S : Min(S) =< y
  BY <1>1 DEF Min
<1>. QED
  BY <1>2 DEF First

\* What one knows to be the first place is it.
LEMMA FirstAt ==
    ASSUME NEW S \in SUBSET Nat, NEW p \in S, \A q \in S : p <= q
    PROVE  First(S) = p
<1>1. First(S) \in S /\ First(S) <= p /\ p <= First(S)
  BY FirstIs
<1>2. First(S) \in Nat /\ p \in Nat
  BY <1>1
<1>. QED
  BY <1>1, <1>2

\* The bounds are numbers.
LEMMA Bounds == MAX_INPUT_LEN \in Nat /\ MAX_SET_VALUES \in Nat /\ MAX_PAREN_DEPTH \in Nat
BY RuleLanguageAssumption

-----------------------------------------------------------------------------
(* Results.                                                                *)

\* A result is an error or a value.
LEMMA Results ==
    /\ \A kind, offset : Failed(Fail(kind, offset))
    /\ \A value, next : ~Failed(Good(value, next)) /\ Good(value, next).value = value
                        /\ Good(value, next).next = next
<1>1. ASSUME NEW kind, NEW offset PROVE Failed(Fail(kind, offset))
  BY DEF Failed, Fail
<1>2. ASSUME NEW value, NEW next
      PROVE  ~Failed(Good(value, next)) /\ Good(value, next).value = value
             /\ Good(value, next).next = next
  BY DEF Failed, Good
<1>. QED
  BY <1>1, <1>2

\* A result whose value is in S.
Result(S) == Error \cup [value : S, next : Nat]

LEMMA GoodResult ==
    ASSUME NEW S, NEW value \in S, NEW next \in Nat
    PROVE  Good(value, next) \in Result(S)
BY DEF Good, Result

LEMMA FailResult ==
    ASSUME NEW S, NEW kind \in ErrorKind, NEW offset \in Nat
    PROVE  Fail(kind, offset) \in Result(S)
BY DEF Fail, Result, Error

LEMMA ValueOf ==
    ASSUME NEW S, NEW r \in Result(S), ~Failed(r)
    PROVE  r.value \in S /\ r.next \in Nat /\ r = Good(r.value, r.next)
BY DEF Result, Error, Failed, Good

LEMMA ErrorOf ==
    ASSUME NEW S, NEW T, NEW r \in Result(S), Failed(r)
    PROVE  r \in Result(T)
<1>1. CASE r \in [value : S, next : Nat]
  BY <1>1 DEF Failed
<1>2. CASE r \in Error
  BY <1>2 DEF Result
<1>. QED
  BY <1>1, <1>2 DEF Result

LEMMA ResultNotEmpty == ASSUME NEW S PROVE Result(S) # {}
<1>1. Fail("Empty", 0) \in Result(S)
  BY FailResult DEF ErrorKind
<1>. QED
  BY <1>1

\* A value in front of those of a result.
LEMMA BeforeIs ==
    ASSUME NEW S, NEW value \in S, NEW rest \in Result(Seq(S))
    PROVE  /\ Before(value, rest) \in Result(Seq(S))
           /\ Failed(Before(value, rest)) <=> Failed(rest)
           /\ ~Failed(rest) => /\ Before(value, rest).value = <<value>> \o rest.value
                               /\ Before(value, rest).next = rest.next
<1>1. CASE Failed(rest)
  BY <1>1 DEF Before
<1>2. CASE ~Failed(rest)
  <2>1. rest.value \in Seq(S) /\ rest.next \in Nat
    BY <1>2, ValueOf
  <2>. DEFINE all == <<value>> \o rest.value
  <2>2. all \in Seq(S)
    BY <2>1
  <2>3. Before(value, rest) = Good(all, rest.next)
    BY <1>2 DEF Before
  <2>. HIDE DEF all
  <2>4. Before(value, rest) \in Result(Seq(S))
    BY <2>1, <2>2, <2>3, GoodResult
  <2>5. /\ ~Failed(Before(value, rest))
        /\ Before(value, rest).value = all /\ Before(value, rest).next = rest.next
    BY <2>3, Results
  <2>. QED
    BY <1>2, <2>4, <2>5 DEF all
<1>. QED
  BY <1>1, <1>2

\* The same of any value.
LEMMA BeforeFails ==
    ASSUME NEW value, NEW rest, Failed(rest)
    PROVE  Before(value, rest) = rest
BY DEF Before

LEMMA BeforeGives ==
    ASSUME NEW value, NEW rest, ~Failed(rest)
    PROVE  /\ Before(value, rest) = Good(<<value>> \o rest.value, rest.next)
           /\ ~Failed(Before(value, rest))
           /\ Before(value, rest).value = <<value>> \o rest.value
           /\ Before(value, rest).next = rest.next
<1>. DEFINE all == <<value>> \o rest.value
<1>1. Before(value, rest) = Good(all, rest.next)
  BY DEF Before
<1>2. ~Failed(Good(all, rest.next)) /\ Good(all, rest.next).value = all
      /\ Good(all, rest.next).next = rest.next
  BY Results
<1>. HIDE DEF all
<1>3. /\ ~Failed(Before(value, rest))
      /\ Before(value, rest).value = all /\ Before(value, rest).next = rest.next
  BY <1>1, <1>2
<1>. QED
  BY <1>1, <1>3 DEF all

LEMMA ErrorExists == Fail("Empty", 0) \in Error
BY DEF Fail, Error, ErrorKind

-----------------------------------------------------------------------------
(* The lexer.                                                              *)

LEMMA WrittenGlyphs ==
    /\ {Newline, Bell, Quote, Backslash} \subseteq Glyph
    /\ Delimiters \subseteq Glyph /\ TwoDigits \subseteq Glyph /\ FourDigits \subseteq Glyph
    /\ {"x", ":", "*", "if"} \subseteq Glyph
    /\ RuleTarget \subseteq Glyph /\ AttributeName \subseteq Glyph /\ SetOperator \subseteq Glyph
    /\ ConditionName \subseteq Glyph
<1>1. Written \subseteq Glyph
  BY RuleLanguageAssumption
<1>2. {Newline, Bell, Quote, Backslash} \subseteq Written
  BY DEF Written, Controls, Escapes
<1>. QED
  BY <1>1, <1>2 DEF Written

\* What LexByte reads is one glyph, and it moves on.
LEMMA LexByteIs ==
    ASSUME NEW input \in Text, NEW start \in Nat, NEW pos \in 1..Len(input)
    PROVE  /\ LexByte(input, start, pos) \in Result(Glyph)
           /\ ~Failed(LexByte(input, start, pos)) => LexByte(input, start, pos).next > pos
<1>. DEFINE g(i) == IF i <= Len(input) THEN input[i] ELSE ""
            b == LexByte(input, start, pos)
<1>1. ASSUME NEW i \in Nat, i >= 1 PROVE i <= Len(input) => g(i) \in Glyph
  BY <1>1 DEF Text
<1>2. pos \in Nat /\ pos + 1 \in Nat /\ pos + 2 \in Nat /\ pos + 3 \in Nat /\ pos >= 1
  OBVIOUS
<1>3. \A e \in DOMAIN Escapes : Escapes[e] \in Glyph
  <2>1. \A e \in DOMAIN Escapes : Escapes[e] \in {Newline, Bell, Quote, Backslash}
    BY DEF Escapes
  <2>. QED
    BY <2>1, WrittenGlyphs
<1>4. \A h \in TwoDigits : HexByte[h] \in Glyph
  <2>1. \A h \in TwoDigits : HexByte[h] \in {Newline, Bell, Quote}
    BY DEF TwoDigits, HexByte
  <2>. QED
    BY <2>1, WrittenGlyphs
<1>5. \/ b = Good(g(pos), pos + 1)
      \/ b = Fail("UnterminatedString", start)
      \/ g(pos + 1) \in DOMAIN Escapes /\ b = Good(Escapes[g(pos + 1)], pos + 2)
      \/ g(pos + 2) \in TwoDigits /\ b = Good(HexByte[g(pos + 2)], pos + 3)
      \/ b = Fail("InvalidEscape", pos)
  <2>. DEFINE a1 == g(pos) # Backslash
              a2 == g(pos) = Backslash /\ g(pos + 1) = ""
              a3 == g(pos) = Backslash /\ g(pos + 1) \in DOMAIN Escapes
              a4 == g(pos) = Backslash /\ g(pos + 1) = "x" /\ g(pos + 2) \in TwoDigits
  <2>1. b = CASE a1 -> Good(g(pos), pos + 1)
              [] a2 -> Fail("UnterminatedString", start)
              [] a3 -> Good(Escapes[g(pos + 1)], pos + 2)
              [] a4 -> Good(HexByte[g(pos + 2)], pos + 3)
              [] OTHER -> Fail("InvalidEscape", pos)
    BY DEF LexByte
  <2>2. a3 => g(pos + 1) \in DOMAIN Escapes
    OBVIOUS
  <2>3. a4 => g(pos + 2) \in TwoDigits
    OBVIOUS
  <2>. HIDE DEF a1, a2, a3, a4, g, b
  <2>. QED
    BY <2>1, <2>2, <2>3
<1>. HIDE DEF g
<1>. SUFFICES b \in Result(Glyph) /\ (~Failed(b) => b.next > pos)
  OBVIOUS
<1>. HIDE DEF b
<1>6. ASSUME NEW v \in Glyph, NEW n \in Nat, n > pos, b = Good(v, n)
      PROVE  b \in Result(Glyph) /\ (~Failed(b) => b.next > pos)
  BY <1>6, Results, GoodResult
<1>7. ASSUME NEW k \in ErrorKind, NEW o \in Nat, b = Fail(k, o)
      PROVE  b \in Result(Glyph) /\ (~Failed(b) => b.next > pos)
  BY <1>7, Results, FailResult
<1>8. CASE b = Good(g(pos), pos + 1)
  BY <1>1, <1>2, <1>6, <1>8
<1>9. CASE g(pos + 1) \in DOMAIN Escapes /\ b = Good(Escapes[g(pos + 1)], pos + 2)
  BY <1>2, <1>3, <1>6, <1>9
<1>10. CASE g(pos + 2) \in TwoDigits /\ b = Good(HexByte[g(pos + 2)], pos + 3)
  BY <1>2, <1>4, <1>6, <1>10
<1>11. CASE b = Fail("UnterminatedString", start) \/ b = Fail("InvalidEscape", pos)
  BY <1>2, <1>7, <1>11 DEF ErrorKind
<1>. QED
  BY <1>5, <1>8, <1>9, <1>10, <1>11

\* The loop of LexString, as a function of what it makes of later places.
StringStep(f, input, start, pos) ==
    IF pos > Len(input) THEN Fail("UnterminatedString", start)
    ELSE IF input[pos] = Quote THEN Good(<<>>, pos + 1)
    ELSE Then(LexByte(input, start, pos), LAMBDA byte : Before(byte.value, f[byte.next]))

StringFrom(input, start) == CHOOSE f : f = [pos \in Place |-> StringStep(f, input, start, pos)]

LEMMA StringStepIs ==
    ASSUME NEW input \in Text, NEW start \in Nat, NEW pos \in Place
    PROVE  /\ \A f, g : SameAfter(Place, Len(input), pos, f, g) =>
                  StringStep(f, input, start, pos) = StringStep(g, input, start, pos)
           /\ \A f \in [Place -> Result(Text)] :
                  StringStep(f, input, start, pos) \in Result(Text)
<1>. DEFINE N == Len(input)
<1>1. CASE pos > N \/ input[pos] = Quote
  <2>1. \A f : StringStep(f, input, start, pos) =
                 IF pos > N THEN Fail("UnterminatedString", start) ELSE Good(<<>>, pos + 1)
    BY <1>1 DEF StringStep
  <2>2. <<>> \in Text /\ pos + 1 \in Nat
    BY EmptySeq DEF Place, Text
  <2>3. /\ Good(<<>>, pos + 1) \in Result(Text)
        /\ Fail("UnterminatedString", start) \in Result(Text)
    BY <2>2, GoodResult, FailResult DEF ErrorKind, Text
  <2>. QED
    BY <2>1, <2>3
<1>2. CASE ~(pos > N) /\ input[pos] # Quote
  <2>1. pos \in 1..N /\ pos <= N
    BY <1>2 DEF Place
  <2>. DEFINE byte == LexByte(input, start, pos)
  <2>2. \A f : StringStep(f, input, start, pos) =
                 IF Failed(byte) THEN byte ELSE Before(byte.value, f[byte.next])
    BY <1>2 DEF StringStep, Then
  <2>3. byte \in Result(Glyph) /\ (~Failed(byte) => byte.next > pos)
    BY <2>1, LexByteIs
  <2>. HIDE DEF byte
  <2>4. Failed(byte) => byte \in Result(Text)
    BY <2>3, ErrorOf
  <2>5. ~Failed(byte) => byte.value \in Glyph /\ byte.next \in Place
    BY <2>1, <2>3, ValueOf DEF Place
  <2>6. ASSUME NEW f, NEW g, SameAfter(Place, N, pos, f, g)
        PROVE  StringStep(f, input, start, pos) = StringStep(g, input, start, pos)
    BY <2>1, <2>2, <2>3, <2>5, <2>6 DEF SameAfter
  <2>7. ASSUME NEW f \in [Place -> Result(Text)]
        PROVE  StringStep(f, input, start, pos) \in Result(Text)
    <3>1. ~Failed(byte) => f[byte.next] \in Result(Text)
      BY <2>5
    <3>2. ~Failed(byte) => Before(byte.value, f[byte.next]) \in Result(Text)
      BY <2>5, <3>1, BeforeIs DEF Text
    <3>. QED
      BY <2>2, <2>4, <3>2
  <2>. QED
    BY <2>6, <2>7
<1>. QED
  BY <1>1, <1>2

LEMMA StringFromIs ==
    ASSUME NEW input \in Text, NEW start \in Nat
    PROVE  /\ StringFrom(input, start) \in [Place -> Result(Text)]
           /\ \A pos \in Place : StringFrom(input, start)[pos]
                                   = StringStep(StringFrom(input, start), input, start, pos)
           /\ LexString(input, start) = StringFrom(input, start)[start + 1]
<1>. DEFINE V == Result(Text)
            F == StringFrom(input, start)
            G == [f \in [Place -> V] |-> [pos \in Place |-> StringStep(f, input, start, pos)]]
<1>1. V # {} /\ Place \in SUBSET Nat /\ Len(input) \in Nat
  BY ResultNotEmpty DEF Place, Text
<1>2. G \in [[Place -> V] -> [Place -> V]]
  BY StringStepIs
<1>3. ASSUME NEW f \in [Place -> V], NEW g \in [Place -> V], NEW pos \in Place,
             SameAfter(Place, Len(input), pos, f, g)
      PROVE  G[f][pos] = G[g][pos]
  BY <1>3, StringStepIs
<1>31. LooksAhead(Place, V, Len(input), G)
  BY <1>1, <1>2, <1>3 DEF LooksAhead
<1>4. PICK f \in [Place -> V] : f = G[f]
  <2>. HIDE DEF G, V
  <2>. QED
    BY <1>31, Recursion
<1>5. f = [pos \in Place |-> StringStep(f, input, start, pos)]
  BY <1>4
<1>6. F = [pos \in Place |-> StringStep(F, input, start, pos)]
  BY <1>5 DEF StringFrom
<1>. HIDE DEF F
<1>7. \A pos \in Place : F[pos] = f[pos]
  <2>1. ASSUME NEW pos \in Place, SameAfter(Place, Len(input), pos, F, f)
        PROVE  F[pos] = f[pos]
    BY <1>5, <1>6, <2>1, StringStepIs
  <2>2. AlikeAhead(Place, Len(input), F, f)
    BY <1>1, <2>1 DEF AlikeAhead
  <2>. QED
    BY <2>2, Agree
<1>8. F \in [Place -> V]
  BY <1>6, <1>7
<1>9. LexString(input, start) = F[start + 1]
  BY DEF LexString, F, StringFrom, StringStep
<1>. QED
  BY <1>6, <1>8, <1>9 DEF F

LEMMA LexStringTyped ==
    ASSUME NEW input \in Text, NEW start \in Nat
    PROVE  LexString(input, start) \in Result(Text)
<1>1. start + 1 \in Place
  BY DEF Place
<1>. QED
  BY <1>1, StringFromIs

\* A string ends behind its start.
LEMMA StringFromMovesOn ==
    ASSUME NEW input \in Text, NEW start \in Nat, NEW from \in Place,
           ~Failed(StringFrom(input, start)[from])
    PROVE  /\ StringFrom(input, start)[from].value \in Text
           /\ StringFrom(input, start)[from].next \in Nat
           /\ StringFrom(input, start)[from].next > from
<1>. DEFINE F == StringFrom(input, start)
            N == Len(input)
            S == {pos \in Place : ~Failed(F[pos]) => F[pos].next > pos}
<1>1. /\ F \in [Place -> Result(Text)]
      /\ \A pos \in Place : F[pos] = StringStep(F, input, start, pos)
  BY StringFromIs
<1>2. Place \in SUBSET Nat /\ N \in Nat
  BY DEF Place, Text
<1>. HIDE DEF F
<1>3. ASSUME NEW pos \in Place, \A q \in Place : q > pos /\ pos <= N => q \in S
      PROVE  pos \in S
  <2>1. CASE pos > N
    <3>1. F[pos] = Fail("UnterminatedString", start)
      BY <1>1, <2>1 DEF StringStep
    <3>. QED
      BY <3>1, Results
  <2>2. CASE ~(pos > N) /\ input[pos] = Quote
    <3>1. F[pos] = Good(<<>>, pos + 1)
      BY <1>1, <2>2 DEF StringStep
    <3>. QED
      BY <1>2, <3>1, Results
  <2>3. CASE ~(pos > N) /\ input[pos] # Quote
    <3>. DEFINE byte == LexByte(input, start, pos)
    <3>1. F[pos] = IF Failed(byte) THEN byte ELSE Before(byte.value, F[byte.next])
      BY <1>1, <2>3 DEF StringStep, Then
    <3>2. pos \in 1..N
      BY <1>2, <2>3 DEF Place
    <3>3. byte \in Result(Glyph) /\ (~Failed(byte) => byte.next > pos)
      BY <3>2, LexByteIs
    <3>. HIDE DEF byte
    <3>4. CASE Failed(byte)
      BY <3>1, <3>4
    <3>5. CASE ~Failed(byte)
      <4>1. byte.value \in Glyph /\ byte.next \in Place /\ byte.next \in Nat /\ byte.next > pos
        BY <3>2, <3>3, <3>5, ValueOf DEF Place
      <4>2. PICK rest : rest = F[byte.next]
        OBVIOUS
      <4>3. rest \in Result(Text) /\ (~Failed(rest) => rest.next > byte.next)
        BY <1>1, <1>3, <2>3, <3>2, <4>1, <4>2
      <4>4. F[pos] = Before(byte.value, rest)
        BY <3>1, <3>5, <4>2
      <4>5. CASE Failed(rest)
        BY <4>4, <4>5, BeforeFails
      <4>6. CASE ~Failed(rest)
        <5>0. Before(byte.value, rest).next = rest.next
          BY <4>6, BeforeGives
        <5>1. F[pos].next = rest.next
          BY <4>4, <5>0
        <5>2. rest.next \in Nat /\ pos \in Nat
          BY <1>2, <4>3, <4>6, ValueOf
        <5>. QED
          BY <4>1, <4>3, <4>6, <5>1, <5>2
      <4>. QED
        BY <4>5, <4>6
    <3>. QED
      BY <3>4, <3>5
  <2>. QED
    BY <2>1, <2>2, <2>3
<1>4. from \in S
  <2>. HIDE DEF S, N
  <2>. QED
    BY <1>2, <1>3, FromTheEnd
<1>5. F[from] \in Result(Text)
  BY <1>1
<1>6. ~Failed(F[from]) => F[from].value \in Text /\ F[from].next \in Nat
  BY <1>5, ValueOf
<1>. QED
  BY <1>4, <1>6 DEF F

LEMMA StringMovesOn ==
    ASSUME NEW input \in Text, NEW start \in Nat, ~Failed(LexString(input, start))
    PROVE  /\ LexString(input, start).value \in Text
           /\ LexString(input, start).next \in Nat /\ LexString(input, start).next > start + 1
<1>1. start + 1 \in Place
  BY DEF Place
<1>2. LexString(input, start) = StringFrom(input, start)[start + 1]
  BY StringFromIs
<1>. QED
  BY <1>1, <1>2, StringFromMovesOn

\* The loop of FindClosingParen.
ParenStep(f, input, open, pos) == [depth \in Nat |->
    IF pos > Len(input) THEN Fail("UnterminatedParameter", open)
    ELSE CASE input[pos] = "(" ->
                IF TooDeep(depth) THEN Fail("TooDeep", pos) ELSE f[pos + 1][depth + 1]
           [] input[pos] = ")" ->
                IF depth <= 1 THEN Good(pos, pos + 1) ELSE f[pos + 1][depth - 1]
           [] input[pos] = Quote ->
                Then(LexString(input, pos), LAMBDA string : f[string.next][depth])
           [] OTHER -> f[pos + 1][depth]]

ParenFrom(input, open) == CHOOSE f : f = [pos \in Place |-> ParenStep(f, input, open, pos)]

\* What the loop does at a place, by the glyph there.
LEMMA ParenAt ==
    ASSUME NEW f, NEW input, NEW open, NEW pos, NEW depth \in Nat
    PROVE  LET r == ParenStep(f, input, open, pos)[depth] IN
           /\ pos > Len(input) => r = Fail("UnterminatedParameter", open)
           /\ ~(pos > Len(input)) /\ input[pos] = "(" =>
                r = IF TooDeep(depth) THEN Fail("TooDeep", pos) ELSE f[pos + 1][depth + 1]
           /\ ~(pos > Len(input)) /\ input[pos] = ")" =>
                r = IF depth <= 1 THEN Good(pos, pos + 1) ELSE f[pos + 1][depth - 1]
           /\ ~(pos > Len(input)) /\ input[pos] = Quote =>
                r = IF Failed(LexString(input, pos)) THEN LexString(input, pos)
                    ELSE f[LexString(input, pos).next][depth]
           /\ ~(pos > Len(input)) /\ input[pos] \notin {"(", ")", Quote} => r = f[pos + 1][depth]
BY DEF ParenStep, Then, Quote

LEMMA ParenStepIs ==
    ASSUME NEW input \in Text, NEW open \in Nat, NEW pos \in Place
    PROVE  /\ \A f, g : SameAfter(Place, Len(input), pos, f, g) =>
                  ParenStep(f, input, open, pos) = ParenStep(g, input, open, pos)
           /\ \A f \in [Place -> [Nat -> Result(Nat)]] :
                  ParenStep(f, input, open, pos) \in [Nat -> Result(Nat)]
<1>. DEFINE N == Len(input)
            string == LexString(input, pos)
<1>1. pos \in Nat /\ pos + 1 \in Place /\ pos + 1 > pos /\ N \in Nat
  BY DEF Place, Text
<1>2. ~Failed(string) => string.next \in Place /\ string.next > pos
  BY <1>1, StringMovesOn DEF Place
<1>3. Failed(string) => string \in Result(Nat)
  <2>1. string \in Result(Text)
    BY <1>1, StringFromIs
  <2>. HIDE DEF string
  <2>. QED
    BY <2>1, ErrorOf
<1>. HIDE DEF string
<1>4. ASSUME NEW f, NEW g, SameAfter(Place, N, pos, f, g)
      PROVE  ParenStep(f, input, open, pos) = ParenStep(g, input, open, pos)
  <2>1. pos <= N => f[pos + 1] = g[pos + 1] /\ (~Failed(string) => f[string.next] = g[string.next])
    BY <1>1, <1>2, <1>4 DEF SameAfter
  <2>2. ASSUME NEW depth \in Nat
        PROVE  ParenStep(f, input, open, pos)[depth] = ParenStep(g, input, open, pos)[depth]
    <3>1. CASE pos > N
      BY <3>1, ParenAt
    <3>2. CASE ~(pos > N)
      <4>1. pos <= N
        BY <1>1, <3>2
      <4>2. CASE input[pos] = "("
        <5>1. /\ ParenStep(f, input, open, pos)[depth]
                   = IF TooDeep(depth) THEN Fail("TooDeep", pos) ELSE f[pos + 1][depth + 1]
              /\ ParenStep(g, input, open, pos)[depth]
                   = IF TooDeep(depth) THEN Fail("TooDeep", pos) ELSE g[pos + 1][depth + 1]
          BY <3>2, <4>2, ParenAt
        <5>. QED
          BY <2>1, <4>1, <5>1
      <4>3. CASE input[pos] = ")"
        <5>1. /\ ParenStep(f, input, open, pos)[depth]
                   = IF depth <= 1 THEN Good(pos, pos + 1) ELSE f[pos + 1][depth - 1]
              /\ ParenStep(g, input, open, pos)[depth]
                   = IF depth <= 1 THEN Good(pos, pos + 1) ELSE g[pos + 1][depth - 1]
          BY <3>2, <4>3, ParenAt
        <5>. QED
          BY <2>1, <4>1, <5>1
      <4>4. CASE input[pos] = Quote
        <5>1. /\ ParenStep(f, input, open, pos)[depth]
                   = IF Failed(string) THEN string ELSE f[string.next][depth]
              /\ ParenStep(g, input, open, pos)[depth]
                   = IF Failed(string) THEN string ELSE g[string.next][depth]
          BY <3>2, <4>4, ParenAt DEF string
        <5>. QED
          BY <2>1, <4>1, <5>1
      <4>5. CASE input[pos] \notin {"(", ")", Quote}
        <5>1. /\ ParenStep(f, input, open, pos)[depth] = f[pos + 1][depth]
              /\ ParenStep(g, input, open, pos)[depth] = g[pos + 1][depth]
          BY <3>2, <4>5, ParenAt
        <5>. QED
          BY <2>1, <4>1, <5>1
      <4>. QED
        BY <4>2, <4>3, <4>4, <4>5
    <3>. QED
      BY <3>1, <3>2
  <2>. QED
    BY <2>2 DEF ParenStep
<1>5. ASSUME NEW f \in [Place -> [Nat -> Result(Nat)]]
      PROVE  ParenStep(f, input, open, pos) \in [Nat -> Result(Nat)]
  <2>. SUFFICES ASSUME NEW depth \in Nat
                PROVE  ParenStep(f, input, open, pos)[depth] \in Result(Nat)
    BY DEF ParenStep
  <2>. DEFINE r == ParenStep(f, input, open, pos)[depth]
  <2>1. \A d \in Nat : f[pos + 1][d] \in Result(Nat)
    BY <1>1
  <2>2. ~Failed(string) => f[string.next][depth] \in Result(Nat)
    BY <1>2
  <2>3. CASE pos > N
    <3>1. r = Fail("UnterminatedParameter", open)
      BY <2>3, ParenAt
    <3>. QED
      BY <3>1, FailResult DEF ErrorKind
  <2>4. CASE ~(pos > N) /\ input[pos] = "("
    <3>1. r = IF TooDeep(depth) THEN Fail("TooDeep", pos) ELSE f[pos + 1][depth + 1]
      BY <2>4, ParenAt
    <3>2. Fail("TooDeep", pos) \in Result(Nat)
      BY <1>1, FailResult DEF ErrorKind
    <3>. QED
      BY <2>1, <3>1, <3>2
  <2>5. CASE ~(pos > N) /\ input[pos] = ")"
    <3>1. r = IF depth <= 1 THEN Good(pos, pos + 1) ELSE f[pos + 1][depth - 1]
      BY <2>5, ParenAt
    <3>2. Good(pos, pos + 1) \in Result(Nat)
      BY <1>1 DEF Good, Result
    <3>3. ~(depth <= 1) => depth - 1 \in Nat
      OBVIOUS
    <3>. QED
      BY <2>1, <3>1, <3>2, <3>3
  <2>6. CASE ~(pos > N) /\ input[pos] = Quote
    <3>1. r = IF Failed(string) THEN string ELSE f[string.next][depth]
      BY <2>6, ParenAt DEF string
    <3>. QED
      BY <1>3, <2>2, <3>1
  <2>7. CASE ~(pos > N) /\ input[pos] \notin {"(", ")", Quote}
    <3>1. r = f[pos + 1][depth]
      BY <2>7, ParenAt
    <3>. QED
      BY <2>1, <3>1
  <2>. QED
    BY <2>3, <2>4, <2>5, <2>6, <2>7
<1>. QED
  BY <1>4, <1>5

LEMMA ParenFromIs ==
    ASSUME NEW input \in Text, NEW open \in Nat
    PROVE  /\ ParenFrom(input, open) \in [Place -> [Nat -> Result(Nat)]]
           /\ \A pos \in Place : ParenFrom(input, open)[pos]
                                   = ParenStep(ParenFrom(input, open), input, open, pos)
           /\ FindClosingParen(input, open) = ParenFrom(input, open)[open][0]
<1>. DEFINE V == [Nat -> Result(Nat)]
            F == ParenFrom(input, open)
            G == [f \in [Place -> V] |-> [pos \in Place |-> ParenStep(f, input, open, pos)]]
<1>1. V # {} /\ Place \in SUBSET Nat /\ Len(input) \in Nat
  <2>1. PICK r : r \in Result(Nat)
    BY ResultNotEmpty
  <2>. DEFINE c == [d \in Nat |-> r]
  <2>2. c \in V
    BY <2>1
  <2>3. Place \in SUBSET Nat /\ Len(input) \in Nat
    BY DEF Place, Text
  <2>. HIDE DEF c
  <2>. QED
    BY <2>2, <2>3
<1>2. G \in [[Place -> V] -> [Place -> V]]
  BY ParenStepIs
<1>3. ASSUME NEW f \in [Place -> V], NEW g \in [Place -> V], NEW pos \in Place,
             SameAfter(Place, Len(input), pos, f, g)
      PROVE  G[f][pos] = G[g][pos]
  BY <1>3, ParenStepIs
<1>4. LooksAhead(Place, V, Len(input), G)
  BY <1>1, <1>2, <1>3 DEF LooksAhead
<1>5. PICK f \in [Place -> V] : f = G[f]
  <2>. HIDE DEF G, V
  <2>. QED
    BY <1>4, Recursion
<1>6. f = [pos \in Place |-> ParenStep(f, input, open, pos)]
  BY <1>5
<1>7. F = [pos \in Place |-> ParenStep(F, input, open, pos)]
  BY <1>6 DEF ParenFrom
<1>. HIDE DEF F
<1>8. \A pos \in Place : F[pos] = f[pos]
  <2>1. ASSUME NEW pos \in Place, SameAfter(Place, Len(input), pos, F, f)
        PROVE  F[pos] = f[pos]
    BY <1>6, <1>7, <2>1, ParenStepIs
  <2>2. AlikeAhead(Place, Len(input), F, f)
    BY <1>1, <2>1 DEF AlikeAhead
  <2>. QED
    BY <2>2, Agree
<1>9. F \in [Place -> V]
  BY <1>7, <1>8
<1>10. FindClosingParen(input, open) = F[open][0]
  BY DEF FindClosingParen, F, ParenFrom, ParenStep
<1>. QED
  BY <1>7, <1>9, <1>10 DEF F

\* The closing parenthesis is a place of the input.
LEMMA ParenFromIsThere ==
    ASSUME NEW input \in Text, NEW open \in Place, NEW from \in Place, NEW level \in Nat,
           ~Failed(ParenFrom(input, open)[from][level])
    PROVE  /\ ParenFrom(input, open)[from][level].value \in from..Len(input)
           /\ ParenFrom(input, open)[from][level].next
                = ParenFrom(input, open)[from][level].value + 1
           /\ input[ParenFrom(input, open)[from][level].value] = ")"
<1>. DEFINE F == ParenFrom(input, open)
            N == Len(input)
            There(r, pos) == ~Failed(r) => /\ r.value \in pos..N /\ r.next = r.value + 1
                                           /\ input[r.value] = ")"
            S == {pos \in Place : \A depth \in Nat : There(F[pos][depth], pos)}
<1>0. open \in Nat
  BY DEF Place
<1>1. /\ F \in [Place -> [Nat -> Result(Nat)]]
      /\ \A pos \in Place : F[pos] = ParenStep(F, input, open, pos)
  BY <1>0, ParenFromIs
<1>2. Place \in SUBSET Nat /\ N \in Nat
  BY DEF Place, Text
<1>. HIDE DEF F
<1>3. ASSUME NEW pos \in Place, \A q \in Place : q > pos /\ pos <= N => q \in S
      PROVE  pos \in S
  <2>. SUFFICES ASSUME NEW depth \in Nat PROVE There(F[pos][depth], pos)
    OBVIOUS
  <2>. DEFINE r == F[pos][depth]
  <2>1. pos \in Nat /\ pos + 1 \in Place /\ pos + 1 > pos
    BY <1>2 DEF Place
  <2>2. r = ParenStep(F, input, open, pos)[depth]
    BY <1>1
  <2>3. \A q \in Place, d \in Nat : q > pos /\ pos <= N => There(F[q][d], q)
    BY <1>3
  <2>4. ASSUME NEW q \in Place, NEW d \in Nat, q > pos, pos <= N, r = F[q][d] PROVE There(r, pos)
    <3>1. There(r, q)
      BY SMTT(30), <2>3, <2>4
    <3>2. q \in Nat
      BY <1>2
    <3>. QED
      BY <2>1, <2>4, <3>1, <3>2, <1>2
  <2>5. CASE pos > N
    <3>1. r = Fail("UnterminatedParameter", open)
      BY <2>2, <2>5, ParenAt
    <3>. QED
      BY <3>1, Results
  <2>6. CASE ~(pos > N) /\ input[pos] = "("
    <3>1. r = IF TooDeep(depth) THEN Fail("TooDeep", pos) ELSE F[pos + 1][depth + 1]
      BY <2>2, <2>6, ParenAt
    <3>2. Failed(Fail("TooDeep", pos))
      BY Results
    <3>3. CASE r = F[pos + 1][depth + 1]
      BY <1>2, <2>1, <2>4, <2>6, <3>3
    <3>. QED
      BY <3>1, <3>2, <3>3
  <2>7. CASE ~(pos > N) /\ input[pos] = ")"
    <3>1. r = IF depth <= 1 THEN Good(pos, pos + 1) ELSE F[pos + 1][depth - 1]
      BY <2>2, <2>7, ParenAt
    <3>2. CASE r = Good(pos, pos + 1)
      <4>1. r.value = pos /\ r.next = pos + 1
        BY <3>2 DEF Good
      <4>2. pos \in pos..N
        BY <1>2, <2>1, <2>7
      <4>. QED
        BY <2>7, <4>1, <4>2
    <3>3. CASE r = F[pos + 1][depth - 1] /\ ~(depth <= 1)
      <4>1. depth - 1 \in Nat
        BY <3>3
      <4>. QED
        BY <1>2, <2>1, <2>4, <2>7, <3>3, <4>1
    <3>. QED
      BY <3>1, <3>2, <3>3
  <2>8. CASE ~(pos > N) /\ input[pos] = Quote
    <3>. DEFINE string == LexString(input, pos)
    <3>1. r = IF Failed(string) THEN string ELSE F[string.next][depth]
      BY <2>2, <2>8, ParenAt
    <3>2. ~Failed(string) => string.next \in Place /\ string.next > pos
      BY <2>1, StringMovesOn DEF Place
    <3>. HIDE DEF string
    <3>3. CASE Failed(string)
      BY <3>1, <3>3
    <3>4. CASE ~Failed(string)
      <4>1. string.next \in Place /\ string.next > pos /\ pos <= N
        BY <1>2, <2>1, <2>8, <3>2, <3>4
      <4>. QED
        BY <2>4, <3>1, <3>4, <4>1
    <3>. QED
      BY <3>3, <3>4
  <2>9. CASE ~(pos > N) /\ input[pos] \notin {"(", ")", Quote}
    <3>1. r = F[pos + 1][depth]
      BY <2>2, <2>9, ParenAt
    <3>. QED
      BY <1>2, <2>1, <2>4, <2>9, <3>1
  <2>. QED
    BY <2>5, <2>6, <2>7, <2>8, <2>9
<1>4. from \in S
  <2>. HIDE DEF S, N
  <2>. QED
    BY <1>2, <1>3, FromTheEnd
<1>5. There(F[from][level], from)
  BY <1>4
<1>. QED
  BY <1>5 DEF F

LEMMA ParenIsThere ==
    ASSUME NEW input \in Text, NEW open \in Place,
           ~Failed(FindClosingParen(input, open))
    PROVE  /\ FindClosingParen(input, open).value \in open..Len(input)
           /\ FindClosingParen(input, open).next = FindClosingParen(input, open).value + 1
           /\ input[FindClosingParen(input, open).value] = ")"
<1>1. open \in Nat
  BY DEF Place
<1>2. FindClosingParen(input, open) = ParenFrom(input, open)[open][0]
  BY <1>1, ParenFromIs
<1>. QED
  BY <1>2, ParenFromIsThere

-----------------------------------------------------------------------------
(* The same text at another place is read the same.                        *)

\* The places from lo to hi of a are those of b, moved by d.
Shifted(a, lo, hi, b, d) ==
    /\ lo \in Place /\ hi \in Nat /\ d \in Int
    /\ \A q \in lo..hi : q <= Len(a) /\ q + d \in 1..Len(b) /\ a[q] = b[q + d]

\* What a byte of a string is written as.
PlainAt(input, pos) == input[pos] # Backslash
EscapeAt(input, pos) ==
    input[pos] = Backslash /\ pos + 1 <= Len(input) /\ input[pos + 1] \in DOMAIN Escapes
HexAt(input, pos) ==
    input[pos] = Backslash /\ pos + 2 <= Len(input) /\ input[pos + 1] = "x"
    /\ input[pos + 2] \in TwoDigits

LEMMA ByteIs ==
    ASSUME NEW input \in Text, NEW start, NEW pos \in 1..Len(input)
    PROVE  /\ PlainAt(input, pos) => LexByte(input, start, pos) = Good(input[pos], pos + 1)
           /\ EscapeAt(input, pos) =>
                LexByte(input, start, pos) = Good(Escapes[input[pos + 1]], pos + 2)
           /\ HexAt(input, pos) =>
                LexByte(input, start, pos) = Good(HexByte[input[pos + 2]], pos + 3)
           /\ ~PlainAt(input, pos) /\ ~EscapeAt(input, pos) /\ ~HexAt(input, pos) =>
                Failed(LexByte(input, start, pos))
<1>. DEFINE g(i) == IF i <= Len(input) THEN input[i] ELSE ""
            b == LexByte(input, start, pos)
            a1 == g(pos) # Backslash
            a2 == g(pos) = Backslash /\ g(pos + 1) = ""
            a3 == g(pos) = Backslash /\ g(pos + 1) \in DOMAIN Escapes
            a4 == g(pos) = Backslash /\ g(pos + 1) = "x" /\ g(pos + 2) \in TwoDigits
            f1 == Fail("UnterminatedString", start)
            f2 == Fail("InvalidEscape", pos)
            g1 == Good(g(pos), pos + 1)
            g2 == Good(Escapes[g(pos + 1)], pos + 2)
            g3 == Good(HexByte[g(pos + 2)], pos + 3)
<1>1. b = CASE a1 -> g1 [] a2 -> f1 [] a3 -> g2 [] a4 -> g3 [] OTHER -> f2
  BY DEF LexByte
<1>2. Failed(f1) /\ Failed(f2)
  BY Results
<1>3. \A i \in Nat : i >= 1 /\ i <= Len(input) => g(i) = input[i] /\ input[i] # ""
  <2>1. ASSUME NEW i \in Nat, i >= 1, i <= Len(input) PROVE input[i] \in Glyph
    BY <2>1 DEF Text
  <2>2. "" \notin Glyph
    BY RuleLanguageAssumption
  <2>. QED
    BY <2>1, <2>2
<1>4. "" \notin DOMAIN Escapes /\ "x" \notin DOMAIN Escapes /\ "" \notin TwoDigits
  BY DEF Escapes, TwoDigits, HexByte, Quote, Backslash
<1>5. pos \in Nat /\ pos >= 1 /\ pos <= Len(input) /\ Len(input) \in Nat
  BY DEF Text
<1>6. PlainAt(input, pos) <=> a1
  BY <1>3, <1>5 DEF PlainAt
<1>7. EscapeAt(input, pos) <=> a3
  <2>1. CASE pos + 1 <= Len(input)
    BY <1>3, <1>5, <2>1 DEF EscapeAt
  <2>2. CASE ~(pos + 1 <= Len(input))
    <3>1. g(pos + 1) = ""
      BY <2>2
    <3>. QED
      BY <3>1, <2>2, <1>4 DEF EscapeAt
  <2>. QED
    BY <2>1, <2>2
<1>8. HexAt(input, pos) <=> a4
  <2>1. CASE pos + 2 <= Len(input)
    <3>1. g(pos) = input[pos] /\ g(pos + 1) = input[pos + 1] /\ g(pos + 2) = input[pos + 2]
      <4>1. pos \in Nat /\ pos >= 1 /\ pos <= Len(input)
            /\ pos + 1 \in Nat /\ pos + 1 >= 1 /\ pos + 1 <= Len(input)
            /\ pos + 2 \in Nat /\ pos + 2 >= 1 /\ pos + 2 <= Len(input)
        BY <1>5, <2>1
      <4>. QED
        BY <1>3, <4>1
    <3>. HIDE DEF g
    <3>. QED
      BY <2>1, <3>1 DEF HexAt
  <2>2. CASE ~(pos + 2 <= Len(input))
    <3>1. g(pos + 2) = ""
      BY <2>2
    <3>. HIDE DEF g
    <3>. QED
      BY <3>1, <2>2, <1>4 DEF HexAt
  <2>. QED
    BY <2>1, <2>2
<1>9. a1 => ~a2 /\ ~a3 /\ ~a4
  OBVIOUS
<1>10. a3 => ~a2 /\ ~a4
  BY <1>4
<1>11. a4 => ~a2
  BY <1>4
<1>12. g(pos) = input[pos] /\ (EscapeAt(input, pos) => g(pos + 1) = input[pos + 1])
       /\ (HexAt(input, pos) => g(pos + 2) = input[pos + 2])
  BY <1>5 DEF EscapeAt, HexAt
<1>13. /\ g1 = Good(input[pos], pos + 1)
       /\ EscapeAt(input, pos) => g2 = Good(Escapes[input[pos + 1]], pos + 2)
       /\ HexAt(input, pos) => g3 = Good(HexByte[input[pos + 2]], pos + 3)
  <2>. HIDE DEF g
  <2>. QED
    BY <1>12
<1>. HIDE DEF g, a1, a2, a3, a4, g1, g2, g3, f1, f2
<1>14. /\ a1 => b = g1
       /\ a3 => b = g2
       /\ a4 => b = g3
       /\ ~a1 /\ ~a3 /\ ~a4 => b = f1 \/ b = f2
  BY <1>1, <1>9, <1>10, <1>11
<1>. HIDE DEF b
<1>. SUFFICES
        /\ PlainAt(input, pos) => b = Good(input[pos], pos + 1)
        /\ EscapeAt(input, pos) => b = Good(Escapes[input[pos + 1]], pos + 2)
        /\ HexAt(input, pos) => b = Good(HexByte[input[pos + 2]], pos + 3)
        /\ ~PlainAt(input, pos) /\ ~EscapeAt(input, pos) /\ ~HexAt(input, pos) => Failed(b)
  BY DEF b
<1>. QED
  BY <1>2, <1>6, <1>7, <1>8, <1>13, <1>14

\* A result at a place, as it is d places further on.
Moved(r, d) == Good(r.value, r.next + d)

LEMMA LexByteShift ==
    ASSUME NEW a \in Text, NEW b \in Text, NEW lo, NEW hi, NEW d, Shifted(a, lo, hi, b, d),
           NEW s1, NEW s2, NEW pos \in lo..hi,
           ~Failed(LexByte(a, s1, pos)), LexByte(a, s1, pos).next <= hi + 1
    PROVE  LexByte(b, s2, pos + d) = Moved(LexByte(a, s1, pos), d)
<1>1. /\ lo \in Nat /\ lo >= 1 /\ hi \in Nat /\ d \in Int /\ pos \in 1..Len(a) /\ pos + d \in 1..Len(b)
      /\ pos \in Nat /\ pos >= 1 /\ a[pos] = b[pos + d]
  BY DEF Shifted, Place
<1>2. \A q \in lo..hi : q <= Len(a) /\ q + d \in 1..Len(b) /\ a[q] = b[q + d]
  BY DEF Shifted
<1>. DEFINE r == LexByte(a, s1, pos)
<1>3. CASE PlainAt(a, pos)
  <2>1. r = Good(a[pos], pos + 1)
    BY <1>1, <1>3, ByteIs
  <2>2. PlainAt(b, pos + d)
    BY <1>1, <1>3 DEF PlainAt
  <2>3. LexByte(b, s2, pos + d) = Good(b[pos + d], (pos + d) + 1)
    BY <1>1, <2>2, ByteIs
  <2>4. r.value = a[pos] /\ r.next = pos + 1
    BY <2>1, Results
  <2>5. (pos + d) + 1 = r.next + d
    BY <1>1, <2>4
  <2>. QED
    BY <1>1, <2>3, <2>4, <2>5 DEF Moved
<1>4. CASE EscapeAt(a, pos)
  <2>1. r = Good(Escapes[a[pos + 1]], pos + 2)
    BY <1>1, <1>4, ByteIs
  <2>4. r.value = Escapes[a[pos + 1]] /\ r.next = pos + 2
    BY <2>1, Results
  <2>5. pos + 1 \in lo..hi
    BY <1>1, <2>4
  <2>6. (pos + 1) + d \in 1..Len(b) /\ a[pos + 1] = b[(pos + 1) + d] /\ (pos + 1) + d = (pos + d) + 1
    BY <1>1, <1>2, <2>5
  <2>7. EscapeAt(b, pos + d)
    BY <1>1, <1>4, <2>6 DEF EscapeAt
  <2>8. LexByte(b, s2, pos + d) = Good(Escapes[b[(pos + d) + 1]], (pos + d) + 2)
    BY <1>1, <2>7, ByteIs
  <2>9. (pos + d) + 2 = r.next + d
    BY <1>1, <2>4
  <2>. QED
    BY <2>4, <2>6, <2>8, <2>9 DEF Moved
<1>5. CASE HexAt(a, pos)
  <2>1. r = Good(HexByte[a[pos + 2]], pos + 3)
    BY <1>1, <1>5, ByteIs
  <2>4. r.value = HexByte[a[pos + 2]] /\ r.next = pos + 3
    BY <2>1, Results
  <2>5. pos + 1 \in lo..hi /\ pos + 2 \in lo..hi
    BY <1>1, <2>4
  <2>6. /\ (pos + 1) + d \in 1..Len(b) /\ a[pos + 1] = b[(pos + 1) + d]
        /\ (pos + 1) + d = (pos + d) + 1
        /\ (pos + 2) + d \in 1..Len(b) /\ a[pos + 2] = b[(pos + 2) + d]
        /\ (pos + 2) + d = (pos + d) + 2
    BY SMTT(30), <1>1, <1>2, <2>5
  <2>7. HexAt(b, pos + d)
    BY SMTT(30), <1>1, <1>5, <2>6 DEF HexAt
  <2>8. LexByte(b, s2, pos + d) = Good(HexByte[b[(pos + d) + 2]], (pos + d) + 3)
    BY <1>1, <2>7, ByteIs
  <2>9. (pos + d) + 3 = r.next + d
    BY <1>1, <2>4
  <2>. QED
    BY <2>4, <2>6, <2>8, <2>9 DEF Moved
<1>6. PlainAt(a, pos) \/ EscapeAt(a, pos) \/ HexAt(a, pos)
  BY <1>1, ByteIs
<1>. QED
  BY <1>3, <1>4, <1>5, <1>6

LEMMA BeforeMoved ==
    ASSUME NEW v, NEW r, NEW d, ~Failed(r)
    PROVE  Before(v, Moved(r, d)) = Moved(Before(v, r), d)
<1>1. ~Failed(Moved(r, d)) /\ Moved(r, d).value = r.value /\ Moved(r, d).next = r.next + d
  BY Results DEF Moved
<1>2. Before(v, Moved(r, d)) = Good(<<v>> \o r.value, r.next + d)
  BY <1>1 DEF Before
<1>3. Before(v, r).value = <<v>> \o r.value /\ Before(v, r).next = r.next
  BY BeforeGives
<1>. QED
  BY <1>2, <1>3 DEF Moved

LEMMA ShiftedAt ==
    ASSUME NEW a \in Text, NEW b \in Text, NEW lo, NEW hi, NEW d, Shifted(a, lo, hi, b, d),
           NEW pos \in lo..hi
    PROVE  /\ pos \in Place /\ pos \in Nat /\ pos \in 1..Len(a) /\ ~(pos > Len(a)) /\ Len(a) \in Nat
           /\ pos + d \in Place /\ pos + d \in Nat /\ pos + d \in 1..Len(b) /\ ~(pos + d > Len(b))
           /\ a[pos] = b[pos + d] /\ lo \in Nat /\ lo >= 1 /\ hi \in Nat /\ d \in Int
<1>1. /\ lo \in Nat /\ lo >= 1 /\ hi \in Nat /\ d \in Int
      /\ pos <= Len(a) /\ pos + d \in 1..Len(b) /\ a[pos] = b[pos + d]
  BY DEF Shifted, Place
<1>2. Len(a) \in Nat /\ Len(b) \in Nat
  BY DEF Text
<1>3. pos \in Nat /\ pos >= 1 /\ pos + d \in Nat /\ pos + d >= 1 /\ pos + d <= Len(b)
  BY <1>1, <1>2
<1>. QED
  BY <1>1, <1>2, <1>3 DEF Place

LEMMA StringShift ==
    ASSUME NEW a \in Text, NEW b \in Text, NEW lo, NEW hi, NEW d, Shifted(a, lo, hi, b, d),
           NEW s1 \in Nat, NEW s2 \in Nat, NEW from \in lo..hi,
           ~Failed(StringFrom(a, s1)[from]), StringFrom(a, s1)[from].next <= hi + 1
    PROVE  StringFrom(b, s2)[from + d] = Moved(StringFrom(a, s1)[from], d)
<1>. DEFINE F == StringFrom(a, s1)
            G == StringFrom(b, s2)
            D == lo..hi
            Inside(r) == ~Failed(r) /\ r.next <= hi + 1
            S == {pos \in D : Inside(F[pos]) => G[pos + d] = Moved(F[pos], d)}
<1>1. /\ \A pos \in Place : F[pos] = StringStep(F, a, s1, pos)
      /\ \A pos \in Place : G[pos] = StringStep(G, b, s2, pos)
  BY StringFromIs
<1>2. hi \in Nat /\ D \in SUBSET Nat
  BY DEF Shifted, Place
<1>3. ASSUME NEW pos \in Place, ~Failed(F[pos])
      PROVE  F[pos].next \in Nat /\ F[pos].next > pos
  BY <1>3, StringFromMovesOn
<1>. HIDE DEF F, G
<1>4. ASSUME NEW pos \in D, \A q \in D : q > pos /\ pos <= hi => q \in S
      PROVE  pos \in S
  <2>. SUFFICES ASSUME Inside(F[pos]) PROVE G[pos + d] = Moved(F[pos], d)
    OBVIOUS
  <2>0. /\ pos \in Place /\ pos \in Nat /\ pos \in 1..Len(a) /\ ~(pos > Len(a))
        /\ pos + d \in Place /\ pos + d \in Nat /\ pos + d \in 1..Len(b) /\ ~(pos + d > Len(b))
        /\ a[pos] = b[pos + d] /\ lo \in Nat /\ d \in Int /\ pos <= hi /\ lo <= pos
    BY <1>2, ShiftedAt
  <2>1. CASE a[pos] = Quote
    <3>1. F[pos] = Good(<<>>, pos + 1)
      BY <1>1, <2>0, <2>1 DEF StringStep
    <3>2. G[pos + d] = Good(<<>>, (pos + d) + 1)
      BY <1>1, <2>0, <2>1 DEF StringStep
    <3>3. F[pos].value = <<>> /\ F[pos].next = pos + 1
      BY <3>1, Results
    <3>4. (pos + d) + 1 = (pos + 1) + d
      BY <2>0
    <3>. QED
      BY <3>2, <3>3, <3>4 DEF Moved
  <2>2. CASE a[pos] # Quote
    <3>. DEFINE byte == LexByte(a, s1, pos)
                moved == LexByte(b, s2, pos + d)
    <3>1. F[pos] = IF Failed(byte) THEN byte ELSE Before(byte.value, F[byte.next])
      BY <1>1, <2>0, <2>2 DEF StringStep, Then
    <3>2. G[pos + d] = IF Failed(moved) THEN moved ELSE Before(moved.value, G[moved.next])
      BY <1>1, <2>0, <2>2 DEF StringStep, Then
    <3>3. byte \in Result(Glyph) /\ (~Failed(byte) => byte.next > pos)
      BY <2>0, LexByteIs
    <3>4. ~Failed(byte) /\ byte.next <= hi + 1 => moved = Moved(byte, d)
      BY LexByteShift
    <3>. HIDE DEF byte, moved
    <3>5. ~Failed(byte)
      BY <3>1
    <3>6. byte.next \in Nat /\ byte.next > pos
      BY <3>3, <3>5, ValueOf
    <3>7. byte.next \in Place
      BY <2>0, <3>6 DEF Place
    <3>8. PICK rest : rest = F[byte.next]
      OBVIOUS
    <3>9. ~Failed(rest)
      BY <3>1, <3>5, <3>8, BeforeFails
    <3>10. Before(byte.value, rest).next = rest.next
      BY <3>9, BeforeGives
    <3>11. rest.next \in Nat /\ rest.next > byte.next /\ rest.next <= hi + 1
      BY <1>3, <3>1, <3>5, <3>7, <3>8, <3>9, <3>10
    <3>12. byte.next <= hi + 1 /\ byte.next \in D
      BY SMTT(30), <1>2, <2>0, <3>6, <3>11
    <3>13. G[byte.next + d] = Moved(rest, d)
      <4>1. byte.next \in S
        BY <1>4, <2>0, <3>6, <3>12
      <4>. QED
        BY <3>8, <3>9, <3>11, <4>1
    <3>14. ~Failed(moved) /\ moved.value = byte.value /\ moved.next = byte.next + d
      BY <3>4, <3>5, <3>12, Results DEF Moved
    <3>15. G[pos + d] = Before(byte.value, Moved(rest, d))
      BY <3>2, <3>13, <3>14
    <3>16. Before(byte.value, Moved(rest, d)) = Moved(Before(byte.value, rest), d)
      BY <3>9, BeforeMoved
    <3>. QED
      BY <3>1, <3>5, <3>8, <3>15, <3>16
  <2>. QED
    BY <2>1, <2>2
<1>5. from \in S
  <2>. HIDE DEF S, D
  <2>1. from \in D
    BY DEF D
  <2>. QED
    BY <1>2, <1>4, <2>1, FromTheEnd
<1>. QED
  BY <1>5 DEF F, G

LEMMA ParenShift ==
    ASSUME NEW a \in Text, NEW b \in Text, NEW lo, NEW hi, NEW d, Shifted(a, lo, hi, b, d),
           NEW o1 \in Place, NEW o2 \in Place, NEW from \in lo..hi, NEW level \in Nat,
           ~Failed(ParenFrom(a, o1)[from][level]), ParenFrom(a, o1)[from][level].value <= hi
    PROVE  ParenFrom(b, o2)[from + d][level]
             = Good(ParenFrom(a, o1)[from][level].value + d, ParenFrom(a, o1)[from][level].next + d)
<1>. DEFINE F == ParenFrom(a, o1)
            G == ParenFrom(b, o2)
            D == lo..hi
            Inside(r) == ~Failed(r) /\ r.value <= hi
            Gone(r) == Good(r.value + d, r.next + d)
            S == {pos \in D : \A depth \in Nat :
                                Inside(F[pos][depth]) => G[pos + d][depth] = Gone(F[pos][depth])}
<1>0. o1 \in Nat /\ o2 \in Nat
  BY DEF Place
<1>1. /\ \A pos \in Place : F[pos] = ParenStep(F, a, o1, pos)
      /\ \A pos \in Place : G[pos] = ParenStep(G, b, o2, pos)
  BY <1>0, ParenFromIs
<1>2. hi \in Nat /\ D \in SUBSET Nat
  BY DEF Shifted, Place
<1>3. ASSUME NEW pos \in Place, NEW depth \in Nat, ~Failed(F[pos][depth])
      PROVE  F[pos][depth].value \in Nat /\ F[pos][depth].value >= pos
  <2>1. F[pos][depth].value \in pos..Len(a)
    BY <1>3, ParenFromIsThere
  <2>2. pos \in Nat /\ Len(a) \in Nat
    BY DEF Place, Text
  <2>. QED
    BY <2>1, <2>2
<1>. HIDE DEF F, G
<1>4. ASSUME NEW pos \in D, \A q \in D : q > pos /\ pos <= hi => q \in S
      PROVE  pos \in S
  <2>. SUFFICES ASSUME NEW depth \in Nat, Inside(F[pos][depth])
                PROVE  G[pos + d][depth] = Gone(F[pos][depth])
    OBVIOUS
  <2>0. /\ pos \in Place /\ pos \in Nat /\ pos \in 1..Len(a) /\ ~(pos > Len(a))
        /\ pos + d \in Place /\ pos + d \in Nat /\ pos + d \in 1..Len(b) /\ ~(pos + d > Len(b))
        /\ a[pos] = b[pos + d] /\ lo \in Nat /\ d \in Int /\ pos <= hi /\ lo <= pos
    BY <1>2, ShiftedAt
  <2>. DEFINE r == F[pos][depth]
  <2>e. PICK e : e = pos + d
    OBVIOUS
  <2>00. e \in Place /\ e \in Nat /\ ~(e > Len(b)) /\ b[e] = a[pos]
    BY <2>0, <2>e
  <2>. DEFINE s == G[e][depth]
  <2>1. r = ParenStep(F, a, o1, pos)[depth] /\ s = ParenStep(G, b, o2, e)[depth]
    BY <1>1, <2>0, <2>00
  <2>. SUFFICES s = Gone(r)
    BY <2>e
  <2>2. ASSUME NEW q \in Place, NEW k \in Nat, q > pos, r = F[q][k] PROVE G[q + d][k] = Gone(r)
    <3>1. F[q][k].value \in Nat /\ F[q][k].value >= q /\ F[q][k].value <= hi /\ q \in Nat
      BY <1>3, <2>2 DEF Place
    <3>2. q \in D
      <4>1. PICK v, p : v = F[q][k].value /\ p = pos
        OBVIOUS
      <4>2. v \in Nat /\ v >= q /\ v <= hi /\ q \in Nat /\ q > p
        BY <2>2, <3>1, <4>1
      <4>3. hi \in Nat /\ lo \in Nat /\ p \in Nat /\ lo <= p
        BY <1>2, <2>0, <4>1
      <4>4. lo <= q /\ q <= hi
        BY <4>2, <4>3
      <4>. QED
        BY <4>2, <4>3, <4>4
    <3>3. q \in S
      BY <1>4, <2>0, <2>2, <3>2
    <3>. QED
      BY <2>2, <3>3
  <2>3. pos + 1 \in Place /\ pos + 1 > pos /\ (pos + 1) + d = e + 1
    <3>1. PICK p, n, x : p = pos /\ n = e /\ x = d
      OBVIOUS
    <3>2. p \in Nat /\ x \in Int /\ n = p + x
      BY <2>0, <2>e, <3>1
    <3>3. (p + 1) + x = n + 1 /\ p + 1 > p /\ p + 1 \in Nat /\ p + 1 # 0
      BY <3>2
    <3>4. p + 1 \in Place
      BY <3>3 DEF Place
    <3>. QED
      BY <3>1, <3>3, <3>4
  <2>4. CASE a[pos] = "("
    <3>1. r = IF TooDeep(depth) THEN Fail("TooDeep", pos) ELSE F[pos + 1][depth + 1]
      BY <2>0, <2>1, <2>4, ParenAt
    <3>2. s = IF TooDeep(depth) THEN Fail("TooDeep", e) ELSE G[e + 1][depth + 1]
      BY SMTT(30), <2>0, <2>00, <2>1, <2>4, ParenAt
    <3>3. ~TooDeep(depth)
      BY <3>1, Results
    <3>4. depth + 1 \in Nat
      OBVIOUS
    <3>. QED
      BY <2>2, <2>3, <3>1, <3>2, <3>3, <3>4
  <2>5. CASE a[pos] = ")"
    <3>1. r = IF depth <= 1 THEN Good(pos, pos + 1) ELSE F[pos + 1][depth - 1]
      BY SMTT(30), <2>0, <2>1, <2>5, ParenAt
    <3>2. s = IF depth <= 1 THEN Good(e, e + 1) ELSE G[e + 1][depth - 1]
      BY SMTT(30), <2>0, <2>00, <2>1, <2>5, ParenAt
    <3>3. CASE depth <= 1
      <4>1. r.value = pos /\ r.next = pos + 1
        BY <3>1, <3>3, Results
      <4>2. s = Good(pos + d, (pos + 1) + d)
        BY <2>e, <2>3, <3>2, <3>3
      <4>. QED
        BY <4>1, <4>2
    <3>4. CASE ~(depth <= 1)
      <4>1. depth - 1 \in Nat
        BY <3>4
      <4>. QED
        BY <2>2, <2>3, <3>1, <3>2, <3>4, <4>1
    <3>. QED
      BY <3>3, <3>4
  <2>6. CASE a[pos] = Quote
    <3>. DEFINE string == LexString(a, pos)
                moved == LexString(b, e)
    <3>1. r = IF Failed(string) THEN string ELSE F[string.next][depth]
      BY SMTT(30), <2>0, <2>1, <2>6, ParenAt
    <3>2. s = IF Failed(moved) THEN moved ELSE G[moved.next][depth]
      BY <2>0, <2>00, <2>1, <2>6, ParenAt
    <3>3. ~Failed(string)
      BY <3>1
    <3>4. string.next \in Nat /\ string.next > pos + 1
      BY <2>0, <3>3, StringMovesOn
    <3>5. string = StringFrom(a, pos)[pos + 1]
      BY <2>0, StringFromIs
    <3>6. moved = StringFrom(b, e)[e + 1]
      BY <2>00, StringFromIs
    <3>. HIDE DEF string, moved
    <3>7. string.next \in Place /\ string.next > pos
      BY SMTT(30), <2>0, <3>4 DEF Place
    <3>8. r = F[string.next][depth]
      BY <3>1, <3>3
    <3>9. r.value \in Nat /\ r.value >= string.next
      BY <1>3, <3>7, <3>8
    <3>10. pos + 1 \in lo..hi /\ string.next <= hi + 1
      <4>1. PICK v, n, p : v = r.value /\ n = string.next /\ p = pos
        OBVIOUS
      <4>2. v \in Nat /\ v >= n /\ n \in Nat /\ n > p + 1
        BY <3>4, <3>9, <4>1
      <4>3. v <= hi
        BY <4>1
      <4>4. hi \in Nat /\ lo \in Nat /\ p \in Nat /\ lo <= p
        BY <1>2, <2>0, <4>1
      <4>5. lo <= p + 1 /\ p + 1 <= hi /\ n <= hi + 1 /\ p + 1 \in Nat
        BY <4>2, <4>3, <4>4
      <4>6. p + 1 \in lo..hi
        BY <4>4, <4>5
      <4>. QED
        BY <4>1, <4>5, <4>6
    <3>11. moved = Moved(string, d)
      <4>1. StringFrom(b, e)[(pos + 1) + d] = Moved(StringFrom(a, pos)[pos + 1], d)
        <5>1. PICK p1 : p1 = pos + 1
          OBVIOUS
        <5>2. ~Failed(StringFrom(a, pos)[p1]) /\ StringFrom(a, pos)[p1].next <= hi + 1
          BY <3>3, <3>5, <3>10, <5>1
        <5>3. p1 \in lo..hi /\ pos \in Nat /\ e \in Nat
          BY <2>0, <2>00, <3>10, <5>1
        <5>4. StringFrom(b, e)[p1 + d] = Moved(StringFrom(a, pos)[p1], d)
          BY <5>2, <5>3, StringShift
        <5>. QED
          BY <5>1, <5>4
      <4>. QED
        BY <2>3, <3>5, <3>6, <4>1
    <3>12. ~Failed(moved) /\ moved.next = string.next + d
      BY <3>11, Results DEF Moved
    <3>. QED
      BY <2>2, <3>2, <3>7, <3>8, <3>12
  <2>7. CASE a[pos] \notin {"(", ")", Quote}
    <3>1. r = F[pos + 1][depth]
      BY <2>0, <2>1, <2>7, ParenAt
    <3>2. s = G[e + 1][depth]
      BY SMTT(30), <2>0, <2>00, <2>1, <2>7, ParenAt
    <3>. QED
      BY <2>2, <2>3, <3>1, <3>2
  <2>. QED
    BY <2>e, <2>4, <2>5, <2>6, <2>7
<1>5. from \in S
  <2>. HIDE DEF S, D
  <2>1. from \in D
    BY DEF D
  <2>. QED
    BY ZenonT(60), <1>2, <1>4, <2>1, FromTheEnd
<1>. QED
  BY <1>5 DEF F, G

\* w is part of the whole, from pos on.
Stands(w, whole, pos) ==
    /\ pos \in Place /\ pos + Len(w) <= Len(whole) + 1
    /\ \A k \in 1..Len(w) : whole[pos + k - 1] = w[k]

\* A parameter as it is written, and that its last parenthesis closes the first.
Bracketed(p) == <<"(">> \o p \o <<")">>
Closes(p) == FindClosingParen(Bracketed(p), 1) = Good(Len(p) + 2, Len(p) + 3)

LEMMA BracketedIs ==
    ASSUME NEW p \in Text
    PROVE  /\ Bracketed(p) \in Text /\ Len(Bracketed(p)) = Len(p) + 2 /\ Len(p) \in Nat
           /\ Bracketed(p)[1] = "(" /\ Bracketed(p)[Len(p) + 2] = ")"
           /\ \A k \in 1..Len(p) : Bracketed(p)[k + 1] = p[k]
<1>1. "(" \in Glyph /\ ")" \in Glyph
  BY WrittenGlyphs DEF Delimiters
<1>2. p \in Seq(Glyph) /\ <<"(">> \in Seq(Glyph) /\ <<")">> \in Seq(Glyph)
  BY <1>1 DEF Text
<1>. QED
  BY <1>2 DEF Bracketed, Text

\* A parameter that was read closes, wherever it is written.
LEMMA ClosesIs ==
    ASSUME NEW input \in Text, NEW open \in 1..Len(input), input[open] = "(",
           ~Failed(FindClosingParen(input, open))
    PROVE  Closes(SubSeq(input, open + 1, FindClosingParen(input, open).value - 1))
<1>1. PICK c : c = FindClosingParen(input, open).value
  OBVIOUS
<1>2. /\ open \in Nat /\ open >= 1 /\ open <= Len(input) /\ Len(input) \in Nat /\ input \in Seq(Glyph)
      /\ open \in Place
  BY DEF Text, Place
<1>3. c \in open..Len(input) /\ FindClosingParen(input, open).next = c + 1 /\ input[c] = ")"
  BY <1>1, <1>2, ParenIsThere
<1>4. c \in Nat /\ c > open /\ c <= Len(input)
  BY <1>2, <1>3
<1>5. PICK p : p = SubSeq(input, open + 1, c - 1)
  OBVIOUS
<1>6. p \in Text /\ Len(p) = (c - open) - 1 /\ \A k \in 1..Len(p) : p[k] = input[open + k]
  <2>1. CASE c - 1 >= open + 1
    BY <1>2, <1>4, <1>5, <2>1 DEF Text
  <2>2. CASE c = open + 1
    <3>1. p = <<>>
      BY <1>2, <1>4, <1>5, <2>2
    <3>. QED
      BY <1>2, <2>2, <3>1 DEF Text
  <2>. QED
    BY <1>2, <1>4, <2>1, <2>2
<1>7. PICK w : w = Bracketed(p)
  OBVIOUS
<1>8. /\ w \in Text /\ Len(w) = Len(p) + 2 /\ Len(p) \in Nat /\ w[1] = "(" /\ w[Len(p) + 2] = ")"
      /\ \A k \in 1..Len(p) : w[k + 1] = p[k]
  BY <1>6, <1>7, BracketedIs
<1>9. PICK d : d = 1 - open
  OBVIOUS
<1>10. Shifted(input, open, c, w, d)
  <2>1. ASSUME NEW q \in open..c
        PROVE  q <= Len(input) /\ q + d \in 1..Len(w) /\ input[q] = w[q + d]
    <3>1. q \in Nat /\ q >= open /\ q <= c /\ q + d = (q - open) + 1 /\ q + d \in 1..Len(w)
      BY <1>2, <1>4, <1>6, <1>8, <1>9
    <3>2. CASE q = open
      <4>1. q + d = 1
        BY <1>2, <1>9, <3>2
      <4>. QED
        BY <1>2, <1>8, <3>1, <3>2, <4>1
    <3>3. CASE q = c
      <4>1. q + d = Len(p) + 2
        BY <1>2, <1>4, <1>6, <1>9, <3>3
      <4>. QED
        BY <1>3, <1>4, <1>8, <3>1, <3>3, <4>1
    <3>4. CASE q # open /\ q # c
      <4>1. PICK k : k = q - open
        OBVIOUS
      <4>2. k \in 1..Len(p) /\ q = open + k /\ q + d = k + 1
        BY <1>2, <1>4, <1>6, <1>9, <3>1, <3>4, <4>1
      <4>3. input[q] = w[q + d]
        <5>1. p[k] = input[open + k] /\ w[k + 1] = p[k]
          BY <1>6, <1>8, <4>2
        <5>. QED
          BY <4>2, <5>1
      <4>4. q <= Len(input)
        BY <1>2, <1>4, <3>1
      <4>. QED
        BY <3>1, <4>3, <4>4
    <3>. QED
      BY <3>2, <3>3, <3>4
  <2>. QED
    BY <1>2, <1>4, <1>9, <2>1 DEF Shifted
<1>11. FindClosingParen(input, open) = ParenFrom(input, open)[open][0]
       /\ FindClosingParen(w, 1) = ParenFrom(w, 1)[1][0]
  BY <1>2, <1>8, ParenFromIs
<1>12. ParenFrom(w, 1)[open + d][0]
         = Good(ParenFrom(input, open)[open][0].value + d, ParenFrom(input, open)[open][0].next + d)
  <2>1. 1 \in Place /\ open \in open..c
    BY <1>2, <1>4 DEF Place
  <2>. QED
    BY SMTT(30), <1>1, <1>2, <1>4, <1>8, <1>10, <1>11, <2>1, ParenShift
<1>13. open + d = 1 /\ c + d = Len(p) + 2 /\ (c + 1) + d = Len(p) + 3
  BY <1>2, <1>4, <1>6, <1>9
<1>14. FindClosingParen(w, 1) = Good(Len(p) + 2, Len(p) + 3)
  BY <1>1, <1>3, <1>11, <1>12, <1>13
<1>. QED
  BY <1>1, <1>5, <1>7, <1>14 DEF Closes

LEMMA ClosesThere ==
    ASSUME NEW input \in Text, NEW p \in Text, Closes(p), NEW pos, Stands(Bracketed(p), input, pos)
    PROVE  FindClosingParen(input, pos) = Good(pos + Len(p) + 1, pos + Len(p) + 2)
<1>1. PICK w : w = Bracketed(p)
  OBVIOUS
<1>2. w \in Text /\ Len(w) = Len(p) + 2 /\ Len(p) \in Nat /\ Len(w) \in Nat
  BY <1>1, BracketedIs
<1>3. /\ pos \in Place /\ pos \in Nat /\ pos >= 1 /\ pos + Len(w) <= Len(input) + 1
      /\ \A k \in 1..Len(w) : input[pos + k - 1] = w[k]
  BY <1>1 DEF Stands, Place
<1>4. PICK d : d = pos - 1
  OBVIOUS
<1>5. Shifted(w, 1, Len(w), input, d)
  <2>1. ASSUME NEW q \in 1..Len(w)
        PROVE  q <= Len(w) /\ q + d \in 1..Len(input) /\ w[q] = input[q + d]
    <3>1. q + d = pos + q - 1 /\ q <= Len(w)
      BY <1>2, <1>3, <1>4
    <3>2. Len(input) \in Nat
      BY DEF Text
    <3>3. q + d \in 1..Len(input)
      BY <1>2, <1>3, <1>4, <3>1, <3>2
    <3>. QED
      BY <1>3, <3>1, <3>3
  <2>2. d \in Int /\ 1 \in Place
    BY <1>3, <1>4 DEF Place
  <2>. QED
    BY <1>2, <2>1, <2>2 DEF Shifted
<1>6. ParenFrom(w, 1)[1][0] = Good(Len(p) + 2, Len(p) + 3)
  BY <1>1, <1>2, ParenFromIs DEF Closes
<1>7. ~Failed(ParenFrom(w, 1)[1][0]) /\ ParenFrom(w, 1)[1][0].value = Len(p) + 2
      /\ ParenFrom(w, 1)[1][0].next = Len(p) + 3
  BY <1>6, Results
<1>8. ParenFrom(input, pos)[1 + d][0]
         = Good(ParenFrom(w, 1)[1][0].value + d, ParenFrom(w, 1)[1][0].next + d)
  <2>1. 1 \in Place /\ 1 \in 1..Len(w) /\ ParenFrom(w, 1)[1][0].value <= Len(w)
    BY <1>2, <1>7 DEF Place
  <2>. QED
    BY <1>2, <1>3, <1>5, <1>7, <2>1, ParenShift
<1>9. 1 + d = pos /\ (Len(p) + 2) + d = pos + Len(p) + 1 /\ (Len(p) + 3) + d = pos + Len(p) + 2
  BY <1>2, <1>3, <1>4
<1>10. FindClosingParen(input, pos) = ParenFrom(input, pos)[pos][0]
  BY <1>3, ParenFromIs
<1>. QED
  BY <1>7, <1>8, <1>9, <1>10

LEMMA SubSeqTyped ==
    ASSUME NEW S, NEW s \in Seq(S), NEW m \in Nat \ {0}, NEW n \in Int, n <= Len(s)
    PROVE  SubSeq(s, m, n) \in Seq(S)
<1>1. CASE n >= m
  BY <1>1
<1>2. CASE n < m
  <2>1. SubSeq(s, m, n) = <<>>
    BY <1>2
  <2>. QED
    BY <2>1
<1>. QED
  BY <1>1, <1>2

-----------------------------------------------------------------------------
(* Tokens.                                                                 *)

TokenKind == {"{", "}", "!", "Comment", "Str", "Param", "Word", "End"}
\* The parameter of a token is closed by its last parenthesis.
AToken ==
    {token \in [kind : TokenKind, text : Text, offset : Nat] :
        token.kind = "Param" => Closes(token.text)}

\* The end of the input is the last token, and no other.
TokenList ==
    {t \in Seq(AToken) : /\ Len(t) > 0 /\ t[Len(t)].kind = "End"
                         /\ \A i \in 1..Len(t) : t[i].kind = "End" => i = Len(t)}

LEMMA WordEndIs ==
    ASSUME NEW input \in Text, NEW start \in 1..Len(input), input[start] \notin Delimiters
    PROVE  /\ WordEnd(input, start) \in start + 1..Len(input) + 1
           /\ WordEnd(input, start) <= Len(input) => input[WordEnd(input, start)] \in Delimiters
           /\ \A i \in start..WordEnd(input, start) - 1 : input[i] \notin Delimiters
<1>. DEFINE S == {i \in start..Len(input) : input[i] \in Delimiters}
<1>1. Len(input) \in Nat /\ start \in Nat
  BY DEF Text
<1>2. S \in SUBSET Nat
  BY <1>1
<1>3. WordEnd(input, start) = IF First(S) = 0 THEN Len(input) + 1 ELSE First(S)
  BY DEF WordEnd
<1>4. \A i \in S : i \in Nat /\ i > start /\ i <= Len(input) /\ input[i] \in Delimiters
  <2>. SUFFICES ASSUME NEW i \in S PROVE i \in Nat /\ i > start /\ i <= Len(input) /\ input[i] \in Delimiters
    OBVIOUS
  <2>1. i \in start..Len(input) /\ input[i] \in Delimiters /\ i # start
    OBVIOUS
  <2>. QED
    BY <1>1, <2>1
<1>5. \A i \in start..Len(input) : i \notin S => input[i] \notin Delimiters
  OBVIOUS
<1>. HIDE DEF S
<1>6. CASE S = {}
  <2>1. First(S) = 0
    BY <1>2, <1>6, FirstIs
  <2>2. WordEnd(input, start) = Len(input) + 1
    BY <1>3, <2>1
  <2>. QED
    BY <1>1, <1>5, <1>6, <2>2
<1>7. CASE S # {}
  <2>1. First(S) \in S /\ \A i \in S : First(S) <= i
    BY <1>2, <1>7, FirstIs
  <2>2. PICK f : f = First(S)
    OBVIOUS
  <2>3. f \in Nat /\ f > start /\ f <= Len(input) /\ input[f] \in Delimiters
    BY <1>4, <2>1, <2>2
  <2>4. WordEnd(input, start) = f
    BY <1>1, <1>3, <2>2, <2>3
  <2>5. \A i \in start..f - 1 : input[i] \notin Delimiters
    <3>. SUFFICES ASSUME NEW i \in start..f - 1 PROVE input[i] \notin Delimiters
      OBVIOUS
    <3>1. i \notin S
      BY <1>1, <2>1, <2>2, <2>3
    <3>2. i \in start..Len(input)
      BY <1>1, <2>3
    <3>. QED
      BY <1>5, <3>1, <3>2
  <2>. QED
    BY <1>1, <2>3, <2>4, <2>5
<1>. QED
  BY <1>6, <1>7

\* A token is read, and the lexer moves on, or there is an error.
Lexed(r, pos) == r \in Result(AToken) /\ (~Failed(r) => r.value.kind # "End" /\ r.next > pos)

LEMMA TokenLexed ==
    ASSUME NEW kind, kind \in TokenKind, kind # "End", NEW s \in Text, NEW pos \in Nat,
           NEW next, next \in Nat, next > pos, kind = "Param" => Closes(s)
    PROVE  Lexed(Good(Token(kind, s, pos), next), pos)
<1>. DEFINE token == Token(kind, s, pos)
<1>1. token \in AToken /\ token.kind = kind
  BY DEF AToken, Token
<1>. HIDE DEF token
<1>2. /\ Good(token, next) \in Result(AToken) /\ ~Failed(Good(token, next))
      /\ Good(token, next).next = next /\ Good(token, next).value = token
  BY <1>1, GoodResult, Results
<1>. QED
  BY <1>1, <1>2 DEF Lexed, token

LEMMA ErrorLexed ==
    ASSUME NEW k \in ErrorKind, NEW pos \in Nat
    PROVE  Lexed(Fail(k, pos), pos)
BY FailResult, Results DEF Lexed

LEMMA FailureLexed ==
    ASSUME NEW S, NEW r \in Result(S), NEW pos, Failed(r)
    PROVE  Lexed(r, pos)
BY ErrorOf DEF Lexed

LEMMA LexTokenIs ==
    ASSUME NEW input \in Text, NEW pos \in 1..Len(input), input[pos] \notin Whitespace
    PROVE  Lexed(LexToken(input, pos), pos)
<1>. DEFINE r == LexToken(input, pos)
            g == input[pos]
<1>1. pos \in Nat /\ pos \in Place /\ Len(input) \in Nat /\ pos + 1 \in Nat /\ pos + 1 > pos
  BY DEF Text, Place
<1>4. \A n \in Int : n <= Len(input) => /\ SubSeq(input, pos, n) \in Text
                                        /\ SubSeq(input, pos + 1, n) \in Text
  BY <1>1, SubSeqTyped DEF Text
<1>5. CASE g \in {"{", "}", "!"}
  <2>1. r = Good(Token(g, <<>>, pos), pos + 1)
    BY <1>5 DEF LexToken, Quote
  <2>2. <<>> \in Text /\ g \in TokenKind \ {"End"}
    BY <1>5, EmptySeq DEF Text, TokenKind
  <2>3. g \in TokenKind /\ g # "End" /\ g # "Param"
    BY <1>5, <2>2
  <2>. HIDE DEF r, g
  <2>. QED
    BY <1>1, <2>1, <2>2, <2>3, TokenLexed DEF r
<1>6. CASE g = "#"
  <2>1. r = Good(Token("Comment", SubSeq(input, pos + 1, Len(input)), pos), Len(input) + 1)
    BY <1>6 DEF LexToken, Quote
  <2>2. Len(input) + 1 > pos /\ "Comment" \in TokenKind \ {"End"} /\ Len(input) + 1 \in Nat
    BY <1>1 DEF TokenKind
  <2>3. SubSeq(input, pos + 1, Len(input)) \in Text
    BY <1>1, <1>4
  <2>. HIDE DEF r
  <2>. QED
    BY <1>1, <2>1, <2>2, <2>3, TokenLexed DEF r
<1>7. CASE g = Quote
  <2>. DEFINE string == LexString(input, pos)
  <2>1. r = IF Failed(string) THEN string ELSE Good(Token("Str", string.value, pos), string.next)
    BY <1>7 DEF LexToken, Quote, Then
  <2>2. string \in Result(Text)
    BY <1>1, LexStringTyped
  <2>3. ~Failed(string) => string.value \in Text /\ string.next \in Nat /\ string.next > pos
    BY <1>1, StringMovesOn
  <2>4. "Str" \in TokenKind \ {"End"}
    BY DEF TokenKind
  <2>. HIDE DEF r, string
  <2>5. CASE Failed(string)
    <3>1. Lexed(string, pos)
      BY <2>2, <2>5, FailureLexed
    <3>. QED
      BY <2>1, <2>5, <3>1 DEF r
  <2>6. CASE ~Failed(string)
    BY <1>1, <2>1, <2>3, <2>4, <2>6, TokenLexed DEF r
  <2>. QED
    BY <2>5, <2>6
<1>8. CASE g = "("
  <2>. DEFINE close == FindClosingParen(input, pos)
  <2>1. r = IF Failed(close) THEN close
            ELSE Good(Token("Param", SubSeq(input, pos + 1, close.value - 1), pos), close.next)
    BY <1>8 DEF LexToken, Quote, Then
  <2>2. close \in Result(Nat)
    BY <1>1, ParenFromIs
  <2>3. ~Failed(close) => close.value \in pos..Len(input) /\ close.next = close.value + 1
    BY <1>1, ParenIsThere
  <2>4. "Param" \in TokenKind \ {"End"}
    BY DEF TokenKind
  <2>. HIDE DEF r, close
  <2>5. CASE Failed(close)
    <3>1. Lexed(close, pos)
      BY <2>2, <2>5, FailureLexed
    <3>. QED
      BY <2>1, <2>5, <3>1 DEF r
  <2>6. CASE ~Failed(close)
    <3>1. close.next \in Nat /\ close.next > pos /\ close.value - 1 \in Int
          /\ close.value - 1 <= Len(input)
      BY <1>1, <2>3, <2>6
    <3>2. SubSeq(input, pos + 1, close.value - 1) \in Text
      BY <1>4, <3>1
    <3>3. Closes(SubSeq(input, pos + 1, close.value - 1))
      BY <1>1, <1>8, <2>6, ClosesIs DEF close
    <3>. QED
      BY <1>1, <2>1, <2>4, <2>6, <3>1, <3>2, <3>3, TokenLexed DEF r
  <2>. QED
    BY <2>5, <2>6
<1>9. CASE g = ")"
  <2>1. r = Fail("UnexpectedToken", pos)
    BY <1>9 DEF LexToken, Quote
  <2>. HIDE DEF r
  <2>. QED
    BY <1>1, <2>1, ErrorLexed DEF ErrorKind, r
<1>10. CASE g \notin {"{", "}", "!", "#", Quote, "(", ")"}
  <2>. DEFINE end == WordEnd(input, pos)
  <2>1. r = Good(Token("Word", SubSeq(input, pos, end - 1), pos), end)
    BY <1>10 DEF LexToken
  <2>2. g \notin Delimiters
    BY <1>10 DEF Delimiters
  <2>3. end \in pos + 1..Len(input) + 1
    BY <2>2, WordEndIs
  <2>. HIDE DEF r, end
  <2>4. end \in Nat /\ end > pos /\ end - 1 \in Int /\ end - 1 <= Len(input)
    BY <1>1, <2>3
  <2>5. SubSeq(input, pos, end - 1) \in Text /\ "Word" \in TokenKind \ {"End"}
    BY <1>4, <2>4 DEF TokenKind
  <2>. QED
    BY <1>1, <2>1, <2>4, <2>5, TokenLexed DEF r
<1>. QED
  BY <1>5, <1>6, <1>7, <1>8, <1>9, <1>10

LEMMA TokenListAnd ==
    ASSUME NEW token \in AToken, token.kind # "End", NEW t \in TokenList
    PROVE  <<token>> \o t \in TokenList
<1>. DEFINE all == <<token>> \o t
<1>1. /\ t \in Seq(AToken) /\ Len(t) > 0 /\ t[Len(t)].kind = "End" /\ Len(t) \in Nat
      /\ \A i \in 1..Len(t) : t[i].kind = "End" => i = Len(t)
  BY DEF TokenList
<1>2. /\ all \in Seq(AToken) /\ Len(all) = Len(t) + 1 /\ all[1] = token
      /\ \A i \in 1..Len(all) : i # 1 => all[i] = t[i - 1]
  BY <1>1
<1>. HIDE DEF all
<1>3. all[Len(all)].kind = "End"
  <2>1. all[Len(all)] = t[Len(t)]
    BY <1>1, <1>2
  <2>. QED
    BY <1>1, <2>1
<1>4. ASSUME NEW i \in 1..Len(all), all[i].kind = "End" PROVE i = Len(all)
  <2>1. i # 1
    BY <1>2, <1>4
  <2>2. all[i] = t[i - 1] /\ i - 1 \in 1..Len(t)
    BY <1>1, <1>2, <2>1
  <2>3. i - 1 = Len(t)
    BY <1>1, <1>4, <2>2
  <2>. QED
    BY <1>1, <1>2, <2>3
<1>5. Len(all) > 0
  BY <1>1, <1>2
<1>6. all \in TokenList
  BY <1>2, <1>3, <1>4, <1>5 DEF TokenList
<1>. QED
  BY <1>6 DEF all

LEMMA EndAlone ==
    ASSUME NEW offset \in Nat
    PROVE  <<Token("End", <<>>, offset)>> \in TokenList
<1>. DEFINE token == Token("End", <<>>, offset)
<1>1. <<>> \in Text
  BY EmptySeq DEF Text
<1>2. token \in AToken /\ token.kind = "End"
  BY <1>1 DEF AToken, Token, TokenKind
<1>. HIDE DEF token
<1>3. <<token>> \in TokenList
  BY <1>2 DEF TokenList
<1>. QED
  BY <1>3 DEF token

\* The loop of tokenize.
LexStep(f, input, pos) ==
    IF pos > Len(input) THEN Good(<<Token("End", <<>>, pos)>>, pos)
    ELSE IF input[pos] \in Whitespace THEN f[pos + 1]
    ELSE Then(LexToken(input, pos), LAMBDA lexed : Before(lexed.value, f[lexed.next]))

LexFrom(input) == CHOOSE f : f = [pos \in Place |-> LexStep(f, input, pos)]

LEMMA LexStepIs ==
    ASSUME NEW input \in Text, NEW pos \in Place
    PROVE  /\ \A f, g : SameAfter(Place, Len(input), pos, f, g) =>
                  LexStep(f, input, pos) = LexStep(g, input, pos)
           /\ \A f \in [Place -> Result(TokenList)] : LexStep(f, input, pos) \in Result(TokenList)
<1>. DEFINE N == Len(input)
<1>0. N \in Nat /\ pos \in Nat /\ pos + 1 \in Place /\ pos + 1 > pos
  BY DEF Place, Text
<1>1. CASE pos > N
  <2>1. \A f : LexStep(f, input, pos) = Good(<<Token("End", <<>>, pos)>>, pos)
    BY <1>1 DEF LexStep
  <2>2. Good(<<Token("End", <<>>, pos)>>, pos) \in Result(TokenList)
    BY <1>0, EndAlone, GoodResult
  <2>. QED
    BY <2>1, <2>2
<1>2. CASE ~(pos > N) /\ input[pos] \in Whitespace
  <2>1. \A f : LexStep(f, input, pos) = f[pos + 1]
    BY <1>2 DEF LexStep
  <2>. QED
    BY <1>0, <1>2, <2>1 DEF SameAfter
<1>3. CASE ~(pos > N) /\ input[pos] \notin Whitespace
  <2>. DEFINE lexed == LexToken(input, pos)
  <2>1. pos <= N /\ pos \in 1..N
    BY <1>0, <1>3 DEF Place
  <2>2. \A f : LexStep(f, input, pos)
                 = IF Failed(lexed) THEN lexed ELSE Before(lexed.value, f[lexed.next])
    BY <1>3 DEF LexStep, Then
  <2>3. Lexed(lexed, pos)
    BY <1>3, <2>1, LexTokenIs
  <2>. HIDE DEF lexed
  <2>4. lexed \in Result(AToken) /\ (~Failed(lexed) => lexed.value.kind # "End" /\ lexed.next > pos)
    BY <2>3 DEF Lexed
  <2>5. Failed(lexed) => lexed \in Result(TokenList)
    BY <2>4, ErrorOf
  <2>6. ~Failed(lexed) => lexed.value \in AToken /\ lexed.next \in Nat
    BY <2>4, ValueOf
  <2>7. ~Failed(lexed) => lexed.next \in Place
    BY <1>0, <2>4, <2>6 DEF Place
  <2>8. ASSUME NEW f, NEW g, SameAfter(Place, N, pos, f, g)
        PROVE  LexStep(f, input, pos) = LexStep(g, input, pos)
    BY <2>1, <2>2, <2>4, <2>7, <2>8 DEF SameAfter
  <2>9. ASSUME NEW f \in [Place -> Result(TokenList)]
        PROVE  LexStep(f, input, pos) \in Result(TokenList)
    <3>1. CASE Failed(lexed)
      BY <2>2, <2>5, <3>1
    <3>2. CASE ~Failed(lexed)
      <4>1. PICK rest : rest = f[lexed.next]
        OBVIOUS
      <4>2. rest \in Result(TokenList) /\ LexStep(f, input, pos) = Before(lexed.value, rest)
        BY <2>2, <2>7, <3>2, <4>1
      <4>3. CASE Failed(rest)
        BY <4>2, <4>3, BeforeFails
      <4>4. CASE ~Failed(rest)
        <5>1. rest.value \in TokenList /\ rest.next \in Nat
          BY <4>2, <4>4, ValueOf
        <5>2. <<lexed.value>> \o rest.value \in TokenList
          BY <2>4, <2>6, <3>2, <5>1, TokenListAnd
        <5>3. LexStep(f, input, pos) = Good(<<lexed.value>> \o rest.value, rest.next)
          BY <4>2, <4>4, BeforeGives
        <5>. QED
          BY <5>1, <5>2, <5>3, GoodResult
      <4>. QED
        BY <4>3, <4>4
    <3>. QED
      BY <3>1, <3>2
  <2>. QED
    BY <2>8, <2>9
<1>. QED
  BY <1>1, <1>2, <1>3

LEMMA LexFromIs ==
    ASSUME NEW input \in Text
    PROVE  /\ LexFrom(input) \in [Place -> Result(TokenList)]
           /\ \A pos \in Place : LexFrom(input)[pos] = LexStep(LexFrom(input), input, pos)
           /\ Lex(input) = LexFrom(input)[1]
<1>. DEFINE V == Result(TokenList)
            F == LexFrom(input)
            G == [f \in [Place -> V] |-> [pos \in Place |-> LexStep(f, input, pos)]]
<1>1. V # {} /\ Place \in SUBSET Nat /\ Len(input) \in Nat
  BY ResultNotEmpty DEF Place, Text
<1>2. G \in [[Place -> V] -> [Place -> V]]
  BY LexStepIs
<1>3. ASSUME NEW f \in [Place -> V], NEW g \in [Place -> V], NEW pos \in Place,
             SameAfter(Place, Len(input), pos, f, g)
      PROVE  G[f][pos] = G[g][pos]
  BY <1>3, LexStepIs
<1>4. LooksAhead(Place, V, Len(input), G)
  BY <1>1, <1>2, <1>3 DEF LooksAhead
<1>5. PICK f \in [Place -> V] : f = G[f]
  <2>. HIDE DEF G, V
  <2>. QED
    BY <1>4, Recursion
<1>6. f = [pos \in Place |-> LexStep(f, input, pos)]
  BY <1>5
<1>7. F = [pos \in Place |-> LexStep(F, input, pos)]
  BY <1>6 DEF LexFrom
<1>. HIDE DEF F
<1>8. \A pos \in Place : F[pos] = f[pos]
  <2>1. ASSUME NEW pos \in Place, SameAfter(Place, Len(input), pos, F, f)
        PROVE  F[pos] = f[pos]
    BY <1>6, <1>7, <2>1, LexStepIs
  <2>2. AlikeAhead(Place, Len(input), F, f)
    BY <1>1, <2>1 DEF AlikeAhead
  <2>. QED
    BY <2>2, Agree
<1>9. F \in [Place -> V]
  BY <1>7, <1>8
<1>10. Lex(input) = F[1]
  BY DEF Lex, F, LexFrom, LexStep
<1>. QED
  BY <1>7, <1>9, <1>10 DEF F

LEMMA LexTyped == ASSUME NEW input \in Text PROVE Lex(input) \in Result(TokenList)
<1>1. 1 \in Place
  BY DEF Place
<1>. QED
  BY <1>1, LexFromIs

-----------------------------------------------------------------------------
(* Parts and words.                                                        *)

\* The loop of Parts.
PartsTo(f, word, pos, colon) ==
    IF colon = 0 THEN <<SubSeq(word, pos, Len(word))>>
    ELSE <<SubSeq(word, pos, colon - 1)>> \o f[colon + 1]
PartsStep(f, word, pos) == PartsTo(f, word, pos, First({i \in pos..Len(word) : word[i] = ":"}))
PartsFrom(word) == CHOOSE f : f = [pos \in Place |-> PartsStep(f, word, pos)]

LEMMA PartsStepIs ==
    ASSUME NEW word \in Text, NEW pos \in Place
    PROVE  /\ \A f, g : SameAfter(Place, Len(word), pos, f, g) =>
                  PartsStep(f, word, pos) = PartsStep(g, word, pos)
           /\ \A f \in [Place -> Seq(Text)] : PartsStep(f, word, pos) \in Seq(Text)
<1>. DEFINE N == Len(word)
            S == {i \in pos..N : word[i] = ":"}
<1>1. N \in Nat /\ pos \in Nat \ {0}
  BY DEF Place, Text
<1>2. S \in SUBSET Nat /\ \A i \in S : pos <= i /\ i <= N
  BY <1>1
<1>3. \A f : PartsStep(f, word, pos) = PartsTo(f, word, pos, First(S))
  BY DEF PartsStep
<1>. HIDE DEF S
<1>4. PICK colon : colon = First(S)
  OBVIOUS
<1>5. CASE colon = 0
  <2>1. \A f : PartsStep(f, word, pos) = <<SubSeq(word, pos, N)>>
    BY <1>3, <1>4, <1>5 DEF PartsTo
  <2>2. SubSeq(word, pos, N) \in Text
    BY <1>1, SubSeqTyped DEF Text
  <2>3. <<SubSeq(word, pos, N)>> \in Seq(Text)
    BY <2>2
  <2>. QED
    BY <2>1, <2>3
<1>6. CASE colon # 0
  <2>1. colon \in S
    BY <1>2, <1>4, <1>6, FirstIs
  <2>2. colon \in Nat /\ pos <= colon /\ colon <= N
    BY <1>1, <1>2, <2>1
  <2>3. colon + 1 \in Place /\ colon + 1 > pos /\ pos <= N /\ colon - 1 \in Int /\ colon - 1 <= N
    BY <1>1, <2>2 DEF Place
  <2>4. PICK part : part = SubSeq(word, pos, colon - 1)
    OBVIOUS
  <2>5. part \in Text
    BY <1>1, <2>3, <2>4, SubSeqTyped DEF Text
  <2>6. \A f : PartsStep(f, word, pos) = <<part>> \o f[colon + 1]
    BY <1>3, <1>4, <1>6, <2>4 DEF PartsTo
  <2>7. ASSUME NEW f, NEW g, SameAfter(Place, N, pos, f, g)
        PROVE  PartsStep(f, word, pos) = PartsStep(g, word, pos)
    BY <2>3, <2>6, <2>7 DEF SameAfter
  <2>8. ASSUME NEW f \in [Place -> Seq(Text)] PROVE PartsStep(f, word, pos) \in Seq(Text)
    <3>1. f[colon + 1] \in Seq(Text)
      BY <2>3
    <3>2. <<part>> \o f[colon + 1] \in Seq(Text)
      BY <2>5, <3>1
    <3>. QED
      BY <2>6, <3>2
  <2>. QED
    BY <2>7, <2>8
<1>. QED
  BY <1>5, <1>6

LEMMA PartsFromIs ==
    ASSUME NEW word \in Text
    PROVE  /\ PartsFrom(word) \in [Place -> Seq(Text)]
           /\ \A pos \in Place : PartsFrom(word)[pos] = PartsStep(PartsFrom(word), word, pos)
           /\ Parts(word) = PartsFrom(word)[1]
<1>. DEFINE V == Seq(Text)
            F == PartsFrom(word)
            G == [f \in [Place -> V] |-> [pos \in Place |-> PartsStep(f, word, pos)]]
<1>1. V # {} /\ Place \in SUBSET Nat /\ Len(word) \in Nat
  <2>1. <<>> \in V
    BY EmptySeq
  <2>2. Place \in SUBSET Nat /\ Len(word) \in Nat
    BY DEF Place, Text
  <2>. HIDE DEF V
  <2>. QED
    BY <2>1, <2>2
<1>2. G \in [[Place -> V] -> [Place -> V]]
  BY PartsStepIs
<1>3. ASSUME NEW f \in [Place -> V], NEW g \in [Place -> V], NEW pos \in Place,
             SameAfter(Place, Len(word), pos, f, g)
      PROVE  G[f][pos] = G[g][pos]
  BY <1>3, PartsStepIs
<1>4. LooksAhead(Place, V, Len(word), G)
  BY <1>1, <1>2, <1>3 DEF LooksAhead
<1>5. PICK f \in [Place -> V] : f = G[f]
  <2>. HIDE DEF G, V
  <2>. QED
    BY <1>4, Recursion
<1>6. f = [pos \in Place |-> PartsStep(f, word, pos)]
  BY <1>5
<1>7. F = [pos \in Place |-> PartsStep(F, word, pos)]
  BY <1>6 DEF PartsFrom
<1>. HIDE DEF F
<1>8. \A pos \in Place : F[pos] = f[pos]
  <2>1. ASSUME NEW pos \in Place, SameAfter(Place, Len(word), pos, F, f)
        PROVE  F[pos] = f[pos]
    BY <1>6, <1>7, <2>1, PartsStepIs
  <2>2. AlikeAhead(Place, Len(word), F, f)
    BY <1>1, <2>1 DEF AlikeAhead
  <2>. QED
    BY <2>2, Agree
<1>9. F \in [Place -> V]
  BY <1>7, <1>8
<1>10. Parts(word) = F[1]
  BY DEF Parts, F, PartsFrom, PartsStep, PartsTo
<1>. QED
  BY <1>7, <1>9, <1>10 DEF F

LEMMA PartsTyped == ASSUME NEW word \in Text PROVE Parts(word) \in Seq(Text)
<1>1. 1 \in Place
  BY DEF Place
<1>. QED
  BY <1>1, PartsFromIs

\* The loop of Words.
WordsTo(f, s, pos, end) ==
    IF end = pos THEN f[pos + 1] ELSE <<SubSeq(s, pos, end - 1)>> \o f[end]
BlankEnd(s, blank) == IF blank = 0 THEN Len(s) + 1 ELSE blank
WordsStep(f, s, pos) ==
    IF pos > Len(s) THEN <<>>
    ELSE WordsTo(f, s, pos, BlankEnd(s, First({i \in pos..Len(s) : s[i] \in Whitespace})))
WordsFrom(s) == CHOOSE f : f = [pos \in Place |-> WordsStep(f, s, pos)]

LEMMA WordsStepIs ==
    ASSUME NEW s \in Text, NEW pos \in Place
    PROVE  /\ \A f, g : SameAfter(Place, Len(s), pos, f, g) =>
                  WordsStep(f, s, pos) = WordsStep(g, s, pos)
           /\ \A f \in [Place -> Seq(Text)] : WordsStep(f, s, pos) \in Seq(Text)
<1>. DEFINE N == Len(s)
            S == {i \in pos..N : s[i] \in Whitespace}
<1>1. N \in Nat /\ pos \in Nat \ {0}
  BY DEF Place, Text
<1>2. S \in SUBSET Nat /\ \A i \in S : pos <= i /\ i <= N
  BY <1>1
<1>3. CASE pos > N
  <2>1. \A f : WordsStep(f, s, pos) = <<>>
    BY <1>3 DEF WordsStep
  <2>. QED
    BY <2>1, EmptySeq
<1>4. CASE ~(pos > N)
  <2>1. PICK end : end = BlankEnd(s, First(S))
    OBVIOUS
  <2>2. \A f : WordsStep(f, s, pos) = WordsTo(f, s, pos, end)
    BY <1>4, <2>1 DEF WordsStep
  <2>3. end \in Nat /\ pos <= end /\ end <= N + 1
    <3>. HIDE DEF S
    <3>1. CASE First(S) = 0
      BY <1>1, <1>4, <2>1, <3>1 DEF BlankEnd
    <3>2. CASE First(S) # 0
      <4>1. First(S) \in S
        BY <1>2, <3>2, FirstIs
      <4>2. end \in S
        BY <2>1, <3>2, <4>1 DEF BlankEnd
      <4>3. end \in Nat /\ pos <= end /\ end <= N
        BY <1>2, <4>2
      <4>. QED
        BY <1>1, <4>3
    <3>. QED
      BY <3>1, <3>2
  <2>. HIDE DEF S
  <2>4. CASE end = pos
    <3>1. \A f : WordsStep(f, s, pos) = f[pos + 1]
      BY <2>2, <2>4 DEF WordsTo
    <3>2. pos + 1 \in Place /\ pos + 1 > pos /\ pos <= N
      BY <1>1, <1>4 DEF Place
    <3>. QED
      BY <3>1, <3>2 DEF SameAfter
  <2>5. CASE end # pos
    <3>1. end \in Place /\ end > pos /\ pos <= N /\ end - 1 \in Int /\ end - 1 <= N
      BY <1>1, <1>4, <2>3, <2>5 DEF Place
    <3>2. PICK word : word = SubSeq(s, pos, end - 1)
      OBVIOUS
    <3>3. word \in Text
      BY <1>1, <3>1, <3>2, SubSeqTyped DEF Text
    <3>4. \A f : WordsStep(f, s, pos) = <<word>> \o f[end]
      BY <2>2, <2>5, <3>2 DEF WordsTo
    <3>5. ASSUME NEW f, NEW g, SameAfter(Place, N, pos, f, g)
          PROVE  WordsStep(f, s, pos) = WordsStep(g, s, pos)
      BY <3>1, <3>4, <3>5 DEF SameAfter
    <3>6. ASSUME NEW f \in [Place -> Seq(Text)] PROVE WordsStep(f, s, pos) \in Seq(Text)
      <4>1. f[end] \in Seq(Text)
        BY <3>1
      <4>2. <<word>> \o f[end] \in Seq(Text)
        BY <3>3, <4>1
      <4>. QED
        BY <3>4, <4>2
    <3>. QED
      BY <3>5, <3>6
  <2>. QED
    BY <2>4, <2>5
<1>. QED
  BY <1>3, <1>4

LEMMA WordsFromIs ==
    ASSUME NEW s \in Text
    PROVE  /\ WordsFrom(s) \in [Place -> Seq(Text)]
           /\ \A pos \in Place : WordsFrom(s)[pos] = WordsStep(WordsFrom(s), s, pos)
           /\ Words(s) = WordsFrom(s)[1]
<1>. DEFINE V == Seq(Text)
            F == WordsFrom(s)
            G == [f \in [Place -> V] |-> [pos \in Place |-> WordsStep(f, s, pos)]]
<1>1. V # {} /\ Place \in SUBSET Nat /\ Len(s) \in Nat
  <2>1. <<>> \in V
    BY EmptySeq
  <2>2. Place \in SUBSET Nat /\ Len(s) \in Nat
    BY DEF Place, Text
  <2>. HIDE DEF V
  <2>. QED
    BY <2>1, <2>2
<1>2. G \in [[Place -> V] -> [Place -> V]]
  BY WordsStepIs
<1>3. ASSUME NEW f \in [Place -> V], NEW g \in [Place -> V], NEW pos \in Place,
             SameAfter(Place, Len(s), pos, f, g)
      PROVE  G[f][pos] = G[g][pos]
  BY <1>3, WordsStepIs
<1>4. LooksAhead(Place, V, Len(s), G)
  BY <1>1, <1>2, <1>3 DEF LooksAhead
<1>5. PICK f \in [Place -> V] : f = G[f]
  <2>. HIDE DEF G, V
  <2>. QED
    BY <1>4, Recursion
<1>6. f = [pos \in Place |-> WordsStep(f, s, pos)]
  BY <1>5
<1>7. F = [pos \in Place |-> WordsStep(F, s, pos)]
  BY <1>6 DEF WordsFrom
<1>. HIDE DEF F
<1>8. \A pos \in Place : F[pos] = f[pos]
  <2>1. ASSUME NEW pos \in Place, SameAfter(Place, Len(s), pos, F, f)
        PROVE  F[pos] = f[pos]
    BY <1>6, <1>7, <2>1, WordsStepIs
  <2>2. AlikeAhead(Place, Len(s), F, f)
    BY <1>1, <2>1 DEF AlikeAhead
  <2>. QED
    BY <2>2, Agree
<1>9. F \in [Place -> V]
  BY <1>7, <1>8
<1>10. Words(s) = F[1]
  BY DEF Words, F, WordsFrom, WordsStep, WordsTo, BlankEnd
<1>. QED
  BY <1>7, <1>9, <1>10 DEF F

LEMMA WordsTyped == ASSUME NEW s \in Text PROVE Words(s) \in Seq(Text)
<1>1. 1 \in Place
  BY DEF Place
<1>. QED
  BY <1>1, WordsFromIs

-----------------------------------------------------------------------------
(* Values.                                                                 *)

\* What id and with-interface accept, in lower case; one text of a string.
IsValue(name, v) ==
    /\ v \in AttributeValue
    /\ name \in StringAttributes => Len(v) = 1
    /\ name \notin StringAttributes => \A i \in DOMAIN v : LowerPart(v[i]) = v[i]
    /\ name = "id" => IsUsbId(v)
    /\ name = "with-interface" => IsInterface(v)
ValueOfName(name) == {v \in AttributeValue : IsValue(name, v)}

\* The result of a read from place i of the tokens, which moves on.
Read(S, t, i) == Error \cup [value : S, next : {j \in DOMAIN t : j > i}]

LEMMA ReadGood ==
    ASSUME NEW S, NEW t, NEW i, NEW value \in S, NEW j \in DOMAIN t, j > i
    PROVE  Good(value, j) \in Read(S, t, i)
BY DEF Good, Read

LEMMA ReadFail ==
    ASSUME NEW S, NEW t, NEW i, NEW kind \in ErrorKind, NEW offset \in Nat
    PROVE  Fail(kind, offset) \in Read(S, t, i)
BY DEF Fail, Read, Error

LEMMA ReadValue ==
    ASSUME NEW S, NEW t, NEW i, NEW r \in Read(S, t, i), ~Failed(r)
    PROVE  r.value \in S /\ r.next \in DOMAIN t /\ r.next > i /\ r = Good(r.value, r.next)
BY DEF Read, Error, Failed, Good

LEMMA ReadError ==
    ASSUME NEW S, NEW t, NEW i, NEW r \in Read(S, t, i), Failed(r)
    PROVE  r \in Error
<1>1. CASE r \in [value : S, next : {j \in DOMAIN t : j > i}]
  BY <1>1 DEF Failed
<1>. QED
  BY <1>1 DEF Read

LEMMA ReadErrorAny ==
    ASSUME NEW r \in Error, NEW S, NEW t, NEW i
    PROVE  r \in Read(S, t, i) /\ Failed(r)
BY DEF Read, Error, Failed

LEMMA TokenAt ==
    ASSUME NEW t \in TokenList, NEW i \in DOMAIN t
    PROVE  /\ i \in Nat /\ i >= 1 /\ i <= Len(t) /\ Len(t) \in Nat
           /\ t[i] \in AToken /\ t[i].kind \in TokenKind /\ t[i].text \in Text /\ t[i].offset \in Nat
           /\ t[i].kind = "Param" => Closes(t[i].text)
           /\ t[i].kind # "End" => i + 1 \in DOMAIN t
           /\ DOMAIN t \in SUBSET Nat
<1>1. t \in Seq(AToken) /\ t[Len(t)].kind = "End" /\ DOMAIN t = 1..Len(t) /\ Len(t) \in Nat
  BY DEF TokenList
<1>2. t[i] \in AToken
  BY <1>1
<1>3. /\ t[i].kind \in TokenKind /\ t[i].text \in Text /\ t[i].offset \in Nat
      /\ t[i].kind = "Param" => Closes(t[i].text)
  BY <1>2 DEF AToken
<1>4. i \in Nat /\ i >= 1 /\ i <= Len(t)
  BY <1>1
<1>5. t[i].kind # "End" => i # Len(t)
  BY <1>1
<1>6. DOMAIN t \in SUBSET Nat
  BY <1>1
<1>7. t[i].kind # "End" => i + 1 \in DOMAIN t
  BY <1>1, <1>4, <1>5
<1>. QED
  BY <1>1, <1>2, <1>3, <1>4, <1>6, <1>7

LEMMA NotTheEnd ==
    ASSUME NEW t \in TokenList, NEW i \in DOMAIN t, t[i].kind # "End"
    PROVE  i + 1 \in DOMAIN t /\ i \in Nat /\ i + 1 \in Nat /\ i + 1 > i
<1>1. i \in Nat /\ i + 1 \in DOMAIN t
  BY TokenAt
<1>. QED
  BY <1>1

LEMMA LowerIs ==
    /\ \A d \in FourDigits : Lower(d) \in FourDigits
    /\ \A d : d \notin FourDigits => Lower(d) = d
    /\ \A d \in Glyph : Lower(d) \in Glyph
    /\ \A d : Lower(Lower(d)) = Lower(d)
<1>1. "12ab" \in Glyph
  BY WrittenGlyphs DEF FourDigits
<1>. QED
  BY <1>1 DEF Lower, FourDigits

LEMMA WildIs ==
    ASSUME NEW part \in Text
    PROVE  Wild(part) <=> Len(part) = 1 /\ part[1] = "*"
<1>1. part \in Seq(Glyph) /\ Len(part) \in Nat
  BY DEF Text
<1>. QED
  BY <1>1 DEF Wild

LEMMA LowerPartIs ==
    ASSUME NEW part \in Text
    PROVE  /\ LowerPart(part) \in Text /\ Len(LowerPart(part)) = Len(part)
           /\ LowerPart(LowerPart(part)) = LowerPart(part)
           /\ Wild(LowerPart(part)) <=> Wild(part)
           /\ IsIdPart(part) => IsIdPart(LowerPart(part))
           /\ IsByte(part) => IsByte(LowerPart(part))
<1>. DEFINE low == LowerPart(part)
<1>1. part \in Seq(Glyph) /\ Len(part) \in Nat
  BY DEF Text
<1>2. low = [i \in 1..Len(part) |-> Lower(part[i])]
  BY <1>1 DEF LowerPart
<1>3. \A i \in 1..Len(part) : Lower(part[i]) \in Glyph
  BY <1>1, LowerIs
<1>4. low \in Seq(Glyph) /\ Len(low) = Len(part) /\ \A i \in 1..Len(part) : low[i] = Lower(part[i])
  BY <1>1, <1>2, <1>3
<1>5. LowerPart(low) = [i \in 1..Len(part) |-> Lower(low[i])]
  BY <1>4 DEF LowerPart
<1>6. LowerPart(low) = low
  <2>1. \A i \in 1..Len(part) : Lower(low[i]) = Lower(part[i])
    BY <1>4, LowerIs
  <2>. HIDE DEF low
  <2>. QED
    BY <1>2, <1>5, <2>1
<1>. HIDE DEF low
<1>7. \A d : d \in TwoDigits => Lower(d) = d /\ d \notin FourDigits
  BY DEF TwoDigits, HexByte, FourDigits, Lower
<1>8. \A d : (Lower(d) = "*" <=> d = "*") /\ (d = "*" => d \notin FourDigits)
  BY DEF FourDigits, Lower
<1>9. Wild(low) <=> Wild(part)
  <2>1. Wild(low) <=> Len(low) = 1 /\ low[1] = "*"
    BY <1>4, WildIs DEF Text
  <2>2. Wild(part) <=> Len(part) = 1 /\ part[1] = "*"
    BY WildIs
  <2>. QED
    BY <1>1, <1>4, <1>8, <2>1, <2>2
<1>10. IsByte(part) => IsByte(low)
  BY <1>4, <1>7 DEF IsByte
<1>11. IsIdPart(part) => IsIdPart(low)
  <2>1. CASE Wild(part)
    BY <1>9, <2>1 DEF IsIdPart
  <2>2. CASE Len(part) = 1 /\ part[1] \in FourDigits
    BY <1>4, <2>2, LowerIs DEF IsIdPart
  <2>3. CASE Len(part) = 2 /\ part[1] \in TwoDigits /\ part[2] \in TwoDigits
    BY <1>4, <1>7, <2>3 DEF IsIdPart
  <2>. QED
    BY <2>1, <2>2, <2>3 DEF IsIdPart
<1>. QED
  BY <1>4, <1>6, <1>9, <1>10, <1>11 DEF low, Text

LEMMA StructuredIs ==
    ASSUME NEW name, NEW parts \in Seq(Text), Structured(name, parts) # None,
           name \notin StringAttributes
    PROVE  IsValue(name, Structured(name, parts))
<1>. DEFINE v == Structured(name, parts)
<1>1. /\ (name = "id" /\ IsUsbId(parts)) \/ (name = "with-interface" /\ IsInterface(parts))
      /\ v = [i \in DOMAIN parts |-> LowerPart(parts[i])]
  BY DEF Structured
<1>. HIDE DEF v
<1>2. \A i \in 1..Len(parts) : LowerPart(parts[i]) \in Text
  BY LowerPartIs
<1>3. /\ v \in Seq(Text) /\ Len(v) = Len(parts) /\ DOMAIN v = 1..Len(parts)
      /\ \A i \in 1..Len(parts) : v[i] = LowerPart(parts[i])
  BY <1>1, <1>2
<1>4. \A i \in 1..Len(parts) :
        /\ LowerPart(v[i]) = v[i]
        /\ Wild(v[i]) <=> Wild(parts[i])
        /\ IsIdPart(parts[i]) => IsIdPart(v[i])
        /\ IsByte(parts[i]) => IsByte(v[i])
  BY <1>3, LowerPartIs
<1>5. IsUsbId(parts) => IsUsbId(v)
  <2>. SUFFICES ASSUME IsUsbId(parts) PROVE IsUsbId(v)
    OBVIOUS
  <2>1. /\ Len(parts) = 2 /\ IsIdPart(parts[1]) /\ IsIdPart(parts[2])
        /\ Wild(parts[1]) => Wild(parts[2])
    BY DEF IsUsbId
  <2>2. Len(v) = 2 /\ 1 \in 1..Len(parts) /\ 2 \in 1..Len(parts)
    BY <1>3, <2>1
  <2>. QED
    BY <1>4, <2>1, <2>2 DEF IsUsbId
<1>6. IsInterface(parts) => IsInterface(v)
  <2>. SUFFICES ASSUME IsInterface(parts) PROVE IsInterface(v)
    OBVIOUS
  <2>1. /\ Len(parts) = 3 /\ IsByte(parts[1])
        /\ \A i \in {2, 3} : Wild(parts[i]) \/ IsByte(parts[i])
        /\ Wild(parts[2]) => Wild(parts[3])
    BY DEF IsInterface
  <2>2. Len(v) = 3 /\ \A i \in {1, 2, 3} : i \in 1..Len(parts)
    BY <1>3, <2>1
  <2>. QED
    BY <1>4, <2>1, <2>2 DEF IsInterface
<1>7. v \in AttributeValue
  BY <1>3 DEF AttributeValue
<1>8. \A i \in DOMAIN v : LowerPart(v[i]) = v[i]
  BY <1>3, <1>4
<1>9. "id" # "with-interface"
  OBVIOUS
<1>10. IsValue(name, v)
  BY <1>1, <1>5, <1>6, <1>7, <1>8, <1>9 DEF IsValue
<1>. QED
  BY <1>10 DEF v

LEMMA ParseValueIs ==
    ASSUME NEW name \in AttributeName, NEW token \in AToken, ParseValue(name, token) # None
    PROVE  ParseValue(name, token) \in ValueOfName(name)
<1>. DEFINE v == ParseValue(name, token)
<1>0. token.text \in Text
  BY DEF AToken
<1>1. CASE token.kind = "Word" /\ name \notin StringAttributes
  <2>1. v = Structured(name, Parts(token.text))
    BY <1>1 DEF ParseValue, ParseStructured
  <2>2. Parts(token.text) \in Seq(Text)
    BY <1>0, PartsTyped
  <2>. HIDE DEF v
  <2>3. IsValue(name, v)
    BY <1>1, <2>1, <2>2, StructuredIs DEF v
  <2>. QED
    BY <2>3 DEF ValueOfName, IsValue, v
<1>2. CASE token.kind = "Str" /\ name \in StringAttributes
  <2>1. v = <<token.text>>
    BY <1>2 DEF ParseValue
  <2>2. PICK s \in Text : s = token.text
    BY <1>0
  <2>3. <<s>> \in Seq(Text) /\ Len(<<s>>) = 1
    OBVIOUS
  <2>4. name # "id" /\ name # "with-interface"
    BY <1>2 DEF StringAttributes
  <2>. HIDE DEF v
  <2>5. v \in AttributeValue /\ Len(v) = 1
    BY <2>1, <2>2, <2>3 DEF AttributeValue
  <2>6. IsValue(name, v)
    BY <1>2, <2>4, <2>5 DEF IsValue
  <2>. QED
    BY <2>5, <2>6 DEF ValueOfName, v
<1>. QED
  BY <1>1, <1>2 DEF ParseValue

LEMMA ValueAtIs ==
    ASSUME NEW name \in AttributeName, NEW token \in AToken
    PROVE  \/ ValueAt(name, token) \in Error /\ Failed(ValueAt(name, token))
           \/ /\ ~Failed(ValueAt(name, token)) /\ ValueAt(name, token).value \in ValueOfName(name)
              /\ ValueAt(name, token).value = ParseValue(name, token)
<1>. DEFINE v == ParseValue(name, token)
<1>1. ValueAt(name, token) = IF v = None THEN Fail("InvalidValue", token.offset) ELSE Good(v, 0)
  BY DEF ValueAt
<1>2. v # None => v \in ValueOfName(name)
  BY ParseValueIs
<1>3. Fail("InvalidValue", token.offset) \in Error
  BY DEF Fail, Error, ErrorKind, AToken
<1>4. Failed(Fail("InvalidValue", token.offset)) /\ ~Failed(Good(v, 0)) /\ Good(v, 0).value = v
  BY Results
<1>. HIDE DEF v
<1>5. CASE v = None
  BY <1>1, <1>3, <1>4, <1>5
<1>6. CASE v # None
  BY <1>1, <1>2, <1>4, <1>6 DEF v
<1>. QED
  BY <1>5, <1>6

-----------------------------------------------------------------------------
(* Sets of values.                                                         *)

\* The loop of ParseSet.
SetStep(f, name, t, first, i) ==
    CASE t[i].kind = "}" -> Good(<<>>, i + 1)
      [] t[i].kind # "}" /\ i - first >= MAX_SET_VALUES -> Fail("TooManyValues", t[i].offset)
      [] t[i].kind = "End" /\ i - first < MAX_SET_VALUES -> Fail("UnexpectedEnd", t[i].offset)
      [] OTHER -> Then(ValueAt(name, t[i]), LAMBDA value : Before(value.value, f[i + 1]))
SetFrom(name, t, first) == CHOOSE f : f = [i \in DOMAIN t |-> SetStep(f, name, t, first, i)]

\* What the loop makes of a place: values, no more than are left.
SetRead(name, t, first, r, i) ==
    /\ r \in Read(Seq(ValueOfName(name)), t, i)
    /\ ~Failed(r) /\ i >= first => i - first + Len(r.value) <= MAX_SET_VALUES \/ r.value = <<>>

\* There is room for the value at place i.
Within(first, i) == i - first < MAX_SET_VALUES

LEMMA WithinIs ==
    ASSUME NEW t \in TokenList, NEW first \in DOMAIN t, NEW i \in DOMAIN t
    PROVE  /\ i - first >= MAX_SET_VALUES <=> ~(i - first < MAX_SET_VALUES)
           /\ Within(first, i) <=> i - first < MAX_SET_VALUES
<1>1. i \in Nat /\ first \in Nat
  BY TokenAt
<1>. QED
  BY <1>1, Bounds DEF Within

LEMMA SetStepEnds ==
    ASSUME NEW f, NEW name, NEW t \in TokenList, NEW first \in DOMAIN t, NEW i \in DOMAIN t,
           t[i].kind = "}"
    PROVE  SetStep(f, name, t, first, i) = Good(<<>>, i + 1)
<1>1. /\ i - first >= MAX_SET_VALUES <=> ~(i - first < MAX_SET_VALUES)
      /\ Within(first, i) <=> i - first < MAX_SET_VALUES
  BY WithinIs
<1>. QED
  BY <1>1 DEF SetStep, Then

LEMMA SetStepFull ==
    ASSUME NEW f, NEW name, NEW t \in TokenList, NEW first \in DOMAIN t, NEW i \in DOMAIN t,
           t[i].kind # "}", ~Within(first, i)
    PROVE  SetStep(f, name, t, first, i) = Fail("TooManyValues", t[i].offset)
<1>1. /\ i - first >= MAX_SET_VALUES <=> ~(i - first < MAX_SET_VALUES)
      /\ Within(first, i) <=> i - first < MAX_SET_VALUES
  BY WithinIs
<1>. QED
  BY <1>1 DEF SetStep, Then

LEMMA SetStepOver ==
    ASSUME NEW f, NEW name, NEW t \in TokenList, NEW first \in DOMAIN t, NEW i \in DOMAIN t,
           t[i].kind = "End", Within(first, i)
    PROVE  SetStep(f, name, t, first, i) = Fail("UnexpectedEnd", t[i].offset)
<1>1. /\ i - first >= MAX_SET_VALUES <=> ~(i - first < MAX_SET_VALUES)
      /\ Within(first, i) <=> i - first < MAX_SET_VALUES
  BY WithinIs
<1>. QED
  BY <1>1 DEF SetStep, Then

LEMMA SetStepGoesOn ==
    ASSUME NEW f, NEW name, NEW t \in TokenList, NEW first \in DOMAIN t, NEW i \in DOMAIN t,
           t[i].kind # "}", t[i].kind # "End", Within(first, i)
    PROVE  SetStep(f, name, t, first, i) = 
              IF Failed(ValueAt(name, t[i])) THEN ValueAt(name, t[i])
              ELSE Before(ValueAt(name, t[i]).value, f[i + 1])
<1>1. /\ i - first >= MAX_SET_VALUES <=> ~(i - first < MAX_SET_VALUES)
      /\ Within(first, i) <=> i - first < MAX_SET_VALUES
  BY WithinIs
<1>. QED
  BY <1>1 DEF SetStep, Then

\* The functions that read values so.
SetReads(name, t, first) ==
    {f \in [DOMAIN t -> Read(Seq(ValueOfName(name)), t, 0)] :
        \A i \in DOMAIN t : SetRead(name, t, first, f[i], i)}

LEMMA SetReadFails ==
    ASSUME NEW name, NEW t, NEW first, NEW r \in Error, NEW i
    PROVE  SetRead(name, t, first, r, i)
BY ReadErrorAny DEF SetRead

LEMMA SetStepIs ==
    ASSUME NEW name \in AttributeName, NEW t \in TokenList, NEW first \in DOMAIN t, NEW i \in DOMAIN t
    PROVE  /\ \A f, g : SameAfter(DOMAIN t, Len(t), i, f, g) =>
                  SetStep(f, name, t, first, i) = SetStep(g, name, t, first, i)
           /\ \A f \in SetReads(name, t, first) :
                  SetRead(name, t, first, SetStep(f, name, t, first, i), i)
<1>. DEFINE V == ValueOfName(name)
<1>1. /\ i \in Nat /\ i <= Len(t) /\ Len(t) \in Nat /\ t[i] \in AToken /\ t[i].offset \in Nat
      /\ t[i].kind # "End" => i + 1 \in DOMAIN t
      /\ MAX_SET_VALUES \in Nat /\ first \in Nat
  BY TokenAt, Bounds
<1>2. CASE t[i].kind = "}"
  <2>1. \A f : SetStep(f, name, t, first, i) = Good(<<>>, i + 1)
    BY <1>2, SetStepEnds
  <2>0. t[i].kind # "End"
    BY <1>2
  <2>2. <<>> \in Seq(V) /\ i + 1 \in DOMAIN t /\ i + 1 > i
    <3>1. <<>> \in Seq(V)
      BY EmptySeq
    <3>. QED
      BY <1>1, <2>0, <3>1
  <2>3. Good(<<>>, i + 1) \in Read(Seq(V), t, i)
    BY <2>2, ReadGood
  <2>4. Good(<<>>, i + 1).value = <<>>
    BY Results
  <2>5. SetRead(name, t, first, Good(<<>>, i + 1), i)
    BY <2>3, <2>4 DEF SetRead
  <2>. QED
    BY <2>1, <2>5
<1>3. CASE t[i].kind # "}" /\ (t[i].kind = "End" \/ ~Within(first, i))
  <2>1. ~Within(first, i) =>
            \A f : SetStep(f, name, t, first, i) = Fail("TooManyValues", t[i].offset)
    BY <1>3, SetStepFull
  <2>2. Within(first, i) =>
            \A f : SetStep(f, name, t, first, i) = Fail("UnexpectedEnd", t[i].offset)
    BY <1>3, SetStepOver
  <2>3. Fail("TooManyValues", t[i].offset) \in Error /\ Fail("UnexpectedEnd", t[i].offset) \in Error
    BY <1>1 DEF Fail, Error, ErrorKind
  <2>4. /\ SetRead(name, t, first, Fail("TooManyValues", t[i].offset), i)
        /\ SetRead(name, t, first, Fail("UnexpectedEnd", t[i].offset), i)
    BY <2>3, SetReadFails
  <2>. QED
    BY <2>1, <2>2, <2>4
<1>4. CASE t[i].kind \notin {"}", "End"} /\ Within(first, i)
  <2>. DEFINE value == ValueAt(name, t[i])
  <2>1. \A f : SetStep(f, name, t, first, i)
                 = IF Failed(value) THEN value ELSE Before(value.value, f[i + 1])
    BY <1>4, SetStepGoesOn
  <2>0. t[i].kind # "End"
    BY <1>4
  <2>2. i + 1 \in DOMAIN t /\ i + 1 > i
    BY <1>1, <2>0
  <2>3. \/ value \in Error /\ Failed(value)
        \/ ~Failed(value) /\ value.value \in V
    BY <1>1, ValueAtIs
  <2>. HIDE DEF value
  <2>4. ASSUME NEW f, NEW g, SameAfter(DOMAIN t, Len(t), i, f, g)
        PROVE  SetStep(f, name, t, first, i) = SetStep(g, name, t, first, i)
    <3>1. f[i + 1] = g[i + 1]
      BY <1>1, <2>2, <2>4 DEF SameAfter
    <3>. QED
      BY <2>1, <3>1
  <2>5. ASSUME NEW f \in SetReads(name, t, first)
        PROVE  SetRead(name, t, first, SetStep(f, name, t, first, i), i)
    <3>1. CASE Failed(value)
      BY <2>1, <2>3, <3>1, SetReadFails
    <3>2. CASE ~Failed(value)
      <4>1. PICK rest : rest = f[i + 1]
        OBVIOUS
      <4>2. SetRead(name, t, first, rest, i + 1)
        BY <2>2, <4>1 DEF SetReads
      <4>3. SetStep(f, name, t, first, i) = Before(value.value, rest)
        BY <2>1, <3>2, <4>1
      <4>4. rest \in Read(Seq(V), t, i + 1)
        BY <4>2 DEF SetRead
      <4>5. CASE Failed(rest)
        <5>1. rest \in Error
          BY <4>4, <4>5, ReadError
        <5>. QED
          BY <4>3, <4>5, <5>1, BeforeFails, SetReadFails
      <4>6. CASE ~Failed(rest)
        <5>1. PICK vs, n : vs = rest.value /\ n = rest.next
          OBVIOUS
        <5>2. vs \in Seq(V) /\ n \in DOMAIN t /\ n > i + 1
          BY <4>4, <4>6, <5>1, ReadValue
        <5>3. PICK v : v = value.value
          OBVIOUS
        <5>4. v \in V
          BY <2>3, <3>2, <5>3
        <5>. DEFINE all == <<v>> \o vs
        <5>5. all \in Seq(V) /\ Len(all) = Len(vs) + 1 /\ Len(vs) \in Nat
          BY <5>2, <5>4
        <5>6. n > i
          BY <1>1, <5>2, TokenAt
        <5>7. Before(value.value, rest) = Good(all, n)
          BY <4>6, <5>1, <5>3, BeforeGives
        <5>8. i >= first => i - first + Len(all) <= MAX_SET_VALUES
          <6>1. i >= first => i + 1 - first + Len(vs) <= MAX_SET_VALUES \/ vs = <<>>
            BY SMTT(30), <1>1, <4>2, <4>6, <5>1 DEF SetRead
          <6>2. vs = <<>> => Len(vs) = 0
            OBVIOUS
          <6>3. i - first < MAX_SET_VALUES
            BY <1>4 DEF Within
          <6>. QED
            BY SMTT(30), <1>1, <5>5, <6>1, <6>2, <6>3
        <5>. HIDE DEF all
        <5>9. Good(all, n) \in Read(Seq(V), t, i) /\ Good(all, n).value = all
          BY <5>2, <5>5, <5>6, ReadGood, Results
        <5>10. SetRead(name, t, first, Good(all, n), i)
          BY <5>8, <5>9 DEF SetRead
        <5>. QED
          BY <4>3, <5>7, <5>10
      <4>. QED
        BY <4>5, <4>6
    <3>. QED
      BY <3>1, <3>2
  <2>. QED
    BY <2>4, <2>5
<1>. QED
  BY <1>2, <1>3, <1>4

LEMMA SetFromIs ==
    ASSUME NEW name \in AttributeName, NEW t \in TokenList, NEW first \in DOMAIN t
    PROVE  /\ SetFrom(name, t, first) \in SetReads(name, t, first)
           /\ \A i \in DOMAIN t : SetFrom(name, t, first)[i]
                                    = SetStep(SetFrom(name, t, first), name, t, first, i)
           /\ ParseSet(name, t, first) = SetFrom(name, t, first)[first]
<1>. DEFINE D == DOMAIN t
            V == Read(Seq(ValueOfName(name)), t, 0)
            T == SetReads(name, t, first)
            F == SetFrom(name, t, first)
            G == [f \in T |-> [i \in D |-> SetStep(f, name, t, first, i)]]
<1>1. D \in SUBSET Nat /\ Len(t) \in Nat
  BY DEF TokenList
<1>2. T # {} /\ T \in SUBSET [D -> V]
  <2>1. PICK r : r \in Error
    BY ErrorExists
  <2>. DEFINE c == [i \in D |-> r]
  <2>2. c \in [D -> V]
    BY <2>1, ReadErrorAny
  <2>3. \A i \in D : SetRead(name, t, first, c[i], i)
    BY <2>1, SetReadFails
  <2>4. c \in T
    BY <2>2, <2>3 DEF SetReads
  <2>. HIDE DEF c
  <2>. QED
    BY <2>4 DEF SetReads
<1>3. ASSUME NEW f \in [D -> V], \A i \in D : SetRead(name, t, first, f[i], i) PROVE f \in T
  BY <1>3 DEF SetReads
<1>4. \A f \in T : [i \in D |-> SetStep(f, name, t, first, i)] \in T
  <2>. SUFFICES ASSUME NEW f \in T PROVE [i \in D |-> SetStep(f, name, t, first, i)] \in T
    OBVIOUS
  <2>. DEFINE h == [i \in D |-> SetStep(f, name, t, first, i)]
  <2>1. \A i \in D : SetRead(name, t, first, h[i], i)
    BY SetStepIs
  <2>2. \A r, i : i \in D /\ SetRead(name, t, first, r, i) => r \in V
    <3>1. \A i \in D : i > 0 /\ i \in Nat
      BY TokenAt
    <3>. QED
      BY <1>1, <3>1 DEF SetRead, Read
  <2>3. h \in [D -> V]
    BY <2>1, <2>2
  <2>. QED
    BY <1>3, <2>1, <2>3
<1>5. G \in [T -> T]
  BY <1>4
<1>6. ASSUME NEW f \in T, NEW g \in T, NEW i \in D, SameAfter(D, Len(t), i, f, g)
      PROVE  G[f][i] = G[g][i]
  BY <1>6, SetStepIs
<1>7. LooksAheadIn(D, V, T, Len(t), G)
  <2>. HIDE DEF G, T, V, D
  <2>. QED
    BY <1>1, <1>2, <1>5, <1>6 DEF LooksAheadIn
<1>8. PICK f \in T : f = G[f]
  <2>. HIDE DEF G, V, T, D
  <2>. QED
    BY <1>7, RecursionIn
<1>9. f = [i \in D |-> SetStep(f, name, t, first, i)]
  BY <1>8
<1>10. F = [i \in D |-> SetStep(F, name, t, first, i)]
  BY <1>9 DEF SetFrom
<1>. HIDE DEF F
<1>11. \A i \in D : F[i] = f[i]
  <2>1. ASSUME NEW i \in D, SameAfter(D, Len(t), i, F, f) PROVE F[i] = f[i]
    BY <1>9, <1>10, <2>1, SetStepIs
  <2>2. AlikeAhead(D, Len(t), F, f)
    BY <1>1, <2>1 DEF AlikeAhead
  <2>. HIDE DEF D
  <2>. QED
    BY <2>2, Agree
<1>12. F = f
  BY <1>9, <1>10, <1>11
<1>13. ParseSet(name, t, first) = F[first]
  BY DEF ParseSet, F, SetFrom, SetStep
<1>. QED
  BY <1>8, <1>10, <1>12, <1>13 DEF F

-----------------------------------------------------------------------------
(* The values of an attribute.                                             *)

IsValues(name, vs) ==
    /\ vs \in [set : BOOLEAN, operator : SetOperator \cup {None}, values : Seq(AttributeValue)]
    /\ \A k \in DOMAIN vs.values : IsValue(name, vs.values[k])
    /\ ~vs.set => vs.operator = None /\ Len(vs.values) = 1
    /\ vs.set => Len(vs.values) <= MAX_SET_VALUES
ValuesOfName(name) ==
    {vs \in [set : BOOLEAN, operator : SetOperator \cup {None}, values : Seq(AttributeValue)] :
        IsValues(name, vs)}

LEMMA OperatorIs ==
    ASSUME NEW t \in TokenList, NEW i \in DOMAIN t
    PROVE  /\ Operator(t, i) \in SetOperator \cup {None}
           /\ Operator(t, i) # None => t[i].kind = "Word" /\ i + 1 \in DOMAIN t
<1>1. t[i].kind = "Word" => t[i].kind # "End"
  OBVIOUS
<1>2. t[i].kind = "Word" => i + 1 \in DOMAIN t
  BY <1>1, NotTheEnd
<1>3. Operator(t, i) = IF t[i].kind = "Word" /\ Keyword(t[i].text) \in SetOperator
                       THEN t[i].text[1] ELSE None
  BY DEF Operator
<1>4. Keyword(t[i].text) \in SetOperator => t[i].text[1] = Keyword(t[i].text)
  BY DEF Keyword, SetOperator
<1>. QED
  BY <1>2, <1>3, <1>4

\* A brace that is expected, and the place behind it.
LEMMA BraceIs ==
    ASSUME NEW t \in TokenList, NEW i \in DOMAIN t, ~Failed(ExpectBrace(t, i))
    PROVE  t[i].kind = "{" /\ ExpectBrace(t, i).next = i + 1 /\ i + 1 \in DOMAIN t
<1>1. t[i].kind = "{"
  BY Results DEF ExpectBrace
<1>2. ExpectBrace(t, i) = Good(TRUE, i + 1)
  BY <1>1 DEF ExpectBrace
<1>3. t[i].kind # "End"
  BY <1>1
<1>4. i + 1 \in DOMAIN t
  BY <1>3, NotTheEnd
<1>5. ExpectBrace(t, i).next = i + 1
  BY <1>2 DEF Good
<1>. QED
  BY <1>1, <1>4, <1>5

LEMMA BraceFails ==
    ASSUME NEW t \in TokenList, NEW i \in DOMAIN t, Failed(ExpectBrace(t, i))
    PROVE  ExpectBrace(t, i) \in Error
<1>1. t[i].kind # "{"
  BY Results DEF ExpectBrace
<1>2. \/ ExpectBrace(t, i) = Fail("UnexpectedEnd", t[i].offset)
      \/ ExpectBrace(t, i) = Fail("UnexpectedToken", t[i].offset)
  BY <1>1 DEF ExpectBrace
<1>3. t[i].offset \in Nat
  BY TokenAt
<1>. QED
  BY <1>2, <1>3 DEF Fail, Error, ErrorKind

LEMMA SeqMono ==
    ASSUME NEW S, NEW T, S \subseteq T, NEW s \in Seq(S)
    PROVE  s \in Seq(T)
OBVIOUS

\* One value, as ParseAttributeValues returns it.
LEMMA SingleValue ==
    ASSUME NEW name, NEW v \in ValueOfName(name)
    PROVE  [set |-> FALSE, operator |-> None, values |-> <<v>>] \in ValuesOfName(name)
<1>. DEFINE vs == [set |-> FALSE, operator |-> None, values |-> <<v>>]
<1>1. v \in AttributeValue /\ IsValue(name, v)
  BY DEF ValueOfName
<1>2. /\ vs \in [set : BOOLEAN, operator : SetOperator \cup {None}, values : Seq(AttributeValue)]
      /\ vs.values = <<v>> /\ vs.operator = None /\ vs.set = FALSE
  BY <1>1
<1>. HIDE DEF vs
<1>3. Len(vs.values) = 1 /\ \A k \in DOMAIN vs.values : vs.values[k] = v
  BY <1>2
<1>4. IsValues(name, vs)
  BY <1>1, <1>2, <1>3 DEF IsValues
<1>5. vs \in ValuesOfName(name)
  BY <1>2, <1>4 DEF ValuesOfName
<1>. QED
  BY <1>5 DEF vs

\* A set of values.
LEMMA SetOfValues ==
    ASSUME NEW name, NEW operator \in SetOperator \cup {None}, NEW s \in Seq(ValueOfName(name)),
           Len(s) <= MAX_SET_VALUES
    PROVE  [set |-> TRUE, operator |-> operator, values |-> s] \in ValuesOfName(name)
<1>. DEFINE vs == [set |-> TRUE, operator |-> operator, values |-> s]
<1>1. ValueOfName(name) \subseteq AttributeValue
  BY DEF ValueOfName
<1>2. s \in Seq(AttributeValue)
  BY <1>1, SeqMono
<1>3. \A k \in DOMAIN s : s[k] \in ValueOfName(name)
  OBVIOUS
<1>4. \A k \in DOMAIN s : IsValue(name, s[k])
  BY <1>3 DEF ValueOfName
<1>5. /\ vs \in [set : BOOLEAN, operator : SetOperator \cup {None}, values : Seq(AttributeValue)]
      /\ vs.values = s /\ vs.operator = operator /\ vs.set = TRUE
  BY <1>2
<1>. HIDE DEF vs
<1>6. IsValues(name, vs)
  BY <1>4, <1>5 DEF IsValues
<1>7. vs \in ValuesOfName(name)
  BY <1>5, <1>6 DEF ValuesOfName
<1>. QED
  BY <1>7 DEF vs

LEMMA ParseSetIs ==
    ASSUME NEW name \in AttributeName, NEW t \in TokenList, NEW first \in DOMAIN t
    PROVE  /\ ParseSet(name, t, first) \in Read(Seq(ValueOfName(name)), t, first)
           /\ ~Failed(ParseSet(name, t, first)) =>
                Len(ParseSet(name, t, first).value) <= MAX_SET_VALUES
<1>. DEFINE r == ParseSet(name, t, first)
<1>1. SetRead(name, t, first, r, first)
  BY SetFromIs DEF SetReads
<1>2. first \in Nat
  BY TokenAt
<1>. HIDE DEF r
<1>3. r \in Read(Seq(ValueOfName(name)), t, first)
  BY <1>1 DEF SetRead
<1>4. ~Failed(r) => Len(r.value) <= MAX_SET_VALUES
  <2>. SUFFICES ASSUME ~Failed(r) PROVE Len(r.value) <= MAX_SET_VALUES
    OBVIOUS
  <2>1. PICK s : s = r.value
    OBVIOUS
  <2>2. s \in Seq(ValueOfName(name))
    BY <1>3, <2>1, ReadValue
  <2>3. first - first + Len(s) <= MAX_SET_VALUES \/ s = <<>>
    BY <1>1, <1>2, <2>1 DEF SetRead
  <2>4. Len(s) \in Nat /\ (s = <<>> => Len(s) = 0)
    BY <2>2
  <2>. QED
    BY <1>2, <2>1, <2>3, <2>4, Bounds
<1>. QED
  BY <1>3, <1>4 DEF r

LEMMA ValuesAfterIs ==
    ASSUME NEW name \in AttributeName, NEW t \in TokenList, NEW i \in DOMAIN t
    PROVE  ParseAttributeValues(name, t, i) \in Read(ValuesOfName(name), t, i)
<1>. DEFINE operator == Operator(t, i)
            r == ParseAttributeValues(name, t, i)
            W == ValuesOfName(name)
<1>1. /\ operator \in SetOperator \cup {None}
      /\ operator # None => t[i].kind = "Word" /\ i + 1 \in DOMAIN t
  BY OperatorIs
<1>2. /\ i \in Nat /\ t[i] \in AToken /\ t[i].offset \in Nat /\ DOMAIN t \in SUBSET Nat
      /\ t[i].kind # "End" => i + 1 \in DOMAIN t
  BY TokenAt
<1>3. r = ValuesAfter(operator, name, t, i)
  BY DEF ParseAttributeValues
<1>. HIDE DEF operator, r
<1>4. CASE operator = None /\ t[i].kind = "End"
  <2>1. r = Fail("UnexpectedEnd", t[i].offset)
    BY <1>3, <1>4 DEF ValuesAfter
  <2>. QED
    BY <1>2, <2>1, ReadFail DEF ErrorKind, r
<1>5. CASE operator = None /\ t[i].kind \notin {"End", "{"}
  <2>. DEFINE value == ValueAt(name, t[i])
  <2>1. r = IF Failed(value) THEN value
            ELSE Good([set |-> FALSE, operator |-> None, values |-> <<value.value>>], i + 1)
    BY <1>3, <1>5 DEF ValuesAfter, Then
  <2>2. \/ value \in Error /\ Failed(value)
        \/ ~Failed(value) /\ value.value \in ValueOfName(name)
    BY <1>2, ValueAtIs
  <2>3. i + 1 \in DOMAIN t /\ i + 1 > i
    <3>1. t[i].kind # "End"
      BY <1>5
    <3>. QED
      BY <3>1, NotTheEnd
  <2>. HIDE DEF value
  <2>4. CASE Failed(value)
    BY <2>1, <2>2, <2>4, ReadErrorAny DEF r
  <2>5. CASE ~Failed(value)
    <3>1. PICK vs : vs = [set |-> FALSE, operator |-> None, values |-> <<value.value>>]
      OBVIOUS
    <3>2. vs \in W
      BY <2>2, <2>5, <3>1, SingleValue
    <3>3. r = Good(vs, i + 1)
      BY <2>1, <2>5, <3>1
    <3>. QED
      BY <2>3, <3>2, <3>3, ReadGood DEF r
  <2>. QED
    BY <2>4, <2>5
<1>6. CASE ~(operator = None /\ t[i].kind # "{")
  <2>. DEFINE j == IF operator = None THEN i ELSE i + 1
              brace == ExpectBrace(t, j)
              set == ParseSet(name, t, brace.next)
  <2>1. r = IF Failed(brace) THEN brace ELSE IF Failed(set) THEN set
            ELSE Good([set |-> TRUE, operator |-> operator, values |-> set.value], set.next)
    <3>1. ~(operator = None /\ t[i].kind = "End") /\ ~(operator = None /\ t[i].kind \notin {"End", "{"})
      BY <1>6
    <3>. QED
      BY <1>3, <3>1 DEF ValuesAfter, Then
  <2>2. j \in DOMAIN t /\ j >= i
    BY <1>1, <1>2
  <2>3. ~Failed(brace) => brace.next \in DOMAIN t /\ brace.next > i
    <3>. HIDE DEF j
    <3>1. ~Failed(brace) => brace.next = j + 1 /\ j + 1 \in DOMAIN t
      BY <2>2, BraceIs
    <3>2. j \in Nat
      BY <2>2, TokenAt
    <3>. QED
      BY <1>2, <2>2, <3>1, <3>2
  <2>4. Failed(brace) => brace \in Error
    <3>. HIDE DEF j
    <3>. QED
      BY <2>2, BraceFails
  <2>. HIDE DEF brace
  <2>5. CASE Failed(brace)
    BY <2>1, <2>4, <2>5, ReadErrorAny DEF r
  <2>6. CASE ~Failed(brace)
    <3>1. /\ set \in Read(Seq(ValueOfName(name)), t, brace.next)
          /\ ~Failed(set) => Len(set.value) <= MAX_SET_VALUES
      BY <2>3, <2>6, ParseSetIs
    <3>. HIDE DEF set
    <3>2. CASE Failed(set)
      BY <2>1, <2>6, <3>1, <3>2, ReadError, ReadErrorAny DEF r
    <3>3. CASE ~Failed(set)
      <4>1. set.value \in Seq(ValueOfName(name)) /\ set.next \in DOMAIN t /\ set.next > brace.next
        BY <3>1, <3>3, ReadValue
      <4>2. set.next > i
        <5>1. set.next \in Nat /\ brace.next \in Nat
          BY <1>2, <2>3, <2>6, <4>1
        <5>. QED
          BY <1>2, <2>3, <2>6, <4>1, <5>1
      <4>3. PICK vs : vs = [set |-> TRUE, operator |-> operator, values |-> set.value]
        OBVIOUS
      <4>4. vs \in W
        BY <1>1, <3>1, <3>3, <4>1, <4>3, SetOfValues
      <4>5. r = Good(vs, set.next)
        BY <2>1, <2>6, <3>3, <4>3
      <4>. QED
        BY <4>1, <4>2, <4>4, <4>5, ReadGood DEF r
    <3>. QED
      BY <3>2, <3>3
  <2>. QED
    BY <2>5, <2>6
<1>. QED
  BY <1>4, <1>5, <1>6

-----------------------------------------------------------------------------
(* Conditions.                                                             *)

ConditionOf(queries) ==
    {c \in Condition : /\ ValidCondition(queries, c.name, c.parameter)
                       /\ c.parameter # None => Closes(c.parameter)}

IsClause(queries, clause) ==
    /\ clause \in ConditionClause
    /\ \A k \in DOMAIN clause.conditions : clause.conditions[k] \in ConditionOf(queries)
    /\ ~clause.set => clause.operator = None /\ Len(clause.conditions) = 1
    /\ clause.set => Len(clause.conditions) <= MAX_SET_VALUES
ClauseOf(queries) == {clause \in ConditionClause : IsClause(queries, clause)}

LEMMA NoneIsNoText == ASSUME NEW s \in Text PROVE s # None
BY RuleLanguageAssumption

\* The condition whose name is at n, read from there on.
LEMMA NamedConditionIs ==
    ASSUME NEW queries, NEW t \in TokenList, NEW n \in DOMAIN t, NEW negated \in BOOLEAN
    PROVE  NamedCondition(negated, Keyword(t[n].text), Parameter(t[n + 1]), queries, t, n)
              \in Read(ConditionOf(queries), t, n)
<1>. DEFINE name == Keyword(t[n].text)
            parameter == Parameter(t[n + 1])
            valid == ValidCondition(queries, name, parameter)
            r == NamedCondition(negated, name, parameter, queries, t, n)
            c == [negated |-> negated, name |-> name, parameter |-> parameter]
            a1 == t[n].kind = "End"
            a2 == t[n].kind \notin {"End", "Word"}
            a3 == t[n].kind = "Word" /\ name \notin ConditionName
            a4 == t[n].kind = "Word" /\ name \in ConditionName /\ ~valid
            offset == IF parameter = None THEN 1 ELSE t[n + 1].offset
            next == IF parameter = None THEN n + 1 ELSE n + 2
<1>1. r = CASE a1 -> Fail("UnexpectedEnd", t[n].offset)
            [] a2 -> Fail("UnexpectedToken", t[n].offset)
            [] a3 -> Fail("UnknownCondition", t[n].offset)
            [] a4 -> Fail("InvalidConditionParameter", offset)
            [] OTHER -> Good(c, next)
  BY DEF NamedCondition
<1>2. t[n].offset \in Nat
  BY TokenAt
<1>3. ASSUME t[n].kind # "End"
      PROVE  /\ n + 1 \in DOMAIN t /\ n + 1 > n /\ n \in Nat
             /\ parameter \in Text \cup {None} /\ offset \in Nat
             /\ parameter # None => Closes(parameter)
             /\ next \in DOMAIN t /\ next > n
  <2>1. n + 1 \in DOMAIN t /\ n \in Nat /\ n + 1 \in Nat /\ n + 1 > n
    BY <1>3, NotTheEnd
  <2>2. /\ t[n + 1].text \in Text /\ t[n + 1].offset \in Nat
        /\ t[n + 1].kind = "Param" => Closes(t[n + 1].text)
    BY <2>1, TokenAt
  <2>3. CASE t[n + 1].kind = "Param"
    <3>1. t[n + 1].kind # "End"
      BY <2>3
    <3>2. (n + 1) + 1 \in DOMAIN t
      BY <2>1, <3>1, NotTheEnd
    <3>3. n + 2 = (n + 1) + 1 /\ n + 2 > n
      BY <2>1
    <3>4. parameter = t[n + 1].text
      BY <2>3 DEF Parameter
    <3>5. next = n + 2
      BY <2>2, <3>4, NoneIsNoText
    <3>6. n + 2 \in DOMAIN t
      BY <3>2, <3>3
    <3>. QED
      BY <2>1, <2>2, <2>3, <3>3, <3>4, <3>5, <3>6
  <2>4. CASE t[n + 1].kind # "Param"
    <3>1. parameter = None
      BY <2>4 DEF Parameter
    <3>. QED
      BY <2>1, <3>1
  <2>. QED
    BY <2>3, <2>4
<1>. SUFFICES r \in Read(ConditionOf(queries), t, n)
  OBVIOUS
<1>. HIDE DEF r, name, parameter, offset, next, valid
<1>4. CASE a1
  <2>1. r = Fail("UnexpectedEnd", t[n].offset)
    <3>1. ~a2 /\ ~a3 /\ ~a4
      BY <1>4
    <3>. HIDE DEF a1, a2, a3, a4, c
    <3>. QED
      BY <1>1, <1>4, <3>1
  <2>. QED
    BY <1>2, <2>1, ReadFail DEF ErrorKind
<1>5. CASE a2
  <2>1. r = Fail("UnexpectedToken", t[n].offset)
    <3>1. ~a1 /\ ~a3 /\ ~a4
      BY <1>5
    <3>. HIDE DEF a1, a2, a3, a4, c
    <3>. QED
      BY <1>1, <1>5, <3>1
  <2>. QED
    BY <1>2, <2>1, ReadFail DEF ErrorKind
<1>6. CASE a3
  <2>1. r = Fail("UnknownCondition", t[n].offset)
    <3>1. ~a1 /\ ~a2 /\ ~a4
      BY <1>6
    <3>. HIDE DEF a1, a2, a3, a4, c
    <3>. QED
      BY <1>1, <1>6, <3>1
  <2>. QED
    BY <1>2, <2>1, ReadFail DEF ErrorKind
<1>7. CASE a4
  <2>1. r = Fail("InvalidConditionParameter", offset)
    <3>1. ~a1 /\ ~a2 /\ ~a3
      BY <1>7
    <3>. HIDE DEF a1, a2, a3, a4, c
    <3>. QED
      BY <1>1, <1>7, <3>1
  <2>2. offset \in Nat
    BY <1>3, <1>7
  <2>. QED
    BY <2>1, <2>2, ReadFail DEF ErrorKind
<1>8. CASE ~a1 /\ ~a2 /\ ~a3 /\ ~a4
  <2>1. r = Good(c, next)
    <3>. HIDE DEF a1, a2, a3, a4, c
    <3>. QED
      BY <1>1, <1>8
  <2>2. t[n].kind # "End" /\ name \in ConditionName /\ valid
    BY <1>8
  <2>3. /\ parameter \in Text \cup {None} /\ next \in DOMAIN t /\ next > n
        /\ parameter # None => Closes(parameter)
    BY <1>3, <2>2
  <2>4. c \in Condition /\ c.name = name /\ c.parameter = parameter
    BY <2>2, <2>3 DEF Condition
  <2>. HIDE DEF c
  <2>5. c \in ConditionOf(queries)
    BY <2>2, <2>3, <2>4 DEF ConditionOf, valid
  <2>. QED
    BY <2>1, <2>3, <2>5, ReadGood
<1>. QED
  BY <1>4, <1>5, <1>6, <1>7, <1>8

LEMMA ReadLater ==
    ASSUME NEW S, NEW t \in TokenList, NEW i \in DOMAIN t, NEW j \in DOMAIN t, i <= j,
           NEW r \in Read(S, t, j)
    PROVE  r \in Read(S, t, i)
<1>1. i \in Nat /\ j \in Nat /\ DOMAIN t \in SUBSET Nat
  BY TokenAt
<1>2. \A k \in DOMAIN t : k > j => k > i
  BY <1>1
<1>. QED
  BY <1>2 DEF Read

LEMMA ParseConditionIs ==
    ASSUME NEW queries, NEW t \in TokenList, NEW i \in DOMAIN t
    PROVE  ParseCondition(queries, t, i) \in Read(ConditionOf(queries), t, i)
<1>. DEFINE n == IF t[i].kind = "!" THEN i + 1 ELSE i
            negated == t[i].kind = "!"
            r == NamedCondition(negated, Keyword(t[n].text), Parameter(t[n + 1]), queries, t, n)
<1>1. ParseCondition(queries, t, i) = r
  BY DEF ParseCondition
<1>2. n \in DOMAIN t /\ i <= n
  <2>1. t[i].kind = "!" => t[i].kind # "End"
    OBVIOUS
  <2>2. t[i].kind = "!" => i + 1 \in DOMAIN t /\ i <= i + 1
    BY <2>1, NotTheEnd
  <2>3. i \in Nat
    BY TokenAt
  <2>. QED
    BY <2>2, <2>3
<1>3. negated \in BOOLEAN
  OBVIOUS
<1>. HIDE DEF n, negated
<1>4. r \in Read(ConditionOf(queries), t, n)
  BY <1>2, <1>3, NamedConditionIs
<1>. HIDE DEF r
<1>5. r \in Read(ConditionOf(queries), t, i)
  BY <1>2, <1>4, ReadLater
<1>. QED
  BY <1>1, <1>5

\* The loop of ParseConditions.
ConditionsStep(f, queries, t, i) == [n \in Nat |->
    CASE t[i].kind = "}" -> Good(<<>>, i + 1)
      [] t[i].kind # "}" /\ n >= MAX_SET_VALUES -> Fail("TooManyValues", t[i].offset)
      [] OTHER -> Then(ParseCondition(queries, t, i), LAMBDA condition :
                       Before(condition.value, f[condition.next][n + 1]))]
ConditionsFrom(queries, t) == CHOOSE f : f = [i \in DOMAIN t |-> ConditionsStep(f, queries, t, i)]

\* There is room for one more condition.
Room(n) == ~(n >= MAX_SET_VALUES)

\* A condition in front of what follows.
Continued(f, condition, n) ==
    IF Failed(condition) THEN condition
    ELSE Before(condition.value, f[condition.next][n + 1])

LEMMA ConditionsEnd ==
    ASSUME NEW f, NEW queries, NEW t \in TokenList, NEW i \in DOMAIN t, NEW n \in Nat,
           t[i].kind = "}"
    PROVE  ConditionsStep(f, queries, t, i)[n] = Good(<<>>, i + 1)
BY DEF ConditionsStep

LEMMA ConditionsFull ==
    ASSUME NEW f, NEW queries, NEW t \in TokenList, NEW i \in DOMAIN t, NEW n \in Nat,
           t[i].kind # "}", n >= MAX_SET_VALUES
    PROVE  ConditionsStep(f, queries, t, i)[n] = Fail("TooManyValues", t[i].offset)
BY DEF ConditionsStep

LEMMA ConditionsGoOn ==
    ASSUME NEW f, NEW queries, NEW t \in TokenList, NEW i \in DOMAIN t, NEW n \in Nat,
           t[i].kind # "}", Room(n)
    PROVE  ConditionsStep(f, queries, t, i)[n]
             = Continued(f, ParseCondition(queries, t, i), n)
BY DEF ConditionsStep, Then, Room, Continued

\* What the loop makes of a place: conditions, no more than are left.
ConditionsRead(queries, t, r, i, n) ==
    /\ r \in Read(Seq(ConditionOf(queries)), t, i)
    /\ ~Failed(r) => n + Len(r.value) <= MAX_SET_VALUES \/ r.value = <<>>
ConditionsReads(queries, t) ==
    {f \in [DOMAIN t -> [Nat -> Read(Seq(ConditionOf(queries)), t, 0)]] :
        \A i \in DOMAIN t : \A n \in Nat : ConditionsRead(queries, t, f[i][n], i, n)}

LEMMA ConditionsReadFails ==
    ASSUME NEW queries, NEW t, NEW r \in Error, NEW i, NEW n
    PROVE  ConditionsRead(queries, t, r, i, n)
BY ReadErrorAny DEF ConditionsRead

LEMMA ConditionsStepIs ==
    ASSUME NEW queries, NEW t \in TokenList, NEW i \in DOMAIN t
    PROVE  /\ \A f, g : SameAfter(DOMAIN t, Len(t), i, f, g) =>
                  ConditionsStep(f, queries, t, i) = ConditionsStep(g, queries, t, i)
           /\ \A f \in ConditionsReads(queries, t) : \A n \in Nat :
                  ConditionsRead(queries, t, ConditionsStep(f, queries, t, i)[n], i, n)
<1>. DEFINE C == ConditionOf(queries)
            condition == ParseCondition(queries, t, i)
<1>1. i \in Nat /\ i <= Len(t) /\ Len(t) \in Nat /\ t[i].offset \in Nat /\ DOMAIN t \in SUBSET Nat
  BY TokenAt
<1>2. condition \in Read(C, t, i)
  BY ParseConditionIs
<1>3. ~Failed(condition) => condition.value \in C /\ condition.next \in DOMAIN t /\ condition.next > i
  BY <1>2, ReadValue
<1>4. Failed(condition) => condition \in Error
  BY <1>2, ReadError
<1>5. ASSUME NEW f, NEW g, SameAfter(DOMAIN t, Len(t), i, f, g)
      PROVE  ConditionsStep(f, queries, t, i) = ConditionsStep(g, queries, t, i)
  <2>1. ASSUME NEW n \in Nat
        PROVE  ConditionsStep(f, queries, t, i)[n] = ConditionsStep(g, queries, t, i)[n]
    <3>1. CASE t[i].kind = "}"
      BY <3>1, ConditionsEnd
    <3>2. CASE t[i].kind # "}" /\ n >= MAX_SET_VALUES
      BY ZenonT(60), <3>2, ConditionsFull
    <3>3. CASE t[i].kind # "}" /\ ~(n >= MAX_SET_VALUES)
      <4>1. ~Failed(condition) => f[condition.next] = g[condition.next]
        BY <1>1, <1>3, <1>5 DEF SameAfter
      <4>2. Room(n)
        BY <3>3 DEF Room
      <4>6. t[i].kind # "}"
        BY <3>3
      <4>7. ConditionsStep(f, queries, t, i)[n] = Continued(f, condition, n)
        BY ONLY ZenonT(60), <4>2, <4>6, ConditionsGoOn, t \in TokenList, i \in DOMAIN t, n \in Nat
      <4>8. ConditionsStep(g, queries, t, i)[n] = Continued(g, condition, n)
        BY ONLY <4>2, <4>6, ConditionsGoOn, t \in TokenList, i \in DOMAIN t, n \in Nat
      <4>3. /\ ConditionsStep(f, queries, t, i)[n] = Continued(f, condition, n)
            /\ ConditionsStep(g, queries, t, i)[n] = Continued(g, condition, n)
        BY <4>7, <4>8
      <4>. HIDE DEF condition
      <4>4. PICK r : r = condition
        OBVIOUS
      <4>5. Continued(f, r, n) = Continued(g, r, n)
        BY <4>1, <4>4 DEF Continued
      <4>. QED
        BY <4>3, <4>4, <4>5
    <3>. QED
      BY <3>1, <3>2, <3>3
  <2>. QED
    BY <2>1 DEF ConditionsStep
<1>6. ASSUME NEW f \in ConditionsReads(queries, t), NEW n \in Nat
      PROVE  ConditionsRead(queries, t, ConditionsStep(f, queries, t, i)[n], i, n)
  <2>. DEFINE r == ConditionsStep(f, queries, t, i)[n]
  <2>1. CASE t[i].kind = "}"
    <3>1. r = Good(<<>>, i + 1)
      BY <2>1, ConditionsEnd
    <3>2. t[i].kind # "End"
      BY <2>1
    <3>3. i + 1 \in DOMAIN t /\ i + 1 > i
      BY <3>2, NotTheEnd
    <3>4. <<>> \in Seq(C)
      BY EmptySeq
    <3>5. Good(<<>>, i + 1) \in Read(Seq(C), t, i) /\ Good(<<>>, i + 1).value = <<>>
      BY <3>3, <3>4, ReadGood, Results
    <3>. QED
      BY <3>1, <3>5 DEF ConditionsRead
  <2>2. CASE t[i].kind # "}" /\ n >= MAX_SET_VALUES
    <3>1. r = Fail("TooManyValues", t[i].offset)
      BY <2>2, ConditionsFull
    <3>2. Fail("TooManyValues", t[i].offset) \in Error
      BY <1>1 DEF Fail, Error, ErrorKind
    <3>. QED
      BY <3>1, <3>2, ConditionsReadFails
  <2>3. CASE t[i].kind # "}" /\ ~(n >= MAX_SET_VALUES)
    <3>0. Room(n)
      BY <2>3 DEF Room
    <3>1. r = Continued(f, condition, n)
      BY ZenonT(60), <2>3, <3>0, ConditionsGoOn
    <3>. HIDE DEF condition
    <3>2. CASE Failed(condition)
      BY <1>4, <3>1, <3>2, ConditionsReadFails DEF Continued
    <3>3. CASE ~Failed(condition)
      <4>1. PICK c, j : c = condition.value /\ j = condition.next
        OBVIOUS
      <4>2. c \in C /\ j \in DOMAIN t /\ j > i
        BY <1>3, <3>3, <4>1
      <4>3. PICK rest : rest = f[j][n + 1]
        OBVIOUS
      <4>4. r = Before(c, rest)
        BY <3>1, <3>3, <4>1, <4>3 DEF Continued
      <4>5. ConditionsRead(queries, t, rest, j, n + 1)
        BY <4>2, <4>3 DEF ConditionsReads
      <4>6. rest \in Read(Seq(C), t, j)
        BY <4>5 DEF ConditionsRead
      <4>7. CASE Failed(rest)
        <5>1. rest \in Error
          BY <4>6, <4>7, ReadError
        <5>. QED
          BY <4>4, <4>7, <5>1, BeforeFails, ConditionsReadFails
      <4>8. CASE ~Failed(rest)
        <5>1. PICK cs, k : cs = rest.value /\ k = rest.next
          OBVIOUS
        <5>2. cs \in Seq(C) /\ k \in DOMAIN t /\ k > j
          BY <4>6, <4>8, <5>1, ReadValue
        <5>. DEFINE all == <<c>> \o cs
        <5>3. all \in Seq(C) /\ Len(all) = Len(cs) + 1 /\ Len(cs) \in Nat
          BY <4>2, <5>2
        <5>4. k > i
          <6>1. k \in Nat /\ j \in Nat
            BY <4>2, <5>2, TokenAt
          <6>. QED
            BY <1>1, <4>2, <5>2, <6>1
        <5>5. r = Good(all, k)
          BY <4>4, <4>8, <5>1, BeforeGives
        <5>6. n + Len(all) <= MAX_SET_VALUES
          <6>1. (n + 1) + Len(cs) <= MAX_SET_VALUES \/ cs = <<>>
            BY <4>5, <4>8, <5>1 DEF ConditionsRead
          <6>2. cs = <<>> => Len(cs) = 0
            OBVIOUS
          <6>3. ~(n >= MAX_SET_VALUES)
            BY <2>3
          <6>. QED
            BY <5>3, <6>1, <6>2, <6>3, Bounds
        <5>. HIDE DEF all
        <5>7. Good(all, k) \in Read(Seq(C), t, i) /\ Good(all, k).value = all
          BY <5>2, <5>3, <5>4, ReadGood, Results
        <5>. QED
          BY <5>5, <5>6, <5>7 DEF ConditionsRead
      <4>. QED
        BY <4>7, <4>8
    <3>. QED
      BY <3>2, <3>3
  <2>. QED
    BY <2>1, <2>2, <2>3
<1>. QED
  BY <1>5, <1>6

LEMMA ConditionsFromIs ==
    ASSUME NEW queries, NEW t \in TokenList
    PROVE  /\ ConditionsFrom(queries, t) \in ConditionsReads(queries, t)
           /\ \A i \in DOMAIN t : ConditionsFrom(queries, t)[i]
                                    = ConditionsStep(ConditionsFrom(queries, t), queries, t, i)
           /\ \A first : ParseConditions(queries, t, first) = ConditionsFrom(queries, t)[first][0]
<1>. DEFINE D == DOMAIN t
            V == [Nat -> Read(Seq(ConditionOf(queries)), t, 0)]
            T == ConditionsReads(queries, t)
            F == ConditionsFrom(queries, t)
            G == [f \in T |-> [i \in D |-> ConditionsStep(f, queries, t, i)]]
<1>1. D \in SUBSET Nat /\ Len(t) \in Nat
  BY DEF TokenList
<1>2. T # {} /\ T \in SUBSET [D -> V]
  <2>1. PICK r : r \in Error
    BY ErrorExists
  <2>. DEFINE c == [i \in D |-> [n \in Nat |-> r]]
  <2>2. c \in [D -> V]
    BY <2>1, ReadErrorAny
  <2>3. \A i \in D : \A n \in Nat : ConditionsRead(queries, t, c[i][n], i, n)
    BY <2>1, ConditionsReadFails
  <2>4. c \in T
    BY <2>2, <2>3 DEF ConditionsReads
  <2>. HIDE DEF c
  <2>. QED
    BY <2>4 DEF ConditionsReads
<1>3. ASSUME NEW f \in [D -> V],
             \A i \in D : \A n \in Nat : ConditionsRead(queries, t, f[i][n], i, n)
      PROVE  f \in T
  BY <1>3 DEF ConditionsReads
<1>4. \A f \in T : [i \in D |-> ConditionsStep(f, queries, t, i)] \in T
  <2>. SUFFICES ASSUME NEW f \in T PROVE [i \in D |-> ConditionsStep(f, queries, t, i)] \in T
    OBVIOUS
  <2>. DEFINE h == [i \in D |-> ConditionsStep(f, queries, t, i)]
  <2>1. \A i \in D : \A n \in Nat : ConditionsRead(queries, t, h[i][n], i, n)
    BY ConditionsStepIs
  <2>2. \A r, i, n : i \in D /\ ConditionsRead(queries, t, r, i, n) =>
            r \in Read(Seq(ConditionOf(queries)), t, 0)
    <3>1. \A i \in D : i > 0 /\ i \in Nat
      BY TokenAt
    <3>. QED
      BY <1>1, <3>1 DEF ConditionsRead, Read
  <2>3. \A i \in D : h[i] \in V
    <3>. SUFFICES ASSUME NEW i \in D PROVE h[i] \in V
      OBVIOUS
    <3>1. \A n \in Nat : h[i][n] \in Read(Seq(ConditionOf(queries)), t, 0)
      BY <2>1, <2>2
    <3>2. h[i] = ConditionsStep(f, queries, t, i)
      OBVIOUS
    <3>. QED
      BY <3>1, <3>2 DEF ConditionsStep
  <2>4. h \in [D -> V]
    BY <2>3
  <2>. QED
    BY <1>3, <2>1, <2>4
<1>5. G \in [T -> T]
  BY <1>4
<1>6. ASSUME NEW f \in T, NEW g \in T, NEW i \in D, SameAfter(D, Len(t), i, f, g)
      PROVE  G[f][i] = G[g][i]
  BY <1>6, ConditionsStepIs
<1>7. LooksAheadIn(D, V, T, Len(t), G)
  <2>. HIDE DEF G, T, V, D
  <2>. QED
    BY <1>1, <1>2, <1>5, <1>6 DEF LooksAheadIn
<1>8. PICK f \in T : f = G[f]
  <2>. HIDE DEF G, V, T, D
  <2>. QED
    BY <1>7, RecursionIn
<1>9. f = [i \in D |-> ConditionsStep(f, queries, t, i)]
  BY <1>8
<1>10. F = [i \in D |-> ConditionsStep(F, queries, t, i)]
  BY <1>9 DEF ConditionsFrom
<1>. HIDE DEF F
<1>11. \A i \in D : F[i] = f[i]
  <2>1. ASSUME NEW i \in D, SameAfter(D, Len(t), i, F, f) PROVE F[i] = f[i]
    BY <1>9, <1>10, <2>1, ConditionsStepIs
  <2>2. AlikeAhead(D, Len(t), F, f)
    BY <1>1, <2>1 DEF AlikeAhead
  <2>. HIDE DEF D
  <2>. QED
    BY <2>2, Agree
<1>12. F = f
  BY <1>9, <1>10, <1>11
<1>13. \A first : ParseConditions(queries, t, first) = F[first][0]
  BY DEF ParseConditions, F, ConditionsFrom, ConditionsStep
<1>. QED
  BY <1>8, <1>10, <1>12, <1>13 DEF F

LEMMA ParseConditionsIs ==
    ASSUME NEW queries, NEW t \in TokenList, NEW first \in DOMAIN t
    PROVE  ConditionsRead(queries, t, ParseConditions(queries, t, first), first, 0)
<1>1. ConditionsRead(queries, t, ConditionsFrom(queries, t)[first][0], first, 0)
  BY ConditionsFromIs DEF ConditionsReads
<1>. QED
  BY <1>1, ConditionsFromIs

\* One condition, as ParseConditionClause returns it.
LEMMA SingleCondition ==
    ASSUME NEW queries, NEW c \in ConditionOf(queries)
    PROVE  [set |-> FALSE, operator |-> None, conditions |-> <<c>>] \in ClauseOf(queries)
<1>. DEFINE clause == [set |-> FALSE, operator |-> None, conditions |-> <<c>>]
<1>1. c \in Condition
  BY DEF ConditionOf
<1>2. /\ clause \in ConditionClause
      /\ clause.conditions = <<c>> /\ clause.operator = None /\ clause.set = FALSE
  BY <1>1 DEF ConditionClause
<1>. HIDE DEF clause
<1>3. Len(clause.conditions) = 1 /\ \A k \in DOMAIN clause.conditions : clause.conditions[k] = c
  BY <1>2
<1>4. IsClause(queries, clause)
  BY <1>2, <1>3 DEF IsClause
<1>5. clause \in ClauseOf(queries)
  BY <1>2, <1>4 DEF ClauseOf
<1>. QED
  BY <1>5 DEF clause

\* A set of conditions.
LEMMA SetOfConditions ==
    ASSUME NEW queries, NEW operator \in SetOperator \cup {None},
           NEW s \in Seq(ConditionOf(queries)), Len(s) <= MAX_SET_VALUES
    PROVE  [set |-> TRUE, operator |-> operator, conditions |-> s] \in ClauseOf(queries)
<1>. DEFINE clause == [set |-> TRUE, operator |-> operator, conditions |-> s]
<1>1. ConditionOf(queries) \subseteq Condition
  BY DEF ConditionOf
<1>2. s \in Seq(Condition)
  BY <1>1, SeqMono
<1>3. \A k \in DOMAIN s : s[k] \in ConditionOf(queries)
  OBVIOUS
<1>4. /\ clause \in ConditionClause
      /\ clause.conditions = s /\ clause.operator = operator /\ clause.set = TRUE
  BY <1>2 DEF ConditionClause
<1>. HIDE DEF clause
<1>5. IsClause(queries, clause)
  BY <1>3, <1>4 DEF IsClause
<1>6. clause \in ClauseOf(queries)
  BY <1>4, <1>5 DEF ClauseOf
<1>. QED
  BY <1>6 DEF clause

LEMMA ParseConditionClauseIs ==
    ASSUME NEW queries, NEW t \in TokenList, NEW i \in DOMAIN t
    PROVE  ParseConditionClause(queries, t, i) \in Read(ClauseOf(queries), t, i)
<1>. DEFINE operator == Operator(t, i)
            n == IF operator = None THEN i ELSE i + 1
            r == ParseConditionClause(queries, t, i)
            W == ClauseOf(queries)
<1>1. /\ operator \in SetOperator \cup {None}
      /\ operator # None => t[i].kind = "Word" /\ i + 1 \in DOMAIN t
  BY OperatorIs
<1>2. i \in Nat /\ DOMAIN t \in SUBSET Nat
  BY TokenAt
<1>3. n \in DOMAIN t /\ i <= n
  BY <1>1, <1>2
<1>4. r = ConditionsAfter(operator, queries, t, n)
  BY DEF ParseConditionClause
<1>. SUFFICES r \in Read(W, t, i)
  OBVIOUS
<1>. HIDE DEF operator, r, n
<1>5. CASE t[n].kind # "{" /\ operator # None
  <2>1. r = ExpectBrace(t, n)
    BY <1>4, <1>5 DEF ConditionsAfter
  <2>2. Failed(r)
    BY <1>3, <1>5, <2>1, BraceIs
  <2>3. r \in Error
    BY <1>3, <2>1, <2>2, BraceFails
  <2>. QED
    BY <2>3, ReadErrorAny
<1>6. CASE t[n].kind # "{" /\ operator = None
  <2>. DEFINE single == ParseCondition(queries, t, n)
  <2>1. r = IF Failed(single) THEN single
            ELSE Good([set |-> FALSE, operator |-> None, conditions |-> <<single.value>>],
                      single.next)
    BY <1>4, <1>6 DEF ConditionsAfter, Then
  <2>2. single \in Read(ConditionOf(queries), t, n)
    BY <1>3, ParseConditionIs
  <2>3. single \in Read(ConditionOf(queries), t, i)
    BY <1>3, <2>2, ReadLater
  <2>. HIDE DEF single
  <2>4. CASE Failed(single)
    BY <2>1, <2>3, <2>4, ReadError, ReadErrorAny
  <2>5. CASE ~Failed(single)
    <3>1. single.value \in ConditionOf(queries) /\ single.next \in DOMAIN t /\ single.next > i
      BY <2>3, <2>5, ReadValue
    <3>2. PICK clause : clause = [set |-> FALSE, operator |-> None, conditions |-> <<single.value>>]
      OBVIOUS
    <3>3. clause \in W
      BY <3>1, <3>2, SingleCondition
    <3>4. r = Good(clause, single.next)
      BY <2>1, <2>5, <3>2
    <3>. QED
      BY <3>1, <3>3, <3>4, ReadGood
  <2>. QED
    BY <2>4, <2>5
<1>7. CASE t[n].kind = "{"
  <2>. DEFINE set == ParseConditions(queries, t, n + 1)
  <2>1. r = IF Failed(set) THEN set
            ELSE Good([set |-> TRUE, operator |-> operator, conditions |-> set.value], set.next)
    BY <1>4, <1>7 DEF ConditionsAfter, Then
  <2>2. t[n].kind # "End"
    BY <1>7
  <2>3. n + 1 \in DOMAIN t /\ i <= n + 1
    <3>1. n \in Nat /\ n + 1 \in DOMAIN t
      BY <1>3, <2>2, NotTheEnd
    <3>. QED
      BY <1>2, <1>3, <3>1
  <2>4. ConditionsRead(queries, t, set, n + 1, 0)
    BY <2>3, ParseConditionsIs
  <2>5. set \in Read(Seq(ConditionOf(queries)), t, n + 1)
    BY <2>4 DEF ConditionsRead
  <2>6. set \in Read(Seq(ConditionOf(queries)), t, i)
    BY <2>3, <2>5, ReadLater
  <2>. HIDE DEF set
  <2>7. CASE Failed(set)
    BY <2>1, <2>6, <2>7, ReadError, ReadErrorAny
  <2>8. CASE ~Failed(set)
    <3>1. PICK s, j : s = set.value /\ j = set.next
      OBVIOUS
    <3>2. s \in Seq(ConditionOf(queries)) /\ j \in DOMAIN t /\ j > i
      BY <2>6, <2>8, <3>1, ReadValue
    <3>3. Len(s) <= MAX_SET_VALUES
      <4>1. 0 + Len(s) <= MAX_SET_VALUES \/ s = <<>>
        BY <2>4, <2>8, <3>1 DEF ConditionsRead
      <4>2. Len(s) \in Nat /\ (s = <<>> => Len(s) = 0)
        BY <3>2
      <4>. QED
        BY <4>1, <4>2, Bounds
    <3>4. PICK clause : clause = [set |-> TRUE, operator |-> operator, conditions |-> s]
      OBVIOUS
    <3>5. clause \in W
      BY <1>1, <3>2, <3>3, <3>4, SetOfConditions
    <3>6. r = Good(clause, j)
      BY <2>1, <2>8, <3>1, <3>4
    <3>. QED
      BY <3>2, <3>5, <3>6, ReadGood
  <2>. QED
    BY <2>7, <2>8
<1>. QED
  BY <1>5, <1>6, <1>7

-----------------------------------------------------------------------------
(* Attributes.                                                             *)

AttributeOf == {a \in Attribute : a.values \in ValuesOfName(a.name)}

\* Every attribute has a name of its own.
Distinct(attributes, seen) ==
    \A j \in DOMAIN attributes :
        /\ attributes[j].name \notin seen
        /\ \A k \in DOMAIN attributes : attributes[j].name = attributes[k].name => j = k

ReadFrom(S, t, i) == Error \cup [value : S, next : {j \in DOMAIN t : j >= i}]

LEMMA ReadFromError ==
    ASSUME NEW r \in Error, NEW S, NEW t, NEW i
    PROVE  r \in ReadFrom(S, t, i) /\ Failed(r)
BY DEF ReadFrom, Error, Failed

LEMMA ReadFromFailed ==
    ASSUME NEW S, NEW t, NEW i, NEW r \in ReadFrom(S, t, i), Failed(r)
    PROVE  r \in Error
<1>1. CASE r \in [value : S, next : {j \in DOMAIN t : j >= i}]
  BY <1>1 DEF Failed
<1>. QED
  BY <1>1 DEF ReadFrom

LEMMA ReadFromValue ==
    ASSUME NEW S, NEW t, NEW i, NEW r \in ReadFrom(S, t, i), ~Failed(r)
    PROVE  r.value \in S /\ r.next \in DOMAIN t /\ r.next >= i
BY DEF ReadFrom, Error, Failed

LEMMA ReadFromGood ==
    ASSUME NEW S, NEW t, NEW i, NEW value \in S, NEW j \in DOMAIN t, j >= i
    PROVE  Good(value, j) \in ReadFrom(S, t, i)
BY DEF Good, ReadFrom

LEMMA NamedAttributeIs ==
    ASSUME NEW name \in AttributeName, NEW t \in TokenList, NEW i \in DOMAIN t, t[i].kind # "End"
    PROVE  /\ NamedAttribute(name, t, i) \in Read(AttributeOf, t, i)
           /\ ~Failed(NamedAttribute(name, t, i)) => NamedAttribute(name, t, i).value.name = name
<1>. DEFINE values == ParseAttributeValues(name, t, i + 1)
            r == NamedAttribute(name, t, i)
<1>1. r = IF Failed(values) THEN values
          ELSE Good([name |-> name, values |-> values.value], values.next)
  BY DEF NamedAttribute, Then
<1>2. i + 1 \in DOMAIN t /\ i <= i + 1
  <2>1. i + 1 \in DOMAIN t /\ i \in Nat
    BY NotTheEnd
  <2>. QED
    BY <2>1
<1>3. values \in Read(ValuesOfName(name), t, i + 1)
  BY <1>2, ValuesAfterIs
<1>4. values \in Read(ValuesOfName(name), t, i)
  BY <1>2, <1>3, ReadLater
<1>. SUFFICES r \in Read(AttributeOf, t, i) /\ (~Failed(r) => r.value.name = name)
  OBVIOUS
<1>. HIDE DEF r, values
<1>5. CASE Failed(values)
  BY <1>1, <1>4, <1>5, ReadError, ReadErrorAny
<1>6. CASE ~Failed(values)
  <2>1. PICK vs, j : vs = values.value /\ j = values.next
    OBVIOUS
  <2>2. vs \in ValuesOfName(name) /\ j \in DOMAIN t /\ j > i
    BY <1>4, <1>6, <2>1, ReadValue
  <2>3. PICK a : a = [name |-> name, values |-> vs]
    OBVIOUS
  <2>4. a.name = name /\ a \in AttributeOf
    <3>1. vs \in [set : BOOLEAN, operator : SetOperator \cup {None}, values : Seq(AttributeValue)]
      BY <2>2 DEF ValuesOfName
    <3>2. a \in Attribute /\ a.name = name /\ a.values = vs
      BY <2>3, <3>1 DEF Attribute
    <3>. QED
      BY <2>2, <3>2 DEF AttributeOf
  <2>5. r = Good(a, j)
    BY <1>1, <1>6, <2>1, <2>3
  <2>6. Good(a, j) \in Read(AttributeOf, t, i) /\ Good(a, j).value = a
    BY <2>2, <2>4, ReadGood, Results
  <2>. QED
    BY <2>4, <2>5, <2>6
<1>. QED
  BY <1>5, <1>6

\* The loop of ParseAttributes.
AttributeAt(f, name, seen, t, i) ==
    CASE t[i].kind \in {"Comment", "End"} \/ (t[i].kind = "Word" /\ name = "if") -> Good(<<>>, i)
      [] t[i].kind \notin {"Comment", "End", "Word"} -> Fail("UnexpectedToken", t[i].offset)
      [] t[i].kind = "Word" /\ name \notin AttributeName \cup {"if"} ->
            Fail("UnknownAttribute", t[i].offset)
      [] t[i].kind = "Word" /\ name \in seen -> Fail("DuplicateAttribute", t[i].offset)
      [] OTHER -> Then(NamedAttribute(name, t, i), LAMBDA attribute :
                       Before(attribute.value, f[attribute.next][seen \cup {name}]))
AttributesStep(f, t, i) ==
    [seen \in SUBSET AttributeName |-> AttributeAt(f, Keyword(t[i].text), seen, t, i)]
AttributesFrom(t) == CHOOSE f : f = [i \in DOMAIN t |-> AttributesStep(f, t, i)]

\* The attributes end at a token.
EndsAttributes(name, token) ==
    token.kind \in {"Comment", "End"} \/ (token.kind = "Word" /\ name = "if")

\* An attribute begins there.
BeginsAttribute(name, seen, token) ==
    token.kind = "Word" /\ name \in AttributeName /\ name \notin seen

AttributeError(name, seen, token) ==
    CASE token.kind \notin {"Comment", "End", "Word"} -> Fail("UnexpectedToken", token.offset)
      [] token.kind = "Word" /\ name \notin AttributeName \cup {"if"} ->
            Fail("UnknownAttribute", token.offset)
      [] OTHER -> Fail("DuplicateAttribute", token.offset)

WithAttribute(f, attribute, seen) ==
    IF Failed(attribute) THEN attribute
    ELSE Before(attribute.value, f[attribute.next][seen])

LEMMA NoIfAttribute == "if" \notin AttributeName
BY DEF AttributeName, StringAttributes

LEMMA AttributesStop ==
    ASSUME NEW f, NEW name, NEW seen \in SUBSET AttributeName, NEW t \in TokenList, NEW i \in DOMAIN t,
           EndsAttributes(name, t[i])
    PROVE  AttributeAt(f, name, seen, t, i) = Good(<<>>, i)
<1>1. "if" \notin AttributeName /\ seen \subseteq AttributeName
  BY NoIfAttribute
<1>. QED
  BY <1>1 DEF AttributeAt, EndsAttributes

LEMMA AttributesFail ==
    ASSUME NEW f, NEW name, NEW seen \in SUBSET AttributeName, NEW t \in TokenList, NEW i \in DOMAIN t,
           ~EndsAttributes(name, t[i]), ~BeginsAttribute(name, seen, t[i])
    PROVE  AttributeAt(f, name, seen, t, i) = AttributeError(name, seen, t[i])
BY DEF AttributeAt, EndsAttributes, BeginsAttribute, AttributeError

LEMMA AttributesGoOn ==
    ASSUME NEW f, NEW name, NEW seen \in SUBSET AttributeName, NEW t \in TokenList, NEW i \in DOMAIN t,
           BeginsAttribute(name, seen, t[i])
    PROVE  /\ ~EndsAttributes(name, t[i])
           /\ AttributeAt(f, name, seen, t, i)
                = WithAttribute(f, NamedAttribute(name, t, i), seen \cup {name})
<1>1. "if" \notin AttributeName
  BY NoIfAttribute
<1>. QED
  BY <1>1 DEF AttributeAt, EndsAttributes, BeginsAttribute, WithAttribute, Then

LEMMA AttributeErrorIs ==
    ASSUME NEW name, NEW seen, NEW token \in AToken
    PROVE  AttributeError(name, seen, token) \in Error
<1>1. token.offset \in Nat
  BY DEF AToken
<1>. QED
  BY <1>1 DEF AttributeError, Fail, Error, ErrorKind

\* A member in front of a sequence.
InFront(S, x, s, all) ==
    /\ all \in Seq(S) /\ Len(all) = Len(s) + 1 /\ all[1] = x
    /\ \A m \in DOMAIN all : m = 1 \/ \E j \in DOMAIN s : m = j + 1 /\ all[m] = s[j]

LEMMA ConsIs ==
    ASSUME NEW S, NEW x \in S, NEW s \in Seq(S)
    PROVE  InFront(S, x, s, <<x>> \o s)
<1>. DEFINE all == <<x>> \o s
<1>1. Len(s) \in Nat /\ DOMAIN s = 1..Len(s)
  OBVIOUS
<1>2. /\ all \in Seq(S) /\ Len(all) = Len(s) + 1 /\ all[1] = x
      /\ \A i \in 1..Len(all) : i # 1 => all[i] = s[i - 1]
  BY <1>1
<1>. SUFFICES InFront(S, x, s, all)
  OBVIOUS
<1>. HIDE DEF all
<1>3. ASSUME NEW m \in DOMAIN all, m # 1 PROVE \E j \in DOMAIN s : m = j + 1 /\ all[m] = s[j]
  <2>1. m \in 1..Len(all)
    BY <1>2
  <2>2. m - 1 \in 1..Len(s) /\ m = (m - 1) + 1
    BY <1>1, <1>2, <1>3, <2>1
  <2>3. all[m] = s[m - 1]
    BY <1>2, <1>3, <2>1
  <2>. QED
    BY <1>1, <2>2, <2>3
<1>. QED
  BY <1>2, <1>3 DEF InFront

LEMMA DistinctAnd ==
    ASSUME NEW a \in AttributeOf, NEW as \in Seq(AttributeOf), NEW seen, a.name \notin seen,
           Distinct(as, seen \cup {a.name})
    PROVE  Distinct(<<a>> \o as, seen)
<1>. DEFINE all == <<a>> \o as
<1>0. InFront(AttributeOf, a, as, all)
  BY ConsIs
<1>1. /\ all[1] = a
      /\ \A m \in DOMAIN all : m = 1 \/ \E j \in DOMAIN as : m = j + 1 /\ all[m] = as[j]
  BY <1>0 DEF InFront
<1>2. /\ \A j \in DOMAIN as : as[j].name \notin seen /\ as[j].name # a.name
      /\ \A j, k \in DOMAIN as : as[j].name = as[k].name => j = k
  BY DEF Distinct
<1>. HIDE DEF all
<1>3. ASSUME NEW j \in DOMAIN all PROVE all[j].name \notin seen
  BY <1>1, <1>2
<1>4. ASSUME NEW j \in DOMAIN all, NEW k \in DOMAIN all, all[j].name = all[k].name PROVE j = k
  <2>1. CASE j = 1 \/ k = 1
    BY ZenonT(60), <1>1, <1>2, <1>4, <2>1
  <2>2. CASE j # 1 /\ k # 1
    <3>1. PICK p \in DOMAIN as : j = p + 1 /\ all[j] = as[p]
      BY <1>1, <2>2
    <3>2. PICK q \in DOMAIN as : k = q + 1 /\ all[k] = as[q]
      BY <1>1, <2>2
    <3>3. p = q
      BY <1>2, <1>4, <3>1, <3>2
    <3>. QED
      BY <3>1, <3>2, <3>3
  <2>. QED
    BY <2>1, <2>2
<1>5. Distinct(all, seen)
  BY <1>3, <1>4 DEF Distinct
<1>. QED
  BY <1>5 DEF all

\* What the loop makes of a place: attributes with names not seen before.
AttributesRead(t, r, i, seen) ==
    /\ r \in ReadFrom(Seq(AttributeOf), t, i)
    /\ ~Failed(r) => Distinct(r.value, seen)
AttributesReads(t) ==
    {f \in [DOMAIN t -> [SUBSET AttributeName -> ReadFrom(Seq(AttributeOf), t, 0)]] :
        \A i \in DOMAIN t : \A seen \in SUBSET AttributeName : AttributesRead(t, f[i][seen], i, seen)}

LEMMA AttributesReadFails ==
    ASSUME NEW t, NEW r \in Error, NEW i, NEW seen
    PROVE  AttributesRead(t, r, i, seen)
BY ReadFromError DEF AttributesRead

LEMMA AttributeAtIs ==
    ASSUME NEW t \in TokenList, NEW i \in DOMAIN t, NEW name, NEW seen \in SUBSET AttributeName
    PROVE  /\ \A f, g : SameAfter(DOMAIN t, Len(t), i, f, g) =>
                  AttributeAt(f, name, seen, t, i) = AttributeAt(g, name, seen, t, i)
           /\ \A f \in AttributesReads(t) :
                  AttributesRead(t, AttributeAt(f, name, seen, t, i), i, seen)
<1>1. i \in Nat /\ i <= Len(t) /\ Len(t) \in Nat /\ t[i] \in AToken /\ DOMAIN t \in SUBSET Nat
  BY TokenAt
<1>2. CASE EndsAttributes(name, t[i])
  <2>1. \A f : AttributeAt(f, name, seen, t, i) = Good(<<>>, i)
    BY <1>2, AttributesStop
  <2>2. <<>> \in Seq(AttributeOf) /\ i >= i
    <3>1. <<>> \in Seq(AttributeOf)
      BY EmptySeq
    <3>. QED
      BY <1>1, <3>1
  <2>3. Good(<<>>, i) \in ReadFrom(Seq(AttributeOf), t, i) /\ Good(<<>>, i).value = <<>>
    BY <2>2, ReadFromGood, Results
  <2>4. Distinct(<<>>, seen)
    BY DEF Distinct
  <2>5. AttributesRead(t, Good(<<>>, i), i, seen)
    BY <2>3, <2>4 DEF AttributesRead
  <2>. QED
    BY <2>1, <2>5
<1>3. CASE ~EndsAttributes(name, t[i]) /\ ~BeginsAttribute(name, seen, t[i])
  <2>1. \A f : AttributeAt(f, name, seen, t, i) = AttributeError(name, seen, t[i])
    BY <1>3, AttributesFail
  <2>2. AttributeError(name, seen, t[i]) \in Error
    BY <1>1, AttributeErrorIs
  <2>. QED
    BY <2>1, <2>2, AttributesReadFails
<1>4. CASE BeginsAttribute(name, seen, t[i])
  <2>. DEFINE attribute == NamedAttribute(name, t, i)
  <2>1. \A f : AttributeAt(f, name, seen, t, i) = WithAttribute(f, attribute, seen \cup {name})
    BY <1>4, AttributesGoOn
  <2>2. name \in AttributeName /\ name \notin seen /\ t[i].kind # "End"
    BY <1>4 DEF BeginsAttribute
  <2>3. /\ attribute \in Read(AttributeOf, t, i)
        /\ ~Failed(attribute) => attribute.value.name = name
    BY <2>2, NamedAttributeIs
  <2>4. ~Failed(attribute) => /\ attribute.value \in AttributeOf
                              /\ attribute.next \in DOMAIN t /\ attribute.next > i
    BY <2>3, ReadValue
  <2>. HIDE DEF attribute
  <2>5. ASSUME NEW f, NEW g, SameAfter(DOMAIN t, Len(t), i, f, g)
        PROVE  AttributeAt(f, name, seen, t, i) = AttributeAt(g, name, seen, t, i)
    <3>1. ~Failed(attribute) => f[attribute.next] = g[attribute.next]
      BY <1>1, <2>4, <2>5 DEF SameAfter
    <3>. QED
      BY <2>1, <3>1 DEF WithAttribute
  <2>6. ASSUME NEW f \in AttributesReads(t)
        PROVE  AttributesRead(t, AttributeAt(f, name, seen, t, i), i, seen)
    <3>1. CASE Failed(attribute)
      <4>1. attribute \in Error
        BY <2>3, <3>1, ReadError
      <4>. QED
        BY <2>1, <3>1, <4>1, AttributesReadFails DEF WithAttribute
    <3>2. CASE ~Failed(attribute)
      <4>1. PICK a, j, after : a = attribute.value /\ j = attribute.next /\ after = seen \cup {name}
        OBVIOUS
      <4>2. a \in AttributeOf /\ a.name = name /\ j \in DOMAIN t /\ j > i
        BY <2>3, <2>4, <3>2, <4>1
      <4>3. PICK rest : rest = f[j][after]
        OBVIOUS
      <4>4. AttributeAt(f, name, seen, t, i) = Before(a, rest)
        BY <2>1, <3>2, <4>1, <4>3 DEF WithAttribute
      <4>5. after \in SUBSET AttributeName
        BY <2>2, <4>1
      <4>6. AttributesRead(t, rest, j, after)
        BY <4>2, <4>3, <4>5 DEF AttributesReads
      <4>7. rest \in ReadFrom(Seq(AttributeOf), t, j)
        BY <4>6 DEF AttributesRead
      <4>8. CASE Failed(rest)
        <5>1. rest \in Error
          BY <4>7, <4>8, ReadFromFailed
        <5>. QED
          BY <4>4, <4>8, <5>1, BeforeFails, AttributesReadFails
      <4>9. CASE ~Failed(rest)
        <5>1. PICK as, k : as = rest.value /\ k = rest.next
          OBVIOUS
        <5>2. as \in Seq(AttributeOf) /\ k \in DOMAIN t /\ k >= j
          BY <4>7, <4>9, <5>1, ReadFromValue
        <5>. DEFINE all == <<a>> \o as
        <5>3. all \in Seq(AttributeOf)
          <6>1. InFront(AttributeOf, a, as, all)
            BY <4>2, <5>2, ConsIs
          <6>. QED
            BY <6>1 DEF InFront
        <5>4. k >= i
          <6>1. k \in Nat /\ j \in Nat
            BY <4>2, <5>2, TokenAt
          <6>. QED
            BY <1>1, <4>2, <5>2, <6>1
        <5>5. Distinct(all, seen)
          <6>1. Distinct(as, seen \cup {a.name})
            BY <4>1, <4>2, <4>6, <4>9, <5>1 DEF AttributesRead
          <6>. QED
            BY <2>2, <4>2, <5>2, <6>1, DistinctAnd
        <5>6. AttributeAt(f, name, seen, t, i) = Good(all, k)
          BY <4>4, <4>9, <5>1, BeforeGives
        <5>. HIDE DEF all
        <5>7. Good(all, k) \in ReadFrom(Seq(AttributeOf), t, i) /\ Good(all, k).value = all
          BY <5>2, <5>3, <5>4, ReadFromGood, Results
        <5>. QED
          BY <5>5, <5>6, <5>7 DEF AttributesRead
      <4>. QED
        BY <4>8, <4>9
    <3>. QED
      BY <3>1, <3>2
  <2>. QED
    BY <2>5, <2>6
<1>. QED
  BY <1>2, <1>3, <1>4

LEMMA AttributesStepIs ==
    ASSUME NEW t \in TokenList, NEW i \in DOMAIN t
    PROVE  /\ \A f, g : SameAfter(DOMAIN t, Len(t), i, f, g) =>
                  AttributesStep(f, t, i) = AttributesStep(g, t, i)
           /\ \A f \in AttributesReads(t) : \A seen \in SUBSET AttributeName :
                  AttributesRead(t, AttributesStep(f, t, i)[seen], i, seen)
<1>. DEFINE name == Keyword(t[i].text)
<1>1. \A f : \A seen \in SUBSET AttributeName :
        AttributesStep(f, t, i)[seen] = AttributeAt(f, name, seen, t, i)
  BY DEF AttributesStep
<1>2. ASSUME NEW f, NEW g, SameAfter(DOMAIN t, Len(t), i, f, g)
      PROVE  AttributesStep(f, t, i) = AttributesStep(g, t, i)
  <2>1. \A seen \in SUBSET AttributeName :
            AttributeAt(f, name, seen, t, i) = AttributeAt(g, name, seen, t, i)
    BY <1>2, AttributeAtIs
  <2>. QED
    BY <2>1 DEF AttributesStep
<1>3. \A f \in AttributesReads(t) : \A seen \in SUBSET AttributeName :
        AttributesRead(t, AttributesStep(f, t, i)[seen], i, seen)
  BY <1>1, AttributeAtIs
<1>. QED
  BY <1>2, <1>3

LEMMA AttributesFromIs ==
    ASSUME NEW t \in TokenList
    PROVE  /\ AttributesFrom(t) \in AttributesReads(t)
           /\ \A i \in DOMAIN t : AttributesFrom(t)[i] = AttributesStep(AttributesFrom(t), t, i)
           /\ \A first : ParseAttributes(t, first) = AttributesFrom(t)[first][{}]
<1>. DEFINE D == DOMAIN t
            V == [SUBSET AttributeName -> ReadFrom(Seq(AttributeOf), t, 0)]
            T == AttributesReads(t)
            F == AttributesFrom(t)
            G == [f \in T |-> [i \in D |-> AttributesStep(f, t, i)]]
<1>1. D \in SUBSET Nat /\ Len(t) \in Nat
  BY DEF TokenList
<1>2. T # {} /\ T \in SUBSET [D -> V]
  <2>1. PICK r : r \in Error
    BY ErrorExists
  <2>. DEFINE c == [i \in D |-> [seen \in SUBSET AttributeName |-> r]]
  <2>2. c \in [D -> V]
    BY <2>1, ReadFromError
  <2>3. \A i \in D : \A seen \in SUBSET AttributeName : AttributesRead(t, c[i][seen], i, seen)
    BY <2>1, AttributesReadFails
  <2>4. c \in T
    BY <2>2, <2>3 DEF AttributesReads
  <2>. HIDE DEF c
  <2>. QED
    BY <2>4 DEF AttributesReads
<1>3. ASSUME NEW f \in [D -> V],
             \A i \in D : \A seen \in SUBSET AttributeName : AttributesRead(t, f[i][seen], i, seen)
      PROVE  f \in T
  BY <1>3 DEF AttributesReads
<1>4. \A f \in T : [i \in D |-> AttributesStep(f, t, i)] \in T
  <2>. SUFFICES ASSUME NEW f \in T PROVE [i \in D |-> AttributesStep(f, t, i)] \in T
    OBVIOUS
  <2>. DEFINE h == [i \in D |-> AttributesStep(f, t, i)]
  <2>1. \A i \in D : \A seen \in SUBSET AttributeName : AttributesRead(t, h[i][seen], i, seen)
    BY AttributesStepIs
  <2>2. \A r, i, seen : i \in D /\ AttributesRead(t, r, i, seen) =>
            r \in ReadFrom(Seq(AttributeOf), t, 0)
    <3>1. \A i \in D : i > 0 /\ i \in Nat
      BY TokenAt
    <3>. QED
      BY <1>1, <3>1 DEF AttributesRead, ReadFrom
  <2>3. \A i \in D : h[i] \in V
    <3>. SUFFICES ASSUME NEW i \in D PROVE h[i] \in V
      OBVIOUS
    <3>1. \A seen \in SUBSET AttributeName : h[i][seen] \in ReadFrom(Seq(AttributeOf), t, 0)
      BY <2>1, <2>2
    <3>2. h[i] = AttributesStep(f, t, i)
      OBVIOUS
    <3>. QED
      BY <3>1, <3>2 DEF AttributesStep
  <2>4. h \in [D -> V]
    BY <2>3
  <2>. QED
    BY <1>3, <2>1, <2>4
<1>5. G \in [T -> T]
  BY <1>4
<1>6. ASSUME NEW f \in T, NEW g \in T, NEW i \in D, SameAfter(D, Len(t), i, f, g)
      PROVE  G[f][i] = G[g][i]
  BY <1>6, AttributesStepIs
<1>7. LooksAheadIn(D, V, T, Len(t), G)
  <2>. HIDE DEF G, T, V, D
  <2>. QED
    BY <1>1, <1>2, <1>5, <1>6 DEF LooksAheadIn
<1>8. PICK f \in T : f = G[f]
  <2>. HIDE DEF G, V, T, D
  <2>. QED
    BY <1>7, RecursionIn
<1>9. f = [i \in D |-> AttributesStep(f, t, i)]
  BY <1>8
<1>10. F = [i \in D |-> AttributesStep(F, t, i)]
  BY <1>9 DEF AttributesFrom
<1>. HIDE DEF F
<1>11. \A i \in D : F[i] = f[i]
  <2>1. ASSUME NEW i \in D, SameAfter(D, Len(t), i, F, f) PROVE F[i] = f[i]
    BY <1>9, <1>10, <2>1, AttributesStepIs
  <2>2. AlikeAhead(D, Len(t), F, f)
    BY <1>1, <2>1 DEF AlikeAhead
  <2>. HIDE DEF D
  <2>. QED
    BY <2>2, Agree
<1>12. F = f
  BY <1>9, <1>10, <1>11
<1>13. \A first : ParseAttributes(t, first) = F[first][{}]
  BY DEF ParseAttributes, F, AttributesFrom, AttributesStep, AttributeAt
<1>. QED
  BY <1>8, <1>10, <1>12, <1>13 DEF F

LEMMA ParseAttributesIs ==
    ASSUME NEW t \in TokenList, NEW first \in DOMAIN t
    PROVE  /\ ParseAttributes(t, first) \in ReadFrom(Seq(AttributeOf), t, first)
           /\ ~Failed(ParseAttributes(t, first)) => Distinct(ParseAttributes(t, first).value, {})
<1>1. AttributesRead(t, AttributesFrom(t)[first][{}], first, {})
  <2>1. {} \in SUBSET AttributeName
    OBVIOUS
  <2>. QED
    BY <2>1, AttributesFromIs DEF AttributesReads
<1>2. ParseAttributes(t, first) = AttributesFrom(t)[first][{}]
  BY AttributesFromIs
<1>. QED
  BY <1>1, <1>2 DEF AttributesRead

-----------------------------------------------------------------------------
(* Rules.                                                                  *)

\* More than a comment.
SaysSomething(rule) == rule.target # None \/ rule.attributes # <<>> \/ rule.condition # None

\* What the parser makes of a text: attributes of different names, each with
\* values the name has, and a clause of valid conditions.
IsRule(queries, rule) ==
    /\ rule \in Rule /\ SaysSomething(rule)
    /\ rule.attributes \in Seq(AttributeOf) /\ Distinct(rule.attributes, {})
    /\ rule.condition \in ClauseOf(queries) \cup {None}
RuleOf(queries) == {rule \in Rule : IsRule(queries, rule)}

LEMMA ParseClauseIs ==
    ASSUME NEW queries, NEW t \in TokenList, NEW i \in DOMAIN t
    PROVE  ParseClause(queries, t, i) \in ReadFrom(ClauseOf(queries) \cup {None}, t, i)
<1>. DEFINE clause == ParseConditionClause(queries, t, i + 1)
            r == ParseClause(queries, t, i)
<1>1. i \in Nat
  BY TokenAt
<1>. SUFFICES r \in ReadFrom(ClauseOf(queries) \cup {None}, t, i)
  OBVIOUS
<1>2. CASE t[i].kind = "Word"
  <2>1. t[i].kind # "End"
    BY <1>2
  <2>2. i + 1 \in DOMAIN t
    BY <2>1, NotTheEnd
  <2>3. clause \in Read(ClauseOf(queries), t, i + 1)
    BY <2>2, ParseConditionClauseIs
  <2>4. r = clause
    BY <1>2 DEF ParseClause
  <2>. HIDE DEF clause, r
  <2>5. CASE Failed(clause)
    BY <2>3, <2>4, <2>5, ReadError, ReadFromError
  <2>6. CASE ~Failed(clause)
    <3>1. PICK c, j : c = clause.value /\ j = clause.next
      OBVIOUS
    <3>2. c \in ClauseOf(queries) /\ j \in DOMAIN t /\ j > i + 1 /\ clause = Good(c, j)
      BY <2>3, <2>6, <3>1, ReadValue
    <3>3. c \in ClauseOf(queries) \cup {None}
      BY <3>2
    <3>4. j >= i
      <4>1. j \in Nat
        BY <3>2, TokenAt
      <4>. QED
        BY <1>1, <3>2, <4>1
    <3>. QED
      BY <2>4, <3>2, <3>3, <3>4, ReadFromGood
  <2>. QED
    BY <2>5, <2>6
<1>3. CASE t[i].kind # "Word"
  <2>1. r = Good(None, i)
    BY <1>3 DEF ParseClause
  <2>2. None \in ClauseOf(queries) \cup {None} /\ i >= i
    BY <1>1
  <2>3. Good(None, i) \in ReadFrom(ClauseOf(queries) \cup {None}, t, i)
    BY <2>2, ReadFromGood
  <2>. QED
    BY <2>1, <2>3
<1>. QED
  BY <1>2, <1>3

LEMMA TargetIs ==
    ASSUME NEW t \in TokenList
    PROVE  /\ 1 \in DOMAIN t
           /\ Target(t[1]) \in RuleTarget \cup {None}
           /\ Target(t[1]) # None => 2 \in DOMAIN t
<1>1. 1 \in DOMAIN t
  BY DEF TokenList
<1>2. Keyword(t[1].text) \in RuleTarget => t[1].text[1] = Keyword(t[1].text)
  BY DEF Keyword, RuleTarget
<1>3. CASE t[1].kind = "Word"
  <2>1. t[1].kind # "End"
    BY <1>3
  <2>2. 1 + 1 \in DOMAIN t
    BY <1>1, <2>1, NotTheEnd
  <2>3. 2 \in DOMAIN t
    BY <2>2
  <2>. QED
    BY <1>1, <1>2, <1>3, <2>3 DEF Target
<1>4. CASE t[1].kind # "Word"
  BY <1>1, <1>4 DEF Target
<1>. QED
  BY <1>3, <1>4

\* What a rule is made of.
ARule(tgt, attributes, condition, comment) ==
    [target |-> tgt, attributes |-> attributes, condition |-> condition, comment |-> comment]

LEMMA ARuleIs ==
    ASSUME NEW queries, NEW tgt \in RuleTarget \cup {None},
           NEW attributes \in Seq(AttributeOf), Distinct(attributes, {}),
           NEW condition \in ClauseOf(queries) \cup {None}, NEW comment \in Text \cup {None},
           tgt # None \/ attributes # <<>> \/ condition # None
    PROVE  ARule(tgt, attributes, condition, comment) \in RuleOf(queries)
<1>. DEFINE rule == ARule(tgt, attributes, condition, comment)
<1>1. /\ rule.target = tgt /\ rule.attributes = attributes
      /\ rule.condition = condition /\ rule.comment = comment
      /\ rule = [target |-> tgt, attributes |-> attributes, condition |-> condition,
                 comment |-> comment]
  BY DEF ARule
<1>2. AttributeOf \subseteq Attribute
  BY DEF AttributeOf
<1>3. attributes \in Seq(Attribute)
  BY <1>2, SeqMono
<1>4. condition \in ConditionClause \cup {None}
  BY DEF ClauseOf
<1>5. rule \in Rule
  BY <1>1, <1>3, <1>4 DEF Rule
<1>. HIDE DEF rule
<1>6. IsRule(queries, rule)
  BY <1>1, <1>5 DEF IsRule, SaysSomething
<1>7. rule \in RuleOf(queries)
  BY <1>5, <1>6 DEF RuleOf
<1>. QED
  BY <1>7 DEF rule

LEMMA ParseEndIs ==
    ASSUME NEW queries, NEW t \in TokenList, NEW tgt \in RuleTarget \cup {None},
           NEW attributes \in Seq(AttributeOf), Distinct(attributes, {}),
           NEW clause, clause.value \in ClauseOf(queries) \cup {None}, clause.next \in DOMAIN t
    PROVE  \/ ParseEnd(t, tgt, attributes, clause) \in Error
           \/ \E comment \in Text \cup {None} :
                /\ ParseEnd(t, tgt, attributes, clause)
                     = Good(ARule(tgt, attributes, clause.value, comment), clause.next)
                /\ ARule(tgt, attributes, clause.value, comment) \in RuleOf(queries)
<1>. DEFINE r == ParseEnd(t, tgt, attributes, clause)
            last == t[clause.next]
            comment == IF last.kind = "Comment" THEN last.text ELSE None
            some == tgt # None \/ attributes # <<>> \/ clause.value # None
            a1 == last.kind \notin {"Comment", "End"}
            a2 == last.kind \in {"Comment", "End"} /\ tgt = None
                  /\ attributes = <<>> /\ clause.value = None
<1>1. r = CASE a1 -> Fail("UnexpectedToken", last.offset)
            [] a2 -> Fail("Empty", 1)
            [] OTHER -> Good(ARule(tgt, attributes, clause.value, comment), clause.next)
  BY DEF ParseEnd, ARule
<1>2. last.offset \in Nat /\ last.text \in Text
  BY TokenAt
<1>3. comment \in Text \cup {None}
  BY <1>2
<1>4. Fail("UnexpectedToken", last.offset) \in Error /\ Fail("Empty", 1) \in Error
  BY <1>2 DEF Fail, Error, ErrorKind
<1>5. some => ARule(tgt, attributes, clause.value, comment) \in RuleOf(queries)
  <2>. HIDE DEF comment
  <2>. QED
    BY <1>3, ARuleIs
<1>51. ~a1 /\ ~a2 => some
  OBVIOUS
<1>. HIDE DEF comment, a1, a2, last, some
<1>6. \/ r = Fail("UnexpectedToken", last.offset)
      \/ r = Fail("Empty", 1)
      \/ some /\ r = Good(ARule(tgt, attributes, clause.value, comment), clause.next)
  <2>. HIDE DEF r
  <2>. QED
    BY <1>1, <1>51
<1>. HIDE DEF r
<1>7. \/ r \in Error
      \/ \E c \in Text \cup {None} :
            /\ r = Good(ARule(tgt, attributes, clause.value, c), clause.next)
            /\ ARule(tgt, attributes, clause.value, c) \in RuleOf(queries)
  BY <1>3, <1>4, <1>5, <1>6
<1>. QED
  BY <1>7 DEF r

\* A parse is refused, or gives a rule with the target its entry point allows.
Parsed(queries, m, r) ==
    \/ r \in Error /\ Failed(r)
    \/ ~Failed(r) /\ r.value \in RuleOf(queries) /\ Allowed(m, r.value.target)

LEMMA ErrorParsed ==
    ASSUME NEW r \in Error, NEW queries, NEW m
    PROVE  Parsed(queries, m, r)
BY DEF Parsed, Error, Failed

LEMMA ParseRuleIs ==
    ASSUME NEW queries, NEW t \in TokenList, NEW m
    PROVE  Parsed(queries, m, ParseRule(queries, t, m))
<1>. DEFINE tgt == Target(t[1])
            first == IF tgt = None THEN 1 ELSE 2
            attributes == ParseAttributes(t, first)
            r == ParseRule(queries, t, m)
<1>1. tgt \in RuleTarget \cup {None} /\ first \in DOMAIN t /\ 1 \in DOMAIN t
  BY TargetIs
<1>2. CASE ~Allowed(m, tgt)
  <2>1. \/ r = Fail("Empty", t[1].offset)
        \/ r = Fail("InvalidTarget", t[1].offset)
    BY <1>2 DEF ParseRule, ParseAfter
  <2>2. t[1].offset \in Nat
    BY <1>1, TokenAt
  <2>3. r \in Error
    BY <2>1, <2>2 DEF Fail, Error, ErrorKind
  <2>. QED
    BY <2>3, ErrorParsed
<1>3. CASE Allowed(m, tgt)
  <2>1. r = IF Failed(attributes) THEN attributes
            ELSE Then(ParseClause(queries, t, attributes.next), LAMBDA clause :
                      ParseEnd(t, tgt, attributes.value, clause))
    BY <1>3 DEF ParseRule, ParseAfter, Then
  <2>2. /\ attributes \in ReadFrom(Seq(AttributeOf), t, first)
        /\ ~Failed(attributes) => Distinct(attributes.value, {})
    BY <1>1, ParseAttributesIs
  <2>. HIDE DEF attributes
  <2>3. CASE Failed(attributes)
    <3>1. attributes \in Error
      BY <2>2, <2>3, ReadFromFailed
    <3>. QED
      BY <2>1, <2>3, <3>1, ErrorParsed
  <2>4. CASE ~Failed(attributes)
    <3>1. PICK as, i : as = attributes.value /\ i = attributes.next
      OBVIOUS
    <3>2. as \in Seq(AttributeOf) /\ i \in DOMAIN t /\ Distinct(as, {})
      BY <2>2, <2>4, <3>1, ReadFromValue
    <3>. DEFINE clause == ParseClause(queries, t, i)
    <3>3. clause \in ReadFrom(ClauseOf(queries) \cup {None}, t, i)
      BY <3>2, ParseClauseIs
    <3>4. r = IF Failed(clause) THEN clause ELSE ParseEnd(t, tgt, as, clause)
      BY <2>1, <2>4, <3>1 DEF Then
    <3>. HIDE DEF clause
    <3>5. CASE Failed(clause)
      <4>1. clause \in Error
        BY <3>3, <3>5, ReadFromFailed
      <4>. QED
        BY <3>4, <3>5, <4>1, ErrorParsed
    <3>6. CASE ~Failed(clause)
      <4>1. clause.value \in ClauseOf(queries) \cup {None} /\ clause.next \in DOMAIN t
        BY <3>3, <3>6, ReadFromValue
      <4>. HIDE DEF tgt
      <4>2. \/ ParseEnd(t, tgt, as, clause) \in Error
            \/ \E comment \in Text \cup {None} :
                 /\ ParseEnd(t, tgt, as, clause)
                      = Good(ARule(tgt, as, clause.value, comment), clause.next)
                 /\ ARule(tgt, as, clause.value, comment) \in RuleOf(queries)
        BY <1>1, <3>2, <4>1, ParseEndIs
      <4>3. CASE ParseEnd(t, tgt, as, clause) \in Error
        BY <3>4, <3>6, <4>3, ErrorParsed
      <4>4. ASSUME NEW comment \in Text \cup {None},
                   ParseEnd(t, tgt, as, clause)
                      = Good(ARule(tgt, as, clause.value, comment), clause.next),
                   ARule(tgt, as, clause.value, comment) \in RuleOf(queries)
            PROVE  Parsed(queries, m, r)
        <5>1. PICK rule : rule = ARule(tgt, as, clause.value, comment)
          OBVIOUS
        <5>2. rule.target = tgt
          BY <5>1 DEF ARule
        <5>3. r = Good(rule, clause.next)
          BY <3>4, <3>6, <4>4, <5>1
        <5>4. ~Failed(r) /\ r.value = rule
          BY <5>3, Results
        <5>. QED
          BY <1>3, <4>4, <5>1, <5>2, <5>4 DEF Parsed, tgt
      <4>. QED
        BY <4>2, <4>3, <4>4
    <3>. QED
      BY <3>5, <3>6
  <2>. QED
    BY <2>3, <2>4
<1>. QED
  BY <1>2, <1>3

LEMMA ParseWithIs ==
    ASSUME NEW queries, NEW input \in Text, NEW m
    PROVE  Parsed(queries, m, ParseWith(queries, input, m))
<1>. DEFINE r == ParseWith(queries, input, m)
            lexed == Lex(input)
<1>1. r = IF Len(input) > MAX_INPUT_LEN THEN Fail("TooLong", MAX_INPUT_LEN + 1)
          ELSE IF Failed(lexed) THEN lexed ELSE ParseRule(queries, lexed.value, m)
  BY DEF ParseWith, Then
<1>2. lexed \in Result(TokenList)
  BY LexTyped
<1>3. Fail("TooLong", MAX_INPUT_LEN + 1) \in Error
  BY Bounds DEF Fail, Error, ErrorKind
<1>. HIDE DEF lexed
<1>4. CASE Len(input) > MAX_INPUT_LEN
  BY <1>1, <1>3, <1>4, ErrorParsed
<1>5. CASE ~(Len(input) > MAX_INPUT_LEN) /\ Failed(lexed)
  <2>1. lexed \in Error
    BY <1>2, <1>5 DEF Result, Failed
  <2>. QED
    BY <1>1, <1>5, <2>1, ErrorParsed
<1>6. CASE ~(Len(input) > MAX_INPUT_LEN) /\ ~Failed(lexed)
  <2>1. lexed.value \in TokenList
    BY <1>2, <1>6, ValueOf
  <2>2. PICK t : t = lexed.value
    OBVIOUS
  <2>. QED
    BY <1>1, <1>6, <2>1, <2>2, ParseRuleIs
<1>. QED
  BY <1>4, <1>5, <1>6

\* What parse accepts is a rule of the language.
LEMMA ParseIs ==
    ASSUME NEW input \in Text, NEW m
    PROVE  Parsed(Nested, m, Parse(input, m))
BY ParseWithIs DEF Parse

-----------------------------------------------------------------------------
(* Parentheses inside parentheses.                                         *)

\* A string ends in the text.
LEMMA StringEnds ==
    ASSUME NEW input \in Text, NEW start \in Nat, NEW from \in Place,
           ~Failed(StringFrom(input, start)[from])
    PROVE  StringFrom(input, start)[from].next <= Len(input) + 1
<1>. DEFINE F == StringFrom(input, start)
            N == Len(input)
            S == {pos \in Place : ~Failed(F[pos]) => F[pos].next <= N + 1}
<1>1. /\ F \in [Place -> Result(Text)]
      /\ \A pos \in Place : F[pos] = StringStep(F, input, start, pos)
  BY StringFromIs
<1>2. N \in Nat /\ Place \in SUBSET Nat
  BY DEF Text, Place
<1>. HIDE DEF F
<1>3. ASSUME NEW pos \in Place, \A q \in Place : q > pos /\ pos <= N => q \in S
      PROVE  pos \in S
  <2>. SUFFICES ASSUME ~Failed(F[pos]) PROVE F[pos].next <= N + 1
    OBVIOUS
  <2>1. pos \in Nat /\ pos > 0
    BY DEF Place
  <2>2. F[pos] = StringStep(F, input, start, pos)
    BY <1>1
  <2>3. CASE pos > N
    <3>1. F[pos] = Fail("UnterminatedString", start)
      BY <2>2, <2>3 DEF StringStep
    <3>. QED
      BY <3>1, Results
  <2>4. CASE ~(pos > N) /\ input[pos] = Quote
    <3>1. F[pos] = Good(<<>>, pos + 1)
      BY <2>2, <2>4 DEF StringStep
    <3>2. F[pos].next = pos + 1
      BY <3>1, Results
    <3>. QED
      BY <1>2, <2>1, <2>4, <3>2
  <2>5. CASE ~(pos > N) /\ input[pos] # Quote
    <3>1. PICK byte, n : byte = LexByte(input, start, pos) /\ n = LexByte(input, start, pos).next
      OBVIOUS
    <3>2. F[pos] = IF Failed(byte) THEN byte ELSE Before(byte.value, F[byte.next])
      BY <2>2, <2>5, <3>1 DEF StringStep, Then
    <3>3. ~Failed(byte)
      BY <3>2
    <3>4. pos \in 1..Len(input)
      BY <1>2, <2>1, <2>5
    <3>5. n > pos /\ n \in Nat
      <4>1. byte \in Result(Glyph) /\ n > pos
        BY <3>1, <3>3, <3>4, LexByteIs
      <4>. QED
        BY <3>1, <3>3, <4>1, ValueOf
    <3>6. n \in Place
      BY <2>1, <3>5 DEF Place
    <3>7. PICK v, rest : v = byte.value /\ rest = F[n]
      OBVIOUS
    <3>8. F[pos] = Before(v, rest)
      BY <3>1, <3>2, <3>3, <3>7
    <3>9. ~Failed(rest) /\ F[pos].next = rest.next
      <4>1. Failed(rest) => Before(v, rest) = rest
        BY BeforeFails
      <4>2. ~Failed(rest)
        BY <3>8, <4>1
      <4>3. Before(v, rest).next = rest.next
        BY <4>2, BeforeGives
      <4>. QED
        BY <3>8, <4>2, <4>3
    <3>10. n \in S
      BY <1>2, <1>3, <2>1, <2>5, <3>5, <3>6
    <3>. QED
      BY <3>7, <3>9, <3>10
  <2>. QED
    BY <2>3, <2>4, <2>5
<1>4. from \in S
  <2>. HIDE DEF S
  <2>. QED
    BY <1>2, <1>3, FromTheEnd
<1>. QED
  BY <1>4 DEF F

\* The same string elsewhere.
LEMMA LexStringShift ==
    ASSUME NEW a \in Text, NEW b \in Text, NEW d, Shifted(a, 1, Len(a), b, d),
           NEW pos \in 1..Len(a), ~Failed(LexString(a, pos))
    PROVE  /\ ~Failed(LexString(b, pos + d))
           /\ LexString(b, pos + d).next = LexString(a, pos).next + d
           /\ LexString(a, pos).next \in Nat /\ LexString(a, pos).next > pos
           /\ LexString(a, pos).next <= Len(a) + 1
<1>1. /\ pos \in Place /\ pos \in Nat /\ ~(pos > Len(a)) /\ Len(a) \in Nat
      /\ pos + d \in Place /\ pos + d \in Nat /\ d \in Int
  BY ShiftedAt
<1>2. PICK e, p1, n, string, moved : /\ e = pos + d /\ p1 = pos + 1 /\ string = LexString(a, pos)
                                     /\ moved = LexString(b, e) /\ n = Len(a)
  OBVIOUS
<1>3. string = StringFrom(a, pos)[p1] /\ moved = StringFrom(b, e)[e + 1]
  BY <1>1, <1>2, StringFromIs
<1>4. p1 \in Place /\ p1 \in Nat /\ p1 + d = e + 1
  BY <1>1, <1>2 DEF Place
<1>5. string.next \in Nat /\ string.next > p1
  BY <1>1, <1>2, StringMovesOn
<1>6. string.next <= n + 1
  BY <1>1, <1>2, <1>3, <1>4, StringEnds
<1>7. p1 \in 1..n
  <2>1. PICK x : x = string.next
    OBVIOUS
  <2>2. x \in Nat /\ x > p1 /\ x <= n + 1 /\ n \in Nat /\ p1 \in Nat /\ p1 >= 1
    BY <1>1, <1>2, <1>4, <1>5, <1>6, <2>1
  <2>. QED
    BY <2>2
<1>8. StringFrom(b, e)[p1 + d] = Moved(StringFrom(a, pos)[p1], d)
  <2>1. ~Failed(StringFrom(a, pos)[p1]) /\ StringFrom(a, pos)[p1].next <= n + 1
    BY <1>2, <1>3, <1>6
  <2>2. p1 \in 1..n /\ pos \in Nat /\ e \in Nat /\ Shifted(a, 1, n, b, d)
    BY <1>1, <1>2, <1>7
  <2>. QED
    BY <2>1, <2>2, StringShift
<1>9. moved = Moved(string, d)
  BY <1>3, <1>4, <1>8
<1>10. ~Failed(moved) /\ moved.next = string.next + d
  BY <1>9, Results DEF Moved
<1>11. string.next > pos
  <2>1. PICK x : x = string.next
    OBVIOUS
  <2>2. x \in Nat /\ x > pos + 1 /\ pos \in Nat
    BY <1>1, <1>2, <1>5, <2>1
  <2>3. x > pos
    BY <2>2
  <2>. QED
    BY <2>1, <2>3
<1>. QED
  BY <1>2, <1>5, <1>6, <1>10, <1>11

\* Most glyphs do not matter to the search.
LEMMA ParenPasses ==
    ASSUME NEW f, NEW input, NEW open, NEW pos, NEW depth \in Nat,
           ~(pos > Len(input)), input[pos] \notin {"(", ")", Quote}
    PROVE  ParenStep(f, input, open, pos)[depth] = f[pos + 1][depth]
BY ParenAt

\* A search that is k levels further in gets past what another finds the end of.
LEMMA ParenGoesOn ==
    ASSUME NEW a \in Text, NEW b \in Text, NEW d, Shifted(a, 1, Len(a), b, d),
           NEW o1 \in Place, NEW o2 \in Place, NEW k \in Place,
           NEW from \in 1..Len(a), NEW level \in Place,
           ~Failed(ParenFrom(a, o1)[from][level]), ~Failed(ParenFrom(b, o2)[from + d][level + k])
    PROVE  ~Failed(ParenFrom(b, o2)[ParenFrom(a, o1)[from][level].next + d][k])
<1>. DEFINE F == ParenFrom(a, o1)
            G == ParenFrom(b, o2)
            N == Len(a)
            D == 1..N
            S == {pos \in D : \A depth \in Place :
                    ~Failed(F[pos][depth]) /\ ~Failed(G[pos + d][depth + k]) =>
                        ~Failed(G[F[pos][depth].next + d][k])}
<1>0. o1 \in Nat /\ o2 \in Nat /\ k \in Nat /\ k >= 1
  BY DEF Place
<1>1. /\ \A pos \in Place : F[pos] = ParenStep(F, a, o1, pos)
      /\ \A pos \in Place : G[pos] = ParenStep(G, b, o2, pos)
  BY <1>0, ParenFromIs
<1>2. N \in Nat /\ D \in SUBSET Nat
  BY DEF Text
<1>3. ASSUME NEW pos \in Place, NEW depth \in Nat, ~Failed(F[pos][depth])
      PROVE  pos \in D
  <2>1. F[pos][depth].value \in pos..Len(a)
    BY <1>3, ParenFromIsThere
  <2>2. pos \in Nat /\ pos >= 1
    BY DEF Place
  <2>3. PICK v : v \in pos..Len(a)
    BY <2>1
  <2>. QED
    BY <1>2, <2>2, <2>3
<1>. HIDE DEF F, G
<1>4. ASSUME NEW pos \in D, \A q \in D : q > pos /\ pos <= N => q \in S
      PROVE  pos \in S
  <2>. SUFFICES ASSUME NEW depth \in Place, ~Failed(F[pos][depth]), ~Failed(G[pos + d][depth + k])
                PROVE  ~Failed(G[F[pos][depth].next + d][k])
    OBVIOUS
  <2>0. /\ pos \in Place /\ pos \in Nat /\ ~(pos > Len(a)) /\ pos <= N /\ d \in Int
        /\ pos + d \in Place /\ pos + d \in Nat /\ ~(pos + d > Len(b)) /\ a[pos] = b[pos + d]
    <3>1. /\ pos \in Place /\ pos \in Nat /\ ~(pos > Len(a)) /\ d \in Int
          /\ pos + d \in Place /\ pos + d \in Nat /\ ~(pos + d > Len(b)) /\ a[pos] = b[pos + d]
      BY ShiftedAt
    <3>. QED
      BY <1>2, <3>1
  <2>d. depth \in Nat /\ depth >= 1 /\ depth + k \in Nat /\ ~(depth + k <= 1)
    BY <1>0 DEF Place
  <2>e. PICK e, h : e = pos + d /\ h = depth + k
    OBVIOUS
  <2>00. e \in Place /\ e \in Nat /\ ~(e > Len(b)) /\ b[e] = a[pos] /\ h \in Nat /\ ~(h <= 1)
    BY <2>0, <2>d, <2>e
  <2>. DEFINE r == F[pos][depth]
              s == G[e][h]
  <2>1. r = ParenStep(F, a, o1, pos)[depth] /\ s = ParenStep(G, b, o2, e)[h]
    BY <1>1, <2>0, <2>00
  <2>f. ~Failed(r) /\ ~Failed(s)
    BY <2>e
  <2>2. ASSUME NEW q \in Place, NEW j \in Place, q > pos, r = F[q][j], ~Failed(G[q + d][j + k])
        PROVE  ~Failed(G[r.next + d][k])
    <3>1. j \in Nat /\ q \in D
      <4>1. j \in Nat
        BY DEF Place
      <4>. QED
        BY <1>3, <2>2, <2>f, <4>1
    <3>2. q \in S
      BY <1>4, <2>0, <2>2, <3>1
    <3>. QED
      BY <2>2, <2>f, <3>2
  <2>3. /\ pos + 1 \in Place /\ pos + 1 > pos /\ (pos + 1) + d = e + 1
        /\ depth + 1 \in Place /\ (depth + 1) + k = h + 1
    <3>1. PICK p, n, x, y, z, u : p = pos /\ n = e /\ x = d /\ y = depth /\ z = k /\ u = h
      OBVIOUS
    <3>2. p \in Nat /\ x \in Int /\ n = p + x /\ y \in Nat /\ z \in Nat /\ u = y + z
      BY <1>0, <2>0, <2>d, <2>e, <3>1
    <3>3. /\ (p + 1) + x = n + 1 /\ p + 1 > p /\ p + 1 \in Nat /\ p + 1 # 0
          /\ y + 1 \in Nat /\ y + 1 # 0 /\ (y + 1) + z = u + 1
      BY SMTT(30), <3>2
    <3>4. p + 1 \in Place /\ y + 1 \in Place
      BY <3>3 DEF Place
    <3>. QED
      BY <3>1, <3>3, <3>4
  <2>4. CASE a[pos] = "("
    <3>1. r = IF TooDeep(depth) THEN Fail("TooDeep", pos) ELSE F[pos + 1][depth + 1]
      BY SMTT(30), <2>0, <2>1, <2>4, <2>d, ParenAt
    <3>2. s = IF TooDeep(h) THEN Fail("TooDeep", e) ELSE G[e + 1][h + 1]
      BY SMTT(30), <2>00, <2>1, <2>4, ParenAt
    <3>3. ~TooDeep(depth)
      BY <2>f, <3>1, Results
    <3>4. ~TooDeep(h)
      BY <2>f, <3>2, Results
    <3>5. r = F[pos + 1][depth + 1] /\ ~Failed(G[(pos + 1) + d][(depth + 1) + k])
      BY <2>3, <2>f, <3>1, <3>2, <3>3, <3>4
    <3>. QED
      BY <2>2, <2>3, <3>5
  <2>5. CASE a[pos] = ")"
    <3>1. r = IF depth <= 1 THEN Good(pos, pos + 1) ELSE F[pos + 1][depth - 1]
      BY SMTT(30), <2>0, <2>1, <2>5, <2>d, ParenAt
    <3>2. s = G[e + 1][h - 1]
      BY SMTT(30), <2>00, <2>1, <2>5, ParenAt
    <3>3. CASE depth <= 1
      <4>1. r.next = pos + 1
        BY <3>1, <3>3, Results
      <4>2. h - 1 = k
        <5>1. PICK x, y, z : x = depth /\ y = k /\ z = h
          OBVIOUS
        <5>2. x = 1 /\ y \in Nat /\ z = x + y
          BY <1>0, <2>d, <2>e, <3>3, <5>1
        <5>3. z - 1 = y
          BY <5>2
        <5>. QED
          BY <5>1, <5>3
      <4>. QED
        BY <2>3, <2>f, <3>2, <4>1, <4>2
    <3>4. CASE ~(depth <= 1)
      <4>1. depth - 1 \in Place /\ (depth - 1) + k = h - 1
        <5>1. PICK x, y, z : x = depth /\ y = k /\ z = h
          OBVIOUS
        <5>2. x \in Nat /\ ~(x <= 1) /\ y \in Nat /\ z = x + y
          BY <1>0, <2>d, <2>e, <3>4, <5>1
        <5>3. x - 1 \in Nat /\ x - 1 # 0 /\ (x - 1) + y = z - 1
          BY <5>2
        <5>4. x - 1 \in Place
          BY <5>3 DEF Place
        <5>. QED
          BY <5>1, <5>3, <5>4
      <4>2. r = F[pos + 1][depth - 1] /\ ~Failed(G[(pos + 1) + d][(depth - 1) + k])
        BY <2>3, <2>f, <3>1, <3>2, <3>4, <4>1
      <4>. QED
        BY <2>2, <2>3, <4>1, <4>2
    <3>. QED
      BY <3>3, <3>4
  <2>6. CASE a[pos] = Quote
    <3>1. PICK string, moved : string = LexString(a, pos) /\ moved = LexString(b, e)
      OBVIOUS
    <3>2. r = IF Failed(string) THEN string ELSE F[string.next][depth]
      BY SMTT(30), <2>0, <2>1, <2>6, <2>d, <3>1, ParenAt
    <3>3. s = IF Failed(moved) THEN moved ELSE G[moved.next][h]
      BY SMTT(30), <2>00, <2>1, <2>6, <3>1, ParenAt
    <3>4. ~Failed(string)
      BY <2>f, <3>2
    <3>5. /\ ~Failed(moved) /\ moved.next = string.next + d
          /\ string.next \in Nat /\ string.next > pos
      <4>1. ~Failed(LexString(a, pos))
        BY <3>1, <3>4
      <4>2. /\ ~Failed(LexString(b, pos + d))
            /\ LexString(b, pos + d).next = LexString(a, pos).next + d
            /\ LexString(a, pos).next \in Nat /\ LexString(a, pos).next > pos
        BY <4>1, LexStringShift
      <4>. QED
        BY <2>e, <3>1, <4>2
    <3>6. string.next \in Place
      <4>1. PICK x : x = string.next
        OBVIOUS
      <4>2. x \in Nat /\ x # 0
        BY <2>0, <3>5, <4>1
      <4>. QED
        BY <4>1, <4>2 DEF Place
    <3>7. r = F[string.next][depth] /\ ~Failed(G[string.next + d][depth + k])
      BY <2>e, <2>f, <3>2, <3>3, <3>4, <3>5
    <3>. QED
      BY <2>2, <3>5, <3>6, <3>7
  <2>7. CASE a[pos] \notin {"(", ")", Quote}
    <3>1. r = F[pos + 1][depth]
      BY SMTT(30), <2>0, <2>1, <2>7, <2>d, ParenPasses
    <3>2. s = G[e + 1][h]
      BY SMTT(30), <2>00, <2>1, <2>7, ParenPasses
    <3>3. r = F[pos + 1][depth] /\ ~Failed(G[(pos + 1) + d][depth + k])
      BY <2>3, <2>e, <2>f, <3>1, <3>2
    <3>. QED
      BY <2>2, <2>3, <3>3
  <2>. QED
    BY <2>4, <2>5, <2>6, <2>7
<1>5. from \in S
  <2>. HIDE DEF S, D
  <2>1. from \in D
    BY DEF D
  <2>. QED
    BY ZenonT(60), <1>2, <1>4, <2>1, FromTheEnd
<1>. QED
  BY <1>5 DEF F, G

\* A word is passed.
LEMMA WordPasses ==
    ASSUME NEW b \in Text, NEW o \in Place, NEW k \in Nat, NEW from \in Place, NEW n \in Nat,
           from + n <= Len(b) + 1,
           \A i \in Nat : i < n => b[from + i] \notin {"(", ")", Quote}
    PROVE  ParenFrom(b, o)[from + n][k] = ParenFrom(b, o)[from][k]
<1>. DEFINE G == ParenFrom(b, o)
            S == {i \in Nat : G[from + i][k] = G[from][k]}
<1>1. o \in Nat /\ from \in Nat /\ from >= 1 /\ Len(b) \in Nat
  BY DEF Place, Text
<1>2. \A pos \in Place : G[pos] = ParenStep(G, b, o, pos)
  BY <1>1, ParenFromIs
<1>. HIDE DEF G
<1>3. 0 \in S
  <2>1. from + 0 = from
    BY <1>1
  <2>. QED
    BY <2>1
<1>4. ASSUME NEW i \in Nat, i < n, i \in S PROVE i + 1 \in S
  <2>1. PICK p : p = from + i
    OBVIOUS
  <2>2. p \in Place /\ ~(p > Len(b)) /\ p + 1 = from + (i + 1) /\ i + 1 \in Nat
    <3>1. PICK m : m = Len(b)
      OBVIOUS
    <3>2. p \in Nat /\ p # 0 /\ ~(p > m) /\ p + 1 = from + (i + 1) /\ i + 1 \in Nat
      BY SMTT(30), <1>1, <1>4, <2>1, <3>1
    <3>. QED
      BY <3>1, <3>2 DEF Place
  <2>3. b[p] \notin {"(", ")", Quote}
    BY <1>4, <2>1
  <2>4. G[p][k] = G[p + 1][k]
    BY <1>2, <2>2, <2>3, ParenPasses
  <2>5. G[p][k] = G[from][k]
    BY <1>4, <2>1
  <2>6. G[from + (i + 1)][k] = G[from][k]
    BY <2>2, <2>4, <2>5
  <2>. QED
    BY <2>2, <2>6
<1>5. n \in S
  <2>. HIDE DEF S
  <2>. QED
    BY <1>3, <1>4, UpTo
<1>. QED
  BY <1>5 DEF G

\* q stands in a text at a place that a search for a closing parenthesis gets
\* past at a level, and the level is no deeper than the code accepts.
StandsInside(q, level) ==
    /\ level <= MAX_PAREN_DEPTH
    /\ \E input \in Text, o \in Place, pos \in Place :
        Stands(q, input, pos) /\ ~Failed(ParenFrom(input, o)[pos][level])

\* So stands every parameter in a list of tokens.
ParametersInside(t, level) ==
    \A i \in DOMAIN t : t[i].kind = "Param" => StandsInside(t[i].text, level)

\* A token of q, which stands in the input d places further on, is passed: what
\* follows it is reached on the same level, and a parameter stands one level
\* further in.
Passes(q, input, d, o, k, r) ==
    /\ r.value.kind = "Param" => StandsInside(r.value.text, k + 1)
    /\ r.next > Len(q) \/ ~Failed(ParenFrom(input, o)[r.next + d][k])

\* Where a token of q begins, and the search is not over.
Begins(q, input, d, o, k, pos) ==
    /\ Shifted(q, 1, Len(q), input, d) /\ o \in Place /\ k \in Place /\ pos \in 1..Len(q)
    /\ ~Failed(ParenFrom(input, o)[pos + d][k])

LEMMA BeginsAt ==
    ASSUME NEW q \in Text, NEW input \in Text, NEW d, NEW o, NEW k, NEW pos,
           Begins(q, input, d, o, k, pos)
    PROVE  /\ pos \in Place /\ pos \in Nat /\ ~(pos > Len(q)) /\ Len(q) \in Nat /\ d \in Int
           /\ pos + d \in Place /\ pos + d \in Nat /\ ~(pos + d > Len(input))
           /\ input[pos + d] = q[pos] /\ o \in Nat /\ k \in Nat /\ k >= 1
           /\ (pos + 1) + d = (pos + d) + 1
           /\ ParenFrom(input, o)[pos + d]
                = ParenStep(ParenFrom(input, o), input, o, pos + d)
<1>1. /\ pos \in Place /\ pos \in Nat /\ ~(pos > Len(q)) /\ Len(q) \in Nat /\ d \in Int
      /\ pos + d \in Place /\ pos + d \in Nat /\ ~(pos + d > Len(input))
      /\ input[pos + d] = q[pos]
  <2>1. Shifted(q, 1, Len(q), input, d) /\ pos \in 1..Len(q)
    BY DEF Begins
  <2>. QED
    BY <2>1, ShiftedAt
<1>2. o \in Nat /\ k \in Nat /\ k >= 1
  BY DEF Begins, Place
<1>3. (pos + 1) + d = (pos + d) + 1
  BY <1>1
<1>4. \A p \in Place : ParenFrom(input, o)[p] = ParenStep(ParenFrom(input, o), input, o, p)
  BY <1>2, ParenFromIs
<1>. QED
  BY <1>1, <1>2, <1>3, <1>4

LEMMA PassesGlyph ==
    ASSUME NEW q \in Text, NEW input \in Text, NEW d, NEW o, NEW k, NEW pos,
           Begins(q, input, d, o, k, pos), q[pos] \notin {"(", ")", Quote},
           NEW kind, kind # "Param", NEW s
    PROVE  Passes(q, input, d, o, k, Good(Token(kind, s, pos), pos + 1))
<1>. DEFINE G == ParenFrom(input, o)
<1>1. PICK e : e = pos + d
  OBVIOUS
<1>2. /\ G[e] = ParenStep(G, input, o, e) /\ ~(e > Len(input)) /\ input[e] = q[pos] /\ k \in Nat
      /\ (pos + 1) + d = e + 1
  BY SMTT(30), <1>1, BeginsAt
<1>3. ~Failed(G[e][k])
  BY <1>1 DEF Begins
<1>. HIDE DEF G
<1>4. G[e][k] = G[e + 1][k]
  BY <1>2, ParenPasses
<1>5. ~Failed(G[(pos + 1) + d][k])
  BY <1>2, <1>3, <1>4
<1>6. PICK r : r = Good(Token(kind, s, pos), pos + 1)
  OBVIOUS
<1>7. r.next = pos + 1 /\ r.value.kind = kind
  BY <1>6, Results DEF Token
<1>8. Passes(q, input, d, o, k, r)
  BY <1>5, <1>7 DEF Passes, G
<1>. QED
  BY <1>6, <1>8

LEMMA PassesString ==
    ASSUME NEW q \in Text, NEW input \in Text, NEW d, NEW o, NEW k, NEW pos,
           Begins(q, input, d, o, k, pos), q[pos] = Quote, ~Failed(LexString(q, pos)), NEW s
    PROVE  Passes(q, input, d, o, k, Good(Token("Str", s, pos), LexString(q, pos).next))
<1>. DEFINE G == ParenFrom(input, o)
<1>1. PICK e, string, moved : e = pos + d /\ string = LexString(q, pos) /\ moved = LexString(input, e)
  OBVIOUS
<1>2. /\ G[e] = ParenStep(G, input, o, e) /\ ~(e > Len(input)) /\ input[e] = Quote /\ k \in Nat
  BY SMTT(30), <1>1, BeginsAt
<1>3. ~Failed(G[e][k])
  BY <1>1 DEF Begins
<1>4. ~Failed(moved) /\ moved.next = string.next + d
  <2>1. Shifted(q, 1, Len(q), input, d) /\ pos \in 1..Len(q)
    BY DEF Begins
  <2>2. /\ ~Failed(LexString(input, pos + d))
        /\ LexString(input, pos + d).next = LexString(q, pos).next + d
    BY <2>1, LexStringShift
  <2>. QED
    BY <1>1, <2>2
<1>. HIDE DEF G
<1>5. G[e][k] = IF Failed(moved) THEN moved ELSE G[moved.next][k]
  BY <1>1, <1>2, ParenAt
<1>6. ~Failed(G[string.next + d][k])
  BY <1>3, <1>4, <1>5
<1>7. PICK r : r = Good(Token("Str", s, pos), string.next)
  OBVIOUS
<1>8. r.next = string.next /\ r.value.kind = "Str"
  BY <1>7, Results DEF Token
<1>9. Passes(q, input, d, o, k, r)
  BY <1>6, <1>8 DEF Passes, G
<1>. QED
  BY <1>1, <1>7, <1>9

LEMMA PassesWord ==
    ASSUME NEW q \in Text, NEW input \in Text, NEW d, NEW o, NEW k, NEW pos,
           Begins(q, input, d, o, k, pos), q[pos] \notin Delimiters, NEW s
    PROVE  Passes(q, input, d, o, k, Good(Token("Word", s, pos), WordEnd(q, pos)))
<1>. DEFINE G == ParenFrom(input, o)
<1>1. PICK e, w : e = pos + d /\ w = WordEnd(q, pos)
  OBVIOUS
<1>2. /\ pos \in Nat /\ pos >= 1 /\ Len(q) \in Nat /\ d \in Int /\ e \in Place /\ e \in Nat /\ k \in Nat
      /\ o \in Place /\ pos \in 1..Len(q) /\ Shifted(q, 1, Len(q), input, d)
  BY <1>1, BeginsAt DEF Begins
<1>3. ~Failed(G[e][k])
  BY <1>1 DEF Begins
<1>4. w \in pos + 1..Len(q) + 1 /\ \A i \in pos..w - 1 : q[i] \notin Delimiters
  BY <1>1, <1>2, WordEndIs
<1>. HIDE DEF G
<1>5. ASSUME ~(w > Len(q)) PROVE ~Failed(G[w + d][k])
  <2>1. PICK m, n : m = w - pos /\ n = Len(q)
    OBVIOUS
  <2>2. m \in Nat /\ w = pos + m /\ w + d = e + m /\ w \in 1..n /\ w \in Nat /\ n \in Nat
    BY <1>1, <1>2, <1>4, <1>5, <2>1
  <2>3. w + d \in 1..Len(input) /\ \A i \in 1..n : i + d \in 1..Len(input) /\ q[i] = input[i + d]
    BY <1>2, <2>1, <2>2 DEF Shifted
  <2>4. e + m <= Len(input) + 1
    <3>1. PICK z, x : z = Len(input) /\ x = w + d
      OBVIOUS
    <3>2. z \in Nat /\ x \in 1..z
      BY <2>3, <3>1 DEF Text
    <3>3. x <= z + 1
      BY <3>2
    <3>. QED
      BY <2>2, <3>1, <3>3
  <2>5. ASSUME NEW i \in Nat, i < m PROVE input[e + i] \notin {"(", ")", Quote}
    <3>1. PICK j : j = pos + i
      OBVIOUS
    <3>2. j \in pos..w - 1 /\ j \in 1..n /\ j + d = e + i
      BY <1>1, <1>2, <2>2, <2>5, <3>1
    <3>3. q[j] \notin Delimiters /\ q[j] = input[j + d]
      BY <1>4, <2>3, <3>2
    <3>. QED
      BY <3>2, <3>3 DEF Delimiters
  <2>6. G[e + m][k] = G[e][k]
    <3>1. \A i \in Nat : i < m => input[e + i] \notin {"(", ")", Quote}
      BY <2>5
    <3>2. o \in Place /\ k \in Nat /\ e \in Place /\ m \in Nat
      BY <1>2, <2>2
    <3>3. ParenFrom(input, o)[e + m][k] = ParenFrom(input, o)[e][k]
      BY <2>4, <3>1, <3>2, WordPasses
    <3>. QED
      BY <3>3 DEF G
  <2>. QED
    BY <1>3, <2>2, <2>6
<1>6. PICK r : r = Good(Token("Word", s, pos), w)
  OBVIOUS
<1>7. r.next = w /\ r.value.kind = "Word"
  BY <1>6, Results DEF Token
<1>8. Passes(q, input, d, o, k, r)
  BY <1>5, <1>7 DEF Passes, G
<1>. QED
  BY <1>1, <1>6, <1>8

LEMMA PassesParameter ==
    ASSUME NEW q \in Text, NEW input \in Text, NEW d, NEW o, NEW k, NEW pos,
           Begins(q, input, d, o, k, pos), q[pos] = "(", ~Failed(FindClosingParen(q, pos))
    PROVE  LET close == FindClosingParen(q, pos)
           IN  Passes(q, input, d, o, k,
                      Good(Token("Param", SubSeq(q, pos + 1, close.value - 1), pos), close.next))
<1>. DEFINE F == ParenFrom(q, pos)
            G == ParenFrom(input, o)
<1>1. PICK e, p, close, c, s : /\ e = pos + d /\ p = pos + 1 /\ close = FindClosingParen(q, pos)
                               /\ c = close.value /\ s = SubSeq(q, p, c - 1)
  OBVIOUS
<1>2. /\ pos \in Place /\ pos \in Nat /\ ~(pos > Len(q)) /\ Len(q) \in Nat /\ d \in Int
      /\ e \in Place /\ e \in Nat /\ ~(e > Len(input)) /\ input[e] = "("
      /\ k \in Nat /\ k >= 1 /\ p + d = e + 1 /\ G[e] = ParenStep(G, input, o, e)
  BY SMTT(30), <1>1, BeginsAt
<1>3. /\ ~Failed(G[e][k]) /\ Shifted(q, 1, Len(q), input, d) /\ o \in Place /\ k \in Place
  BY <1>1 DEF Begins
<1>4. F[pos] = ParenStep(F, q, pos, pos) /\ close = F[pos][0]
  BY <1>1, <1>2, ParenFromIs
<1>. HIDE DEF F, G
<1>5. ~Failed(F[p][1]) /\ close = F[p][1]
  <2>1. close = IF TooDeep(0) THEN Fail("TooDeep", pos) ELSE F[pos + 1][0 + 1]
    BY <1>2, <1>4, ParenAt
  <2>2. ~TooDeep(0)
    BY <1>1, <2>1, Results
  <2>. QED
    BY <1>1, <2>1, <2>2
<1>6. ~TooDeep(k) /\ ~Failed(G[e + 1][k + 1])
  <2>1. G[e][k] = IF TooDeep(k) THEN Fail("TooDeep", e) ELSE G[e + 1][k + 1]
    BY <1>2, ParenAt
  <2>2. ~TooDeep(k)
    BY <1>3, <2>1, Results
  <2>. QED
    BY <1>3, <2>1, <2>2
<1>7. p \in Place /\ p \in Nat
  BY <1>1, <1>2 DEF Place
<1>8. c \in p..Len(q) /\ close.next = c + 1
  <2>1. /\ F[p][1].value \in p..Len(q) /\ F[p][1].next = F[p][1].value + 1
    BY <1>2, <1>5, <1>7, ParenFromIsThere DEF F
  <2>. QED
    BY <1>1, <1>5, <2>1
<1>9. k + 1 <= MAX_PAREN_DEPTH
  BY <1>2, <1>6, Bounds DEF TooDeep
<1>10. PICK n, z : n = Len(q) /\ z = Len(input)
  OBVIOUS
<1>11. n \in Nat /\ z \in Nat /\ c \in p..n /\ p \in 1..n /\ c \in 1..n
  <2>1. z \in Nat
    BY <1>10 DEF Text
  <2>2. p >= 1
    BY <1>1, <1>2
  <2>. QED
    BY <1>2, <1>7, <1>8, <1>10, <2>1, <2>2
<1>12. \A i \in 1..n : i + d \in 1..z /\ q[i] = input[i + d]
  BY <1>3, <1>10 DEF Shifted
<1>13. s \in Text /\ Len(s) = c - p /\ \A j \in 1..Len(s) : s[j] = q[p + j - 1]
  <2>1. c - 1 \in Int /\ c - 1 <= n /\ p \in Nat \ {0}
    BY <1>11
  <2>2. s \in Text
    BY <1>1, <1>10, <2>1, SubSeqTyped DEF Text
  <2>3. p <= (c - 1) + 1 /\ c - 1 \in 0..n
    BY <1>11
  <2>4. Len(s) = ((c - 1) - p) + 1 /\ \A j \in 1..((c - 1) - p) + 1 : s[j] = q[p + j - 1]
    <3>1. PICK b : b = c - 1
      OBVIOUS
    <3>2. b \in Int /\ p \in Int /\ (\A i \in p..b : i \in 1..n) /\ b - p + 1 = (b - p) + 1
          /\ (~(p <= b) => (b - p) + 1 = 0)
      BY <1>11, <3>1
    <3>3. \A i \in p..b : q[i] \in Glyph
      <4>1. \A i \in 1..n : q[i] \in Glyph
        BY <1>10 DEF Text
      <4>. QED
        BY <3>2, <4>1
    <3>4. /\ Len(SubSeq(q, p, b)) = IF p <= b THEN b - p + 1 ELSE 0
          /\ \A j \in 1..b - p + 1 : SubSeq(q, p, b)[j] = q[p + j - 1]
      BY <3>2, <3>3, SubSeqProperties
    <3>5. Len(s) = (b - p) + 1 /\ \A j \in 1..(b - p) + 1 : s[j] = q[p + j - 1]
      BY <1>1, <3>1, <3>2, <3>4
    <3>. QED
      BY <3>1, <3>5
  <2>5. ((c - 1) - p) + 1 = c - p
    BY <1>11
  <2>. QED
    BY <2>2, <2>4, <2>5
<1>14. Stands(s, input, e + 1)
  <2>1. e + 1 \in Place /\ (e + 1) + (c - p) = c + d
    BY SMTT(30), <1>1, <1>2, <1>11 DEF Place
  <2>2. (e + 1) + Len(s) <= Len(input) + 1
    <3>1. c + d \in 1..z
      BY <1>11, <1>12
    <3>2. c + d <= z + 1
      BY <1>11, <3>1
    <3>. QED
      BY <1>10, <1>13, <2>1, <3>2
  <2>3. ASSUME NEW j \in 1..Len(s) PROVE input[(e + 1) + j - 1] = s[j]
    <3>1. PICK i : i = p + j - 1
      OBVIOUS
    <3>2. i \in 1..n /\ i + d = (e + 1) + j - 1
      <4>1. j \in 1..c - p
        BY <1>13, <2>3
      <4>. QED
        BY <1>2, <1>11, <3>1, <4>1
    <3>3. q[i] = input[i + d] /\ s[j] = q[i]
      BY <1>12, <1>13, <3>1, <3>2
    <3>. QED
      BY <3>2, <3>3
  <2>. QED
    BY <2>1, <2>2, <2>3 DEF Stands
<1>15. StandsInside(s, k + 1)
  <2>1. e + 1 \in Place
    BY <1>2 DEF Place
  <2>2. Stands(s, input, e + 1) /\ ~Failed(ParenFrom(input, o)[e + 1][k + 1])
    BY <1>6, <1>14 DEF G
  <2>. QED
    BY <1>3, <1>9, <2>1, <2>2 DEF StandsInside
<1>16. ~Failed(G[(c + 1) + d][k])
  <2>1. p \in 1..Len(q) /\ 1 \in Place
    BY <1>10, <1>11 DEF Place
  <2>2. ~Failed(ParenFrom(q, pos)[p][1])
    BY <1>5 DEF F
  <2>3. ~Failed(ParenFrom(input, o)[p + d][1 + k])
    <3>1. 1 + k = k + 1
      BY <1>2
    <3>. QED
      BY <1>2, <1>6, <3>1 DEF G
  <2>4. ~Failed(ParenFrom(input, o)[ParenFrom(q, pos)[p][1].next + d][k])
    BY <1>2, <1>3, <2>1, <2>2, <2>3, ParenGoesOn
  <2>5. ParenFrom(q, pos)[p][1].next = c + 1
    BY <1>5, <1>8 DEF F
  <2>. QED
    BY <2>4, <2>5 DEF G
<1>17. PICK r : r = Good(Token("Param", s, pos), c + 1)
  OBVIOUS
<1>18. r.next = c + 1 /\ r.value.kind = "Param" /\ r.value.text = s
  BY <1>17, Results DEF Token
<1>19. Passes(q, input, d, o, k, r)
  BY <1>15, <1>16, <1>18 DEF Passes, G
<1>. QED
  BY <1>1, <1>8, <1>17, <1>19

\* Every token of q is passed.
LEMMA TokenPasses ==
    ASSUME NEW q \in Text, NEW input \in Text, NEW d, NEW o, NEW k, NEW pos,
           Begins(q, input, d, o, k, pos), q[pos] \notin Whitespace, ~Failed(LexToken(q, pos))
    PROVE  Passes(q, input, d, o, k, LexToken(q, pos))
<1>. DEFINE r == LexToken(q, pos)
            g == q[pos]
<1>1. CASE g \in {"{", "}", "!"}
  <2>1. r = Good(Token(g, <<>>, pos), pos + 1)
    BY <1>1 DEF LexToken, Quote
  <2>2. g # "Param" /\ g \notin {"(", ")", Quote}
    BY <1>1 DEF Quote
  <2>. QED
    BY <2>1, <2>2, PassesGlyph
<1>2. CASE g = "#"
  <2>1. PICK s, n : s = SubSeq(q, pos + 1, Len(q)) /\ n = Len(q)
    OBVIOUS
  <2>2. r = Good(Token("Comment", s, pos), n + 1)
    BY <1>2, <2>1 DEF LexToken, Quote
  <2>3. r.next = n + 1 /\ r.value.kind = "Comment"
    BY <2>2, Results DEF Token
  <2>4. n \in Nat /\ n + 1 > n
    BY <2>1 DEF Text
  <2>. HIDE DEF r
  <2>. QED
    BY <2>1, <2>3, <2>4 DEF Passes, r
<1>3. CASE g = Quote
  <2>. DEFINE string == LexString(q, pos)
  <2>1. r = IF Failed(string) THEN string ELSE Good(Token("Str", string.value, pos), string.next)
    BY <1>3 DEF LexToken, Quote, Then
  <2>2. ~Failed(string)
    BY <2>1
  <2>. QED
    BY <1>3, <2>1, <2>2, PassesString
<1>4. CASE g = "("
  <2>. DEFINE close == FindClosingParen(q, pos)
  <2>1. r = IF Failed(close) THEN close
            ELSE Good(Token("Param", SubSeq(q, pos + 1, close.value - 1), pos), close.next)
    BY <1>4 DEF LexToken, Quote, Then
  <2>2. ~Failed(close)
    BY <2>1
  <2>. QED
    BY <1>4, <2>1, <2>2, PassesParameter
<1>5. CASE g = ")"
  <2>1. r = Fail("UnexpectedToken", pos)
    BY <1>5 DEF LexToken, Quote
  <2>. QED
    BY <2>1, Results
<1>6. CASE g \notin {"{", "}", "!", "#", Quote, "(", ")"}
  <2>. DEFINE end == WordEnd(q, pos)
  <2>1. r = Good(Token("Word", SubSeq(q, pos, end - 1), pos), end)
    BY <1>6 DEF LexToken
  <2>2. g \notin Delimiters
    BY <1>6 DEF Delimiters
  <2>. QED
    BY <2>1, <2>2, PassesWord
<1>. QED
  BY <1>1, <1>2, <1>3, <1>4, <1>5, <1>6

\* A token in front of a list.
LEMMA ParametersAnd ==
    ASSUME NEW token, NEW t \in TokenList, NEW level, ParametersInside(t, level),
           token.kind = "Param" => StandsInside(token.text, level), token \in AToken
    PROVE  ParametersInside(<<token>> \o t, level)
<1>1. t \in Seq(AToken)
  BY DEF TokenList
<1>. DEFINE all == <<token>> \o t
<1>2. /\ all[1] = token
      /\ \A m \in DOMAIN all : m = 1 \/ \E j \in DOMAIN t : m = j + 1 /\ all[m] = t[j]
  BY <1>1, ConsIs DEF InFront
<1>. HIDE DEF all
<1>3. \A m \in DOMAIN all : all[m].kind = "Param" => StandsInside(all[m].text, level)
  BY <1>2 DEF ParametersInside
<1>. QED
  BY <1>3 DEF ParametersInside, all

\* What stands somewhere is that part of the text.
LEMMA StandsShifted ==
    ASSUME NEW q \in Text, NEW input \in Text, NEW at \in Place, Stands(q, input, at)
    PROVE  Shifted(q, 1, Len(q), input, at - 1) /\ 1 + (at - 1) = at
<1>1. PICK n, z : n = Len(q) /\ z = Len(input)
  OBVIOUS
<1>2. n \in Nat /\ z \in Nat /\ at \in Nat /\ at >= 1 /\ at + n <= z + 1
  BY <1>1 DEF Text, Place, Stands
<1>3. \A i \in 1..n : input[at + i - 1] = q[i]
  BY <1>1 DEF Stands
<1>4. ASSUME NEW i \in 1..n
      PROVE  i <= n /\ i + (at - 1) \in 1..z /\ q[i] = input[i + (at - 1)]
  <2>1. i <= n /\ i + (at - 1) \in 1..z /\ at + i - 1 = i + (at - 1)
    BY <1>2
  <2>. QED
    BY <1>3, <2>1
<1>5. 1 \in Place /\ at - 1 \in Int /\ 1 + (at - 1) = at
  BY <1>2 DEF Place
<1>. QED
  BY <1>1, <1>2, <1>4, <1>5 DEF Shifted

\* What is read of a text that stands inside parentheses stands inside them.
LEMMA LexedInside ==
    ASSUME NEW q \in Text, NEW k \in Place, StandsInside(q, k), ~Failed(Lex(q))
    PROVE  ParametersInside(Lex(q).value, k + 1)
<1>1. PICK input \in Text, o \in Place, at \in Place :
        Stands(q, input, at) /\ ~Failed(ParenFrom(input, o)[at][k])
  BY DEF StandsInside
<1>2. PICK d : d = at - 1
  OBVIOUS
<1>3. Shifted(q, 1, Len(q), input, d) /\ 1 + d = at
  BY <1>1, <1>2, StandsShifted
<1>. DEFINE L == LexFrom(q)
            G == ParenFrom(input, o)
            N == Len(q)
            S == {pos \in Place : ~Failed(L[pos]) /\ (pos > N \/ ~Failed(G[pos + d][k])) =>
                                    ParametersInside(L[pos].value, k + 1)}
<1>4. /\ L \in [Place -> Result(TokenList)]
      /\ \A pos \in Place : L[pos] = LexStep(L, q, pos)
      /\ Lex(q) = L[1]
  BY LexFromIs
<1>5. N \in Nat /\ Place \in SUBSET Nat
  BY DEF Text, Place
<1>. HIDE DEF L, G
<1>6. ASSUME NEW pos \in Place, \A p \in Place : p > pos /\ pos <= N => p \in S
      PROVE  pos \in S
  <2>. SUFFICES ASSUME ~Failed(L[pos]), pos > N \/ ~Failed(G[pos + d][k])
                PROVE  ParametersInside(L[pos].value, k + 1)
    OBVIOUS
  <2>1. L[pos] = LexStep(L, q, pos) /\ pos \in Nat /\ pos >= 1 /\ pos + 1 \in Place
    BY <1>4 DEF Place
  <2>2. CASE pos > N
    <3>1. PICK end : end = Token("End", <<>>, pos)
      OBVIOUS
    <3>2. L[pos] = Good(<<end>>, pos)
      BY <2>1, <2>2, <3>1 DEF LexStep
    <3>3. L[pos].value = <<end>> /\ end.kind # "Param"
      BY <3>1, <3>2, Results DEF Token
    <3>. QED
      BY <3>3 DEF ParametersInside
  <2>3. CASE ~(pos > N)
    <3>1. Begins(q, input, d, o, k, pos)
      <4>1. pos \in 1..Len(q)
        BY <1>5, <2>1, <2>3
      <4>. QED
        BY <1>3, <2>3, <4>1 DEF Begins, G
    <3>2. pos <= N
      BY <1>5, <2>1, <2>3
    <3>3. CASE q[pos] \in Whitespace
      <4>1. L[pos] = L[pos + 1]
        BY <2>1, <2>3, <3>3 DEF LexStep
      <4>2. q[pos] \notin {"(", ")", Quote}
        BY <3>3 DEF Whitespace, Newline, Quote
      <4>3. Passes(q, input, d, o, k, Good(Token("Word", <<>>, pos), pos + 1))
        BY <3>1, <4>2, PassesGlyph
      <4>4. Good(Token("Word", <<>>, pos), pos + 1).next = pos + 1
        BY Results
      <4>5. pos + 1 > N \/ ~Failed(G[(pos + 1) + d][k])
        BY <4>3, <4>4 DEF Passes, G
      <4>6. pos + 1 \in S
        BY <1>6, <2>1, <3>2
      <4>. QED
        BY <4>1, <4>5, <4>6
    <3>4. CASE q[pos] \notin Whitespace
      <4>1. PICK r : r = LexToken(q, pos)
        OBVIOUS
      <4>2. L[pos] = IF Failed(r) THEN r ELSE Before(r.value, L[r.next])
        BY <2>1, <2>3, <3>4, <4>1 DEF LexStep, Then
      <4>3. ~Failed(r)
        BY <4>2
      <4>4. Passes(q, input, d, o, k, r)
        BY <3>1, <3>4, <4>1, <4>3, TokenPasses
      <4>5. r.value \in AToken /\ r.next \in Nat /\ r.next > pos
        <5>1. Lexed(r, pos)
          BY <3>1, <3>4, <4>1, LexTokenIs DEF Begins
        <5>2. r \in Result(AToken) /\ r.next > pos
          BY <4>3, <5>1 DEF Lexed
        <5>. QED
          BY <4>3, <5>2, ValueOf
      <4>6. PICK token, n : token = r.value /\ n = r.next
        OBVIOUS
      <4>7. n \in Place /\ n > pos
        <5>1. n \in Nat /\ n > pos
          BY <4>5, <4>6
        <5>2. n # 0
          BY <2>1, <5>1
        <5>. QED
          BY <5>1, <5>2 DEF Place
      <4>8. PICK rest : rest = L[n]
        OBVIOUS
      <4>9. L[pos] = Before(token, rest)
        BY <4>2, <4>3, <4>6, <4>8
      <4>10. ~Failed(rest) /\ L[pos].value = <<token>> \o rest.value
        <5>1. ~Failed(rest)
          BY <4>9, BeforeFails
        <5>. QED
          BY <4>9, <5>1, BeforeGives
      <4>11. ParametersInside(rest.value, k + 1)
        <5>1. n \in S
          BY <1>6, <3>2, <4>7
        <5>2. n > N \/ ~Failed(G[n + d][k])
          BY <4>4, <4>6 DEF Passes, G
        <5>. QED
          BY <4>8, <4>10, <5>1, <5>2
      <4>12. token.kind = "Param" => StandsInside(token.text, k + 1)
        BY <4>4, <4>6 DEF Passes
      <4>13. rest.value \in TokenList
        <5>1. rest \in Result(TokenList)
          BY <1>4, <4>7, <4>8
        <5>. QED
          BY <4>10, <5>1, ValueOf
      <4>14. token \in AToken
        BY <4>5, <4>6
      <4>15. ParametersInside(<<token>> \o rest.value, k + 1)
        BY <4>11, <4>12, <4>13, <4>14, ParametersAnd
      <4>. QED
        BY <4>10, <4>15
    <3>. QED
      BY <3>3, <3>4
  <2>. QED
    BY <2>2, <2>3
<1>7. 1 \in S
  <2>1. 1 \in Place
    BY DEF Place
  <2>. HIDE DEF S
  <2>. QED
    BY <1>5, <1>6, <2>1, FromTheEnd
<1>8. ~Failed(G[1 + d][k])
  BY <1>1, <1>3 DEF G
<1>. QED
  BY <1>4, <1>7, <1>8

\* The parameters of a text stand inside their own parentheses.
LEMMA ParametersAreInside ==
    ASSUME NEW t \in TokenList
    PROVE  ParametersInside(t, 1)
<1>. SUFFICES ASSUME NEW i \in DOMAIN t, t[i].kind = "Param" PROVE StandsInside(t[i].text, 1)
  BY DEF ParametersInside
<1>1. PICK p, b : p = t[i].text /\ b = Bracketed(p)
  OBVIOUS
<1>2. p \in Text /\ Closes(p)
  BY <1>1, TokenAt
<1>3. /\ b \in Text /\ Len(b) = Len(p) + 2 /\ Len(p) \in Nat
      /\ b[1] = "(" /\ \A j \in 1..Len(p) : b[j + 1] = p[j]
  BY <1>1, <1>2, BracketedIs
<1>4. 1 \in Place /\ 2 \in Place /\ 1 \in Nat /\ ~(1 > Len(b))
  BY <1>3 DEF Place
<1>. DEFINE F == ParenFrom(b, 1)
<1>5. F[1] = ParenStep(F, b, 1, 1) /\ FindClosingParen(b, 1) = F[1][0]
  BY <1>3, <1>4, ParenFromIs
<1>6. ~Failed(F[1][0])
  <2>1. FindClosingParen(b, 1) = Good(Len(p) + 2, Len(p) + 3)
    BY <1>1, <1>2 DEF Closes
  <2>. QED
    BY <1>5, <2>1, Results
<1>. HIDE DEF F
<1>7. F[1][0] = IF TooDeep(0) THEN Fail("TooDeep", 1) ELSE F[1 + 1][0 + 1]
  BY <1>3, <1>4, <1>5, ParenAt
<1>8. ~TooDeep(0) /\ ~Failed(F[2][1])
  <2>1. ~TooDeep(0)
    BY <1>6, <1>7, Results
  <2>2. 1 + 1 = 2 /\ 0 + 1 = 1
    OBVIOUS
  <2>. QED
    BY <1>6, <1>7, <2>1, <2>2
<1>9. 1 <= MAX_PAREN_DEPTH
  BY <1>8, Bounds DEF TooDeep
<1>10. Stands(p, b, 2)
  <2>1. 2 + Len(p) <= Len(b) + 1 /\ \A j \in 1..Len(p) : 2 + j - 1 = j + 1
    BY <1>3
  <2>. QED
    BY <1>3, <1>4, <2>1 DEF Stands
<1>11. StandsInside(p, 1)
  BY <1>3, <1>4, <1>8, <1>9, <1>10 DEF StandsInside, F
<1>. QED
  BY <1>1, <1>11

-----------------------------------------------------------------------------
(* The queries that conditions ask for.                                    *)

Asked(t) == {t[i].text : i \in {j \in DOMAIN t : t[j].kind = "Param"}}

\* Of those queries the same is known.
AskedAlike(known, others, t) == \A p \in Asked(t) : Failed(known[p]) <=> Failed(others[p])

\* Conditions ask for nothing else.
LEMMA ValidAsked ==
    ASSUME NEW t, NEW known, NEW others, AskedAlike(known, others, t),
           NEW name, NEW parameter \in Asked(t) \cup {None}
    PROVE  ValidCondition(known, name, parameter) <=> ValidCondition(others, name, parameter)
<1>1. parameter # None => (Failed(known[parameter]) <=> Failed(others[parameter]))
  BY DEF AskedAlike
<1>. QED
  BY <1>1 DEF ValidCondition

LEMMA NamedAsked ==
    ASSUME NEW t \in TokenList, NEW known, NEW others, AskedAlike(known, others, t),
           NEW n \in DOMAIN t, NEW negated
    PROVE  NamedCondition(negated, Keyword(t[n].text), Parameter(t[n + 1]), known, t, n)
             = NamedCondition(negated, Keyword(t[n].text), Parameter(t[n + 1]), others, t, n)
<1>1. PICK name, parameter : /\ name = Keyword(t[n].text)
                             /\ parameter = Parameter(t[n + 1])
  OBVIOUS
<1>2. CASE t[n].kind = "End"
  BY <1>2 DEF NamedCondition
<1>3. CASE t[n].kind # "End"
  <2>1. n + 1 \in DOMAIN t
    BY <1>3, TokenAt
  <2>2. parameter \in Asked(t) \cup {None}
    BY <1>1, <2>1 DEF Parameter, Asked
  <2>3. ValidCondition(known, name, parameter) <=> ValidCondition(others, name, parameter)
    BY <1>1, <2>2, ValidAsked
  <2>4. NamedCondition(negated, name, parameter, known, t, n)
          = NamedCondition(negated, name, parameter, others, t, n)
    BY <2>3 DEF NamedCondition
  <2>. QED
    BY <1>1, <2>4
<1>. QED
  BY <1>2, <1>3

LEMMA ConditionAsked ==
    ASSUME NEW t \in TokenList, NEW known, NEW others, AskedAlike(known, others, t),
           NEW i \in DOMAIN t
    PROVE  ParseCondition(known, t, i) = ParseCondition(others, t, i)
<1>1. PICK n, negated : /\ negated = (t[i].kind = "!")
                        /\ n = IF t[i].kind = "!" THEN i + 1 ELSE i
  OBVIOUS
<1>2. n \in DOMAIN t
  BY <1>1, TokenAt
<1>3. NamedCondition(negated, Keyword(t[n].text), Parameter(t[n + 1]), known, t, n)
        = NamedCondition(negated, Keyword(t[n].text), Parameter(t[n + 1]), others, t, n)
  BY <1>1, <1>2, NamedAsked
<1>4. \A any : ParseCondition(any, t, i)
        = NamedCondition(negated, Keyword(t[n].text), Parameter(t[n + 1]), any, t, n)
  BY <1>1 DEF ParseCondition
<1>. QED
  BY <1>1, <1>3, <1>4

LEMMA ConditionsAsked ==
    ASSUME NEW t \in TokenList, NEW known, NEW others, AskedAlike(known, others, t),
           NEW first \in DOMAIN t
    PROVE  ParseConditions(known, t, first) = ParseConditions(others, t, first)
<1>. DEFINE F == ConditionsFrom(known, t)
            G == ConditionsFrom(others, t)
<1>1. /\ \A i \in DOMAIN t : F[i] = ConditionsStep(F, known, t, i)
      /\ ParseConditions(known, t, first) = F[first][0]
  BY ConditionsFromIs
<1>2. /\ \A i \in DOMAIN t : G[i] = ConditionsStep(G, others, t, i)
      /\ ParseConditions(others, t, first) = G[first][0]
  BY ConditionsFromIs
<1>. HIDE DEF F, G
<1>3. \A f : \A i \in DOMAIN t : ConditionsStep(f, known, t, i) = ConditionsStep(f, others, t, i)
  <2>. SUFFICES ASSUME NEW f, NEW i \in DOMAIN t
                PROVE  ConditionsStep(f, known, t, i) = ConditionsStep(f, others, t, i)
    OBVIOUS
  <2>1. ParseCondition(known, t, i) = ParseCondition(others, t, i)
    BY ConditionAsked
  <2>. QED
    BY <2>1 DEF ConditionsStep
<1>4. ASSUME NEW i \in DOMAIN t, SameAfter(DOMAIN t, Len(t), i, F, G) PROVE F[i] = G[i]
  <2>1. ConditionsStep(F, known, t, i) = ConditionsStep(G, known, t, i)
    BY <1>4, ConditionsStepIs
  <2>. QED
    BY <1>1, <1>2, <1>3, <2>1
<1>5. DOMAIN t \in SUBSET Nat /\ Len(t) \in Nat
  BY TokenAt
<1>6. AlikeAhead(DOMAIN t, Len(t), F, G)
  BY <1>4, <1>5 DEF AlikeAhead
<1>7. F[first] = G[first]
  BY <1>6, Agree
<1>. QED
  BY <1>1, <1>2, <1>7

LEMMA ClauseAsked ==
    ASSUME NEW t \in TokenList, NEW known, NEW others, AskedAlike(known, others, t),
           NEW i \in DOMAIN t
    PROVE  ParseConditionClause(known, t, i) = ParseConditionClause(others, t, i)
<1>1. PICK operator, n : /\ operator = Operator(t, i)
                         /\ n = IF operator = None THEN i ELSE i + 1
  OBVIOUS
<1>2. n \in DOMAIN t
  BY <1>1, OperatorIs
<1>3. \A any : ParseConditionClause(any, t, i) = ConditionsAfter(operator, any, t, n)
  BY <1>1 DEF ParseConditionClause
<1>4. ParseCondition(known, t, n) = ParseCondition(others, t, n)
  BY <1>1, <1>2, ConditionAsked
<1>5. CASE t[n].kind = "{"
  <2>1. n + 1 \in DOMAIN t
    BY <1>2, <1>5, TokenAt
  <2>2. ParseConditions(known, t, n + 1) = ParseConditions(others, t, n + 1)
    BY <1>1, <2>1, ConditionsAsked
  <2>3. ConditionsAfter(operator, known, t, n) = ConditionsAfter(operator, others, t, n)
    BY <1>5, <2>2 DEF ConditionsAfter
  <2>. QED
    BY <1>1, <1>3, <2>3
<1>6. CASE t[n].kind # "{"
  <2>1. ConditionsAfter(operator, known, t, n) = ConditionsAfter(operator, others, t, n)
    BY <1>4, <1>6 DEF ConditionsAfter
  <2>. QED
    BY <1>1, <1>3, <2>1
<1>. QED
  BY <1>5, <1>6

LEMMA RuleAsked ==
    ASSUME NEW t \in TokenList, NEW known, NEW others, AskedAlike(known, others, t), NEW m
    PROVE  ParseRule(known, t, m) = ParseRule(others, t, m)
<1>1. PICK tgt, first, attributes :
        /\ tgt = Target(t[1])
        /\ first = IF tgt = None THEN 1 ELSE 2
        /\ attributes = ParseAttributes(t, first)
  OBVIOUS
<1>2. CASE ~Allowed(m, tgt)
  BY <1>1, <1>2 DEF ParseRule, ParseAfter
<1>3. CASE Allowed(m, tgt)
  <2>1. \A any : ParseRule(any, t, m) =
            IF Failed(attributes) THEN attributes
            ELSE Then(ParseClause(any, t, attributes.next), LAMBDA clause :
                      ParseEnd(t, tgt, attributes.value, clause))
    BY <1>1, <1>3 DEF ParseRule, ParseAfter, Then
  <2>2. CASE Failed(attributes)
    BY <2>1, <2>2
  <2>3. CASE ~Failed(attributes)
    <3>1. first \in DOMAIN t
      BY <1>1, TargetIs
    <3>2. PICK i : i = attributes.next
      OBVIOUS
    <3>3. i \in DOMAIN t
      BY <1>1, <2>3, <3>1, <3>2, ParseAttributesIs, ReadFromValue
    <3>4. ParseClause(known, t, i) = ParseClause(others, t, i)
      <4>1. CASE t[i].kind = "Word"
        <5>1. i + 1 \in DOMAIN t
          BY <3>3, <4>1, TokenAt
        <5>2. ParseConditionClause(known, t, i + 1) = ParseConditionClause(others, t, i + 1)
          BY <1>1, <5>1, ClauseAsked
        <5>. QED
          BY <4>1, <5>2 DEF ParseClause
      <4>2. CASE t[i].kind # "Word"
        BY <4>2 DEF ParseClause
      <4>. QED
        BY <4>1, <4>2
    <3>5. ParseRule(known, t, m) = ParseRule(others, t, m)
      BY <2>1, <2>3, <3>2, <3>4 DEF Then
    <3>. QED
      BY <1>1, <3>5
  <2>. QED
    BY <2>2, <2>3
<1>. QED
  BY <1>2, <1>3

\* What is known of those queries alone; any other fails.
OfAsked(queries, t) == [p \in Text |-> IF p \in Asked(t) THEN queries[p] ELSE Fail("Empty", 0)]

LEMMA OfAskedIs ==
    ASSUME NEW queries, NEW t \in TokenList
    PROVE  /\ AskedAlike(OfAsked(queries, t), queries, t) /\ Asked(t) \subseteq Text
           /\ \A p \in Text \ Asked(t) : Failed(OfAsked(queries, t)[p])
<1>1. Asked(t) \subseteq Text
  BY TokenAt DEF Asked
<1>2. \A p \in Asked(t) : OfAsked(queries, t)[p] = queries[p]
  BY <1>1 DEF OfAsked
<1>3. \A p \in Text \ Asked(t) : OfAsked(queries, t)[p] = Fail("Empty", 0)
  BY DEF OfAsked
<1>. QED
  BY <1>1, <1>2, <1>3, Results DEF AskedAlike

\* A rule that was read nests only what stands as a parameter in its text.
LEMMA NestsAsked ==
    ASSUME NEW queries, NEW t \in TokenList, NEW m, ~Failed(ParseRule(queries, t, m)),
           NEW condition, condition = ParseRule(queries, t, m).value.condition, condition # None,
           NEW k \in DOMAIN condition.conditions, condition.conditions[k].name = "allowed-matches"
    PROVE  condition.conditions[k].parameter \in Asked(t)
<1>1. PICK few, r, rule, c, p : /\ few = OfAsked(queries, t) /\ r = ParseRule(queries, t, m)
                                /\ rule = r.value /\ c = condition.conditions[k] /\ p = c.parameter
  OBVIOUS
<1>2. Parsed(few, m, r)
  <2>1. Parsed(few, m, ParseRule(few, t, m))
    BY ParseRuleIs
  <2>2. ParseRule(few, t, m) = r
    BY <1>1, OfAskedIs, RuleAsked
  <2>. QED
    BY <2>1, <2>2
<1>3. condition \in ClauseOf(few)
  <2>1. rule \in RuleOf(few)
    BY <1>1, <1>2 DEF Parsed
  <2>. QED
    BY <1>1, <2>1 DEF RuleOf, IsRule
<1>4. c \in ConditionOf(few)
  BY <1>1, <1>3 DEF ClauseOf, IsClause
<1>5. ValidCondition(few, "allowed-matches", p) /\ p \in Text \cup {None}
  BY <1>1, <1>4 DEF ConditionOf, Condition
<1>6. p # None /\ ~Failed(few[p])
  BY <1>5 DEF ValidCondition
<1>7. p \in Text
  BY <1>5, <1>6
<1>8. p \in Asked(t)
  <2>1. p \notin Asked(t) => Failed(few[p])
    BY <1>1, <1>7, OfAskedIs
  <2>. QED
    BY <1>6, <2>1
<1>. QED
  BY <1>1, <1>8

-----------------------------------------------------------------------------
(* The parser's recursion ends: a query is shorter than what nests it.     *)

\* The parameters in a list of tokens are shorter than n.
ParametersShorter(t, n) == \A i \in DOMAIN t : t[i].kind = "Param" => Len(t[i].text) < n

LEMMA ShorterAnd ==
    ASSUME NEW token \in AToken, NEW t \in TokenList, NEW n, ParametersShorter(t, n),
           token.kind = "Param" => Len(token.text) < n
    PROVE  ParametersShorter(<<token>> \o t, n)
<1>1. t \in Seq(AToken)
  BY DEF TokenList
<1>. DEFINE all == <<token>> \o t
<1>2. /\ all[1] = token
      /\ \A m \in DOMAIN all : m = 1 \/ \E j \in DOMAIN t : m = j + 1 /\ all[m] = t[j]
  BY <1>1, ConsIs DEF InFront
<1>. HIDE DEF all
<1>3. \A m \in DOMAIN all : all[m].kind = "Param" => Len(all[m].text) < n
  BY <1>2 DEF ParametersShorter
<1>. QED
  BY <1>3 DEF ParametersShorter, all

\* A parameter is without its parentheses.
LEMMA TokenShorter ==
    ASSUME NEW input \in Text, NEW pos \in 1..Len(input), input[pos] \notin Whitespace,
           ~Failed(LexToken(input, pos)), LexToken(input, pos).value.kind = "Param"
    PROVE  Len(LexToken(input, pos).value.text) < Len(input)
<1>. DEFINE r == LexToken(input, pos)
            g == input[pos]
<1>1. CASE g \in {"{", "}", "!"}
  <2>1. r = Good(Token(g, <<>>, pos), pos + 1)
    BY <1>1 DEF LexToken, Quote
  <2>2. r.value.kind = g
    BY <2>1, Results DEF Token
  <2>. QED
    BY <1>1, <2>2
<1>2. CASE g = "#"
  <2>1. PICK s, n : s = SubSeq(input, pos + 1, Len(input)) /\ n = Len(input) + 1
    OBVIOUS
  <2>2. r = Good(Token("Comment", s, pos), n)
    BY <1>2, <2>1 DEF LexToken, Quote
  <2>3. r.value.kind = "Comment"
    BY <2>2, Results DEF Token
  <2>. QED
    BY <2>3
<1>3. CASE g = Quote
  <2>. DEFINE string == LexString(input, pos)
  <2>1. r = IF Failed(string) THEN string ELSE Good(Token("Str", string.value, pos), string.next)
    BY <1>3 DEF LexToken, Quote, Then
  <2>2. r = Good(Token("Str", string.value, pos), string.next)
    BY <2>1
  <2>3. r.value.kind = "Str"
    BY <2>2, Results DEF Token
  <2>. QED
    BY <2>3
<1>4. CASE g = "("
  <2>. DEFINE close == FindClosingParen(input, pos)
  <2>1. r = IF Failed(close) THEN close
            ELSE Good(Token("Param", SubSeq(input, pos + 1, close.value - 1), pos), close.next)
    BY <1>4 DEF LexToken, Quote, Then
  <2>2. ~Failed(close)
    BY <2>1
  <2>3. pos \in Place /\ pos \in Nat
    BY DEF Place
  <2>4. close.value \in pos..Len(input)
    BY <2>2, <2>3, ParenIsThere
  <2>5. PICK p, b, n : p = pos + 1 /\ b = close.value - 1 /\ n = Len(input)
    OBVIOUS
  <2>6. /\ p \in Int /\ b \in Int /\ n \in Nat /\ (\A i \in p..b : i \in 1..n)
        /\ (IF p <= b THEN b - p + 1 ELSE 0) < n
    <3>1. n \in Nat
      BY <2>5 DEF Text
    <3>2. PICK v : v = close.value
      OBVIOUS
    <3>3. v \in pos..n /\ p = pos + 1 /\ b = v - 1 /\ pos \in 1..n
      BY <2>4, <2>5, <3>2
    <3>. QED
      BY <3>1, <3>3
  <2>7. \A i \in p..b : input[i] \in Glyph
    <3>1. \A i \in 1..n : input[i] \in Glyph
      BY <2>5 DEF Text
    <3>. QED
      BY <2>6, <3>1
  <2>8. Len(SubSeq(input, p, b)) = IF p <= b THEN b - p + 1 ELSE 0
    BY <2>6, <2>7, SubSeqProperties
  <2>9. r.value.text = SubSeq(input, p, b)
    BY <2>1, <2>2, <2>5, Results DEF Token
  <2>. QED
    BY <2>5, <2>6, <2>8, <2>9
<1>5. CASE g = ")"
  <2>1. r = Fail("UnexpectedToken", pos)
    BY <1>5 DEF LexToken, Quote
  <2>. QED
    BY <2>1, Results
<1>6. CASE g \notin {"{", "}", "!", "#", Quote, "(", ")"}
  <2>1. PICK s, end : s = SubSeq(input, pos, WordEnd(input, pos) - 1) /\ end = WordEnd(input, pos)
    OBVIOUS
  <2>2. r = Good(Token("Word", s, pos), end)
    BY <1>6, <2>1 DEF LexToken
  <2>3. r.value.kind = "Word"
    BY <2>2, Results DEF Token
  <2>. QED
    BY <2>3
<1>. QED
  BY <1>1, <1>2, <1>3, <1>4, <1>5, <1>6

LEMMA LexedShorter ==
    ASSUME NEW q \in Text, ~Failed(Lex(q))
    PROVE  ParametersShorter(Lex(q).value, Len(q))
<1>. DEFINE L == LexFrom(q)
            N == Len(q)
            S == {pos \in Place : ~Failed(L[pos]) => ParametersShorter(L[pos].value, N)}
<1>1. /\ L \in [Place -> Result(TokenList)]
      /\ \A pos \in Place : L[pos] = LexStep(L, q, pos)
      /\ Lex(q) = L[1]
  BY LexFromIs
<1>2. N \in Nat /\ Place \in SUBSET Nat
  BY DEF Text, Place
<1>. HIDE DEF L
<1>3. ASSUME NEW pos \in Place, \A p \in Place : p > pos /\ pos <= N => p \in S
      PROVE  pos \in S
  <2>. SUFFICES ASSUME ~Failed(L[pos]) PROVE ParametersShorter(L[pos].value, N)
    OBVIOUS
  <2>1. L[pos] = LexStep(L, q, pos) /\ pos \in Nat /\ pos >= 1 /\ pos + 1 \in Place /\ pos + 1 > pos
    BY <1>1 DEF Place
  <2>2. CASE pos > N
    <3>1. PICK end : end = Token("End", <<>>, pos)
      OBVIOUS
    <3>2. L[pos] = Good(<<end>>, pos)
      BY <2>1, <2>2, <3>1 DEF LexStep
    <3>3. L[pos].value = <<end>> /\ end.kind # "Param"
      BY <3>1, <3>2, Results DEF Token
    <3>. QED
      BY <3>3 DEF ParametersShorter
  <2>3. CASE ~(pos > N) /\ q[pos] \in Whitespace
    <3>1. L[pos] = L[pos + 1]
      BY <2>1, <2>3 DEF LexStep
    <3>2. pos + 1 \in S
      BY <1>2, <1>3, <2>1, <2>3
    <3>. QED
      BY <3>1, <3>2
  <2>4. CASE ~(pos > N) /\ q[pos] \notin Whitespace
    <3>1. PICK r : r = LexToken(q, pos)
      OBVIOUS
    <3>2. L[pos] = IF Failed(r) THEN r ELSE Before(r.value, L[r.next])
      BY <2>1, <2>4, <3>1 DEF LexStep, Then
    <3>3. ~Failed(r) /\ pos \in 1..Len(q)
      BY <1>2, <2>1, <2>4, <3>2
    <3>4. r.value \in AToken /\ r.next \in Nat /\ r.next > pos
      <4>1. Lexed(r, pos)
        BY <2>4, <3>1, <3>3, LexTokenIs
      <4>2. r \in Result(AToken) /\ r.next > pos
        BY <3>3, <4>1 DEF Lexed
      <4>. QED
        BY <3>3, <4>2, ValueOf
    <3>5. PICK token, n : token = r.value /\ n = r.next
      OBVIOUS
    <3>6. n \in Place /\ n > pos /\ pos <= N
      <4>1. n \in Nat /\ n > pos
        BY <3>4, <3>5
      <4>2. n # 0 /\ pos <= N
        BY <1>2, <2>1, <3>3, <4>1
      <4>. QED
        BY <4>1, <4>2 DEF Place
    <3>7. PICK rest : rest = L[n]
      OBVIOUS
    <3>8. L[pos] = Before(token, rest)
      BY <3>2, <3>3, <3>5, <3>7
    <3>9. ~Failed(rest) /\ L[pos].value = <<token>> \o rest.value
      <4>1. ~Failed(rest)
        BY <3>8, BeforeFails
      <4>. QED
        BY <3>8, <4>1, BeforeGives
    <3>10. ParametersShorter(rest.value, N)
      BY <1>3, <3>6, <3>7, <3>9
    <3>11. token.kind = "Param" => Len(token.text) < N
      BY <2>4, <3>1, <3>3, <3>5, TokenShorter
    <3>12. rest.value \in TokenList /\ token \in AToken
      <4>1. rest \in Result(TokenList)
        BY <1>1, <3>6, <3>7
      <4>. QED
        BY <3>4, <3>5, <3>9, <4>1, ValueOf
    <3>13. ParametersShorter(<<token>> \o rest.value, N)
      BY <3>10, <3>11, <3>12, ShorterAnd
    <3>. QED
      BY <3>9, <3>13
  <2>. QED
    BY <2>2, <2>3, <2>4
<1>4. 1 \in S
  <2>1. 1 \in Place
    BY DEF Place
  <2>. HIDE DEF S
  <2>. QED
    BY <1>2, <1>3, <2>1, FromTheEnd
<1>. QED
  BY <1>1, <1>4

\* What a text is read as depends on what shorter queries are.
ShorterAlike(known, others, n) ==
    \A p \in Text : Len(p) < n => (Failed(known[p]) <=> Failed(others[p]))

LEMMA ParsedAlike ==
    ASSUME NEW q \in Text, NEW known, NEW others, ShorterAlike(known, others, Len(q)), NEW m
    PROVE  ParseWith(known, q, m) = ParseWith(others, q, m)
<1>1. PICK lexed : lexed = Lex(q)
  OBVIOUS
<1>2. \A any : ParseWith(any, q, m) =
        IF Len(q) > MAX_INPUT_LEN THEN Fail("TooLong", MAX_INPUT_LEN + 1)
        ELSE IF Failed(lexed) THEN lexed ELSE ParseRule(any, lexed.value, m)
  BY <1>1 DEF ParseWith, Then
<1>3. CASE Failed(lexed)
  BY <1>2, <1>3
<1>4. CASE ~Failed(lexed)
  <2>1. PICK t : t = lexed.value
    OBVIOUS
  <2>2. t \in TokenList /\ ParametersShorter(t, Len(q))
    <3>1. lexed \in Result(TokenList)
      BY <1>1, LexTyped
    <3>2. t \in TokenList
      BY <1>4, <2>1, <3>1, ValueOf
    <3>. QED
      BY <1>1, <1>4, <2>1, <3>2, LexedShorter
  <2>3. AskedAlike(known, others, t)
    <3>1. \A p \in Asked(t) : p \in Text /\ Len(p) < Len(q)
      BY <2>2, OfAskedIs DEF Asked, ParametersShorter
    <3>. QED
      BY <3>1 DEF AskedAlike, ShorterAlike
  <2>4. ParseRule(known, t, m) = ParseRule(others, t, m)
    BY <2>2, <2>3, RuleAsked
  <2>. QED
    BY <1>2, <2>1, <2>4
<1>. QED
  BY <1>3, <1>4

\* What is known of the queries that are no longer than a text may be: by their
\* lengths, from the longest on, whether they are read.
Known(f) ==
    [p \in Text |-> IF Len(p) <= MAX_INPUT_LEN /\ f[MAX_INPUT_LEN - Len(p)][p]
                    THEN Good(None, 0) ELSE Fail("Empty", 0)]
KnownStep(f, i) ==
    [p \in Text |-> MAX_INPUT_LEN - Len(p) = i /\ ~Failed(ParseWith(Known(f), p, "Query"))]

LEMMA KnownAt ==
    ASSUME NEW f, NEW p \in Text
    PROVE  Failed(Known(f)[p]) <=> ~(Len(p) <= MAX_INPUT_LEN /\ f[MAX_INPUT_LEN - Len(p)][p])
<1>1. Known(f)[p] = IF Len(p) <= MAX_INPUT_LEN /\ f[MAX_INPUT_LEN - Len(p)][p]
                    THEN Good(None, 0) ELSE Fail("Empty", 0)
  BY DEF Known
<1>2. ~Failed(Good(None, 0)) /\ Failed(Fail("Empty", 0))
  BY Results
<1>. QED
  BY <1>1, <1>2

\* A nested query is read by the parser itself: its recursion over the texts
\* that nest one another is well-defined, and ends.
LEMMA NestedIs == Nested = [p \in Text |-> ParseWith(Nested, p, "Query")]
<1>. DEFINE N == MAX_INPUT_LEN
            D == 0..N
            V == [Text -> BOOLEAN]
            G == [f \in [D -> V] |-> [i \in D |-> KnownStep(f, i)]]
<1>1. D \in SUBSET Nat /\ N \in Nat
  BY Bounds
<1>2. V # {}
  <2>1. [p \in Text |-> TRUE] \in V
    OBVIOUS
  <2>. QED
    BY <2>1
<1>3. \A f : \A i \in D : KnownStep(f, i) \in V
  BY DEF KnownStep
<1>4. G \in [[D -> V] -> [D -> V]]
  BY <1>3
<1>5. ASSUME NEW f \in [D -> V], NEW g \in [D -> V], NEW i \in D, SameAfter(D, N, i, f, g)
      PROVE  G[f][i] = G[g][i]
  <2>1. ASSUME NEW p \in Text, N - Len(p) = i
        PROVE  ParseWith(Known(f), p, "Query") = ParseWith(Known(g), p, "Query")
    <3>1. ASSUME NEW s \in Text, Len(s) < Len(p)
          PROVE  Failed(Known(f)[s]) <=> Failed(Known(g)[s])
      <4>1. PICK n, j : n = Len(p) /\ j = N - Len(s)
        OBVIOUS
      <4>2. j \in D /\ j > i /\ i <= N
        <5>1. PICK k : k = Len(s)
          OBVIOUS
        <5>2. k \in Nat /\ n \in Nat /\ k < n /\ N - n = i /\ j = N - k /\ i \in 0..N
          BY <2>1, <3>1, <4>1, <5>1 DEF Text
        <5>. QED
          BY <1>1, <5>2
      <4>3. f[j] = g[j]
        BY <1>5, <4>2 DEF SameAfter
      <4>. QED
        BY <4>1, <4>3, KnownAt
    <3>2. ShorterAlike(Known(f), Known(g), Len(p))
      BY <3>1 DEF ShorterAlike
    <3>. QED
      BY <3>2, ParsedAlike
  <2>2. KnownStep(f, i) = KnownStep(g, i)
    BY <2>1 DEF KnownStep
  <2>. QED
    BY <2>2
<1>6. LooksAhead(D, V, N, G)
  <2>. HIDE DEF G, V, D
  <2>. QED
    BY <1>1, <1>2, <1>4, <1>5 DEF LooksAhead
<1>7. PICK f \in [D -> V] : f = G[f]
  <2>. HIDE DEF G, V, D
  <2>. QED
    BY <1>6, Recursion
<1>8. \A i \in D : f[i] = KnownStep(f, i)
  BY <1>7
<1>. DEFINE h == [p \in Text |-> ParseWith(Known(f), p, "Query")]
<1>9. ASSUME NEW p \in Text PROVE Failed(Known(f)[p]) <=> Failed(h[p])
  <2>1. PICK i, r : i = N - Len(p) /\ r = ParseWith(Known(f), p, "Query")
    OBVIOUS
  <2>2. h[p] = r
    BY <2>1
  <2>3. CASE Len(p) <= N
    <3>1. i \in D
      BY <1>1, <2>1, <2>3 DEF Text
    <3>2. f[i][p] <=> ~Failed(r)
      BY <1>8, <2>1, <3>1 DEF KnownStep
    <3>. QED
      BY <2>1, <2>2, <2>3, <3>2, KnownAt
  <2>4. CASE ~(Len(p) <= N)
    <3>1. Len(p) > N
      <4>1. Len(p) \in Nat
        BY DEF Text
      <4>. QED
        BY <1>1, <2>4, <4>1
    <3>2. r = Fail("TooLong", MAX_INPUT_LEN + 1)
      BY <2>1, <3>1 DEF ParseWith
    <3>3. Failed(r)
      BY <3>2, Results
    <3>. QED
      BY <2>2, <2>4, <3>3, KnownAt
  <2>. QED
    BY <2>3, <2>4
<1>10. ASSUME NEW p \in Text PROVE h[p] = ParseWith(h, p, "Query")
  <2>1. h[p] = ParseWith(Known(f), p, "Query")
    OBVIOUS
  <2>. HIDE DEF h
  <2>2. ShorterAlike(Known(f), h, Len(p))
    BY <1>9 DEF ShorterAlike
  <2>3. ParseWith(Known(f), p, "Query") = ParseWith(h, p, "Query")
    BY <2>2, ParsedAlike
  <2>. QED
    BY <2>1, <2>3
<1>11. h = [p \in Text |-> ParseWith(h, p, "Query")]
  <2>1. PICK k : k = [p \in Text |-> ParseWith(h, p, "Query")]
    OBVIOUS
  <2>2. \A p \in Text : h[p] = k[p]
    BY <1>10, <2>1
  <2>3. h = k
    BY <2>1, <2>2
  <2>. QED
    BY <2>1, <2>3
<1>. HIDE DEF h
<1>. QED
  BY <1>11 DEF Nested

\* The parser ends on every text, however texts nest one another: what a nested
\* query is read as is what the parser makes of it, and each is shorter than the
\* text around it (parser.rs).
THEOREM ParsingEnds ==
    /\ \A query \in Text : Nested[query] = Parse(query, "Query")
    /\ \A read \in Text : ~Failed(Lex(read)) =>
            \A query \in Asked(Lex(read).value) : query \in Text /\ Len(query) < Len(read)
<1>1. ASSUME NEW query \in Text PROVE Nested[query] = Parse(query, "Query")
  BY NestedIs DEF Parse
<1>2. ASSUME NEW read \in Text, ~Failed(Lex(read)), NEW query \in Asked(Lex(read).value)
      PROVE  query \in Text /\ Len(query) < Len(read)
  <2>1. PICK t : t = Lex(read).value
    OBVIOUS
  <2>2. t \in TokenList /\ ParametersShorter(t, Len(read))
    <3>1. Lex(read) \in Result(TokenList)
      BY LexTyped
    <3>. QED
      BY <1>2, <2>1, <3>1, ValueOf, LexedShorter
  <2>3. query \in Asked(t)
    BY <1>2, <2>1
  <2>. QED
    BY <2>2, <2>3, OfAskedIs DEF Asked, ParametersShorter
<1>. QED
  BY <1>1, <1>2

-----------------------------------------------------------------------------
(* The guided form.                                                        *)

Row == [name : AttributeName, operator : SetOperator \cup {None}, text : Text]

\* Values of a name, as many as there are.
IsAnyValues(name, vs) ==
    /\ vs \in [set : BOOLEAN, operator : SetOperator \cup {None}, values : Seq(AttributeValue)]
    /\ \A k \in DOMAIN vs.values : IsValue(name, vs.values[k])
    /\ ~vs.set => vs.operator = None /\ Len(vs.values) = 1
AnyAttribute == {a \in Attribute : IsAnyValues(a.name, a.values)}

\* A rule like that of the parser, whose sets are not bounded.
IsAnyRule(queries, rule) ==
    /\ rule \in Rule /\ SaysSomething(rule)
    /\ rule.attributes \in Seq(AnyAttribute) /\ Distinct(rule.attributes, {})
    /\ rule.condition \in ClauseOf(queries) \cup {None}
AnyRuleOf(queries) == {rule \in Rule : IsAnyRule(queries, rule)}

LEMMA AttributeIsAny == AttributeOf \subseteq AnyAttribute
BY DEF AttributeOf, AnyAttribute, ValuesOfName, IsValues, IsAnyValues

LEMMA RuleIsAny ==
    ASSUME NEW queries
    PROVE  RuleOf(queries) \subseteq AnyRuleOf(queries)
<1>. SUFFICES ASSUME NEW rule \in RuleOf(queries) PROVE rule \in AnyRuleOf(queries)
  OBVIOUS
<1>1. rule \in Rule /\ IsRule(queries, rule)
  BY DEF RuleOf
<1>2. rule.attributes \in Seq(AttributeOf)
  BY <1>1 DEF IsRule
<1>3. rule.attributes \in Seq(AnyAttribute)
  BY <1>2, AttributeIsAny, SeqMono
<1>4. IsAnyRule(queries, rule)
  BY <1>1, <1>3 DEF IsRule, IsAnyRule
<1>. QED
  BY <1>1, <1>4 DEF AnyRuleOf

\* The values of a row, or why it has none.
RowValues(name, r) ==
    \/ Failed(r)
    \/ ~Failed(r) /\ IsAnyValues(name, r.value)

LEMMA StructuredValuesIs ==
    ASSUME NEW field \in Row, field.name \notin StringAttributes
    PROVE  RowValues(field.name, FieldValues(field))
<1>. DEFINE words == Words(field.text)
            parsed == ParseAll(field.name, words)
            r == FieldValues(field)
            vs == [set |-> Len(parsed) > 1 \/ field.operator # None,
                   operator |-> field.operator, values |-> parsed]
            a1 == \E i \in DOMAIN parsed : parsed[i] = None
            a2 == parsed = <<>>
<1>0. field.name \in AttributeName /\ field.operator \in SetOperator \cup {None} /\ field.text \in Text
  BY DEF Row
<1>1. words \in Seq(Text)
  BY <1>0, WordsTyped
<1>2. r = CASE a1 -> Fail("InvalidValue", 0) [] a2 -> Fail("Empty", 0) [] OTHER -> Good(vs, 0)
  BY DEF FieldValues, StructuredValues
<1>3. ASSUME ~a1
      PROVE  parsed \in Seq(AttributeValue) /\ \A k \in DOMAIN parsed : IsValue(field.name, parsed[k])
  <2>1. \A i \in 1..Len(words) : Parts(words[i]) \in Seq(Text)
    BY <1>1, PartsTyped
  <2>2. /\ parsed = [i \in 1..Len(words) |-> Structured(field.name, Parts(words[i]))]
        /\ DOMAIN parsed = 1..Len(words)
        /\ \A i \in 1..Len(words) : parsed[i] = Structured(field.name, Parts(words[i]))
    BY <1>1 DEF ParseAll, ParseStructured
  <2>. HIDE DEF parsed, words
  <2>3. ASSUME NEW i \in 1..Len(words) PROVE IsValue(field.name, parsed[i])
    <3>1. Structured(field.name, Parts(words[i])) # None
      BY <1>3, <2>2
    <3>2. Parts(words[i]) \in Seq(Text)
      BY <2>1
    <3>3. PICK parts : parts = Parts(words[i])
      OBVIOUS
    <3>4. IsValue(field.name, Structured(field.name, parts))
      BY <3>1, <3>2, <3>3, StructuredIs
    <3>. QED
      BY <2>2, <3>3, <3>4
  <2>4. \A i \in 1..Len(words) : parsed[i] \in AttributeValue
    BY <2>3 DEF IsValue
  <2>5. parsed \in [1..Len(words) -> AttributeValue]
    BY <2>2, <2>4
  <2>6. parsed \in Seq(AttributeValue)
    BY <1>1, <2>5
  <2>. QED
    BY <2>2, <2>3, <2>6
<1>4. ASSUME ~a1, ~a2 PROVE IsAnyValues(field.name, vs)
  <2>1. parsed \in Seq(AttributeValue) /\ \A k \in DOMAIN parsed : IsValue(field.name, parsed[k])
    BY <1>3, <1>4
  <2>. HIDE DEF parsed
  <2>2. /\ vs \in [set : BOOLEAN, operator : SetOperator \cup {None}, values : Seq(AttributeValue)]
        /\ vs.values = parsed /\ vs.operator = field.operator
        /\ vs.set <=> Len(parsed) > 1 \/ field.operator # None
    BY <1>0, <2>1
  <2>3. Len(parsed) \in Nat /\ Len(parsed) # 0
    BY <1>4, <2>1
  <2>. HIDE DEF vs
  <2>4. ~vs.set => vs.operator = None /\ Len(vs.values) = 1
    <3>1. ~(Len(parsed) > 1) => Len(parsed) = 1
      <4>1. PICK n : n = Len(parsed)
        OBVIOUS
      <4>2. n \in Nat /\ n # 0
        BY <2>3, <4>1
      <4>. QED
        BY <4>1, <4>2
    <3>. QED
      BY <2>2, <3>1, Zenon
  <2>. QED
    BY <2>1, <2>2, <2>4 DEF IsAnyValues
<1>. HIDE DEF a1, a2, vs
<1>5. CASE a1 \/ a2
  <2>1. r = Fail("InvalidValue", 0) \/ r = Fail("Empty", 0)
    BY <1>2, <1>5
  <2>. QED
    BY <2>1, Results DEF RowValues
<1>6. CASE ~a1 /\ ~a2
  <2>1. r = Good(vs, 0)
    BY <1>2, <1>6
  <2>2. ~Failed(r) /\ r.value = vs
    BY <2>1, Results
  <2>. QED
    BY <1>4, <1>6, <2>2 DEF RowValues
<1>. QED
  BY <1>5, <1>6

LEMMA FieldValuesIs ==
    ASSUME NEW field \in Row
    PROVE  RowValues(field.name, FieldValues(field))
<1>. DEFINE r == FieldValues(field)
            v == <<field.text>>
            vs == [set |-> FALSE, operator |-> None, values |-> <<v>>]
<1>0. field.name \in AttributeName /\ field.text \in Text
  BY DEF Row
<1>1. CASE field.name \notin StringAttributes
  BY <1>1, StructuredValuesIs
<1>2. CASE field.name \in StringAttributes /\ field.operator # None
  <2>1. r = Fail("SetOfText", 0)
    BY <1>2 DEF FieldValues
  <2>. QED
    BY <2>1, Results DEF RowValues
<1>3. CASE field.name \in StringAttributes /\ field.operator = None
  <2>1. r = Good(vs, 0)
    BY <1>3 DEF FieldValues
  <2>2. v \in AttributeValue /\ Len(v) = 1
    BY <1>0 DEF AttributeValue
  <2>3. IsValue(field.name, v)
    <3>1. field.name # "id" /\ field.name # "with-interface"
      BY <1>3 DEF StringAttributes
    <3>. HIDE DEF v
    <3>. QED
      BY <1>3, <2>2, <3>1 DEF IsValue
  <2>. HIDE DEF v
  <2>4. /\ vs \in [set : BOOLEAN, operator : SetOperator \cup {None}, values : Seq(AttributeValue)]
        /\ vs.values = <<v>> /\ vs.operator = None /\ vs.set = FALSE
    BY <2>2
  <2>. HIDE DEF vs
  <2>5. Len(vs.values) = 1 /\ \A k \in DOMAIN vs.values : vs.values[k] = v
    BY <2>4
  <2>6. IsAnyValues(field.name, vs)
    BY <2>3, <2>4, <2>5 DEF IsAnyValues
  <2>7. ~Failed(r) /\ r.value = vs
    BY <2>1, Results
  <2>. QED
    BY <2>6, <2>7 DEF RowValues
<1>. QED
  BY <1>1, <1>2, <1>3

\* What the form makes is a rule with its target, or the first invalid row.
Built(queries, tgt, r) ==
    \/ r \in Error /\ Failed(r)
    \/ ~Failed(r) /\ r.value \in AnyRuleOf(queries) /\ r.value.target = tgt

LEMMA NoneIsNoTarget == \A tgt \in RuleTarget : tgt # None
BY WrittenGlyphs, RuleLanguageAssumption

LEMMA TypedSeq ==
    ASSUME NEW S, NEW n \in Nat, NEW f \in [1..n -> S]
    PROVE  f \in Seq(S) /\ Len(f) = n /\ DOMAIN f = 1..n
OBVIOUS

LEMMA BuildRuleIs ==
    ASSUME NEW queries, NEW tgt \in RuleTarget, NEW rows \in Seq(Row)
    PROVE  Built(queries, tgt, BuildRule(tgt, rows))
<1>. DEFINE results == [row \in DOMAIN rows |-> FieldValues(rows[row])]
            Wrong(row) == \/ \E earlier \in 1..row - 1 : rows[earlier].name = rows[row].name
                          \/ Failed(results[row])
            W == {row \in DOMAIN rows : Wrong(row)}
            as == [i \in DOMAIN rows |-> [name |-> rows[i].name, values |-> results[i].value]]
            r == BuildRule(tgt, rows)
<1>1. r = IF First(W) # 0 THEN Fail("Field", First(W)) ELSE Good(ARule(tgt, as, None, None), 0)
  BY DEF BuildRule, BuildRows, ARule
<1>2. DOMAIN rows = 1..Len(rows) /\ Len(rows) \in Nat /\ W \in SUBSET Nat
  OBVIOUS
<1>3. \A i \in 1..Len(rows) : /\ rows[i] \in Row /\ rows[i].name \in AttributeName
                              /\ RowValues(rows[i].name, results[i])
  <2>. SUFFICES ASSUME NEW i \in 1..Len(rows)
                PROVE /\ rows[i] \in Row /\ rows[i].name \in AttributeName
                      /\ RowValues(rows[i].name, results[i])
    OBVIOUS
  <2>1. rows[i] \in Row
    OBVIOUS
  <2>2. PICK row : row = rows[i]
    OBVIOUS
  <2>3. row.name \in AttributeName /\ RowValues(row.name, FieldValues(row))
    BY <2>1, <2>2, FieldValuesIs DEF Row
  <2>. QED
    BY <1>2, <2>1, <2>2, <2>3
<1>4. W # {} => First(W) \in Nat /\ First(W) # 0
  <2>1. W # {} => First(W) \in W
    BY <1>2, FirstIs
  <2>. QED
    BY <1>2, <2>1
<1>5. W = {} => First(W) = 0
  BY <1>2, FirstIs
<1>6. CASE W # {}
  <2>1. r = Fail("Field", First(W)) /\ First(W) \in Nat
    BY <1>1, <1>4, <1>6
  <2>2. Fail("Field", First(W)) \in Error
    BY <2>1 DEF Fail, Error, ErrorKind
  <2>. QED
    BY <2>1, <2>2, Results DEF Built
<1>7. CASE W = {}
  <2>1. r = Good(ARule(tgt, as, None, None), 0)
    BY <1>1, <1>5, <1>7
  <2>2. \A i \in 1..Len(rows) :
            ~Failed(results[i]) /\ \A earlier \in 1..i - 1 : rows[earlier].name # rows[i].name
    BY <1>2, <1>7
  <2>3. /\ DOMAIN as = 1..Len(rows)
        /\ \A i \in 1..Len(rows) :
            /\ as[i] = [name |-> rows[i].name, values |-> results[i].value]
            /\ as[i].name = rows[i].name /\ as[i].values = results[i].value
    BY <1>2
  <2>4. \A i \in 1..Len(rows) : IsAnyValues(rows[i].name, results[i].value)
    BY <1>3, <2>2 DEF RowValues
  <2>. HIDE DEF results
  <2>5. ASSUME NEW i \in 1..Len(rows) PROVE as[i] \in AnyAttribute
    <3>1. IsAnyValues(as[i].name, as[i].values) /\ rows[i].name \in AttributeName
      BY <1>3, <2>3, <2>4
    <3>2. results[i].value \in [set : BOOLEAN, operator : SetOperator \cup {None},
                                values : Seq(AttributeValue)]
      BY <2>4 DEF IsAnyValues
    <3>. HIDE DEF as
    <3>3. as[i] \in Attribute
      <4>1. PICK n, v : n = rows[i].name /\ v = results[i].value
        OBVIOUS
      <4>2. as[i] = [name |-> n, values |-> v]
        BY <2>3, <4>1
      <4>. QED
        BY <3>1, <3>2, <4>1, <4>2 DEF Attribute
    <3>. QED
      BY <3>1, <3>3 DEF AnyAttribute
  <2>6. as \in Seq(AnyAttribute)
    <3>1. as \in [1..Len(rows) -> AnyAttribute]
      BY <1>2, <2>5
    <3>. HIDE DEF as
    <3>. QED
      BY <1>2, <3>1, TypedSeq
  <2>7. Distinct(as, {})
    <3>. HIDE DEF as
    <3>1. ASSUME NEW j \in 1..Len(rows), NEW k \in 1..Len(rows), j < k
          PROVE  as[j].name # as[k].name
      <4>1. j \in 1..k - 1
        BY <1>2, <3>1
      <4>. QED
        BY <2>2, <2>3, <4>1
    <3>2. \A j, k \in 1..Len(rows) : j = k \/ j < k \/ k < j
      BY <1>2
    <3>. QED
      BY <2>3, <3>1, <3>2 DEF Distinct
  <2>. HIDE DEF as
  <2>8. AnyAttribute \subseteq Attribute
    BY DEF AnyAttribute
  <2>9. as \in Seq(Attribute)
    BY <2>6, <2>8, SeqMono
  <2>10. PICK rule : rule = ARule(tgt, as, None, None)
    OBVIOUS
  <2>11. /\ rule.target = tgt /\ rule.attributes = as /\ rule.condition = None
         /\ rule.comment = None /\ rule \in Rule
    BY <2>9, <2>10 DEF ARule, Rule
  <2>12. IsAnyRule(queries, rule)
    BY <2>6, <2>7, <2>11, NoneIsNoTarget DEF IsAnyRule, SaysSomething
  <2>13. rule \in AnyRuleOf(queries)
    BY <2>11, <2>12 DEF AnyRuleOf
  <2>14. ~Failed(r) /\ r.value = rule
    BY <2>1, <2>10, Results
  <2>. QED
    BY <2>11, <2>13, <2>14 DEF Built
<1>. QED
  BY <1>6, <1>7

-----------------------------------------------------------------------------
(* Flattening.                                                             *)

\* f[i] is the concatenation of the first i pieces.
Flattens(f, pieces, S) ==
    /\ f \in [1..Len(pieces) -> Seq(S)]
    /\ \A i \in 1..Len(pieces) : f[i] = IF i = 1 THEN pieces[i] ELSE f[i - 1] \o pieces[i]

LEMMA FlattensExists ==
    ASSUME NEW S, NEW pieces \in Seq(Seq(S))
    PROVE  \E f : Flattens(f, pieces, S)
<1>. DEFINE P(n, f) == /\ f \in [1..n -> Seq(S)]
                       /\ \A i \in 1..n : f[i] = IF i = 1 THEN pieces[i] ELSE f[i - 1] \o pieces[i]
            T == {n \in Nat : \E f : P(n, f)}
<1>1. 0 \in T
  <2>. DEFINE f == [i \in 1..0 |-> <<>>]
  <2>1. P(0, f)
    OBVIOUS
  <2>. QED
    BY <2>1
<1>2. ASSUME NEW n \in Nat, n < Len(pieces), n \in T PROVE n + 1 \in T
  <2>1. PICK f : P(n, f)
    BY <1>2
  <2>. DEFINE x == IF n = 0 THEN pieces[1] ELSE f[n] \o pieces[n + 1]
              g == [i \in 1..(n + 1) |-> IF i = n + 1 THEN x ELSE f[i]]
  <2>2. Len(pieces) \in Nat /\ \A i \in 1..(n + 1) : pieces[i] \in Seq(S)
    BY <1>2
  <2>3. x \in Seq(S)
    <3>1. CASE n = 0
      BY <2>2, <3>1
    <3>2. CASE n # 0
      <4>1. f[n] \in Seq(S) /\ pieces[n + 1] \in Seq(S)
        BY <2>1, <2>2, <3>2
      <4>. QED
        BY <4>1, <3>2, ConcatProperties
    <3>. QED
      BY <3>1, <3>2
  <2>. HIDE DEF x
  <2>4. g \in [1..(n + 1) -> Seq(S)]
    BY <2>1, <2>3
  <2>5. ASSUME NEW i \in 1..(n + 1)
        PROVE  g[i] = IF i = 1 THEN pieces[i] ELSE g[i - 1] \o pieces[i]
    <3>1. CASE i = n + 1
      <4>1. n # 0 => g[n] = f[n]
        OBVIOUS
      <4>2. g[n + 1] = x
        OBVIOUS
      <4>. QED
        BY <3>1, <4>1, <4>2 DEF x
    <3>2. CASE i # n + 1
      <4>1. i \in 1..n /\ g[i] = f[i]
        BY <3>2
      <4>2. i # 1 => i - 1 \in 1..n /\ g[i - 1] = f[i - 1]
        BY <4>1
      <4>. QED
        BY <2>1, <4>1, <4>2
    <3>. QED
      BY <3>1, <3>2
  <2>. HIDE DEF g
  <2>6. P(n + 1, g)
    BY <2>4, <2>5
  <2>7. \E h : P(n + 1, h)
    BY <2>6
  <2>8. n + 1 \in Nat
    OBVIOUS
  <2>. HIDE DEF P
  <2>. QED
    BY <2>7, <2>8
<1>. HIDE DEF T
<1>3. Len(pieces) \in T
  <2>1. Len(pieces) \in Nat
    OBVIOUS
  <2>. QED
    BY <1>1, <1>2, <2>1, UpTo
<1>. QED
  BY <1>3 DEF T, Flattens

\* The first n pieces are the same.
SamePieces(p, q, n) ==
    n \in Nat /\ n <= Len(p) /\ n <= Len(q) /\ \A i \in 1..n : p[i] = q[i]

LEMMA FlattensUnique ==
    ASSUME NEW S, NEW p \in Seq(Seq(S)), NEW q \in Seq(Seq(S)), NEW n, SamePieces(p, q, n),
           NEW f, NEW g, Flattens(f, p, S), Flattens(g, q, S)
    PROVE  \A i \in 1..n : f[i] = g[i]
<1>0. n \in Nat /\ n <= Len(p) /\ n <= Len(q) /\ \A i \in 1..n : p[i] = q[i]
  BY DEF SamePieces
<1>. DEFINE T == {m \in Nat : \A i \in 1..m : f[i] = g[i]}
<1>1. 0 \in T
  OBVIOUS
<1>2. ASSUME NEW m \in Nat, m < n, m \in T PROVE m + 1 \in T
  <2>1. m + 1 \in 1..Len(p) /\ m + 1 \in 1..Len(q) /\ p[m + 1] = q[m + 1]
    BY <1>0, <1>2
  <2>2. m # 0 => f[m] = g[m]
    BY <1>2
  <2>3. ASSUME NEW k, k = m + 1 PROVE f[k] = g[k]
    <3>1. f[k] = IF k = 1 THEN p[k] ELSE f[k - 1] \o p[k]
      BY <2>1, <2>3 DEF Flattens
    <3>2. g[k] = IF k = 1 THEN q[k] ELSE g[k - 1] \o q[k]
      BY <2>1, <2>3 DEF Flattens
    <3>3. k - 1 = m /\ p[k] = q[k] /\ (k # 1 => f[k - 1] = g[k - 1])
      BY <2>1, <2>2, <2>3
    <3>. QED
      BY <3>1, <3>2, <3>3
  <2>. QED
    BY <1>2, <2>3
<1>. HIDE DEF T
<1>3. n \in T
  BY <1>0, <1>1, <1>2, UpTo
<1>. QED
  BY <1>0, <1>3 DEF T

LEMMA FlattenIs ==
    ASSUME NEW S, NEW pieces \in Seq(Seq(S)), pieces # <<>>
    PROVE  \E f : Flattens(f, pieces, S) /\ FlattenSeq(pieces) = f[Len(pieces)]
<1>. DEFINE F == CHOOSE f : f = [i \in 1..Len(pieces) |->
                        IF i = 1 THEN pieces[i] ELSE f[i - 1] \o pieces[i]]
<1>1. PICK g : Flattens(g, pieces, S)
  BY FlattensExists
<1>2. g = [i \in 1..Len(pieces) |-> IF i = 1 THEN pieces[i] ELSE g[i - 1] \o pieces[i]]
  BY <1>1 DEF Flattens
<1>3. F = [i \in 1..Len(pieces) |-> IF i = 1 THEN pieces[i] ELSE F[i - 1] \o pieces[i]]
  BY <1>2
<1>4. Len(pieces) \in Nat /\ Len(pieces) # 0
  OBVIOUS
<1>5. FlattenSeq(pieces) = F[Len(pieces)]
  BY <1>4 DEF FlattenSeq
<1>. HIDE DEF F
<1>6. ASSUME NEW i \in 1..Len(pieces) PROVE F[i] = g[i]
  <2>. DEFINE T == {m \in Nat : \A j \in 1..m : F[j] = g[j]}
  <2>1. 0 \in T
    OBVIOUS
  <2>2. ASSUME NEW m \in Nat, m < Len(pieces), m \in T PROVE m + 1 \in T
    <3>1. m + 1 \in 1..Len(pieces)
      BY <2>2, <1>4
    <3>2. ASSUME NEW k, k = m + 1 PROVE F[k] = g[k]
      <4>1. k \in 1..Len(pieces)
        BY <3>1, <3>2
      <4>2. F[k] = IF k = 1 THEN pieces[k] ELSE F[k - 1] \o pieces[k]
        BY <1>3, <4>1
      <4>3. g[k] = IF k = 1 THEN pieces[k] ELSE g[k - 1] \o pieces[k]
        BY <1>2, <4>1
      <4>4. k # 1 => F[k - 1] = g[k - 1]
        BY <2>2, <3>2
      <4>. QED
        BY <4>2, <4>3, <4>4
    <3>3. \A j \in 1..(m + 1) : j \in 1..m \/ j = m + 1
      BY <2>2
    <3>. HIDE DEF F
    <3>4. \A j \in 1..(m + 1) : F[j] = g[j]
      BY <2>2, <3>2, <3>3
    <3>. QED
      BY <2>2, <3>4
  <2>. HIDE DEF T
  <2>3. Len(pieces) \in T
    BY <1>4, <2>1, <2>2, UpTo
  <2>. QED
    BY <2>3 DEF T
<1>7. F[Len(pieces)] = g[Len(pieces)]
  BY <1>4, <1>6
<1>. QED
  BY <1>1, <1>5, <1>7

LEMMA FlattenAppend ==
    ASSUME NEW S, NEW pieces \in Seq(Seq(S)), NEW piece \in Seq(S)
    PROVE  /\ FlattenSeq(pieces) \in Seq(S)
           /\ FlattenSeq(<<>>) = <<>>
           /\ FlattenSeq(Append(pieces, piece)) = FlattenSeq(pieces) \o piece
<1>1. FlattenSeq(<<>>) = <<>>
  BY DEF FlattenSeq
<1>2. FlattenSeq(pieces) \in Seq(S)
  <2>1. CASE pieces = <<>>
    BY <1>1, <2>1, EmptySeq
  <2>2. CASE pieces # <<>>
    <3>1. PICK f : Flattens(f, pieces, S) /\ FlattenSeq(pieces) = f[Len(pieces)]
      BY <2>2, FlattenIs
    <3>2. Len(pieces) \in 1..Len(pieces)
      BY <2>2
    <3>. QED
      BY <3>1, <3>2 DEF Flattens
  <2>. QED
    BY <2>1, <2>2
<1>. DEFINE all == Append(pieces, piece)
            n == Len(pieces)
<1>3. /\ all \in Seq(Seq(S)) /\ all # <<>> /\ Len(all) = n + 1 /\ n \in Nat
      /\ all[n + 1] = piece /\ \A i \in 1..n : all[i] = pieces[i]
  BY AppendProperties
<1>. HIDE DEF all
<1>4. PICK g : Flattens(g, all, S) /\ FlattenSeq(all) = g[n + 1]
  <2>1. \E g : Flattens(g, all, S) /\ FlattenSeq(all) = g[Len(all)]
    BY <1>3, FlattenIs
  <2>. QED
    BY <2>1, <1>3
<1>5. CASE pieces = <<>>
  <2>1. n = 0
    BY <1>5
  <2>2. FlattenSeq(all) = piece
    BY <1>3, <1>4, <2>1 DEF Flattens
  <2>3. <<>> \o piece = piece
    OBVIOUS
  <2>. QED
    BY <1>1, <1>2, <1>5, <2>2, <2>3 DEF all
<1>6. CASE pieces # <<>>
  <2>1. n \in 1..n
    BY <1>6, <1>3
  <2>2. PICK f : Flattens(f, pieces, S) /\ FlattenSeq(pieces) = f[n]
    BY <1>6, FlattenIs
  <2>3. f[n] = g[n]
    <3>. HIDE DEF n
    <3>1. n <= Len(all) /\ n <= Len(pieces) /\ \A i \in 1..n : pieces[i] = all[i]
      BY <1>3 DEF n
    <3>2. \A i \in 1..n : f[i] = g[i]
      <4>1. SamePieces(pieces, all, n)
        BY <1>3, <3>1 DEF SamePieces
      <4>2. Flattens(f, pieces, S) /\ Flattens(g, all, S) /\ all \in Seq(Seq(S))
        BY <1>3, <1>4, <2>2
      <4>. QED
        BY <4>1, <4>2, FlattensUnique
    <3>. QED
      BY <2>1, <3>2
  <2>4. g[n + 1] = g[n] \o piece
    <3>. HIDE DEF n
    <3>1. ASSUME NEW k, k = n + 1 PROVE g[k] = g[k - 1] \o all[k]
      <4>1. k \in 1..Len(all) /\ k # 1
        BY <1>3, <2>1, <3>1
      <4>. QED
        BY <1>4, <4>1 DEF Flattens
    <3>2. (n + 1) - 1 = n
      BY <1>3
    <3>. QED
      BY <1>3, <3>1, <3>2
  <2>. QED
    BY <1>1, <1>2, <1>4, <2>2, <2>3, <2>4 DEF all
<1>. QED
  BY <1>5, <1>6

\* Induction over sequences, at whose ends values are added.
LEMMA AppendInduction ==
    ASSUME NEW S, NEW T, <<>> \in T,
           \A p \in Seq(S) : \A x \in S : p \in T => Append(p, x) \in T
    PROVE  Seq(S) \subseteq T
<1>. DEFINE N == {n \in Nat : \A s \in Seq(S) : Len(s) = n => s \in T}
<1>1. 0 \in N
  <2>1. \A s \in Seq(S) : Len(s) = 0 => s = <<>>
    OBVIOUS
  <2>. QED
    BY <2>1
<1>2. ASSUME NEW n \in Nat, n \in N PROVE n + 1 \in N
  <2>. SUFFICES ASSUME NEW s \in Seq(S), Len(s) = n + 1 PROVE s \in T
    OBVIOUS
  <2>. DEFINE p == SubSeq(s, 1, n)
              x == s[n + 1]
  <2>1. p \in Seq(S) /\ Len(p) = n /\ x \in S
    OBVIOUS
  <2>2. s = Append(p, x)
    <3>1. Append(p, x) \in Seq(S) /\ Len(Append(p, x)) = n + 1
      BY <2>1
    <3>2. ASSUME NEW i \in 1..n + 1 PROVE Append(p, x)[i] = s[i]
      <4>1. CASE i = n + 1
        BY <2>1, <4>1
      <4>2. CASE i # n + 1
        <5>1. i \in 1..n
          BY <4>2
        <5>2. p[i] = s[i]
          BY <5>1
        <5>. HIDE DEF p, x
        <5>. QED
          BY <2>1, <5>1, <5>2
      <4>. QED
        BY <4>1, <4>2
    <3>. HIDE DEF p, x
    <3>. QED
      BY <3>1, <3>2, SeqEqual
  <2>3. p \in T
    BY <1>2, <2>1
  <2>. HIDE DEF p, x
  <2>. QED
    BY <2>1, <2>2, <2>3
<1>. HIDE DEF N
<1>3. Nat \subseteq N
  BY <1>1, <1>2, NatSetInduction
<1>. SUFFICES ASSUME NEW s \in Seq(S) PROVE s \in T
  OBVIOUS
<1>4. Len(s) \in N
  BY <1>3
<1>. QED
  BY <1>4 DEF N

\* Three facts of FlattenAppend of their own.
LEMMA FlattenTyped ==
    ASSUME NEW S, NEW pieces \in Seq(Seq(S))
    PROVE  FlattenSeq(pieces) \in Seq(S)
<1>1. <<>> \in Seq(S)
  BY EmptySeq
<1>. QED
  BY <1>1, FlattenAppend

LEMMA FlattenNone == FlattenSeq(<<>>) = <<>>
BY DEF FlattenSeq

LEMMA FlattenMore ==
    ASSUME NEW S, NEW pieces \in Seq(Seq(S)), NEW piece \in Seq(S)
    PROVE  FlattenSeq(Append(pieces, piece)) = FlattenSeq(pieces) \o piece
BY FlattenAppend

-----------------------------------------------------------------------------
(* The renderer.                                                           *)

LEMMA TextTyped ==
    ASSUME NEW a \in Text, NEW b \in Text
    PROVE  a \o b \in Text
BY DEF Text

LEMMA GlyphTyped ==
    ASSUME NEW g \in Glyph
    PROVE  <<g>> \in Text
BY DEF Text

\* The pieces with a glyph in front of all but the first.
Behind(glyph, pieces) ==
    [i \in DOMAIN pieces |-> IF i = 1 THEN pieces[i] ELSE <<glyph>> \o pieces[i]]

LEMMA BlankIs == " " \in Glyph /\ " " \in Delimiters /\ " " \in Whitespace
<1>1. " " \in Delimiters
  BY DEF Delimiters, Whitespace
<1>. QED
  BY <1>1, WrittenGlyphs DEF Whitespace

LEMMA BehindTyped ==
    ASSUME NEW g \in Glyph, NEW pieces \in Seq(Text)
    PROVE  Behind(g, pieces) \in Seq(Text) /\ Len(Behind(g, pieces)) = Len(pieces)
<1>1. <<g>> \in Text
  BY GlyphTyped
<1>2. ASSUME NEW i \in 1..Len(pieces)
      PROVE  (IF i = 1 THEN pieces[i] ELSE <<g>> \o pieces[i]) \in Text
  <2>1. PICK p, b : p = pieces[i] /\ b = <<g>>
    OBVIOUS
  <2>2. p \in Text
    <3>1. pieces[i] \in Text
      OBVIOUS
    <3>. QED
      BY <2>1, <3>1
  <2>4. b \in Text
    BY <1>1, <2>1
  <2>3. b \o p \in Text
    BY <2>2, <2>4, TextTyped
  <2>. QED
    BY <2>1, <2>2, <2>3
<1>. DEFINE x(i) == IF i = 1 THEN pieces[i] ELSE <<g>> \o pieces[i]
<1>3. Behind(g, pieces) \in [1..Len(pieces) -> Text] /\ Len(pieces) \in Nat
  <2>1. Behind(g, pieces) = [i \in 1..Len(pieces) |-> x(i)] /\ Len(pieces) \in Nat
    BY DEF Behind
  <2>2. \A i \in 1..Len(pieces) : x(i) \in Text
    BY <1>2
  <2>. HIDE DEF x
  <2>. QED
    BY <2>1, <2>2
<1>. QED
  BY <1>3, TypedSeq

LEMMA JoinedTyped ==
    ASSUME NEW g \in Glyph, NEW pieces \in Seq(Text)
    PROVE  Joined(g, pieces) \in Text
<1>1. Joined(g, pieces) = FlattenSeq(Behind(g, pieces))
  BY DEF Joined, Behind
<1>2. Behind(g, pieces) \in Seq(Seq(Glyph))
  BY BehindTyped DEF Text
<1>. QED
  BY <1>1, <1>2, FlattenTyped DEF Text

\* A piece more behind a glyph.
LEMMA JoinedMore ==
    ASSUME NEW g \in Glyph, NEW pieces \in Seq(Text), NEW piece \in Text
    PROVE  Joined(g, Append(pieces, piece))
              = IF pieces = <<>> THEN piece ELSE Joined(g, pieces) \o (<<g>> \o piece)
<1>. DEFINE all == Append(pieces, piece)
            n == Len(pieces)
            last == IF pieces = <<>> THEN piece ELSE <<g>> \o piece
<1>1. /\ all \in Seq(Text) /\ Len(all) = n + 1 /\ n \in Nat
      /\ all[n + 1] = piece /\ \A i \in 1..n : all[i] = pieces[i]
      /\ pieces = <<>> <=> n = 0
  BY AppendProperties
<1>2. <<g>> \in Text
  BY GlyphTyped
<1>3. last \in Text
  BY <1>2, TextTyped
<1>4. Behind(g, all) = Append(Behind(g, pieces), last)
  <2>. DEFINE a == Behind(g, all)
              b == Append(Behind(g, pieces), last)
  <2>1. /\ Behind(g, pieces) \in Seq(Text) /\ Len(Behind(g, pieces)) = n
        /\ a \in Seq(Text) /\ Len(a) = n + 1
    <3>. HIDE DEF all
    <3>. QED
      BY <1>1, BehindTyped
  <2>2. /\ b \in Seq(Text) /\ Len(b) = n + 1 /\ b[n + 1] = last
        /\ \A i \in 1..n : b[i] = Behind(g, pieces)[i]
    <3>. HIDE DEF n, last
    <3>. QED
      BY <1>3, <2>1, AppendProperties
  <2>. HIDE DEF all
  <2>3. ASSUME NEW i \in 1..n PROVE a[i] = Behind(g, pieces)[i]
    <3>1. i \in DOMAIN all /\ i \in DOMAIN pieces /\ all[i] = pieces[i]
      BY <1>1
    <3>. QED
      BY <3>1 DEF Behind
  <2>4. a[n + 1] = last
    <3>1. n + 1 \in DOMAIN all /\ (n + 1 = 1 <=> pieces = <<>>)
      BY <1>1
    <3>. HIDE DEF n
    <3>. QED
      BY <1>1, <3>1 DEF Behind
  <2>. HIDE DEF a, b, n, last
  <2>5. \A i \in 1..n + 1 : i = n + 1 \/ i \in 1..n
    BY <1>1
  <2>6. \A i \in 1..n + 1 : a[i] = b[i]
    BY <2>2, <2>3, <2>4, <2>5
  <2>7. a = b
    BY <2>1, <2>2, <2>6, SeqEqual
  <2>. QED
    BY <2>7 DEF a, b
<1>. HIDE DEF all, last
<1>5. Behind(g, pieces) \in Seq(Seq(Glyph)) /\ last \in Seq(Glyph)
  BY <1>3, BehindTyped DEF Text
<1>6. FlattenSeq(Behind(g, all)) = FlattenSeq(Behind(g, pieces)) \o last
  BY <1>4, <1>5, FlattenMore
<1>7. Joined(g, all) = Joined(g, pieces) \o last
  BY <1>6 DEF Joined, Behind
<1>8. CASE pieces = <<>>
  <2>1. Behind(g, <<>>) = <<>>
    BY DEF Behind
  <2>2. Joined(g, <<>>) = <<>>
    BY <2>1, FlattenNone DEF Joined, Behind
  <2>3. <<>> \o last = last
    BY <1>3 DEF Text
  <2>. QED
    BY <1>7, <1>8, <2>2, <2>3 DEF all, last
<1>9. CASE pieces # <<>>
  BY <1>7, <1>9 DEF all, last
<1>. QED
  BY <1>8, <1>9

-----------------------------------------------------------------------------
(* The types of what the renderer writes.                                  *)

\* The bytes as they are written between the quotes.
Escapeds(bytes) == [i \in DOMAIN bytes |-> Escaped(bytes[i])]

LEMMA EscapedTyped ==
    ASSUME NEW b \in Glyph
    PROVE  Escaped(b) \in Text
<1>1. Backslash \in Glyph /\ "x" \in Glyph
  BY WrittenGlyphs
<1>2. \A c \in Controls : HexOf[c] \in Glyph
  <2>1. "07" \in TwoDigits /\ "0a" \in TwoDigits
    BY DEF TwoDigits, HexByte
  <2>2. "07" \in Glyph /\ "0a" \in Glyph
    BY <2>1, WrittenGlyphs
  <2>. QED
    BY <2>2 DEF HexOf, Controls
<1>3. CASE b \in {Quote, Backslash}
  <2>1. Escaped(b) = <<Backslash, b>>
    <3>1. b \notin Controls
      BY <1>3 DEF Controls, Quote, Backslash, Newline, Bell
    <3>. QED
      BY <1>3, <3>1 DEF Escaped
  <2>. QED
    BY <1>1, <2>1 DEF Text
<1>4. CASE b \notin {Quote, Backslash} /\ b \in Controls
  <2>1. Escaped(b) = <<Backslash, "x", HexOf[b]>>
    BY <1>4 DEF Escaped
  <2>2. PICK h : h = HexOf[b]
    OBVIOUS
  <2>3. h \in Glyph
    BY <1>2, <1>4, <2>2
  <2>. QED
    BY <1>1, <2>1, <2>2, <2>3 DEF Text
<1>5. CASE b \notin {Quote, Backslash} /\ b \notin Controls
  <2>1. Escaped(b) = <<b>>
    BY <1>5 DEF Escaped
  <2>. QED
    BY <2>1 DEF Text
<1>. QED
  BY <1>3, <1>4, <1>5

LEMMA EscapedsTyped ==
    ASSUME NEW bytes \in Text
    PROVE  Escapeds(bytes) \in Seq(Text) /\ Len(Escapeds(bytes)) = Len(bytes)
<1>1. \A i \in 1..Len(bytes) : bytes[i] \in Glyph
  BY DEF Text
<1>2. \A i \in 1..Len(bytes) : Escaped(bytes[i]) \in Text
  BY <1>1, EscapedTyped
<1>3. Escapeds(bytes) \in [1..Len(bytes) -> Text] /\ Len(bytes) \in Nat
  <2>1. DOMAIN bytes = 1..Len(bytes) /\ Len(bytes) \in Nat
    BY DEF Text
  <2>. QED
    BY <1>2, <2>1 DEF Escapeds
<1>. QED
  BY <1>3, TypedSeq

LEMMA WriteQuotedTyped ==
    ASSUME NEW bytes \in Text
    PROVE  /\ FlattenSeq(Escapeds(bytes)) \in Text
           /\ WriteQuoted(bytes) = <<Quote>> \o FlattenSeq(Escapeds(bytes)) \o <<Quote>>
           /\ WriteQuoted(bytes) \in Text
<1>1. Escapeds(bytes) \in Seq(Seq(Glyph))
  BY EscapedsTyped DEF Text
<1>2. FlattenSeq(Escapeds(bytes)) \in Text
  BY <1>1, FlattenTyped DEF Text
<1>3. <<Quote>> \in Text
  BY WrittenGlyphs, GlyphTyped
<1>4. WriteQuoted(bytes) = <<Quote>> \o FlattenSeq(Escapeds(bytes)) \o <<Quote>>
  BY DEF WriteQuoted, Escapeds
<1>5. <<Quote>> \o FlattenSeq(Escapeds(bytes)) \o <<Quote>> \in Text
  BY <1>2, <1>3, TextTyped
<1>. QED
  BY <1>2, <1>4, <1>5

LEMMA WriteValueTyped ==
    ASSUME NEW name, NEW v, IsValue(name, v)
    PROVE  WriteValue(name, v) \in Text
<1>1. v \in Seq(Text)
  BY DEF IsValue, AttributeValue
<1>2. CASE name \in StringAttributes
  <2>1. Len(v) = 1
    BY <1>2 DEF IsValue
  <2>2. v[1] \in Text
    BY <1>1, <2>1
  <2>3. PICK w : w = v[1]
    OBVIOUS
  <2>. QED
    BY <1>2, <2>2, <2>3, WriteQuotedTyped DEF WriteValue
<1>3. CASE name \notin StringAttributes
  <2>1. ":" \in Glyph
    BY WrittenGlyphs
  <2>2. Joined(":", v) \in Text
    BY <1>1, <2>1, JoinedTyped
  <2>. QED
    BY <1>3, <2>2 DEF WriteValue
<1>. QED
  BY <1>2, <1>3

\* The pieces of a set.
SetPieces(operator, members) ==
    (IF operator = None THEN <<>> ELSE <<<<operator>>>>) \o <<<<"{">>>> \o members \o <<<<"}">>>>

LEMMA PiecesTyped ==
    ASSUME NEW a \in Seq(Text), NEW b \in Seq(Text)
    PROVE  a \o b \in Seq(Text)
OBVIOUS

LEMMA PieceTyped ==
    ASSUME NEW a \in Text
    PROVE  <<a>> \in Seq(Text)
OBVIOUS

LEMMA BracesAreGlyphs == "{" \in Glyph /\ "}" \in Glyph /\ "!" \in Glyph /\ "(" \in Glyph
                         /\ ")" \in Glyph /\ "#" \in Glyph
BY WrittenGlyphs DEF Delimiters

LEMMA OperatorPiece ==
    ASSUME NEW operator \in SetOperator \cup {None}
    PROVE  (IF operator = None THEN <<>> ELSE <<<<operator>>>>) \in Seq(Text)
<1>1. CASE operator = None
  <2>1. <<>> \in Seq(Text)
    BY EmptySeq
  <2>. QED
    BY <1>1, <2>1
<1>2. CASE operator # None
  <2>1. operator \in Glyph
    BY <1>2, WrittenGlyphs
  <2>2. PICK p : p = <<operator>>
    OBVIOUS
  <2>3. p \in Text
    BY <2>1, <2>2, GlyphTyped
  <2>4. <<p>> \in Seq(Text)
    BY <2>3, PieceTyped
  <2>. QED
    BY <1>2, <2>2, <2>4
<1>. QED
  BY <1>1, <1>2

LEMMA SetPiecesTyped ==
    ASSUME NEW operator \in SetOperator \cup {None}, NEW members \in Seq(Text)
    PROVE  /\ SetPieces(operator, members) \in Seq(Text)
           /\ WriteSet(operator, members) = Spaced(SetPieces(operator, members))
           /\ WriteSet(operator, members) \in Text
<1>1. PICK o : o = IF operator = None THEN <<>> ELSE <<<<operator>>>>
  OBVIOUS
<1>2. o \in Seq(Text)
  BY <1>1, OperatorPiece
<1>3. PICK open, close : open = <<"{">> /\ close = <<"}">>
  OBVIOUS
<1>4. open \in Text /\ close \in Text
  BY <1>3, BracesAreGlyphs, GlyphTyped
<1>5. PICK opens, closes : opens = <<open>> /\ closes = <<close>>
  OBVIOUS
<1>6. opens \in Seq(Text) /\ closes \in Seq(Text)
  BY <1>4, <1>5, PieceTyped
<1>7. o \o opens \o members \o closes \in Seq(Text)
  BY <1>2, <1>6, PiecesTyped
<1>8. SetPieces(operator, members) = o \o opens \o members \o closes
  BY <1>1, <1>3, <1>5 DEF SetPieces
<1>9. SetPieces(operator, members) \in Seq(Text)
  BY <1>7, <1>8
<1>10. WriteSet(operator, members) = Spaced(SetPieces(operator, members))
  BY DEF WriteSet, SetPieces
<1>. QED
  BY <1>9, <1>10, BlankIs, JoinedTyped DEF Spaced

\* What is written of the members of a sequence.
WrittenValues(name, values) == [i \in DOMAIN values |-> WriteValue(name, values[i])]
WrittenConditions(conditions) == [i \in DOMAIN conditions |-> WriteCondition(conditions[i])]
WrittenAttributes(attributes) == [i \in DOMAIN attributes |-> WriteAttribute(attributes[i])]

LEMMA WrittenValuesTyped ==
    ASSUME NEW name, NEW values \in Seq(AttributeValue),
           \A k \in DOMAIN values : IsValue(name, values[k])
    PROVE  WrittenValues(name, values) \in Seq(Text)
           /\ Len(WrittenValues(name, values)) = Len(values)
<1>1. Len(values) \in Nat /\ DOMAIN values = 1..Len(values)
  OBVIOUS
<1>2. \A i \in 1..Len(values) : WriteValue(name, values[i]) \in Text
  BY <1>1, WriteValueTyped
<1>3. WrittenValues(name, values) \in [1..Len(values) -> Text]
  BY <1>1, <1>2 DEF WrittenValues
<1>. QED
  BY <1>1, <1>3, TypedSeq

LEMMA WriteAttributeTyped ==
    ASSUME NEW a \in AnyAttribute
    PROVE  WriteAttribute(a) \in Text
<1>. DEFINE values == WrittenValues(a.name, a.values.values)
            v == IF a.values.set THEN WriteSet(a.values.operator, values) ELSE values[1]
<1>1. a.name \in AttributeName /\ IsAnyValues(a.name, a.values)
  BY DEF AnyAttribute, Attribute
<1>2. /\ a.values.operator \in SetOperator \cup {None} /\ a.values.values \in Seq(AttributeValue)
      /\ \A k \in DOMAIN a.values.values : IsValue(a.name, a.values.values[k])
      /\ ~a.values.set => Len(a.values.values) = 1
  BY <1>1 DEF IsAnyValues
<1>3. values \in Seq(Text) /\ Len(values) = Len(a.values.values)
  <2>1. PICK vs : vs = a.values.values
    OBVIOUS
  <2>. QED
    BY <1>2, <2>1, WrittenValuesTyped
<1>4. v \in Text
  <2>. HIDE DEF values
  <2>1. CASE a.values.set
    <3>1. WriteSet(a.values.operator, values) \in Text
      BY <1>2, <1>3, SetPiecesTyped
    <3>. QED
      BY <2>1, <3>1
  <2>2. CASE ~a.values.set
    <3>1. Len(values) = 1
      BY <1>2, <1>3, <2>2
    <3>2. values[1] \in Text
      BY <1>3, <3>1
    <3>. QED
      BY <2>2, <3>2
  <2>. QED
    BY <2>1, <2>2
<1>5. WriteAttribute(a) = Spaced(<<<<a.name>>, v>>)
  BY DEF WriteAttribute, WrittenValues
<1>. HIDE DEF v
<1>6. PICK n : n = <<a.name>>
  OBVIOUS
<1>7. n \in Text
  <2>1. a.name \in Glyph
    BY <1>1, WrittenGlyphs
  <2>. QED
    BY <1>6, <2>1, GlyphTyped
<1>8. <<n, v>> \in Seq(Text)
  BY <1>4, <1>7
<1>9. Spaced(<<n, v>>) \in Text
  BY <1>8, BlankIs, JoinedTyped DEF Spaced
<1>. QED
  BY <1>5, <1>6, <1>9

LEMMA WriteConditionTyped ==
    ASSUME NEW c \in Condition
    PROVE  WriteCondition(c) \in Text
<1>1. c.name \in Glyph /\ c.parameter \in Text \cup {None}
  <2>1. c.name \in ConditionName /\ c.parameter \in Text \cup {None}
    BY DEF Condition
  <2>. QED
    BY <2>1, WrittenGlyphs
<1>2. PICK not, name, parameter :
        /\ not = IF c.negated THEN <<"!">> ELSE <<>>
        /\ name = <<c.name>>
        /\ parameter = IF c.parameter = None THEN <<>> ELSE <<"(">> \o c.parameter \o <<")">>
  OBVIOUS
<1>3. <<>> \in Text
  BY EmptySeq DEF Text
<1>4. <<"!">> \in Text /\ <<"(">> \in Text /\ <<")">> \in Text
  BY BracesAreGlyphs, GlyphTyped
<1>5. not \in Text
  BY <1>2, <1>3, <1>4
<1>6. name \in Text
  BY <1>1, <1>2, GlyphTyped
<1>7. parameter \in Text
  <2>1. CASE c.parameter = None
    BY <1>2, <1>3, <2>1
  <2>2. CASE c.parameter # None
    <3>1. PICK p, open, close : p = c.parameter /\ open = <<"(">> /\ close = <<")">>
      OBVIOUS
    <3>2. p \in Text /\ open \in Text /\ close \in Text
      BY <1>1, <1>4, <2>2, <3>1
    <3>3. open \o p \o close \in Text
      BY <3>2, TextTyped
    <3>. QED
      BY <1>2, <2>2, <3>1, <3>3
  <2>. QED
    BY <2>1, <2>2
<1>8. WriteCondition(c) = not \o name \o parameter
  BY <1>2 DEF WriteCondition
<1>9. not \o name \o parameter \in Text
  BY <1>5, <1>6, <1>7, TextTyped
<1>. QED
  BY <1>8, <1>9

LEMMA WrittenConditionsTyped ==
    ASSUME NEW conditions \in Seq(Condition)
    PROVE  WrittenConditions(conditions) \in Seq(Text)
           /\ Len(WrittenConditions(conditions)) = Len(conditions)
<1>1. Len(conditions) \in Nat /\ DOMAIN conditions = 1..Len(conditions)
  OBVIOUS
<1>2. \A i \in 1..Len(conditions) : WriteCondition(conditions[i]) \in Text
  BY WriteConditionTyped
<1>3. WrittenConditions(conditions) \in [1..Len(conditions) -> Text]
  BY <1>1, <1>2 DEF WrittenConditions
<1>. QED
  BY <1>1, <1>3, TypedSeq

LEMMA WriteClauseTyped ==
    ASSUME NEW queries, NEW clause \in ClauseOf(queries)
    PROVE  WriteClause(clause) \in Text
<1>. DEFINE conditions == WrittenConditions(clause.conditions)
<1>1. clause \in ConditionClause /\ (~clause.set => Len(clause.conditions) = 1)
  BY DEF ClauseOf, IsClause
<1>2. clause.operator \in SetOperator \cup {None} /\ clause.conditions \in Seq(Condition)
  BY <1>1 DEF ConditionClause
<1>3. conditions \in Seq(Text) /\ Len(conditions) = Len(clause.conditions)
  BY <1>2, WrittenConditionsTyped
<1>4. WriteClause(clause)
        = IF clause.set THEN WriteSet(clause.operator, conditions) ELSE conditions[1]
  BY DEF WriteClause, WrittenConditions
<1>. HIDE DEF conditions
<1>5. CASE clause.set
  <2>1. WriteSet(clause.operator, conditions) \in Text
    BY <1>2, <1>3, SetPiecesTyped
  <2>. QED
    BY <1>4, <1>5, <2>1
<1>6. CASE ~clause.set
  <2>1. Len(conditions) = 1
    BY <1>1, <1>3, <1>6
  <2>2. conditions[1] \in Text
    BY <1>3, <2>1
  <2>. QED
    BY <1>4, <1>6, <2>2
<1>. QED
  BY <1>5, <1>6

LEMMA WrittenAttributesTyped ==
    ASSUME NEW attributes \in Seq(AnyAttribute)
    PROVE  WrittenAttributes(attributes) \in Seq(Text)
           /\ Len(WrittenAttributes(attributes)) = Len(attributes)
<1>1. Len(attributes) \in Nat /\ DOMAIN attributes = 1..Len(attributes)
  OBVIOUS
<1>2. \A i \in 1..Len(attributes) : WriteAttribute(attributes[i]) \in Text
  BY WriteAttributeTyped
<1>3. WrittenAttributes(attributes) \in [1..Len(attributes) -> Text]
  BY <1>1, <1>2 DEF WrittenAttributes
<1>. QED
  BY <1>1, <1>3, TypedSeq

\* The pieces of a rule.
TargetPiece(tgt) == IF tgt = None THEN <<>> ELSE <<<<tgt>>>>
ClausePieces(clause) == IF clause = None THEN <<>> ELSE <<<<"if">>, WriteClause(clause)>>
CommentPiece(comment) == IF comment = None THEN <<>> ELSE <<<<"#">> \o comment>>
RulePieces(rule) ==
    TargetPiece(rule.target) \o WrittenAttributes(rule.attributes)
    \o ClausePieces(rule.condition) \o CommentPiece(rule.comment)

LEMMA TargetPieceTyped ==
    ASSUME NEW tgt \in RuleTarget \cup {None}
    PROVE  TargetPiece(tgt) \in Seq(Text)
<1>1. CASE tgt = None
  BY <1>1, EmptySeq DEF TargetPiece
<1>2. CASE tgt # None
  <2>1. PICK p : p = <<tgt>>
    OBVIOUS
  <2>2. p \in Text
    BY <1>2, <2>1, WrittenGlyphs, GlyphTyped
  <2>. QED
    BY <1>2, <2>1, <2>2, PieceTyped DEF TargetPiece
<1>. QED
  BY <1>1, <1>2

LEMMA ClausePiecesTyped ==
    ASSUME NEW queries, NEW clause \in ClauseOf(queries) \cup {None}
    PROVE  ClausePieces(clause) \in Seq(Text)
<1>1. CASE clause = None
  BY <1>1, EmptySeq DEF ClausePieces
<1>2. CASE clause # None
  <2>1. PICK p, q : p = <<"if">> /\ q = WriteClause(clause)
    OBVIOUS
  <2>2. p \in Text /\ q \in Text
    <3>1. "if" \in Glyph
      BY WrittenGlyphs
    <3>2. q \in Text
      BY <1>2, <2>1, WriteClauseTyped
    <3>. QED
      BY <2>1, <3>1, <3>2, GlyphTyped
  <2>3. <<p, q>> \in Seq(Text)
    BY <2>2
  <2>. QED
    BY <1>2, <2>1, <2>3 DEF ClausePieces
<1>. QED
  BY <1>1, <1>2

LEMMA CommentPieceTyped ==
    ASSUME NEW comment \in Text \cup {None}
    PROVE  CommentPiece(comment) \in Seq(Text)
<1>1. CASE comment = None
  BY <1>1, EmptySeq DEF CommentPiece
<1>2. CASE comment # None
  <2>1. PICK p, sharp : p = sharp \o comment /\ sharp = <<"#">>
    OBVIOUS
  <2>2. sharp \in Text /\ comment \in Text
    BY <1>2, <2>1, BracesAreGlyphs, GlyphTyped
  <2>3. p \in Text
    BY <2>1, <2>2, TextTyped
  <2>. QED
    BY <1>2, <2>1, <2>3, PieceTyped DEF CommentPiece
<1>. QED
  BY <1>1, <1>2

LEMMA RulePiecesTyped ==
    ASSUME NEW queries, NEW rule \in AnyRuleOf(queries)
    PROVE  /\ RulePieces(rule) \in Seq(Text)
           /\ Render(rule) = Spaced(RulePieces(rule))
           /\ Render(rule) \in Text
<1>1. rule \in Rule /\ IsAnyRule(queries, rule)
  BY DEF AnyRuleOf
<1>2. /\ rule.target \in RuleTarget \cup {None} /\ rule.attributes \in Seq(AnyAttribute)
      /\ rule.condition \in ClauseOf(queries) \cup {None} /\ rule.comment \in Text \cup {None}
  BY <1>1 DEF Rule, IsAnyRule
<1>3. PICK a, b, c, d :
        /\ a = TargetPiece(rule.target) /\ b = WrittenAttributes(rule.attributes)
        /\ c = ClausePieces(rule.condition) /\ d = CommentPiece(rule.comment)
  OBVIOUS
<1>4. a \in Seq(Text)
  BY <1>2, <1>3, TargetPieceTyped
<1>5. b \in Seq(Text)
  BY <1>2, <1>3, WrittenAttributesTyped
<1>6. c \in Seq(Text)
  BY <1>2, <1>3, ClausePiecesTyped
<1>7. d \in Seq(Text)
  BY <1>2, <1>3, CommentPieceTyped
<1>8. a \o b \o c \o d \in Seq(Text)
  BY <1>4, <1>5, <1>6, <1>7, PiecesTyped
<1>9. RulePieces(rule) \in Seq(Text)
  BY <1>3, <1>8 DEF RulePieces
<1>10. Render(rule) = Spaced(RulePieces(rule))
  BY DEF Render, RulePieces, TargetPiece, WrittenAttributes, ClausePieces, CommentPiece
<1>. QED
  BY <1>9, <1>10, BlankIs, JoinedTyped DEF Spaced

-----------------------------------------------------------------------------
(* What the lexer makes of a text that is written in pieces: of a piece it *)
(* makes tokens, and goes on behind it.                                    *)

\* A token without its place.
P(kind, s) == [kind |-> kind, text |-> s]
Piece == [kind : TokenKind, text : Text]
Plain(t) == [i \in DOMAIN t |-> P(t[i].kind, t[i].text)]

\* The lexer reads these tokens from pos on.
LexesTo(input, pos, tokens) ==
    /\ ~Failed(LexFrom(input)[pos])
    /\ Plain(LexFrom(input)[pos].value) = tokens

LEMMA PlainTyped ==
    ASSUME NEW t \in Seq(AToken)
    PROVE  Plain(t) \in Seq(Piece) /\ Len(Plain(t)) = Len(t)
<1>1. \A i \in 1..Len(t) : t[i] \in AToken
  OBVIOUS
<1>2. \A i \in 1..Len(t) : P(t[i].kind, t[i].text) \in Piece
  BY <1>1 DEF AToken, Piece, P
<1>3. Plain(t) \in [1..Len(t) -> Piece] /\ Len(t) \in Nat
  BY <1>2 DEF Plain
<1>. QED
  BY <1>3, TypedSeq

LEMMA LexesTyped ==
    ASSUME NEW input \in Text, NEW pos \in Place, NEW tokens, LexesTo(input, pos, tokens)
    PROVE  tokens \in Seq(Piece)
<1>1. LexFrom(input)[pos] \in Result(TokenList)
  BY LexFromIs
<1>2. PICK r : r = LexFrom(input)[pos]
  OBVIOUS
<1>3. ~Failed(r) /\ tokens = Plain(r.value)
  BY <1>2 DEF LexesTo
<1>4. r.value \in TokenList
  BY <1>1, <1>2, <1>3, ValueOf
<1>5. r.value \in Seq(AToken)
  BY <1>4 DEF TokenList
<1>. QED
  BY <1>3, <1>5, PlainTyped

\* A token in front of others.
LEMMA PlainAnd ==
    ASSUME NEW token \in AToken, NEW t \in Seq(AToken)
    PROVE  Plain(<<token>> \o t) = <<P(token.kind, token.text)>> \o Plain(t)
<1>. DEFINE all == <<token>> \o t
            p == P(token.kind, token.text)
            b == <<p>> \o Plain(t)
<1>1. /\ all \in Seq(AToken) /\ Len(all) = Len(t) + 1 /\ all[1] = token
      /\ \A i \in 1..Len(all) : i # 1 => all[i] = t[i - 1]
      /\ Len(t) \in Nat
  OBVIOUS
<1>2. p \in Piece
  BY DEF AToken, Piece, P
<1>3. Plain(t) \in Seq(Piece) /\ Len(Plain(t)) = Len(t) /\ DOMAIN t = 1..Len(t)
  BY PlainTyped
<1>. HIDE DEF p
<1>4. /\ b \in Seq(Piece) /\ Len(b) = Len(t) + 1 /\ b[1] = p
      /\ \A i \in 1..Len(b) : i # 1 => b[i] = Plain(t)[i - 1]
  BY <1>2, <1>3
<1>. HIDE DEF all, b
<1>5. Plain(all) \in Seq(Piece) /\ Len(Plain(all)) = Len(t) + 1
  BY <1>1, PlainTyped
<1>6. ASSUME NEW i \in 1..Len(t) + 1 PROVE Plain(all)[i] = b[i]
  <2>1. i \in DOMAIN all /\ i \in 1..Len(all) /\ i \in 1..Len(b)
    BY <1>1, <1>4
  <2>2. Plain(all)[i] = P(all[i].kind, all[i].text)
    BY <2>1 DEF Plain
  <2>3. CASE i = 1
    BY <1>1, <1>4, <2>2, <2>3 DEF p
  <2>4. CASE i # 1
    <3>1. PICK j : j = i - 1
      OBVIOUS
    <3>2. j \in DOMAIN t
      BY <1>1, <1>3, <2>4, <3>1
    <3>3. all[i] = t[j] /\ b[i] = Plain(t)[j]
      BY <1>1, <1>4, <2>1, <2>4, <3>1
    <3>4. Plain(t)[j] = P(t[j].kind, t[j].text)
      BY <3>2 DEF Plain
    <3>. QED
      BY <2>2, <3>3, <3>4
  <2>. QED
    BY <2>3, <2>4
<1>7. Plain(all) = b
  BY <1>4, <1>5, <1>6, SeqEqual
<1>. QED
  BY <1>7 DEF all, b, p

\* At whitespace the lexer moves on.
LEMMA LexesBlank ==
    ASSUME NEW input \in Text, NEW pos \in Place, pos <= Len(input), input[pos] \in Whitespace,
           NEW rest, LexesTo(input, pos + 1, rest)
    PROVE  LexesTo(input, pos, rest)
<1>1. ~(pos > Len(input))
  BY DEF Place, Text
<1>2. LexFrom(input)[pos] = LexFrom(input)[pos + 1]
  BY <1>1, LexFromIs DEF LexStep
<1>. QED
  BY <1>2 DEF LexesTo

\* Behind the end there is the token of the end.
LEMMA LexesEnd ==
    ASSUME NEW input \in Text, NEW pos \in Place, pos > Len(input)
    PROVE  LexesTo(input, pos, <<P("End", <<>>)>>)
<1>. DEFINE t == <<Token("End", <<>>, pos)>>
<1>1. LexFrom(input)[pos] = Good(t, pos)
  BY LexFromIs DEF LexStep
<1>2. ~Failed(Good(t, pos)) /\ Good(t, pos).value = t
  BY Results
<1>3. Plain(t) = <<P("End", <<>>)>>
  <2>1. t[1].kind = "End" /\ t[1].text = <<>> /\ DOMAIN t = {1}
    BY DEF Token
  <2>. QED
    BY <2>1 DEF Plain
<1>. HIDE DEF t
<1>. QED
  BY <1>1, <1>2, <1>3 DEF LexesTo

\* A token that LexToken reads.
LEMMA LexesToken ==
    ASSUME NEW input \in Text, NEW pos \in Place, pos <= Len(input), input[pos] \notin Whitespace,
           NEW kind, NEW s, NEW next,
           LexToken(input, pos) = Good(Token(kind, s, pos), next),
           NEW rest, LexesTo(input, next, rest)
    PROVE  LexesTo(input, pos, <<P(kind, s)>> \o rest)
<1>1. pos \in 1..Len(input) /\ ~(pos > Len(input)) /\ pos \in Nat
  BY DEF Place, Text
<1>2. PICK token : token = Token(kind, s, pos)
  OBVIOUS
<1>3. Lexed(Good(token, next), pos)
  BY <1>1, <1>2, LexTokenIs
<1>4. PICK l : l = Good(token, next)
  OBVIOUS
<1>5. ~Failed(l) /\ l.value = token /\ l.next = next
  BY <1>4, Results
<1>6. token \in AToken /\ next \in Nat /\ next > pos
  BY <1>3, <1>4, <1>5, ValueOf DEF Lexed
<1>7. next \in Place
  BY <1>1, <1>6 DEF Place
<1>8. PICK r : r = LexFrom(input)[next]
  OBVIOUS
<1>9. ~Failed(r) /\ Plain(r.value) = rest /\ r \in Result(TokenList)
  BY <1>7, <1>8, LexFromIs DEF LexesTo
<1>10. r.value \in Seq(AToken)
  BY <1>9, ValueOf DEF TokenList
<1>11. LexFrom(input)[pos] = Before(token, r)
  <2>1. LexFrom(input)[pos] = LexStep(LexFrom(input), input, pos)
    BY LexFromIs
  <2>2. LexToken(input, pos) = l
    BY <1>2, <1>4
  <2>. QED
    BY <1>1, <1>5, <1>8, <2>1, <2>2 DEF LexStep, Then
<1>12. ~Failed(LexFrom(input)[pos]) /\ LexFrom(input)[pos].value = <<token>> \o r.value
  BY <1>9, <1>11, BeforeGives
<1>13. Plain(<<token>> \o r.value) = <<P(token.kind, token.text)>> \o rest
  BY <1>6, <1>9, <1>10, PlainAnd
<1>14. token.kind = kind /\ token.text = s
  BY <1>2 DEF Token
<1>. QED
  BY <1>12, <1>13, <1>14 DEF LexesTo

-----------------------------------------------------------------------------
(* Pieces.                                                                 *)

\* A word ends there.
Ends(input, pos) == pos <= Len(input) => input[pos] \in Delimiters

\* Where w stands, these tokens are read, and what is behind it.
Leads(w, tokens) ==
    \A input \in Text : \A pos \in Place : \A rest \in Seq(Piece) :
        Stands(w, input, pos) /\ LexesTo(input, pos + Len(w), rest)
            => LexesTo(input, pos, tokens \o rest)

\* The same where w is followed by a delimiter.
Reads(w, tokens) ==
    \A input \in Text : \A pos \in Place : \A rest \in Seq(Piece) :
        Stands(w, input, pos) /\ LexesTo(input, pos + Len(w), rest) /\ Ends(input, pos + Len(w))
            => LexesTo(input, pos, tokens \o rest)

LEMMA LeadsReads == ASSUME NEW w, NEW tokens, Leads(w, tokens) PROVE Reads(w, tokens)
BY DEF Leads, Reads

LEMMA StandsApart ==
    ASSUME NEW a \in Text, NEW b \in Text, NEW input \in Text, NEW pos, Stands(a \o b, input, pos)
    PROVE  /\ Stands(a, input, pos) /\ Stands(b, input, pos + Len(a))
           /\ pos + Len(a \o b) = (pos + Len(a)) + Len(b)
           /\ pos + Len(a) \in Place
<1>. DEFINE w == a \o b
<1>1. /\ Len(w) = Len(a) + Len(b) /\ Len(a) \in Nat /\ Len(b) \in Nat /\ Len(input) \in Nat
      /\ \A k \in 1..Len(a) : w[k] = a[k] /\ k \in 1..Len(w)
      /\ \A k \in 1..Len(b) : w[Len(a) + k] = b[k] /\ Len(a) + k \in 1..Len(w)
  BY DEF Text
<1>. HIDE DEF w
<1>2. /\ pos \in Nat /\ pos # 0 /\ pos + Len(w) <= Len(input) + 1
      /\ \A k \in 1..Len(w) : input[pos + k - 1] = w[k]
  BY DEF Stands, w, Place
<1>3. Stands(a, input, pos)
  <2>1. pos + Len(a) <= Len(input) + 1 /\ pos \in Place
    BY <1>1, <1>2 DEF Place
  <2>. QED
    BY <1>1, <1>2, <2>1 DEF Stands
<1>4. PICK m : m = pos + Len(a)
  OBVIOUS
<1>5. m \in Place /\ m + Len(b) <= Len(input) + 1 /\ pos + Len(w) = m + Len(b)
  BY <1>1, <1>2, <1>4 DEF Place
<1>6. ASSUME NEW k \in 1..Len(b) PROVE input[m + k - 1] = b[k]
  <2>1. m + k - 1 = pos + (Len(a) + k) - 1
    BY <1>1, <1>2, <1>4
  <2>. QED
    BY <1>1, <1>2, <2>1
<1>7. Stands(b, input, m)
  BY <1>5, <1>6 DEF Stands
<1>. QED
  BY <1>3, <1>4, <1>5, <1>7 DEF w

\* A piece that ends itself, and another.
LEMMA LeadsThen ==
    ASSUME NEW a \in Text, NEW b \in Text, NEW x \in Seq(Piece), NEW y \in Seq(Piece),
           Leads(a, x), Reads(b, y)
    PROVE  Reads(a \o b, x \o y)
<1>. SUFFICES ASSUME NEW input \in Text, NEW pos \in Place, NEW rest \in Seq(Piece),
                     Stands(a \o b, input, pos), LexesTo(input, pos + Len(a \o b), rest),
                     Ends(input, pos + Len(a \o b))
              PROVE  LexesTo(input, pos, (x \o y) \o rest)
  BY DEF Reads
<1>1. PICK m : m = pos + Len(a)
  OBVIOUS
<1>2. Stands(a, input, pos) /\ Stands(b, input, m) /\ pos + Len(a \o b) = m + Len(b) /\ m \in Place
  BY <1>1, StandsApart
<1>3. LexesTo(input, m, y \o rest)
  BY <1>2 DEF Reads
<1>4. y \o rest \in Seq(Piece)
  OBVIOUS
<1>5. LexesTo(input, pos, x \o (y \o rest))
  BY <1>1, <1>2, <1>3, <1>4 DEF Leads
<1>6. (x \o y) \o rest = x \o (y \o rest)
  BY SMTT(30)
<1>. QED
  BY <1>5, <1>6

\* A piece, and another that begins with a delimiter.
LEMMA ReadsThen ==
    ASSUME NEW a \in Text, NEW b \in Text, NEW x \in Seq(Piece), NEW y \in Seq(Piece),
           Reads(a, x), Reads(b, y), b # <<>>, b[1] \in Delimiters
    PROVE  Reads(a \o b, x \o y)
<1>. SUFFICES ASSUME NEW input \in Text, NEW pos \in Place, NEW rest \in Seq(Piece),
                     Stands(a \o b, input, pos), LexesTo(input, pos + Len(a \o b), rest),
                     Ends(input, pos + Len(a \o b))
              PROVE  LexesTo(input, pos, (x \o y) \o rest)
  BY DEF Reads
<1>1. PICK m : m = pos + Len(a)
  OBVIOUS
<1>2. Stands(a, input, pos) /\ Stands(b, input, m) /\ pos + Len(a \o b) = m + Len(b) /\ m \in Place
  BY <1>1, StandsApart
<1>3. LexesTo(input, m, y \o rest)
  BY <1>2 DEF Reads
<1>4. y \o rest \in Seq(Piece)
  OBVIOUS
<1>5. Ends(input, m)
  <2>1. 1 \in 1..Len(b) /\ m \in Nat
    BY <1>2 DEF Text, Place
  <2>2. input[m + 1 - 1] = b[1] /\ m + 1 - 1 = m
    BY <1>2, <2>1 DEF Stands
  <2>. QED
    BY <2>2 DEF Ends
<1>6. LexesTo(input, pos, x \o (y \o rest))
  BY <1>1, <1>2, <1>3, <1>4, <1>5 DEF Reads
<1>7. (x \o y) \o rest = x \o (y \o rest)
  OBVIOUS
<1>. QED
  BY <1>6, <1>7

\* A blank before a piece.
LEMMA BlankThen ==
    ASSUME NEW b \in Text, NEW y \in Seq(Piece), Reads(b, y)
    PROVE  Reads(<<" ">> \o b, y)
<1>1. PICK a : a = <<" ">>
  OBVIOUS
<1>2. a \in Text
  BY <1>1, BlankIs, GlyphTyped
<1>21. Len(a) = 1 /\ a[1] = " "
  <2>1. PICK e : e = " "
    OBVIOUS
  <2>2. Len(<<e>>) = 1 /\ <<e>>[1] = e
    OBVIOUS
  <2>. QED
    BY <1>1, <2>1, <2>2
<1>. SUFFICES ASSUME NEW input \in Text, NEW pos \in Place, NEW rest \in Seq(Piece),
                     Stands(a \o b, input, pos), LexesTo(input, pos + Len(a \o b), rest),
                     Ends(input, pos + Len(a \o b))
              PROVE  LexesTo(input, pos, y \o rest)
  BY <1>1 DEF Reads
<1>3. PICK m : m = pos + Len(a)
  OBVIOUS
<1>4. Stands(a, input, pos) /\ Stands(b, input, m) /\ pos + Len(a \o b) = m + Len(b) /\ m \in Place
  <2>1. PICK w : w = a \o b
    OBVIOUS
  <2>. QED
    BY <1>2, <1>3, StandsApart
<1>5. LexesTo(input, m, y \o rest)
  BY <1>4 DEF Reads
<1>6. pos \in Nat /\ m = pos + 1 /\ input[pos] = " " /\ pos <= Len(input)
  <2>1. pos \in Nat /\ Len(input) \in Nat
    BY DEF Place, Text
  <2>2. 1 \in 1..Len(a) /\ pos + 1 - 1 = pos
    <3>1. PICK n : n = Len(a)
      OBVIOUS
    <3>2. n = 1
      BY <1>21, <3>1
    <3>. QED
      BY <2>1, <3>1, <3>2
  <2>3. input[pos] = a[1]
    BY <1>4, <2>2 DEF Stands
  <2>4. pos + Len(a) <= Len(input) + 1
    BY <1>4 DEF Stands
  <2>. QED
    <3>1. PICK n : n = Len(a)
      OBVIOUS
    <3>2. n = 1
      BY <1>21, <3>1
    <3>3. m = pos + n /\ pos + n <= Len(input) + 1
      BY <1>3, <2>4, <3>1
    <3>4. m = pos + 1 /\ pos <= Len(input)
      BY <2>1, <3>2, <3>3
    <3>. QED
      BY <1>21, <2>1, <2>3, <3>4
<1>. QED
  BY <1>5, <1>6, BlankIs, LexesBlank

LEMMA ReadsBlank ==
    ASSUME NEW a \in Text, NEW b \in Text, NEW x \in Seq(Piece), NEW y \in Seq(Piece),
           Reads(a, x), Reads(b, y)
    PROVE  Reads(a \o (<<" ">> \o b), x \o y)
<1>1. PICK c : c = <<" ">> \o b
  OBVIOUS
<1>2. Reads(c, y)
  BY <1>1, BlankThen
<1>3. c \in Text /\ c # <<>> /\ c[1] = " "
  <2>1. <<" ">> \in Text
    BY BlankIs, GlyphTyped
  <2>2. c \in Text
    BY <1>1, <2>1, TextTyped
  <2>3. Len(c) = 1 + Len(b) /\ c[1] = " " /\ Len(b) \in Nat
    <3>1. PICK e : e = " "
      OBVIOUS
    <3>2. e \in Glyph /\ b \in Seq(Glyph)
      BY <3>1, BlankIs DEF Text
    <3>3. Len(<<e>> \o b) = 1 + Len(b) /\ (<<e>> \o b)[1] = e /\ Len(b) \in Nat
      BY <3>2
    <3>. QED
      BY <1>1, <3>1, <3>3
  <2>4. c # <<>>
    <3>1. PICK n, k : n = Len(c) /\ k = Len(b)
      OBVIOUS
    <3>2. n = 1 + k /\ k \in Nat
      BY <2>3, <3>1
    <3>3. n # 0
      BY <3>2
    <3>. QED
      BY <3>1, <3>3
  <2>. QED
    BY <2>2, <2>3, <2>4
<1>. QED
  BY <1>1, <1>2, <1>3, BlankIs, ReadsThen

-----------------------------------------------------------------------------
(* What is read of a word, a brace, a parameter and a string.              *)

\* A glyph that stands somewhere.
LEMMA StandsOne ==
    ASSUME NEW g, NEW input \in Text, NEW pos, Stands(<<g>>, input, pos)
    PROVE  /\ pos \in Place /\ pos \in Nat /\ pos \in 1..Len(input) /\ pos <= Len(input)
           /\ ~(pos > Len(input)) /\ input[pos] = g /\ pos + Len(<<g>>) = pos + 1
           /\ pos + 1 \in Place
<1>1. PICK w : w = <<g>>
  OBVIOUS
<1>2. Len(<<g>>) = 1 /\ <<g>>[1] = g
  OBVIOUS
<1>3. PICK n : n = Len(w)
  OBVIOUS
<1>4. n = 1 /\ w[1] = g
  BY <1>1, <1>2, <1>3
<1>5. pos \in Place /\ pos + n <= Len(input) + 1 /\ \A k \in 1..n : input[pos + k - 1] = w[k]
  BY <1>1, <1>3 DEF Stands
<1>6. pos \in Nat /\ pos >= 1 /\ Len(input) \in Nat
  BY <1>5 DEF Place, Text
<1>7. /\ pos \in 1..Len(input) /\ pos <= Len(input) /\ ~(pos > Len(input)) /\ pos + 1 - 1 = pos
      /\ 1 \in 1..n
  BY <1>4, <1>5, <1>6
<1>8. pos + 1 \in Place
  BY <1>6 DEF Place
<1>9. input[pos] = g
  BY <1>4, <1>5, <1>7
<1>. QED
  BY <1>1, <1>3, <1>4, <1>5, <1>6, <1>7, <1>8, <1>9

\* What is cut out where w stands.
LEMMA StandsCut ==
    ASSUME NEW w \in Text, NEW input \in Text, NEW pos, Stands(w, input, pos)
    PROVE  SubSeq(input, pos, pos + Len(w) - 1) = w
<1>1. PICK n, hi : n = Len(w) /\ hi = pos + n - 1
  OBVIOUS
<1>2. /\ pos \in Nat /\ pos >= 1 /\ pos + n <= Len(input) + 1 /\ n \in Nat /\ Len(input) \in Nat
      /\ \A k \in 1..n : input[pos + k - 1] = w[k]
  BY <1>1 DEF Stands, Place, Text
<1>3. hi \in Int /\ hi <= Len(input) /\ hi - pos + 1 = n /\ w \in Seq(Glyph) /\ input \in Seq(Glyph)
      /\ pos \in Nat \ {0}
  BY <1>1, <1>2 DEF Text
<1>4. PICK s : s = SubSeq(input, pos, hi)
  OBVIOUS
<1>5. s \in Seq(Glyph)
  BY <1>3, <1>4, SubSeqTyped
<1>6. Len(s) = n
  BY <1>2, <1>3, <1>4
<1>7. ASSUME NEW k \in 1..n PROVE s[k] = w[k]
  <2>1. s[k] = input[pos + k - 1]
    BY <1>2, <1>3, <1>4
  <2>. QED
    BY <1>2, <2>1
<1>8. s = w
  BY <1>1, <1>3, <1>5, <1>6, <1>7, SeqEqual
<1>. QED
  BY <1>1, <1>4, <1>8

\* The token at a glyph.
LEMMA TokenOfString ==
    ASSUME NEW input, NEW pos, input[pos] = Quote, NEW s, NEW next,
           LexString(input, pos) = Good(s, next)
    PROVE  LexToken(input, pos) = Good(Token("Str", s, pos), next)
<1>1. PICK r : r = LexString(input, pos)
  OBVIOUS
<1>2. ~Failed(r) /\ r.value = s /\ r.next = next
  BY <1>1, Results
<1>3. LexToken(input, pos) = IF Failed(r) THEN r ELSE Good(Token("Str", r.value, pos), r.next)
  BY <1>1 DEF LexToken, Quote, Then
<1>. QED
  BY <1>2, <1>3

LEMMA TokenOfParameter ==
    ASSUME NEW input, NEW pos, input[pos] = "(", NEW close, NEW next,
           FindClosingParen(input, pos) = Good(close, next)
    PROVE  LexToken(input, pos) = Good(Token("Param", SubSeq(input, pos + 1, close - 1), pos), next)
<1>1. PICK r : r = FindClosingParen(input, pos)
  OBVIOUS
<1>2. ~Failed(r) /\ r.value = close /\ r.next = next
  BY <1>1, Results
<1>3. LexToken(input, pos)
        = IF Failed(r) THEN r
          ELSE Good(Token("Param", SubSeq(input, pos + 1, r.value - 1), pos), r.next)
  BY <1>1 DEF LexToken, Quote, Then
<1>. QED
  BY <1>2, <1>3

LEMMA TokenOfWord ==
    ASSUME NEW input, NEW pos, input[pos] \notin Delimiters
    PROVE  LexToken(input, pos)
             = Good(Token("Word", SubSeq(input, pos, WordEnd(input, pos) - 1), pos),
                    WordEnd(input, pos))
<1>1. input[pos] \notin {"{", "}", "!", "#", Quote, "(", ")"}
  BY DEF Delimiters
<1>. QED
  BY <1>1 DEF LexToken

\* A word, up to a delimiter.
AWord(w) == w \in Text /\ w # <<>> /\ \A k \in 1..Len(w) : w[k] \notin Delimiters

LEMMA ReadsWord ==
    ASSUME NEW w, AWord(w)
    PROVE  Reads(w, <<P("Word", w)>>)
<1>. SUFFICES ASSUME NEW input \in Text, NEW pos \in Place, NEW rest \in Seq(Piece),
                     Stands(w, input, pos), LexesTo(input, pos + Len(w), rest),
                     Ends(input, pos + Len(w))
              PROVE  LexesTo(input, pos, <<P("Word", w)>> \o rest)
  BY DEF Reads
<1>1. PICK n, e : n = Len(w) /\ e = pos + n
  OBVIOUS
<1>2. /\ w \in Text /\ n \in Nat /\ n >= 1 /\ \A k \in 1..n : w[k] \notin Delimiters
  <2>1. w \in Text /\ w # <<>>
    BY DEF AWord
  <2>2. w \in Seq(Glyph)
    BY <2>1 DEF Text
  <2>3. Len(w) # 0 /\ Len(w) \in Nat
    BY <2>1, <2>2, EmptySeq
  <2>. QED
    BY <1>1, <2>1, <2>3 DEF AWord
<1>3. /\ pos \in Nat /\ pos >= 1 /\ e <= Len(input) + 1 /\ Len(input) \in Nat /\ e \in Nat
      /\ \A k \in 1..n : input[pos + k - 1] = w[k]
  BY <1>1, <1>2 DEF Stands, Place, Text
<1>4. ASSUME NEW q \in Nat, pos <= q, q < e PROVE input[q] \notin Delimiters
  <2>1. PICK k : k = q - pos + 1
    OBVIOUS
  <2>2. k \in 1..n /\ pos + k - 1 = q
    BY <1>1, <1>2, <1>3, <1>4, <2>1
  <2>. QED
    BY <1>2, <1>3, <2>2
<1>5. pos \in 1..Len(input) /\ pos <= Len(input) /\ pos < e
  BY <1>1, <1>2, <1>3
<1>6. input[pos] \notin Delimiters
  BY <1>3, <1>4, <1>5
<1>7. PICK q : q = WordEnd(input, pos)
  OBVIOUS
<1>8. /\ q \in pos + 1..Len(input) + 1 /\ (q <= Len(input) => input[q] \in Delimiters)
      /\ \A i \in pos..q - 1 : input[i] \notin Delimiters
  BY <1>5, <1>6, <1>7, WordEndIs
<1>9. q \in Nat /\ pos <= q /\ q <= Len(input) + 1
  BY <1>3, <1>8
<1>10. ~(q < e)
  <2>1. SUFFICES ASSUME q < e PROVE FALSE
    OBVIOUS
  <2>2. q <= Len(input)
    BY <1>3, <1>9, <2>1
  <2>. QED
    BY <1>4, <1>8, <1>9, <2>1, <2>2
<1>11. ~(e < q)
  <2>1. SUFFICES ASSUME e < q PROVE FALSE
    OBVIOUS
  <2>2. e <= Len(input) /\ e \in pos..q - 1
    BY <1>3, <1>5, <1>9, <2>1
  <2>3. input[e] \in Delimiters
    BY <1>1, <2>2 DEF Ends
  <2>. QED
    BY <1>8, <2>2, <2>3
<1>12. q = e
  BY <1>3, <1>9, <1>10, <1>11
<1>13. SubSeq(input, pos, e - 1) = w
  <2>1. PICK hi : hi = pos + Len(w) - 1
    OBVIOUS
  <2>2. SubSeq(input, pos, hi) = w
    BY <1>2, <2>1, StandsCut
  <2>3. hi = e - 1
    BY <1>1, <1>2, <1>3, <2>1
  <2>. QED
    BY <2>2, <2>3
<1>14. LexToken(input, pos) = Good(Token("Word", w, pos), e)
  BY <1>6, <1>7, <1>12, <1>13, TokenOfWord
<1>15. input[pos] \notin Whitespace
  BY <1>6 DEF Delimiters
<1>. QED
  BY <1>1, <1>5, <1>14, <1>15, LexesToken

LEMMA LeadsBrace ==
    ASSUME NEW g \in {"{", "}", "!"}
    PROVE  Leads(<<g>>, <<P(g, <<>>)>>)
<1>. SUFFICES ASSUME NEW input \in Text, NEW pos \in Place, NEW rest \in Seq(Piece),
                     Stands(<<g>>, input, pos), LexesTo(input, pos + Len(<<g>>), rest)
              PROVE  LexesTo(input, pos, <<P(g, <<>>)>> \o rest)
  BY DEF Leads
<1>1. pos <= Len(input) /\ input[pos] = g /\ pos + Len(<<g>>) = pos + 1
  BY StandsOne
<1>2. g \notin Whitespace
  BY DEF Whitespace, Newline
<1>3. LexToken(input, pos) = Good(Token(g, <<>>, pos), pos + 1)
  <2>1. input[pos] \in {"{", "}", "!"}
    BY <1>1
  <2>2. LexToken(input, pos) = Good(Token(input[pos], <<>>, pos), pos + 1)
    BY <2>1 DEF LexToken, Quote
  <2>. QED
    BY <1>1, <2>2
<1>. QED
  BY <1>1, <1>2, <1>3, LexesToken

LEMMA LeadsParameter ==
    ASSUME NEW p \in Text, Closes(p)
    PROVE  Leads(Bracketed(p), <<P("Param", p)>>)
<1>1. PICK w : w = Bracketed(p)
  OBVIOUS
<1>. SUFFICES ASSUME NEW input \in Text, NEW pos \in Place, NEW rest \in Seq(Piece),
                     Stands(w, input, pos), LexesTo(input, pos + Len(w), rest)
              PROVE  LexesTo(input, pos, <<P("Param", p)>> \o rest)
  BY <1>1 DEF Leads
<1>2. PICK n : n = Len(p)
  OBVIOUS
<1>3. /\ w \in Text /\ Len(w) = n + 2 /\ n \in Nat /\ w[1] = "("
      /\ \A k \in 1..n : w[k + 1] = p[k]
  BY <1>1, <1>2, BracketedIs
<1>4. /\ pos \in Nat /\ pos >= 1 /\ pos + Len(w) <= Len(input) + 1
      /\ \A k \in 1..Len(w) : input[pos + k - 1] = w[k]
      /\ Len(input) \in Nat
  BY DEF Stands, Place, Text
<1>5. PICK close, next : close = pos + n + 1 /\ next = pos + n + 2
  OBVIOUS
<1>6. next = pos + Len(w) /\ pos + 1 \in Place /\ (pos + 1) + n <= Len(input) + 1
      /\ close - 1 = (pos + 1) + n - 1 /\ 1 \in 1..Len(w) /\ pos + 1 - 1 = pos /\ pos <= Len(input)
  BY <1>3, <1>4, <1>5 DEF Place
<1>7. FindClosingParen(input, pos) = Good(close, next)
  BY <1>1, <1>2, <1>5, ClosesThere
<1>8. Stands(p, input, pos + 1)
  <2>1. ASSUME NEW k \in 1..n PROVE input[(pos + 1) + k - 1] = p[k]
    <3>1. k + 1 \in 1..Len(w) /\ (pos + 1) + k - 1 = pos + (k + 1) - 1
      BY <1>3, <1>4
    <3>. QED
      BY <1>3, <1>4, <3>1
  <2>. QED
    BY <1>2, <1>6, <2>1 DEF Stands
<1>9. SubSeq(input, pos + 1, close - 1) = p
  <2>1. SubSeq(input, pos + 1, (pos + 1) + n - 1) = p
    BY <1>2, <1>8, StandsCut
  <2>. QED
    BY <1>6, <2>1
<1>10. input[pos] = "("
  BY <1>3, <1>4, <1>6
<1>11. LexToken(input, pos) = Good(Token("Param", p, pos), next)
  BY ZenonT(60), <1>7, <1>9, <1>10, TokenOfParameter
<1>12. input[pos] \notin Whitespace
  BY <1>10 DEF Whitespace, Newline
<1>. QED
  BY <1>6, <1>11, <1>12, LexesToken

-----------------------------------------------------------------------------
(* Strings.                                                                *)

\* Of w between quotes the bytes s are read, in front of what is behind it.
Yields(w, s) ==
    \A input \in Text : \A start \in Nat : \A pos \in Place : \A v \in Text : \A next :
        Stands(w, input, pos) /\ StringFrom(input, start)[pos + Len(w)] = Good(v, next)
            => StringFrom(input, start)[pos] = Good(s \o v, next)

LEMMA ByteThen ==
    ASSUME NEW input \in Text, NEW start \in Nat, NEW pos \in Place, pos \in 1..Len(input),
           input[pos] # Quote, NEW b, NEW m, LexByte(input, start, pos) = Good(b, m),
           NEW v, NEW next, StringFrom(input, start)[m] = Good(v, next)
    PROVE  StringFrom(input, start)[pos] = Good(<<b>> \o v, next)
<1>1. ~(pos > Len(input))
  BY DEF Place, Text
<1>2. PICK byte, r : byte = Good(b, m) /\ r = Good(v, next)
  OBVIOUS
<1>3. ~Failed(byte) /\ byte.value = b /\ byte.next = m
      /\ ~Failed(r) /\ r.value = v /\ r.next = next
  BY <1>2, Results
<1>4. StringFrom(input, start)[pos] = Before(b, r)
  <2>1. StringFrom(input, start)[pos] = StringStep(StringFrom(input, start), input, start, pos)
    BY StringFromIs
  <2>2. LexByte(input, start, pos) = byte /\ StringFrom(input, start)[m] = r
    BY <1>2
  <2>. QED
    BY <1>1, <1>3, <2>1, <2>2 DEF StringStep, Then
<1>. QED
  BY <1>3, <1>4, BeforeGives

LEMMA QuotesAre ==
    /\ Quote # Backslash /\ Quote \notin Controls /\ Backslash \notin Controls
    /\ Quote \in DOMAIN Escapes /\ Backslash \in DOMAIN Escapes
    /\ Escapes[Quote] = Quote /\ Escapes[Backslash] = Backslash
    /\ \A b \in Controls : HexOf[b] \in TwoDigits /\ HexByte[HexOf[b]] = b
BY DEF Quote, Backslash, Controls, Bell, Newline, Escapes, HexOf, HexByte, TwoDigits

LEMMA EscapedIs ==
    ASSUME NEW b
    PROVE  /\ b \in {Quote, Backslash} => Escaped(b) = <<Backslash, b>>
           /\ b \in Controls => Escaped(b) = <<Backslash, "x", HexOf[b]>>
           /\ b \notin {Quote, Backslash} /\ b \notin Controls => Escaped(b) = <<b>>
BY QuotesAre DEF Escaped

\* Two, and three, glyphs that stand somewhere.
LEMMA StandsTwo ==
    ASSUME NEW g, NEW h, NEW input \in Text, NEW pos, Stands(<<g, h>>, input, pos)
    PROVE  /\ pos \in Place /\ pos \in 1..Len(input) /\ pos + 1 <= Len(input)
           /\ input[pos] = g /\ input[pos + 1] = h /\ pos + Len(<<g, h>>) = pos + 2
<1>1. PICK w : w = <<g, h>>
  OBVIOUS
<1>2. Len(<<g, h>>) = 2 /\ <<g, h>>[1] = g /\ <<g, h>>[2] = h
  OBVIOUS
<1>3. PICK n : n = Len(w)
  OBVIOUS
<1>4. n = 2 /\ w[1] = g /\ w[2] = h
  BY <1>1, <1>2, <1>3
<1>5. pos \in Place /\ pos + n <= Len(input) + 1 /\ \A k \in 1..n : input[pos + k - 1] = w[k]
  BY <1>1, <1>3 DEF Stands
<1>6. pos \in Nat /\ pos >= 1 /\ Len(input) \in Nat
  BY <1>5 DEF Place, Text
<1>7. /\ pos \in 1..Len(input) /\ pos + 1 <= Len(input) /\ pos + 1 - 1 = pos
      /\ pos + 2 - 1 = pos + 1 /\ 1 \in 1..n /\ 2 \in 1..n
  BY <1>4, <1>5, <1>6
<1>8. input[pos] = g /\ input[pos + 1] = h
  BY <1>4, <1>5, <1>7
<1>. QED
  BY <1>1, <1>3, <1>4, <1>5, <1>7, <1>8

LEMMA StandsThree ==
    ASSUME NEW g, NEW h, NEW k, NEW input \in Text, NEW pos, Stands(<<g, h, k>>, input, pos)
    PROVE  /\ pos \in Place /\ pos \in 1..Len(input) /\ pos + 2 <= Len(input)
           /\ input[pos] = g /\ input[pos + 1] = h /\ input[pos + 2] = k
           /\ pos + Len(<<g, h, k>>) = pos + 3
<1>1. PICK w : w = <<g, h, k>>
  OBVIOUS
<1>2. Len(<<g, h, k>>) = 3 /\ <<g, h, k>>[1] = g /\ <<g, h, k>>[2] = h /\ <<g, h, k>>[3] = k
  OBVIOUS
<1>3. PICK n : n = Len(w)
  OBVIOUS
<1>4. n = 3 /\ w[1] = g /\ w[2] = h /\ w[3] = k
  BY <1>1, <1>2, <1>3
<1>5. pos \in Place /\ pos + n <= Len(input) + 1 /\ \A j \in 1..n : input[pos + j - 1] = w[j]
  BY <1>1, <1>3 DEF Stands
<1>6. pos \in Nat /\ pos >= 1 /\ Len(input) \in Nat
  BY <1>5 DEF Place, Text
<1>7. /\ pos \in 1..Len(input) /\ pos + 2 <= Len(input) /\ pos + 1 - 1 = pos
      /\ pos + 2 - 1 = pos + 1 /\ pos + 3 - 1 = pos + 2 /\ 1 \in 1..n /\ 2 \in 1..n /\ 3 \in 1..n
  BY <1>4, <1>5, <1>6
<1>8. input[pos] = g /\ input[pos + 1] = h /\ input[pos + 2] = k
  BY <1>4, <1>5, <1>7
<1>. QED
  BY <1>1, <1>3, <1>4, <1>5, <1>7, <1>8

LEMMA YieldsByte ==
    ASSUME NEW b \in Glyph
    PROVE  Yields(Escaped(b), <<b>>)
<1>1. PICK w : w = Escaped(b)
  OBVIOUS
<1>. SUFFICES ASSUME NEW input \in Text, NEW start \in Nat, NEW pos \in Place, NEW v \in Text, NEW next,
                     Stands(w, input, pos),
                     StringFrom(input, start)[pos + Len(w)] = Good(v, next)
              PROVE  StringFrom(input, start)[pos] = Good(<<b>> \o v, next)
  BY <1>1 DEF Yields
<1>2. CASE b \in {Quote, Backslash}
  <2>1. w = <<Backslash, b>>
    BY <1>1, <1>2, EscapedIs
  <2>2. /\ pos \in 1..Len(input) /\ pos + 1 <= Len(input)
        /\ input[pos] = Backslash /\ input[pos + 1] = b /\ pos + Len(w) = pos + 2
    BY <2>1, StandsTwo
  <2>3. EscapeAt(input, pos) /\ Escapes[b] = b /\ input[pos] # Quote
    BY <1>2, <2>2, QuotesAre DEF EscapeAt
  <2>4. LexByte(input, start, pos) = Good(b, pos + 2)
    BY <2>2, <2>3, ByteIs
  <2>. QED
    BY <2>2, <2>3, <2>4, ByteThen
<1>3. CASE b \in Controls
  <2>1. w = <<Backslash, "x", HexOf[b]>>
    BY <1>1, <1>3, EscapedIs
  <2>2. /\ pos \in 1..Len(input) /\ pos + 2 <= Len(input) /\ input[pos] = Backslash
        /\ input[pos + 1] = "x" /\ input[pos + 2] = HexOf[b] /\ pos + Len(w) = pos + 3
    BY <2>1, StandsThree
  <2>3. HexAt(input, pos) /\ HexByte[input[pos + 2]] = b /\ input[pos] # Quote
    BY <1>3, <2>2, QuotesAre DEF HexAt
  <2>4. LexByte(input, start, pos) = Good(b, pos + 3)
    BY <2>2, <2>3, ByteIs
  <2>. QED
    BY <2>2, <2>3, <2>4, ByteThen
<1>4. CASE b \notin {Quote, Backslash} /\ b \notin Controls
  <2>1. w = <<b>>
    BY <1>1, <1>4, EscapedIs
  <2>2. pos \in 1..Len(input) /\ input[pos] = b /\ pos + Len(w) = pos + 1
    BY <2>1, StandsOne
  <2>3. PlainAt(input, pos) /\ input[pos] # Quote
    BY <1>4, <2>2 DEF PlainAt
  <2>4. LexByte(input, start, pos) = Good(b, pos + 1)
    BY <2>2, <2>3, ByteIs
  <2>. QED
    BY <2>2, <2>3, <2>4, ByteThen
<1>. QED
  BY <1>2, <1>3, <1>4

LEMMA YieldsThen ==
    ASSUME NEW a \in Text, NEW b \in Text, NEW s \in Text, NEW u \in Text, Yields(a, s), Yields(b, u)
    PROVE  Yields(a \o b, s \o u)
<1>1. PICK w : w = a \o b
  OBVIOUS
<1>. SUFFICES ASSUME NEW input \in Text, NEW start \in Nat, NEW pos \in Place, NEW v \in Text, NEW next,
                     Stands(w, input, pos),
                     StringFrom(input, start)[pos + Len(w)] = Good(v, next)
              PROVE  StringFrom(input, start)[pos] = Good((s \o u) \o v, next)
  BY <1>1 DEF Yields
<1>2. PICK m : m = pos + Len(a)
  OBVIOUS
<1>3. Stands(a, input, pos) /\ Stands(b, input, m) /\ pos + Len(w) = m + Len(b) /\ m \in Place
  BY <1>1, <1>2, StandsApart
<1>4. StringFrom(input, start)[m + Len(b)] = Good(v, next)
  BY <1>3
<1>5. StringFrom(input, start)[m] = Good(u \o v, next)
  BY <1>3, <1>4 DEF Yields
<1>6. u \o v \in Text
  BY TextTyped
<1>7. StringFrom(input, start)[pos] = Good(s \o (u \o v), next)
  BY <1>2, <1>3, <1>5, <1>6 DEF Yields
<1>8. s \o (u \o v) = (s \o u) \o v
  BY SMTT(30) DEF Text
<1>. QED
  BY <1>7, <1>8

LEMMA YieldsNothing == Yields(<<>>, <<>>)
<1>. SUFFICES ASSUME NEW input \in Text, NEW start \in Nat, NEW pos \in Place, NEW v \in Text, NEW next,
                     StringFrom(input, start)[pos + Len(<<>>)] = Good(v, next)
              PROVE  StringFrom(input, start)[pos] = Good(<<>> \o v, next)
  BY DEF Yields
<1>1. pos + Len(<<>>) = pos
  BY DEF Place
<1>2. <<>> \o v = v
  BY DEF Text
<1>. QED
  BY <1>1, <1>2

\* The bytes between the quotes.
LEMMA YieldsBytes ==
    ASSUME NEW bytes \in Text
    PROVE  Yields(FlattenSeq(Escapeds(bytes)), bytes)
<1>. DEFINE T == {s \in Text : Yields(FlattenSeq(Escapeds(s)), s)}
<1>1. <<>> \in T
  <2>1. <<>> \in Text
    BY EmptySeq DEF Text
  <2>2. Escapeds(<<>>) = <<>>
    BY <2>1, EscapedsTyped, EmptySeq
  <2>. QED
    BY <2>1, <2>2, FlattenNone, YieldsNothing
<1>2. ASSUME NEW s \in Seq(Glyph), NEW b \in Glyph, s \in T PROVE Append(s, b) \in T
  <2>1. PICK x : x = Append(s, b)
    OBVIOUS
  <2>2. s \in Text /\ x \in Text /\ x = s \o <<b>> /\ <<b>> \in Text
    <3>1. s \in Text /\ x \in Text
      BY <2>1 DEF Text
    <3>2. Append(s, b) = s \o <<b>>
      BY AppendIsConcat
    <3>. QED
      BY <2>1, <3>1, <3>2, GlyphTyped
  <2>3. Len(x) = Len(s) + 1 /\ Len(s) \in Nat /\ x[Len(s) + 1] = b
        /\ \A i \in 1..Len(s) : x[i] = s[i]
    BY <2>1
  <2>4. /\ Escapeds(s) \in Seq(Text) /\ Len(Escapeds(s)) = Len(s)
        /\ Escapeds(x) \in Seq(Text) /\ Len(Escapeds(x)) = Len(s) + 1 /\ Escaped(b) \in Text
    BY <2>2, <2>3, EscapedsTyped, EscapedTyped
  <2>5. Escapeds(x) = Append(Escapeds(s), Escaped(b))
    <3>1. PICK y : y = Append(Escapeds(s), Escaped(b))
      OBVIOUS
    <3>2. PICK e : e = Escapeds(s)
      OBVIOUS
    <3>3. PICK c : c = Escaped(b)
      OBVIOUS
    <3>4. y = Append(e, c) /\ e \in Seq(Text) /\ c \in Text /\ Len(e) = Len(s)
      BY <2>4, <3>1, <3>2, <3>3
    <3>5. y \in Seq(Text) /\ Len(y) = Len(s) + 1 /\ y[Len(s) + 1] = c
          /\ \A i \in 1..Len(s) : y[i] = e[i]
      BY <2>3, <3>4
    <3>6. ASSUME NEW i \in 1..Len(s) + 1 PROVE Escapeds(x)[i] = y[i]
      <4>1. i \in DOMAIN x
        BY <2>2, <2>3 DEF Text
      <4>2. Escapeds(x)[i] = Escaped(x[i])
        BY <4>1 DEF Escapeds
      <4>3. CASE i = Len(s) + 1
        BY <2>3, <3>3, <3>5, <4>2, <4>3
      <4>4. CASE i # Len(s) + 1
        <5>1. i \in 1..Len(s) /\ i \in DOMAIN s
          BY <2>3, <4>4
        <5>2. e[i] = Escaped(s[i])
          BY <3>2, <5>1 DEF Escapeds
        <5>. QED
          BY <2>3, <3>5, <4>2, <5>1, <5>2
      <4>. QED
        BY <4>3, <4>4
    <3>7. Escapeds(x) = y
      BY <2>4, <3>5, <3>6, SeqEqual
    <3>. QED
      BY <3>1, <3>7
  <2>6. FlattenSeq(Escapeds(x)) = FlattenSeq(Escapeds(s)) \o Escaped(b)
    <3>1. Escapeds(s) \in Seq(Seq(Glyph)) /\ Escaped(b) \in Seq(Glyph)
      BY <2>4 DEF Text
    <3>. QED
      BY <2>5, <3>1, FlattenMore
  <2>7. FlattenSeq(Escapeds(s)) \in Text
    BY <2>2, WriteQuotedTyped
  <2>8. Yields(FlattenSeq(Escapeds(s)) \o Escaped(b), s \o <<b>>)
    BY <1>2, <2>2, <2>4, <2>7, YieldsByte, YieldsThen
  <2>. QED
    BY <2>1, <2>2, <2>6, <2>8
<1>3. Seq(Glyph) \subseteq T
  <2>. HIDE DEF T
  <2>. QED
    BY <1>1, <1>2, AppendInduction
<1>. QED
  BY <1>3 DEF Text

LEMMA LeadsString ==
    ASSUME NEW s \in Text
    PROVE  Leads(WriteQuoted(s), <<P("Str", s)>>)
<1>1. PICK e, q : e = FlattenSeq(Escapeds(s)) /\ q = <<Quote>>
  OBVIOUS
<1>2. PICK w : w = (q \o e) \o q
  OBVIOUS
<1>3. e \in Text /\ w = WriteQuoted(s) /\ w \in Text /\ q \in Text /\ q \o e \in Text
  <2>1. e \in Text /\ w = WriteQuoted(s) /\ w \in Text
    BY <1>1, <1>2, WriteQuotedTyped
  <2>2. q \in Text
    BY <1>1, WrittenGlyphs, GlyphTyped
  <2>. QED
    BY <2>1, <2>2, TextTyped
<1>. SUFFICES ASSUME NEW input \in Text, NEW pos \in Place, NEW rest \in Seq(Piece),
                     Stands(w, input, pos), LexesTo(input, pos + Len(w), rest)
              PROVE  LexesTo(input, pos, <<P("Str", s)>> \o rest)
  BY <1>3 DEF Leads
<1>4. PICK m : m = pos + Len(q \o e)
  OBVIOUS
<1>5. Stands(q \o e, input, pos) /\ Stands(q, input, m) /\ pos + Len(w) = m + Len(q)
  <2>1. PICK c : c = q \o e
    OBVIOUS
  <2>2. c \in Text /\ Stands(c \o q, input, pos) /\ w = c \o q /\ m = pos + Len(c)
    BY <1>2, <1>3, <1>4, <2>1
  <2>3. Stands(c, input, pos) /\ Stands(q, input, pos + Len(c))
        /\ pos + Len(c \o q) = (pos + Len(c)) + Len(q)
    BY <1>3, <2>2, StandsApart
  <2>. QED
    BY <2>1, <2>2, <2>3
<1>6. /\ m \in Place /\ m \in 1..Len(input) /\ ~(m > Len(input)) /\ input[m] = Quote
      /\ m + Len(q) = m + 1
  BY <1>1, <1>5, StandsOne
<1>7. /\ Stands(q, input, pos) /\ Stands(e, input, pos + Len(q))
      /\ m = (pos + Len(q)) + Len(e)
  BY <1>3, <1>4, <1>5, StandsApart
<1>8. /\ pos <= Len(input) /\ input[pos] = Quote /\ pos + Len(q) = pos + 1 /\ pos \in Nat
      /\ pos + 1 \in Place
  BY <1>1, <1>7, StandsOne
<1>9. StringFrom(input, pos)[m] = Good(<<>>, m + 1)
  <2>1. StringFrom(input, pos)[m] = StringStep(StringFrom(input, pos), input, pos, m)
    BY <1>6, <1>8, StringFromIs
  <2>. QED
    BY <1>6, <2>1 DEF StringStep
<1>10. StringFrom(input, pos)[pos + 1] = Good(s \o <<>>, m + 1)
  <2>1. Yields(e, s)
    BY <1>1, YieldsBytes
  <2>2. <<>> \in Text
    BY EmptySeq DEF Text
  <2>3. PICK o : o = pos + 1
    OBVIOUS
  <2>4. Stands(e, input, o) /\ m = o + Len(e) /\ o \in Place
    BY <1>7, <1>8, <2>3
  <2>5. StringFrom(input, pos)[o + Len(e)] = Good(<<>>, m + 1)
    BY <1>9, <2>4
  <2>6. ASSUME NEW v \in Text, NEW next, StringFrom(input, pos)[o + Len(e)] = Good(v, next)
        PROVE  StringFrom(input, pos)[o] = Good(s \o v, next)
    BY <1>8, <2>1, <2>4, <2>6 DEF Yields
  <2>7. StringFrom(input, pos)[o] = Good(s \o <<>>, m + 1)
    BY <2>2, <2>5, <2>6
  <2>. QED
    BY <2>3, <2>7
<1>11. s \o <<>> = s
  BY DEF Text
<1>12. LexString(input, pos) = Good(s, m + 1)
  BY <1>8, <1>10, <1>11, StringFromIs
<1>13. LexToken(input, pos) = Good(Token("Str", s, pos), m + 1)
  BY <1>8, <1>12, TokenOfString
<1>14. input[pos] \notin Whitespace
  BY <1>8 DEF Whitespace, Newline, Quote
<1>15. LexesTo(input, m + 1, rest)
  BY <1>5, <1>6
<1>. QED
  BY <1>8, <1>13, <1>14, <1>15, LexesToken

-----------------------------------------------------------------------------
(* Pieces with blanks between them.                                        *)

LEMMA FlattenOne ==
    ASSUME NEW S, NEW piece \in Seq(S)
    PROVE  FlattenSeq(<<piece>>) = piece
<1>1. Append(<<>>, piece) = <<piece>> /\ <<>> \in Seq(Seq(S)) /\ <<>> \o piece = piece
  OBVIOUS
<1>2. FlattenSeq(Append(<<>>, piece)) = FlattenSeq(<<>>) \o piece
  BY <1>1, FlattenMore
<1>. QED
  BY <1>1, <1>2, FlattenNone

LEMMA FlattenConcat ==
    ASSUME NEW S, NEW a \in Seq(Seq(S)), NEW b \in Seq(Seq(S))
    PROVE  FlattenSeq(a \o b) = FlattenSeq(a) \o FlattenSeq(b)
<1>. DEFINE T == {c \in Seq(Seq(S)) : FlattenSeq(a \o c) = FlattenSeq(a) \o FlattenSeq(c)}
<1>1. FlattenSeq(a) \in Seq(S)
  BY FlattenTyped
<1>2. <<>> \in T
  <2>1. a \o <<>> = a /\ FlattenSeq(a) \o <<>> = FlattenSeq(a) /\ <<>> \in Seq(Seq(S))
    BY <1>1
  <2>. QED
    BY <2>1, FlattenNone
<1>3. ASSUME NEW c \in Seq(Seq(S)), NEW x \in Seq(S), c \in T PROVE Append(c, x) \in T
  <2>1. Append(c, x) \in Seq(Seq(S)) /\ a \o Append(c, x) = Append(a \o c, x) /\ a \o c \in Seq(Seq(S))
    BY SMTT(30)
  <2>2. FlattenSeq(Append(a \o c, x)) = FlattenSeq(a \o c) \o x
    BY <2>1, FlattenMore
  <2>3. FlattenSeq(Append(c, x)) = FlattenSeq(c) \o x
    BY FlattenMore
  <2>4. FlattenSeq(a \o c) = FlattenSeq(a) \o FlattenSeq(c) /\ FlattenSeq(c) \in Seq(S)
    BY <1>3, FlattenTyped
  <2>5. PICK f, g : f = FlattenSeq(a) /\ g = FlattenSeq(c)
    OBVIOUS
  <2>6. (f \o g) \o x = f \o (g \o x)
    BY SMTT(30), <1>1, <2>4, <2>5
  <2>. QED
    BY <2>1, <2>2, <2>3, <2>4, <2>5, <2>6
<1>. HIDE DEF T
<1>4. Seq(Seq(S)) \subseteq T
  BY <1>2, <1>3, AppendInduction
<1>. QED
  BY <1>4 DEF T

LEMMA Two ==
    ASSUME NEW S, NEW p \in S, NEW q \in S
    PROVE  <<p>> \o <<q>> = <<p, q>>
<1>1. PICK a : a = <<p>>
  OBVIOUS
<1>2. a \in Seq(S) /\ Len(a) = 1 /\ a[1] = p
  BY <1>1
<1>3. PICK b, c : b = Append(a, q) /\ c = <<p, q>>
  OBVIOUS
<1>4. b \in Seq(S) /\ Len(b) = 2 /\ b[1] = p /\ b[2] = q
  <2>1. PICK n : n = Len(a)
    OBVIOUS
  <2>2. n = 1 /\ n + 1 = 2 /\ 1 \in 1..n
    BY <1>2, <2>1
  <2>3. a \in Seq(S) /\ b = Append(a, q)
    BY <1>2, <1>3
  <2>4. /\ b \in Seq(S) /\ Len(b) = Len(a) + 1 /\ b[Len(a) + 1] = q
        /\ \A i \in 1..Len(a) : b[i] = a[i]
    BY <2>3, AppendProperties
  <2>. QED
    BY <1>2, <2>1, <2>2, <2>4
<1>5. c \in Seq(S) /\ Len(c) = 2 /\ c[1] = p /\ c[2] = q
  BY <1>3
<1>6. \A i \in 1..2 : b[i] = c[i]
  BY <1>4, <1>5
<1>7. b = c
  BY <1>4, <1>5, <1>6, SeqEqual
<1>8. Append(a, q) = a \o <<q>>
  BY <1>2, AppendIsConcat
<1>. QED
  BY <1>1, <1>3, <1>7, <1>8

\* Of each text the lexer reads the tokens at the same place.
Matching(p, t) ==
    /\ p \in Seq(Text) /\ t \in Seq(Seq(Piece)) /\ Len(p) = Len(t)
    /\ \A i \in 1..Len(p) : Reads(p[i], t[i])

LEMMA MatchingNothing == Matching(<<>>, <<>>)
BY DEF Matching

LEMMA MatchingOne ==
    ASSUME NEW w \in Text, NEW x \in Seq(Piece), Reads(w, x)
    PROVE  Matching(<<w>>, <<x>>)
<1>1. PICK p, t : p = <<w>> /\ t = <<x>>
  OBVIOUS
<1>2. /\ p \in Seq(Text) /\ t \in Seq(Seq(Piece)) /\ Len(p) = 1 /\ Len(t) = 1
      /\ p[1] = w /\ t[1] = x
  BY <1>1
<1>3. \A i \in 1..Len(p) : i = 1
  BY <1>2
<1>. QED
  BY <1>1, <1>2, <1>3 DEF Matching

LEMMA MatchingConcat ==
    ASSUME NEW p, NEW t, NEW q, NEW u, Matching(p, t), Matching(q, u)
    PROVE  Matching(p \o q, t \o u)
<1>1. /\ p \in Seq(Text) /\ t \in Seq(Seq(Piece)) /\ Len(p) = Len(t)
      /\ \A i \in 1..Len(p) : Reads(p[i], t[i])
      /\ q \in Seq(Text) /\ u \in Seq(Seq(Piece)) /\ Len(q) = Len(u)
      /\ \A i \in 1..Len(q) : Reads(q[i], u[i])
  BY DEF Matching
<1>2. PICK a, b, n, m : a = p \o q /\ b = t \o u /\ n = Len(p) /\ m = Len(q)
  OBVIOUS
<1>3. /\ a \in Seq(Text) /\ b \in Seq(Seq(Piece)) /\ Len(a) = n + m /\ Len(b) = n + m
      /\ n \in Nat /\ m \in Nat
      /\ \A i \in 1..n + m : a[i] = IF i <= n THEN p[i] ELSE q[i - n]
      /\ \A i \in 1..n + m : b[i] = IF i <= n THEN t[i] ELSE u[i - n]
  BY <1>1, <1>2
<1>4. ASSUME NEW i \in 1..n + m PROVE Reads(a[i], b[i])
  <2>1. CASE i <= n
    <3>1. i \in 1..n
      BY <1>3, <2>1
    <3>. QED
      BY <1>1, <1>2, <1>3, <2>1, <3>1
  <2>2. CASE ~(i <= n)
    <3>1. PICK k : k = i - n
      OBVIOUS
    <3>2. k \in 1..m
      BY <1>3, <2>2, <3>1
    <3>3. a[i] = q[k] /\ b[i] = u[k]
      BY <1>3, <2>2, <3>1
    <3>. QED
      BY <1>1, <1>2, <3>2, <3>3
  <2>. QED
    BY <2>1, <2>2
<1>. QED
  BY <1>2, <1>3, <1>4 DEF Matching

\* One piece less.
LEMMA MatchingLess ==
    ASSUME NEW p \in Seq(Text), NEW w \in Text, NEW t, Matching(Append(p, w), t)
    PROVE  \E u \in Seq(Seq(Piece)), x \in Seq(Piece) :
              t = Append(u, x) /\ Matching(p, u) /\ Reads(w, x)
<1>1. PICK a : a = Append(p, w)
  OBVIOUS
<1>2. /\ a \in Seq(Text) /\ Len(a) = Len(p) + 1 /\ Len(p) \in Nat /\ a[Len(p) + 1] = w
      /\ \A i \in 1..Len(p) : a[i] = p[i]
  BY <1>1
<1>3. t \in Seq(Seq(Piece)) /\ Len(a) = Len(t) /\ \A i \in 1..Len(a) : Reads(a[i], t[i])
  BY <1>1 DEF Matching
<1>4. t # <<>>
  <2>1. Len(t) # 0
    BY <1>2, <1>3
  <2>. QED
    BY <2>1
<1>5. PICK u \in Seq(Seq(Piece)), x \in Seq(Piece) : t = Append(u, x)
  BY <1>3, <1>4, SequenceEmptyOrAppend
<1>6. /\ Len(t) = Len(u) + 1 /\ Len(u) \in Nat /\ t[Len(u) + 1] = x
      /\ \A i \in 1..Len(u) : t[i] = u[i]
  BY <1>5
<1>7. Len(u) = Len(p)
  BY <1>2, <1>3, <1>6
<1>8. ASSUME NEW i \in 1..Len(p) PROVE Reads(p[i], u[i])
  <2>1. i \in 1..Len(a)
    BY <1>2
  <2>. QED
    BY <1>2, <1>3, <1>6, <1>7, <2>1
<1>9. Reads(w, x)
  <2>1. PICK n : n = Len(p) + 1
    OBVIOUS
  <2>2. n \in 1..Len(a)
    BY <1>2, <2>1
  <2>. QED
    BY <1>2, <1>3, <1>6, <1>7, <2>1, <2>2
<1>10. Matching(p, u)
  BY <1>7, <1>8 DEF Matching
<1>. QED
  BY <1>5, <1>9, <1>10

LEMMA ReadsNothing == Reads(<<>>, <<>>)
<1>. SUFFICES ASSUME NEW input \in Text, NEW pos \in Place, NEW rest \in Seq(Piece),
                     LexesTo(input, pos + Len(<<>>), rest)
              PROVE  LexesTo(input, pos, <<>> \o rest)
  BY DEF Reads
<1>1. pos + Len(<<>>) = pos
  BY DEF Place
<1>2. <<>> \o rest = rest
  OBVIOUS
<1>. QED
  BY <1>1, <1>2

LEMMA SpacedNothing == Spaced(<<>>) = <<>>
<1>1. Behind(" ", <<>>) = <<>>
  BY DEF Behind
<1>. QED
  BY <1>1, FlattenNone DEF Spaced, Joined, Behind

LEMMA SpacedTyped ==
    ASSUME NEW p \in Seq(Text)
    PROVE  Spaced(p) \in Text
BY BlankIs, JoinedTyped DEF Spaced

LEMMA SpacedMore ==
    ASSUME NEW p \in Seq(Text), NEW w \in Text
    PROVE  /\ p = <<>> => Spaced(Append(p, w)) = w
           /\ p # <<>> => Spaced(Append(p, w)) = Spaced(p) \o (<<" ">> \o w)
BY BlankIs, JoinedMore DEF Spaced

\* The pieces are read one by one.
LEMMA ReadsSpaced ==
    ASSUME NEW p, NEW t, Matching(p, t)
    PROVE  Reads(Spaced(p), FlattenSeq(t))
<1>. DEFINE T == {q \in Seq(Text) : \A u : Matching(q, u) => Reads(Spaced(q), FlattenSeq(u))}
<1>1. <<>> \in T
  <2>1. ASSUME NEW u, Matching(<<>>, u) PROVE u = <<>>
    BY <2>1 DEF Matching
  <2>2. <<>> \in Seq(Text)
    OBVIOUS
  <2>. QED
    BY <2>1, <2>2, SpacedNothing, FlattenNone, ReadsNothing
<1>2. ASSUME NEW q \in Seq(Text), NEW w \in Text, q \in T PROVE Append(q, w) \in T
  <2>1. SUFFICES ASSUME NEW u, Matching(Append(q, w), u)
                 PROVE  Reads(Spaced(Append(q, w)), FlattenSeq(u))
    <3>1. Append(q, w) \in Seq(Text)
      OBVIOUS
    <3>. QED
      BY <2>1, <3>1
  <2>2. PICK v \in Seq(Seq(Piece)), x \in Seq(Piece) :
            u = Append(v, x) /\ Matching(q, v) /\ Reads(w, x)
    BY <2>1, MatchingLess
  <2>3. Reads(Spaced(q), FlattenSeq(v))
    BY <1>2, <2>2
  <2>4. FlattenSeq(u) = FlattenSeq(v) \o x
    BY <2>2, FlattenMore
  <2>5. CASE q = <<>>
    <3>1. v = <<>>
      BY <2>2, <2>5 DEF Matching
    <3>2. FlattenSeq(u) = x
      BY <2>4, <3>1, FlattenNone
    <3>. QED
      BY <2>2, <2>5, <3>2, SpacedMore
  <2>6. CASE q # <<>>
    <3>1. Spaced(Append(q, w)) = Spaced(q) \o (<<" ">> \o w)
      BY <2>6, SpacedMore
    <3>2. Spaced(q) \in Text /\ FlattenSeq(v) \in Seq(Piece)
      BY SpacedTyped, FlattenTyped
    <3>3. Reads(Spaced(q) \o (<<" ">> \o w), FlattenSeq(v) \o x)
      BY <2>2, <2>3, <3>2, ReadsBlank
    <3>. QED
      BY <2>4, <3>1, <3>3
  <2>. QED
    BY <2>5, <2>6
<1>3. p \in Seq(Text)
  BY DEF Matching
<1>. HIDE DEF T
<1>4. Seq(Text) \subseteq T
  BY <1>1, <1>2, AppendInduction
<1>. QED
  BY <1>3, <1>4 DEF T

-----------------------------------------------------------------------------
(* The tokens of what the renderer writes.                                 *)

Word(w) == P("Word", w)
OpenBrace == P("{", <<>>)
CloseBrace == P("}", <<>>)

\* The keywords are words.
Keywords ==
    {"if"} \cup RuleTarget \cup AttributeName \cup SetOperator \cup ConditionName

LEMMA KeywordsAre == Keywords \subseteq Glyph /\ \A k \in Keywords : k \notin Delimiters
<1>1. Keywords \subseteq Glyph
  BY WrittenGlyphs DEF Keywords
<1>2. "if" \notin Delimiters
  BY DEF Delimiters, Whitespace, Newline, Quote
<1>3. \A k \in RuleTarget : k \notin Delimiters
  BY DEF Delimiters, Whitespace, Newline, Quote, RuleTarget
<1>4. \A k \in AttributeName : k \notin Delimiters
  BY DEF Delimiters, Whitespace, Newline, Quote, AttributeName, StringAttributes
<1>5. \A k \in SetOperator : k \notin Delimiters
  BY DEF Delimiters, Whitespace, Newline, Quote, SetOperator
<1>6. \A k \in ConditionName : k \notin Delimiters
  BY DEF Delimiters, Whitespace, Newline, Quote, ConditionName
<1>. QED
  BY <1>1, <1>2, <1>3, <1>4, <1>5, <1>6 DEF Keywords

LEMMA PieceIs ==
    ASSUME NEW kind \in TokenKind, NEW s \in Text
    PROVE  P(kind, s) \in Piece /\ <<P(kind, s)>> \in Seq(Piece)
<1>1. P(kind, s) \in Piece
  BY DEF P, Piece
<1>. QED
  BY <1>1

LEMMA KindsAre == {"{", "}", "!", "Comment", "Str", "Param", "Word", "End"} \subseteq TokenKind
BY DEF TokenKind

LEMMA WordIs ==
    ASSUME NEW w \in Text
    PROVE  Word(w) \in Piece /\ <<Word(w)>> \in Seq(Piece)
BY PieceIs, KindsAre DEF Word

LEMMA BracesAre ==
    /\ OpenBrace \in Piece /\ <<OpenBrace>> \in Seq(Piece) /\ CloseBrace \in Piece /\ <<CloseBrace>> \in Seq(Piece)
    /\ P("!", <<>>) \in Piece /\ <<P("!", <<>>)>> \in Seq(Piece)
<1>1. <<>> \in Text
  BY EmptySeq DEF Text
<1>2. "{" \in TokenKind /\ "}" \in TokenKind /\ "!" \in TokenKind
  BY KindsAre
<1>. QED
  BY <1>1, <1>2, PieceIs DEF OpenBrace, CloseBrace

\* A word of one glyph.
LEMMA ReadsGlyph ==
    ASSUME NEW g \in Glyph, g \notin Delimiters
    PROVE  <<g>> \in Text /\ Reads(<<g>>, <<Word(<<g>>)>>)
<1>1. PICK w : w = <<g>>
  OBVIOUS
<1>2. w \in Text
  BY <1>1, GlyphTyped
<1>3. Len(w) = 1 /\ w[1] = g /\ w # <<>>
  BY <1>1
<1>4. \A k \in 1..Len(w) : w[k] = g
  BY <1>3
<1>5. AWord(w)
  BY <1>2, <1>3, <1>4 DEF AWord
<1>6. Reads(w, <<P("Word", w)>>)
  BY <1>5, ReadsWord
<1>. QED
  BY <1>1, <1>2, <1>6 DEF Word

LEMMA ReadsKeyword ==
    ASSUME NEW k \in Keywords
    PROVE  <<k>> \in Text /\ Reads(<<k>>, <<Word(<<k>>)>>)
BY KeywordsAre, ReadsGlyph

LEMMA ReadsOpen == Reads(<<"{">>, <<OpenBrace>>) /\ Reads(<<"}">>, <<CloseBrace>>)
BY LeadsBrace, LeadsReads DEF OpenBrace, CloseBrace

-----------------------------------------------------------------------------
(* Values.                                                                 *)

\* The tokens of a value.
ValueSpec(name, v) ==
    IF name \in StringAttributes THEN <<P("Str", v[1])>> ELSE <<Word(Joined(":", v))>>

LEMMA WordsTogether ==
    ASSUME NEW a, NEW b, AWord(a), b \in Text, \A k \in 1..Len(b) : b[k] \notin Delimiters
    PROVE  AWord(a \o b)
<1>1. PICK w, n, m : w = a \o b /\ n = Len(a) /\ m = Len(b)
  OBVIOUS
<1>2. a \in Text /\ a # <<>> /\ \A k \in 1..n : a[k] \notin Delimiters
  BY <1>1 DEF AWord
<1>3. /\ w \in Text /\ Len(w) = n + m /\ n \in Nat /\ m \in Nat /\ n # 0
      /\ \A k \in 1..n + m : w[k] = IF k <= n THEN a[k] ELSE b[k - n]
  BY <1>1, <1>2 DEF Text
<1>4. w # <<>>
  <2>1. n + m # 0
    BY <1>3
  <2>. QED
    BY <1>3, <2>1
<1>5. ASSUME NEW k \in 1..n + m PROVE w[k] \notin Delimiters
  <2>1. CASE k <= n
    <3>1. k \in 1..n
      BY <1>3, <2>1
    <3>. QED
      BY <1>2, <1>3, <2>1, <3>1
  <2>2. CASE ~(k <= n)
    <3>1. PICK j : j = k - n
      OBVIOUS
    <3>2. j \in 1..m
      BY <1>3, <2>2, <3>1
    <3>. QED
      BY <1>1, <1>3, <2>2, <3>1, <3>2
  <2>. QED
    BY <2>1, <2>2
<1>. QED
  BY <1>1, <1>3, <1>4, <1>5 DEF AWord

LEMMA PartIsWord ==
    ASSUME NEW part \in Text, IsIdPart(part) \/ Wild(part) \/ IsByte(part)
    PROVE  AWord(part)
<1>1. /\ "*" \notin Delimiters /\ \A d \in FourDigits : d \notin Delimiters
      /\ \A d \in TwoDigits : d \notin Delimiters
  BY DEF Delimiters, Whitespace, Newline, Quote, FourDigits, TwoDigits, HexByte
<1>2. CASE Wild(part)
  <2>1. Len(part) = 1 /\ part[1] = "*"
    BY <1>2, WildIs
  <2>2. part # <<>> /\ \A k \in 1..Len(part) : k = 1
    BY <2>1
  <2>. QED
    BY <1>1, <2>1, <2>2 DEF AWord
<1>3. CASE Len(part) = 1 /\ (part[1] \in FourDigits \/ part[1] \in TwoDigits)
  <2>2. part # <<>> /\ \A k \in 1..Len(part) : k = 1
    BY <1>3
  <2>. QED
    BY <1>1, <1>3, <2>2 DEF AWord
<1>4. CASE Len(part) = 2 /\ part[1] \in TwoDigits /\ part[2] \in TwoDigits
  <2>2. part # <<>> /\ \A k \in 1..Len(part) : k = 1 \/ k = 2
    BY <1>4
  <2>. QED
    BY <1>1, <1>4, <2>2 DEF AWord
<1>. QED
  BY <1>2, <1>3, <1>4 DEF IsIdPart, IsByte

\* What is written of two and of three parts.
LEMMA JoinedTwo ==
    ASSUME NEW g \in Glyph, NEW a \in Text, NEW b \in Text
    PROVE  Joined(g, <<a, b>>) = a \o (<<g>> \o b)
<1>1. PICK s : s = <<a>>
  OBVIOUS
<1>2. /\ s \in Seq(Text) /\ s # <<>> /\ s = Append(<<>>, a) /\ <<a, b>> = Append(s, b)
      /\ <<>> \in Seq(Text)
  BY <1>1
<1>3. Joined(g, s) = a
  BY <1>2, JoinedMore
<1>4. Joined(g, Append(s, b)) = Joined(g, s) \o (<<g>> \o b)
  BY <1>2, JoinedMore
<1>. QED
  BY <1>2, <1>3, <1>4

LEMMA JoinedThree ==
    ASSUME NEW g \in Glyph, NEW a \in Text, NEW b \in Text, NEW c \in Text
    PROVE  Joined(g, <<a, b, c>>) = (a \o (<<g>> \o b)) \o (<<g>> \o c)
<1>1. PICK s : s = <<a, b>>
  OBVIOUS
<1>2. s \in Seq(Text) /\ s # <<>> /\ <<a, b, c>> = Append(s, c)
  BY <1>1
<1>3. Joined(g, s) = a \o (<<g>> \o b)
  BY <1>1, JoinedTwo
<1>4. Joined(g, Append(s, c)) = Joined(g, s) \o (<<g>> \o c)
  BY <1>2, JoinedMore
<1>. QED
  BY <1>2, <1>3, <1>4

LEMMA ColonIs == ":" \in Glyph /\ <<":">> \in Text /\ AWord(<<":">>)
<1>1. ":" \in Glyph /\ ":" \notin Delimiters
  BY WrittenGlyphs DEF Delimiters, Whitespace, Newline, Quote
<1>2. PICK g, w : g = ":" /\ w = <<g>>
  OBVIOUS
<1>3. w \in Text
  BY <1>1, <1>2, GlyphTyped
<1>4. w # <<>> /\ w[1] = g /\ \A k \in 1..Len(w) : k = 1
  BY <1>2
<1>5. AWord(w)
  BY <1>1, <1>2, <1>3, <1>4 DEF AWord
<1>. QED
  BY <1>1, <1>2, <1>3, <1>5

LEMMA WordAndWord ==
    ASSUME NEW a, NEW b, AWord(a), AWord(b)
    PROVE  AWord(a \o b)
BY WordsTogether DEF AWord

LEMMA JoinedIsWord ==
    ASSUME NEW name \in AttributeName, name \notin StringAttributes, NEW v, IsValue(name, v)
    PROVE  AWord(Joined(":", v))
<1>1. v \in Seq(Text)
  BY DEF IsValue, AttributeValue
<1>2. CASE name = "id"
  <2>1. /\ Len(v) = 2 /\ IsIdPart(v[1]) /\ IsIdPart(v[2])
    BY <1>2 DEF IsValue, IsUsbId
  <2>2. PICK a, b : a = v[1] /\ b = v[2]
    OBVIOUS
  <2>3. a \in Text /\ b \in Text /\ v = <<a, b>>
    BY <1>1, <2>1, <2>2
  <2>4. AWord(a) /\ AWord(b)
    BY <2>1, <2>2, <2>3, PartIsWord
  <2>5. Joined(":", v) = a \o (<<":">> \o b)
    BY <2>3, ColonIs, JoinedTwo
  <2>. QED
    BY <2>4, <2>5, ColonIs, WordAndWord
<1>3. CASE name = "with-interface"
  <2>1. Len(v) = 3 /\ IsByte(v[1]) /\ (Wild(v[2]) \/ IsByte(v[2])) /\ (Wild(v[3]) \/ IsByte(v[3]))
    BY <1>3 DEF IsValue, IsInterface
  <2>2. PICK a, b, c : a = v[1] /\ b = v[2] /\ c = v[3]
    OBVIOUS
  <2>3. a \in Text /\ b \in Text /\ c \in Text /\ v = <<a, b, c>>
    <3>0. \A k \in 1..3 : v[k] \in Text
      BY <1>1, <2>1
    <3>1. a \in Text /\ b \in Text /\ c \in Text
      BY <2>2, <3>0
    <3>2. PICK u : u = <<a, b, c>>
      OBVIOUS
    <3>3. u \in Seq(Text) /\ Len(u) = 3 /\ u[1] = a /\ u[2] = b /\ u[3] = c
      BY <3>1, <3>2
    <3>4. \A k \in 1..3 : u[k] = v[k]
      BY <2>2, <3>3
    <3>5. u = v
      BY <1>1, <2>1, <3>3, <3>4, SeqEqual
    <3>. QED
      BY <3>1, <3>2, <3>5
  <2>4. AWord(a) /\ AWord(b) /\ AWord(c)
    BY <2>1, <2>2, <2>3, PartIsWord
  <2>5. Joined(":", v) = (a \o (<<":">> \o b)) \o (<<":">> \o c)
    BY ZenonT(60), <2>3, ColonIs, JoinedThree
  <2>. QED
    BY <2>4, <2>5, ColonIs, WordAndWord
<1>4. name \in {"id", "with-interface"}
  BY DEF AttributeName
<1>. QED
  BY <1>2, <1>3, <1>4

LEMMA ReadsValue ==
    ASSUME NEW name \in AttributeName, NEW v, IsValue(name, v)
    PROVE  /\ ValueSpec(name, v) \in Seq(Piece) /\ Len(ValueSpec(name, v)) = 1
           /\ Reads(WriteValue(name, v), ValueSpec(name, v))
<1>1. v \in Seq(Text)
  BY DEF IsValue, AttributeValue
<1>2. CASE name \in StringAttributes
  <2>1. Len(v) = 1
    BY <1>2 DEF IsValue
  <2>2. PICK s : s = v[1]
    OBVIOUS
  <2>3. s \in Text
    BY <1>1, <2>1, <2>2
  <2>4. Reads(WriteQuoted(s), <<P("Str", s)>>)
    BY <2>3, LeadsString, LeadsReads
  <2>5. <<P("Str", s)>> \in Seq(Piece) /\ Len(<<P("Str", s)>>) = 1
    BY <2>3, PieceIs, KindsAre
  <2>. QED
    BY <1>2, <2>2, <2>4, <2>5 DEF WriteValue, ValueSpec
<1>3. CASE name \notin StringAttributes
  <2>1. PICK w : w = Joined(":", v)
    OBVIOUS
  <2>2. AWord(w)
    BY <1>3, <2>1, JoinedIsWord
  <2>3. Reads(w, <<Word(w)>>) /\ w \in Text
    BY <2>2, ReadsWord DEF Word, AWord
  <2>4. <<Word(w)>> \in Seq(Piece) /\ Len(<<Word(w)>>) = 1
    BY <2>3, WordIs
  <2>. QED
    BY <1>3, <2>1, <2>3, <2>4 DEF WriteValue, ValueSpec
<1>. QED
  BY <1>2, <1>3

-----------------------------------------------------------------------------
(* Sets, conditions, attributes and rules.                                 *)

OperatorSpec(operator) == IF operator = None THEN <<>> ELSE <<Word(<<operator>>)>>
SetSpec(operator, t) == OperatorSpec(operator) \o <<OpenBrace>> \o FlattenSeq(t) \o <<CloseBrace>>

\* An operator is a keyword, and None is none.
LEMMA OperatorMatches ==
    ASSUME NEW operator \in SetOperator \cup {None}
    PROVE  /\ OperatorSpec(operator) \in Seq(Piece)
           /\ \E t : /\ Matching(IF operator = None THEN <<>> ELSE <<<<operator>>>>, t)
                     /\ FlattenSeq(t) = OperatorSpec(operator)
<1>1. CASE operator = None
  <2>1. OperatorSpec(operator) = <<>>
    BY <1>1 DEF OperatorSpec
  <2>2. Matching(IF operator = None THEN <<>> ELSE <<<<operator>>>>, <<>>)
    BY <1>1, MatchingNothing
  <2>. QED
    BY <2>1, <2>2, FlattenNone, EmptySeq
<1>2. CASE operator # None
  <2>1. operator \in Keywords
    BY <1>2 DEF Keywords
  <2>2. PICK w, x : w = <<operator>> /\ x = <<Word(w)>>
    OBVIOUS
  <2>3. w \in Text /\ Reads(w, x)
    BY <2>1, <2>2, ReadsKeyword
  <2>4. x \in Seq(Piece)
    BY <2>2, <2>3, WordIs
  <2>5. Matching(<<w>>, <<x>>) /\ FlattenSeq(<<x>>) = x
    BY <2>3, <2>4, MatchingOne, FlattenOne
  <2>6. OperatorSpec(operator) = x
    BY <1>2, <2>2 DEF OperatorSpec
  <2>. QED
    BY <1>2, <2>2, <2>4, <2>5, <2>6
<1>. QED
  BY <1>1, <1>2

LEMMA MatchingTyped ==
    ASSUME NEW p, NEW t, Matching(p, t)
    PROVE  p \in Seq(Text) /\ t \in Seq(Seq(Piece)) /\ FlattenSeq(t) \in Seq(Piece)
BY FlattenTyped DEF Matching

LEMMA ReadsSet ==
    ASSUME NEW operator \in SetOperator \cup {None}, NEW p, NEW t, Matching(p, t)
    PROVE  /\ SetSpec(operator, t) \in Seq(Piece)
           /\ Reads(WriteSet(operator, p), SetSpec(operator, t))
<1>1. PICK o : o = IF operator = None THEN <<>> ELSE <<<<operator>>>>
  OBVIOUS
<1>2. PICK u : Matching(o, u) /\ FlattenSeq(u) = OperatorSpec(operator)
  BY <1>1, OperatorMatches
<1>3. PICK open, close : open = <<"{">> /\ close = <<"}">>
  OBVIOUS
<1>4. open \in Text /\ close \in Text
  BY <1>3, BracesAreGlyphs, GlyphTyped
<1>5. PICK x, y : x = <<OpenBrace>> /\ y = <<CloseBrace>>
  OBVIOUS
<1>6. x \in Seq(Piece) /\ y \in Seq(Piece)
  BY <1>5, BracesAre
<1>7. Reads(open, x) /\ Reads(close, y)
  BY <1>3, <1>5, ReadsOpen
<1>8. Matching(<<open>>, <<x>>) /\ Matching(<<close>>, <<y>>)
  BY <1>4, <1>6, <1>7, MatchingOne
<1>9. Matching(o \o <<open>>, u \o <<x>>)
  BY <1>2, <1>8, MatchingConcat
<1>10. Matching((o \o <<open>>) \o p, (u \o <<x>>) \o t)
  BY <1>9, MatchingConcat
<1>11. Matching(((o \o <<open>>) \o p) \o <<close>>, ((u \o <<x>>) \o t) \o <<y>>)
  BY <1>8, <1>10, MatchingConcat
<1>12. ((o \o <<open>>) \o p) \o <<close>> = SetPieces(operator, p)
  BY <1>1, <1>3 DEF SetPieces
<1>13. WriteSet(operator, p) = Spaced(SetPieces(operator, p))
  BY SetPiecesTyped DEF Matching
<1>14. FlattenSeq(((u \o <<x>>) \o t) \o <<y>>) = SetSpec(operator, t)
  <2>1. PICK xs, ys : xs = <<x>> /\ ys = <<y>>
    OBVIOUS
  <2>2. /\ u \in Seq(Seq(Piece)) /\ t \in Seq(Seq(Piece)) /\ xs \in Seq(Seq(Piece))
        /\ ys \in Seq(Seq(Piece))
    BY <1>2, <1>6, <2>1, MatchingTyped
  <2>3. u \o xs \in Seq(Seq(Piece)) /\ (u \o xs) \o t \in Seq(Seq(Piece))
    BY <2>2
  <2>4. FlattenSeq(xs) = x /\ FlattenSeq(ys) = y
    BY <1>6, <2>1, FlattenOne
  <2>5. FlattenSeq(u \o xs) = OperatorSpec(operator) \o x
    BY <1>2, <2>2, <2>4, FlattenConcat
  <2>6. FlattenSeq((u \o xs) \o t) = (OperatorSpec(operator) \o x) \o FlattenSeq(t)
    BY <2>2, <2>3, <2>5, FlattenConcat
  <2>7. FlattenSeq(((u \o xs) \o t) \o ys)
          = ((OperatorSpec(operator) \o x) \o FlattenSeq(t)) \o y
    BY <2>2, <2>3, <2>4, <2>6, FlattenConcat
  <2>. QED
    BY <1>5, <2>1, <2>7 DEF SetSpec
<1>15. SetSpec(operator, t) \in Seq(Piece)
  BY <1>11, <1>14, MatchingTyped
<1>. QED
  BY <1>11, <1>12, <1>13, <1>14, <1>15, ReadsSpaced

\* The tokens of the values of an attribute.
ValueSpecs(name, values) == [k \in DOMAIN values |-> ValueSpec(name, values[k])]

LEMMA ValuesMatch ==
    ASSUME NEW name \in AttributeName, NEW values \in Seq(AttributeValue),
           \A k \in DOMAIN values : IsValue(name, values[k])
    PROVE  Matching(WrittenValues(name, values), ValueSpecs(name, values))
<1>1. PICK p, t : p = WrittenValues(name, values) /\ t = ValueSpecs(name, values)
  OBVIOUS
<1>2. p \in Seq(Text) /\ Len(p) = Len(values) /\ Len(values) \in Nat
  BY <1>1, WrittenValuesTyped
<1>3. \A k \in DOMAIN values :
        ValueSpec(name, values[k]) \in Seq(Piece)
        /\ Reads(WriteValue(name, values[k]), ValueSpec(name, values[k]))
  BY ReadsValue
<1>4. DOMAIN values = 1..Len(values)
  OBVIOUS
<1>5. t \in [1..Len(values) -> Seq(Piece)]
  BY <1>1, <1>3, <1>4 DEF ValueSpecs
<1>6. t \in Seq(Seq(Piece)) /\ Len(t) = Len(values)
  BY <1>2, <1>5, TypedSeq
<1>7. ASSUME NEW k \in 1..Len(p) PROVE Reads(p[k], t[k])
  <2>1. k \in DOMAIN values
    BY <1>2, <1>4
  <2>2. p[k] = WriteValue(name, values[k]) /\ t[k] = ValueSpec(name, values[k])
    BY <1>1, <2>1 DEF WrittenValues, ValueSpecs
  <2>. QED
    BY <1>3, <2>1, <2>2
<1>. QED
  BY <1>1, <1>2, <1>6, <1>7 DEF Matching

ValuesSpec(name, vs) ==
    IF vs.set THEN SetSpec(vs.operator, ValueSpecs(name, vs.values))
    ELSE ValueSpec(name, vs.values[1])
AttributeSpec(a) == <<Word(<<a.name>>)>> \o ValuesSpec(a.name, a.values)

LEMMA ReadsValues ==
    ASSUME NEW name \in AttributeName, NEW vs, IsAnyValues(name, vs)
    PROVE  /\ ValuesSpec(name, vs) \in Seq(Piece)
           /\ LET w == IF vs.set THEN WriteSet(vs.operator, WrittenValues(name, vs.values))
                       ELSE WrittenValues(name, vs.values)[1]
              IN  w \in Text /\ Reads(w, ValuesSpec(name, vs))
<1>1. PICK values, operator : values = vs.values /\ operator = vs.operator
  OBVIOUS
<1>2. /\ operator \in SetOperator \cup {None} /\ values \in Seq(AttributeValue)
      /\ \A k \in DOMAIN values : IsValue(name, values[k])
      /\ ~vs.set => Len(values) = 1
  BY <1>1 DEF IsAnyValues
<1>3. PICK p, t : p = WrittenValues(name, values) /\ t = ValueSpecs(name, values)
  OBVIOUS
<1>4. Matching(p, t)
  BY <1>2, <1>3, ValuesMatch
<1>5. CASE vs.set
  <2>1. SetSpec(operator, t) \in Seq(Piece) /\ Reads(WriteSet(operator, p), SetSpec(operator, t))
    BY <1>2, <1>4, ReadsSet
  <2>2. WriteSet(operator, p) \in Text
    BY <1>2, <1>4, SetPiecesTyped, MatchingTyped
  <2>. QED
    BY <1>1, <1>3, <1>5, <2>1, <2>2 DEF ValuesSpec
<1>6. CASE ~vs.set
  <2>1. 1 \in DOMAIN values
    BY <1>2, <1>6
  <2>2. PICK v : v = values[1]
    OBVIOUS
  <2>3. IsValue(name, v)
    BY <1>2, <2>1, <2>2
  <2>4. ValueSpec(name, v) \in Seq(Piece) /\ Reads(WriteValue(name, v), ValueSpec(name, v))
        /\ WriteValue(name, v) \in Text
    BY <2>3, ReadsValue, WriteValueTyped
  <2>5. p[1] = WriteValue(name, v)
    BY <1>3, <2>1, <2>2 DEF WrittenValues
  <2>. QED
    BY <1>1, <1>3, <1>6, <2>2, <2>4, <2>5 DEF ValuesSpec
<1>. QED
  BY <1>5, <1>6

LEMMA ReadsAttribute ==
    ASSUME NEW a \in AnyAttribute
    PROVE  AttributeSpec(a) \in Seq(Piece) /\ Reads(WriteAttribute(a), AttributeSpec(a))
<1>1. a.name \in AttributeName /\ IsAnyValues(a.name, a.values)
  BY DEF AnyAttribute, Attribute
<1>2. PICK name, vs : name = a.name /\ vs = a.values
  OBVIOUS
<1>3. PICK w : w = IF vs.set THEN WriteSet(vs.operator, WrittenValues(name, vs.values))
                   ELSE WrittenValues(name, vs.values)[1]
  OBVIOUS
<1>4. PICK y : y = ValuesSpec(name, vs)
  OBVIOUS
<1>5. w \in Text /\ y \in Seq(Piece) /\ Reads(w, y)
  BY <1>1, <1>2, <1>3, <1>4, ReadsValues
<1>6. PICK n, x : n = <<name>> /\ x = <<Word(n)>>
  OBVIOUS
<1>7. n \in Text /\ Reads(n, x)
  <2>1. name \in Keywords
    BY <1>1, <1>2 DEF Keywords
  <2>. QED
    BY <1>6, <2>1, ReadsKeyword
<1>8. x \in Seq(Piece)
  BY <1>6, <1>7, WordIs
<1>9. WriteAttribute(a) = Spaced(<<n, w>>)
  BY <1>2, <1>3, <1>6 DEF WriteAttribute, WrittenValues
<1>10. Spaced(<<n, w>>) = n \o (<<" ">> \o w)
  BY <1>5, <1>7, BlankIs, JoinedTwo DEF Spaced
<1>11. Reads(n \o (<<" ">> \o w), x \o y)
  BY <1>5, <1>7, <1>8, ReadsBlank
<1>12. x \o y \in Seq(Piece)
  BY <1>5, <1>8
<1>13. AttributeSpec(a) = x \o y
  BY <1>2, <1>4, <1>6 DEF AttributeSpec
<1>. QED
  BY <1>9, <1>10, <1>11, <1>12, <1>13

AttributeSpecs(attributes) == [k \in DOMAIN attributes |-> AttributeSpec(attributes[k])]

LEMMA AttributesMatch ==
    ASSUME NEW attributes \in Seq(AnyAttribute)
    PROVE  Matching(WrittenAttributes(attributes), AttributeSpecs(attributes))
<1>1. PICK p, t : p = WrittenAttributes(attributes) /\ t = AttributeSpecs(attributes)
  OBVIOUS
<1>2. p \in Seq(Text) /\ Len(p) = Len(attributes) /\ Len(attributes) \in Nat
  BY <1>1, WrittenAttributesTyped
<1>3. DOMAIN attributes = 1..Len(attributes) /\ \A k \in DOMAIN attributes : attributes[k] \in AnyAttribute
  OBVIOUS
<1>4. \A k \in DOMAIN attributes :
        AttributeSpec(attributes[k]) \in Seq(Piece)
        /\ Reads(WriteAttribute(attributes[k]), AttributeSpec(attributes[k]))
  BY <1>3, ReadsAttribute
<1>5. t \in [1..Len(attributes) -> Seq(Piece)]
  BY <1>1, <1>3, <1>4 DEF AttributeSpecs
<1>6. t \in Seq(Seq(Piece)) /\ Len(t) = Len(attributes)
  BY <1>2, <1>5, TypedSeq
<1>7. ASSUME NEW k \in 1..Len(p) PROVE Reads(p[k], t[k])
  <2>1. k \in DOMAIN attributes
    BY <1>2, <1>3
  <2>2. p[k] = WriteAttribute(attributes[k]) /\ t[k] = AttributeSpec(attributes[k])
    BY <1>1, <2>1 DEF WrittenAttributes, AttributeSpecs
  <2>. QED
    BY <1>4, <2>1, <2>2
<1>. QED
  BY <1>1, <1>2, <1>6, <1>7 DEF Matching

-----------------------------------------------------------------------------
(* Clauses.                                                                *)

NegationSpec(negated) == IF negated THEN <<P("!", <<>>)>> ELSE <<>>
ParameterSpec(parameter) == IF parameter = None THEN <<>> ELSE <<P("Param", parameter)>>
ConditionSpec(c) == NegationSpec(c.negated) \o (<<Word(<<c.name>>)>> \o ParameterSpec(c.parameter))

LEMMA ReadsParameter ==
    ASSUME NEW name \in ConditionName, NEW parameter \in Text \cup {None},
           parameter # None => Closes(parameter), NEW q,
           q = IF parameter = None THEN <<>> ELSE <<"(">> \o parameter \o <<")">>
    PROVE  /\ q \in Text /\ <<name>> \o q \in Text
           /\ ParameterSpec(parameter) \in Seq(Piece)
           /\ <<Word(<<name>>)>> \o ParameterSpec(parameter) \in Seq(Piece)
           /\ Reads(<<name>> \o q, <<Word(<<name>>)>> \o ParameterSpec(parameter))
<1>1. PICK n, x, y : n = <<name>> /\ x = <<Word(n)>> /\ y = ParameterSpec(parameter)
  OBVIOUS
<1>2. n \in Text /\ Reads(n, x)
  <2>1. name \in Keywords
    BY DEF Keywords
  <2>. QED
    BY <1>1, <2>1, ReadsKeyword
<1>3. x \in Seq(Piece)
  BY <1>1, <1>2, WordIs
<1>4. CASE parameter = None
  <2>1. q = <<>> /\ y = <<>> /\ q \in Text /\ y \in Seq(Piece)
    BY <1>1, <1>4, EmptySeq DEF ParameterSpec, Text
  <2>2. n \o <<>> = n /\ x \o <<>> = x
    BY <1>2, <1>3 DEF Text
  <2>. QED
    BY <1>1, <1>2, <1>3, <2>1, <2>2
<1>5. CASE parameter # None
  <2>1. parameter \in Text /\ Closes(parameter) /\ q = Bracketed(parameter)
    BY <1>5 DEF Bracketed
  <2>2. q \in Text /\ q[1] = "(" /\ Len(q) = Len(parameter) + 2 /\ Len(parameter) \in Nat
    BY <2>1, BracketedIs
  <2>3. q # <<>> /\ q[1] \in Delimiters
    <3>1. Len(q) # 0
      BY <2>2
    <3>2. q # <<>>
      BY <3>1
    <3>. QED
      BY <2>2, <3>2 DEF Delimiters
  <2>4. y = <<P("Param", parameter)>>
    BY <1>1, <1>5 DEF ParameterSpec
  <2>5. y \in Seq(Piece)
    BY <2>1, <2>4, PieceIs, KindsAre
  <2>6. Reads(q, y)
    BY <2>1, <2>4, LeadsParameter, LeadsReads
  <2>7. Reads(n \o q, x \o y)
    BY <1>2, <1>3, <2>2, <2>3, <2>5, <2>6, ReadsThen
  <2>8. x \o y \in Seq(Piece) /\ n \o q \in Text
    BY <1>2, <1>3, <2>2, <2>5, TextTyped
  <2>. QED
    BY <1>1, <2>2, <2>5, <2>7, <2>8
<1>. QED
  BY <1>4, <1>5

LEMMA ReadsCondition ==
    ASSUME NEW queries, NEW c \in ConditionOf(queries)
    PROVE  ConditionSpec(c) \in Seq(Piece) /\ Reads(WriteCondition(c), ConditionSpec(c))
<1>1. /\ c.negated \in BOOLEAN /\ c.name \in ConditionName /\ c.parameter \in Text \cup {None}
      /\ c.parameter # None => Closes(c.parameter)
  BY DEF ConditionOf, Condition
<1>2. PICK name, parameter : name = c.name /\ parameter = c.parameter
  OBVIOUS
<1>3. PICK q : q = IF parameter = None THEN <<>> ELSE <<"(">> \o parameter \o <<")">>
  OBVIOUS
<1>4. PICK w, y : w = <<name>> \o q /\ y = <<Word(<<name>>)>> \o ParameterSpec(parameter)
  OBVIOUS
<1>5. q \in Text /\ w \in Text /\ y \in Seq(Piece) /\ Reads(w, y)
  BY <1>1, <1>2, <1>3, <1>4, ReadsParameter
<1>6. PICK n, x : n = (IF c.negated THEN <<"!">> ELSE <<>>) /\ x = NegationSpec(c.negated)
  OBVIOUS
<1>7. PICK k : k = <<name>>
  OBVIOUS
<1>8. WriteCondition(c) = (n \o k) \o q
  BY <1>2, <1>3, <1>6, <1>7 DEF WriteCondition
<1>9. k \in Text
  BY <1>1, <1>2, <1>7, WrittenGlyphs, GlyphTyped
<1>10. ConditionSpec(c) = x \o y
  BY <1>2, <1>4, <1>6 DEF ConditionSpec
<1>11. CASE c.negated
  <2>1. n = <<"!">> /\ x = <<P("!", <<>>)>>
    BY <1>6, <1>11 DEF NegationSpec
  <2>2. Leads(n, x) /\ x \in Seq(Piece)
    BY <2>1, LeadsBrace, BracesAre
  <2>3. n \in Text
    BY <2>1, BracesAreGlyphs, GlyphTyped
  <2>4. Reads(n \o w, x \o y) /\ x \o y \in Seq(Piece)
    BY <1>5, <2>2, <2>3, LeadsThen
  <2>5. (n \o k) \o q = n \o (k \o q)
    BY SMTT(30), <1>5, <1>9, <2>3 DEF Text
  <2>. QED
    BY <1>4, <1>7, <1>8, <1>10, <2>4, <2>5
<1>12. CASE ~c.negated
  <2>1. n = <<>> /\ x = <<>>
    BY <1>6, <1>12 DEF NegationSpec
  <2>2. n \o k = k /\ x \o y = y
    BY <1>5, <1>9, <2>1 DEF Text
  <2>. QED
    BY <1>4, <1>5, <1>7, <1>8, <1>10, <2>2
<1>. QED
  BY <1>1, <1>11, <1>12

ConditionSpecs(conditions) == [k \in DOMAIN conditions |-> ConditionSpec(conditions[k])]

LEMMA ConditionsMatch ==
    ASSUME NEW queries, NEW conditions \in Seq(ConditionOf(queries))
    PROVE  Matching(WrittenConditions(conditions), ConditionSpecs(conditions))
<1>1. PICK p, t : p = WrittenConditions(conditions) /\ t = ConditionSpecs(conditions)
  OBVIOUS
<1>2. p \in Seq(Text) /\ Len(p) = Len(conditions) /\ Len(conditions) \in Nat
  <2>1. conditions \in Seq(Condition)
    <3>1. ConditionOf(queries) \subseteq Condition
      BY DEF ConditionOf
    <3>. QED
      BY <3>1, SeqMono
  <2>. QED
    BY <1>1, <2>1, WrittenConditionsTyped
<1>3. DOMAIN conditions = 1..Len(conditions)
      /\ \A k \in DOMAIN conditions : conditions[k] \in ConditionOf(queries)
  OBVIOUS
<1>4. \A k \in DOMAIN conditions :
        ConditionSpec(conditions[k]) \in Seq(Piece)
        /\ Reads(WriteCondition(conditions[k]), ConditionSpec(conditions[k]))
  BY <1>3, ReadsCondition
<1>5. t \in [1..Len(conditions) -> Seq(Piece)]
  BY <1>1, <1>3, <1>4 DEF ConditionSpecs
<1>6. t \in Seq(Seq(Piece)) /\ Len(t) = Len(conditions)
  BY <1>2, <1>5, TypedSeq
<1>7. ASSUME NEW k \in 1..Len(p) PROVE Reads(p[k], t[k])
  <2>1. k \in DOMAIN conditions
    BY <1>2, <1>3
  <2>2. p[k] = WriteCondition(conditions[k]) /\ t[k] = ConditionSpec(conditions[k])
    BY <1>1, <2>1 DEF WrittenConditions, ConditionSpecs
  <2>. QED
    BY <1>4, <2>1, <2>2
<1>. QED
  BY <1>1, <1>2, <1>6, <1>7 DEF Matching

ClauseSpec(clause) ==
    IF clause.set THEN SetSpec(clause.operator, ConditionSpecs(clause.conditions))
    ELSE ConditionSpec(clause.conditions[1])

LEMMA ClauseIs ==
    ASSUME NEW queries, NEW clause \in ClauseOf(queries)
    PROVE  /\ clause.set \in BOOLEAN /\ clause.operator \in SetOperator \cup {None}
           /\ clause.conditions \in Seq(ConditionOf(queries))
           /\ ~clause.set => clause.operator = None /\ Len(clause.conditions) = 1
           /\ clause.set => Len(clause.conditions) <= MAX_SET_VALUES
<1>1. IsClause(queries, clause)
  BY DEF ClauseOf
<1>2. PICK cs : cs = clause.conditions
  OBVIOUS
<1>3. cs \in Seq(Condition) /\ \A k \in DOMAIN cs : cs[k] \in ConditionOf(queries)
  BY <1>1, <1>2 DEF IsClause, ConditionClause
<1>4. cs \in Seq(ConditionOf(queries))
  BY <1>3
<1>. QED
  BY <1>1, <1>2, <1>4 DEF IsClause, ConditionClause

LEMMA ReadsClause ==
    ASSUME NEW queries, NEW clause \in ClauseOf(queries)
    PROVE  ClauseSpec(clause) \in Seq(Piece) /\ Reads(WriteClause(clause), ClauseSpec(clause))
<1>1. PICK cs, operator : cs = clause.conditions /\ operator = clause.operator
  OBVIOUS
<1>2. /\ operator \in SetOperator \cup {None} /\ cs \in Seq(ConditionOf(queries))
      /\ ~clause.set => Len(cs) = 1
  BY <1>1, ClauseIs
<1>3. PICK p, t : p = WrittenConditions(cs) /\ t = ConditionSpecs(cs)
  OBVIOUS
<1>4. Matching(p, t)
  BY <1>2, <1>3, ConditionsMatch
<1>5. WriteClause(clause) = IF clause.set THEN WriteSet(operator, p) ELSE p[1]
  BY <1>1, <1>3 DEF WriteClause, WrittenConditions
<1>6. CASE clause.set
  <2>1. SetSpec(operator, t) \in Seq(Piece) /\ Reads(WriteSet(operator, p), SetSpec(operator, t))
    BY <1>2, <1>4, ReadsSet
  <2>. QED
    BY <1>1, <1>3, <1>5, <1>6, <2>1 DEF ClauseSpec
<1>7. CASE ~clause.set
  <2>1. 1 \in DOMAIN cs
    BY <1>2, <1>7
  <2>2. PICK c : c = cs[1]
    OBVIOUS
  <2>3. c \in ConditionOf(queries)
    BY <1>2, <2>1, <2>2
  <2>4. ConditionSpec(c) \in Seq(Piece) /\ Reads(WriteCondition(c), ConditionSpec(c))
    BY <2>3, ReadsCondition
  <2>5. p[1] = WriteCondition(c)
    BY <1>3, <2>1, <2>2 DEF WrittenConditions
  <2>. QED
    BY <1>1, <1>5, <1>7, <2>2, <2>4, <2>5 DEF ClauseSpec
<1>. QED
  BY <1>6, <1>7

TargetSpec(tgt) == IF tgt = None THEN <<>> ELSE <<Word(<<tgt>>)>>
IfSpec(clause) == IF clause = None THEN <<>> ELSE <<Word(<<"if">>)>> \o ClauseSpec(clause)
TailSpec(comment) ==
    IF comment = None THEN <<P("End", <<>>)>> ELSE <<P("Comment", comment), P("End", <<>>)>>

\* What comes before a comment.
RuleSpec(rule) ==
    TargetSpec(rule.target) \o FlattenSeq(AttributeSpecs(rule.attributes)) \o IfSpec(rule.condition)
BarePieces(rule) ==
    TargetPiece(rule.target) \o WrittenAttributes(rule.attributes) \o ClausePieces(rule.condition)

LEMMA TargetMatches ==
    ASSUME NEW tgt \in RuleTarget \cup {None}
    PROVE  \E t : Matching(TargetPiece(tgt), t) /\ FlattenSeq(t) = TargetSpec(tgt)
<1>1. CASE tgt = None
  <2>1. TargetPiece(tgt) = <<>> /\ TargetSpec(tgt) = <<>>
    BY <1>1 DEF TargetPiece, TargetSpec
  <2>. QED
    BY <2>1, MatchingNothing, FlattenNone
<1>2. CASE tgt # None
  <2>1. tgt \in Keywords
    BY <1>2 DEF Keywords
  <2>2. PICK w, x : w = <<tgt>> /\ x = <<Word(w)>>
    OBVIOUS
  <2>3. w \in Text /\ Reads(w, x)
    BY <2>1, <2>2, ReadsKeyword
  <2>4. x \in Seq(Piece)
    BY <2>2, <2>3, WordIs
  <2>5. Matching(<<w>>, <<x>>) /\ FlattenSeq(<<x>>) = x
    BY <2>3, <2>4, MatchingOne, FlattenOne
  <2>6. TargetSpec(tgt) = x /\ TargetPiece(tgt) = <<w>>
    BY <1>2, <2>2 DEF TargetSpec, TargetPiece
  <2>. QED
    BY <2>5, <2>6
<1>. QED
  BY <1>1, <1>2

LEMMA ClauseMatches ==
    ASSUME NEW queries, NEW clause \in ClauseOf(queries) \cup {None}
    PROVE  \E t : Matching(ClausePieces(clause), t) /\ FlattenSeq(t) = IfSpec(clause)
<1>1. CASE clause = None
  <2>1. ClausePieces(clause) = <<>> /\ IfSpec(clause) = <<>>
    BY <1>1 DEF ClausePieces, IfSpec
  <2>. QED
    BY <2>1, MatchingNothing, FlattenNone
<1>2. CASE clause # None
  <2>1. clause \in ClauseOf(queries)
    BY <1>2
  <2>2. PICK w, x : w = <<"if">> /\ x = <<Word(w)>>
    OBVIOUS
  <2>3. w \in Text /\ Reads(w, x)
    BY <2>2, ReadsKeyword DEF Keywords
  <2>4. x \in Seq(Piece)
    BY <2>2, <2>3, WordIs
  <2>5. PICK v, y : v = WriteClause(clause) /\ y = ClauseSpec(clause)
    OBVIOUS
  <2>6. v \in Text /\ y \in Seq(Piece) /\ Reads(v, y)
    BY <2>1, <2>5, WriteClauseTyped, ReadsClause
  <2>7. Matching(<<w>>, <<x>>) /\ FlattenSeq(<<x>>) = x
    BY <2>3, <2>4, MatchingOne, FlattenOne
  <2>8. Matching(<<v>>, <<y>>) /\ FlattenSeq(<<y>>) = y
    BY <2>6, MatchingOne, FlattenOne
  <2>9. Matching(<<w>> \o <<v>>, <<x>> \o <<y>>)
    BY <2>7, <2>8, MatchingConcat
  <2>10. FlattenSeq(<<x>> \o <<y>>) = x \o y
    <3>1. PICK xs, ys : xs = <<x>> /\ ys = <<y>>
      OBVIOUS
    <3>2. xs \in Seq(Seq(Piece)) /\ ys \in Seq(Seq(Piece)) /\ FlattenSeq(xs) = x /\ FlattenSeq(ys) = y
      BY <2>7, <2>8, <3>1, MatchingTyped
    <3>. QED
      BY ZenonT(60), <3>1, <3>2, FlattenConcat
  <2>11. <<w>> \o <<v>> = <<w, v>>
    BY <2>3, <2>6, Two
  <2>12. ClausePieces(clause) = <<w, v>> /\ IfSpec(clause) = x \o y
    BY <1>2, <2>2, <2>5 DEF ClausePieces, IfSpec
  <2>. QED
    BY <2>9, <2>10, <2>11, <2>12
<1>. QED
  BY <1>1, <1>2

LEMMA AnyRuleIs ==
    ASSUME NEW queries, NEW rule \in AnyRuleOf(queries)
    PROVE  /\ rule.target \in RuleTarget \cup {None} /\ rule.attributes \in Seq(AnyAttribute)
           /\ rule.condition \in ClauseOf(queries) \cup {None} /\ rule.comment \in Text \cup {None}
           /\ Distinct(rule.attributes, {}) /\ SaysSomething(rule)
           /\ rule = ARule(rule.target, rule.attributes, rule.condition, rule.comment)
BY DEF AnyRuleOf, IsAnyRule, Rule, ARule

LEMMA ReadsBare ==
    ASSUME NEW queries, NEW rule \in AnyRuleOf(queries)
    PROVE  /\ BarePieces(rule) \in Seq(Text) /\ BarePieces(rule) # <<>>
           /\ RuleSpec(rule) \in Seq(Piece)
           /\ Reads(Spaced(BarePieces(rule)), RuleSpec(rule))
<1>1. /\ rule.target \in RuleTarget \cup {None} /\ rule.attributes \in Seq(AnyAttribute)
      /\ rule.condition \in ClauseOf(queries) \cup {None}
  BY AnyRuleIs
<1>2. PICK a, b, c : /\ a = TargetPiece(rule.target) /\ b = WrittenAttributes(rule.attributes)
                     /\ c = ClausePieces(rule.condition)
  OBVIOUS
<1>3. PICK x : Matching(a, x) /\ FlattenSeq(x) = TargetSpec(rule.target)
  BY <1>1, <1>2, TargetMatches
<1>4. PICK y : Matching(b, y) /\ y = AttributeSpecs(rule.attributes)
  BY <1>1, <1>2, AttributesMatch
<1>5. PICK z : Matching(c, z) /\ FlattenSeq(z) = IfSpec(rule.condition)
  BY <1>1, <1>2, ClauseMatches
<1>6. Matching(a \o b, x \o y)
  BY <1>3, <1>4, MatchingConcat
<1>7. Matching((a \o b) \o c, (x \o y) \o z)
  BY <1>5, <1>6, MatchingConcat
<1>8. FlattenSeq((x \o y) \o z) = RuleSpec(rule)
  <2>1. x \in Seq(Seq(Piece)) /\ y \in Seq(Seq(Piece)) /\ z \in Seq(Seq(Piece))
        /\ x \o y \in Seq(Seq(Piece))
    BY <1>3, <1>4, <1>5, <1>6, MatchingTyped
  <2>2. FlattenSeq(x \o y) = FlattenSeq(x) \o FlattenSeq(y)
    BY <2>1, FlattenConcat
  <2>3. FlattenSeq((x \o y) \o z) = FlattenSeq(x \o y) \o FlattenSeq(z)
    BY <2>1, FlattenConcat
  <2>. QED
    BY <1>3, <1>4, <1>5, <2>2, <2>3 DEF RuleSpec
<1>9. BarePieces(rule) = (a \o b) \o c
  BY <1>2 DEF BarePieces
<1>10. BarePieces(rule) # <<>>
  <2>1. a \in Seq(Text) /\ b \in Seq(Text) /\ c \in Seq(Text)
    BY <1>3, <1>4, <1>5, MatchingTyped
  <2>2. Len((a \o b) \o c) = Len(a) + Len(b) + Len(c) /\ Len(a) \in Nat /\ Len(b) \in Nat
        /\ Len(c) \in Nat
    BY <2>1
  <2>3. Len(a) # 0 \/ Len(b) # 0 \/ Len(c) # 0
    <3>1. CASE rule.target # None
      <4>1. a = <<<<rule.target>>>>
        BY <1>2, <3>1 DEF TargetPiece
      <4>. QED
        BY <4>1
    <3>2. CASE rule.attributes # <<>>
      <4>1. Len(b) = Len(rule.attributes)
        BY <1>1, <1>2, WrittenAttributesTyped
      <4>2. Len(rule.attributes) # 0
        BY <1>1, <3>2
      <4>. QED
        BY <4>1, <4>2
    <3>3. CASE rule.condition # None
      <4>1. c = <<<<"if">>, WriteClause(rule.condition)>>
        BY <1>2, <3>3 DEF ClausePieces
      <4>. QED
        BY <4>1
    <3>. QED
      BY <3>1, <3>2, <3>3, AnyRuleIs DEF SaysSomething
  <2>4. Len((a \o b) \o c) # 0
    <3>1. PICK i, j, k : i = Len(a) /\ j = Len(b) /\ k = Len(c)
      OBVIOUS
    <3>2. i + j + k # 0
      BY <2>2, <2>3, <3>1
    <3>. QED
      BY <2>2, <3>1, <3>2
  <2>. QED
    BY <1>9, <2>4
<1>. QED
  BY <1>7, <1>8, <1>9, <1>10, MatchingTyped, ReadsSpaced

LEMMA StandsWhole ==
    ASSUME NEW w \in Text
    PROVE  Stands(w, w, 1)
<1>1. Len(w) \in Nat /\ 1 \in Place
  BY DEF Text, Place
<1>2. \A k \in 1..Len(w) : 1 + k - 1 = k
  OBVIOUS
<1>. QED
  BY <1>1, <1>2 DEF Stands

\* At a comment the lexer reads all that is left.
LEMMA LexesComment ==
    ASSUME NEW input \in Text, NEW comment \in Text, NEW pos \in Place,
           Stands(<<"#">> \o comment, input, pos), pos + Len(<<"#">> \o comment) = Len(input) + 1
    PROVE  LexesTo(input, pos, <<P("Comment", comment), P("End", <<>>)>>)
<1>1. PICK a : a = <<"#">>
  OBVIOUS
<1>2. a \in Text
  BY <1>1, BracesAreGlyphs, GlyphTyped
<1>3. /\ Stands(a, input, pos) /\ Stands(comment, input, pos + Len(a))
      /\ pos + Len(a \o comment) = (pos + Len(a)) + Len(comment)
  <2>1. Stands(a \o comment, input, pos)
    BY <1>1
  <2>. QED
    BY <1>2, <2>1, StandsApart
<1>4. pos <= Len(input) /\ input[pos] = "#" /\ pos + Len(a) = pos + 1 /\ pos \in Nat
  BY <1>1, <1>3, StandsOne
<1>5. PICK end : end = Len(input) + 1
  OBVIOUS
<1>6. SubSeq(input, pos + 1, Len(input)) = comment
  <2>1. PICK o : o = pos + 1
    OBVIOUS
  <2>2. Stands(comment, input, o) /\ o + Len(comment) = Len(input) + 1 /\ o \in Nat
    BY <1>1, <1>3, <1>4, <2>1
  <2>3. PICK hi : hi = o + Len(comment) - 1
    OBVIOUS
  <2>4. SubSeq(input, o, hi) = comment
    BY <2>2, <2>3, StandsCut
  <2>5. hi = Len(input)
    <3>1. Len(comment) \in Nat /\ Len(input) \in Nat
      BY DEF Text
    <3>. QED
      BY <2>2, <2>3, <3>1
  <2>. QED
    BY <2>1, <2>4, <2>5
<1>7. LexToken(input, pos) = Good(Token("Comment", comment, pos), end)
  <2>1. LexToken(input, pos)
          = Good(Token("Comment", SubSeq(input, pos + 1, Len(input)), pos), Len(input) + 1)
    BY <1>4 DEF LexToken, Quote
  <2>. QED
    BY <1>5, <1>6, <2>1
<1>8. end \in Place /\ end > Len(input)
  BY <1>5 DEF Place, Text
<1>9. LexesTo(input, end, <<P("End", <<>>)>>)
  BY <1>8, LexesEnd
<1>10. <<P("End", <<>>)>> \in Seq(Piece)
  <2>1. <<>> \in Text
    BY EmptySeq DEF Text
  <2>. QED
    BY <2>1, PieceIs, KindsAre
<1>11. input[pos] \notin Whitespace
  BY <1>4 DEF Whitespace, Newline
<1>12. LexesTo(input, pos, <<P("Comment", comment)>> \o <<P("End", <<>>)>>)
  BY <1>4, <1>7, <1>9, <1>11, LexesToken
<1>13. <<P("Comment", comment)>> \o <<P("End", <<>>)>> = <<P("Comment", comment), P("End", <<>>)>>
  <2>1. PICK p, q : p = P("Comment", comment) /\ q = P("End", <<>>)
    OBVIOUS
  <2>2. p \in Piece /\ q \in Piece
    <3>1. <<>> \in Text
      BY EmptySeq DEF Text
    <3>. QED
      BY <2>1, <3>1, PieceIs, KindsAre
  <2>3. <<p>> \o <<q>> = <<p, q>>
    BY <2>2, Two
  <2>. QED
    BY <2>1, <2>3
<1>. QED
  BY <1>12, <1>13

LEMMA TailTyped ==
    ASSUME NEW comment \in Text \cup {None}
    PROVE  TailSpec(comment) \in Seq(Piece)
<1>1. <<>> \in Text
  BY EmptySeq DEF Text
<1>2. P("End", <<>>) \in Piece
  BY <1>1, PieceIs, KindsAre
<1>3. comment # None => P("Comment", comment) \in Piece
  BY PieceIs, KindsAre
<1>. QED
  BY <1>2, <1>3 DEF TailSpec

\* The lexer reads what was written.
LEMMA LexesRule ==
    ASSUME NEW queries, NEW rule \in AnyRuleOf(queries)
    PROVE  LexesTo(Render(rule), 1, RuleSpec(rule) \o TailSpec(rule.comment))
<1>1. PICK pieces, w, spec : /\ pieces = BarePieces(rule) /\ w = Spaced(pieces)
                             /\ spec = RuleSpec(rule)
  OBVIOUS
<1>2. /\ pieces \in Seq(Text) /\ pieces # <<>> /\ spec \in Seq(Piece) /\ Reads(w, spec)
  BY <1>1, ReadsBare
<1>3. w \in Text
  BY <1>1, <1>2, SpacedTyped
<1>4. PICK input, comment : input = Render(rule) /\ comment = rule.comment
  OBVIOUS
<1>5. comment \in Text \cup {None} /\ input \in Text
  BY <1>4, AnyRuleIs, RulePiecesTyped
<1>6. input = Spaced(pieces \o CommentPiece(comment))
  <2>1. Render(rule) = Spaced(RulePieces(rule))
    BY RulePiecesTyped
  <2>2. RulePieces(rule) = BarePieces(rule) \o CommentPiece(rule.comment)
    BY DEF RulePieces, BarePieces
  <2>. QED
    BY <1>1, <1>4, <2>1, <2>2
<1>7. TailSpec(comment) \in Seq(Piece)
  BY <1>5, TailTyped
<1>8. 1 \in Place
  BY DEF Place
<1>9. CASE comment = None
  <2>1. CommentPiece(comment) = <<>> /\ pieces \o <<>> = pieces
    BY <1>2, <1>9 DEF CommentPiece
  <2>2. input = w
    BY <1>1, <1>6, <2>1
  <2>3. Stands(w, input, 1)
    BY <1>3, <2>2, StandsWhole
  <2>4. PICK end : end = 1 + Len(w)
    OBVIOUS
  <2>5. end \in Place /\ end > Len(input)
    BY <1>3, <2>2, <2>4 DEF Place, Text
  <2>6. LexesTo(input, end, TailSpec(comment))
    BY <1>5, <1>9, <2>5, LexesEnd DEF TailSpec
  <2>7. Ends(input, end)
    <3>1. ~(end <= Len(input))
      BY <1>5, <2>5 DEF Place, Text
    <3>. QED
      BY <3>1 DEF Ends
  <2>8. LexesTo(input, 1, spec \o TailSpec(comment))
    BY <1>2, <1>5, <1>7, <1>8, <2>3, <2>4, <2>6, <2>7 DEF Reads
  <2>. QED
    BY <1>1, <1>4, <2>8
<1>10. CASE comment # None
  <2>1. PICK last, sharp, blank : last = sharp \o comment /\ sharp = <<"#">> /\ blank = <<" ">>
    OBVIOUS
  <2>2. sharp \in Text /\ comment \in Text /\ blank \in Text
    BY <1>5, <1>10, <2>1, BracesAreGlyphs, BlankIs, GlyphTyped
  <2>3. last \in Text
    BY <2>1, <2>2, TextTyped
  <2>4. CommentPiece(comment) = <<last>>
    BY <1>10, <2>1 DEF CommentPiece
  <2>5. pieces \o <<last>> = Append(pieces, last)
    BY <1>2, <2>3, AppendIsConcat
  <2>6. input = w \o (blank \o last)
    <3>1. Spaced(Append(pieces, last)) = Spaced(pieces) \o (<<" ">> \o last)
      BY <1>2, <2>3, SpacedMore
    <3>. QED
      BY <1>1, <1>6, <2>1, <2>4, <2>5, <3>1
  <2>7. PICK tail : tail = blank \o last
    OBVIOUS
  <2>8. tail \in Text /\ input = w \o tail
    BY <2>2, <2>3, <2>6, <2>7, TextTyped
  <2>9. PICK at : at = 1 + Len(w)
    OBVIOUS
  <2>10. Stands(w, input, 1) /\ Stands(tail, input, at) /\ 1 + Len(w \o tail) = at + Len(tail)
         /\ at \in Place
    <3>1. Stands(w \o tail, input, 1)
      BY <1>5, <2>8, StandsWhole
    <3>. QED
      BY <1>3, <1>5, <2>8, <2>9, <3>1, StandsApart
  <2>11. PICK next : next = at + Len(blank)
    OBVIOUS
  <2>12. Stands(blank, input, at) /\ Stands(last, input, next)
         /\ at + Len(tail) = next + Len(last) /\ next \in Place
    BY <1>5, <2>2, <2>3, <2>7, <2>10, <2>11, StandsApart
  <2>13. at <= Len(input) /\ input[at] = " " /\ next = at + 1
    BY <1>5, <2>1, <2>11, <2>12, StandsOne
  <2>14. next + Len(last) = Len(input) + 1
    <3>1. PICK n : n = Len(input)
      OBVIOUS
    <3>2. 1 + n = next + Len(last) /\ n \in Nat
      BY <1>5, <2>8, <2>10, <2>12, <3>1 DEF Text
    <3>. QED
      BY <3>1, <3>2
  <2>15. LexesTo(input, next, TailSpec(comment))
    <3>1. LexesTo(input, next, <<P("Comment", comment), P("End", <<>>)>>)
      BY <1>5, <2>1, <2>2, <2>12, <2>14, LexesComment
    <3>. QED
      BY <1>10, <3>1 DEF TailSpec
  <2>16. LexesTo(input, at, TailSpec(comment))
    BY <1>5, <2>10, <2>13, <2>15, BlankIs, LexesBlank
  <2>17. Ends(input, at)
    BY <2>13, BlankIs DEF Ends
  <2>18. LexesTo(input, 1, spec \o TailSpec(comment))
    BY <1>2, <1>5, <1>7, <1>8, <2>9, <2>10, <2>16, <2>17 DEF Reads
  <2>. QED
    BY <1>1, <1>4, <2>18
<1>. QED
  BY <1>9, <1>10

=============================================================================
