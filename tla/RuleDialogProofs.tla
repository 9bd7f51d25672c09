------------------------- MODULE RuleDialogProofs -------------------------
(***************************************************************************)
(* The dialog's types, that its rules survive rendering, what it shows,    *)
(* submits and previews, and that the queries it reads nest no deeper than *)
(* allowed, for every glyph, text, row and limit.                          *)
(*                                                                         *)
(* The parser reads back what the renderer writes: where the tokens of a   *)
(* value, an attribute, a condition, a clause or a rule stand, that is     *)
(* what it returns (..Back).  A loop gets past what was written by         *)
(* induction over that (..There).                                          *)
(***************************************************************************)
EXTENDS RuleDialog, RuleLanguageProofs

-----------------------------------------------------------------------------
(* What the parser makes of the tokens of what was written.                *)

\* These tokens are at i.
TokensAt(t, i, tokens) ==
    /\ i \in Nat \ {0} /\ i + Len(tokens) <= Len(t) + 1
    /\ \A k \in 1..Len(tokens) :
          t[i + k - 1].kind = tokens[k].kind /\ t[i + k - 1].text = tokens[k].text

LEMMA TokensWhole ==
    ASSUME NEW t \in TokenList
    PROVE  TokensAt(t, 1, Plain(t))
<1>1. t \in Seq(AToken) /\ Len(t) \in Nat /\ DOMAIN t = 1..Len(t)
  BY DEF TokenList
<1>2. Len(Plain(t)) = Len(t)
  BY <1>1, PlainTyped
<1>3. ASSUME NEW k \in 1..Len(t)
      PROVE  t[1 + k - 1].kind = Plain(t)[k].kind /\ t[1 + k - 1].text = Plain(t)[k].text
  <2>1. k \in DOMAIN t /\ 1 + k - 1 = k
    BY <1>1
  <2>2. Plain(t)[k] = P(t[k].kind, t[k].text)
    BY <2>1 DEF Plain
  <2>. QED
    BY <2>1, <2>2 DEF P
<1>4. 1 + Len(Plain(t)) <= Len(t) + 1
  BY <1>1, <1>2
<1>. QED
  BY <1>2, <1>3, <1>4 DEF TokensAt

LEMMA TokensApart ==
    ASSUME NEW a \in Seq(Piece), NEW b \in Seq(Piece), NEW t \in TokenList, NEW i,
           TokensAt(t, i, a \o b)
    PROVE  /\ TokensAt(t, i, a) /\ TokensAt(t, i + Len(a), b)
           /\ i + Len(a \o b) = (i + Len(a)) + Len(b)
<1>. DEFINE w == a \o b
<1>1. /\ Len(w) = Len(a) + Len(b) /\ Len(a) \in Nat /\ Len(b) \in Nat
      /\ \A k \in 1..Len(a) : w[k] = a[k] /\ k \in 1..Len(w)
      /\ \A k \in 1..Len(b) : w[Len(a) + k] = b[k] /\ Len(a) + k \in 1..Len(w)
  OBVIOUS
<1>2. Len(t) \in Nat
  BY DEF TokenList
<1>. HIDE DEF w
<1>3. /\ i \in Nat /\ i # 0 /\ i + Len(w) <= Len(t) + 1
      /\ \A k \in 1..Len(w) : t[i + k - 1].kind = w[k].kind /\ t[i + k - 1].text = w[k].text
  BY DEF TokensAt, w
<1>4. TokensAt(t, i, a)
  <2>1. i + Len(a) <= Len(t) + 1
    BY <1>1, <1>2, <1>3
  <2>. QED
    BY <1>1, <1>3, <2>1 DEF TokensAt
<1>5. PICK m : m = i + Len(a)
  OBVIOUS
<1>6. m \in Nat \ {0} /\ m + Len(b) <= Len(t) + 1 /\ i + Len(w) = m + Len(b)
  BY <1>1, <1>2, <1>3, <1>5
<1>7. ASSUME NEW k \in 1..Len(b)
      PROVE  t[m + k - 1].kind = b[k].kind /\ t[m + k - 1].text = b[k].text
  <2>1. PICK j : j = Len(a) + k
    OBVIOUS
  <2>2. j \in 1..Len(w) /\ w[j] = b[k] /\ m + k - 1 = i + j - 1
    BY <1>1, <1>3, <1>5, <2>1
  <2>. QED
    BY <1>3, <2>2
<1>8. TokensAt(t, m, b)
  BY <1>6, <1>7 DEF TokensAt
<1>. QED
  BY <1>4, <1>5, <1>6, <1>8 DEF w

LEMMA TokensOne ==
    ASSUME NEW kind, NEW s, NEW t \in TokenList, NEW i, TokensAt(t, i, <<P(kind, s)>>)
    PROVE  /\ i \in DOMAIN t /\ i \in Nat /\ t[i].kind = kind /\ t[i].text = s
           /\ i + Len(<<P(kind, s)>>) = i + 1
<1>1. PICK p : p = P(kind, s)
  OBVIOUS
<1>2. p.kind = kind /\ p.text = s
  BY <1>1 DEF P
<1>3. PICK w : w = <<p>>
  OBVIOUS
<1>4. Len(w) = 1 /\ w[1] = p
  BY <1>3
<1>5. PICK n : n = Len(w)
  OBVIOUS
<1>6. n = 1
  BY <1>4, <1>5
<1>7. i \in Nat \ {0} /\ i + n <= Len(t) + 1
      /\ \A k \in 1..n : t[i + k - 1].kind = w[k].kind /\ t[i + k - 1].text = w[k].text
  BY <1>1, <1>3, <1>5 DEF TokensAt
<1>8. Len(t) \in Nat /\ DOMAIN t = 1..Len(t)
  BY DEF TokenList
<1>9. i \in 1..Len(t) /\ 1 \in 1..n /\ i + 1 - 1 = i
  BY <1>6, <1>7, <1>8
<1>10. t[i].kind = p.kind /\ t[i].text = p.text
  BY <1>4, <1>7, <1>9
<1>. QED
  BY <1>1, <1>2, <1>3, <1>5, <1>6, <1>7, <1>8, <1>9, <1>10

\* A token, and what follows it.
LEMMA TokensFirst ==
    ASSUME NEW kind \in TokenKind, NEW s \in Text, NEW rest \in Seq(Piece), NEW t \in TokenList, NEW i,
           TokensAt(t, i, <<P(kind, s)>> \o rest)
    PROVE  /\ i \in DOMAIN t /\ i \in Nat /\ t[i].kind = kind /\ t[i].text = s
           /\ TokensAt(t, i + 1, rest) /\ i + Len(<<P(kind, s)>> \o rest) = (i + 1) + Len(rest)
<1>1. PICK a : a = <<P(kind, s)>>
  OBVIOUS
<1>2. a \in Seq(Piece)
  BY <1>1, PieceIs
<1>3. /\ TokensAt(t, i, a) /\ TokensAt(t, i + Len(a), rest)
      /\ i + Len(a \o rest) = (i + Len(a)) + Len(rest)
  <2>1. TokensAt(t, i, a \o rest)
    BY <1>1
  <2>. QED
    BY <1>2, <2>1, TokensApart
<1>4. /\ i \in DOMAIN t /\ i \in Nat /\ t[i].kind = kind /\ t[i].text = s /\ i + Len(a) = i + 1
  BY <1>1, <1>3, TokensOne
<1>. QED
  BY <1>1, <1>3, <1>4

\* Values in front of a result.
Prepend(values, r) == IF Failed(r) THEN r ELSE Good(values \o r.value, r.next)

LEMMA PrependNothing ==
    ASSUME NEW S, NEW r, ~Failed(r) => r = Good(r.value, r.next) /\ r.value \in Seq(S)
    PROVE  Prepend(<<>>, r) = r
<1>1. CASE Failed(r)
  BY <1>1 DEF Prepend
<1>2. CASE ~Failed(r)
  <2>1. <<>> \o r.value = r.value
    BY <1>2
  <2>. QED
    BY <1>2, <2>1 DEF Prepend
<1>. QED
  BY <1>1, <1>2

LEMMA PrependBefore ==
    ASSUME NEW S, NEW values \in Seq(S), NEW v \in S, NEW r, ~Failed(r) => r.value \in Seq(S)
    PROVE  Prepend(values, Before(v, r)) = Prepend(Append(values, v), r)
<1>1. CASE Failed(r)
  BY <1>1, BeforeFails DEF Prepend
<1>2. CASE ~Failed(r)
  <2>1. ~Failed(Before(v, r)) /\ Before(v, r).value = <<v>> \o r.value
        /\ Before(v, r).next = r.next
    BY <1>2, BeforeGives
  <2>2. Append(values, v) = values \o <<v>>
    BY AppendIsConcat
  <2>3. PICK x, u : x = <<v>> /\ u = r.value
    OBVIOUS
  <2>4. x \in Seq(S) /\ u \in Seq(S)
    BY <1>2, <2>3
  <2>5. values \o (x \o u) = (values \o x) \o u
    BY SMTT(30), <2>4
  <2>. QED
    BY <1>2, <2>1, <2>2, <2>3, <2>5 DEF Prepend
<1>. QED
  BY <1>1, <1>2

LEMMA PrependGood ==
    ASSUME NEW S, NEW values \in Seq(S), NEW next
    PROVE  Prepend(values, Good(<<>>, next)) = Good(values, next)
<1>1. PICK r : r = Good(<<>>, next)
  OBVIOUS
<1>2. ~Failed(r) /\ r.value = <<>> /\ r.next = next
  BY <1>1, Results
<1>3. values \o <<>> = values
  OBVIOUS
<1>. QED
  BY <1>1, <1>2, <1>3 DEF Prepend

\* A set with too many values is refused.
Overflows(r) == Failed(r) /\ r.error = "TooManyValues"

LEMMA OverflowIs ==
    ASSUME NEW offset
    PROVE  Overflows(Fail("TooManyValues", offset))
BY Results DEF Overflows, Fail

\* A part of an id or an interface.
NoColon(a) == \A k \in 1..Len(a) : a[k] # ":"

LEMMA PartHasNoColon ==
    ASSUME NEW part \in Text, IsIdPart(part) \/ Wild(part) \/ IsByte(part)
    PROVE  NoColon(part)
<1>1. /\ "*" # ":" /\ \A d \in FourDigits : d # ":"
      /\ \A d \in TwoDigits : d # ":"
  BY DEF FourDigits, TwoDigits, HexByte
<1>2. CASE Wild(part)
  <2>1. Len(part) = 1 /\ part[1] = "*"
    BY <1>2, WildIs
  <2>2. \A k \in 1..Len(part) : k = 1
    BY <2>1
  <2>. QED
    BY <1>1, <2>1, <2>2 DEF NoColon
<1>3. CASE Len(part) = 1 /\ (part[1] \in FourDigits \/ part[1] \in TwoDigits)
  <2>2. \A k \in 1..Len(part) : k = 1
    BY <1>3
  <2>. QED
    BY <1>1, <1>3, <2>2 DEF NoColon
<1>4. CASE Len(part) = 2 /\ part[1] \in TwoDigits /\ part[2] \in TwoDigits
  <2>2. \A k \in 1..Len(part) : k = 1 \/ k = 2
    BY <1>4
  <2>. QED
    BY <1>1, <1>4, <2>2 DEF NoColon
<1>. QED
  BY <1>2, <1>3, <1>4 DEF IsIdPart, IsByte

LEMMA StandsNumbers ==
    ASSUME NEW a \in Text, NEW word \in Text, NEW pos, Stands(a, word, pos)
    PROVE  /\ pos \in Nat /\ pos >= 1 /\ pos \in Place /\ Len(a) \in Nat /\ Len(word) \in Nat
           /\ pos + Len(a) <= Len(word) + 1
           /\ \A k \in 1..Len(a) : word[pos + k - 1] = a[k]
BY DEF Stands, Place, Text

LEMMA PartThen ==
    ASSUME NEW a \in Text, NoColon(a), NEW word \in Text, NEW pos, Stands(a, word, pos),
           pos + Len(a) <= Len(word), word[pos + Len(a)] = ":"
    PROVE  PartsFrom(word)[pos] = <<a>> \o PartsFrom(word)[(pos + Len(a)) + 1]
<1>1. PICK n, m, colon : n = Len(a) /\ m = Len(word) /\ colon = pos + Len(a)
  OBVIOUS
<1>2. /\ pos \in Nat /\ pos >= 1 /\ pos \in Place /\ n \in Nat /\ m \in Nat
      /\ \A k \in 1..n : word[pos + k - 1] = a[k]
  BY <1>1, StandsNumbers
<1>3. colon \in Nat /\ colon = pos + n /\ colon <= m /\ colon \in pos..m /\ colon # 0
      /\ word[colon] = ":"
  BY <1>1, <1>2
<1>4. PICK S : S = {i \in pos..Len(word) : word[i] = ":"}
  OBVIOUS
<1>5. S \in SUBSET Nat /\ colon \in S
  <2>1. S = {i \in pos..m : word[i] = ":"}
    BY <1>1, <1>4
  <2>. QED
    BY <1>2, <1>3, <2>1
<1>6. ASSUME NEW q \in S PROVE colon <= q
  <2>1. q \in pos..m /\ word[q] = ":"
    BY <1>1, <1>4
  <2>2. SUFFICES ASSUME q < colon PROVE FALSE
    BY <1>2, <1>3, <2>1
  <2>3. PICK k : k = q - pos + 1
    OBVIOUS
  <2>4. k \in 1..n /\ pos + k - 1 = q
    BY <1>2, <1>3, <2>1, <2>2, <2>3
  <2>. QED
    BY <1>1, <1>2, <2>1, <2>4 DEF NoColon
<1>7. First(S) = colon
  BY <1>5, <1>6, FirstAt
<1>8. PartsFrom(word)[pos] = PartsTo(PartsFrom(word), word, pos, colon)
  <2>1. PartsFrom(word)[pos] = PartsStep(PartsFrom(word), word, pos)
    BY <1>2, PartsFromIs
  <2>. QED
    BY <1>4, <1>7, <2>1 DEF PartsStep
<1>9. SubSeq(word, pos, colon - 1) = a
  <2>1. PICK hi : hi = pos + Len(a) - 1
    OBVIOUS
  <2>2. SubSeq(word, pos, hi) = a
    BY <2>1, StandsCut
  <2>3. hi = colon - 1
    BY <1>1, <1>2, <1>3, <2>1
  <2>. QED
    BY <2>2, <2>3
<1>10. PartsFrom(word)[pos] = <<a>> \o PartsFrom(word)[colon + 1]
  BY <1>3, <1>8, <1>9 DEF PartsTo
<1>. QED
  BY <1>1, <1>10

LEMMA PartLast ==
    ASSUME NEW a \in Text, NoColon(a), NEW word \in Text, NEW pos, Stands(a, word, pos),
           pos + Len(a) = Len(word) + 1
    PROVE  PartsFrom(word)[pos] = <<a>>
<1>1. PICK n, m : n = Len(a) /\ m = Len(word)
  OBVIOUS
<1>2. /\ pos \in Nat /\ pos >= 1 /\ pos \in Place /\ n \in Nat /\ m \in Nat
      /\ \A k \in 1..n : word[pos + k - 1] = a[k]
  BY <1>1, StandsNumbers
<1>3. pos + n = m + 1
  BY <1>1
<1>4. PICK S : S = {i \in pos..Len(word) : word[i] = ":"}
  OBVIOUS
<1>5. S = {}
  <2>1. SUFFICES ASSUME NEW q \in S PROVE FALSE
    OBVIOUS
  <2>2. q \in pos..m /\ word[q] = ":"
    BY <1>1, <1>4
  <2>3. PICK k : k = q - pos + 1
    OBVIOUS
  <2>4. k \in 1..n /\ pos + k - 1 = q
    BY <1>2, <1>3, <2>2, <2>3
  <2>. QED
    BY <1>1, <1>2, <2>2, <2>4 DEF NoColon
<1>6. First(S) = 0
  BY <1>5, FirstIs
<1>7. PartsFrom(word)[pos] = PartsTo(PartsFrom(word), word, pos, 0)
  <2>1. PartsFrom(word)[pos] = PartsStep(PartsFrom(word), word, pos)
    BY <1>2, PartsFromIs
  <2>. QED
    BY <1>4, <1>6, <2>1 DEF PartsStep
<1>8. SubSeq(word, pos, Len(word)) = a
  <2>1. PICK hi : hi = pos + Len(a) - 1
    OBVIOUS
  <2>2. SubSeq(word, pos, hi) = a
    BY <2>1, StandsCut
  <2>3. hi = Len(word)
    BY <1>1, <1>2, <1>3, <2>1
  <2>. QED
    BY <2>2, <2>3
<1>. QED
  BY <1>7, <1>8 DEF PartsTo

\* What follows a colon.
LEMMA ColonApart ==
    ASSUME NEW a \in Text, NEW b \in Text, NEW word \in Text, NEW pos,
           Stands(a \o (<<":">> \o b), word, pos)
    PROVE  /\ Stands(a, word, pos) /\ pos + Len(a) <= Len(word) /\ word[pos + Len(a)] = ":"
           /\ Stands(b, word, (pos + Len(a)) + 1)
           /\ pos + Len(a \o (<<":">> \o b)) = ((pos + Len(a)) + 1) + Len(b)
<1>1. PICK c, d, m : c = <<":">> /\ d = c \o b /\ m = pos + Len(a)
  OBVIOUS
<1>2. c \in Text /\ d \in Text
  BY <1>1, ColonIs, TextTyped
<1>3. Stands(a, word, pos) /\ Stands(d, word, m) /\ pos + Len(a \o d) = m + Len(d)
  <2>1. Stands(a \o d, word, pos)
    BY <1>1
  <2>2. /\ Stands(a, word, pos) /\ Stands(d, word, pos + Len(a))
        /\ pos + Len(a \o d) = (pos + Len(a)) + Len(d)
    BY <1>2, <2>1, StandsApart
  <2>. QED
    BY <1>1, <2>2
<1>4. Stands(c, word, m) /\ Stands(b, word, m + Len(c)) /\ m + Len(d) = (m + Len(c)) + Len(b)
  <2>1. Stands(c \o b, word, m)
    BY <1>1, <1>3
  <2>2. /\ Stands(c, word, m) /\ Stands(b, word, m + Len(c))
        /\ m + Len(c \o b) = (m + Len(c)) + Len(b)
    BY <1>2, <2>1, StandsApart
  <2>. QED
    BY <1>1, <2>2
<1>5. m <= Len(word) /\ word[m] = ":" /\ m + Len(c) = m + 1
  BY <1>1, <1>4, StandsOne
<1>. QED
  BY <1>1, <1>3, <1>4, <1>5

LEMMA PartsOfTwo ==
    ASSUME NEW a \in Text, NEW b \in Text, NoColon(a), NoColon(b), NEW word \in Text, NEW pos,
           Stands(a \o (<<":">> \o b), word, pos),
           pos + Len(a \o (<<":">> \o b)) = Len(word) + 1
    PROVE  PartsFrom(word)[pos] = <<a>> \o <<b>>
<1>1. PICK colon, next : colon = pos + Len(a) /\ next = colon + 1
  OBVIOUS
<1>2. /\ Stands(a, word, pos) /\ colon <= Len(word) /\ word[colon] = ":" /\ Stands(b, word, next)
      /\ next + Len(b) = Len(word) + 1
  BY <1>1, ColonApart
<1>3. PartsFrom(word)[pos] = <<a>> \o PartsFrom(word)[next]
  <2>1. pos + Len(a) <= Len(word) /\ word[pos + Len(a)] = ":"
    BY <1>1, <1>2
  <2>2. PartsFrom(word)[pos] = <<a>> \o PartsFrom(word)[(pos + Len(a)) + 1]
    BY <1>2, <2>1, PartThen
  <2>. QED
    BY <1>1, <2>2
<1>4. PartsFrom(word)[next] = <<b>>
  BY <1>2, PartLast
<1>. QED
  BY <1>1, <1>3, <1>4

LEMMA PartsOfTwoParts ==
    ASSUME NEW a \in Text, NEW b \in Text, NoColon(a), NoColon(b)
    PROVE  Parts(Joined(":", <<a, b>>)) = <<a, b>>
<1>1. PICK word : word = a \o (<<":">> \o b)
  OBVIOUS
<1>2. word \in Text
  BY <1>1, ColonIs, TextTyped
<1>3. Joined(":", <<a, b>>) = word
  BY <1>1, ColonIs, JoinedTwo
<1>4. Stands(word, word, 1) /\ 1 + Len(word) = Len(word) + 1
  BY <1>2, StandsWhole DEF Text
<1>5. PartsFrom(word)[1] = <<a>> \o <<b>>
  <2>1. 1 + Len(a \o (<<":">> \o b)) = Len(word) + 1 /\ Stands(a \o (<<":">> \o b), word, 1)
    BY <1>1, <1>4
  <2>. QED
    BY <1>2, <2>1, PartsOfTwo
<1>6. <<a>> \o <<b>> = <<a, b>>
  BY Two
<1>. QED
  BY <1>2, <1>3, <1>5, <1>6, PartsFromIs

LEMMA AppendThird ==
    ASSUME NEW S, NEW p \in S, NEW q \in S, NEW r \in S
    PROVE  /\ <<p, q>> \in Seq(S) /\ Len(<<p, q>>) = 2
           /\ Append(<<p, q>>, r) = <<p, q, r>>
<1>1. PICK a : a = <<p, q>>
  OBVIOUS
<1>2. a \in Seq(S) /\ Len(a) = 2 /\ a[1] = p /\ a[2] = q
  BY <1>1
<1>3. PICK b, c : b = Append(a, r) /\ c = <<p, q, r>>
  OBVIOUS
<1>4. b \in Seq(S) /\ Len(b) = 3 /\ b[1] = p /\ b[2] = q /\ b[3] = r
  <2>1. PICK n : n = Len(a)
    OBVIOUS
  <2>2. n = 2 /\ n + 1 = 3 /\ 1 \in 1..n /\ 2 \in 1..n
    BY <1>2, <2>1
  <2>3. a \in Seq(S) /\ b = Append(a, r)
    BY <1>2, <1>3
  <2>4. /\ b \in Seq(S) /\ Len(b) = Len(a) + 1 /\ b[Len(a) + 1] = r
        /\ \A i \in 1..Len(a) : b[i] = a[i]
    BY <2>3, AppendProperties
  <2>. QED
    BY <1>2, <2>1, <2>2, <2>4
<1>5. c \in Seq(S) /\ Len(c) = 3 /\ c[1] = p /\ c[2] = q /\ c[3] = r
  BY <1>3
<1>6. \A i \in 1..3 : b[i] = c[i]
  BY <1>4, <1>5
<1>7. b = c
  BY <1>4, <1>5, <1>6, SeqEqual
<1>. QED
  BY <1>1, <1>2, <1>3, <1>7

LEMMA PartsOfThreeParts ==
    ASSUME NEW a \in Text, NEW b \in Text, NEW c \in Text, NoColon(a), NoColon(b), NoColon(c)
    PROVE  Parts(Joined(":", <<a, b, c>>)) = <<a, b, c>>
<1>1. PICK col : col = <<":">>
  OBVIOUS
<1>2. col \in Text
  BY <1>1, ColonIs
<1>3. PICK tail : tail = b \o (col \o c)
  OBVIOUS
<1>4. PICK word : word = a \o (col \o tail)
  OBVIOUS
<1>5. tail \in Text /\ word \in Text
  BY <1>2, <1>3, <1>4, TextTyped
<1>6. Joined(":", <<a, b, c>>) = word
  <2>1. Joined(":", <<a, b, c>>) = (a \o (col \o b)) \o (col \o c)
    BY ZenonT(60), <1>1, ColonIs, JoinedThree
  <2>2. (a \o (col \o b)) \o (col \o c) = a \o ((col \o b) \o (col \o c))
    <3>1. PICK x, y : x = col \o b /\ y = col \o c
      OBVIOUS
    <3>2. x \in Text /\ y \in Text
      BY <1>2, <3>1, TextTyped
    <3>3. (a \o x) \o y = a \o (x \o y)
      BY SMTT(30), <3>2 DEF Text
    <3>. QED
      BY <3>1, <3>3
  <2>3. (col \o b) \o (col \o c) = col \o tail
    <3>1. PICK y : y = col \o c
      OBVIOUS
    <3>2. y \in Text
      BY <1>2, <3>1, TextTyped
    <3>3. (col \o b) \o y = col \o (b \o y)
      BY SMTT(30), <1>2, <3>2 DEF Text
    <3>. QED
      BY <1>3, <3>1, <3>3
  <2>. QED
    BY <1>4, <2>1, <2>2, <2>3
<1>7. Stands(word, word, 1) /\ 1 + Len(word) = Len(word) + 1
  BY <1>5, StandsWhole DEF Text
<1>8. PICK colon, next : colon = 1 + Len(a) /\ next = colon + 1
  OBVIOUS
<1>9. /\ Stands(a, word, 1) /\ colon <= Len(word) /\ word[colon] = ":" /\ Stands(tail, word, next)
      /\ next + Len(tail) = Len(word) + 1
  <2>1. Stands(a \o (<<":">> \o tail), word, 1) /\ word = a \o (<<":">> \o tail)
    BY <1>1, <1>4, <1>7
  <2>2. /\ Stands(a, word, 1) /\ colon <= Len(word) /\ word[colon] = ":"
        /\ Stands(tail, word, next)
        /\ 1 + Len(a \o (<<":">> \o tail)) = next + Len(tail)
    BY <1>5, <1>8, <2>1, ColonApart
  <2>. QED
    BY <1>7, <2>1, <2>2
<1>10. PartsFrom(word)[1] = <<a>> \o PartsFrom(word)[next]
  <2>1. 1 + Len(a) <= Len(word) /\ word[1 + Len(a)] = ":"
    BY <1>8, <1>9
  <2>2. PartsFrom(word)[1] = <<a>> \o PartsFrom(word)[(1 + Len(a)) + 1]
    BY <1>5, <1>9, <2>1, PartThen
  <2>. QED
    BY <1>8, <2>2
<1>11. PartsFrom(word)[next] = <<b>> \o <<c>>
  <2>1. Stands(b \o (<<":">> \o c), word, next)
        /\ next + Len(b \o (<<":">> \o c)) = Len(word) + 1
    BY <1>1, <1>3, <1>9
  <2>. QED
    BY <1>5, <2>1, PartsOfTwo
<1>12. <<a>> \o (<<b>> \o <<c>>) = <<a, b, c>>
  <2>1. PICK s, u, v : s = <<a>> /\ u = <<b>> /\ v = <<c>>
    OBVIOUS
  <2>2. s \in Seq(Text) /\ u \in Seq(Text) /\ v \in Seq(Text)
    BY <2>1
  <2>3. s \o (u \o v) = (s \o u) \o v
    BY SMTT(30), <2>2
  <2>4. s \o u = <<a, b>>
    BY <2>1, Two
  <2>5. PICK w : w = <<a, b>>
    OBVIOUS
  <2>6. w \in Seq(Text) /\ Append(w, c) = <<a, b, c>>
    BY <2>5, AppendThird
  <2>7. Append(w, c) = w \o v
    BY <2>1, <2>6, AppendIsConcat
  <2>. QED
    BY <2>1, <2>3, <2>4, <2>5, <2>6, <2>7
<1>. QED
  BY <1>5, <1>6, <1>10, <1>11, <1>12, PartsFromIs

-----------------------------------------------------------------------------
(* Values.                                                                 *)

\* A word of more than one glyph is no keyword.
Long(w) == w \in Text /\ Len(w) > 1

LEMMA LongJoined ==
    ASSUME NEW a \in Text, NEW b \in Text, AWord(a), AWord(b)
    PROVE  Long(a \o (<<":">> \o b))
<1>1. PICK c : c = <<":">>
  OBVIOUS
<1>2. c \in Text /\ Len(c) = 1
  BY <1>1, ColonIs
<1>3. Len(a) \in Nat /\ Len(a) # 0 /\ Len(b) \in Nat
  BY DEF AWord, Text
<1>4. PICK d : d = c \o b
  OBVIOUS
<1>5. d \in Text /\ Len(d) = 1 + Len(b)
  <2>1. d \in Text
    BY <1>2, <1>4, TextTyped
  <2>2. Len(c \o b) = Len(c) + Len(b)
    BY <1>2, ConcatProperties DEF Text
  <2>. QED
    BY <1>2, <1>4, <2>1, <2>2
<1>6. Len(a \o d) = Len(a) + Len(d) /\ a \o d \in Text
  BY <1>5 DEF Text
<1>7. Long(a \o d)
  BY <1>3, <1>5, <1>6 DEF Long
<1>. QED
  BY <1>1, <1>4, <1>7

\* An id or an interface is read back from its parts.
LEMMA PartsBack ==
    ASSUME NEW name \in AttributeName, name \notin StringAttributes, NEW v, IsValue(name, v)
    PROVE  Parts(Joined(":", v)) = v /\ Long(Joined(":", v))
<1>1. v \in Seq(Text)
  BY DEF IsValue, AttributeValue
<1>2. CASE name = "id"
  <2>1. /\ Len(v) = 2 /\ IsIdPart(v[1]) /\ IsIdPart(v[2])
    BY <1>2 DEF IsValue, IsUsbId
  <2>2. PICK a, b : a = v[1] /\ b = v[2]
    OBVIOUS
  <2>3. a \in Text /\ b \in Text /\ v = <<a, b>>
    BY <1>1, <2>1, <2>2
  <2>4. AWord(a) /\ AWord(b) /\ NoColon(a) /\ NoColon(b)
    BY <2>1, <2>2, <2>3, PartIsWord, PartHasNoColon
  <2>5. Joined(":", v) = a \o (<<":">> \o b)
    BY <2>3, ColonIs, JoinedTwo
  <2>6. Parts(Joined(":", <<a, b>>)) = <<a, b>>
    BY <2>3, <2>4, PartsOfTwoParts
  <2>7. Long(a \o (<<":">> \o b))
    BY <2>3, <2>4, LongJoined
  <2>. QED
    BY <2>3, <2>5, <2>6, <2>7
<1>3. CASE name = "with-interface"
  <2>1. Len(v) = 3 /\ IsByte(v[1]) /\ (Wild(v[2]) \/ IsByte(v[2])) /\ (Wild(v[3]) \/ IsByte(v[3]))
    BY <1>3 DEF IsValue, IsInterface
  <2>2. PICK a, b, c : a = v[1] /\ b = v[2] /\ c = v[3]
    OBVIOUS
  <2>3. a \in Text /\ b \in Text /\ c \in Text /\ v = <<a, b, c>>
    <3>0. \A k \in 1..3 : v[k] \in Text
      BY <1>1, <2>1
    <3>1. a \in Text /\ b \in Text /\ c \in Text
      BY <2>2, <3>0
    <3>2. PICK u : u = <<a, b, c>>
      OBVIOUS
    <3>3. u \in Seq(Text) /\ Len(u) = 3 /\ u[1] = a /\ u[2] = b /\ u[3] = c
      BY <3>1, <3>2
    <3>4. \A k \in 1..3 : u[k] = v[k]
      BY <2>2, <3>3
    <3>5. u = v
      BY <1>1, <2>1, <3>3, <3>4, SeqEqual
    <3>. QED
      BY <3>1, <3>2, <3>5
  <2>4. AWord(a) /\ AWord(b) /\ AWord(c) /\ NoColon(a) /\ NoColon(b) /\ NoColon(c)
    BY <2>1, <2>2, <2>3, PartIsWord, PartHasNoColon
  <2>5. Joined(":", v) = (a \o (<<":">> \o b)) \o (<<":">> \o c)
    BY ZenonT(60), <2>3, ColonIs, JoinedThree
  <2>6. Parts(Joined(":", <<a, b, c>>)) = <<a, b, c>>
    BY <2>3, <2>4, PartsOfThreeParts
  <2>7. Long(Joined(":", v))
    <3>1. PICK d : d = a \o (<<":">> \o b)
      OBVIOUS
    <3>2. d \in Text /\ AWord(d)
      BY <2>3, <2>4, <3>1, ColonIs, WordAndWord, TextTyped
    <3>3. Long(d \o (<<":">> \o c))
      BY <2>3, <2>4, <3>2, LongJoined
    <3>. QED
      BY <2>5, <3>1, <3>3
  <2>. QED
    BY <2>3, <2>6, <2>7
<1>4. name \in {"id", "with-interface"}
  BY DEF AttributeName
<1>. QED
  BY <1>2, <1>3, <1>4

\* The token is that of a value, and of no operator.
ValueToken(name, v, token) ==
    /\ ValueAt(name, token) = Good(v, 0)
    /\ token.kind \in {"Word", "Str"}
    /\ token.kind = "Word" => Keyword(token.text) \notin SetOperator

LEMMA ValueGiven ==
    ASSUME NEW name, NEW token, NEW v \in AttributeValue, ParseValue(name, token) = v
    PROVE  ValueAt(name, token) = Good(v, 0)
<1>1. v # None
  BY RuleLanguageAssumption
<1>. QED
  BY <1>1 DEF ValueAt

LEMMA ValueBack ==
    ASSUME NEW name \in AttributeName, NEW v, IsValue(name, v), NEW t \in TokenList, NEW i,
           TokensAt(t, i, ValueSpec(name, v))
    PROVE  /\ i \in DOMAIN t /\ i \in Nat /\ ValueToken(name, v, t[i])
           /\ i + Len(ValueSpec(name, v)) = i + 1
<1>1. v \in AttributeValue /\ v \in Seq(Text)
  BY DEF IsValue, AttributeValue
<1>2. CASE name \in StringAttributes
  <2>1. Len(v) = 1
    BY <1>2 DEF IsValue
  <2>2. PICK s : s = v[1]
    OBVIOUS
  <2>3. v = <<s>>
    BY <1>1, <2>1, <2>2
  <2>4. ValueSpec(name, v) = <<P("Str", s)>>
    BY <1>2, <2>2 DEF ValueSpec
  <2>5. /\ i \in DOMAIN t /\ i \in Nat /\ t[i].kind = "Str" /\ t[i].text = s
        /\ i + Len(<<P("Str", s)>>) = i + 1
    BY <2>4, TokensOne
  <2>6. ParseValue(name, t[i]) = v
    BY <1>2, <2>3, <2>5 DEF ParseValue
  <2>7. ValueAt(name, t[i]) = Good(v, 0)
    BY <1>1, <2>6, ValueGiven
  <2>. QED
    BY <2>4, <2>5, <2>7 DEF ValueToken
<1>3. CASE name \notin StringAttributes
  <2>1. PICK w : w = Joined(":", v)
    OBVIOUS
  <2>2. Parts(w) = v /\ Long(w)
    BY <1>3, <2>1, PartsBack
  <2>3. ValueSpec(name, v) = <<P("Word", w)>>
    BY <1>3, <2>1 DEF ValueSpec, Word
  <2>4. /\ i \in DOMAIN t /\ i \in Nat /\ t[i].kind = "Word" /\ t[i].text = w
        /\ i + Len(<<P("Word", w)>>) = i + 1
    BY <2>3, TokensOne
  <2>5. Structured(name, v) = v
    <3>1. PICK u : u = [k \in DOMAIN v |-> LowerPart(v[k])]
      OBVIOUS
    <3>2. u = v
      <4>1. \A k \in DOMAIN v : LowerPart(v[k]) = v[k]
        BY <1>3 DEF IsValue
      <4>. QED
        BY <1>1, <3>1, <4>1
    <3>3. (name = "id" /\ IsUsbId(v)) \/ (name = "with-interface" /\ IsInterface(v))
      BY <1>3 DEF IsValue, AttributeName
    <3>. QED
      BY <3>1, <3>2, <3>3 DEF Structured
  <2>6. ParseValue(name, t[i]) = v
    BY <1>3, <2>2, <2>4, <2>5 DEF ParseValue, ParseStructured
  <2>7. ValueAt(name, t[i]) = Good(v, 0)
    BY <1>1, <2>6, ValueGiven
  <2>8. Keyword(w) \notin SetOperator
    <3>1. Len(w) # 1
      <4>1. PICK n : n = Len(w)
        OBVIOUS
      <4>2. n > 1 /\ n \in Nat
        BY <2>2, <4>1 DEF Long, Text
      <4>. QED
        BY <4>1, <4>2
    <3>. QED
      BY <3>1 DEF Keyword, SetOperator
  <2>. QED
    BY <2>3, <2>4, <2>7, <2>8 DEF ValueToken
<1>. QED
  BY <1>2, <1>3

-----------------------------------------------------------------------------
(* Sets of values.                                                         *)

LEMMA AppendedIs ==
    ASSUME NEW S, NEW f \in Seq(S), NEW g \in Seq(S), NEW y \in S, Len(g) = Len(f) + 1,
           g[Len(f) + 1] = y, \A k \in 1..Len(f) : g[k] = f[k]
    PROVE  g = Append(f, y)
<1>1. PICK n, h : n = Len(f) /\ h = Append(f, y)
  OBVIOUS
<1>2. /\ h \in Seq(S) /\ Len(h) = Len(f) + 1 /\ h[Len(f) + 1] = y
      /\ \A i \in 1..Len(f) : h[i] = f[i]
  BY <1>1, AppendProperties
<1>3. ASSUME NEW i \in 1..Len(g) PROVE g[i] = h[i]
  <2>1. n \in Nat /\ Len(g) = n + 1
    BY <1>1
  <2>2. i \in 1..n \/ i = n + 1
    BY <2>1
  <2>. QED
    BY <1>1, <1>2, <2>2
<1>4. g = h
  BY <1>2, <1>3, SeqEqual
<1>. QED
  BY <1>1, <1>4

LEMMA ValueSpecTyped ==
    ASSUME NEW name \in AttributeName, NEW v \in ValueOfName(name)
    PROVE  ValueSpec(name, v) \in Seq(Piece) /\ Len(ValueSpec(name, v)) = 1 /\ IsValue(name, v)
BY ReadsValue DEF ValueOfName

LEMMA ValueSpecsMore ==
    ASSUME NEW name \in AttributeName, NEW vs \in Seq(ValueOfName(name)), NEW v \in ValueOfName(name)
    PROVE  /\ ValueSpecs(name, vs) \in Seq(Seq(Piece)) /\ Len(ValueSpecs(name, vs)) = Len(vs)
           /\ ValueSpecs(name, Append(vs, v)) = Append(ValueSpecs(name, vs), ValueSpec(name, v))
<1>1. PICK S, ws, n : S = ValueOfName(name) /\ ws = Append(vs, v) /\ n = Len(vs)
  OBVIOUS
<1>2. /\ vs \in Seq(S) /\ ws \in Seq(S) /\ Len(ws) = n + 1 /\ n \in Nat /\ ws[n + 1] = v
      /\ \A i \in 1..n : ws[i] = vs[i]
  <2>1. /\ ws \in Seq(S) /\ Len(ws) = Len(vs) + 1 /\ ws[Len(vs) + 1] = v
        /\ \A i \in 1..Len(vs) : ws[i] = vs[i]
    BY <1>1, AppendProperties
  <2>. QED
    BY <1>1, <2>1
<1>3. \A x \in S : ValueSpec(name, x) \in Seq(Piece)
  BY <1>1, ValueSpecTyped
<1>4. PICK f, g : f = ValueSpecs(name, vs) /\ g = ValueSpecs(name, ws)
  OBVIOUS
<1>5. f \in [1..n -> Seq(Piece)] /\ \A k \in 1..n : f[k] = ValueSpec(name, vs[k])
  <2>1. DOMAIN vs = 1..n /\ \A k \in 1..n : vs[k] \in S
    BY <1>1, <1>2
  <2>. QED
    BY <1>3, <1>4, <2>1 DEF ValueSpecs
<1>6. g \in [1..n + 1 -> Seq(Piece)] /\ \A k \in 1..n + 1 : g[k] = ValueSpec(name, ws[k])
  <2>1. DOMAIN ws = 1..n + 1 /\ \A k \in 1..n + 1 : ws[k] \in S
    BY <1>2
  <2>. QED
    BY <1>3, <1>4, <2>1 DEF ValueSpecs
<1>7. f \in Seq(Seq(Piece)) /\ Len(f) = n
  BY <1>2, <1>5, TypedSeq
<1>8. g \in Seq(Seq(Piece)) /\ Len(g) = n + 1
  <2>1. n + 1 \in Nat
    BY <1>2
  <2>. QED
    BY <1>6, <2>1, TypedSeq
<1>9. g[Len(f) + 1] = ValueSpec(name, v) /\ \A k \in 1..Len(f) : g[k] = f[k]
  <2>1. n + 1 \in 1..n + 1 /\ \A k \in 1..n : k \in 1..n + 1
    BY <1>2
  <2>. QED
    BY <1>2, <1>5, <1>6, <1>7, <2>1
<1>10. ValueSpec(name, v) \in Seq(Piece)
  BY ValueSpecTyped
<1>11. g = Append(f, ValueSpec(name, v))
  BY <1>7, <1>8, <1>9, <1>10, AppendedIs
<1>. QED
  BY <1>1, <1>4, <1>7, <1>11

\* The tokens of the values, and one more of them.
LEMMA ValueTokensMore ==
    ASSUME NEW name \in AttributeName, NEW vs \in Seq(ValueOfName(name)), NEW v \in ValueOfName(name)
    PROVE  /\ FlattenSeq(ValueSpecs(name, vs)) \in Seq(Piece)
           /\ FlattenSeq(ValueSpecs(name, Append(vs, v)))
                = FlattenSeq(ValueSpecs(name, vs)) \o ValueSpec(name, v)
<1>1. PICK f, x : f = ValueSpecs(name, vs) /\ x = ValueSpec(name, v)
  OBVIOUS
<1>2. f \in Seq(Seq(Piece)) /\ x \in Seq(Piece)
  BY <1>1, ValueSpecsMore, ValueSpecTyped
<1>3. ValueSpecs(name, Append(vs, v)) = Append(f, x)
  BY <1>1, ValueSpecsMore
<1>4. FlattenSeq(f) \in Seq(Piece) /\ FlattenSeq(Append(f, x)) = FlattenSeq(f) \o x
  BY <1>2, FlattenTyped, FlattenMore
<1>. QED
  BY <1>1, <1>3, <1>4

LEMMA NoValueTokens ==
    ASSUME NEW name
    PROVE  FlattenSeq(ValueSpecs(name, <<>>)) = <<>>
<1>1. ValueSpecs(name, <<>>) = <<>>
  BY DEF ValueSpecs
<1>. QED
  BY <1>1, FlattenNone

\* The loop moves past the values, or there are too many.
SetSkips(f, first, vs) ==
    IF Len(vs) <= MAX_SET_VALUES THEN f[first] = Prepend(vs, f[first + Len(vs)])
    ELSE Overflows(f[first])

LEMMA SetSkipsMore ==
    ASSUME NEW name \in AttributeName, NEW t \in TokenList, NEW first \in DOMAIN t,
           NEW vs \in Seq(ValueOfName(name)), NEW v \in ValueOfName(name),
           first + Len(vs) \in DOMAIN t, ValueToken(name, v, t[first + Len(vs)]),
           SetSkips(SetFrom(name, t, first), first, vs)
    PROVE  SetSkips(SetFrom(name, t, first), first, Append(vs, v))
<1>1. PICK f, n, i, S : /\ f = SetFrom(name, t, first) /\ n = Len(vs) /\ i = first + n
                        /\ S = ValueOfName(name)
  OBVIOUS
<1>2. /\ i \in DOMAIN t /\ ValueToken(name, v, t[i]) /\ n \in Nat /\ vs \in Seq(S) /\ v \in S
      /\ first \in Nat /\ i \in Nat /\ MAX_SET_VALUES \in Nat
  <2>1. first \in Nat /\ n \in Nat
    BY <1>1, TokenAt
  <2>. QED
    BY <1>1, <2>1, Bounds
<1>3. /\ f \in SetReads(name, t, first)
      /\ f[i] = SetStep(f, name, t, first, i)
  BY <1>1, <1>2, SetFromIs
<1>4. /\ t[i].kind # "}" /\ t[i].kind # "End" /\ ValueAt(name, t[i]) = Good(v, 0)
  BY <1>2 DEF ValueToken
<1>5. Len(Append(vs, v)) = n + 1
  BY <1>1
<1>6. Within(first, i) <=> n < MAX_SET_VALUES
  <2>1. i - first = n
    BY <1>1, <1>2
  <2>. QED
    BY <1>2, <2>1, WithinIs
<1>7. CASE n < MAX_SET_VALUES
  <2>1. f[i] = Before(v, f[i + 1])
    <3>1. SetStep(f, name, t, first, i) = 
            IF Failed(ValueAt(name, t[i])) THEN ValueAt(name, t[i])
            ELSE Before(ValueAt(name, t[i]).value, f[i + 1])
      BY <1>2, <1>4, <1>6, <1>7, SetStepGoesOn
    <3>2. ~Failed(ValueAt(name, t[i])) /\ ValueAt(name, t[i]).value = v
      <4>1. ~Failed(Good(v, 0)) /\ Good(v, 0).value = v
        BY Results
      <4>. QED
        BY <1>4, <4>1
    <3>. QED
      BY <1>3, <3>1, <3>2
  <2>2. f[first] = Prepend(vs, f[i])
    <3>1. n <= MAX_SET_VALUES
      BY <1>2, <1>7
    <3>. QED
      BY <1>1, <3>1 DEF SetSkips
  <2>3. PICK r, j : r = f[i + 1] /\ j = i + 1
    OBVIOUS
  <2>4. ~Failed(r) => r.value \in Seq(S)
    <3>1. j \in DOMAIN t
      BY <1>2, <1>4, <2>3, NotTheEnd
    <3>2. r \in Read(Seq(S), t, 0)
      BY <1>1, <1>3, <2>3, <3>1 DEF SetReads
    <3>. QED
      BY <3>2, ReadValue
  <2>5. Prepend(vs, Before(v, r)) = Prepend(Append(vs, v), r)
    BY <1>2, <2>4, PrependBefore
  <2>6. f[first] = Prepend(Append(vs, v), f[first + (n + 1)])
    <3>1. j = first + (n + 1)
      BY <1>1, <1>2, <2>3
    <3>. QED
      BY <2>1, <2>2, <2>3, <2>5, <3>1
  <2>7. n + 1 <= MAX_SET_VALUES
    BY <1>2, <1>7
  <2>. QED
    BY <1>1, <1>5, <2>6, <2>7 DEF SetSkips
<1>8. CASE ~(n < MAX_SET_VALUES)
  <2>1. Overflows(f[i])
    <3>1. SetStep(f, name, t, first, i) = Fail("TooManyValues", t[i].offset)
      BY <1>2, <1>4, <1>6, <1>8, SetStepFull
    <3>. QED
      BY <1>3, <3>1, OverflowIs
  <2>2. Overflows(f[first])
    <3>1. CASE n <= MAX_SET_VALUES
      <4>1. f[first] = Prepend(vs, f[i])
        BY <1>1, <3>1 DEF SetSkips
      <4>. QED
        BY <2>1, <4>1 DEF Prepend, Overflows
    <3>2. CASE ~(n <= MAX_SET_VALUES)
      BY <1>1, <3>2 DEF SetSkips
    <3>. QED
      BY <3>1, <3>2
  <2>3. ~(n + 1 <= MAX_SET_VALUES)
    BY <1>2, <1>8
  <2>. QED
    BY <1>1, <1>5, <2>2, <2>3 DEF SetSkips
<1>. QED
  BY <1>7, <1>8

LEMMA SetSkipsNothing ==
    ASSUME NEW name \in AttributeName, NEW t \in TokenList, NEW first \in DOMAIN t
    PROVE  SetSkips(SetFrom(name, t, first), first, <<>>)
<1>1. PICK f, r, S : f = SetFrom(name, t, first) /\ r = f[first] /\ S = ValueOfName(name)
  OBVIOUS
<1>2. ~Failed(r) => r = Good(r.value, r.next) /\ r.value \in Seq(S)
  <2>1. f \in SetReads(name, t, first)
    BY <1>1, SetFromIs
  <2>2. r \in Read(Seq(S), t, 0)
    BY <1>1, <2>1 DEF SetReads
  <2>. QED
    BY <2>2, ReadValue
<1>3. Prepend(<<>>, r) = r
  BY <1>2, PrependNothing
<1>4. first + Len(<<>>) = first /\ Len(<<>>) <= MAX_SET_VALUES
  BY SMTT(30), TokenAt, Bounds
<1>. QED
  BY <1>1, <1>3, <1>4 DEF SetSkips

\* The values are there, and the token behind them.
ValuesThere(name, t, first, vs) ==
    TokensAt(t, first, FlattenSeq(ValueSpecs(name, vs))) =>
        /\ Len(FlattenSeq(ValueSpecs(name, vs))) = Len(vs)
        /\ SetSkips(SetFrom(name, t, first), first, vs)

LEMMA ValuesThereMore ==
    ASSUME NEW name \in AttributeName, NEW t \in TokenList, NEW first \in DOMAIN t,
           NEW vs \in Seq(ValueOfName(name)), NEW v \in ValueOfName(name),
           ValuesThere(name, t, first, vs)
    PROVE  ValuesThere(name, t, first, Append(vs, v))
<1>1. PICK a, b, ws : /\ a = FlattenSeq(ValueSpecs(name, vs)) /\ b = ValueSpec(name, v)
                      /\ ws = Append(vs, v)
  OBVIOUS
<1>2. a \in Seq(Piece) /\ b \in Seq(Piece) /\ Len(b) = 1 /\ IsValue(name, v)
  BY <1>1, ValueTokensMore, ValueSpecTyped
<1>3. FlattenSeq(ValueSpecs(name, ws)) = a \o b
  BY <1>1, ValueTokensMore
<1>4. SUFFICES ASSUME TokensAt(t, first, a \o b)
               PROVE  Len(a \o b) = Len(ws) /\ SetSkips(SetFrom(name, t, first), first, ws)
  BY <1>1, <1>3 DEF ValuesThere
<1>5. TokensAt(t, first, a) /\ TokensAt(t, first + Len(a), b)
  BY <1>2, <1>4, TokensApart
<1>6. Len(a) = Len(vs) /\ SetSkips(SetFrom(name, t, first), first, vs)
  BY <1>1, <1>5 DEF ValuesThere
<1>7. PICK i : i = first + Len(a)
  OBVIOUS
<1>8. i \in DOMAIN t /\ ValueToken(name, v, t[i])
  <2>1. TokensAt(t, i, ValueSpec(name, v))
    BY <1>1, <1>5, <1>7
  <2>. QED
    BY <1>2, <2>1, ValueBack
<1>9. SetSkips(SetFrom(name, t, first), first, Append(vs, v))
  <2>1. first + Len(vs) \in DOMAIN t /\ ValueToken(name, v, t[first + Len(vs)])
    BY <1>6, <1>7, <1>8
  <2>. QED
    BY <1>6, <2>1, SetSkipsMore
<1>10. Len(a \o b) = Len(ws)
  <2>1. Len(a \o b) = Len(a) + Len(b)
    BY <1>2, ConcatProperties
  <2>2. Len(ws) = Len(vs) + 1
    BY <1>1, AppendProperties
  <2>. QED
    BY <1>2, <1>6, <2>1, <2>2
<1>. QED
  BY <1>1, <1>9, <1>10

LEMMA ValuesAreThere ==
    ASSUME NEW name \in AttributeName, NEW t \in TokenList, NEW first \in DOMAIN t,
           NEW vs \in Seq(ValueOfName(name))
    PROVE  ValuesThere(name, t, first, vs)
<1>1. PICK S, T : S = ValueOfName(name) /\ T = {ws \in Seq(S) : ValuesThere(name, t, first, ws)}
  OBVIOUS
<1>2. <<>> \in T
  <2>1. SetSkips(SetFrom(name, t, first), first, <<>>)
    BY SetSkipsNothing
  <2>2. FlattenSeq(ValueSpecs(name, <<>>)) = <<>>
    BY NoValueTokens
  <2>3. ValuesThere(name, t, first, <<>>)
    BY <2>1, <2>2 DEF ValuesThere
  <2>4. <<>> \in Seq(S)
    OBVIOUS
  <2>. QED
    BY <1>1, <2>3, <2>4
<1>3. ASSUME NEW p \in Seq(S), NEW x \in S, p \in T PROVE Append(p, x) \in T
  <2>1. ValuesThere(name, t, first, p)
    BY <1>1, <1>3
  <2>2. ValuesThere(name, t, first, Append(p, x))
    BY <1>1, <2>1, ValuesThereMore
  <2>3. Append(p, x) \in Seq(S)
    OBVIOUS
  <2>. QED
    BY <1>1, <2>2, <2>3
<1>4. Seq(S) \subseteq T
  BY <1>2, <1>3, AppendInduction
<1>. QED
  BY <1>1, <1>4

\* Values up to a brace are read, or there are too many.
LEMMA SetBack ==
    ASSUME NEW name \in AttributeName, NEW t \in TokenList, NEW first \in DOMAIN t,
           NEW vs \in Seq(ValueOfName(name)),
           TokensAt(t, first, FlattenSeq(ValueSpecs(name, vs)) \o <<CloseBrace>>)
    PROVE  /\ Len(vs) <= MAX_SET_VALUES =>
                ParseSet(name, t, first)
                  = Good(vs, first + Len(FlattenSeq(ValueSpecs(name, vs)) \o <<CloseBrace>>))
           /\ ~(Len(vs) <= MAX_SET_VALUES) => Overflows(ParseSet(name, t, first))
<1>1. PICK a, b, f, S : /\ a = FlattenSeq(ValueSpecs(name, vs)) /\ b = <<CloseBrace>>
                        /\ f = SetFrom(name, t, first) /\ S = ValueOfName(name)
  OBVIOUS
<1>2. a \in Seq(Piece) /\ b \in Seq(Piece)
  <2>1. ValueSpecs(name, vs) \in Seq(Seq(Piece))
    <3>1. \A x \in S : ValueSpec(name, x) \in Seq(Piece)
      BY <1>1, ValueSpecTyped
    <3>2. vs \in Seq(S) /\ Len(vs) \in Nat /\ DOMAIN vs = 1..Len(vs)
      BY <1>1
    <3>3. \A k \in 1..Len(vs) : vs[k] \in S
      BY <3>2
    <3>4. ValueSpecs(name, vs) \in [1..Len(vs) -> Seq(Piece)]
      BY <3>1, <3>2, <3>3 DEF ValueSpecs
    <3>. QED
      BY <3>2, <3>4, TypedSeq
  <2>2. FlattenSeq(ValueSpecs(name, vs)) \in Seq(Piece)
    BY <2>1, FlattenTyped
  <2>. QED
    BY <1>1, <2>2, BracesAre
<1>3. /\ TokensAt(t, first, a) /\ TokensAt(t, first + Len(a), b)
      /\ first + Len(a \o b) = (first + Len(a)) + Len(b)
  <2>1. TokensAt(t, first, a \o b)
    BY <1>1
  <2>. QED
    BY <1>2, <2>1, TokensApart
<1>4. Len(a) = Len(vs) /\ SetSkips(f, first, vs)
  <2>1. ValuesThere(name, t, first, vs)
    BY ValuesAreThere
  <2>. QED
    BY <1>1, <1>3, <2>1 DEF ValuesThere
<1>5. PICK i : i = first + Len(a)
  OBVIOUS
<1>6. /\ i \in DOMAIN t /\ t[i].kind = "}" /\ i + Len(b) = i + 1
  <2>1. PICK kind, s : kind = "}" /\ s = <<>>
    OBVIOUS
  <2>2. b = <<P(kind, s)>>
    BY <1>1, <2>1 DEF CloseBrace
  <2>3. TokensAt(t, i, <<P(kind, s)>>)
    BY <1>3, <1>5, <2>2
  <2>4. /\ i \in DOMAIN t /\ t[i].kind = kind /\ i + Len(<<P(kind, s)>>) = i + 1
    BY <2>3, TokensOne
  <2>. QED
    BY <2>1, <2>2, <2>4
<1>7. f[i] = Good(<<>>, i + 1)
  <2>1. f[i] = SetStep(f, name, t, first, i)
    BY <1>1, <1>6, SetFromIs
  <2>. QED
    BY <1>6, <2>1, SetStepEnds
<1>8. ParseSet(name, t, first) = f[first]
  BY <1>1, SetFromIs
<1>9. CASE Len(vs) <= MAX_SET_VALUES
  <2>1. f[first] = Prepend(vs, f[i])
    BY <1>4, <1>5, <1>9 DEF SetSkips
  <2>2. Prepend(vs, Good(<<>>, i + 1)) = Good(vs, i + 1)
    BY PrependGood
  <2>3. first + Len(a \o b) = i + 1
    BY <1>3, <1>5, <1>6
  <2>. QED
    BY <1>1, <1>7, <1>8, <1>9, <2>1, <2>2, <2>3
<1>10. CASE ~(Len(vs) <= MAX_SET_VALUES)
  BY <1>4, <1>8, <1>10 DEF SetSkips
<1>. QED
  BY <1>9, <1>10

-----------------------------------------------------------------------------
(* The values of an attribute.                                             *)

LEMMA KeywordOne ==
    ASSUME NEW k
    PROVE  Keyword(<<k>>) = k /\ <<k>>[1] = k
BY DEF Keyword

\* A set begins at i: its operator, and its brace at j.
SetAt(t, i, operator, j) ==
    /\ i \in DOMAIN t /\ j \in DOMAIN t /\ j + 1 \in DOMAIN t /\ i \in Nat /\ j \in Nat
    /\ Operator(t, i) = operator /\ j = IF operator = None THEN i ELSE i + 1
    /\ t[j].kind = "{" /\ ExpectBrace(t, j) = Good(TRUE, j + 1)

LEMMA OperatorThere ==
    ASSUME NEW operator \in SetOperator \cup {None}, NEW rest \in Seq(Piece),
           NEW t \in TokenList, NEW i, TokensAt(t, i, OperatorSpec(operator) \o (<<OpenBrace>> \o rest))
    PROVE  \E j : /\ SetAt(t, i, operator, j) /\ TokensAt(t, j + 1, rest)
                  /\ i + Len(OperatorSpec(operator) \o (<<OpenBrace>> \o rest)) = (j + 1) + Len(rest)
<1>1. PICK b, c : b = <<OpenBrace>> /\ c = b \o rest
  OBVIOUS
<1>2. b \in Seq(Piece) /\ c \in Seq(Piece)
  BY <1>1, BracesAre, ConcatProperties
<1>3. ASSUME NEW j, TokensAt(t, j, c)
      PROVE  /\ j \in DOMAIN t /\ j \in Nat /\ t[j].kind = "{" /\ j + 1 \in DOMAIN t
             /\ ExpectBrace(t, j) = Good(TRUE, j + 1)
             /\ TokensAt(t, j + 1, rest) /\ j + Len(c) = (j + 1) + Len(rest)
  <2>1. PICK kind, s : kind = "{" /\ s = <<>>
    OBVIOUS
  <2>2. kind \in TokenKind /\ s \in Text /\ b = <<P(kind, s)>>
    <3>1. kind \in TokenKind
      BY <2>1, KindsAre
    <3>2. s \in Text
      <4>1. <<>> \in Text
        BY DEF Text
      <4>. QED
        BY <2>1, <4>1
    <3>3. b = <<P(kind, s)>>
      BY <1>1, <2>1 DEF OpenBrace
    <3>. QED
      BY <3>1, <3>2, <3>3
  <2>3. TokensAt(t, j, <<P(kind, s)>> \o rest)
    BY <1>1, <1>3, <2>2
  <2>4. /\ j \in DOMAIN t /\ j \in Nat /\ t[j].kind = kind
        /\ TokensAt(t, j + 1, rest) /\ j + Len(<<P(kind, s)>> \o rest) = (j + 1) + Len(rest)
    BY <2>2, <2>3, TokensFirst
  <2>5. t[j].kind # "End"
    BY <2>1, <2>4
  <2>6. j + 1 \in DOMAIN t
    BY <2>4, <2>5, NotTheEnd
  <2>7. ExpectBrace(t, j) = Good(TRUE, j + 1)
    BY <2>1, <2>4 DEF ExpectBrace
  <2>. QED
    BY <1>1, <2>1, <2>2, <2>4, <2>6, <2>7
<1>4. CASE operator = None
  <2>1. OperatorSpec(operator) \o c = c
    BY <1>2, <1>4, ConcatEmptySeq DEF OperatorSpec
  <2>2. TokensAt(t, i, c)
    BY <1>1, <2>1
  <2>3. /\ i \in DOMAIN t /\ i \in Nat /\ t[i].kind = "{" /\ i + 1 \in DOMAIN t
        /\ ExpectBrace(t, i) = Good(TRUE, i + 1)
        /\ TokensAt(t, i + 1, rest) /\ i + Len(c) = (i + 1) + Len(rest)
    BY <1>3, <2>2
  <2>4. Operator(t, i) = None
    BY <2>3 DEF Operator
  <2>5. SetAt(t, i, operator, i)
    BY <1>4, <2>3, <2>4 DEF SetAt
  <2>. QED
    BY <1>1, <2>1, <2>3, <2>5
<1>5. CASE operator # None
  <2>1. PICK kind, s, j : kind = "Word" /\ s = <<operator>> /\ j = i + 1
    OBVIOUS
  <2>2. operator \in SetOperator
    BY <1>5
  <2>3. kind \in TokenKind /\ s \in Text
    <3>1. operator \in Glyph
      BY <2>2, WrittenGlyphs
    <3>. QED
      BY <2>1, <3>1, KindsAre, GlyphTyped
  <2>4. OperatorSpec(operator) = <<P(kind, s)>>
    BY <1>5, <2>1 DEF OperatorSpec, Word
  <2>5. TokensAt(t, i, <<P(kind, s)>> \o c)
    BY <1>1, <2>4
  <2>6. /\ i \in DOMAIN t /\ i \in Nat /\ t[i].kind = kind /\ t[i].text = s
        /\ TokensAt(t, i + 1, c) /\ i + Len(<<P(kind, s)>> \o c) = (i + 1) + Len(c)
    BY <1>2, <2>3, <2>5, TokensFirst
  <2>7. TokensAt(t, j, c) /\ i + Len(OperatorSpec(operator) \o c) = j + Len(c)
    BY <2>1, <2>4, <2>6
  <2>8. /\ j \in DOMAIN t /\ j \in Nat /\ t[j].kind = "{" /\ j + 1 \in DOMAIN t
        /\ ExpectBrace(t, j) = Good(TRUE, j + 1)
        /\ TokensAt(t, j + 1, rest) /\ j + Len(c) = (j + 1) + Len(rest)
    BY <1>3, <2>7
  <2>9. Operator(t, i) = operator
    <3>1. Keyword(s) = operator /\ s[1] = operator
      BY <2>1, KeywordOne
    <3>. QED
      BY <2>1, <2>2, <2>6, <3>1 DEF Operator
  <2>10. SetAt(t, i, operator, j)
    BY <1>5, <2>1, <2>6, <2>8, <2>9 DEF SetAt
  <2>11. i + Len(OperatorSpec(operator) \o c) = (j + 1) + Len(rest)
    BY <2>7, <2>8
  <2>. QED
    BY <1>1, <2>8, <2>10, <2>11
<1>. QED
  BY <1>4, <1>5

LEMMA SetSpecIs ==
    ASSUME NEW operator \in SetOperator \cup {None}, NEW x, FlattenSeq(x) \in Seq(Piece)
    PROVE  /\ FlattenSeq(x) \o <<CloseBrace>> \in Seq(Piece)
           /\ SetSpec(operator, x)
                = OperatorSpec(operator) \o (<<OpenBrace>> \o (FlattenSeq(x) \o <<CloseBrace>>))
<1>1. PICK o, b, f, c : /\ o = OperatorSpec(operator) /\ b = <<OpenBrace>> /\ f = FlattenSeq(x)
                        /\ c = <<CloseBrace>>
  OBVIOUS
<1>2. o \in Seq(Piece) /\ b \in Seq(Piece) /\ f \in Seq(Piece) /\ c \in Seq(Piece)
  BY <1>1, OperatorMatches, BracesAre
<1>3. o \o b \in Seq(Piece) /\ b \o f \in Seq(Piece) /\ f \o c \in Seq(Piece)
  BY <1>2, ConcatProperties
<1>4. ((o \o b) \o f) \o c = (o \o b) \o (f \o c)
  <2>1. PICK x1 : x1 = o \o b
    OBVIOUS
  <2>2. x1 \in Seq(Piece)
    BY <1>3, <2>1
  <2>3. (x1 \o f) \o c = x1 \o (f \o c)
    BY SMTT(30), <1>2, <2>2
  <2>. QED
    BY <2>1, <2>3
<1>5. (o \o b) \o (f \o c) = o \o (b \o (f \o c))
  <2>1. PICK x1 : x1 = f \o c
    OBVIOUS
  <2>2. x1 \in Seq(Piece)
    BY <1>3, <2>1
  <2>3. (o \o b) \o x1 = o \o (b \o x1)
    BY SMTT(30), <1>2, <2>2
  <2>. QED
    BY <2>1, <2>3
<1>6. SetSpec(operator, x) = ((o \o b) \o f) \o c
  BY <1>1 DEF SetSpec
<1>. QED
  BY <1>1, <1>3, <1>4, <1>5, <1>6

\* The result is this value up to a place, or there are too many values.
Outcome(r, value, next, full) ==
    /\ ~full => r = Good(value, next)
    /\ full => Overflows(r)

Overfull(vs) == vs.set /\ ~(Len(vs.values) <= MAX_SET_VALUES)

LEMMA OverflowFails == ASSUME NEW r, Overflows(r) PROVE Failed(r)
BY DEF Overflows

LEMMA SingleBack ==
    ASSUME NEW name \in AttributeName, NEW v, IsValue(name, v), NEW t \in TokenList, NEW i,
           TokensAt(t, i, ValueSpec(name, v))
    PROVE  /\ ParseAttributeValues(name, t, i)
                = Good([set |-> FALSE, operator |-> None, values |-> <<v>>], i + 1)
           /\ i + Len(ValueSpec(name, v)) = i + 1
<1>1. i \in DOMAIN t /\ i \in Nat /\ ValueToken(name, v, t[i]) /\ i + Len(ValueSpec(name, v)) = i + 1
  BY ValueBack
<1>2. ValueAt(name, t[i]) = Good(v, 0) /\ t[i].kind \notin {"End", "{"}
  BY <1>1 DEF ValueToken
<1>3. Operator(t, i) = None
  BY <1>1 DEF ValueToken, Operator
<1>4. ~Failed(Good(v, 0)) /\ Good(v, 0).value = v
  BY Results
<1>5. ValuesAfter(None, name, t, i)
        = IF Failed(ValueAt(name, t[i])) THEN ValueAt(name, t[i])
          ELSE Good([set |-> FALSE, operator |-> None, values |-> <<ValueAt(name, t[i]).value>>], i + 1)
  BY <1>2 DEF ValuesAfter, Then
<1>. QED
  BY <1>1, <1>2, <1>3, <1>4, <1>5 DEF ParseAttributeValues

\* What is set, and what is not.
LEMMA AnyValuesIs ==
    ASSUME NEW name, NEW vs, IsAnyValues(name, vs)
    PROVE  /\ vs.set \in BOOLEAN /\ vs.operator \in SetOperator \cup {None}
           /\ vs.values \in Seq(ValueOfName(name))
           /\ vs = [set |-> vs.set, operator |-> vs.operator, values |-> vs.values]
           /\ ~vs.set => /\ vs.operator = None /\ IsValue(name, vs.values[1])
                         /\ vs.values = <<vs.values[1]>>
<1>1. /\ vs \in [set : BOOLEAN, operator : SetOperator \cup {None}, values : Seq(AttributeValue)]
      /\ \A k \in DOMAIN vs.values : IsValue(name, vs.values[k])
      /\ ~vs.set => vs.operator = None /\ Len(vs.values) = 1
  BY DEF IsAnyValues
<1>2. PICK s : s = vs.values
  OBVIOUS
<1>3. s \in Seq(AttributeValue) /\ \A k \in DOMAIN s : IsValue(name, s[k])
  BY <1>1, <1>2
<1>4. s \in Seq(ValueOfName(name))
  <2>1. s \in [1..Len(s) -> AttributeValue] /\ Len(s) \in Nat /\ DOMAIN s = 1..Len(s)
    BY <1>3
  <2>2. \A k \in 1..Len(s) : s[k] \in ValueOfName(name)
    BY <1>3, <2>1 DEF ValueOfName
  <2>3. s \in [1..Len(s) -> ValueOfName(name)]
    BY <2>1, <2>2
  <2>. QED
    BY <2>1, <2>3, TypedSeq
<1>5. vs = [set |-> vs.set, operator |-> vs.operator, values |-> vs.values]
  BY <1>1
<1>6. ASSUME ~vs.set PROVE vs.operator = None /\ IsValue(name, s[1]) /\ s = <<s[1]>>
  <2>1. vs.operator = None /\ Len(s) = 1
    BY <1>1, <1>2, <1>6
  <2>2. 1 \in DOMAIN s /\ s = <<s[1]>>
    BY <1>3, <2>1
  <2>. QED
    BY <1>3, <2>1, <2>2
<1>. QED
  BY <1>1, <1>2, <1>4, <1>5, <1>6

LEMMA ValueTokensTyped ==
    ASSUME NEW name \in AttributeName, NEW vs \in Seq(ValueOfName(name))
    PROVE  FlattenSeq(ValueSpecs(name, vs)) \in Seq(Piece)
<1>1. PICK S : S = ValueOfName(name)
  OBVIOUS
<1>2. \A x \in S : ValueSpec(name, x) \in Seq(Piece)
  BY <1>1, ValueSpecTyped
<1>3. vs \in Seq(S) /\ Len(vs) \in Nat /\ DOMAIN vs = 1..Len(vs)
  BY <1>1
<1>4. \A k \in 1..Len(vs) : vs[k] \in S
  BY <1>3
<1>5. ValueSpecs(name, vs) \in [1..Len(vs) -> Seq(Piece)]
  BY <1>2, <1>3, <1>4 DEF ValueSpecs
<1>6. ValueSpecs(name, vs) \in Seq(Seq(Piece))
  BY <1>3, <1>5, TypedSeq
<1>. QED
  BY <1>6, FlattenTyped

\* A set of values is read back.
LEMMA SetOfValuesBack ==
    ASSUME NEW name \in AttributeName, NEW operator \in SetOperator \cup {None},
           NEW vs \in Seq(ValueOfName(name)), NEW t \in TokenList, NEW i,
           TokensAt(t, i, SetSpec(operator, ValueSpecs(name, vs)))
    PROVE  Outcome(ParseAttributeValues(name, t, i),
                   [set |-> TRUE, operator |-> operator, values |-> vs],
                   i + Len(SetSpec(operator, ValueSpecs(name, vs))),
                   ~(Len(vs) <= MAX_SET_VALUES))
<1>1. PICK x, rest, r : /\ x = ValueSpecs(name, vs) /\ rest = FlattenSeq(x) \o <<CloseBrace>>
                        /\ r = ParseAttributeValues(name, t, i)
  OBVIOUS
<1>2. /\ rest \in Seq(Piece)
      /\ SetSpec(operator, x) = OperatorSpec(operator) \o (<<OpenBrace>> \o rest)
  <2>1. FlattenSeq(x) \in Seq(Piece)
    BY <1>1, ValueTokensTyped
  <2>. QED
    BY <1>1, <2>1, SetSpecIs
<1>3. PICK j : /\ SetAt(t, i, operator, j) /\ TokensAt(t, j + 1, rest)
               /\ i + Len(OperatorSpec(operator) \o (<<OpenBrace>> \o rest)) = (j + 1) + Len(rest)
  <2>1. TokensAt(t, i, OperatorSpec(operator) \o (<<OpenBrace>> \o rest))
    BY <1>1, <1>2
  <2>. QED
    BY <1>2, <2>1, OperatorThere
<1>4. PICK first, set : first = j + 1 /\ set = ParseSet(name, t, first)
  OBVIOUS
<1>5. /\ first \in DOMAIN t /\ Operator(t, i) = operator /\ j = IF operator = None THEN i ELSE i + 1
      /\ t[j].kind = "{" /\ ExpectBrace(t, j) = Good(TRUE, first)
  BY <1>3, <1>4 DEF SetAt
<1>6. /\ Len(vs) <= MAX_SET_VALUES => set = Good(vs, first + Len(rest))
      /\ ~(Len(vs) <= MAX_SET_VALUES) => Overflows(set)
  <2>1. TokensAt(t, first, FlattenSeq(ValueSpecs(name, vs)) \o <<CloseBrace>>)
    BY <1>1, <1>3, <1>4
  <2>. QED
    BY <1>1, <1>4, <1>5, <2>1, SetBack
<1>7. r = IF Failed(set) THEN set
          ELSE Good([set |-> TRUE, operator |-> operator, values |-> set.value], set.next)
  <2>1. /\ ~(operator = None /\ t[i].kind = "End")
        /\ ~(operator = None /\ t[i].kind \notin {"End", "{"})
    BY <1>5
  <2>2. ~Failed(Good(TRUE, first)) /\ Good(TRUE, first).next = first
    BY Results
  <2>3. ValuesAfter(operator, name, t, i)
          = Then(ExpectBrace(t, j), LAMBDA brace :
                 Then(ParseSet(name, t, brace.next), LAMBDA s :
                      Good([set |-> TRUE, operator |-> operator, values |-> s.value], s.next)))
    BY <1>5, <2>1 DEF ValuesAfter
  <2>. QED
    BY <1>1, <1>4, <1>5, <2>2, <2>3 DEF ParseAttributeValues, Then
<1>8. i + Len(SetSpec(operator, x)) = first + Len(rest)
  BY <1>2, <1>3, <1>4
<1>9. CASE Len(vs) <= MAX_SET_VALUES
  <2>1. PICK next : next = first + Len(rest)
    OBVIOUS
  <2>2. ~Failed(Good(vs, next)) /\ Good(vs, next).value = vs /\ Good(vs, next).next = next
    BY Results
  <2>3. r = Good([set |-> TRUE, operator |-> operator, values |-> vs], next)
    BY <1>6, <1>7, <1>9, <2>1, <2>2
  <2>. QED
    BY <1>1, <1>8, <1>9, <2>1, <2>3 DEF Outcome
<1>10. CASE ~(Len(vs) <= MAX_SET_VALUES)
  <2>1. Overflows(r)
    BY <1>6, <1>7, <1>10, OverflowFails
  <2>. QED
    BY <1>1, <1>10, <2>1 DEF Outcome
<1>. QED
  BY <1>9, <1>10

LEMMA ValuesBack ==
    ASSUME NEW name \in AttributeName, NEW vs, IsAnyValues(name, vs), NEW t \in TokenList, NEW i,
           TokensAt(t, i, ValuesSpec(name, vs))
    PROVE  Outcome(ParseAttributeValues(name, t, i), vs, i + Len(ValuesSpec(name, vs)), Overfull(vs))
<1>1. PICK operator, values : operator = vs.operator /\ values = vs.values
  OBVIOUS
<1>2. /\ vs.set \in BOOLEAN /\ operator \in SetOperator \cup {None}
      /\ values \in Seq(ValueOfName(name))
      /\ vs = [set |-> vs.set, operator |-> operator, values |-> values]
      /\ ~vs.set => operator = None /\ IsValue(name, values[1]) /\ values = <<values[1]>>
  BY <1>1, AnyValuesIs
<1>3. CASE vs.set
  <2>1. ValuesSpec(name, vs) = SetSpec(operator, ValueSpecs(name, values))
    BY <1>1, <1>3 DEF ValuesSpec
  <2>2. Outcome(ParseAttributeValues(name, t, i),
                [set |-> TRUE, operator |-> operator, values |-> values],
                i + Len(SetSpec(operator, ValueSpecs(name, values))),
                ~(Len(values) <= MAX_SET_VALUES))
    BY <1>2, <2>1, SetOfValuesBack
  <2>3. vs = [set |-> TRUE, operator |-> operator, values |-> values]
    BY <1>2, <1>3
  <2>4. Overfull(vs) <=> ~(Len(values) <= MAX_SET_VALUES)
    BY <1>1, <1>3 DEF Overfull
  <2>. QED
    BY <2>1, <2>2, <2>3, <2>4 DEF Outcome
<1>4. CASE ~vs.set
  <2>1. PICK v : v = values[1]
    OBVIOUS
  <2>2. ValuesSpec(name, vs) = ValueSpec(name, v) /\ IsValue(name, v) /\ values = <<v>>
    BY <1>1, <1>2, <1>4, <2>1 DEF ValuesSpec
  <2>3. /\ ParseAttributeValues(name, t, i)
             = Good([set |-> FALSE, operator |-> None, values |-> <<v>>], i + 1)
        /\ i + Len(ValueSpec(name, v)) = i + 1
    BY <2>2, SingleBack
  <2>4. vs = [set |-> FALSE, operator |-> None, values |-> <<v>>] /\ ~Overfull(vs)
    BY <1>2, <1>4, <2>2 DEF Overfull
  <2>. QED
    BY <2>2, <2>3, <2>4 DEF Outcome
<1>. QED
  BY <1>2, <1>3, <1>4

-----------------------------------------------------------------------------
(* Attributes.                                                             *)

LEMMA AnyAttributeIs ==
    ASSUME NEW a \in AnyAttribute
    PROVE  /\ a.name \in AttributeName /\ IsAnyValues(a.name, a.values)
           /\ a = [name |-> a.name, values |-> a.values]
BY DEF AnyAttribute, Attribute

\* The name of an attribute is at i, and the attribute is read back from there.
LEMMA AttributeBack ==
    ASSUME NEW a \in AnyAttribute, NEW t \in TokenList, NEW i, TokensAt(t, i, AttributeSpec(a))
    PROVE  /\ i \in DOMAIN t /\ i \in Nat /\ t[i].kind = "Word" /\ Keyword(t[i].text) = a.name
           /\ Outcome(NamedAttribute(a.name, t, i), a, i + Len(AttributeSpec(a)), Overfull(a.values))
<1>1. PICK name, vs, rest : name = a.name /\ vs = a.values /\ rest = ValuesSpec(name, vs)
  OBVIOUS
<1>2. /\ name \in AttributeName /\ IsAnyValues(name, vs) /\ a = [name |-> name, values |-> vs]
  BY <1>1, AnyAttributeIs
<1>3. PICK kind, s : kind = "Word" /\ s = <<name>>
  OBVIOUS
<1>4. kind \in TokenKind /\ s \in Text /\ rest \in Seq(Piece)
  <2>1. name \in Glyph
    BY <1>2, WrittenGlyphs
  <2>2. <<name>> \in Text
    BY <2>1, GlyphTyped
  <2>3. rest \in Seq(Piece)
    BY <1>1, <1>2, ReadsValues
  <2>4. kind \in TokenKind
    BY <1>3, KindsAre
  <2>. QED
    BY <1>3, <2>2, <2>3, <2>4
<1>5. AttributeSpec(a) = <<P(kind, s)>> \o rest
  BY <1>1, <1>3 DEF AttributeSpec, Word
<1>6. /\ i \in DOMAIN t /\ i \in Nat /\ t[i].kind = kind /\ t[i].text = s
      /\ TokensAt(t, i + 1, rest) /\ i + Len(<<P(kind, s)>> \o rest) = (i + 1) + Len(rest)
  <2>1. TokensAt(t, i, <<P(kind, s)>> \o rest)
    BY <1>5
  <2>. QED
    BY <1>4, <2>1, TokensFirst
<1>7. Keyword(s) = name
  BY <1>3, KeywordOne
<1>8. PICK j, r : j = i + 1 /\ r = ParseAttributeValues(name, t, j)
  OBVIOUS
<1>9. Outcome(r, vs, j + Len(rest), Overfull(vs))
  <2>1. TokensAt(t, j, ValuesSpec(name, vs))
    BY <1>1, <1>6, <1>8
  <2>2. Outcome(ParseAttributeValues(name, t, j), vs, j + Len(ValuesSpec(name, vs)), Overfull(vs))
    BY <1>2, <2>1, ValuesBack
  <2>. QED
    BY <1>1, <1>8, <2>2
<1>10. NamedAttribute(name, t, i)
         = IF Failed(r) THEN r ELSE Good([name |-> name, values |-> r.value], r.next)
  BY <1>8 DEF NamedAttribute, Then
<1>11. PICK next : next = j + Len(rest)
  OBVIOUS
<1>12. CASE ~Overfull(vs)
  <2>1. r = Good(vs, next)
    BY <1>9, <1>11, <1>12 DEF Outcome
  <2>2. ~Failed(Good(vs, next)) /\ Good(vs, next).value = vs /\ Good(vs, next).next = next
    BY Results
  <2>3. NamedAttribute(name, t, i) = Good(a, next)
    BY <1>2, <1>10, <2>1, <2>2
  <2>4. Outcome(NamedAttribute(name, t, i), a, next, Overfull(vs))
    BY <1>12, <2>3 DEF Outcome
  <2>5. i + Len(AttributeSpec(a)) = next
    BY <1>5, <1>6, <1>8, <1>11
  <2>. QED
    BY <1>1, <1>3, <1>6, <1>7, <2>4, <2>5
<1>13. CASE Overfull(vs)
  <2>1. Overflows(r)
    BY <1>9, <1>13 DEF Outcome
  <2>2. NamedAttribute(name, t, i) = r
    BY <1>10, <2>1, OverflowFails
  <2>3. Outcome(NamedAttribute(name, t, i), a, i + Len(AttributeSpec(a)), Overfull(vs))
    BY <1>13, <2>1, <2>2 DEF Outcome
  <2>. QED
    BY <1>1, <1>3, <1>6, <1>7, <2>3
<1>. QED
  BY <1>12, <1>13

AttributeNames(ats) == {ats[k].name : k \in DOMAIN ats}
AnyOverfull(ats) == \E k \in DOMAIN ats : Overfull(ats[k].values)

\* One attribute more.
LEMMA AttributesMore ==
    ASSUME NEW ats \in Seq(AnyAttribute), NEW a \in AnyAttribute
    PROVE  /\ AttributeNames(Append(ats, a)) = AttributeNames(ats) \cup {a.name}
           /\ AnyOverfull(Append(ats, a)) <=> AnyOverfull(ats) \/ Overfull(a.values)
           /\ Distinct(Append(ats, a), {}) => Distinct(ats, {}) /\ a.name \notin AttributeNames(ats)
           /\ AttributeNames(ats) \in SUBSET AttributeName
<1>1. PICK bs, n : bs = Append(ats, a) /\ n = Len(ats)
  OBVIOUS
<1>2. /\ Len(bs) = n + 1 /\ n \in Nat /\ bs[n + 1] = a /\ \A k \in 1..n : bs[k] = ats[k]
  <2>1. /\ Len(bs) = Len(ats) + 1 /\ bs[Len(ats) + 1] = a
        /\ \A k \in 1..Len(ats) : bs[k] = ats[k]
    BY <1>1, AppendProperties
  <2>. QED
    BY <1>1, <2>1
<1>3. /\ DOMAIN ats = 1..n /\ DOMAIN bs = 1..n + 1 /\ n + 1 \in 1..n + 1
      /\ \A k \in 1..n : k \in 1..n + 1 /\ k # n + 1
      /\ \A k \in 1..n + 1 : k \in 1..n \/ k = n + 1
  <2>1. bs \in Seq(AnyAttribute)
    BY <1>1
  <2>2. DOMAIN ats = 1..Len(ats) /\ DOMAIN bs = 1..Len(bs)
    BY <2>1
  <2>. QED
    BY <1>1, <1>2, <2>2
<1>4. AttributeNames(bs) = AttributeNames(ats) \cup {a.name}
  BY <1>2, <1>3 DEF AttributeNames
<1>5. AnyOverfull(bs) <=> AnyOverfull(ats) \/ Overfull(a.values)
  BY <1>2, <1>3 DEF AnyOverfull
<1>6. ASSUME Distinct(bs, {}) PROVE Distinct(ats, {}) /\ a.name \notin AttributeNames(ats)
  <2>1. \A j \in 1..n + 1 : \A k \in 1..n + 1 : bs[j].name = bs[k].name => j = k
    BY <1>3, <1>6 DEF Distinct
  <2>2. Distinct(ats, {})
    BY <1>2, <1>3, <2>1 DEF Distinct
  <2>3. ASSUME NEW k \in 1..n PROVE ats[k].name # a.name
    BY <1>2, <1>3, <2>1
  <2>. QED
    BY <1>3, <2>2, <2>3 DEF AttributeNames
<1>7. AttributeNames(ats) \in SUBSET AttributeName
  <2>1. \A k \in 1..n : ats[k] \in AnyAttribute
    BY <1>1
  <2>2. \A k \in 1..n : ats[k].name \in AttributeName
    BY <2>1, AnyAttributeIs
  <2>. QED
    BY <1>3, <2>2 DEF AttributeNames
<1>. QED
  BY <1>1, <1>4, <1>5, <1>6, <1>7

LEMMA AttributeSpecTyped ==
    ASSUME NEW a \in AnyAttribute
    PROVE  AttributeSpec(a) \in Seq(Piece)
BY ReadsAttribute

LEMMA AttributeTokensMore ==
    ASSUME NEW ats \in Seq(AnyAttribute), NEW a \in AnyAttribute
    PROVE  /\ FlattenSeq(AttributeSpecs(ats)) \in Seq(Piece)
           /\ FlattenSeq(AttributeSpecs(Append(ats, a)))
                = FlattenSeq(AttributeSpecs(ats)) \o AttributeSpec(a)
<1>1. PICK S, ws, n : S = AnyAttribute /\ ws = Append(ats, a) /\ n = Len(ats)
  OBVIOUS
<1>2. /\ ats \in Seq(S) /\ ws \in Seq(S) /\ Len(ws) = n + 1 /\ n \in Nat /\ ws[n + 1] = a
      /\ \A i \in 1..n : ws[i] = ats[i]
  <2>1. /\ ws \in Seq(S) /\ Len(ws) = Len(ats) + 1 /\ ws[Len(ats) + 1] = a
        /\ \A i \in 1..Len(ats) : ws[i] = ats[i]
    BY <1>1, AppendProperties
  <2>. QED
    BY <1>1, <2>1
<1>3. \A x \in S : AttributeSpec(x) \in Seq(Piece)
  BY <1>1, AttributeSpecTyped
<1>4. PICK f, g : f = AttributeSpecs(ats) /\ g = AttributeSpecs(ws)
  OBVIOUS
<1>5. f \in [1..n -> Seq(Piece)] /\ \A k \in 1..n : f[k] = AttributeSpec(ats[k])
  <2>1. DOMAIN ats = 1..n /\ \A k \in 1..n : ats[k] \in S
    BY <1>1, <1>2
  <2>. QED
    BY <1>3, <1>4, <2>1 DEF AttributeSpecs
<1>6. g \in [1..n + 1 -> Seq(Piece)] /\ \A k \in 1..n + 1 : g[k] = AttributeSpec(ws[k])
  <2>1. DOMAIN ws = 1..n + 1 /\ \A k \in 1..n + 1 : ws[k] \in S
    BY <1>2
  <2>. QED
    BY <1>3, <1>4, <2>1 DEF AttributeSpecs
<1>7. f \in Seq(Seq(Piece)) /\ Len(f) = n
  BY <1>2, <1>5, TypedSeq
<1>8. g \in Seq(Seq(Piece)) /\ Len(g) = n + 1
  <2>1. n + 1 \in Nat
    BY <1>2
  <2>. QED
    BY <1>6, <2>1, TypedSeq
<1>9. g[Len(f) + 1] = AttributeSpec(a) /\ \A k \in 1..Len(f) : g[k] = f[k]
  <2>1. n + 1 \in 1..n + 1 /\ \A k \in 1..n : k \in 1..n + 1
    BY <1>2
  <2>. QED
    BY <1>2, <1>5, <1>6, <1>7, <2>1
<1>10. PICK x : x = AttributeSpec(a)
  OBVIOUS
<1>11. x \in Seq(Piece)
  BY <1>10, AttributeSpecTyped
<1>12. g = Append(f, x)
  BY <1>7, <1>8, <1>9, <1>10, <1>11, AppendedIs
<1>13. FlattenSeq(f) \in Seq(Piece) /\ FlattenSeq(Append(f, x)) = FlattenSeq(f) \o x
  BY <1>7, <1>11, FlattenTyped, FlattenMore
<1>. QED
  BY <1>1, <1>4, <1>10, <1>12, <1>13

\* The loop moves past the attributes to next, or one of them has too many
\* values.
AttributesSkip(f, first, ats, next) ==
    IF AnyOverfull(ats) THEN Overflows(f[first][{}])
    ELSE f[first][{}] = Prepend(ats, f[next][AttributeNames(ats)])

LEMMA AttributesFromTyped ==
    ASSUME NEW t \in TokenList, NEW i \in DOMAIN t, NEW seen \in SUBSET AttributeName
    PROVE  ~Failed(AttributesFrom(t)[i][seen]) =>
              /\ AttributesFrom(t)[i][seen].value \in Seq(AnyAttribute)
              /\ AttributesFrom(t)[i][seen]
                   = Good(AttributesFrom(t)[i][seen].value, AttributesFrom(t)[i][seen].next)
<1>1. PICK r : r = AttributesFrom(t)[i][seen]
  OBVIOUS
<1>2. r \in ReadFrom(Seq(AttributeOf), t, i)
  <2>1. AttributesFrom(t) \in AttributesReads(t)
    BY AttributesFromIs
  <2>2. AttributesRead(t, AttributesFrom(t)[i][seen], i, seen)
    BY <2>1 DEF AttributesReads
  <2>. QED
    BY <1>1, <2>2 DEF AttributesRead
<1>3. ASSUME ~Failed(r) PROVE r.value \in Seq(AnyAttribute) /\ r = Good(r.value, r.next)
  <2>1. r.value \in Seq(AttributeOf)
    BY <1>2, <1>3, ReadFromValue
  <2>2. r \notin Error
    BY <1>3 DEF Error, Failed
  <2>3. r \in [value : Seq(AttributeOf), next : {j \in DOMAIN t : j >= i}]
    BY <1>2, <2>2 DEF ReadFrom
  <2>4. r = Good(r.value, r.next)
    BY <2>3 DEF Good
  <2>5. r.value \in Seq(AnyAttribute)
    BY <2>1, AttributeIsAny, SeqMono
  <2>. QED
    BY <2>4, <2>5
<1>. QED
  BY <1>1, <1>3

\* The attribute at next is read, or has too many values.
LEMMA AttributeRead ==
    ASSUME NEW t \in TokenList, NEW a \in AnyAttribute, NEW seen \in SUBSET AttributeName,
           a.name \notin seen, NEW i, TokensAt(t, i, AttributeSpec(a))
    PROVE  IF Overfull(a.values) THEN Overflows(AttributesFrom(t)[i][seen])
           ELSE /\ i + Len(AttributeSpec(a)) \in DOMAIN t
                /\ AttributesFrom(t)[i][seen]
                     = Before(a, AttributesFrom(t)[i + Len(AttributeSpec(a))][seen \cup {a.name}])
<1>1. PICK f, r, next, name : /\ f = AttributesFrom(t) /\ name = a.name
                              /\ r = NamedAttribute(name, t, i) /\ next = i + Len(AttributeSpec(a))
  OBVIOUS
<1>2. /\ i \in DOMAIN t /\ t[i].kind = "Word" /\ Keyword(t[i].text) = name
      /\ Outcome(r, a, next, Overfull(a.values)) /\ name \in AttributeName
  BY <1>1, AttributeBack, AnyAttributeIs
<1>3. f[i][seen] = AttributeAt(f, name, seen, t, i)
  <2>1. f[i] = AttributesStep(f, t, i)
    BY <1>1, <1>2, AttributesFromIs
  <2>. QED
    BY <1>2, <2>1 DEF AttributesStep
<1>4. BeginsAttribute(name, seen, t[i])
  BY <1>1, <1>2 DEF BeginsAttribute
<1>5. f[i][seen] = WithAttribute(f, r, seen \cup {name})
  <2>1. AttributeAt(f, name, seen, t, i)
          = WithAttribute(f, NamedAttribute(name, t, i), seen \cup {name})
    BY <1>2, <1>4, AttributesGoOn
  <2>. QED
    BY <1>1, <1>3, <2>1
<1>6. CASE Overfull(a.values)
  <2>1. Overflows(r)
    BY <1>2, <1>6 DEF Outcome
  <2>2. f[i][seen] = r
    BY <1>5, <2>1, OverflowFails DEF WithAttribute
  <2>. QED
    BY <1>1, <1>6, <2>1, <2>2
<1>7. CASE ~Overfull(a.values)
  <2>1. r = Good(a, next)
    BY <1>2, <1>7 DEF Outcome
  <2>2. ~Failed(Good(a, next)) /\ Good(a, next).value = a /\ Good(a, next).next = next
    BY Results
  <2>3. f[i][seen] = Before(a, f[next][seen \cup {name}])
    BY <1>5, <2>1, <2>2 DEF WithAttribute
  <2>4. next \in DOMAIN t
    <3>1. t[i].kind # "End"
      BY <1>2
    <3>2. NamedAttribute(name, t, i) \in Read(AttributeOf, t, i)
      BY <1>2, <3>1, NamedAttributeIs
    <3>3. ~Failed(r) /\ r.next = next
      BY <2>1, <2>2
    <3>4. r \in Read(AttributeOf, t, i)
      BY <1>1, <3>2
    <3>. QED
      BY <3>3, <3>4, ReadValue
  <2>. QED
    BY <1>1, <1>7, <2>3, <2>4
<1>. QED
  BY <1>6, <1>7

LEMMA AttributesSkipMore ==
    ASSUME NEW t \in TokenList, NEW first \in DOMAIN t,
           NEW ats \in Seq(AnyAttribute), NEW a \in AnyAttribute, Distinct(Append(ats, a), {}),
           NEW i, TokensAt(t, i, AttributeSpec(a)), AttributesSkip(AttributesFrom(t), first, ats, i)
    PROVE  AttributesSkip(AttributesFrom(t), first, Append(ats, a), i + Len(AttributeSpec(a)))
<1>1. PICK f, next, seen, more : /\ f = AttributesFrom(t) /\ next = i + Len(AttributeSpec(a))
                                 /\ seen = AttributeNames(ats) /\ more = seen \cup {a.name}
  OBVIOUS
<1>2. /\ AttributeNames(Append(ats, a)) = more
      /\ AnyOverfull(Append(ats, a)) <=> AnyOverfull(ats) \/ Overfull(a.values)
      /\ a.name \notin seen /\ seen \in SUBSET AttributeName /\ more \in SUBSET AttributeName
  <2>1. a.name \in AttributeName
    BY AnyAttributeIs
  <2>2. /\ AttributeNames(Append(ats, a)) = AttributeNames(ats) \cup {a.name}
        /\ AnyOverfull(Append(ats, a)) <=> AnyOverfull(ats) \/ Overfull(a.values)
        /\ a.name \notin AttributeNames(ats) /\ AttributeNames(ats) \in SUBSET AttributeName
    BY AttributesMore
  <2>. QED
    BY <1>1, <2>1, <2>2
<1>3. IF Overfull(a.values) THEN Overflows(f[i][seen])
      ELSE next \in DOMAIN t /\ f[i][seen] = Before(a, f[next][more])
  <2>1. IF Overfull(a.values) THEN Overflows(AttributesFrom(t)[i][seen])
        ELSE /\ i + Len(AttributeSpec(a)) \in DOMAIN t
             /\ AttributesFrom(t)[i][seen]
                  = Before(a, AttributesFrom(t)[i + Len(AttributeSpec(a))][seen \cup {a.name}])
    BY <1>2, AttributeRead
  <2>. QED
    BY <1>1, <2>1
<1>4. CASE AnyOverfull(ats)
  <2>1. Overflows(f[first][{}])
    BY <1>1, <1>4 DEF AttributesSkip
  <2>. QED
    BY <1>1, <1>2, <1>4, <2>1 DEF AttributesSkip
<1>5. CASE ~AnyOverfull(ats) /\ Overfull(a.values)
  <2>1. f[first][{}] = Prepend(ats, f[i][seen])
    BY <1>1, <1>5 DEF AttributesSkip
  <2>2. Overflows(f[first][{}])
    BY <1>3, <1>5, <2>1, OverflowFails DEF Prepend
  <2>. QED
    BY <1>1, <1>2, <1>5, <2>2 DEF AttributesSkip
<1>6. CASE ~AnyOverfull(ats) /\ ~Overfull(a.values)
  <2>1. f[first][{}] = Prepend(ats, f[i][seen])
    BY <1>1, <1>6 DEF AttributesSkip
  <2>2. PICK r : r = f[next][more]
    OBVIOUS
  <2>3. ~Failed(r) => r.value \in Seq(AnyAttribute)
    BY <1>1, <1>2, <1>3, <1>6, <2>2, AttributesFromTyped
  <2>4. Prepend(ats, Before(a, r)) = Prepend(Append(ats, a), r)
    BY <2>3, PrependBefore
  <2>5. f[first][{}] = Prepend(Append(ats, a), f[next][more])
    BY <1>3, <1>6, <2>1, <2>2, <2>4
  <2>. QED
    BY <1>1, <1>2, <1>6, <2>5 DEF AttributesSkip
<1>. QED
  BY <1>4, <1>5, <1>6

\* The attributes are there, from first on.
AttributesThere(t, first, ats) ==
    TokensAt(t, first, FlattenSeq(AttributeSpecs(ats))) /\ Distinct(ats, {}) =>
        AttributesSkip(AttributesFrom(t), first, ats, first + Len(FlattenSeq(AttributeSpecs(ats))))

LEMMA AttributesThereMore ==
    ASSUME NEW t \in TokenList, NEW first \in DOMAIN t,
           NEW ats \in Seq(AnyAttribute), NEW a \in AnyAttribute, AttributesThere(t, first, ats)
    PROVE  AttributesThere(t, first, Append(ats, a))
<1>1. PICK x, y, i, bs : /\ x = FlattenSeq(AttributeSpecs(ats)) /\ y = AttributeSpec(a)
                         /\ i = first + Len(x) /\ bs = Append(ats, a)
  OBVIOUS
<1>2. x \in Seq(Piece) /\ y \in Seq(Piece) /\ FlattenSeq(AttributeSpecs(bs)) = x \o y
  BY <1>1, AttributeTokensMore, AttributeSpecTyped
<1>3. SUFFICES ASSUME TokensAt(t, first, x \o y), Distinct(bs, {})
               PROVE  AttributesSkip(AttributesFrom(t), first, bs, first + Len(x \o y))
  BY <1>1, <1>2 DEF AttributesThere
<1>4. TokensAt(t, first, x) /\ TokensAt(t, i, y) /\ first + Len(x \o y) = i + Len(y)
  BY <1>1, <1>2, <1>3, TokensApart
<1>5. Distinct(ats, {})
  BY <1>1, <1>3, AttributesMore
<1>6. AttributesSkip(AttributesFrom(t), first, ats, i)
  BY <1>1, <1>4, <1>5 DEF AttributesThere
<1>7. AttributesSkip(AttributesFrom(t), first, Append(ats, a), i + Len(AttributeSpec(a)))
  <2>1. TokensAt(t, i, AttributeSpec(a)) /\ Distinct(Append(ats, a), {})
    BY <1>1, <1>3, <1>4
  <2>. QED
    BY <1>6, <2>1, AttributesSkipMore
<1>. QED
  BY <1>1, <1>4, <1>7

LEMMA AttributesAreThere ==
    ASSUME NEW t \in TokenList, NEW first \in DOMAIN t, NEW ats \in Seq(AnyAttribute)
    PROVE  AttributesThere(t, first, ats)
<1>1. PICK S, T : S = AnyAttribute /\ T = {bs \in Seq(S) : AttributesThere(t, first, bs)}
  OBVIOUS
<1>2. <<>> \in T
  <2>1. AttributeSpecs(<<>>) = <<>>
    BY DEF AttributeSpecs
  <2>2. FlattenSeq(AttributeSpecs(<<>>)) = <<>>
    BY <2>1, FlattenNone
  <2>3. first + Len(<<>>) = first
    BY TokenAt
  <2>4. ~AnyOverfull(<<>>) /\ AttributeNames(<<>>) = {}
    BY DEF AnyOverfull, AttributeNames
  <2>5. PICK r : r = AttributesFrom(t)[first][{}]
    OBVIOUS
  <2>6. ~Failed(r) => r = Good(r.value, r.next) /\ r.value \in Seq(AnyAttribute)
    BY <2>5, AttributesFromTyped
  <2>7. Prepend(<<>>, r) = r
    BY <2>6, PrependNothing
  <2>8. AttributesSkip(AttributesFrom(t), first, <<>>, first)
    BY <2>4, <2>5, <2>7 DEF AttributesSkip
  <2>9. AttributesThere(t, first, <<>>)
    BY <2>2, <2>3, <2>8 DEF AttributesThere
  <2>10. <<>> \in Seq(S)
    OBVIOUS
  <2>. QED
    BY <1>1, <2>9, <2>10
<1>3. ASSUME NEW p \in Seq(S), NEW x \in S, p \in T PROVE Append(p, x) \in T
  <2>1. AttributesThere(t, first, p)
    BY <1>1, <1>3
  <2>2. AttributesThere(t, first, Append(p, x))
    BY <1>1, <2>1, AttributesThereMore
  <2>3. Append(p, x) \in Seq(S)
    OBVIOUS
  <2>. QED
    BY <1>1, <2>2, <2>3
<1>4. Seq(S) \subseteq T
  BY <1>2, <1>3, AppendInduction
<1>. QED
  BY <1>1, <1>4

-----------------------------------------------------------------------------
(* Conditions.                                                             *)

\* A token is there that is no parameter.
NoParameterAt(t, next) == next \in DOMAIN t /\ t[next].kind # "Param"

\* The tokens of a condition without its negation.
NamedSpec(name, parameter) == <<Word(<<name>>)>> \o ParameterSpec(parameter)

\* The condition is read from n to next.
NamedBack(queries, negated, name, parameter, t, n, next) ==
    /\ n \in DOMAIN t /\ n \in Nat /\ t[n].kind = "Word" /\ t[n].text = <<name>>
    /\ Keyword(t[n].text) = name /\ Parameter(t[n + 1]) = parameter
    /\ NamedCondition(negated, name, parameter, queries, t, n)
         = Good([negated |-> negated, name |-> name, parameter |-> parameter], next)

LEMMA NamedConditionBack ==
    ASSUME NEW queries, NEW negated, NEW name \in ConditionName, NEW parameter \in Text \cup {None},
           ValidCondition(queries, name, parameter), NEW t \in TokenList, NEW n,
           NEW w, w = NamedSpec(name, parameter), TokensAt(t, n, w), NoParameterAt(t, n + Len(w))
    PROVE  NamedBack(queries, negated, name, parameter, t, n, n + Len(w))
<1>1. PICK kind, s, rest : kind = "Word" /\ s = <<name>> /\ rest = ParameterSpec(parameter)
  OBVIOUS
<1>2. kind \in TokenKind /\ s \in Text
  <2>1. name \in Glyph
    BY WrittenGlyphs
  <2>2. <<name>> \in Text
    BY <2>1, GlyphTyped
  <2>3. kind \in TokenKind
    BY <1>1, KindsAre
  <2>. QED
    BY <1>1, <2>2, <2>3
<1>3. rest \in Seq(Piece)
  <2>1. CASE parameter = None
    BY <1>1, <2>1 DEF ParameterSpec
  <2>2. CASE parameter # None
    <3>1. parameter \in Text
      BY <2>2
    <3>2. <<P("Param", parameter)>> \in Seq(Piece)
      BY <3>1, KindsAre, PieceIs
    <3>. QED
      BY <1>1, <2>2, <3>2 DEF ParameterSpec
  <2>. QED
    BY <2>1, <2>2
<1>4. PICK next : next = n + Len(w)
  OBVIOUS
<1>5. w = <<P(kind, s)>> \o rest
  BY <1>1, <1>4 DEF Word, NamedSpec
<1>6. /\ n \in DOMAIN t /\ n \in Nat /\ t[n].kind = kind /\ t[n].text = s
      /\ TokensAt(t, n + 1, rest) /\ next = (n + 1) + Len(rest)
  <2>1. TokensAt(t, n, <<P(kind, s)>> \o rest)
    BY <1>4, <1>5
  <2>2. /\ n \in DOMAIN t /\ n \in Nat /\ t[n].kind = kind /\ t[n].text = s
        /\ TokensAt(t, n + 1, rest) /\ n + Len(<<P(kind, s)>> \o rest) = (n + 1) + Len(rest)
    BY <1>2, <1>3, <2>1, TokensFirst
  <2>. QED
    BY <1>4, <1>5, <2>2
<1>7. Keyword(t[n].text) = name
  BY <1>1, <1>6, KeywordOne
<1>8. next \in DOMAIN t /\ t[next].kind # "Param"
  BY <1>4 DEF NoParameterAt
<1>9. PICK m : m = n + 1
  OBVIOUS
<1>10. Parameter(t[m]) = parameter /\ next = IF parameter = None THEN n + 1 ELSE n + 2
  <2>1. CASE parameter = None
    <3>1. rest = <<>>
      BY <1>1, <2>1 DEF ParameterSpec
    <3>2. Len(rest) = 0
      BY <3>1
    <3>3. next = m
      BY <1>6, <1>9, <3>2
    <3>. QED
      BY <1>8, <1>9, <2>1, <3>3 DEF Parameter
  <2>2. CASE parameter # None
    <3>1. PICK k : k = "Param"
      OBVIOUS
    <3>2. rest = <<P(k, parameter)>>
      BY <1>1, <2>2, <3>1 DEF ParameterSpec
    <3>3. TokensAt(t, m, <<P(k, parameter)>>)
      BY <1>6, <1>9, <3>2
    <3>4. t[m].kind = k /\ t[m].text = parameter /\ m + Len(<<P(k, parameter)>>) = m + 1
      BY <3>3, TokensOne
    <3>5. next = n + 2
      <4>1. next = m + 1
        BY <1>6, <1>9, <3>2, <3>4
      <4>. QED
        BY <1>6, <1>9, <4>1
    <3>. QED
      BY <2>2, <3>1, <3>4, <3>5 DEF Parameter
  <2>. QED
    BY <2>1, <2>2
<1>11. NamedCondition(negated, name, parameter, queries, t, n)
         = Good([negated |-> negated, name |-> name, parameter |-> parameter], next)
  <2>1. t[n].kind = "Word"
    BY <1>1, <1>6
  <2>. QED
    BY <1>10, <2>1 DEF NamedCondition
<1>. QED
  BY <1>1, <1>4, <1>6, <1>7, <1>9, <1>10, <1>11 DEF NamedBack

LEMMA ConditionNames == \A name \in ConditionName : name \notin SetOperator
BY DEF ConditionName, SetOperator

LEMMA ConditionIs ==
    ASSUME NEW queries, NEW c \in ConditionOf(queries)
    PROVE  /\ c.negated \in BOOLEAN /\ c.name \in ConditionName /\ c.parameter \in Text \cup {None}
           /\ ValidCondition(queries, c.name, c.parameter)
           /\ c = [negated |-> c.negated, name |-> c.name, parameter |-> c.parameter]
           /\ ConditionSpec(c) \in Seq(Piece)
           /\ NamedSpec(c.name, c.parameter) \in Seq(Piece)
<1>1. c \in Condition /\ ValidCondition(queries, c.name, c.parameter)
      /\ (c.parameter # None => Closes(c.parameter))
  BY DEF ConditionOf
<1>2. /\ c.negated \in BOOLEAN /\ c.name \in ConditionName /\ c.parameter \in Text \cup {None}
      /\ c = [negated |-> c.negated, name |-> c.name, parameter |-> c.parameter]
  BY <1>1 DEF Condition
<1>3. ConditionSpec(c) \in Seq(Piece)
  BY ReadsCondition
<1>4. <<Word(<<c.name>>)>> \o ParameterSpec(c.parameter) \in Seq(Piece)
  BY <1>1, <1>2, ReadsParameter
<1>5. NamedSpec(c.name, c.parameter) \in Seq(Piece)
  BY <1>4 DEF NamedSpec
<1>. QED
  BY <1>1, <1>2, <1>3, <1>5

\* A condition is read back, and begins neither a set nor its end.
LEMMA ConditionBack ==
    ASSUME NEW queries, NEW c \in ConditionOf(queries), NEW t \in TokenList, NEW i,
           TokensAt(t, i, ConditionSpec(c)), NoParameterAt(t, i + Len(ConditionSpec(c)))
    PROVE  /\ i \in DOMAIN t /\ i \in Nat /\ t[i].kind \in {"!", "Word"} /\ Operator(t, i) = None
           /\ ParseCondition(queries, t, i) = Good(c, i + Len(ConditionSpec(c)))
<1>1. PICK negated, name, parameter, w, next :
        /\ negated = c.negated /\ name = c.name /\ parameter = c.parameter
        /\ w = NamedSpec(name, parameter) /\ next = i + Len(ConditionSpec(c))
  OBVIOUS
<1>2. /\ negated \in BOOLEAN /\ name \in ConditionName /\ parameter \in Text \cup {None}
      /\ ValidCondition(queries, name, parameter)
      /\ c = [negated |-> negated, name |-> name, parameter |-> parameter]
      /\ w \in Seq(Piece) /\ ConditionSpec(c) = NegationSpec(negated) \o w
  <2>1. /\ c.negated \in BOOLEAN /\ c.name \in ConditionName /\ c.parameter \in Text \cup {None}
        /\ ValidCondition(queries, c.name, c.parameter)
        /\ c = [negated |-> c.negated, name |-> c.name, parameter |-> c.parameter]
        /\ NamedSpec(c.name, c.parameter) \in Seq(Piece)
    BY ConditionIs
  <2>. QED
    BY <1>1, <2>1 DEF ConditionSpec, NamedSpec
<1>3. NoParameterAt(t, next) /\ TokensAt(t, i, NegationSpec(negated) \o w)
      /\ next = i + Len(NegationSpec(negated) \o w)
  BY <1>1, <1>2
<1>4. ASSUME NEW n, TokensAt(t, n, w), n + Len(w) = next
      PROVE  /\ n \in DOMAIN t /\ n \in Nat /\ t[n].kind = "Word" /\ t[n].text = <<name>>
             /\ NamedCondition(negated, Keyword(t[n].text), Parameter(t[n + 1]), queries, t, n)
                  = Good(c, next)
  <2>1. NoParameterAt(t, n + Len(w)) /\ w = NamedSpec(name, parameter) /\ TokensAt(t, n, w)
    BY <1>1, <1>3, <1>4
  <2>2. NamedBack(queries, negated, name, parameter, t, n, n + Len(w))
    <3>1. name \in ConditionName /\ parameter \in Text \cup {None}
          /\ ValidCondition(queries, name, parameter)
      BY <1>2
    <3>. QED
      BY <2>1, <3>1, NamedConditionBack
  <2>. QED
    BY <1>1, <1>2, <1>4, <2>2 DEF NamedBack
<1>5. CASE negated
  <2>1. PICK kind, s, n : kind = "!" /\ s = <<>> /\ n = i + 1
    OBVIOUS
  <2>2. kind \in TokenKind
    BY <2>1, KindsAre
  <2>3. s \in Text
    <3>1. <<>> \in Text
      BY DEF Text
    <3>. QED
      BY <2>1, <3>1
  <2>4. NegationSpec(negated) = <<P(kind, s)>>
    BY <1>5, <2>1 DEF NegationSpec
  <2>5. /\ i \in DOMAIN t /\ i \in Nat /\ t[i].kind = kind /\ t[i].text = s
        /\ TokensAt(t, i + 1, w) /\ i + Len(<<P(kind, s)>> \o w) = (i + 1) + Len(w)
    <3>1. TokensAt(t, i, <<P(kind, s)>> \o w)
      BY <1>3, <2>4
    <3>. QED
      BY <1>2, <2>2, <2>3, <3>1, TokensFirst
  <2>6. TokensAt(t, n, w) /\ n + Len(w) = next
    BY <1>3, <2>1, <2>4, <2>5
  <2>7. NamedCondition(negated, Keyword(t[n].text), Parameter(t[n + 1]), queries, t, n)
          = Good(c, next)
    BY <1>4, <2>6
  <2>8. t[i].kind = "!" /\ negated = TRUE
    BY <1>2, <1>5, <2>1, <2>5
  <2>9. ParseCondition(queries, t, i) = Good(c, next)
    BY <2>1, <2>7, <2>8 DEF ParseCondition
  <2>10. Operator(t, i) = None
    BY <2>8 DEF Operator
  <2>. QED
    BY <1>1, <2>5, <2>8, <2>9, <2>10
<1>6. CASE ~negated
  <2>1. NegationSpec(negated) \o w = w
    BY <1>2, <1>6, ConcatEmptySeq DEF NegationSpec
  <2>2. TokensAt(t, i, w) /\ i + Len(w) = next
    BY <1>3, <2>1
  <2>3. /\ i \in DOMAIN t /\ i \in Nat /\ t[i].kind = "Word" /\ t[i].text = <<name>>
        /\ NamedCondition(negated, Keyword(t[i].text), Parameter(t[i + 1]), queries, t, i)
             = Good(c, next)
    BY <1>4, <2>2
  <2>4. (t[i].kind = "!") = negated
    BY <1>2, <1>6, <2>3
  <2>5. ParseCondition(queries, t, i) = Good(c, next)
    BY <2>3, <2>4 DEF ParseCondition
  <2>6. Operator(t, i) = None
    <3>1. Keyword(t[i].text) = name
      BY <2>3, KeywordOne
    <3>. QED
      BY <1>2, <3>1, ConditionNames DEF Operator
  <2>. QED
    BY <1>1, <2>3, <2>5, <2>6
<1>. QED
  BY <1>5, <1>6

LEMMA ConditionsFromTyped ==
    ASSUME NEW queries, NEW t \in TokenList, NEW i \in DOMAIN t, NEW n \in Nat
    PROVE  ~Failed(ConditionsFrom(queries, t)[i][n]) =>
              /\ ConditionsFrom(queries, t)[i][n].value \in Seq(ConditionOf(queries))
              /\ ConditionsFrom(queries, t)[i][n]
                   = Good(ConditionsFrom(queries, t)[i][n].value, ConditionsFrom(queries, t)[i][n].next)
<1>1. PICK r, S : r = ConditionsFrom(queries, t)[i][n] /\ S = Seq(ConditionOf(queries))
  OBVIOUS
<1>2. r \in Read(S, t, i)
  <2>1. ConditionsFrom(queries, t) \in ConditionsReads(queries, t)
    BY ConditionsFromIs
  <2>2. ConditionsRead(queries, t, ConditionsFrom(queries, t)[i][n], i, n)
    BY <2>1 DEF ConditionsReads
  <2>. QED
    BY <1>1, <2>2 DEF ConditionsRead
<1>3. ~Failed(r) => r.value \in S /\ r = Good(r.value, r.next)
  BY <1>2, ReadValue
<1>. QED
  BY <1>1, <1>3

LEMMA ConditionSpecTyped ==
    ASSUME NEW queries, NEW c \in ConditionOf(queries)
    PROVE  ConditionSpec(c) \in Seq(Piece)
BY ReadsCondition

LEMMA ConditionTokensMore ==
    ASSUME NEW queries, NEW cs \in Seq(ConditionOf(queries)), NEW c \in ConditionOf(queries)
    PROVE  /\ FlattenSeq(ConditionSpecs(cs)) \in Seq(Piece)
           /\ FlattenSeq(ConditionSpecs(Append(cs, c)))
                = FlattenSeq(ConditionSpecs(cs)) \o ConditionSpec(c)
<1>1. PICK S, ws, n : S = ConditionOf(queries) /\ ws = Append(cs, c) /\ n = Len(cs)
  OBVIOUS
<1>2. /\ cs \in Seq(S) /\ ws \in Seq(S) /\ Len(ws) = n + 1 /\ n \in Nat /\ ws[n + 1] = c
      /\ \A i \in 1..n : ws[i] = cs[i]
  <2>1. /\ ws \in Seq(S) /\ Len(ws) = Len(cs) + 1 /\ ws[Len(cs) + 1] = c
        /\ \A i \in 1..Len(cs) : ws[i] = cs[i]
    BY <1>1, AppendProperties
  <2>. QED
    BY <1>1, <2>1
<1>3. \A x \in S : ConditionSpec(x) \in Seq(Piece)
  BY <1>1, ConditionSpecTyped
<1>4. PICK f, g : f = ConditionSpecs(cs) /\ g = ConditionSpecs(ws)
  OBVIOUS
<1>5. f \in [1..n -> Seq(Piece)] /\ \A k \in 1..n : f[k] = ConditionSpec(cs[k])
  <2>1. DOMAIN cs = 1..n /\ \A k \in 1..n : cs[k] \in S
    BY <1>1, <1>2
  <2>. QED
    BY <1>3, <1>4, <2>1 DEF ConditionSpecs
<1>6. g \in [1..n + 1 -> Seq(Piece)] /\ \A k \in 1..n + 1 : g[k] = ConditionSpec(ws[k])
  <2>1. DOMAIN ws = 1..n + 1 /\ \A k \in 1..n + 1 : ws[k] \in S
    BY <1>2
  <2>. QED
    BY <1>3, <1>4, <2>1 DEF ConditionSpecs
<1>7. f \in Seq(Seq(Piece)) /\ Len(f) = n
  BY <1>2, <1>5, TypedSeq
<1>8. g \in Seq(Seq(Piece)) /\ Len(g) = n + 1
  <2>1. n + 1 \in Nat
    BY <1>2
  <2>. QED
    BY <1>6, <2>1, TypedSeq
<1>9. g[Len(f) + 1] = ConditionSpec(c) /\ \A k \in 1..Len(f) : g[k] = f[k]
  <2>1. n + 1 \in 1..n + 1 /\ \A k \in 1..n : k \in 1..n + 1
    BY <1>2
  <2>. QED
    BY <1>2, <1>5, <1>6, <1>7, <2>1
<1>10. PICK x : x = ConditionSpec(c)
  OBVIOUS
<1>11. x \in Seq(Piece)
  BY <1>10, ConditionSpecTyped
<1>12. g = Append(f, x)
  BY <1>7, <1>8, <1>9, <1>10, <1>11, AppendedIs
<1>13. FlattenSeq(f) \in Seq(Piece) /\ FlattenSeq(Append(f, x)) = FlattenSeq(f) \o x
  BY <1>7, <1>11, FlattenTyped, FlattenMore
<1>. QED
  BY <1>1, <1>4, <1>10, <1>12, <1>13

\* The loop moves past the condition at i.
LEMMA ConditionRead ==
    ASSUME NEW queries, NEW t \in TokenList, NEW c \in ConditionOf(queries), NEW n \in Nat, Room(n),
           NEW i, TokensAt(t, i, ConditionSpec(c)), NoParameterAt(t, i + Len(ConditionSpec(c)))
    PROVE  /\ ConditionsFrom(queries, t)[i][n]
                = Before(c, ConditionsFrom(queries, t)[i + Len(ConditionSpec(c))][n + 1])
           /\ NoParameterAt(t, i)
<1>1. PICK f, next : f = ConditionsFrom(queries, t) /\ next = i + Len(ConditionSpec(c))
  OBVIOUS
<1>2. /\ i \in DOMAIN t /\ t[i].kind \in {"!", "Word"}
      /\ ParseCondition(queries, t, i) = Good(c, next)
  <2>1. /\ i \in DOMAIN t /\ t[i].kind \in {"!", "Word"}
        /\ ParseCondition(queries, t, i) = Good(c, i + Len(ConditionSpec(c)))
    BY ConditionBack
  <2>. QED
    BY <1>1, <2>1
<1>3. t[i].kind # "}" /\ t[i].kind # "Param"
  BY <1>2
<1>4. f[i][n] = Continued(f, ParseCondition(queries, t, i), n)
  <2>1. f[i] = ConditionsStep(f, queries, t, i)
    BY <1>1, <1>2, ConditionsFromIs
  <2>2. ConditionsStep(f, queries, t, i)[n] = Continued(f, ParseCondition(queries, t, i), n)
    BY ZenonT(60), <1>2, <1>3, ConditionsGoOn
  <2>. QED
    BY <2>1, <2>2
<1>5. ~Failed(Good(c, next)) /\ Good(c, next).value = c /\ Good(c, next).next = next
  BY Results
<1>6. f[i][n] = Before(c, f[next][n + 1])
  BY <1>2, <1>4, <1>5 DEF Continued
<1>. QED
  BY <1>1, <1>2, <1>3, <1>6 DEF NoParameterAt

\* The conditions are there, from first on.
ConditionsThere(queries, t, first, cs) ==
    /\ TokensAt(t, first, FlattenSeq(ConditionSpecs(cs)))
    /\ NoParameterAt(t, first + Len(FlattenSeq(ConditionSpecs(cs))))
    /\ Len(cs) <= MAX_SET_VALUES
    => ConditionsFrom(queries, t)[first][0]
         = Prepend(cs, ConditionsFrom(queries, t)
                          [first + Len(FlattenSeq(ConditionSpecs(cs)))][Len(cs)])

LEMMA ConditionsThereMore ==
    ASSUME NEW queries, NEW t \in TokenList, NEW first \in DOMAIN t,
           NEW cs \in Seq(ConditionOf(queries)), NEW c \in ConditionOf(queries),
           ConditionsThere(queries, t, first, cs)
    PROVE  ConditionsThere(queries, t, first, Append(cs, c))
<1>1. PICK x, y, i, n, f, bs :
        /\ x = FlattenSeq(ConditionSpecs(cs)) /\ y = ConditionSpec(c) /\ i = first + Len(x)
        /\ n = Len(cs) /\ f = ConditionsFrom(queries, t) /\ bs = Append(cs, c)
  OBVIOUS
<1>2. x \in Seq(Piece) /\ y \in Seq(Piece) /\ FlattenSeq(ConditionSpecs(bs)) = x \o y
  BY <1>1, ConditionTokensMore, ConditionSpecTyped
<1>3. n \in Nat /\ Len(bs) = n + 1 /\ MAX_SET_VALUES \in Nat
  <2>1. Len(bs) = Len(cs) + 1
    BY <1>1, AppendProperties
  <2>. QED
    BY <1>1, <2>1, Bounds
<1>4. SUFFICES ASSUME TokensAt(t, first, x \o y), NoParameterAt(t, first + Len(x \o y)),
                      n + 1 <= MAX_SET_VALUES
               PROVE  f[first][0] = Prepend(bs, f[first + Len(x \o y)][n + 1])
  BY <1>1, <1>2, <1>3 DEF ConditionsThere
<1>5. TokensAt(t, first, x) /\ TokensAt(t, i, y) /\ first + Len(x \o y) = i + Len(y)
  BY <1>1, <1>2, <1>4, TokensApart
<1>6. PICK next : next = i + Len(y)
  OBVIOUS
<1>7. NoParameterAt(t, next) /\ next \in DOMAIN t
  BY <1>4, <1>5, <1>6 DEF NoParameterAt
<1>8. Room(n)
  BY <1>3, <1>4 DEF Room
<1>9. f[i][n] = Before(c, f[next][n + 1]) /\ NoParameterAt(t, i)
  <2>1. TokensAt(t, i, ConditionSpec(c)) /\ NoParameterAt(t, i + Len(ConditionSpec(c)))
    BY <1>1, <1>5, <1>6, <1>7
  <2>2. /\ ConditionsFrom(queries, t)[i][n]
             = Before(c, ConditionsFrom(queries, t)[i + Len(ConditionSpec(c))][n + 1])
        /\ NoParameterAt(t, i)
    BY <1>3, <1>8, <2>1, ConditionRead
  <2>. QED
    BY <1>1, <1>6, <2>2
<1>10. f[first][0] = Prepend(cs, f[i][n])
  <2>1. n <= MAX_SET_VALUES
    BY <1>3, <1>4
  <2>. QED
    BY <1>1, <1>5, <1>9, <2>1 DEF ConditionsThere
<1>11. PICK r : r = f[next][n + 1]
  OBVIOUS
<1>12. ~Failed(r) => r.value \in Seq(ConditionOf(queries))
  <2>1. n + 1 \in Nat
    BY <1>3
  <2>. QED
    BY <1>1, <1>7, <1>11, <2>1, ConditionsFromTyped
<1>13. Prepend(cs, Before(c, r)) = Prepend(bs, r)
  <2>1. Prepend(cs, Before(c, r)) = Prepend(Append(cs, c), r)
    BY <1>12, PrependBefore
  <2>. QED
    BY <1>1, <2>1
<1>. QED
  BY <1>5, <1>6, <1>9, <1>10, <1>11, <1>13

LEMMA ConditionsAreThere ==
    ASSUME NEW queries, NEW t \in TokenList, NEW first \in DOMAIN t,
           NEW cs \in Seq(ConditionOf(queries))
    PROVE  ConditionsThere(queries, t, first, cs)
<1>1. PICK S, T : S = ConditionOf(queries) /\ T = {bs \in Seq(S) : ConditionsThere(queries, t, first, bs)}
  OBVIOUS
<1>2. <<>> \in T
  <2>1. ConditionSpecs(<<>>) = <<>>
    BY DEF ConditionSpecs
  <2>2. FlattenSeq(ConditionSpecs(<<>>)) = <<>>
    BY <2>1, FlattenNone
  <2>3. first + Len(<<>>) = first /\ Len(<<>>) = 0
    BY TokenAt
  <2>4. PICK r : r = ConditionsFrom(queries, t)[first][0]
    OBVIOUS
  <2>5. ~Failed(r) => r = Good(r.value, r.next) /\ r.value \in Seq(ConditionOf(queries))
    BY <2>4, ConditionsFromTyped
  <2>6. Prepend(<<>>, r) = r
    BY <2>5, PrependNothing
  <2>7. ConditionsThere(queries, t, first, <<>>)
    BY <2>2, <2>3, <2>4, <2>6 DEF ConditionsThere
  <2>8. <<>> \in Seq(S)
    OBVIOUS
  <2>. QED
    BY <1>1, <2>7, <2>8
<1>3. ASSUME NEW p \in Seq(S), NEW x \in S, p \in T PROVE Append(p, x) \in T
  <2>1. ConditionsThere(queries, t, first, p)
    BY <1>1, <1>3
  <2>2. ConditionsThere(queries, t, first, Append(p, x))
    BY <1>1, <2>1, ConditionsThereMore
  <2>3. Append(p, x) \in Seq(S)
    OBVIOUS
  <2>. QED
    BY <1>1, <2>2, <2>3
<1>4. Seq(S) \subseteq T
  BY <1>2, <1>3, AppendInduction
<1>. QED
  BY <1>1, <1>4

-----------------------------------------------------------------------------
(* Clauses.                                                                *)

LEMMA ConditionTokensTyped ==
    ASSUME NEW queries, NEW cs \in Seq(ConditionOf(queries))
    PROVE  FlattenSeq(ConditionSpecs(cs)) \in Seq(Piece)
<1>1. PICK S : S = ConditionOf(queries)
  OBVIOUS
<1>2. \A x \in S : ConditionSpec(x) \in Seq(Piece)
  BY <1>1, ConditionSpecTyped
<1>3. cs \in Seq(S) /\ Len(cs) \in Nat /\ DOMAIN cs = 1..Len(cs)
  BY <1>1
<1>4. \A k \in 1..Len(cs) : cs[k] \in S
  BY <1>3
<1>5. ConditionSpecs(cs) \in [1..Len(cs) -> Seq(Piece)]
  BY <1>2, <1>3, <1>4 DEF ConditionSpecs
<1>6. ConditionSpecs(cs) \in Seq(Seq(Piece))
  BY <1>3, <1>5, TypedSeq
<1>. QED
  BY <1>6, FlattenTyped

\* Conditions up to a brace are read.
LEMMA ConditionSetBack ==
    ASSUME NEW queries, NEW t \in TokenList, NEW first \in DOMAIN t,
           NEW cs \in Seq(ConditionOf(queries)), Len(cs) <= MAX_SET_VALUES,
           TokensAt(t, first, FlattenSeq(ConditionSpecs(cs)) \o <<CloseBrace>>)
    PROVE  ParseConditions(queries, t, first)
             = Good(cs, first + Len(FlattenSeq(ConditionSpecs(cs)) \o <<CloseBrace>>))
<1>1. PICK a, b, f, n : /\ a = FlattenSeq(ConditionSpecs(cs)) /\ b = <<CloseBrace>>
                        /\ f = ConditionsFrom(queries, t) /\ n = Len(cs)
  OBVIOUS
<1>2. a \in Seq(Piece) /\ b \in Seq(Piece) /\ n \in Nat
  <2>1. FlattenSeq(ConditionSpecs(cs)) \in Seq(Piece)
    BY ConditionTokensTyped
  <2>. QED
    BY <1>1, <2>1, BracesAre
<1>3. /\ TokensAt(t, first, a) /\ TokensAt(t, first + Len(a), b)
      /\ first + Len(a \o b) = (first + Len(a)) + Len(b)
  <2>1. TokensAt(t, first, a \o b)
    BY <1>1
  <2>. QED
    BY <1>2, <2>1, TokensApart
<1>4. PICK i : i = first + Len(a)
  OBVIOUS
<1>5. /\ i \in DOMAIN t /\ t[i].kind = "}" /\ i + Len(b) = i + 1
  <2>1. PICK kind, s : kind = "}" /\ s = <<>>
    OBVIOUS
  <2>2. b = <<P(kind, s)>>
    BY <1>1, <2>1 DEF CloseBrace
  <2>3. TokensAt(t, i, <<P(kind, s)>>)
    BY <1>3, <1>4, <2>2
  <2>4. /\ i \in DOMAIN t /\ t[i].kind = kind /\ i + Len(<<P(kind, s)>>) = i + 1
    BY <2>3, TokensOne
  <2>. QED
    BY <2>1, <2>2, <2>4
<1>6. NoParameterAt(t, i)
  BY <1>5 DEF NoParameterAt
<1>7. f[first][0] = Prepend(cs, f[i][n])
  <2>1. ConditionsThere(queries, t, first, cs)
    BY ConditionsAreThere
  <2>. QED
    BY <1>1, <1>3, <1>4, <1>6, <2>1 DEF ConditionsThere
<1>8. f[i][n] = Good(<<>>, i + 1)
  <2>1. f[i] = ConditionsStep(f, queries, t, i)
    BY <1>1, <1>5, ConditionsFromIs
  <2>2. ConditionsStep(f, queries, t, i)[n] = Good(<<>>, i + 1)
    BY <1>2, <1>5, ConditionsEnd
  <2>. QED
    BY <2>1, <2>2
<1>9. Prepend(cs, Good(<<>>, i + 1)) = Good(cs, i + 1)
  BY PrependGood
<1>10. first + Len(a \o b) = i + 1
  BY <1>3, <1>4, <1>5
<1>11. ParseConditions(queries, t, first) = f[first][0]
  BY <1>1, ConditionsFromIs
<1>. QED
  BY <1>1, <1>7, <1>8, <1>9, <1>10, <1>11

\* A clause is its parts.
LEMMA ClauseParts ==
    ASSUME NEW queries, NEW clause \in ClauseOf(queries)
    PROVE  /\ clause = [set |-> clause.set, operator |-> clause.operator,
                        conditions |-> clause.conditions]
           /\ ~clause.set => /\ clause.conditions[1] \in ConditionOf(queries)
                             /\ clause.conditions = <<clause.conditions[1]>>
<1>1. clause = [set |-> clause.set, operator |-> clause.operator, conditions |-> clause.conditions]
  BY DEF ClauseOf, ConditionClause
<1>2. PICK s : s = clause.conditions
  OBVIOUS
<1>3. s \in Seq(ConditionOf(queries)) /\ (~clause.set => Len(s) = 1)
  BY <1>2, ClauseIs
<1>4. ASSUME ~clause.set PROVE s[1] \in ConditionOf(queries) /\ s = <<s[1]>>
  <2>1. Len(s) = 1
    BY <1>3, <1>4
  <2>. QED
    BY <1>3, <2>1
<1>. QED
  BY <1>1, <1>2, <1>4

\* A set of conditions is read back.
LEMMA SetOfConditionsBack ==
    ASSUME NEW queries, NEW operator \in SetOperator \cup {None},
           NEW cs \in Seq(ConditionOf(queries)), Len(cs) <= MAX_SET_VALUES,
           NEW t \in TokenList, NEW i, TokensAt(t, i, SetSpec(operator, ConditionSpecs(cs)))
    PROVE  /\ i \in DOMAIN t
           /\ ParseConditionClause(queries, t, i)
                = Good([set |-> TRUE, operator |-> operator, conditions |-> cs],
                       i + Len(SetSpec(operator, ConditionSpecs(cs))))
<1>1. PICK x, rest, r : /\ x = ConditionSpecs(cs) /\ rest = FlattenSeq(x) \o <<CloseBrace>>
                        /\ r = ParseConditionClause(queries, t, i)
  OBVIOUS
<1>2. /\ rest \in Seq(Piece)
      /\ SetSpec(operator, x) = OperatorSpec(operator) \o (<<OpenBrace>> \o rest)
  <2>1. FlattenSeq(x) \in Seq(Piece)
    BY <1>1, ConditionTokensTyped
  <2>. QED
    BY <1>1, <2>1, SetSpecIs
<1>3. PICK j : /\ SetAt(t, i, operator, j) /\ TokensAt(t, j + 1, rest)
               /\ i + Len(OperatorSpec(operator) \o (<<OpenBrace>> \o rest)) = (j + 1) + Len(rest)
  <2>1. TokensAt(t, i, OperatorSpec(operator) \o (<<OpenBrace>> \o rest))
    BY <1>1, <1>2
  <2>. QED
    BY SMTT(30), <1>2, <2>1, OperatorThere
<1>4. PICK first, set : first = j + 1 /\ set = ParseConditions(queries, t, first)
  OBVIOUS
<1>5. /\ first \in DOMAIN t /\ Operator(t, i) = operator /\ j = IF operator = None THEN i ELSE i + 1
      /\ t[j].kind = "{" /\ i \in DOMAIN t
  BY <1>3, <1>4 DEF SetAt
<1>6. set = Good(cs, first + Len(rest))
  <2>1. TokensAt(t, first, FlattenSeq(ConditionSpecs(cs)) \o <<CloseBrace>>)
    BY <1>1, <1>3, <1>4
  <2>. QED
    BY <1>1, <1>4, <1>5, <2>1, ConditionSetBack
<1>7. r = IF Failed(set) THEN set
          ELSE Good([set |-> TRUE, operator |-> operator, conditions |-> set.value], set.next)
  <2>1. r = ConditionsAfter(operator, queries, t, j)
    BY <1>1, <1>5 DEF ParseConditionClause
  <2>2. ConditionsAfter(operator, queries, t, j)
          = Then(ParseConditions(queries, t, j + 1), LAMBDA s :
                 Good([set |-> TRUE, operator |-> operator, conditions |-> s.value], s.next))
    BY <1>5 DEF ConditionsAfter
  <2>. QED
    BY <1>4, <2>1, <2>2 DEF Then
<1>8. i + Len(SetSpec(operator, x)) = first + Len(rest)
  BY <1>2, <1>3, <1>4
<1>9. PICK next : next = first + Len(rest)
  OBVIOUS
<1>10. ~Failed(Good(cs, next)) /\ Good(cs, next).value = cs /\ Good(cs, next).next = next
  BY Results
<1>11. r = Good([set |-> TRUE, operator |-> operator, conditions |-> cs], next)
  BY <1>6, <1>7, <1>9, <1>10
<1>. QED
  BY <1>1, <1>5, <1>8, <1>9, <1>11

\* A clause is read back, whatever follows but a parameter.
LEMMA ClauseBack ==
    ASSUME NEW queries, NEW clause \in ClauseOf(queries), NEW t \in TokenList, NEW i,
           TokensAt(t, i, ClauseSpec(clause)), NoParameterAt(t, i + Len(ClauseSpec(clause)))
    PROVE  ParseConditionClause(queries, t, i) = Good(clause, i + Len(ClauseSpec(clause)))
<1>1. PICK operator, cs : operator = clause.operator /\ cs = clause.conditions
  OBVIOUS
<1>2. /\ clause.set \in BOOLEAN /\ operator \in SetOperator \cup {None}
      /\ cs \in Seq(ConditionOf(queries))
      /\ ~clause.set => operator = None
      /\ clause.set => Len(cs) <= MAX_SET_VALUES
  BY <1>1, ClauseIs
<1>3. /\ clause = [set |-> clause.set, operator |-> operator, conditions |-> cs]
      /\ ~clause.set => cs[1] \in ConditionOf(queries) /\ cs = <<cs[1]>>
  BY <1>1, ClauseParts
<1>4. CASE clause.set
  <2>1. ClauseSpec(clause) = SetSpec(operator, ConditionSpecs(cs))
    BY <1>1, <1>4 DEF ClauseSpec
  <2>2. ParseConditionClause(queries, t, i)
          = Good([set |-> TRUE, operator |-> operator, conditions |-> cs],
                 i + Len(SetSpec(operator, ConditionSpecs(cs))))
    BY ZenonT(60), <1>2, <1>4, <2>1, SetOfConditionsBack
  <2>3. clause = [set |-> TRUE, operator |-> operator, conditions |-> cs]
    BY <1>2, <1>3, <1>4
  <2>. QED
    BY <2>1, <2>2, <2>3
<1>5. CASE ~clause.set
  <2>1. PICK c : c = cs[1]
    OBVIOUS
  <2>2. ClauseSpec(clause) = ConditionSpec(c)
    BY <1>1, <1>5, <2>1 DEF ClauseSpec
  <2>3. PICK next : next = i + Len(ConditionSpec(c))
    OBVIOUS
  <2>4. c \in ConditionOf(queries) /\ cs = <<c>>
    BY <1>3, <1>5, <2>1
  <2>5. TokensAt(t, i, ConditionSpec(c)) /\ NoParameterAt(t, i + Len(ConditionSpec(c)))
    BY <2>2
  <2>6. /\ t[i].kind \in {"!", "Word"} /\ Operator(t, i) = None
        /\ ParseCondition(queries, t, i) = Good(c, next)
    BY <2>3, <2>4, <2>5, ConditionBack
  <2>7. ParseConditionClause(queries, t, i) = ConditionsAfter(None, queries, t, i)
    BY <2>6 DEF ParseConditionClause
  <2>8. t[i].kind # "{"
    BY <2>6
  <2>9. ~Failed(Good(c, next)) /\ Good(c, next).value = c /\ Good(c, next).next = next
    BY Results
  <2>10. ConditionsAfter(None, queries, t, i)
           = Then(ParseCondition(queries, t, i), LAMBDA single :
                  Good([set |-> FALSE, operator |-> None,
                        conditions |-> <<single.value>>], single.next))
    BY <2>8 DEF ConditionsAfter
  <2>11. ParseConditionClause(queries, t, i)
           = Good([set |-> FALSE, operator |-> None, conditions |-> <<c>>], next)
    BY <2>6, <2>7, <2>9, <2>10 DEF Then
  <2>12. clause = [set |-> FALSE, operator |-> None, conditions |-> <<c>>]
    BY <1>2, <1>3, <1>5, <2>4
  <2>. QED
    BY <2>2, <2>3, <2>11, <2>12
<1>. QED
  BY <1>4, <1>5

-----------------------------------------------------------------------------
(* Rules.                                                                  *)

\* The last token says whether there is a comment.
LEMMA TailBack ==
    ASSUME NEW comment \in Text \cup {None}, NEW t \in TokenList, NEW i,
           TokensAt(t, i, TailSpec(comment))
    PROVE  /\ i \in DOMAIN t /\ t[i].kind \in {"Comment", "End"}
           /\ comment = IF t[i].kind = "Comment" THEN t[i].text ELSE None
<1>1. CASE comment = None
  <2>1. PICK kind, s : kind = "End" /\ s = <<>>
    OBVIOUS
  <2>2. TailSpec(comment) = <<P(kind, s)>>
    BY <1>1, <2>1 DEF TailSpec
  <2>3. i \in DOMAIN t /\ t[i].kind = kind
    BY <2>2, TokensOne
  <2>. QED
    BY <1>1, <2>1, <2>3
<1>2. CASE comment # None
  <2>1. PICK kind, end, s, none : kind = "Comment" /\ end = "End" /\ s = comment /\ none = <<>>
    OBVIOUS
  <2>2. none \in Text /\ s \in Text /\ kind \in TokenKind /\ end \in TokenKind
    <3>1. <<>> \in Text
      BY EmptySeq DEF Text
    <3>. QED
      BY <1>2, <2>1, <3>1, KindsAre
  <2>3. PICK p, q : p = P(kind, s) /\ q = P(end, none)
    OBVIOUS
  <2>4. p \in Piece /\ q \in Piece /\ <<q>> \in Seq(Piece)
    BY <2>2, <2>3, PieceIs
  <2>5. <<p>> \o <<q>> = <<p, q>>
    BY <2>4, Two
  <2>6. TailSpec(comment) = <<p, q>>
    BY <1>2, <2>1, <2>3 DEF TailSpec
  <2>7. PICK rest : rest = <<q>>
    OBVIOUS
  <2>8. i \in DOMAIN t /\ t[i].kind = kind /\ t[i].text = s
    <3>1. TokensAt(t, i, <<P(kind, s)>> \o rest)
      BY <2>3, <2>5, <2>6, <2>7
    <3>2. rest \in Seq(Piece)
      BY <2>4, <2>7
    <3>. QED
      BY <2>2, <3>1, <3>2, TokensFirst
  <2>. QED
    BY <1>2, <2>1, <2>8
<1>. QED
  BY <1>1, <1>2

\* A token is there that ends the attributes.
AttributesEndAt(t, i) == i \in DOMAIN t /\ EndsAttributes(Keyword(t[i].text), t[i])

\* The clause is read back, if there is one.
LEMMA IfBack ==
    ASSUME NEW queries, NEW clause \in ClauseOf(queries) \cup {None}, NEW t \in TokenList,
           NEW i, TokensAt(t, i, IfSpec(clause)), NEW j, j = i + Len(IfSpec(clause)),
           j \in DOMAIN t, t[j].kind \in {"Comment", "End"}
    PROVE  /\ AttributesEndAt(t, i)
           /\ ParseClause(queries, t, i) = Good(clause, j)
<1>1. CASE clause = None
  <2>1. IfSpec(clause) = <<>>
    BY <1>1 DEF IfSpec
  <2>2. Len(<<>>) = 0 /\ i \in Nat
    BY DEF TokensAt
  <2>3. j = i
    BY <2>1, <2>2
  <2>4. t[i].kind # "Word" /\ t[i].kind \in {"Comment", "End"} /\ i \in DOMAIN t
    BY <2>3
  <2>5. ParseClause(queries, t, i) = Good(None, i)
    BY <2>4 DEF ParseClause
  <2>6. AttributesEndAt(t, i)
    BY <2>4 DEF AttributesEndAt, EndsAttributes
  <2>. QED
    BY <1>1, <2>3, <2>5, <2>6
<1>2. CASE clause # None
  <2>1. clause \in ClauseOf(queries)
    BY <1>2
  <2>2. PICK kind, s, rest : kind = "Word" /\ s = <<"if">> /\ rest = ClauseSpec(clause)
    OBVIOUS
  <2>3. kind \in TokenKind /\ s \in Text /\ rest \in Seq(Piece)
    <3>1. "if" \in Keywords
      BY DEF Keywords
    <3>2. <<"if">> \in Text
      BY <3>1, ReadsKeyword
    <3>3. rest \in Seq(Piece)
      BY <2>1, <2>2, ReadsClause
    <3>. QED
      BY <2>2, <3>2, <3>3, KindsAre
  <2>4. IfSpec(clause) = <<P(kind, s)>> \o rest
    BY <1>2, <2>2 DEF IfSpec, Word
  <2>5. /\ i \in DOMAIN t /\ i \in Nat /\ t[i].kind = kind /\ t[i].text = s
        /\ TokensAt(t, i + 1, rest) /\ i + Len(<<P(kind, s)>> \o rest) = (i + 1) + Len(rest)
    <3>1. TokensAt(t, i, <<P(kind, s)>> \o rest)
      BY <2>4
    <3>. QED
      BY <2>3, <3>1, TokensFirst
  <2>6. Keyword(t[i].text) = "if"
    BY <2>2, <2>5, KeywordOne
  <2>7. AttributesEndAt(t, i)
    BY <2>2, <2>5, <2>6 DEF AttributesEndAt, EndsAttributes
  <2>8. PICK n : n = i + 1
    OBVIOUS
  <2>9. j = n + Len(rest) /\ TokensAt(t, n, rest)
    BY <2>4, <2>5, <2>8
  <2>10. NoParameterAt(t, j)
    BY DEF NoParameterAt
  <2>11. ParseConditionClause(queries, t, n) = Good(clause, j)
    <3>1. TokensAt(t, n, ClauseSpec(clause)) /\ NoParameterAt(t, n + Len(ClauseSpec(clause)))
      BY <2>2, <2>9, <2>10
    <3>2. ParseConditionClause(queries, t, n) = Good(clause, n + Len(ClauseSpec(clause)))
      BY <2>1, <3>1, ClauseBack
    <3>. QED
      BY <2>2, <2>9, <3>2
  <2>12. ParseClause(queries, t, i) = ParseConditionClause(queries, t, n)
    BY <2>2, <2>5, <2>8 DEF ParseClause
  <2>. QED
    BY <2>7, <2>11, <2>12
<1>. QED
  BY <1>1, <1>2

LEMMA NamesTyped ==
    ASSUME NEW ats \in Seq(AnyAttribute)
    PROVE  /\ AttributeNames(ats) \in SUBSET AttributeName
           /\ FlattenSeq(AttributeSpecs(ats)) \in Seq(Piece)
<1>1. PICK S : S = AnyAttribute
  OBVIOUS
<1>2. ats \in Seq(S) /\ Len(ats) \in Nat /\ DOMAIN ats = 1..Len(ats)
  BY <1>1
<1>3. \A k \in 1..Len(ats) : ats[k] \in S
  BY <1>2
<1>4. \A x \in S : x.name \in AttributeName /\ AttributeSpec(x) \in Seq(Piece)
  BY <1>1, AnyAttributeIs, AttributeSpecTyped
<1>5. AttributeNames(ats) \in SUBSET AttributeName
  BY <1>2, <1>3, <1>4 DEF AttributeNames
<1>6. AttributeSpecs(ats) \in [1..Len(ats) -> Seq(Piece)]
  BY <1>2, <1>3, <1>4 DEF AttributeSpecs
<1>7. AttributeSpecs(ats) \in Seq(Seq(Piece))
  BY <1>2, <1>6, TypedSeq
<1>. QED
  BY <1>5, <1>7, FlattenTyped

\* The attributes are read back, or one of them has too many values.
LEMMA AttributesAllBack ==
    ASSUME NEW t \in TokenList, NEW first \in DOMAIN t,
           NEW ats \in Seq(AnyAttribute), Distinct(ats, {}),
           TokensAt(t, first, FlattenSeq(AttributeSpecs(ats))),
           NEW i, i = first + Len(FlattenSeq(AttributeSpecs(ats))), AttributesEndAt(t, i)
    PROVE  Outcome(ParseAttributes(t, first), ats, i, AnyOverfull(ats))
<1>1. PICK f, names : f = AttributesFrom(t) /\ names = AttributeNames(ats)
  OBVIOUS
<1>2. ParseAttributes(t, first) = f[first][{}]
  BY <1>1, AttributesFromIs
<1>3. names \in SUBSET AttributeName
  BY <1>1, NamesTyped
<1>4. i \in DOMAIN t /\ EndsAttributes(Keyword(t[i].text), t[i])
  BY DEF AttributesEndAt
<1>5. f[i][names] = Good(<<>>, i)
  <2>1. f[i] = AttributesStep(f, t, i)
    BY <1>1, <1>4, AttributesFromIs
  <2>2. AttributesStep(f, t, i)[names] = AttributeAt(f, Keyword(t[i].text), names, t, i)
    BY <1>3 DEF AttributesStep
  <2>3. AttributeAt(f, Keyword(t[i].text), names, t, i) = Good(<<>>, i)
    BY <1>3, <1>4, AttributesStop
  <2>. QED
    BY <2>1, <2>2, <2>3
<1>6. AttributesSkip(f, first, ats, i)
  <2>1. AttributesThere(t, first, ats)
    BY AttributesAreThere
  <2>. QED
    BY <1>1, <2>1 DEF AttributesThere
<1>7. CASE AnyOverfull(ats)
  <2>1. Overflows(f[first][{}])
    BY <1>6, <1>7 DEF AttributesSkip
  <2>. QED
    BY <1>2, <1>7, <2>1 DEF Outcome
<1>8. CASE ~AnyOverfull(ats)
  <2>1. f[first][{}] = Prepend(ats, f[i][names])
    BY <1>1, <1>6, <1>8 DEF AttributesSkip
  <2>2. Prepend(ats, Good(<<>>, i)) = Good(ats, i)
    BY PrependGood
  <2>3. ParseAttributes(t, first) = Good(ats, i)
    BY <1>2, <1>5, <2>1, <2>2
  <2>. QED
    BY <1>8, <2>3 DEF Outcome
<1>. QED
  BY <1>7, <1>8

\* A word that begins an attribute or a clause.
NoTargetAt(t, i) ==
    i \in DOMAIN t /\ (t[i].kind = "Word" => Keyword(t[i].text) \in AttributeName \cup {"if"})

LEMMA NoTarget ==
    ASSUME NEW t, NoTargetAt(t, 1)
    PROVE  Target(t[1]) = None
<1>1. \A k \in AttributeName \cup {"if"} : k \notin RuleTarget
  BY DEF AttributeName, StringAttributes, RuleTarget
<1>. QED
  BY <1>1 DEF NoTargetAt, Target

LEMMA StartsWithName ==
    ASSUME NEW t \in TokenList, NEW first \in DOMAIN t, NEW p \in Seq(AnyAttribute),
           TokensAt(t, first, FlattenSeq(AttributeSpecs(p))), p # <<>>
    PROVE  NoTargetAt(t, first)
<1>1. PICK S, T :
        /\ S = AnyAttribute
        /\ T = {ats \in Seq(S) : TokensAt(t, first, FlattenSeq(AttributeSpecs(ats))) /\ ats # <<>>
                                    => NoTargetAt(t, first)}
  OBVIOUS
<1>2. <<>> \in T
  <2>1. <<>> \in Seq(S)
    OBVIOUS
  <2>. QED
    BY <1>1, <2>1
<1>3. ASSUME NEW q \in Seq(S), NEW a \in S, q \in T PROVE Append(q, a) \in T
  <2>1. PICK x, y, all : x = FlattenSeq(AttributeSpecs(q)) /\ y = AttributeSpec(a) /\ all = Append(q, a)
    OBVIOUS
  <2>2. x \in Seq(Piece) /\ y \in Seq(Piece) /\ FlattenSeq(AttributeSpecs(all)) = x \o y
    BY <1>1, <2>1, AttributeTokensMore, AttributeSpecTyped
  <2>3. ASSUME TokensAt(t, first, x \o y) PROVE NoTargetAt(t, first)
    <3>1. TokensAt(t, first, x) /\ TokensAt(t, first + Len(x), y)
      BY <2>2, <2>3, TokensApart
    <3>2. CASE q # <<>>
      BY <1>1, <1>3, <2>1, <3>1, <3>2
    <3>3. CASE q = <<>>
      <4>1. AttributeSpecs(<<>>) = <<>>
        BY DEF AttributeSpecs
      <4>2. x = <<>>
        BY <2>1, <3>3, <4>1, FlattenNone
      <4>3. first + Len(<<>>) = first
        BY TokenAt
      <4>4. TokensAt(t, first, AttributeSpec(a))
        BY <2>1, <3>1, <4>2, <4>3
      <4>5. a \in AnyAttribute
        BY <1>1
      <4>6. first \in DOMAIN t /\ Keyword(t[first].text) = a.name /\ a.name \in AttributeName
        BY <4>4, <4>5, AttributeBack, AnyAttributeIs
      <4>. QED
        BY <4>6 DEF NoTargetAt
    <3>. QED
      BY <3>2, <3>3
  <2>4. all \in Seq(S)
    BY <2>1
  <2>. QED
    BY <1>1, <2>1, <2>2, <2>3, <2>4
<1>4. Seq(S) \subseteq T
  BY <1>2, <1>3, AppendInduction
<1>. QED
  BY <1>1, <1>4

\* A rule is read back from its tokens, or has too many values.
LEMMA RuleBack ==
    ASSUME NEW queries, NEW rule \in AnyRuleOf(queries), NEW t \in TokenList,
           Plain(t) = RuleSpec(rule) \o TailSpec(rule.comment)
    PROVE  \E last : Outcome(ParseRule(queries, t, "Query"), rule, last, AnyOverfull(rule.attributes))
<1>1. PICK tgt, ats, clause, comment :
        tgt = rule.target /\ ats = rule.attributes /\ clause = rule.condition /\ comment = rule.comment
  OBVIOUS
<1>2. /\ tgt \in RuleTarget \cup {None} /\ ats \in Seq(AnyAttribute)
      /\ clause \in ClauseOf(queries) \cup {None} /\ comment \in Text \cup {None}
      /\ Distinct(ats, {}) /\ rule = ARule(tgt, ats, clause, comment)
  BY <1>1, AnyRuleIs
<1>3. ~(tgt = None /\ ats = <<>> /\ clause = None)
  BY <1>1, AnyRuleIs DEF SaysSomething
<1>4. PICK a, b, c, d : /\ a = TargetSpec(tgt) /\ b = FlattenSeq(AttributeSpecs(ats))
                        /\ c = IfSpec(clause) /\ d = TailSpec(comment)
  OBVIOUS
<1>5. /\ a \in Seq(Piece) /\ b \in Seq(Piece) /\ c \in Seq(Piece) /\ d \in Seq(Piece)
  <2>1. a \in Seq(Piece)
    <3>1. PICK x : Matching(TargetPiece(tgt), x) /\ FlattenSeq(x) = TargetSpec(tgt)
      BY <1>2, TargetMatches
    <3>. QED
      BY <1>4, <3>1, MatchingTyped
  <2>2. c \in Seq(Piece)
    <3>1. PICK x : Matching(ClausePieces(clause), x) /\ FlattenSeq(x) = IfSpec(clause)
      BY <1>2, ClauseMatches
    <3>. QED
      BY <1>4, <3>1, MatchingTyped
  <2>. QED
    BY <1>2, <1>4, <2>1, <2>2, NamesTyped, TailTyped
<1>6. PICK i2, i3, i4 : i2 = 1 + Len(a) /\ i3 = i2 + Len(b) /\ i4 = i3 + Len(c)
  OBVIOUS
<1>7. TokensAt(t, 1, a) /\ TokensAt(t, i2, b) /\ TokensAt(t, i3, c) /\ TokensAt(t, i4, d)
  <2>1. PICK ab, abc : ab = a \o b /\ abc = ab \o c
    OBVIOUS
  <2>2. ab \in Seq(Piece) /\ abc \in Seq(Piece)
    BY <1>5, <2>1
  <2>3. Plain(t) = abc \o d
    BY <1>1, <1>4, <2>1 DEF RuleSpec
  <2>4. TokensAt(t, 1, abc \o d)
    BY <2>3, TokensWhole
  <2>5. TokensAt(t, 1, abc) /\ TokensAt(t, 1 + Len(abc), d)
    BY <1>5, <2>2, <2>4, TokensApart
  <2>6. TokensAt(t, 1, ab) /\ TokensAt(t, 1 + Len(ab), c) /\ 1 + Len(abc) = (1 + Len(ab)) + Len(c)
    <3>1. TokensAt(t, 1, ab \o c)
      BY <2>1, <2>5
    <3>2. /\ TokensAt(t, 1, ab) /\ TokensAt(t, 1 + Len(ab), c)
          /\ 1 + Len(ab \o c) = (1 + Len(ab)) + Len(c)
      BY <1>5, <2>2, <3>1, TokensApart
    <3>. QED
      BY <2>1, <3>2
  <2>7. TokensAt(t, 1, a) /\ TokensAt(t, 1 + Len(a), b) /\ 1 + Len(ab) = (1 + Len(a)) + Len(b)
    <3>1. TokensAt(t, 1, a \o b)
      BY <2>1, <2>6
    <3>2. /\ TokensAt(t, 1, a) /\ TokensAt(t, 1 + Len(a), b)
          /\ 1 + Len(a \o b) = (1 + Len(a)) + Len(b)
      BY <1>5, <3>1, TokensApart
    <3>. QED
      BY <2>1, <3>2
  <2>. QED
    BY <1>6, <2>5, <2>6, <2>7
<1>8. /\ i4 \in DOMAIN t /\ t[i4].kind \in {"Comment", "End"}
      /\ comment = IF t[i4].kind = "Comment" THEN t[i4].text ELSE None
  <2>1. TokensAt(t, i4, TailSpec(comment))
    BY <1>4, <1>7
  <2>. QED
    BY <1>2, <2>1, TailBack
<1>9. AttributesEndAt(t, i3) /\ ParseClause(queries, t, i3) = Good(clause, i4)
  <2>1. TokensAt(t, i3, IfSpec(clause)) /\ i4 = i3 + Len(IfSpec(clause))
    BY <1>4, <1>6, <1>7
  <2>. QED
    BY <1>2, <1>8, <2>1, IfBack
<1>10. i2 \in DOMAIN t
  <2>1. i2 \in Nat \ {0} /\ Len(b) \in Nat
    BY <1>5, <1>7 DEF TokensAt
  <2>2. i3 \in DOMAIN t
    BY <1>9 DEF AttributesEndAt
  <2>3. DOMAIN t = 1..Len(t) /\ Len(t) \in Nat
    BY DEF TokenList
  <2>. QED
    BY <1>6, <2>1, <2>2, <2>3
<1>11. PICK r : r = ParseAttributes(t, i2)
  OBVIOUS
<1>12. Outcome(r, ats, i3, AnyOverfull(ats))
  <2>1. TokensAt(t, i2, FlattenSeq(AttributeSpecs(ats))) /\ i3 = i2 + Len(FlattenSeq(AttributeSpecs(ats)))
    BY <1>4, <1>6, <1>7
  <2>2. Outcome(ParseAttributes(t, i2), ats, i3, AnyOverfull(ats))
    BY <1>2, <1>9, <1>10, <2>1, AttributesAllBack
  <2>. QED
    BY <1>11, <2>2
<1>13. Target(t[1]) = tgt /\ i2 = IF tgt = None THEN 1 ELSE 2
  <2>1. CASE tgt = None
    <3>1. a = <<>>
      BY <1>4, <2>1 DEF TargetSpec
    <3>2. i2 = 1
      BY <1>6, <3>1
    <3>3. NoTargetAt(t, 1)
      <4>1. CASE ats # <<>>
        <5>1. TokensAt(t, i2, FlattenSeq(AttributeSpecs(ats)))
          BY <1>4, <1>7
        <5>2. NoTargetAt(t, i2)
          BY <1>2, <1>10, <4>1, <5>1, StartsWithName
        <5>. QED
          BY <3>2, <5>2
      <4>2. CASE ats = <<>>
        <5>1. AttributeSpecs(<<>>) = <<>>
          BY DEF AttributeSpecs
        <5>2. b = <<>>
          BY <1>4, <4>2, <5>1, FlattenNone
        <5>3. i3 = 1
          BY <1>6, <3>2, <5>2
        <5>. QED
          BY <1>9, <5>3 DEF AttributesEndAt, EndsAttributes, NoTargetAt
      <4>. QED
        BY <4>1, <4>2
    <3>. QED
      BY <2>1, <3>2, <3>3, NoTarget
  <2>2. CASE tgt # None
    <3>1. PICK kind, s : kind = "Word" /\ s = <<tgt>>
      OBVIOUS
    <3>2. a = <<P(kind, s)>>
      BY <1>4, <2>2, <3>1 DEF TargetSpec, Word
    <3>3. t[1].kind = kind /\ t[1].text = s /\ 1 + Len(<<P(kind, s)>>) = 1 + 1
      BY <1>7, <3>2, TokensOne
    <3>4. i2 = 2
      BY <1>6, <3>2, <3>3
    <3>5. Keyword(s) = tgt /\ s[1] = tgt
      BY <3>1, KeywordOne
    <3>6. tgt \in RuleTarget
      BY <1>2, <2>2
    <3>7. Target(t[1]) = tgt
      BY <3>1, <3>3, <3>5, <3>6 DEF Target
    <3>. QED
      BY <2>2, <3>4, <3>7
  <2>. QED
    BY <2>1, <2>2
<1>14. PICK p : p = ParseRule(queries, t, "Query")
  OBVIOUS
<1>15. p = IF Failed(r) THEN r
           ELSE Then(ParseClause(queries, t, r.next), LAMBDA x : ParseEnd(t, tgt, r.value, x))
  <2>1. p = ParseAfter(tgt, queries, t, "Query")
    BY <1>13, <1>14 DEF ParseRule
  <2>2. Allowed("Query", tgt)
    BY DEF Allowed
  <2>3. ParseAfter(tgt, queries, t, "Query")
          = Then(ParseAttributes(t, IF tgt = None THEN 1 ELSE 2), LAMBDA x :
                 Then(ParseClause(queries, t, x.next), LAMBDA y : ParseEnd(t, tgt, x.value, y)))
    BY <2>2 DEF ParseAfter
  <2>. QED
    BY <1>11, <1>13, <2>1, <2>3 DEF Then
<1>16. CASE AnyOverfull(ats)
  <2>1. Overflows(r)
    BY <1>12, <1>16 DEF Outcome
  <2>2. Overflows(p)
    BY <1>15, <2>1, OverflowFails
  <2>. QED
    BY <1>1, <1>14, <1>16, <2>2 DEF Outcome
<1>17. CASE ~AnyOverfull(ats)
  <2>1. r = Good(ats, i3)
    BY <1>12, <1>17 DEF Outcome
  <2>2. ~Failed(r) /\ r.value = ats /\ r.next = i3
    BY <2>1, Results
  <2>3. PICK x : x = Good(clause, i4)
    OBVIOUS
  <2>4. ~Failed(x) /\ x.value = clause /\ x.next = i4
    BY <2>3, Results
  <2>5. p = ParseEnd(t, tgt, ats, x)
    BY <1>9, <1>15, <2>2, <2>3, <2>4 DEF Then
  <2>6. ParseEnd(t, tgt, ats, x) = Good(ARule(tgt, ats, clause, comment), i4)
    <3>1. ~(t[i4].kind \notin {"Comment", "End"})
      BY <1>8
    <3>2. ParseEnd(t, tgt, ats, x)
            = Good(ARule(tgt, ats, clause, IF t[i4].kind = "Comment" THEN t[i4].text ELSE None), i4)
      BY <1>3, <2>4, <3>1 DEF ParseEnd, ARule
    <3>. QED
      BY <1>8, <3>2
  <2>7. p = Good(rule, i4)
    BY <1>2, <2>5, <2>6
  <2>. QED
    BY <1>1, <1>14, <1>17, <2>7 DEF Outcome
<1>. QED
  BY <1>16, <1>17

-----------------------------------------------------------------------------
(* What is rendered is read back.                                          *)

\* A rule survives its rendering, but for its length and its sets.
RefusedFor(rule, r) ==
    \/ ~Failed(r)
    \/ r.error = "TooLong" /\ Len(Render(rule)) > MAX_INPUT_LEN
    \/ r.error = "TooManyValues" /\ AnyOverfull(rule.attributes)

LEMMA RenderedBack ==
    ASSUME NEW queries, NEW rule \in AnyRuleOf(queries)
    PROVE  LET r == ParseWith(queries, Render(rule), "Query")
           IN  RefusedFor(rule, r) /\ (~Failed(r) => r.value = rule)
<1>1. PICK input, tokens, r : /\ input = Render(rule) /\ tokens = RuleSpec(rule) \o TailSpec(rule.comment)
                              /\ r = ParseWith(queries, Render(rule), "Query")
  OBVIOUS
<1>2. input \in Text /\ LexesTo(input, 1, tokens) /\ 1 \in Place
  BY <1>1, RulePiecesTyped, LexesRule DEF Place
<1>3. PICK lexed : lexed = Lex(input)
  OBVIOUS
<1>4. ~Failed(lexed) /\ lexed.value \in TokenList /\ Plain(lexed.value) = tokens
  <2>1. LexFrom(input) \in [Place -> Result(TokenList)] /\ lexed = LexFrom(input)[1]
    BY <1>2, <1>3, LexFromIs
  <2>2. lexed \in Result(TokenList)
    BY <1>2, <2>1
  <2>3. ~Failed(lexed) /\ Plain(lexed.value) = tokens
    BY <1>2, <2>1 DEF LexesTo
  <2>. QED
    BY <2>2, <2>3, ValueOf
<1>5. PICK t : t = lexed.value
  OBVIOUS
<1>6. PICK last : Outcome(ParseRule(queries, t, "Query"), rule, last, AnyOverfull(rule.attributes))
  <2>1. t \in TokenList /\ Plain(t) = RuleSpec(rule) \o TailSpec(rule.comment)
    BY <1>1, <1>4, <1>5
  <2>. QED
    BY <2>1, RuleBack
<1>7. CASE Len(input) > MAX_INPUT_LEN
  <2>1. r = Fail("TooLong", MAX_INPUT_LEN + 1)
    BY <1>1, <1>7 DEF ParseWith
  <2>2. Failed(r) /\ r.error = "TooLong"
    BY <2>1, Results DEF Fail
  <2>3. r.error = "TooLong" /\ Len(Render(rule)) > MAX_INPUT_LEN
    BY <1>1, <1>7, <2>2
  <2>. QED
    BY <1>1, <2>2, <2>3 DEF RefusedFor
<1>8. CASE ~(Len(input) > MAX_INPUT_LEN)
  <2>1. r = ParseRule(queries, t, "Query")
    BY <1>1, <1>3, <1>4, <1>5, <1>8 DEF ParseWith, Then
  <2>2. CASE AnyOverfull(rule.attributes)
    <3>1. Failed(r) /\ r.error = "TooManyValues"
      BY <1>6, <2>1, <2>2 DEF Outcome, Overflows
    <3>. QED
      BY <1>1, <2>2, <3>1 DEF RefusedFor
  <2>3. CASE ~AnyOverfull(rule.attributes)
    <3>1. r = Good(rule, last)
      BY <1>6, <2>1, <2>3 DEF Outcome
    <3>2. ~Failed(r) /\ r.value = rule
      BY <3>1, Results
    <3>. QED
      BY <1>1, <3>2 DEF RefusedFor
  <2>. QED
    BY <2>2, <2>3
<1>. QED
  BY <1>7, <1>8

\* So does the check of a rendering.
LEMMA RenderCheckedBack ==
    ASSUME NEW rule \in AnyRuleOf(Nested)
    PROVE  RefusedFor(rule, RenderChecked(rule))
<1>1. PICK r : r = Parse(Render(rule), "Query")
  OBVIOUS
<1>2. RefusedFor(rule, r) /\ (~Failed(r) => r.value = rule)
  <2>1. r = ParseWith(Nested, Render(rule), "Query")
    BY <1>1 DEF Parse
  <2>. QED
    BY <2>1, RenderedBack
<1>3. RenderChecked(rule)
        = IF Failed(r) THEN r
          ELSE IF r.value = rule THEN Good(Render(rule), 0) ELSE Fail("InvalidValue", 1)
  BY <1>1 DEF RenderChecked, Then
<1>4. CASE Failed(r)
  BY <1>2, <1>3, <1>4
<1>5. CASE ~Failed(r)
  <2>1. RenderChecked(rule) = Good(Render(rule), 0)
    BY <1>2, <1>3, <1>5
  <2>2. ~Failed(RenderChecked(rule))
    BY <2>1, Results
  <2>. QED
    BY <2>2 DEF RefusedFor
<1>. QED
  BY <1>4, <1>5

\* The parser bounds its sets.
LEMMA ReadIsNotOverfull ==
    ASSUME NEW queries, NEW rule \in RuleOf(queries)
    PROVE  ~AnyOverfull(rule.attributes)
<1>1. PICK ats : ats = rule.attributes
  OBVIOUS
<1>2. ats \in Seq(AttributeOf)
  BY <1>1 DEF RuleOf, IsRule
<1>3. ASSUME NEW k \in DOMAIN ats PROVE ~Overfull(ats[k].values)
  <2>1. ats[k] \in AttributeOf
    BY <1>2
  <2>2. ats[k].values \in ValuesOfName(ats[k].name)
    BY <2>1 DEF AttributeOf
  <2>3. IsValues(ats[k].name, ats[k].values)
    BY <2>2 DEF ValuesOfName
  <2>. QED
    BY <2>3 DEF IsValues, Overfull
<1>. QED
  BY <1>1, <1>3 DEF AnyOverfull

\* A row with too many values has as many words.
LEMMA RowOverfull ==
    ASSUME NEW field \in Row, ~Failed(FieldValues(field)), Overfull(FieldValues(field).value)
    PROVE  Len(Words(field.text)) > MAX_SET_VALUES
<1>1. PICK words, parsed, r : /\ words = Words(field.text) /\ parsed = ParseAll(field.name, words)
                              /\ r = FieldValues(field)
  OBVIOUS
<1>2. words \in Seq(Text) /\ field.operator \in SetOperator \cup {None}
  BY <1>1, WordsTyped DEF Row
<1>3. CASE field.name \in StringAttributes
  <2>1. field.operator = None
    <3>1. field.operator # None => r = Fail("SetOfText", 0)
      BY <1>1, <1>3 DEF FieldValues
    <3>2. Failed(Fail("SetOfText", 0))
      BY Results
    <3>. QED
      BY <1>1, <3>1, <3>2
  <2>2. PICK v : v = <<<<field.text>>>>
    OBVIOUS
  <2>3. r = Good([set |-> FALSE, operator |-> None, values |-> v], 0)
    BY <1>1, <1>3, <2>1, <2>2 DEF FieldValues
  <2>4. r.value = [set |-> FALSE, operator |-> None, values |-> v]
    BY <2>3, Results
  <2>5. r.value.set = FALSE
    BY <2>4
  <2>. QED
    BY <1>1, <2>5 DEF Overfull
<1>4. CASE field.name \notin StringAttributes
  <2>1. PICK vs : vs = [set |-> Len(parsed) > 1 \/ field.operator # None,
                        operator |-> field.operator, values |-> parsed]
    OBVIOUS
  <2>2. \/ r = Fail("InvalidValue", 0) \/ r = Fail("Empty", 0) \/ r = Good(vs, 0)
    BY <1>1, <1>4, <2>1 DEF FieldValues, StructuredValues
  <2>3. r = Good(vs, 0)
    BY <1>1, <2>2, Results
  <2>4. r.value = vs /\ vs.values = parsed
    BY <2>1, <2>3, Results
  <2>5. ~(Len(parsed) <= MAX_SET_VALUES)
    BY <1>1, <2>4 DEF Overfull
  <2>6. Len(parsed) = Len(words) /\ Len(words) \in Nat
    <3>1. parsed = [i \in 1..Len(words) |-> ParseStructured(field.name, words[i])] /\ Len(words) \in Nat
      BY <1>1, <1>2 DEF ParseAll
    <3>. QED
      BY <3>1
  <2>7. PICK n : n = Len(words)
    OBVIOUS
  <2>8. n > MAX_SET_VALUES
    <3>1. n \in Nat /\ ~(n <= MAX_SET_VALUES)
      BY <2>5, <2>6, <2>7
    <3>. QED
      BY <3>1, Bounds
  <2>. QED
    BY <1>1, <2>7, <2>8
<1>. QED
  BY <1>3, <1>4

LEMMA FormOverfull ==
    ASSUME NEW tgt, NEW rows \in Seq(Row), ~Failed(BuildRule(tgt, rows)),
           AnyOverfull(BuildRule(tgt, rows).value.attributes)
    PROVE  \E i \in DOMAIN rows : Len(Words(rows[i].text)) > MAX_SET_VALUES
<1>. DEFINE results == [row \in DOMAIN rows |-> FieldValues(rows[row])]
            Wrong(row) == \/ \E earlier \in 1..row - 1 : rows[earlier].name = rows[row].name
                          \/ Failed(results[row])
            W == {row \in DOMAIN rows : Wrong(row)}
            ats == [i \in DOMAIN rows |-> [name |-> rows[i].name, values |-> results[i].value]]
            r == BuildRule(tgt, rows)
<1>1. r = IF First(W) # 0 THEN Fail("Field", First(W)) ELSE Good(ARule(tgt, ats, None, None), 0)
  BY DEF BuildRule, BuildRows, ARule
<1>2. First(W) = 0
  <2>1. Failed(Fail("Field", First(W))) /\ ~Failed(r)
    BY Results
  <2>. HIDE DEF r, W, ats
  <2>. QED
    BY <1>1, <2>1
<1>3. W = {}
  <2>1. DOMAIN rows \in SUBSET Nat /\ \A row \in DOMAIN rows : row # 0
    OBVIOUS
  <2>2. W \in SUBSET Nat /\ 0 \notin W
    BY <2>1
  <2>. HIDE DEF W
  <2>. QED
    BY <1>2, <2>2, FirstIs
<1>4. r.value.attributes = ats
  <2>1. PICK rule : rule = ARule(tgt, ats, None, None)
    OBVIOUS
  <2>2. rule.attributes = ats
    BY <2>1 DEF ARule
  <2>. HIDE DEF ats, W
  <2>3. r = Good(rule, 0)
    BY <1>1, <1>2, <2>1
  <2>. QED
    BY <2>2, <2>3, Results
<1>5. PICK k \in DOMAIN ats : Overfull(ats[k].values)
  BY <1>4 DEF AnyOverfull
<1>6. k \in DOMAIN rows /\ ats[k].values = results[k].value /\ results[k] = FieldValues(rows[k])
  OBVIOUS
<1>7. ~Failed(results[k])
  BY <1>3, <1>6
<1>8. PICK row : row = rows[k]
  OBVIOUS
<1>9. row \in Row
  BY <1>6, <1>8
<1>10. Len(Words(row.text)) > MAX_SET_VALUES
  <2>1. ~Failed(FieldValues(row)) /\ Overfull(FieldValues(row).value)
    BY <1>5, <1>6, <1>7, <1>8
  <2>. QED
    BY <1>9, <2>1, RowOverfull
<1>. QED
  BY <1>6, <1>8, <1>10

-----------------------------------------------------------------------------
(* What is read, entered and checked.                                      *)

LEMMA EndTarget ==
    ASSUME NEW t, NEW tgt, NEW attributes, NEW clause,
           ~Failed(ParseEnd(t, tgt, attributes, clause))
    PROVE  ParseEnd(t, tgt, attributes, clause).value.target = tgt
<1>. DEFINE last == t[clause.next]
            rule == [target |-> tgt, attributes |-> attributes, condition |-> clause.value,
                     comment |-> IF last.kind = "Comment" THEN last.text ELSE None]
            wrong == last.kind \notin {"Comment", "End"}
            empty == tgt = None /\ attributes = <<>> /\ clause.value = None
<1>1. ParseEnd(t, tgt, attributes, clause)
        = CASE wrong -> Fail("UnexpectedToken", last.offset)
            [] ~wrong /\ empty -> Fail("Empty", 1)
            [] OTHER -> Good(rule, clause.next)
  BY DEF ParseEnd
<1>2. rule.target = tgt
  OBVIOUS
<1>. HIDE DEF rule, wrong, empty
<1>3. ParseEnd(t, tgt, attributes, clause) = Good(rule, clause.next)
  BY <1>1, Results
<1>. QED
  BY <1>2, <1>3, Results

\* A rule that is read as a policy rule is a policy rule, and reads the same
\* as a query.
LEMMA RuleIsQuery ==
    ASSUME NEW input
    PROVE  /\ ~Failed(Parse(input, "Rule")) =>
                /\ Parse(input, "Query") = Parse(input, "Rule")
                /\ Parse(input, "Rule").value.target \in Targets
           /\ ~Failed(Parse(input, "Query")) /\ Parse(input, "Query").value.target \in Targets =>
                Parse(input, "Rule") = Parse(input, "Query")
<1>. DEFINE t == Lex(input).value
            tgt == Target(t[1])
            attributes == ParseAttributes(t, IF tgt = None THEN 1 ELSE 2)
            clause == ParseClause(Nested, t, attributes.next)
            end == ParseEnd(t, tgt, attributes.value, clause)
            body == IF Failed(attributes) THEN attributes
                    ELSE IF Failed(clause) THEN clause ELSE end
            wrong == Fail(IF t[1].kind = "End" THEN "Empty" ELSE "InvalidTarget", t[1].offset)
<1>1. ParseRule(Nested, t, "Query") = body
  BY DEF ParseRule, ParseAfter, Then, Allowed
<1>2. ParseRule(Nested, t, "Rule") = IF tgt \in Targets THEN body ELSE wrong
  BY DEF ParseRule, ParseAfter, Then, Allowed, Targets
<1>3. ~Failed(body) => body.value.target = tgt
  <2>1. ~Failed(end) => end.value.target = tgt
    BY EndTarget
  <2>. QED
    BY <2>1
<1>4. Failed(wrong)
  BY Results
<1>. HIDE DEF t, tgt, body, wrong
<1>5. CASE Len(input) > MAX_INPUT_LEN
  BY <1>5, Results DEF Parse, ParseWith
<1>6. CASE ~(Len(input) > MAX_INPUT_LEN) /\ Failed(Lex(input))
  BY <1>6 DEF Parse, ParseWith, Then
<1>7. CASE ~(Len(input) > MAX_INPUT_LEN) /\ ~Failed(Lex(input))
  <2>1. /\ Parse(input, "Query") = body
        /\ Parse(input, "Rule") = IF tgt \in Targets THEN body ELSE wrong
    BY <1>1, <1>2, <1>7 DEF Parse, ParseWith, Then, t
  <2>. QED
    BY <2>1, <1>3, <1>4
<1>. QED
  BY <1>5, <1>6, <1>7

LEMMA EnteredTarget ==
    ASSUME NEW m, NEW tgt \in Targets, NEW rows, NEW txt,
           ~Failed(Entered(m, tgt, rows, txt))
    PROVE  Entered(m, tgt, rows, txt).value.target \in Targets
<1>1. CASE m = "guided"
  <2>1. Entered(m, tgt, rows, txt) = BuildRule(tgt, rows)
    BY <1>1 DEF Entered
  <2>2. Entered(m, tgt, rows, txt).value.target = tgt
    BY <2>1, Results DEF BuildRule, BuildRows
  <2>. QED
    BY <2>2
<1>2. CASE m # "guided"
  BY <1>2, RuleIsQuery DEF Entered
<1>. QED
  BY <1>1, <1>2

\* What the dialog may show and submit.
Canonical(rule) ==
    /\ rule.target \in Targets
    /\ ~Failed(Parse(Render(rule), "Query")) /\ Parse(Render(rule), "Query").value = rule

LEMMA Survives ==
    ASSUME NEW rule
    PROVE  /\ ~Failed(RenderChecked(rule)) =>
                /\ ~Failed(Parse(Render(rule), "Query"))
                /\ Parse(Render(rule), "Query").value = rule
                /\ RenderChecked(rule).value = Render(rule)
           /\ Canonical(rule) => ~Failed(RenderChecked(rule))
BY Results DEF RenderChecked, Then, Canonical

LEMMA CheckedRule ==
    ASSUME NEW m, NEW tgt \in Targets, NEW rows, NEW txt,
           ~Failed(Checked(m, tgt, rows, txt))
    PROVE  LET checked == Checked(m, tgt, rows, txt).value
           IN  Canonical(checked.rule) /\ checked.text = Render(checked.rule)
<1>. DEFINE entered == Entered(m, tgt, rows, txt)
            rendered == RenderChecked(entered.value)
<1>1. ~Failed(entered) /\ ~Failed(rendered)
      /\ Checked(m, tgt, rows, txt) = Good([rule |-> entered.value, text |-> rendered.value], 0)
  BY DEF Checked, Then
<1>2. Checked(m, tgt, rows, txt).value = [rule |-> entered.value, text |-> rendered.value]
  BY <1>1, Results
<1>3. entered.value.target \in Targets
  BY <1>1, EnteredTarget
<1>. HIDE DEF entered
<1>4. Canonical(entered.value) /\ rendered.value = Render(entered.value)
  BY <1>1, <1>3, Survives DEF Canonical
<1>. HIDE DEF rendered
<1>. QED
  BY <1>2, <1>4

-----------------------------------------------------------------------------
(* What the dialog shows, submits and previews.                            *)

ShownInv == current # None => Canonical(current) /\ preview = Render(current)

SubmittedInv == submitted # None => closed /\ current # None /\ submitted = current

\* A preview that is still waited for is about the rule as it is now.
PreviewInv ==
    /\ revision \in Nat
    /\ \A f \in waiting :
        /\ f.revision \in Nat /\ f.revision <= revision
        /\ f.revision = revision /\ ~closed => current # None /\ f.query = Query(current)

DialogInv ==
    /\ target \in Targets
    /\ ShownInv /\ SubmittedInv /\ PreviewInv /\ PreviewIsOfTheCurrentRule

LEMMA DialogInit == Init => DialogInv
<1>. SUFFICES ASSUME Init PROVE DialogInv
  OBVIOUS
<1>. DEFINE checked == Checked(mode, target, fields, text)
<1>1. target \in Targets
  BY DEF Init, Targets
<1>2. CASE Failed(checked)
  <2>1. current = None
    BY <1>2 DEF Init
  <2>. QED
    BY <1>1, <2>1 DEF Init, DialogInv, ShownInv, SubmittedInv, PreviewInv,
                      PreviewIsOfTheCurrentRule
<1>3. CASE ~Failed(checked)
  <2>1. current = checked.value.rule /\ preview = checked.value.text
    BY <1>3 DEF Init
  <2>2. ShownInv
    BY <1>1, <1>3, <2>1, CheckedRule DEF ShownInv
  <2>. QED
    BY <1>1, <2>2 DEF Init, DialogInv, SubmittedInv, PreviewInv, PreviewIsOfTheCurrentRule
<1>. QED
  BY <1>2, <1>3

\* Every edit ends with a recompute.
LEMMA DialogEdit ==
    ASSUME DialogInv, Edit, Recompute, target' \in Targets
    PROVE  DialogInv'
<1>. DEFINE checked == Checked(mode', target', fields', text')
<1>1. /\ ~closed /\ closed' = closed /\ submitted' = submitted
      /\ revision' = revision + 1 /\ answer' = None /\ waiting' = waiting
  BY DEF Edit, Recompute, SetRule, CancelPreview
<1>2. \/ Failed(checked) /\ current' = None
      \/ ~Failed(checked) /\ current' = checked.value.rule /\ preview' = checked.value.text
  BY DEF Recompute
<1>3. ~Failed(checked) =>
        Canonical(checked.value.rule) /\ checked.value.text = Render(checked.value.rule)
  BY CheckedRule
<1>. HIDE DEF checked
<1>4. ShownInv'
  BY <1>2, <1>3 DEF ShownInv, Canonical
<1>5. SubmittedInv'
  BY <1>1 DEF DialogInv, SubmittedInv
<1>6. PreviewInv'
  <2>1. revision' \in Nat
    BY <1>1 DEF DialogInv, PreviewInv
  <2>2. ASSUME NEW f \in waiting' PROVE f.revision \in Nat /\ f.revision < revision'
    BY <1>1, <2>2 DEF DialogInv, PreviewInv
  <2>3. \A f \in waiting' : f.revision # revision' /\ f.revision <= revision'
    BY <2>1, <2>2
  <2>. QED
    BY <2>1, <2>2, <2>3 DEF PreviewInv
<1>7. PreviewIsOfTheCurrentRule'
  BY <1>1 DEF PreviewIsOfTheCurrentRule
<1>. QED
  BY <1>4, <1>5, <1>6, <1>7 DEF DialogInv

LEMMA DialogNext == DialogInv /\ [Next]_vars => DialogInv'
<1>. SUFFICES ASSUME DialogInv, [Next]_vars PROVE DialogInv'
  OBVIOUS
<1>1. CASE EditFields
  BY <1>1, DialogEdit DEF EditFields, DialogInv
<1>2. CASE SetTarget
  BY <1>2, DialogEdit DEF SetTarget, DialogInv
<1>3. CASE EditText
  BY <1>3, DialogEdit DEF EditText, DialogInv
<1>4. CASE SwitchMode
  BY <1>4, DialogEdit DEF SwitchMode, DialogInv
<1>5. CASE Activate
  <2>1. /\ ~closed /\ current # None
        /\ UNCHANGED <<target, current, preview, closed, submitted>>
        /\ revision' = revision + 1 /\ answer' = None
        /\ waiting' \subseteq waiting \cup {[revision |-> revision', query |-> Query(current)]}
    BY <1>5 DEF Activate, CancelPreview, formVars, ruleVars
  <2>2. revision' \in Nat /\ \A f \in waiting : f.revision \in Nat /\ f.revision < revision'
    BY <2>1 DEF DialogInv, PreviewInv
  <2>3. ASSUME NEW f \in waiting'
        PROVE  /\ f.revision \in Nat /\ f.revision <= revision'
               /\ f.revision = revision' => f.query = Query(current)
    <3>1. CASE f \in waiting
      BY <2>2, <3>1
    <3>2. CASE f = [revision |-> revision', query |-> Query(current)]
      BY <2>2, <3>2
    <3>. QED
      BY <2>1, <3>1, <3>2
  <2>4. Query(current') = Query(current)
    BY <2>1
  <2>5. PreviewInv'
    BY <2>1, <2>2, <2>3, <2>4 DEF PreviewInv
  <2>6. ShownInv' /\ SubmittedInv'
    BY <2>1 DEF DialogInv, ShownInv, SubmittedInv, Canonical
  <2>. QED
    BY <2>1, <2>5, <2>6 DEF DialogInv, PreviewIsOfTheCurrentRule
<1>6. ASSUME NEW rule, Close(rule), rule # None => current # None /\ rule = current
      PROVE  DialogInv'
  <2>1. /\ closed' /\ submitted' = rule /\ revision' = revision + 1 /\ answer' = None
        /\ UNCHANGED <<target, current, preview, waiting>>
    BY <1>6 DEF Close, CancelPreview, formVars, ruleVars
  <2>2. PreviewInv'
    <3>1. revision' \in Nat /\ \A f \in waiting' : f.revision \in Nat /\ f.revision <= revision'
      BY <2>1 DEF DialogInv, PreviewInv
    <3>. QED
      BY <2>1, <3>1 DEF PreviewInv
  <2>3. ShownInv' /\ SubmittedInv'
    BY <1>6, <2>1 DEF DialogInv, ShownInv, SubmittedInv, Canonical
  <2>. QED
    BY <2>1, <2>2, <2>3 DEF DialogInv, PreviewIsOfTheCurrentRule
<1>7. ASSUME NEW f \in waiting, Reply(f) PROVE DialogInv'
  <2>1. /\ UNCHANGED <<target, current, preview, closed, submitted, revision>>
        /\ waiting' \subseteq waiting
        /\ \/ f.revision = revision /\ ~closed /\ answer' \in {f.query, None}
           \/ answer' = answer
    BY <1>7 DEF Reply, Finish, formVars, ruleVars
  <2>2. Query(current') = Query(current)
    BY <2>1
  <2>3. PreviewInv'
    BY <2>1, <2>2 DEF DialogInv, PreviewInv
  <2>4. ShownInv' /\ SubmittedInv'
    BY <2>1 DEF DialogInv, ShownInv, SubmittedInv, Canonical
  <2>5. PreviewIsOfTheCurrentRule'
    BY <2>1, <2>2 DEF DialogInv, PreviewInv, PreviewIsOfTheCurrentRule
  <2>. QED
    BY <2>1, <2>3, <2>4, <2>5 DEF DialogInv
<1>8. CASE UNCHANGED vars
  BY <1>8 DEF vars, formVars, ruleVars, previewVars, DialogInv, ShownInv, SubmittedInv,
              PreviewInv, PreviewIsOfTheCurrentRule, Canonical
<1>. QED
  BY <1>1, <1>2, <1>3, <1>4, <1>5, <1>6, <1>7, <1>8 DEF Next, Add, Dismiss

LEMMA DialogCorrect == Spec => []DialogInv
BY DialogInit, DialogNext, PTL DEF Spec

\* In every reachable state what Add handed over is read back, as a policy rule,
\* from the text the label showed, for any text, form, limits and edits: an
\* invalid rule never reaches the daemon (rule_dialog.rs recompute).
THEOREM SubmittedRuleIsShown == Spec => []SubmittedIsShown
<1>1. DialogInv => SubmittedIsShown
  <2>. SUFFICES ASSUME DialogInv, submitted # None
                PROVE  /\ Parse(preview, "Rule") = Parse(Render(submitted), "Rule")
                       /\ ~Failed(Parse(preview, "Rule"))
                       /\ Parse(preview, "Rule").value = submitted
    BY DEF SubmittedIsShown
  <2>1. submitted = current /\ Canonical(submitted) /\ preview = Render(submitted)
    BY DEF DialogInv, SubmittedInv, ShownInv
  <2>. QED
    BY <2>1, RuleIsQuery DEF Canonical
<1>. QED
  BY <1>1, DialogCorrect, PTL

\* The devices shown are always the answer for the rule as it is now, however
\* many previews are on their way (rule_preview.rs finish_if_current).
THEOREM PreviewIsCurrent == Spec => []PreviewIsOfTheCurrentRule
<1>1. DialogInv => PreviewIsOfTheCurrentRule
  BY DEF DialogInv
<1>. QED
  BY <1>1, DialogCorrect, PTL

\* Carrying a guided rule into the text mode changes its notation, and the
\* recompute that follows reads the same rule (rule_dialog.rs present).
THEOREM SwitchingKeepsTheRule == Spec => SwitchKeepsTheRule
<1>. DEFINE Kept == mode = "guided" /\ mode' = "text" /\ current # None =>
                      current' = current /\ text' = preview
<1>1. DialogInv /\ [Next]_vars => [Kept]_vars
  <2>. SUFFICES ASSUME DialogInv, [Next]_vars, mode = "guided", mode' = "text", current # None
                PROVE  current' = current /\ text' = preview
    OBVIOUS
  <2>1. SwitchMode
    BY DEF Next, vars, formVars, EditFields, SetTarget, EditText, Activate, Add, Dismiss, Close,
           Reply
  <2>2. Canonical(current) /\ preview = Render(current) /\ text' = Render(current)
    BY <2>1 DEF DialogInv, ShownInv, SwitchMode, Carried
  <2>3. Entered(mode', target', fields', text') = Parse(Render(current), "Query")
    BY <2>2, RuleIsQuery DEF Entered, Canonical
  <2>4. ~Failed(Checked(mode', target', fields', text'))
        /\ Checked(mode', target', fields', text').value.rule = current
    <3>. DEFINE entered == Parse(Render(current), "Query")
                rendered == RenderChecked(current)
    <3>1. ~Failed(entered) /\ entered.value = current /\ ~Failed(rendered)
      BY <2>2, Survives DEF Canonical
    <3>2. Checked(mode', target', fields', text')
            = Good([rule |-> current, text |-> rendered.value], 0)
      BY <2>3, <3>1 DEF Checked, Then
    <3>. QED
      BY <3>2, Results
  <2>5. current' = current
    BY <2>1, <2>4 DEF SwitchMode, Recompute
  <2>. QED
    BY <2>2, <2>5
<1>2. Spec => [][Kept]_vars
  BY <1>1, DialogCorrect, PTL DEF Spec
<1>. QED
  BY <1>2 DEF SwitchKeepsTheRule

-----------------------------------------------------------------------------
(* The types of the dialog.                                                *)

LEMMA RenderCheckedTyped ==
    ASSUME NEW rule \in AnyRuleOf(Nested)
    PROVE  \/ Failed(RenderChecked(rule)) /\ RenderChecked(rule) \in Error
           \/ /\ ~Failed(RenderChecked(rule)) /\ RenderChecked(rule).value = Render(rule)
              /\ rule \in RuleOf(Nested)
<1>. DEFINE r == RenderChecked(rule)
            reparsed == Parse(Render(rule), "Query")
<1>1. Render(rule) \in Text
  BY RulePiecesTyped
<1>2. Parsed(Nested, "Query", reparsed)
  BY <1>1, ParseIs
<1>3. r = IF Failed(reparsed) THEN reparsed
          ELSE IF reparsed.value = rule THEN Good(Render(rule), 0) ELSE Fail("InvalidValue", 1)
  BY DEF RenderChecked, Then
<1>. HIDE DEF r, reparsed
<1>4. CASE Failed(reparsed)
  BY <1>2, <1>3, <1>4 DEF Parsed, r
<1>5. CASE ~Failed(reparsed) /\ reparsed.value = rule
  <2>1. r = Good(Render(rule), 0)
    BY <1>3, <1>5
  <2>2. ~Failed(r) /\ r.value = Render(rule)
    BY <2>1, Results
  <2>3. rule \in RuleOf(Nested)
    BY <1>2, <1>5 DEF Parsed
  <2>. QED
    BY <2>2, <2>3 DEF r
<1>6. CASE ~Failed(reparsed) /\ reparsed.value # rule
  <2>1. r = Fail("InvalidValue", 1)
    BY <1>3, <1>6
  <2>2. Failed(r)
    BY <2>1, Results
  <2>3. r \in Error
    BY <2>1 DEF Fail, Error, ErrorKind
  <2>. QED
    BY <2>2, <2>3 DEF r
<1>. QED
  BY <1>4, <1>5, <1>6

LEMMA EnteredTyped ==
    ASSUME NEW m, NEW tgt \in Targets, NEW rows \in Seq(Row), NEW txt \in Text
    PROVE  \/ Failed(Entered(m, tgt, rows, txt)) /\ Entered(m, tgt, rows, txt) \in Error
           \/ /\ ~Failed(Entered(m, tgt, rows, txt))
              /\ Entered(m, tgt, rows, txt).value \in AnyRuleOf(Nested)
              /\ Entered(m, tgt, rows, txt).value.target \in Targets
<1>1. CASE m = "guided"
  <2>1. Entered(m, tgt, rows, txt) = BuildRule(tgt, rows)
    BY <1>1 DEF Entered
  <2>2. tgt \in RuleTarget
    BY DEF Targets, RuleTarget
  <2>3. Built(Nested, tgt, BuildRule(tgt, rows))
    BY <2>2, BuildRuleIs
  <2>. QED
    BY <2>1, <2>3 DEF Built
<1>2. CASE m # "guided"
  <2>1. Entered(m, tgt, rows, txt) = Parse(txt, "Rule")
    BY <1>2 DEF Entered
  <2>2. Parsed(Nested, "Rule", Parse(txt, "Rule"))
    BY ParseIs
  <2>3. PICK r : r = Parse(txt, "Rule")
    OBVIOUS
  <2>4. \A a : Allowed("Rule", a) => a \in Targets
    BY DEF Allowed, Targets
  <2>. QED
    BY <2>1, <2>2, <2>3, <2>4, RuleIsAny DEF Parsed
<1>. QED
  BY <1>1, <1>2

LEMMA CheckedTyped ==
    ASSUME NEW m, NEW tgt \in Targets, NEW rows \in Seq(Row), NEW txt \in Text
    PROVE  \/ Failed(Checked(m, tgt, rows, txt)) /\ Checked(m, tgt, rows, txt) \in Error
           \/ /\ ~Failed(Checked(m, tgt, rows, txt))
              /\ Checked(m, tgt, rows, txt).value.rule \in RuleOf(Nested)
              /\ Checked(m, tgt, rows, txt).value.rule.target \in Targets
              /\ Checked(m, tgt, rows, txt).value.text \in Text
<1>. DEFINE r == Checked(m, tgt, rows, txt)
            entered == Entered(m, tgt, rows, txt)
            rendered == RenderChecked(entered.value)
<1>1. r = IF Failed(entered) THEN entered ELSE IF Failed(rendered) THEN rendered
          ELSE Good([rule |-> entered.value, text |-> rendered.value], 0)
  BY DEF Checked, Then
<1>2. \/ Failed(entered) /\ entered \in Error
      \/ /\ ~Failed(entered) /\ entered.value \in AnyRuleOf(Nested)
         /\ entered.value.target \in Targets
  BY EnteredTyped
<1>. HIDE DEF entered
<1>3. CASE Failed(entered)
  BY <1>1, <1>2, <1>3
<1>4. CASE ~Failed(entered)
  <2>1. PICK rule : rule = entered.value
    OBVIOUS
  <2>2. rule \in AnyRuleOf(Nested) /\ rule.target \in Targets
    BY <1>2, <1>4, <2>1
  <2>3. \/ Failed(rendered) /\ rendered \in Error
        \/ /\ ~Failed(rendered) /\ rendered.value = Render(rule) /\ rule \in RuleOf(Nested)
    BY <2>1, <2>2, RenderCheckedTyped
  <2>4. Render(rule) \in Text
    BY <2>2, RulePiecesTyped
  <2>. HIDE DEF rendered
  <2>5. CASE Failed(rendered)
    BY <1>1, <1>4, <2>3, <2>5
  <2>6. CASE ~Failed(rendered)
    <3>1. PICK v : v = [rule |-> rule, text |-> Render(rule)]
      OBVIOUS
    <3>2. v.rule = rule /\ v.text = Render(rule)
      BY <3>1
    <3>3. r = Good(v, 0)
      BY <1>1, <1>4, <2>1, <2>3, <2>6, <3>1
    <3>4. ~Failed(r) /\ r.value = v
      BY <3>3, Results
    <3>. QED
      BY <2>2, <2>3, <2>4, <2>6, <3>2, <3>4
  <2>. QED
    BY <2>5, <2>6
<1>. QED
  BY <1>3, <1>4

LEMMA RowsTyped ==
    ASSUME NEW rows \in Seq(FieldInputs \cup {DefaultRow})
    PROVE  rows \in Seq(Row)
<1>1. FieldInputs \subseteq Row
  BY RuleDialogAssumption DEF Row
<1>2. DefaultRow \in Row
  <2>1. <<>> \in Text
    BY EmptySeq DEF Text
  <2>. QED
    BY <2>1 DEF Row, DefaultRow, AttributeName
<1>. QED
  BY <1>1, <1>2, SeqMono

\* The form, as it is shown and edited.
FormOK ==
    /\ mode \in {"guided", "text"}
    /\ target \in Targets /\ fields \in Seq(FieldInputs \cup {DefaultRow}) /\ text \in Text

\* What it makes; a rule is one the parser reads.
RulesOK ==
    /\ current \in RuleOf(Nested) \cup {None} /\ submitted \in RuleOf(Nested) \cup {None}
    /\ preview \in Text
    /\ failure \in Error \cup {None} /\ (failure = None <=> current # None)
    /\ current # None => current.target \in Targets

PreviewsOK ==
    /\ request \in BOOLEAN /\ revision \in Nat
    /\ \A f \in waiting : f.revision \in Nat /\ f.revision <= revision

TypesOK ==
    /\ edits \in 0..MaxEdits /\ previews \in 0..MaxPreviews /\ closed \in BOOLEAN
    /\ FormOK /\ RulesOK /\ PreviewsOK

LEMMA NoneIsNoRule == (\A rule \in RuleOf(Nested) : rule # None) /\ \A e \in Error : e # None
BY RuleLanguageAssumption DEF RuleOf

LEMMA TypesInit == Init => TypesOK
<1>. SUFFICES ASSUME Init PROVE TypesOK
  OBVIOUS
<1>. DEFINE checked == Checked(mode, target, fields, text)
<1>1. FormOK
  <2>1. <<>> \in Text
    BY EmptySeq DEF Text
  <2>2. <<>> \in Seq(FieldInputs \cup {DefaultRow})
    BY EmptySeq
  <2>. QED
    BY <2>1, <2>2 DEF Init, FormOK, Targets
<1>2. fields \in Seq(Row)
  BY <1>1, RowsTyped DEF FormOK
<1>3. \/ Failed(checked) /\ checked \in Error
      \/ /\ ~Failed(checked) /\ checked.value.rule \in RuleOf(Nested)
         /\ checked.value.rule.target \in Targets /\ checked.value.text \in Text
  BY <1>1, <1>2, CheckedTyped DEF FormOK
<1>4. IF Failed(checked)
      THEN current = None /\ failure = checked /\ preview = <<>>
      ELSE current = checked.value.rule /\ preview = checked.value.text /\ failure = None
  BY DEF Init
<1>5. <<>> \in Text
  BY EmptySeq DEF Text
<1>6. submitted = None
  BY DEF Init
<1>. HIDE DEF checked
<1>7. RulesOK
  BY <1>3, <1>4, <1>5, <1>6, NoneIsNoRule DEF RulesOK
<1>8. PreviewsOK
  BY DEF Init, PreviewsOK
<1>9. edits \in 0..MaxEdits /\ previews \in 0..MaxPreviews /\ closed \in BOOLEAN
  <2>1. edits = 0 /\ previews = 0 /\ closed = FALSE
    BY DEF Init
  <2>2. MaxEdits \in Nat /\ MaxPreviews \in Nat
    BY RuleDialogAssumption
  <2>3. edits \in 0..MaxEdits /\ previews \in 0..MaxPreviews
    <3>1. \A n \in Nat : 0 \in 0..n
      OBVIOUS
    <3>. QED
      BY <2>1, <2>2, <3>1
  <2>. QED
    BY <2>1, <2>3
<1>. QED
  BY <1>1, <1>7, <1>8, <1>9 DEF TypesOK

LEMMA TypesEdit ==
    ASSUME TypesOK, Edit, Recompute, FormOK'
    PROVE  TypesOK'
<1>. DEFINE checked == Checked(mode', target', fields', text')
<1>1. fields' \in Seq(Row)
  BY RowsTyped DEF FormOK
<1>2. \/ Failed(checked) /\ checked \in Error
      \/ /\ ~Failed(checked) /\ checked.value.rule \in RuleOf(Nested)
         /\ checked.value.rule.target \in Targets /\ checked.value.text \in Text
  BY <1>1, CheckedTyped DEF FormOK
<1>3. IF Failed(checked)
      THEN current' = None /\ failure' = checked /\ UNCHANGED preview
      ELSE current' = checked.value.rule /\ preview' = checked.value.text /\ failure' = None
  BY DEF Recompute
<1>4. UNCHANGED <<closed, submitted, previews, waiting>> /\ edits' = edits + 1 /\ edits < MaxEdits
      /\ request' = FALSE /\ revision' = revision + 1
  BY DEF Edit, Recompute, SetRule, CancelPreview
<1>. HIDE DEF checked
<1>5. RulesOK'
  BY <1>2, <1>3, <1>4, NoneIsNoRule DEF TypesOK, RulesOK
<1>6. PreviewsOK'
  <2>1. revision \in Nat /\ \A f \in waiting : f.revision \in Nat /\ f.revision <= revision
    BY DEF TypesOK, PreviewsOK
  <2>2. revision' \in Nat /\ \A f \in waiting : f.revision \in Nat /\ f.revision <= revision'
    BY <1>4, <2>1
  <2>. QED
    BY <1>4, <2>2 DEF PreviewsOK
<1>7. edits' \in 0..MaxEdits /\ previews' \in 0..MaxPreviews /\ closed' \in BOOLEAN
  BY <1>4, RuleDialogAssumption DEF TypesOK
<1>. QED
  BY <1>5, <1>6, <1>7 DEF TypesOK

\* A value less in a sequence, and one more.
LEMMA WithoutTyped ==
    ASSUME NEW S, NEW s \in Seq(S), NEW i \in DOMAIN s
    PROVE  SubSeq(s, 1, i - 1) \o SubSeq(s, i + 1, Len(s)) \in Seq(S)
<1>1. SubSeq(s, 1, i - 1) \in Seq(S) /\ SubSeq(s, i + 1, Len(s)) \in Seq(S)
  OBVIOUS
<1>. QED
  BY <1>1

LEMMA WithTyped ==
    ASSUME NEW S, NEW s \in Seq(S), NEW i \in 0..Len(s), NEW x \in S
    PROVE  SubSeq(s, 1, i) \o <<x>> \o SubSeq(s, i + 1, Len(s)) \in Seq(S)
<1>1. SubSeq(s, 1, i) \in Seq(S) /\ SubSeq(s, i + 1, Len(s)) \in Seq(S) /\ <<x>> \in Seq(S)
  OBVIOUS
<1>. QED
  BY <1>1

LEMMA TypesNext == TypesOK /\ [Next]_vars => TypesOK'
<1>. SUFFICES ASSUME TypesOK, [Next]_vars PROVE TypesOK'
  OBVIOUS
<1>. DEFINE Inputs == FieldInputs \cup {DefaultRow}
<1>0. fields \in Seq(Inputs) /\ text \in Text /\ target \in Targets /\ mode \in {"guided", "text"}
  BY DEF TypesOK, FormOK
<1>1. CASE EditFields
  <2>1. UNCHANGED <<mode, target, text>> /\ Edit /\ Recompute
    BY <1>1 DEF EditFields
  <2>2. fields' \in Seq(Inputs)
    <3>1. CASE fields' = Append(fields, DefaultRow)
      <4>1. DefaultRow \in Inputs
        OBVIOUS
      <4>. HIDE DEF Inputs
      <4>. QED
        BY <1>0, <3>1, <4>1, AppendProperties
    <3>2. ASSUME NEW i \in DOMAIN fields, NEW f \in FieldInputs, fields' = [fields EXCEPT ![i] = f]
          PROVE  fields' \in Seq(Inputs)
      <4>1. f \in Inputs
        OBVIOUS
      <4>2. Len(fields) \in Nat /\ fields \in [1..Len(fields) -> Inputs]
        BY <1>0
      <4>. HIDE DEF Inputs
      <4>3. [fields EXCEPT ![i] = f] \in [1..Len(fields) -> Inputs]
        BY <4>1, <4>2
      <4>. QED
        BY <3>2, <4>2, <4>3, TypedSeq
    <3>3. ASSUME NEW i \in DOMAIN fields,
                 fields' = SubSeq(fields, 1, i - 1) \o SubSeq(fields, i + 1, Len(fields))
          PROVE  fields' \in Seq(Inputs)
      <4>. HIDE DEF Inputs
      <4>. QED
        BY <1>0, <3>3, WithoutTyped
    <3>. QED
      BY <1>1, <3>1, <3>2, <3>3 DEF EditFields
  <2>3. FormOK'
    BY <1>0, <2>1, <2>2 DEF FormOK
  <2>. QED
    BY <2>1, <2>3, TypesEdit
<1>2. CASE SetTarget
  <2>1. FormOK'
    BY <1>0, <1>2 DEF SetTarget, FormOK
  <2>. QED
    BY <1>2, <2>1, TypesEdit DEF SetTarget
<1>3. CASE EditText
  <2>1. UNCHANGED <<mode, target, fields>> /\ Edit /\ Recompute
    BY <1>3 DEF EditText
  <2>2. text' \in Text
    <3>1. CASE text' \in Pastes
      BY <3>1, RuleDialogAssumption
    <3>2. ASSUME NEW i \in 0..Len(text), NEW g \in Strokes,
                 text' = SubSeq(text, 1, i) \o <<g>> \o SubSeq(text, i + 1, Len(text))
          PROVE  text' \in Text
      <4>1. g \in Glyph
        BY RuleDialogAssumption
      <4>. QED
        BY <1>0, <3>2, <4>1, WithTyped DEF Text
    <3>3. ASSUME NEW i \in DOMAIN text,
                 text' = SubSeq(text, 1, i - 1) \o SubSeq(text, i + 1, Len(text))
          PROVE  text' \in Text
      BY <1>0, <3>3, WithoutTyped DEF Text
    <3>. QED
      BY <1>3, <3>1, <3>2, <3>3 DEF EditText
  <2>3. FormOK'
    BY <1>0, <2>1, <2>2 DEF FormOK
  <2>. QED
    BY <2>1, <2>3, TypesEdit
<1>4. CASE SwitchMode
  <2>1. Edit /\ Recompute /\ UNCHANGED <<target, fields>> /\ mode' \in {"guided", "text"}
        /\ (text' = text \/ text' = Carried)
    BY <1>4 DEF SwitchMode
  <2>2. Carried \in Text
    <3>1. CASE current = None
      BY <1>0, <3>1 DEF Carried
    <3>2. CASE current # None
      <4>1. current \in AnyRuleOf(Nested)
        BY <3>2, RuleIsAny DEF TypesOK, RulesOK
      <4>2. Render(current) \in Text
        BY <4>1, RulePiecesTyped
      <4>. QED
        BY <3>2, <4>2 DEF Carried
    <3>. QED
      BY <3>1, <3>2
  <2>3. FormOK'
    BY <1>0, <2>1, <2>2 DEF FormOK
  <2>. QED
    BY <2>1, <2>3, TypesEdit
<1>5. CASE Activate
  <2>1. /\ UNCHANGED <<edits, mode, target, fields, text, current, preview, failure, closed, submitted>>
        /\ request' \in BOOLEAN /\ revision' = revision + 1
        /\ waiting' \subseteq waiting \cup {[revision |-> revision', query |-> Query(current)]}
        /\ previews' = previews \/ (previews < MaxPreviews /\ previews' = previews + 1)
    BY <1>5 DEF Activate, CancelPreview, formVars, ruleVars
  <2>2. revision' \in Nat /\ \A f \in waiting : f.revision \in Nat /\ f.revision <= revision'
    BY <2>1 DEF TypesOK, PreviewsOK
  <2>3. \A f \in waiting' : f.revision \in Nat /\ f.revision <= revision'
    BY <2>1, <2>2
  <2>4. PreviewsOK'
    BY <2>1, <2>2, <2>3 DEF PreviewsOK
  <2>5. previews' \in 0..MaxPreviews
    BY <2>1, RuleDialogAssumption DEF TypesOK
  <2>6. FormOK' /\ RulesOK'
    BY <2>1 DEF TypesOK, FormOK, RulesOK
  <2>. QED
    BY <2>1, <2>4, <2>5, <2>6 DEF TypesOK
<1>6. ASSUME NEW rule \in RuleOf(Nested) \cup {None}, Close(rule) PROVE TypesOK'
  <2>1. /\ UNCHANGED <<edits, mode, target, fields, text, current, preview, failure, previews, waiting>>
        /\ closed' = TRUE /\ submitted' = rule /\ request' = FALSE /\ revision' = revision + 1
    BY <1>6 DEF Close, CancelPreview, formVars, ruleVars
  <2>2. PreviewsOK'
    <3>1. revision \in Nat /\ \A f \in waiting : f.revision \in Nat /\ f.revision <= revision
      BY DEF TypesOK, PreviewsOK
    <3>2. revision' \in Nat /\ \A f \in waiting : f.revision \in Nat /\ f.revision <= revision'
      BY <2>1, <3>1
    <3>. QED
      BY <2>1, <3>2 DEF PreviewsOK
  <2>3. FormOK' /\ RulesOK'
    BY <1>6, <2>1 DEF TypesOK, FormOK, RulesOK
  <2>. QED
    BY <2>1, <2>2, <2>3 DEF TypesOK
<1>7. ASSUME NEW f \in waiting, Reply(f) PROVE TypesOK'
  <2>1. /\ UNCHANGED <<edits, mode, target, fields, text, current, preview, failure, closed, submitted,
                       previews, revision>>
        /\ waiting' \subseteq waiting /\ (request' = request \/ request' = FALSE)
    BY <1>7 DEF Reply, Finish, formVars, ruleVars
  <2>2. PreviewsOK'
    BY <2>1 DEF TypesOK, PreviewsOK
  <2>3. FormOK' /\ RulesOK'
    BY <2>1 DEF TypesOK, FormOK, RulesOK
  <2>. QED
    BY <2>1, <2>2, <2>3 DEF TypesOK
<1>8. CASE UNCHANGED vars
  BY <1>8 DEF vars, formVars, ruleVars, previewVars, TypesOK, FormOK, RulesOK, PreviewsOK
<1>9. CASE Add
  <2>1. current \in RuleOf(Nested) \cup {None} /\ Close(current)
    BY <1>9 DEF Add, TypesOK, RulesOK
  <2>. QED
    BY <1>6, <2>1
<1>10. CASE Dismiss
  BY <1>6, <1>10 DEF Dismiss
<1>. QED
  BY <1>1, <1>2, <1>3, <1>4, <1>5, <1>7, <1>8, <1>9, <1>10 DEF Next

LEMMA TypesCorrect == Spec => []TypesOK
BY TypesInit, TypesNext, PTL DEF Spec

\* Every variable of the dialog keeps its type, whatever is typed and pasted: a
\* rule it holds is one the parser reads, and the text on the label is a text
\* (rule_dialog.rs, rules/).
THEOREM TypeCorrect == Spec => []TypeOK
<1>1. TypesOK => TypeOK
  BY DEF TypesOK, FormOK, RulesOK, PreviewsOK, TypeOK, RuleOf
<1>. QED
  BY <1>1, TypesCorrect, PTL

\* What was entered survives rendering, or is too long or too many.
Survive(m, rows, refusal) ==
    \/ ~Failed(refusal)
    \/ refusal.error = "TooLong"
    \/ /\ refusal.error = "TooManyValues" /\ m = "guided"
       /\ \E i \in DOMAIN rows : Len(Words(rows[i].text)) > MAX_SET_VALUES

LEMMA EnteredSurvives ==
    ASSUME NEW m, NEW tgt \in Targets, NEW rows \in Seq(Row), NEW txt \in Text,
           ~Failed(Entered(m, tgt, rows, txt))
    PROVE  Survive(m, rows, RenderChecked(Entered(m, tgt, rows, txt).value))
<1>1. PICK rule : rule = Entered(m, tgt, rows, txt).value
  OBVIOUS
<1>2. rule \in AnyRuleOf(Nested)
  BY <1>1, EnteredTyped
<1>3. RefusedFor(rule, RenderChecked(rule))
  BY <1>2, RenderCheckedBack
<1>4. CASE m = "guided"
  <2>1. Entered(m, tgt, rows, txt) = BuildRule(tgt, rows)
    BY <1>4 DEF Entered
  <2>2. AnyOverfull(rule.attributes) => \E i \in DOMAIN rows : Len(Words(rows[i].text)) > MAX_SET_VALUES
    BY <1>1, <2>1, FormOverfull
  <2>. QED
    BY <1>1, <1>3, <1>4, <2>2 DEF RefusedFor, Survive
<1>5. CASE m # "guided"
  <2>1. Entered(m, tgt, rows, txt) = Parse(txt, "Rule")
    BY <1>5 DEF Entered
  <2>2. Parsed(Nested, "Rule", Parse(txt, "Rule"))
    BY ParseIs
  <2>3. rule \in RuleOf(Nested)
    BY <1>1, <2>1, <2>2 DEF Parsed
  <2>4. ~AnyOverfull(rule.attributes)
    BY <2>3, ReadIsNotOverfull
  <2>. QED
    BY <1>1, <1>3, <2>4 DEF RefusedFor, Survive
<1>. QED
  BY <1>4, <1>5

\* A rule that was entered survives its rendering, whatever it is made of and
\* however it was entered: the lexer makes of the canonical text the tokens of
\* the rule, and the parser makes the rule of them, unless the text is too long
\* or a row of the form has more values than the parser reads (render.rs,
\* lexer.rs, parser.rs, builder.rs).
THEOREM RulesSurvive == Spec => []RulesSurviveRendering
<1>1. TypesOK => RulesSurviveRendering
  <2>. SUFFICES ASSUME TypesOK PROVE RulesSurviveRendering
    OBVIOUS
  <2>1. target \in Targets /\ fields \in Seq(Row) /\ text \in Text
    BY RowsTyped DEF TypesOK, FormOK
  <2>2. PICK entered : entered = Entered(mode, target, fields, text)
    OBVIOUS
  <2>3. ~Failed(entered) => Survive(mode, fields, RenderChecked(entered.value))
    BY <2>1, <2>2, EnteredSurvives
  <2>. QED
    BY <2>2, <2>3 DEF RulesSurviveRendering, Survive
<1>. QED
  BY <1>1, TypesCorrect, PTL

-----------------------------------------------------------------------------
(* What a preview asks for is read as it was meant.                        *)

MatchedPieces(ats) == [i \in DOMAIN ats |-> IF ats[i].name = "label" THEN <<>> ELSE <<ats[i]>>]

LEMMA MatchedPiecesTyped ==
    ASSUME NEW S, NEW ats \in Seq(S)
    PROVE  /\ MatchedPieces(ats) \in Seq(Seq(S)) /\ Len(MatchedPieces(ats)) = Len(ats)
           /\ Matched(ats) = FlattenSeq(MatchedPieces(ats))
<1>. DEFINE x(i) == IF ats[i].name = "label" THEN <<>> ELSE <<ats[i]>>
<1>1. ASSUME NEW i \in 1..Len(ats) PROVE x(i) \in Seq(S)
  <2>1. PICK a : a = ats[i]
    OBVIOUS
  <2>2. a \in S
    BY <2>1
  <2>3. <<a>> \in Seq(S) /\ <<>> \in Seq(S)
    BY <2>2
  <2>. QED
    BY <2>1, <2>3
<1>2. MatchedPieces(ats) = [i \in 1..Len(ats) |-> x(i)] /\ Len(ats) \in Nat
  BY DEF MatchedPieces
<1>. HIDE DEF x
<1>3. MatchedPieces(ats) \in [1..Len(ats) -> Seq(S)]
  BY <1>1, <1>2
<1>4. Matched(ats) = FlattenSeq(MatchedPieces(ats))
  BY DEF Matched, MatchedPieces
<1>. QED
  BY <1>2, <1>3, <1>4, TypedSeq

LEMMA MatchedNone == Matched(<<>>) = <<>>
<1>1. MatchedPieces(<<>>) = <<>>
  BY DEF MatchedPieces
<1>2. Matched(<<>>) = FlattenSeq(MatchedPieces(<<>>))
  BY DEF Matched, MatchedPieces
<1>. QED
  BY <1>1, <1>2, FlattenNone

LEMMA MatchedTyped ==
    ASSUME NEW S, NEW ats \in Seq(S)
    PROVE  Matched(ats) \in Seq(S)
BY MatchedPiecesTyped, FlattenTyped

\* One attribute more.
LEMMA MatchedMore ==
    ASSUME NEW S, NEW ats \in Seq(S), NEW a \in S
    PROVE  Matched(Append(ats, a))
             = IF a.name = "label" THEN Matched(ats) ELSE Append(Matched(ats), a)
<1>1. PICK bs, n : bs = Append(ats, a) /\ n = Len(ats)
  OBVIOUS
<1>2. /\ bs \in Seq(S) /\ Len(bs) = n + 1 /\ n \in Nat /\ bs[n + 1] = a
      /\ \A i \in 1..n : bs[i] = ats[i]
  <2>1. /\ bs \in Seq(S) /\ Len(bs) = Len(ats) + 1 /\ bs[Len(ats) + 1] = a
        /\ \A i \in 1..Len(ats) : bs[i] = ats[i]
    BY <1>1, AppendProperties
  <2>. QED
    BY <1>1, <2>1
<1>3. PICK f, g, m, x : /\ f = MatchedPieces(ats) /\ g = MatchedPieces(bs) /\ m = Matched(ats)
                        /\ x = IF a.name = "label" THEN <<>> ELSE <<a>>
  OBVIOUS
<1>4. f \in Seq(Seq(S)) /\ Len(f) = n /\ m = FlattenSeq(f) /\ m \in Seq(S)
  BY <1>1, <1>3, MatchedPiecesTyped, MatchedTyped
<1>5. g \in Seq(Seq(S)) /\ Len(g) = n + 1 /\ Matched(bs) = FlattenSeq(g)
  BY <1>2, <1>3, MatchedPiecesTyped
<1>6. x \in Seq(S)
  <2>1. <<a>> \in Seq(S) /\ <<>> \in Seq(S)
    OBVIOUS
  <2>. QED
    BY <1>3, <2>1
<1>7. g[n + 1] = x
  <2>1. n + 1 \in DOMAIN bs
    BY <1>2
  <2>2. g[n + 1] = IF bs[n + 1].name = "label" THEN <<>> ELSE <<bs[n + 1]>>
    BY <1>3, <2>1 DEF MatchedPieces
  <2>. QED
    BY <1>2, <1>3, <2>2
<1>8. ASSUME NEW i \in 1..n PROVE g[i] = f[i]
  <2>1. i \in DOMAIN bs /\ i \in DOMAIN ats /\ bs[i] = ats[i]
    BY <1>1, <1>2
  <2>. QED
    BY <1>3, <2>1 DEF MatchedPieces
<1>9. g = Append(f, x)
  <2>1. PICK h : h = Append(f, x)
    OBVIOUS
  <2>2. /\ h \in Seq(Seq(S)) /\ Len(h) = n + 1 /\ h[n + 1] = x
        /\ \A i \in 1..n : h[i] = f[i]
    <3>1. /\ h \in Seq(Seq(S)) /\ Len(h) = Len(f) + 1 /\ h[Len(f) + 1] = x
          /\ \A i \in 1..Len(f) : h[i] = f[i]
      BY <1>4, <1>6, <2>1, AppendProperties
    <3>. QED
      BY <1>4, <3>1
  <2>3. \A i \in 1..n + 1 : i = n + 1 \/ i \in 1..n
    BY <1>2
  <2>4. \A i \in 1..n + 1 : g[i] = h[i]
    BY <1>7, <1>8, <2>2, <2>3
  <2>5. g = h
    BY <1>5, <2>2, <2>4, SeqEqual
  <2>. QED
    BY <2>1, <2>5
<1>10. Matched(bs) = m \o x
  <2>1. FlattenSeq(Append(f, x)) = FlattenSeq(f) \o x
    BY <1>4, <1>6, FlattenMore
  <2>. QED
    BY <1>4, <1>5, <1>9, <2>1
<1>11. m \o <<>> = m /\ m \o <<a>> = Append(m, a)
  BY <1>4
<1>. QED
  BY <1>1, <1>3, <1>10, <1>11

\* Names stay distinct, and none is "label".
MatchedKeeps(ats) ==
    /\ AttributeNames(Matched(ats)) \subseteq AttributeNames(ats) \ {"label"}
    /\ Distinct(ats, {}) => Distinct(Matched(ats), {})

\* The converse of AttributesMore.
LEMMA DistinctMore ==
    ASSUME NEW ats \in Seq(AnyAttribute), NEW a \in AnyAttribute,
           Distinct(ats, {}), a.name \notin AttributeNames(ats)
    PROVE  Distinct(Append(ats, a), {})
<1>1. PICK bs, n : bs = Append(ats, a) /\ n = Len(ats)
  OBVIOUS
<1>2. /\ bs \in Seq(AnyAttribute) /\ Len(bs) = n + 1 /\ n \in Nat /\ bs[n + 1] = a
      /\ \A i \in 1..n : bs[i] = ats[i]
  <2>1. /\ bs \in Seq(AnyAttribute) /\ Len(bs) = Len(ats) + 1 /\ bs[Len(ats) + 1] = a
        /\ \A i \in 1..Len(ats) : bs[i] = ats[i]
    BY <1>1, AppendProperties
  <2>. QED
    BY <1>1, <2>1
<1>3. DOMAIN ats = 1..n /\ DOMAIN bs = 1..n + 1 /\ \A k \in 1..n + 1 : k \in 1..n \/ k = n + 1
  <2>1. DOMAIN ats = 1..Len(ats) /\ DOMAIN bs = 1..Len(bs)
    BY <1>2
  <2>. QED
    BY <1>1, <1>2, <2>1
<1>4. \A j \in 1..n : \A k \in 1..n : ats[j].name = ats[k].name => j = k
  BY <1>3 DEF Distinct
<1>5. \A j \in 1..n : ats[j].name # a.name
  BY <1>3 DEF AttributeNames
<1>6. ASSUME NEW j \in 1..n + 1, NEW k \in 1..n + 1, bs[j].name = bs[k].name PROVE j = k
  <2>1. CASE j \in 1..n /\ k \in 1..n
    BY <1>2, <1>4, <1>6, <2>1
  <2>2. CASE j \in 1..n /\ k = n + 1
    BY <1>2, <1>5, <1>6, <2>2
  <2>3. CASE j = n + 1 /\ k \in 1..n
    BY <1>2, <1>5, <1>6, <2>3
  <2>. QED
    BY <1>3, <2>1, <2>2, <2>3
<1>7. Distinct(bs, {})
  BY <1>3, <1>6 DEF Distinct
<1>. QED
  BY <1>1, <1>7

LEMMA MatchedIs ==
    ASSUME NEW ats \in Seq(AnyAttribute)
    PROVE  MatchedKeeps(ats)
<1>. DEFINE T == {x \in Seq(AnyAttribute) : MatchedKeeps(x)}
<1>1. <<>> \in T
  <2>1. <<>> \in Seq(AnyAttribute)
    BY EmptySeq
  <2>2. AttributeNames(<<>>) = {}
    BY DEF AttributeNames
  <2>. QED
    BY <2>1, <2>2, MatchedNone DEF MatchedKeeps
<1>2. ASSUME NEW s \in Seq(AnyAttribute), NEW a \in AnyAttribute, s \in T
      PROVE  Append(s, a) \in T
  <2>1. PICK x, m, n : x = Append(s, a) /\ m = Matched(s) /\ n = a.name
    OBVIOUS
  <2>2. x \in Seq(AnyAttribute) /\ m \in Seq(AnyAttribute)
    BY <2>1, MatchedTyped
  <2>3. /\ AttributeNames(m) \subseteq AttributeNames(s) \ {"label"}
        /\ Distinct(s, {}) => Distinct(m, {})
    BY <1>2, <2>1 DEF MatchedKeeps
  <2>4. /\ AttributeNames(x) = AttributeNames(s) \cup {n}
        /\ Distinct(x, {}) => Distinct(s, {}) /\ n \notin AttributeNames(s)
    BY <2>1, AttributesMore
  <2>5. CASE n = "label"
    <3>1. Matched(x) = m
      BY <2>1, <2>5, MatchedMore
    <3>. QED
      BY <2>1, <2>2, <2>3, <2>4, <3>1 DEF MatchedKeeps
  <2>6. CASE n # "label"
    <3>1. Matched(x) = Append(m, a)
      BY <2>1, <2>6, MatchedMore
    <3>2. AttributeNames(Append(m, a)) = AttributeNames(m) \cup {n}
      BY <2>1, <2>2, AttributesMore
    <3>3. AttributeNames(Append(m, a)) \subseteq AttributeNames(x) \ {"label"}
      BY <2>3, <2>4, <2>6, <3>2
    <3>4. ASSUME Distinct(x, {}) PROVE Distinct(Append(m, a), {})
      <4>1. Distinct(m, {}) /\ a.name \notin AttributeNames(m)
        BY <2>1, <2>3, <2>4, <3>4
      <4>. QED
        BY <2>2, <4>1, DistinctMore
    <3>. QED
      BY <2>1, <2>2, <3>1, <3>3, <3>4 DEF MatchedKeeps
  <2>. QED
    BY <2>5, <2>6
<1>. HIDE DEF T
<1>3. Seq(AnyAttribute) \subseteq T
  BY <1>1, <1>2, AppendInduction
<1>. QED
  BY <1>3 DEF T

\* One row of pieces is no longer than another.
NoLonger(p, q) == p # <<>> /\ q # <<>> /\ Len(Spaced(p)) <= Len(Spaced(q))

LEMMA LengthsAdd ==
    ASSUME NEW a \in Text, NEW b \in Text
    PROVE  Len(a \o b) = Len(a) + Len(b) /\ a \o b \in Text /\ Len(a) \in Nat /\ Len(b) \in Nat
BY ConcatProperties DEF Text

LEMMA SpacedLength ==
    ASSUME NEW p \in Seq(Text), NEW w \in Text, p # <<>>
    PROVE  /\ Len(Spaced(Append(p, w))) = Len(Spaced(p)) + 1 + Len(w)
           /\ Append(p, w) \in Seq(Text) /\ Append(p, w) # <<>>
           /\ Len(Spaced(p)) \in Nat /\ Len(w) \in Nat
<1>1. PICK a, b, blank : a = Spaced(p) /\ b = <<" ">> \o w /\ blank = <<" ">>
  OBVIOUS
<1>2. blank \in Text /\ Len(blank) = 1
  BY <1>1, BlankIs, GlyphTyped
<1>3. a \in Text
  BY <1>1, SpacedTyped
<1>4. b \in Text /\ Len(b) = 1 + Len(w) /\ Len(w) \in Nat
  <2>1. b = blank \o w
    BY <1>1
  <2>2. Len(blank \o w) = Len(blank) + Len(w) /\ blank \o w \in Text /\ Len(w) \in Nat
    BY <1>2, LengthsAdd
  <2>. QED
    BY <1>2, <2>1, <2>2
<1>5. Spaced(Append(p, w)) = a \o b
  BY <1>1, SpacedMore
<1>6. Len(a \o b) = Len(a) + Len(b) /\ Len(a) \in Nat
  BY <1>3, <1>4, LengthsAdd
<1>7. Append(p, w) # <<>> /\ Append(p, w) \in Seq(Text)
  BY AppendProperties
<1>8. PICK la, lb, lw : la = Len(a) /\ lb = Len(b) /\ lw = Len(w)
  OBVIOUS
<1>9. la + lb = la + 1 + lw
  BY <1>4, <1>6, <1>8
<1>10. Len(Spaced(Append(p, w))) = la + 1 + lw
  BY <1>5, <1>6, <1>8, <1>9
<1>. QED
  BY <1>1, <1>4, <1>6, <1>7, <1>8, <1>10

LEMMA NoLongerMore ==
    ASSUME NEW p \in Seq(Text), NEW q \in Seq(Text), NEW w \in Text, NoLonger(p, q)
    PROVE  NoLonger(p, Append(q, w)) /\ NoLonger(Append(p, w), Append(q, w))
<1>1. p # <<>> /\ q # <<>> /\ Len(Spaced(p)) <= Len(Spaced(q))
  BY DEF NoLonger
<1>2. PICK x, y, a, b, n : /\ x = Append(p, w) /\ y = Append(q, w)
                           /\ a = Len(Spaced(p)) /\ b = Len(Spaced(q)) /\ n = Len(w)
  OBVIOUS
<1>3. Len(Spaced(x)) = a + 1 + n /\ x # <<>> /\ a \in Nat /\ n \in Nat
  BY <1>1, <1>2, SpacedLength
<1>4. Len(Spaced(y)) = b + 1 + n /\ y # <<>> /\ b \in Nat
  BY <1>1, <1>2, SpacedLength
<1>5. a <= b + 1 + n /\ a + 1 + n <= b + 1 + n
  BY <1>1, <1>2, <1>3, <1>4
<1>. QED
  BY <1>1, <1>2, <1>3, <1>4, <1>5 DEF NoLonger

LEMMA ConcatMore ==
    ASSUME NEW S, NEW p \in Seq(S), NEW q \in Seq(S), NEW w \in S
    PROVE  p \o Append(q, w) = Append(p \o q, w) /\ p \o q \in Seq(S) /\ p \o <<>> = p
OBVIOUS

\* More pieces only make a text longer.
LEMMA NoLongerTail ==
    ASSUME NEW p \in Seq(Text), NEW q \in Seq(Text), NoLonger(p, q), NEW r \in Seq(Text)
    PROVE  NoLonger(p, q \o r)
<1>. DEFINE T == {x \in Seq(Text) : NoLonger(p, q \o x)}
<1>1. <<>> \in T
  <2>1. <<>> \in Seq(Text) /\ q \o <<>> = q
    BY EmptySeq
  <2>. QED
    BY <2>1
<1>2. ASSUME NEW s \in Seq(Text), NEW w \in Text, s \in T
      PROVE  Append(s, w) \in T
  <2>1. PICK x, y, z : x = Append(s, w) /\ y = q \o s /\ z = q \o Append(s, w)
    OBVIOUS
  <2>2. z = Append(y, w) /\ y \in Seq(Text)
    BY <2>1, ConcatMore
  <2>3. NoLonger(p, y)
    BY <1>2, <2>1
  <2>4. NoLonger(p, z)
    BY <2>2, <2>3, NoLongerMore
  <2>5. x \in Seq(Text)
    BY <2>1, AppendProperties
  <2>. QED
    BY <2>1, <2>4, <2>5
<1>. HIDE DEF T
<1>3. Seq(Text) \subseteq T
  BY <1>1, <1>2, AppendInduction
<1>. QED
  BY <1>3 DEF T

LEMMA WrittenAttributesMore ==
    ASSUME NEW ats \in Seq(AnyAttribute), NEW a \in AnyAttribute
    PROVE  WrittenAttributes(Append(ats, a)) = Append(WrittenAttributes(ats), WriteAttribute(a))
<1>1. PICK bs, n, f, g, w :
        /\ bs = Append(ats, a) /\ n = Len(ats) /\ w = WriteAttribute(a)
        /\ f = WrittenAttributes(ats) /\ g = WrittenAttributes(bs)
  OBVIOUS
<1>2. /\ bs \in Seq(AnyAttribute) /\ Len(bs) = n + 1 /\ n \in Nat /\ bs[n + 1] = a
      /\ \A i \in 1..n : bs[i] = ats[i]
  <2>1. /\ bs \in Seq(AnyAttribute) /\ Len(bs) = Len(ats) + 1 /\ bs[Len(ats) + 1] = a
        /\ \A i \in 1..Len(ats) : bs[i] = ats[i]
    BY <1>1, AppendProperties
  <2>. QED
    BY <1>1, <2>1
<1>3. DOMAIN ats = 1..n /\ DOMAIN bs = 1..n + 1
  <2>1. DOMAIN ats = 1..Len(ats) /\ DOMAIN bs = 1..Len(bs)
    BY <1>2
  <2>. QED
    BY <1>1, <1>2, <2>1
<1>4. f \in Seq(Text) /\ g \in Seq(Text) /\ w \in Text
  BY <1>1, <1>2, WrittenAttributesTyped, WriteAttributeTyped
<1>5. Len(f) = n /\ Len(g) = n + 1
  <2>1. DOMAIN f = 1..n /\ DOMAIN g = 1..n + 1
    BY <1>1, <1>3 DEF WrittenAttributes
  <2>. QED
    BY <1>2, <1>4, <2>1
<1>6. g[n + 1] = w /\ \A i \in 1..n : g[i] = f[i]
  BY <1>1, <1>2, <1>3 DEF WrittenAttributes
<1>7. PICK h : h = Append(f, w)
  OBVIOUS
<1>8. /\ h \in Seq(Text) /\ Len(h) = n + 1 /\ h[n + 1] = w /\ \A i \in 1..n : h[i] = f[i]
  <2>1. /\ h \in Seq(Text) /\ Len(h) = Len(f) + 1 /\ h[Len(f) + 1] = w
        /\ \A i \in 1..Len(f) : h[i] = f[i]
    BY <1>4, <1>7, AppendProperties
  <2>. QED
    BY <1>5, <2>1
<1>9. \A i \in 1..n + 1 : i = n + 1 \/ i \in 1..n
  BY <1>2
<1>10. \A i \in 1..n + 1 : g[i] = h[i]
  BY <1>6, <1>8, <1>9
<1>11. g = h
  BY <1>4, <1>5, <1>8, <1>10, SeqEqual
<1>. QED
  BY <1>1, <1>7, <1>11

\* The query of a rule is no longer than the rule.
Shortens(tgt, ats) ==
    NoLonger(<<<<"match">>>> \o WrittenAttributes(Matched(ats)), <<<<tgt>>>> \o WrittenAttributes(ats))

LEMMA MatchedShortens ==
    ASSUME NEW tgt \in RuleTarget, NEW ats \in Seq(AnyAttribute)
    PROVE  Shortens(tgt, ats)
<1>0. PICK p, q : p = <<<<"match">>>> /\ q = <<<<tgt>>>>
  OBVIOUS
<1>1. p \in Seq(Text) /\ q \in Seq(Text) /\ NoLonger(p, q)
  <2>1. PICK u, v : u = <<"match">> /\ v = <<tgt>>
    OBVIOUS
  <2>2. u \in Text /\ v \in Text /\ Len(u) = 1 /\ Len(v) = 1
    <3>1. "match" \in RuleTarget
      BY DEF RuleTarget, Targets
    <3>2. "match" \in Glyph /\ tgt \in Glyph
      BY <3>1, WrittenGlyphs
    <3>. QED
      BY <2>1, <3>2, GlyphTyped
  <2>3. p = <<u>> /\ q = <<v>>
    BY <1>0, <2>1
  <2>4. p \in Seq(Text) /\ q \in Seq(Text) /\ p # <<>> /\ q # <<>>
    BY <2>2, <2>3
  <2>5. ASSUME NEW x \in Text PROVE Spaced(<<x>>) = x
    <3>1. Append(<<>>, x) = <<x>> /\ <<>> \in Seq(Text)
      BY EmptySeq
    <3>. QED
      BY <3>1, SpacedMore
  <2>6. Spaced(p) = u /\ Spaced(q) = v
    BY <2>2, <2>3, <2>5
  <2>. QED
    BY <2>2, <2>4, <2>6 DEF NoLonger
<1>. DEFINE T == {x \in Seq(AnyAttribute) :
                    NoLonger(p \o WrittenAttributes(Matched(x)), q \o WrittenAttributes(x))}
<1>2. <<>> \in T
  <2>1. <<>> \in Seq(AnyAttribute)
    BY EmptySeq
  <2>2. WrittenAttributes(<<>>) = <<>>
    BY DEF WrittenAttributes
  <2>3. p \o <<>> = p /\ q \o <<>> = q
    BY <1>1
  <2>. QED
    BY <1>1, <2>1, <2>2, <2>3, MatchedNone
<1>3. ASSUME NEW s \in Seq(AnyAttribute), NEW a \in AnyAttribute, s \in T
      PROVE  Append(s, a) \in T
  <2>1. PICK x, m, w, f, g : /\ x = Append(s, a) /\ m = Matched(s) /\ w = WriteAttribute(a)
                             /\ f = WrittenAttributes(m) /\ g = WrittenAttributes(s)
    OBVIOUS
  <2>2. x \in Seq(AnyAttribute) /\ m \in Seq(AnyAttribute)
    BY <2>1, MatchedTyped
  <2>3. f \in Seq(Text) /\ g \in Seq(Text) /\ w \in Text
    BY <2>1, <2>2, WrittenAttributesTyped, WriteAttributeTyped
  <2>4. NoLonger(p \o f, q \o g)
    BY <1>3, <2>1
  <2>5. WrittenAttributes(x) = Append(g, w)
    BY <2>1, WrittenAttributesMore
  <2>6. /\ p \o Append(f, w) = Append(p \o f, w) /\ q \o Append(g, w) = Append(q \o g, w)
        /\ p \o f \in Seq(Text) /\ q \o g \in Seq(Text)
    <3>1. p \in Seq(Text) /\ f \in Seq(Text) /\ q \in Seq(Text) /\ g \in Seq(Text) /\ w \in Text
      BY <1>1, <2>3
    <3>2. ASSUME NEW b \in Seq(Text), NEW c \in Seq(Text), NEW d \in Text
          PROVE  b \o Append(c, d) = Append(b \o c, d) /\ b \o c \in Seq(Text)
      BY ConcatMore
    <3>3. p \o Append(f, w) = Append(p \o f, w) /\ p \o f \in Seq(Text)
      BY <3>1, <3>2
    <3>4. q \o Append(g, w) = Append(q \o g, w) /\ q \o g \in Seq(Text)
      BY <3>1, <3>2
    <3>. QED
      BY <3>3, <3>4
  <2>7. /\ NoLonger(p \o f, Append(q \o g, w))
        /\ NoLonger(Append(p \o f, w), Append(q \o g, w))
    BY <2>3, <2>4, <2>6, NoLongerMore
  <2>8. WrittenAttributes(Matched(x)) = IF a.name = "label" THEN f ELSE Append(f, w)
    <3>1. CASE a.name = "label"
      <4>1. Matched(x) = m
        BY <2>1, <3>1, MatchedMore
      <4>. QED
        BY <2>1, <3>1, <4>1
    <3>2. CASE a.name # "label"
      <4>1. Matched(x) = Append(m, a)
        BY <2>1, <3>2, MatchedMore
      <4>2. WrittenAttributes(Append(m, a)) = Append(f, w)
        BY <2>1, <2>2, WrittenAttributesMore
      <4>. QED
        BY <3>2, <4>1, <4>2
    <3>. QED
      BY <3>1, <3>2
  <2>9. NoLonger(p \o WrittenAttributes(Matched(x)), q \o WrittenAttributes(x))
    BY <2>5, <2>6, <2>7, <2>8
  <2>. QED
    BY <2>1, <2>2, <2>9
<1>. HIDE DEF T
<1>4. Seq(AnyAttribute) \subseteq T
  BY <1>2, <1>3, AppendInduction
<1>. QED
  BY <1>0, <1>4 DEF T, Shortens

LEMMA TargetIsNotNone == \A tgt \in RuleTarget : tgt # None
BY WrittenGlyphs, RuleLanguageAssumption

LEMMA QueryTyped ==
    ASSUME NEW rule \in RuleOf(Nested)
    PROVE  /\ Query(rule) \in RuleOf(Nested)
           /\ ~HasAttribute(Query(rule).attributes, "label")
           /\ Query(rule).condition = None /\ Query(rule).comment = None
<1>1. PICK q, ats, m : q = Query(rule) /\ ats = rule.attributes /\ m = Matched(rule.attributes)
  OBVIOUS
<1>2. rule \in Rule /\ ats \in Seq(AttributeOf) /\ Distinct(ats, {}) /\ ats \in Seq(Attribute)
  BY <1>1 DEF RuleOf, IsRule, Rule
<1>3. /\ q.target = "match" /\ q.condition = None /\ q.comment = None /\ q.attributes = m
      /\ q = [target |-> "match", attributes |-> m, condition |-> None, comment |-> None]
  BY <1>1, <1>2 DEF Query, Rule
<1>4. m \in Seq(AttributeOf) /\ m \in Seq(Attribute)
  BY <1>1, <1>2, MatchedTyped
<1>5. MatchedKeeps(ats)
  <2>1. ats \in Seq(AnyAttribute)
    BY <1>2, AttributeIsAny
  <2>. QED
    BY <2>1, MatchedIs
<1>6. Distinct(m, {}) /\ "label" \notin AttributeNames(m)
  BY <1>1, <1>2, <1>5 DEF MatchedKeeps
<1>7. "match" \in RuleTarget
  BY DEF RuleTarget, Targets
<1>8. "match" # None
  BY <1>7, TargetIsNotNone
<1>9. q \in Rule
  BY <1>3, <1>4, <1>7 DEF Rule
<1>10. SaysSomething(q)
  BY <1>3, <1>8 DEF SaysSomething
<1>11. q \in RuleOf(Nested)
  BY <1>3, <1>4, <1>6, <1>9, <1>10 DEF RuleOf, IsRule
<1>12. ~HasAttribute(m, "label")
  BY <1>6 DEF HasAttribute, AttributeNames
<1>. QED
  BY <1>1, <1>3, <1>11, <1>12

LEMMA QueryFits ==
    ASSUME NEW rule \in RuleOf(Nested), Canonical(rule)
    PROVE  ~(Len(Render(Query(rule))) > MAX_INPUT_LEN)
<1>1. PICK q, tgt, ats, m : /\ q = Query(rule) /\ ats = rule.attributes /\ m = Matched(ats)
                            /\ tgt = rule.target
  OBVIOUS
<1>2. q \in AnyRuleOf(Nested) /\ rule \in AnyRuleOf(Nested)
  BY <1>1, QueryTyped, RuleIsAny
<1>3. rule \in Rule /\ ats \in Seq(AnyAttribute) /\ rule.condition \in ClauseOf(Nested) \cup {None}
      /\ rule.comment \in Text \cup {None}
  BY <1>1, <1>2 DEF AnyRuleOf, IsAnyRule, Rule
<1>4. tgt \in RuleTarget
  BY <1>1 DEF Canonical, RuleTarget, Targets
<1>5. tgt # None /\ "match" # None
  <2>1. "match" \in RuleTarget
    BY DEF RuleTarget
  <2>. QED
    BY <1>4, <2>1, TargetIsNotNone
<1>6. PICK a, b, c, d, e : /\ a = <<<<"match">>>> \o WrittenAttributes(m)
                           /\ b = <<<<tgt>>>> \o WrittenAttributes(ats)
                           /\ c = ClausePieces(rule.condition) /\ d = CommentPiece(rule.comment)
                           /\ e = <<>>
  OBVIOUS
<1>7. NoLonger(a, b)
  BY <1>1, <1>3, <1>4, <1>6, MatchedShortens DEF Shortens
<1>8. a \in Seq(Text) /\ b \in Seq(Text)
  <2>1. PICK u, v, x, y : u = <<<<"match">>>> /\ v = <<<<tgt>>>>
                          /\ x = WrittenAttributes(m) /\ y = WrittenAttributes(ats)
    OBVIOUS
  <2>2. u = TargetPiece("match") /\ v = TargetPiece(tgt)
    BY <1>5, <2>1 DEF TargetPiece
  <2>3. u \in Seq(Text) /\ v \in Seq(Text)
    <3>1. "match" \in RuleTarget
      BY DEF RuleTarget
    <3>. QED
      BY <1>4, <2>2, <3>1, TargetPieceTyped
  <2>4. x \in Seq(Text) /\ y \in Seq(Text)
    <3>1. m \in Seq(AnyAttribute)
      BY <1>1, <1>3, MatchedTyped
    <3>. QED
      BY <1>3, <2>1, <3>1, WrittenAttributesTyped
  <2>5. u \o x \in Seq(Text) /\ v \o y \in Seq(Text)
    BY <2>3, <2>4, PiecesTyped
  <2>. QED
    BY <1>6, <2>1, <2>5
<1>9. c \in Seq(Text) /\ d \in Seq(Text)
  BY <1>3, <1>6, ClausePiecesTyped, CommentPieceTyped
<1>10. RulePieces(q) = a
  <2>1. /\ q.target = "match" /\ q.attributes = m /\ q.condition = None /\ q.comment = None
    BY <1>1, <1>3 DEF Query, Rule
  <2>2. TargetPiece("match") = <<<<"match">>>> /\ ClausePieces(None) = e /\ CommentPiece(None) = e
    BY <1>5, <1>6 DEF TargetPiece, ClausePieces, CommentPiece
  <2>3. RulePieces(q) = a \o e \o e
    BY <1>6, <2>1, <2>2 DEF RulePieces
  <2>4. a \o e \o e = a
    BY <1>6, <1>8
  <2>. QED
    BY <2>3, <2>4
<1>11. RulePieces(rule) = b \o c \o d
  BY <1>1, <1>5, <1>6 DEF RulePieces, TargetPiece
<1>12. NoLonger(a, b \o c)
  BY <1>7, <1>8, <1>9, NoLongerTail
<1>13. b \o c \in Seq(Text)
  BY <1>8, <1>9, PiecesTyped
<1>14. NoLonger(a, b \o c \o d)
  BY <1>8, <1>9, <1>12, <1>13, NoLongerTail
<1>15. Len(Render(q)) <= Len(Render(rule)) /\ Len(Render(q)) \in Nat /\ Len(Render(rule)) \in Nat
  <2>1. Render(q) = Spaced(a) /\ Render(q) \in Text
    BY <1>2, <1>10, RulePiecesTyped
  <2>2. Render(rule) = Spaced(b \o c \o d) /\ Render(rule) \in Text
    BY <1>2, <1>11, RulePiecesTyped
  <2>3. Len(Render(q)) <= Len(Render(rule))
    BY <1>14, <2>1, <2>2 DEF NoLonger
  <2>. QED
    BY <2>1, <2>2, <2>3 DEF Text
<1>16. ~(Len(Render(rule)) > MAX_INPUT_LEN)
  <2>1. ~Failed(ParseWith(Nested, Render(rule), "Query"))
    BY DEF Canonical, Parse
  <2>2. Failed(Fail("TooLong", MAX_INPUT_LEN + 1))
    BY Results
  <2>. QED
    BY <2>1, <2>2 DEF ParseWith
<1>17. PICK x, y, n : x = Len(Render(q)) /\ y = Len(Render(rule)) /\ n = MAX_INPUT_LEN
  OBVIOUS
<1>18. n \in Nat
  BY <1>17, RuleLanguageAssumption
<1>19. x <= y /\ x \in Nat /\ y \in Nat /\ ~(y > n)
  BY <1>15, <1>16, <1>17
<1>20. ~(x > n)
  BY <1>18, <1>19
<1>. QED
  BY <1>1, <1>17, <1>20

LEMMA QueryBack ==
    ASSUME NEW rule \in RuleOf(Nested), Canonical(rule)
    PROVE  LET sent == Parse(Render(Query(rule)), "Query")
           IN  ~Failed(sent) /\ sent.value = Query(rule)
<1>1. PICK q, r : q = Query(rule) /\ r = Parse(Render(q), "Query")
  OBVIOUS
<1>2. q \in RuleOf(Nested) /\ q \in AnyRuleOf(Nested)
  BY <1>1, QueryTyped, RuleIsAny
<1>3. RefusedFor(q, r) /\ (~Failed(r) => r.value = q)
  <2>1. r = ParseWith(Nested, Render(q), "Query")
    BY <1>1 DEF Parse
  <2>. QED
    BY <1>2, <2>1, RenderedBack
<1>4. ~AnyOverfull(q.attributes)
  BY <1>2, ReadIsNotOverfull
<1>5. ~(Len(Render(q)) > MAX_INPUT_LEN)
  BY <1>1, QueryFits
<1>. QED
  BY <1>1, <1>3, <1>4, <1>5 DEF RefusedFor

\* What is sent reads as the query it was made of.
Asks(query) ==
    LET sent == Parse(Render(query), "Query")
    IN  /\ ~Failed(sent) /\ sent.value = query
        /\ query.condition = None /\ query.comment = None
        /\ ~HasAttribute(query.attributes, "label")

LEMMA QueryAsks ==
    ASSUME NEW rule \in RuleOf(Nested), Canonical(rule)
    PROVE  Asks(Query(rule))
BY QueryTyped, QueryBack DEF Asks

\* The text a preview sends reads as a query for just the attributes of the
\* rule that take part in matching: it is no longer than the rule's own text,
\* and is read back from it (rule_preview.rs, client.rs).
THEOREM PreviewAsks == Spec => []PreviewAsksForTheAttributes
<1>. DEFINE I == \A f \in waiting : Asks(f.query)
<1>1. Init => I
  BY DEF Init
<1>2. TypesOK /\ DialogInv /\ I /\ [Next]_vars => I'
  <2>. SUFFICES ASSUME TypesOK, DialogInv, I, [Next]_vars, NEW f \in waiting' PROVE Asks(f.query)
    OBVIOUS
  <2>1. f \in waiting \/ (current # None /\ f.query = Query(current))
    <3>1. CASE EditFields \/ SetTarget \/ EditText \/ SwitchMode
      BY <3>1 DEF EditFields, SetTarget, EditText, SwitchMode, Recompute, SetRule
    <3>2. CASE Activate
      BY <3>2 DEF Activate, CancelPreview
    <3>3. CASE Add \/ Dismiss
      BY <3>3 DEF Add, Dismiss, Close
    <3>4. CASE \E g \in waiting : Reply(g)
      BY <3>4 DEF Reply
    <3>5. CASE UNCHANGED vars
      BY <3>5 DEF vars, previewVars
    <3>. QED
      BY <3>1, <3>2, <3>3, <3>4, <3>5 DEF Next
  <2>2. ASSUME current # None PROVE Asks(Query(current))
    <3>1. current \in RuleOf(Nested)
      BY <2>2 DEF TypesOK, RulesOK
    <3>2. Canonical(current)
      BY <2>2 DEF DialogInv, ShownInv
    <3>. QED
      BY <3>1, <3>2, QueryAsks
  <2>. QED
    BY <2>1, <2>2
<1>3. I => PreviewAsksForTheAttributes
  BY DEF Asks, PreviewAsksForTheAttributes
<1>. QED
  BY <1>1, <1>2, <1>3, TypesCorrect, DialogCorrect, PTL DEF Spec

-----------------------------------------------------------------------------
(* Queries inside queries.                                                 *)

\* What WithinDepth is, one level further in.
DepthStep(f, level) ==
    [read \in Text |-> \A query \in NestedIn(read) : level < MAX_PAREN_DEPTH /\ f[level + 1][query]]

LEMMA WithinDepthIs ==
    ASSUME NEW level \in 0..MAX_PAREN_DEPTH, NEW read \in Text
    PROVE  WithinDepth[level][read] <=>
              \A query \in NestedIn(read) : level < MAX_PAREN_DEPTH /\ WithinDepth[level + 1][query]
<1>. DEFINE D == 0..MAX_PAREN_DEPTH
            V == [Text -> BOOLEAN]
            G == [f \in [D -> V] |-> [l \in D |-> DepthStep(f, l)]]
            F == WithinDepth
<1>1. D \in SUBSET Nat /\ MAX_PAREN_DEPTH \in Nat
  BY Bounds
<1>2. V # {}
  <2>1. [s \in Text |-> TRUE] \in V
    OBVIOUS
  <2>. QED
    BY <2>1
<1>3. \A f : \A l \in D : DepthStep(f, l) \in V
  BY DEF DepthStep
<1>4. G \in [[D -> V] -> [D -> V]]
  BY <1>3
<1>5. ASSUME NEW f \in [D -> V], NEW g \in [D -> V], NEW l \in D, SameAfter(D, MAX_PAREN_DEPTH, l, f, g)
      PROVE  G[f][l] = G[g][l]
  <2>1. l < MAX_PAREN_DEPTH => f[l + 1] = g[l + 1]
    <3>1. l < MAX_PAREN_DEPTH => l + 1 \in D /\ l + 1 > l /\ l <= MAX_PAREN_DEPTH
      BY <1>1
    <3>. QED
      BY <1>5, <3>1 DEF SameAfter
  <2>2. DepthStep(f, l) = DepthStep(g, l)
    BY <2>1 DEF DepthStep
  <2>. QED
    BY <2>2
<1>6. LooksAhead(D, V, MAX_PAREN_DEPTH, G)
  <2>. HIDE DEF G, V, D
  <2>. QED
    BY <1>1, <1>2, <1>4, <1>5 DEF LooksAhead
<1>7. PICK f \in [D -> V] : f = G[f]
  <2>. HIDE DEF G, V, D
  <2>. QED
    BY <1>6, Recursion
<1>8. f = [l \in D |-> DepthStep(f, l)]
  BY <1>7
<1>9. F = [l \in D |-> DepthStep(F, l)]
  BY ZenonT(60), <1>8 DEF WithinDepth, DepthStep
<1>10. F[level] = DepthStep(F, level)
  <2>. HIDE DEF F
  <2>. QED
    BY <1>9
<1>. QED
  BY <1>10 DEF DepthStep

\* A nested query stands inside its parentheses, however deep those of the text
\* that nests it are.
LEMMA NestedInside ==
    ASSUME NEW read \in Text, NEW query \in NestedIn(read), NEW level \in Nat,
           level = 0 \/ StandsInside(read, level)
    PROVE  query \in Text /\ StandsInside(query, level + 1)
<1>1. PICK r, lexed, condition : /\ r = Parse(read, "Query") /\ lexed = Lex(read)
                                 /\ condition = r.value.condition
  OBVIOUS
<1>2. /\ ~Failed(r) /\ condition # None
      /\ \E k \in DOMAIN condition.conditions :
            /\ condition.conditions[k].name = "allowed-matches"
            /\ query = condition.conditions[k].parameter
  BY <1>1 DEF NestedIn
<1>3. ~Failed(lexed) /\ r = ParseRule(Nested, lexed.value, "Query")
  <2>1. r = IF Len(read) > MAX_INPUT_LEN THEN Fail("TooLong", MAX_INPUT_LEN + 1)
            ELSE IF Failed(lexed) THEN lexed ELSE ParseRule(Nested, lexed.value, "Query")
    BY <1>1 DEF Parse, ParseWith, Then
  <2>2. ~(Len(read) > MAX_INPUT_LEN)
    BY <1>2, <2>1, Results
  <2>. QED
    BY <1>2, <2>1, <2>2
<1>4. PICK t : t = lexed.value
  OBVIOUS
<1>5. t \in TokenList
  <2>1. lexed \in Result(TokenList)
    BY <1>1, LexTyped
  <2>. QED
    BY <1>3, <1>4, <2>1, ValueOf
<1>6. query \in Asked(t)
  <2>1. PICK k \in DOMAIN condition.conditions :
            /\ condition.conditions[k].name = "allowed-matches"
            /\ query = condition.conditions[k].parameter
    BY <1>2
  <2>2. /\ ~Failed(ParseRule(Nested, t, "Query"))
        /\ condition = ParseRule(Nested, t, "Query").value.condition
    BY <1>1, <1>2, <1>3, <1>4
  <2>3. condition.conditions[k].parameter \in Asked(t)
    BY <1>2, <1>5, <2>1, <2>2, NestsAsked
  <2>. QED
    BY <2>1, <2>3
<1>7. ParametersInside(t, level + 1)
  <2>1. CASE level = 0
    <3>1. level + 1 = 1
      BY <2>1
    <3>. QED
      BY <1>5, <3>1, ParametersAreInside
  <2>2. CASE level # 0
    <3>1. level \in Place
      BY <2>2 DEF Place
    <3>2. ~Failed(Lex(read)) /\ t = Lex(read).value
      BY <1>1, <1>3, <1>4
    <3>3. ParametersInside(Lex(read).value, level + 1)
      BY <2>2, <3>1, <3>2, LexedInside
    <3>. QED
      BY <3>2, <3>3
  <2>. QED
    BY <2>1, <2>2
<1>8. PICK i \in DOMAIN t : t[i].kind = "Param" /\ query = t[i].text
  BY <1>6 DEF Asked
<1>9. query \in Text
  BY <1>5, <1>8, TokenAt
<1>10. StandsInside(query, level + 1)
  BY <1>7, <1>8 DEF ParametersInside
<1>. QED
  BY <1>9, <1>10

\* No text nests deeper than the lexer's bound.
LEMMA NestingEnds ==
    ASSUME NEW read \in Text
    PROVE  WithinDepth[0][read]
<1>. DEFINE D == 0..MAX_PAREN_DEPTH
            S == {l \in D : \A q \in Text : l = 0 \/ StandsInside(q, l) => WithinDepth[l][q]}
<1>1. D \in SUBSET Nat /\ MAX_PAREN_DEPTH \in Nat /\ 0 \in D
  BY Bounds
<1>2. ASSUME NEW l \in D, \A m \in D : m > l /\ l <= MAX_PAREN_DEPTH => m \in S
      PROVE  l \in S
  <2>. SUFFICES ASSUME NEW q \in Text, l = 0 \/ StandsInside(q, l) PROVE WithinDepth[l][q]
    OBVIOUS
  <2>1. ASSUME NEW query \in NestedIn(q)
        PROVE  l < MAX_PAREN_DEPTH /\ WithinDepth[l + 1][query]
    <3>1. query \in Text /\ StandsInside(query, l + 1)
      BY <1>1, NestedInside
    <3>2. l + 1 <= MAX_PAREN_DEPTH
      BY <3>1 DEF StandsInside
    <3>3. l < MAX_PAREN_DEPTH /\ l + 1 \in D /\ l + 1 > l /\ l <= MAX_PAREN_DEPTH
      BY <1>1, <3>2
    <3>4. l + 1 \in S
      BY <1>2, <3>3
    <3>. QED
      BY <3>1, <3>3, <3>4
  <2>. QED
    BY <2>1, WithinDepthIs
<1>3. 0 \in S
  <2>. HIDE DEF S, D
  <2>. QED
    BY ZenonT(60), <1>1, <1>2, FromTheEnd
<1>. QED
  BY <1>3

\* Every text that the dialog accepted or shows was parsed without recursing
\* deeper than the bound the lexer checks: a nested query stands inside a
\* parenthesis more than the text around it (lexer.rs, parser.rs).
THEOREM NestingIsBounded == Spec => []NestingBounded
<1>1. TypeOK => NestingBounded
  BY NestingEnds DEF TypeOK, NestingBounded
<1>. QED
  BY <1>1, TypeCorrect, PTL
=============================================================================
