---------------------------- MODULE RuleLanguage ----------------------------
(***************************************************************************)
(* The rule language: src/rules/ (lexer, parser, renderer, the builder of  *)
(* the guided form) with the types of src/model/rule.rs and ids.rs.        *)
(*                                                                         *)
(* A text is a sequence of glyphs.  A delimiter, an escape letter and a    *)
(* control character are glyphs of their own; so is a keyword, a run of    *)
(* two or four hexadecimal digits, and a decimal fraction.  No glyph but a *)
(* delimiter, an escape letter or two digits stands after a backslash, and *)
(* no two sequences of glyphs spell the same text.                         *)
(***************************************************************************)
EXTENDS Naturals, Sequences, FiniteSets, SequencesExt

CONSTANTS
    None,
    Glyph,      \* what texts are made of, see Written
    MAX_INPUT_LEN, MAX_SET_VALUES, MAX_PAREN_DEPTH

-----------------------------------------------------------------------------
(* Bytes and words.                                                        *)

Quote == "quote"
Backslash == "backslash"
Newline == "newline"        \* a control character that is whitespace
Bell == "bell"              \* and one that is not
Whitespace == {" ", Newline}
Delimiters == Whitespace \cup {"{", "}", "(", ")", "!", "#", Quote}

\* Two digits as a byte behind \x, and a control character in two digits.
HexByte == [h \in {"07", "0a", "22"} |->
    CASE h = "07" -> Bell [] h = "0a" -> Newline [] h = "22" -> Quote]
HexOf == [c \in {Bell, Newline} |-> IF c = Bell THEN "07" ELSE "0a"]
Controls == {Bell, Newline}
Escapes == [e \in {Quote, Backslash, "n", "a"} |->
    CASE e = "n" -> Newline [] e = "a" -> Bell [] OTHER -> e]

TwoDigits == DOMAIN HexByte
FourDigits == {"12ab", "12AB"}
Lower(digits) == IF digits = "12AB" THEN "12ab" ELSE digits
Decimal == {"07", "22"}

RuleTarget == {"allow", "block", "reject", "match"}
StringAttributes ==
    {"serial", "name", "hash", "parent-hash", "via-port", "with-connect-type", "label"}
AttributeName == {"id", "with-interface"} \cup StringAttributes
SetOperator == {"all-of", "one-of", "none-of", "equals", "equals-ordered", "match-all"}
ConditionName ==
    {"localtime", "allowed-matches", "rule-applied", "rule-evaluated", "random",
     "true", "false"}

\* The glyphs that mean something or that the renderer writes.
Written ==
    Delimiters \cup Controls \cup DOMAIN Escapes \cup TwoDigits \cup FourDigits
    \cup {"x", ":", "*", "if"} \cup RuleTarget \cup AttributeName \cup SetOperator
    \cup ConditionName

\* The places of an input, and those behind its end.
Place == Nat \ {0}

-----------------------------------------------------------------------------
(* Rules.                                                                  *)

Text == Seq(Glyph)

\* The parts of an id or an interface; of a string, its text.
AttributeValue == Seq(Text)

Attribute ==
    [name : AttributeName,
     values : [set : BOOLEAN, operator : SetOperator \cup {None}, values : Seq(AttributeValue)]]

Condition == [negated : BOOLEAN, name : ConditionName, parameter : Text \cup {None}]

ConditionClause ==
    [set : BOOLEAN, operator : SetOperator \cup {None}, conditions : Seq(Condition)]

Rule == [target : RuleTarget \cup {None}, attributes : Seq(Attribute),
         condition : ConditionClause \cup {None}, comment : Text \cup {None}]

ErrorKind ==
    {"Empty", "TooLong", "TooDeep", "TooManyValues", "UnterminatedString", "UnterminatedParameter",
     "InvalidEscape", "InvalidTarget", "InvalidValue", "InvalidConditionParameter",
     "UnknownAttribute", "UnknownCondition", "DuplicateAttribute", "UnexpectedToken",
     "UnexpectedEnd", "SetOfText", "Field"}
Error == [error : ErrorKind, offset : Nat]

ASSUME RuleLanguageAssumption ==
    /\ MAX_INPUT_LEN \in Nat /\ MAX_SET_VALUES \in Nat /\ MAX_PAREN_DEPTH \in Nat
    /\ Written \subseteq Glyph /\ "" \notin Glyph
    /\ None \notin Glyph \cup Text \cup AttributeValue
    /\ None \notin ConditionClause \cup Rule \cup Error

-----------------------------------------------------------------------------
(* Results.                                                                *)

\* A word is a keyword if it is one glyph.
Keyword(word) == IF Len(word) = 1 THEN word[1] ELSE ""

\* A result with the place in the input, or an error.
Fail(kind, offset) == [error |-> kind, offset |-> offset]
Good(value, next) == [value |-> value, next |-> next]
Failed(result) == "error" \in DOMAIN result

\* The question mark: an error is returned, a result goes on.
Then(result, Continue(_)) == IF Failed(result) THEN result ELSE Continue(result)

\* The first of some places, 0 without any.
First(places) == IF places = {} THEN 0 ELSE Min(places)

\* A value in front of those of a result.
Before(value, rest) ==
    IF Failed(rest) THEN rest ELSE Good(<<value>> \o rest.value, rest.next)

-----------------------------------------------------------------------------
(* The lexer.                                                              *)

Token(kind, text, offset) == [kind |-> kind, text |-> text, offset |-> offset]

\* The byte at `pos' of the quoted string whose quote is at `start'.
LexByte(input, start, pos) ==
    LET At(i) == IF i <= Len(input) THEN input[i] ELSE ""
    IN  CASE At(pos) # Backslash -> Good(At(pos), pos + 1)
          [] At(pos) = Backslash /\ At(pos + 1) = "" -> Fail("UnterminatedString", start)
          [] At(pos) = Backslash /\ At(pos + 1) \in DOMAIN Escapes ->
                Good(Escapes[At(pos + 1)], pos + 2)
          [] At(pos) = Backslash /\ At(pos + 1) = "x" /\ At(pos + 2) \in TwoDigits ->
                Good(HexByte[At(pos + 2)], pos + 3)
          [] OTHER -> Fail("InvalidEscape", pos)

\* The bytes of that string.
LexString(input, start) ==
    LET From[pos \in Place] ==
            IF pos > Len(input) THEN Fail("UnterminatedString", start)
            ELSE IF input[pos] = Quote THEN Good(<<>>, pos + 1)
            ELSE Then(LexByte(input, start, pos), LAMBDA byte :
                      Before(byte.value, From[byte.next]))
    IN  From[start + 1]

\* Mutant: one level more.
TooDeepLate(depth) == depth > MAX_PAREN_DEPTH

TooDeep(depth) == depth + 1 > MAX_PAREN_DEPTH

\* The parenthesis that matches the one at `open'; quoted ones do not count.
FindClosingParen(input, open) ==
    LET From[pos \in Place] == [depth \in Nat |->
            IF pos > Len(input) THEN Fail("UnterminatedParameter", open)
            ELSE CASE input[pos] = "(" ->
                        IF TooDeep(depth) THEN Fail("TooDeep", pos) ELSE From[pos + 1][depth + 1]
                   [] input[pos] = ")" ->
                        IF depth <= 1 THEN Good(pos, pos + 1) ELSE From[pos + 1][depth - 1]
                   [] input[pos] = Quote ->
                        Then(LexString(input, pos), LAMBDA string : From[string.next][depth])
                   [] OTHER -> From[pos + 1][depth]]
    IN  From[open][0]

\* The end of the word that starts at `start'.
WordEnd(input, start) ==
    LET Bounded(delimiter) == IF delimiter = 0 THEN Len(input) + 1 ELSE delimiter
    IN  Bounded(First({i \in start..Len(input) : input[i] \in Delimiters}))

\* The token at `pos', which is no whitespace.
LexToken(input, pos) ==
    LET To(kind, next) == Good(Token(kind, SubSeq(input, pos, next - 1), pos), next)
    IN  CASE input[pos] \in {"{", "}", "!"} -> Good(Token(input[pos], <<>>, pos), pos + 1)
          [] input[pos] = "#" ->
                Good(Token("Comment", SubSeq(input, pos + 1, Len(input)), pos), Len(input) + 1)
          [] input[pos] = Quote ->
                Then(LexString(input, pos), LAMBDA string :
                     Good(Token("Str", string.value, pos), string.next))
          [] input[pos] = "(" ->
                Then(FindClosingParen(input, pos), LAMBDA close :
                     Good(Token("Param", SubSeq(input, pos + 1, close.value - 1), pos),
                          close.next))
          [] input[pos] = ")" -> Fail("UnexpectedToken", pos)
          [] OTHER -> To("Word", WordEnd(input, pos))

\* tokenize; the end of the input is a token as well.
Lex(input) ==
    LET From[pos \in Place] ==
            IF pos > Len(input) THEN Good(<<Token("End", <<>>, pos)>>, pos)
            ELSE IF input[pos] \in Whitespace THEN From[pos + 1]
            ELSE Then(LexToken(input, pos), LAMBDA lexed :
                      Before(lexed.value, From[lexed.next]))
    IN  From[1]

-----------------------------------------------------------------------------
(* Values.                                                                 *)

\* The parts of a word between its colons.
Parts(word) ==
    LET From[pos \in Place] ==
            LET UpTo(colon) ==
                    IF colon = 0 THEN <<SubSeq(word, pos, Len(word))>>
                    ELSE <<SubSeq(word, pos, colon - 1)>> \o From[colon + 1]
            IN  UpTo(First({i \in pos..Len(word) : word[i] = ":"}))
    IN  From[1]

Wild(part) == part = <<"*">>
IsIdPart(part) ==
    \/ Wild(part)
    \/ Len(part) = 1 /\ part[1] \in FourDigits
    \/ Len(part) = 2 /\ part[1] \in TwoDigits /\ part[2] \in TwoDigits
IsByte(part) == Len(part) = 1 /\ part[1] \in TwoDigits
LowerPart(part) == [i \in DOMAIN part |-> Lower(part[i])]

\* UsbId::parse: a wildcard vendor implies a wildcard product.
IsUsbId(parts) ==
    /\ Len(parts) = 2 /\ IsIdPart(parts[1]) /\ IsIdPart(parts[2])
    /\ Wild(parts[1]) => Wild(parts[2])

\* InterfaceType::parse: a wildcard subclass implies a wildcard protocol.
IsInterface(parts) ==
    /\ Len(parts) = 3 /\ IsByte(parts[1])
    /\ \A i \in {2, 3} : Wild(parts[i]) \/ IsByte(parts[i])
    /\ Wild(parts[2]) => Wild(parts[3])

\* A word as a value of id or with-interface.
Structured(name, parts) ==
    IF (name = "id" /\ IsUsbId(parts)) \/ (name = "with-interface" /\ IsInterface(parts))
    THEN [i \in DOMAIN parts |-> LowerPart(parts[i])] ELSE None

ParseStructured(name, word) == Structured(name, Parts(word))

ParseValue(name, token) ==
    CASE token.kind = "Word" /\ name \notin StringAttributes -> ParseStructured(name, token.text)
      [] token.kind = "Str" /\ name \in StringAttributes -> <<token.text>>
      [] OTHER -> None

ValueAt(name, token) ==
    LET Given(value) == IF value = None THEN Fail("InvalidValue", token.offset) ELSE Good(value, 0)
    IN  Given(ParseValue(name, token))

\* The text without the whitespace around it.
Trim(text) ==
    LET solid == {i \in DOMAIN text : text[i] \notin Whitespace}
    IN  IF solid = {} THEN <<>> ELSE SubSeq(text, Min(solid), Max(solid))

IsTime(parts) ==
    Len(parts) \in {2, 3} /\ \A i \in DOMAIN parts : Len(parts[i]) = 1 /\ parts[i][1] \in Decimal
IsTimeOfDay(text) == IsTime(Parts(text))
IsTimeRange(text) ==
    LET Halves(dash) == IF dash = 0 THEN {text}
                        ELSE {SubSeq(text, 1, dash - 1), SubSeq(text, dash + 1, Len(text))}
    IN  \A time \in Halves(First({i \in DOMAIN text : text[i] = "-"})) : IsTimeOfDay(time)
IsDuration(text) ==
    \/ Len(text) \in 1..5 /\ \A i \in DOMAIN text : text[i] \in Decimal
    \/ IsTimeOfDay(text)
IsProbability(text) ==
    text # <<>> /\ text[1] = "0.5" /\ \A i \in 2..Len(text) : text[i] \in Decimal

-----------------------------------------------------------------------------
(* The parser: every function takes the tokens and a position, and what is *)
(* known of the texts that conditions nest.                                *)

\* Values up to `}'.
ParseSet(name, t, first) ==
    LET From[i \in DOMAIN t] ==
            CASE t[i].kind = "}" -> Good(<<>>, i + 1)
              [] t[i].kind # "}" /\ i - first >= MAX_SET_VALUES ->
                    Fail("TooManyValues", t[i].offset)
              [] t[i].kind = "End" /\ i - first < MAX_SET_VALUES ->
                    Fail("UnexpectedEnd", t[i].offset)
              [] OTHER -> Then(ValueAt(name, t[i]), LAMBDA value :
                               Before(value.value, From[i + 1]))
    IN  From[first]

ExpectBrace(t, i) ==
    IF t[i].kind = "{" THEN Good(TRUE, i + 1)
    ELSE Fail(IF t[i].kind = "End" THEN "UnexpectedEnd" ELSE "UnexpectedToken", t[i].offset)

Operator(t, i) ==
    IF t[i].kind = "Word" /\ Keyword(t[i].text) \in SetOperator THEN t[i].text[1] ELSE None

\* One value, or a set with or without an operator.
ValuesAfter(operator, name, t, i) ==
    CASE operator = None /\ t[i].kind = "End" -> Fail("UnexpectedEnd", t[i].offset)
      [] operator = None /\ t[i].kind \notin {"End", "{"} ->
            Then(ValueAt(name, t[i]), LAMBDA value :
                 Good([set |-> FALSE, operator |-> None, values |-> <<value.value>>], i + 1))
      [] OTHER ->
            Then(ExpectBrace(t, IF operator = None THEN i ELSE i + 1), LAMBDA brace :
                 Then(ParseSet(name, t, brace.next), LAMBDA set :
                      Good([set |-> TRUE, operator |-> operator, values |-> set.value], set.next)))

ParseAttributeValues(name, t, i) == ValuesAfter(Operator(t, i), name, t, i)

\* validate_condition; a query is parsed, and its own error is not reported.
ValidCondition(queries, name, parameter) ==
    CASE parameter = None ->
            name \in {"true", "false", "rule-applied", "rule-evaluated", "random"}
      [] parameter # None /\ name = "allowed-matches" -> ~Failed(queries[parameter])
      [] parameter # None /\ name = "localtime" -> IsTimeRange(Trim(parameter))
      [] parameter # None /\ name \in {"rule-applied", "rule-evaluated"} ->
            IsDuration(Trim(parameter))
      [] parameter # None /\ name = "random" -> IsProbability(Trim(parameter))
      [] OTHER -> FALSE

\* The condition whose name is the word at `n'.
NamedCondition(negated, name, parameter, queries, t, n) ==
    CASE t[n].kind = "End" -> Fail("UnexpectedEnd", t[n].offset)
      [] t[n].kind \notin {"End", "Word"} -> Fail("UnexpectedToken", t[n].offset)
      [] t[n].kind = "Word" /\ name \notin ConditionName -> Fail("UnknownCondition", t[n].offset)
      [] t[n].kind = "Word" /\ name \in ConditionName
         /\ ~ValidCondition(queries, name, parameter) ->
            Fail("InvalidConditionParameter", IF parameter = None THEN 1 ELSE t[n + 1].offset)
      [] OTHER -> Good([negated |-> negated, name |-> name, parameter |-> parameter],
                       IF parameter = None THEN n + 1 ELSE n + 2)

Parameter(token) == IF token.kind = "Param" THEN token.text ELSE None

ParseCondition(queries, t, i) ==
    LET From(negated, n) ==
            NamedCondition(negated, Keyword(t[n].text), Parameter(t[n + 1]), queries, t, n)
    IN  From(t[i].kind = "!", IF t[i].kind = "!" THEN i + 1 ELSE i)

ParseConditions(queries, t, first) ==
    LET From[i \in DOMAIN t] == [n \in Nat |->
            CASE t[i].kind = "}" -> Good(<<>>, i + 1)
              [] t[i].kind # "}" /\ n >= MAX_SET_VALUES -> Fail("TooManyValues", t[i].offset)
              [] OTHER -> Then(ParseCondition(queries, t, i), LAMBDA condition :
                               Before(condition.value, From[condition.next][n + 1]))]
    IN  From[first][0]

\* One condition, or a set with or without an operator.
ConditionsAfter(operator, queries, t, n) ==
    CASE t[n].kind # "{" /\ operator # None -> ExpectBrace(t, n)
      [] t[n].kind # "{" /\ operator = None ->
            Then(ParseCondition(queries, t, n), LAMBDA single :
                 Good([set |-> FALSE, operator |-> None,
                       conditions |-> <<single.value>>], single.next))
      [] OTHER ->
            Then(ParseConditions(queries, t, n + 1), LAMBDA set :
                 Good([set |-> TRUE, operator |-> operator,
                       conditions |-> set.value], set.next))

ParseConditionClause(queries, t, i) ==
    LET From(operator) ==
            ConditionsAfter(operator, queries, t, IF operator = None THEN i ELSE i + 1)
    IN  From(Operator(t, i))

HasAttribute(attributes, name) == \E i \in DOMAIN attributes : attributes[i].name = name

\* The attribute whose name is the word at `i'.
NamedAttribute(name, t, i) ==
    Then(ParseAttributeValues(name, t, i + 1), LAMBDA values :
         Good([name |-> name, values |-> values.value], values.next))

\* The attributes up to `if', a comment or the end.
ParseAttributes(t, first) ==
    LET From[i \in DOMAIN t] == [seen \in SUBSET AttributeName |->
            LET At(name) ==
                    CASE t[i].kind \in {"Comment", "End"} \/ (t[i].kind = "Word" /\ name = "if") ->
                            Good(<<>>, i)
                      [] t[i].kind \notin {"Comment", "End", "Word"} ->
                            Fail("UnexpectedToken", t[i].offset)
                      [] t[i].kind = "Word" /\ name \notin AttributeName \cup {"if"} ->
                            Fail("UnknownAttribute", t[i].offset)
                      [] t[i].kind = "Word" /\ name \in seen ->
                            Fail("DuplicateAttribute", t[i].offset)
                      [] OTHER ->
                            Then(NamedAttribute(name, t, i), LAMBDA attribute :
                                 Before(attribute.value, From[attribute.next][seen \cup {name}]))
            IN  At(Keyword(t[i].text))]
    IN  From[first][{}]

\* Which targets an entry point accepts.
Allowed(mode, target) ==
    CASE mode = "Rule" -> target \in {"allow", "block", "reject"}
      [] mode = "Partial" -> target = None
      [] mode = "Query" -> TRUE

\* After the attributes: `if', and a comment or the end.
ParseClause(queries, t, i) ==
    IF t[i].kind = "Word" THEN ParseConditionClause(queries, t, i + 1) ELSE Good(None, i)

ParseEnd(t, target, attributes, clause) ==
    LET Ends(last) ==
            CASE last.kind \notin {"Comment", "End"} -> Fail("UnexpectedToken", last.offset)
              [] last.kind \in {"Comment", "End"} /\ target = None
                 /\ attributes = <<>> /\ clause.value = None -> Fail("Empty", 1)
              [] OTHER ->
                    Good([target |-> target, attributes |-> attributes, condition |-> clause.value,
                          comment |-> IF last.kind = "Comment" THEN last.text ELSE None],
                         clause.next)
    IN  Ends(t[clause.next])

Target(token) ==
    IF token.kind = "Word" /\ Keyword(token.text) \in RuleTarget THEN token.text[1] ELSE None

ParseAfter(target, queries, t, mode) ==
    IF ~Allowed(mode, target)
    THEN Fail(IF t[1].kind = "End" THEN "Empty" ELSE "InvalidTarget", t[1].offset)
    ELSE Then(ParseAttributes(t, IF target = None THEN 1 ELSE 2), LAMBDA attributes :
              Then(ParseClause(queries, t, attributes.next), LAMBDA clause :
                   ParseEnd(t, target, attributes.value, clause)))

ParseRule(queries, t, mode) == ParseAfter(Target(t[1]), queries, t, mode)

ParseWith(queries, input, mode) ==
    IF Len(input) > MAX_INPUT_LEN THEN Fail("TooLong", MAX_INPUT_LEN + 1)
    ELSE Then(Lex(input), LAMBDA lexed : ParseRule(queries, lexed.value, mode))

\* What a nested query is read as, which may nest queries in turn.
Nested[text \in Text] == ParseWith(Nested, text, "Query")

\* parse: parse_rule, parse_partial and parse_query by their mode.
Parse(input, mode) == ParseWith(Nested, input, mode)

-----------------------------------------------------------------------------
(* The renderer.                                                           *)

\* Pieces with a glyph between them.
Joined(glyph, pieces) ==
    FlattenSeq([i \in DOMAIN pieces |-> IF i = 1 THEN pieces[i] ELSE <<glyph>> \o pieces[i]])

Spaced(pieces) == Joined(" ", pieces)

\* Mutant: only the quote is escaped.
WriteQuotedOnly(bytes) ==
    <<Quote>> \o FlattenSeq([i \in DOMAIN bytes |->
        IF bytes[i] = Quote THEN <<Backslash, Quote>> ELSE <<bytes[i]>>]) \o <<Quote>>

Escaped(b) ==
    CASE b \in {Quote, Backslash} -> <<Backslash, b>>
      [] b \in Controls -> <<Backslash, "x", HexOf[b]>>
      [] OTHER -> <<b>>

WriteQuoted(bytes) ==
    <<Quote>> \o FlattenSeq([i \in DOMAIN bytes |-> Escaped(bytes[i])]) \o <<Quote>>

WriteValue(name, value) ==
    IF name \in StringAttributes THEN WriteQuoted(value[1]) ELSE Joined(":", value)

WriteSet(operator, members) ==
    Spaced((IF operator = None THEN <<>> ELSE <<<<operator>>>>)
           \o <<<<"{">>>> \o members \o <<<<"}">>>>)

WriteAttribute(a) ==
    LET values == [i \in DOMAIN a.values.values |-> WriteValue(a.name, a.values.values[i])]
    IN  Spaced(<<<<a.name>>,
                 IF a.values.set THEN WriteSet(a.values.operator, values) ELSE values[1]>>)

WriteCondition(c) ==
    (IF c.negated THEN <<"!">> ELSE <<>>) \o <<c.name>>
    \o (IF c.parameter = None THEN <<>> ELSE <<"(">> \o c.parameter \o <<")">>)

WriteClause(clause) ==
    LET conditions == [i \in DOMAIN clause.conditions |-> WriteCondition(clause.conditions[i])]
    IN  IF clause.set THEN WriteSet(clause.operator, conditions) ELSE conditions[1]

\* Display of a rule: its canonical text.
Render(rule) ==
    Spaced((IF rule.target = None THEN <<>> ELSE <<<<rule.target>>>>)
           \o [i \in DOMAIN rule.attributes |-> WriteAttribute(rule.attributes[i])]
           \o (IF rule.condition = None THEN <<>>
               ELSE <<<<"if">>, WriteClause(rule.condition)>>)
           \o (IF rule.comment = None THEN <<>> ELSE <<<<"#">> \o rule.comment>>))

\* render_checked: the text, or the error of reading it back.
RenderChecked(rule) ==
    Then(Parse(Render(rule), "Query"), LAMBDA reparsed :
         IF reparsed.value = rule THEN Good(Render(rule), 0) ELSE Fail("InvalidValue", 1))

-----------------------------------------------------------------------------
(* The guided form.                                                        *)

\* split_whitespace
Words(text) ==
    LET End(blank) == IF blank = 0 THEN Len(text) + 1 ELSE blank
        From[pos \in Place] ==
            LET UpTo(end) == IF end = pos THEN From[pos + 1]
                             ELSE <<SubSeq(text, pos, end - 1)>> \o From[end]
            IN  IF pos > Len(text) THEN <<>>
                ELSE UpTo(End(First({i \in pos..Len(text) : text[i] \in Whitespace})))
    IN  From[1]

\* The values of a row, or the error of the row.
StructuredValues(field, parsed) ==
    CASE \E i \in DOMAIN parsed : parsed[i] = None -> Fail("InvalidValue", 0)
      [] parsed = <<>> -> Fail("Empty", 0)
      [] OTHER -> Good([set |-> Len(parsed) > 1 \/ field.operator # None,
                        operator |-> field.operator, values |-> parsed], 0)

ParseAll(name, words) == [i \in DOMAIN words |-> ParseStructured(name, words[i])]

FieldValues(field) ==
    CASE field.name \notin StringAttributes ->
            StructuredValues(field, ParseAll(field.name, Words(field.text)))
      [] field.name \in StringAttributes /\ field.operator # None -> Fail("SetOfText", 0)
      [] OTHER -> Good([set |-> FALSE, operator |-> None, values |-> <<<<field.text>>>>], 0)

\* build_rule: the rule, or the first invalid row.
BuildRows(target, fields, results) ==
    LET Wrong(row) == \/ \E earlier \in 1..row - 1 : fields[earlier].name = fields[row].name
                      \/ Failed(results[row])
        Unless(row) ==
            IF row # 0 THEN Fail("Field", row)
            ELSE Good([target |-> target,
                       attributes |-> [i \in DOMAIN fields |->
                           [name |-> fields[i].name, values |-> results[i].value]],
                       condition |-> None, comment |-> None], 0)
    IN  Unless(First({row \in DOMAIN fields : Wrong(row)}))

BuildRule(target, fields) ==
    BuildRows(target, fields, [row \in DOMAIN fields |-> FieldValues(fields[row])])

=============================================================================
