---------------------------- MODULE MCRuleDialog ----------------------------
(* RuleDialog with texts chosen for their quotes, sets and nested queries. *)
EXTENDS RuleDialog

Matches(query) == <<"allowed-matches", "(">> \o query \o <<")">>
If(keyword, query) == <<keyword, " ", "if", " ">> \o Matches(query)

MCPastes == {
    <<"allow", " ", "id", " ", "12AB", ":", "*", " ", "label", " ", "quote", "x", "quote">>,
    <<"reject", " ", "if", " ", "localtime", "(", " ", "07", ":", "22", "-", "22", ":", "07", ")">>,
    <<"block", " ", "serial", " ", "{", "quote", "quote", " ", "quote", "(", "quote", "}">>,
    <<"allow", " ", "hash", " ", "quote", "backslash", "n", "x", "backslash", "backslash", "quote">>,
    <<"block", " ", "if", " ", "one-of", " ", "{", "!", "random", "(", "0.5", "07", ")", "true", "}">>,
    <<"block", " ", "with-interface", " ", "all-of", " ", "{", "07", ":", "*", ":", "*", "}", " ", "#", "x">>,
    If("allow", If("match", <<"match">>)),
    If("block", If("allow", If("match", <<"match">>))),
    <<"allow", " ", "if", " ">>
      \o Matches(<<"label", " ", "quote", "(", "quote", " ", "id", " ", "*", ":", "*">>) }

MCStrokes == {"quote", "backslash", "(", ")", "{", " ", "bell", "#"}

MCGlyph ==
    Written \cup {"-", "0.5"}

Row(attribute, op, entered) == [name |-> attribute, operator |-> op, text |-> entered]
MCFieldInputs == {
    Row("id", None, <<"12AB", ":", "*">>),
    Row("id", "one-of", <<"12ab", ":", "07", "22", " ", "*", ":", "*">>),
    Row("id", None, <<"*", ":", "12ab">>),
    Row("id", "one-of", <<"*", ":", "*", " ", "*", ":", "*", " ", "*", ":", "*">>),
    Row("with-interface", None, <<"07", ":", "*", ":", "*", " ", "22", ":", "07", ":", "07">>),
    Row("label", None, <<"x", "bell", "backslash">>),
    Row("serial", None, <<"quote", ")", "newline">>),
    Row("hash", None, <<"bell", "bell", "newline", "bell", "bell", "newline">>),
    Row("hash", "equals", <<"x">>) }
=============================================================================
