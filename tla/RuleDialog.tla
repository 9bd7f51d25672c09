----------------------------- MODULE RuleDialog -----------------------------
(***************************************************************************)
(* The new-rule dialog (src/ui/rule_dialog.rs) and its device preview      *)
(* (src/ui/rule_preview.rs): a guided form and a text, of which the        *)
(* visible one makes the rule; its canonical text is checked, shown, and   *)
(* what Add hands to the window.                                           *)
(*                                                                         *)
(* Each preview is a task with a connection of its own.  What devices a    *)
(* query matches is the daemon's; an answer is known by its query.  The    *)
(* widgets are read and written by the GTK thread alone.                   *)
(***************************************************************************)
EXTENDS RuleLanguage

CONSTANTS
    FieldInputs,    \* what the user fills into a row: name, operator, text
    Pastes,         \* texts the user pastes
    Strokes,        \* glyphs the user types
    MaxEdits,       \* bound: edits of the form and of the text
    MaxPreviews     \* bound: previews started

ASSUME RuleDialogAssumption ==
    /\ FieldInputs \subseteq [name : AttributeName, operator : SetOperator \cup {None}, text : Text]
    /\ Pastes \subseteq Text /\ Strokes \subseteq Glyph
    /\ MaxEdits \in Nat /\ MaxPreviews \in Nat

VARIABLES
    edits,      \* see MaxEdits
    mode,       \* the visible one: "guided" or "text"
    target, fields,     \* the guided form
    text,       \* the text entry
    current,    \* the rule Add would send, None if there is none
    preview,    \* its canonical text, as the label shows it
    failure,    \* the error message, None if hidden
    closed,     \* the dialog is closed
    submitted,  \* what on_submit received
    previews,   \* see MaxPreviews
    revision,   \* DevicePreview.revision
    request,    \* DevicePreview.request: a task is waited for
    waiting,    \* the local futures: the revision and the query of each
    answer      \* the query whose devices are shown, None without any

formVars == <<mode, target, fields, text>>
ruleVars == <<current, preview, failure>>
previewVars == <<previews, revision, request, waiting, answer>>
vars == <<edits, formVars, ruleVars, closed, submitted, previewVars>>

-----------------------------------------------------------------------------
Targets == {"allow", "block", "reject"}
DefaultRow == [name |-> "id", operator |-> None, text |-> <<>>]

\* Mutant: the text mode accepts every query.
EnteredAsQuery(m, tgt, rows, txt) ==
    IF m = "guided" THEN BuildRule(tgt, rows) ELSE Parse(txt, "Query")

\* The rule of the visible mode.
Entered(m, tgt, rows, txt) ==
    IF m = "guided" THEN BuildRule(tgt, rows) ELSE Parse(txt, "Rule")

\* That rule and its canonical text, if it survives rendering.
Checked(m, tgt, rows, txt) ==
    Then(Entered(m, tgt, rows, txt), LAMBDA entered :
         Then(RenderChecked(entered.value), LAMBDA rendered :
              Good([rule |-> entered.value, text |-> rendered.value], 0)))

\* Mutant: metadata stays in the query.
QueryOfAll(rule) == [rule EXCEPT !.target = "match"]

\* The attributes that take part in matching, in their order.
Matched(attributes) ==
    FlattenSeq([i \in DOMAIN attributes |->
        IF attributes[i].name = "label" THEN <<>> ELSE <<attributes[i]>>])

\* preview_rule_devices: only what takes part in matching.  What it renders and
\* parses first is the current rule, which survives that.
Query(rule) ==
    [rule EXCEPT !.target = "match", !.condition = None, !.comment = None, !.attributes = Matched(@)]

TypeOK ==
    /\ edits \in 0..MaxEdits /\ previews \in 0..MaxPreviews
    /\ mode \in {"guided", "text"}
    /\ target \in Targets /\ fields \in Seq(FieldInputs \cup {DefaultRow})
    /\ text \in Text /\ preview \in Text
    /\ current \in Rule \cup {None} /\ submitted \in Rule \cup {None}
    /\ failure \in Error \cup {None} /\ (failure = None <=> current # None)
    /\ current # None => current.target \in Targets
    /\ closed \in BOOLEAN /\ request \in BOOLEAN
    /\ revision \in Nat
    /\ \A f \in waiting : f.revision <= revision

\* The dialog as it is presented, after a first recompute.
Init ==
    /\ edits = 0 /\ mode = "guided" /\ target = "allow" /\ fields = <<>> /\ text = <<>>
    /\ \E checked \in {Checked(mode, target, fields, text)} :
        IF Failed(checked)
        THEN current = None /\ failure = checked /\ preview = <<>>
        ELSE current = checked.value.rule /\ preview = checked.value.text /\ failure = None
    /\ closed = FALSE /\ submitted = None
    /\ previews = 0 /\ revision = 0 /\ request = FALSE /\ waiting = {} /\ answer = None

-----------------------------------------------------------------------------
(* The device preview.                                                     *)

\* DevicePreview::cancel: a new revision, the task aborted, the list emptied.
\* The future of an aborted task still ends, with its answer or without.
CancelPreview == revision' = revision + 1 /\ request' = FALSE /\ answer' = None

\* Mutant: the reply that is on its way stays valid.
SetRuleKeepsRevision ==
    request' = FALSE /\ answer' = None /\ UNCHANGED <<previews, revision, waiting>>

\* DevicePreview::set_rule
SetRule == CancelPreview /\ UNCHANGED <<previews, waiting>>

\* DevicePreview::activate: cancel a running request, or start one.
Activate ==
    /\ ~closed /\ current # None
    /\ IF request THEN CancelPreview /\ UNCHANGED <<previews, waiting>>
       ELSE /\ previews < MaxPreviews /\ previews' = previews + 1
            /\ revision' = revision + 1 /\ answer' = None
            /\ request' = TRUE
            /\ waiting' = waiting \cup {[revision |-> revision', query |-> Query(current)]}
    /\ UNCHANGED <<edits, formVars, ruleVars, closed, submitted>>

\* Mutant: the button is reset, but the request is not forgotten.
FinishKeepsRequest(query) ==
    /\ answer' = query
    /\ UNCHANGED request

\* DevicePreview::finish, with the devices or an error.
Finish(query) ==
    /\ answer' \in {query, None}
    /\ request' = FALSE

\* recv().await and finish_if_current.
Reply(f) ==
    /\ f \in waiting
    /\ waiting' = waiting \ {f}
    /\ IF f.revision = revision /\ ~closed THEN Finish(f.query)
       ELSE UNCHANGED <<answer, request>>
    /\ UNCHANGED <<edits, formVars, ruleVars, closed, submitted, previews, revision>>

-----------------------------------------------------------------------------
(* The form.                                                               *)

\* recompute; an invalid rule leaves the preview as it was.
Recompute ==
    /\ \E checked \in {Checked(mode', target', fields', text')} :
        IF Failed(checked)
        THEN current' = None /\ failure' = checked /\ UNCHANGED preview
        ELSE current' = checked.value.rule /\ preview' = checked.value.text /\ failure' = None
    /\ SetRule

Edit ==
    /\ ~closed /\ edits < MaxEdits /\ edits' = edits + 1
    /\ UNCHANGED <<closed, submitted>>

\* add_field_row, the widgets of a row, and its remove button.
EditFields ==
    /\ Edit /\ mode = "guided"
    /\ \/ fields' = Append(fields, DefaultRow)
       \/ \E i \in DOMAIN fields, f \in FieldInputs : fields' = [fields EXCEPT ![i] = f]
       \/ \E i \in DOMAIN fields :
            fields' = SubSeq(fields, 1, i - 1) \o SubSeq(fields, i + 1, Len(fields))
    /\ UNCHANGED <<mode, target, text>>
    /\ Recompute

SetTarget ==
    /\ Edit /\ mode = "guided"
    /\ target' \in Targets \ {target}
    /\ UNCHANGED <<mode, fields, text>>
    /\ Recompute

\* A glyph is typed or deleted, or a text pasted.
EditText ==
    /\ Edit /\ mode = "text"
    /\ \/ text' \in Pastes
       \/ \E i \in 0..Len(text), g \in Strokes :
            /\ (IF i > 0 THEN text[i] ELSE "") = Backslash => g \in Delimiters \cup {Backslash}
            /\ text' = SubSeq(text, 1, i) \o <<g>> \o SubSeq(text, i + 1, Len(text))
       \/ \E i \in DOMAIN text :
            /\ (IF i > 1 THEN text[i - 1] ELSE "") # Backslash
            /\ text' = SubSeq(text, 1, i - 1) \o SubSeq(text, i + 1, Len(text))
    /\ UNCHANGED <<mode, target, fields>>
    /\ Recompute

\* Mutant: the text stays what it was at the last visit.
CarriedNever == text

\* The guided rule is carried over into the text, if there is one.
Carried == IF current = None THEN text ELSE Render(current)

\* set_text recomputes as well, with the same result.
SwitchMode ==
    /\ Edit
    /\ IF mode = "guided" THEN mode' = "text" /\ text' = Carried
       ELSE mode' = "guided" /\ UNCHANGED text
    /\ UNCHANGED <<target, fields>>
    /\ Recompute

\* Closing cancels the preview, whether the rule is submitted or not.
Close(rule) ==
    /\ ~closed /\ closed' = TRUE
    /\ submitted' = rule
    /\ CancelPreview
    /\ UNCHANGED <<edits, formVars, ruleVars, previews, waiting>>

Add == current # None /\ Close(current)
Dismiss == Close(None)

Next ==
    \/ EditFields \/ SetTarget \/ EditText \/ SwitchMode
    \/ Activate \/ Add \/ Dismiss
    \/ \E f \in waiting : Reply(f)

Spec == Init /\ [][Next]_vars

\* A preview's task is scheduled and answered, or its connection lost; what
\* the user does is not required.
FairSpec == Spec /\ WF_vars(\E f \in waiting : Reply(f))

-----------------------------------------------------------------------------
(* Properties.                                                             *)

\* A rule that was entered survives its rendering, whatever quotes,
\* backslashes, control characters, sets, conditions and nested queries it is
\* made of: only a text that gets too long is refused as an internal error, or
\* a row of the form with more values than the parser reads (render.rs,
\* parser.rs, builder.rs).
RulesSurviveRendering ==
    LET TooLong(refusal) ==
            \/ refusal.error = "TooLong"
            \/ /\ refusal.error = "TooManyValues" /\ mode = "guided"
               /\ \E i \in DOMAIN fields : Len(Words(fields[i].text)) > MAX_SET_VALUES
        Survives(entered) ==
            ~Failed(entered) =>
                \E rendered \in {RenderChecked(entered.value)} : Failed(rendered) => TooLong(rendered)
    IN  ~closed => Survives(Entered(mode, target, fields, text))

\* What Add hands over passes the validation of append_rule, and its text is
\* the one the label showed: an invalid rule, or one that is not a policy
\* rule, never reaches the daemon.
SubmittedIsShown ==
    LET Shown(read) ==
            ~Failed(read) /\ read.value = submitted /\ read = Parse(Render(submitted), "Rule")
    IN  submitted # None => Shown(Parse(preview, "Rule"))

\* The queries a text nests in its conditions.
NestedIn(read) ==
    LET Queries(parsed) ==
            IF Failed(parsed) \/ parsed.value.condition = None THEN {}
            ELSE {parsed.value.condition.conditions[i].parameter : i \in
                     {j \in DOMAIN parsed.value.condition.conditions :
                         parsed.value.condition.conditions[j].name = "allowed-matches"}}
    IN  Queries(Parse(read, "Query"))

\* The parser's recursion does not get deeper than its bound: a nested query is
\* parsed in turn, one level further in.
WithinDepth[level \in 0..MAX_PAREN_DEPTH] == [read \in Text |->
    \A query \in NestedIn(read) : level < MAX_PAREN_DEPTH /\ WithinDepth[level + 1][query]]

\* Every accepted text was parsed without recursing deeper than the bound the
\* lexer checks, quoted parentheses notwithstanding (MAX_PAREN_DEPTH).
NestingBounded == \A read \in {text, preview} : WithinDepth[0][read]

\* The text a preview sends reads as a query for just the attributes of the
\* rule that take part in matching (preview_rule_devices renders it without
\* checking it again).
PreviewAsksForTheAttributes ==
    LET Asks(query, sent) ==
            /\ ~Failed(sent) /\ sent.value = query
            /\ query.condition = None /\ query.comment = None
            /\ ~HasAttribute(query.attributes, "label")
    IN  \A f \in waiting : Asks(f.query, Parse(Render(f.query), "Query"))

\* The devices shown are the answer for the rule as it is now, through edits,
\* cancellations, second previews and replies that arrive late; a closed
\* dialog shows none (finish_if_current).
PreviewIsOfTheCurrentRule ==
    answer # None => ~closed /\ current # None /\ answer = Query(current)

\* Switching to the text mode changes the notation, not the rule.
SwitchKeepsTheRule ==
    [][mode = "guided" /\ mode' = "text" /\ current # None =>
          current' = current /\ text' = preview]_vars

\* A running preview does not stay running: it is answered, fails, or is
\* cancelled, and the button offers a preview again.
PreviewEnds == request ~> ~request
=============================================================================
