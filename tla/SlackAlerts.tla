---------------------------- MODULE SlackAlerts ----------------------------
(***************************************************************************)
(* Alerts about exceptions: how exceptions become Slack messages           *)
(* (src/safir/slack/blockkit.py, uws/_exceptions.py, redis/_storage.py)    *)
(* and who posts them (slack/webhook.py, sentry/_helpers.py and            *)
(* uws/_workers.py).                                                       *)
(*                                                                         *)
(* Slack refuses a message if any part of it is too long.  Of a text only  *)
(* its length matters, where its newlines are, and where the characters    *)
(* are that are escaped: & becomes five characters.  (< and > become four, *)
(* and are left out.)  Positions begin at 0.                               *)
(***************************************************************************)
EXTENDS Integers, Sequences, FiniteSets

CONSTANTS
    Application,    \* length of the name of the service
    Owner, JobId,   \* texts: the owner of jobs, and what identifies one
    Exceptions,     \* exceptions that its handlers and jobs raise
    Messages,       \* messages that it posts itself
    Handlers        \* requests and jobs

Limit == 3000               \* SlackBaseBlock.max_formatted_length
FieldLimit == 2000          \* SlackBaseField.max_formatted_length
MaxFields == 10
Mark == 18                  \* "\n... truncated ..." and "... truncated ...\n"

\* Texts have no white space at either end.
Text ==
    {t \in [len : Nat, newlines : SUBSET Nat, special : SUBSET Nat] :
        t.newlines \union t.special \subseteq 0..(t.len - 1)}

\* Blocks and fields with a heading.  Headings are assumed to leave place for the
\* frame of the code and the mark: a longer one is not truncated, although
\* blockkit.py:54-55 and 87-88 promise it of any output.
Blocks ==
    {b \in [kind : {"text", "code"}, heading : Nat, text : Text] :
        b.heading + 3 + 8 + Mark <= FieldLimit}

SlackExceptions == {"SlackException", "SlackWebException", "TaskError", "DeserializeError"}

\* Those that clients cause, HTTPException for all three of FastAPI and Starlette.
_IGNORED_EXCEPTIONS == {"HTTPException", "SlackIgnoredException"}

Classes == SlackExceptions \union _IGNORED_EXCEPTIONS \union {"other"}

\* The attributes of an exception that are there are texts, or Empty for None.
ASSUME SlackAssumption ==
    /\ Application \in Nat
    /\ {Owner, JobId} \subseteq Text
    /\ Messages \subseteq [message : Text, fields : Seq(Blocks), blocks : Seq(Blocks),
                           attachments : Seq(Blocks)]
    /\ \A e \in Exceptions :
         /\ e \in [class : Classes, name : Text, message : Text, attrs : {e.attrs},
                   slack_ignore : BOOLEAN]
         /\ e.attrs \in [DOMAIN e.attrs -> Text]

Words(n) == [len |-> n, newlines |-> {}, special |-> {}]
Empty == Words(0)           \* also of an attribute that is None
Date == Words(19)

Joined(a, b) ==
    [len |-> a.len + b.len,
     newlines |-> a.newlines \union {a.len + p : p \in b.newlines},
     special |-> a.special \union {a.len + p : p \in b.special}]

-----------------------------------------------------------------------------
\* Truncation

\* Where a position is once every & before it has become "&amp;".
Shifted(t, p) == p + 4 * Cardinality({q \in t.special : q < p})

Escaped(t) == [len |-> Shifted(t, t.len),
               newlines |-> {Shifted(t, p) : p \in t.newlines}]

\* What is shown of a text: the characters from one position up to another, and
\* the mark if anything was cut.
Shown(from, to, mark) == [from |-> from, to |-> to, mark |-> mark]
Length(shown) == shown.to - shown.from + shown.mark

Whole(s) == Shown(0, s.len, 0)

_format_and_truncate_at_end(t, max_length) ==
    LET s == Escaped(t)
        end == max_length - Mark
        before == {p \in s.newlines : p < end}
        last_newline == CHOOSE p \in before : \A q \in before : q <= p
    IN IF s.len <= max_length THEN Whole(s)
       ELSE Shown(0, IF before = {} THEN end ELSE last_newline, Mark)

\* Mutant: lines are taken away until the text fits, without its mark.
TruncateForgettingMark(t, max_length) ==
    LET s == Escaped(t)
        fit == {p \in s.newlines : s.len - (p + 1) <= max_length}
        first == CHOOSE p \in fit : \A q \in fit : p <= q
    IN IF s.len <= max_length THEN Whole(s)
       ELSE IF s.newlines = {} THEN Shown(s.len - max_length + Mark, s.len, Mark)
       ELSE Shown(IF fit = {} THEN s.len ELSE first + 1, s.len, Mark)

\* Lines are taken away until the rest fits, if need be all of them; a single
\* line is cut.
_format_and_truncate_at_start(t, max_length) ==
    LET s == Escaped(t)
        fit == {p \in s.newlines : s.len - (p + 1) <= max_length - Mark}
        first == CHOOSE p \in fit : \A q \in fit : p <= q
    IN IF s.len <= max_length THEN Whole(s)
       ELSE IF s.newlines = {} THEN Shown(s.len - max_length + Mark, s.len, Mark)
       ELSE Shown(IF fit = {} THEN s.len ELSE first + 1, s.len, Mark)

-----------------------------------------------------------------------------
\* Blocks, fields and messages

Block(kind, heading, text) == [kind |-> kind, heading |-> heading, text |-> text]
SlackTextBlock(heading, text) == Block("text", heading, text)
SlackCodeBlock(heading, code) == Block("code", heading, code)

\* The heading between asterisks, with a newline, and the fences of the code.
Frame(b) == b.heading + 3 + IF b.kind = "code" THEN 8 ELSE 0

Body(b, max_formatted_length) ==
    IF b.kind = "code"
      THEN _format_and_truncate_at_start(b.text, max_formatted_length - Frame(b))
      ELSE _format_and_truncate_at_end(b.text, max_formatted_length - Frame(b))

Formatted(b, max_formatted_length) ==
    [len |-> Frame(b) + Length(Body(b, max_formatted_length)),
     cut |-> Body(b, max_formatted_length).mark > 0,
     needs |-> Frame(b) + Escaped(b.text).len]

FormattedAll(blocks, max_formatted_length) ==
    {Formatted(blocks[i], max_formatted_length) : i \in DOMAIN blocks}

\* SlackMessage.to_slack: the blocks and attachments are all sections of text.
to_slack(m) ==
    LET text == _format_and_truncate_at_end(m.message, Limit)
    IN [fields |-> FormattedAll(m.fields, FieldLimit), columns |-> Len(m.fields),
        sections |-> FormattedAll(m.blocks, Limit)
            \union FormattedAll(m.attachments, Limit)
            \union {[len |-> Length(text), cut |-> text.mark > 0,
                     needs |-> Escaped(m.message).len]}]

NoBody == [fields |-> {}, columns |-> 0, sections |-> {}]

\* What Slack accepts.
Accepts(body) ==
    /\ body.columns <= MaxFields
    /\ \A f \in body.fields : f.len <= FieldLimit
    /\ \A s \in body.sections : s.len <= Limit

_validate_fields(m) == Len(m.fields) <= MaxFields

-----------------------------------------------------------------------------
\* Exceptions

Attr(e, name) == IF name \in DOMAIN e.attrs THEN e.attrs[name] ELSE Empty

\* A part that is there only if its text is.
Optional(text, block) == IF text.len = 0 THEN <<>> ELSE <<block>>

SlackException(e) ==
    [message |-> e.message, blocks |-> <<>>, attachments |-> <<>>,
     fields |-> <<SlackTextBlock(14, e.name), SlackTextBlock(9, Date)>>
                  \o Optional(Attr(e, "user"), SlackTextBlock(4, Attr(e, "user")))]

SlackWebException(e) ==
    LET url == Attr(e, "url")
        method == Attr(e, "method")
        text == IF method.len = 0 THEN url ELSE Joined(Joined(method, Words(1)), url)
        body == Attr(e, "body")
    IN [SlackException(e) EXCEPT
          !.blocks = Optional(url, SlackTextBlock(3, text)),
          !.attachments = Optional(body, SlackCodeBlock(8, body))]

TaskError(e) ==
    LET message == SlackException(e)
        Part(name, heading) == Optional(Attr(e, name), SlackTextBlock(heading, Attr(e, name)))
        traceback == Attr(e, "traceback")
    IN [message EXCEPT
          !.fields = <<message.fields[1]>> \o Part("job_id", 10)
                       \o Part("started_at", 10) \o Tail(message.fields),
          !.blocks = Part("cause_type", 18) \o Part("detail", 6),
          !.attachments = Optional(traceback, SlackCodeBlock(9, traceback))]

DeserializeError(e) ==
    LET message == SlackException(e)
    IN [message EXCEPT
          !.fields = Append(@, SlackTextBlock(3, Attr(e, "key"))),
          !.blocks = <<SlackCodeBlock(5, Attr(e, "error"))>>]

Error_in == Words(9 + Application)

\* What SlackWebhookClient.post_exception posts.
post_exception(e) ==
    LET Reported(m) == [m EXCEPT !.message = Joined(Joined(Error_in, Words(2)), @)]
    IN CASE e.class = "SlackException" -> Reported(SlackException(e))
         [] e.class = "SlackWebException" -> Reported(SlackWebException(e))
         [] e.class = "TaskError" -> Reported(TaskError(e))
         [] e.class = "DeserializeError" -> Reported(DeserializeError(e))
         [] OTHER ->
              [message |-> Error_in, attachments |-> <<>>,
               fields |-> <<SlackTextBlock(14, e.name), SlackTextBlock(9, Date)>>,
               blocks |-> <<SlackCodeBlock(9, Joined(Joined(e.name, Words(2)), e.message))>>]

-----------------------------------------------------------------------------
VARIABLES
    _alert_client,  \* whether alerts are configured
    alerts          \* what each task is doing and posts

slack_vars == <<_alert_client, alerts>>

Quiet(pc) == [pc |-> pc, body |-> NoBody, raises |-> FALSE]

SlackInit ==
    /\ _alert_client = FALSE
    /\ alerts = [t \in Handlers |-> Quiet("idle")]

\* SlackRouteErrorHandler.initialize.
initialize_alerts ==
    /\ ~_alert_client
    /\ _alert_client' = TRUE
    /\ UNCHANGED alerts

post(t, message, raises) ==
    alerts' = [alerts EXCEPT ![t] =
        [pc |-> "posting", body |-> to_slack(message), raises |-> raises]]

Concludes(t, pc) == alerts' = [alerts EXCEPT ![t] = Quiet(pc)]

Ready(t) == alerts[t].pc # "posting"

\* An exception gets out of a route handler: it is posted, unless it is one of
\* those that clients cause, and goes on.
wrapped_route_handler(t, e) ==
    /\ Ready(t)
    /\ IF e.class \in _IGNORED_EXCEPTIONS \/ ~_alert_client THEN Concludes(t, "raised")
       ELSE post(t, post_exception(e), TRUE)
    /\ UNCHANGED _alert_client

With(e, name, value) ==
    [e EXCEPT !.attrs = [n \in DOMAIN @ \union {name} |-> IF n = name THEN value ELSE @[n]]]

Annotated(e) ==
    IF e.class = "TaskError"
      THEN With(With(With(e, "user", Owner), "job_id", JobId), "started_at", Date)
    ELSE IF e.class \in SlackExceptions THEN With(e, "user", Owner) ELSE e

\* The exception of a job is given its owner, and a TaskError its job; it ends
\* there.  report_exception posts it if the worker has a client for Slack, unless
\* it is the user's fault; what only a route ignores is posted.
_annotate_worker_error(t, slack, e) ==
    /\ Ready(t)
    /\ IF \/ e.class = "SlackIgnoredException" \/ ~slack
          \/ e.class = "TaskError" /\ e.slack_ignore
         THEN Concludes(t, "done")
       ELSE post(t, post_exception(Annotated(e)), FALSE)
    /\ UNCHANGED _alert_client

\* uws_job_started or uws_job_completed fails, with any exception: it is posted as
\* it is, and goes on.
uws_job_raises(t, slack, e) ==
    /\ Ready(t)
    /\ IF slack THEN post(t, post_exception(e), TRUE) ELSE Concludes(t, "raised")
    /\ UNCHANGED _alert_client

\* The service has something to say.
post_message(t, message) ==
    /\ Ready(t) /\ _alert_client
    /\ _validate_fields(message)
    /\ post(t, message, FALSE)
    /\ UNCHANGED _alert_client

\* Slack has the message, or the attempt failed and was logged.
posted(t) ==
    /\ alerts[t].pc = "posting"
    /\ \E reached \in BOOLEAN :
         Concludes(t, IF alerts[t].raises THEN "raised"
                 ELSE IF reached /\ Accepts(alerts[t].body) THEN "done" ELSE "logged")
    /\ UNCHANGED _alert_client

SlackNext ==
    \/ initialize_alerts
    \/ \E t \in Handlers :
         \/ \E e \in Exceptions :
              \/ wrapped_route_handler(t, e)
              \/ \E slack \in BOOLEAN :
                   _annotate_worker_error(t, slack, e) \/ uws_job_raises(t, slack, e)
         \/ \E m \in Messages : post_message(t, m)
         \/ posted(t)

SlackSpec == SlackInit /\ [][SlackNext]_slack_vars

-----------------------------------------------------------------------------
\* Properties

\* Slack never refuses an alert for its size, whatever texts it is made of and
\* wherever their newlines and escaped characters are; and no text is cut that
\* Slack would have accepted whole.
AlertsFit ==
    \A t \in Handlers : alerts[t].pc = "posting" =>
        /\ Accepts(alerts[t].body)
        /\ \A f \in alerts[t].body.fields : f.cut <=> f.needs > FieldLimit
        /\ \A s \in alerts[t].body.sections : s.cut <=> s.needs > Limit
=============================================================================
