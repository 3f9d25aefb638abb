----------------------------- MODULE MCLibrary -----------------------------
(* Small instances of the parts of the library.                              *)
EXTENDS Library, TLC

CONSTANTS m1, m2, p1, p2

-----------------------------------------------------------------------------
\* Values of the constants

Url(scheme, username) == [scheme |-> scheme, username |-> username]

\* External with a zero and an empty setting, without a username, with a
\* driver that is not async and null settings, and Cloud SQL with null ones.
MCConfigs == {
    [url |-> Url("postgresql", TRUE), password |-> "pw", pool_size |-> 0,
     isolation_level |-> ""],
    [url |-> Url("postgresql", FALSE), password |-> "pw"],
    [url |-> Url("mysql+pymysql", TRUE), password |-> None, pool_size |-> None],
    [type |-> "cloudsql", cloud |-> "yes", url |-> None,
     isolation_level |-> "REPEATABLE READ"]}

MCRev == p1 :> 1 @@ p2 :> 2

\* Two storages with a prefix, one of which encrypts, and a third with another.
\* A key looks like a prefix, and a key begins with another.
MCStorages == {[prefix |-> <<"a">>, codec |-> "plain"],
               [prefix |-> <<"a">>, codec |-> "fernet"],
               [prefix |-> <<"b">>, codec |-> "plain"]}
MCKeys == {<<"a">>, <<"a", "x">>}

\* The second process has a newer schema of one model, which the first cannot
\* follow, and the first has a model that Avro does not accept.
Model(name, schema) == [name |-> name, namespace |-> "ns", schema |-> schema]
MCModelsOf == m1 :> {Model("e", "v1"), Model("f-g", "v1")}
                @@ m2 :> {Model("e", "v2"), Model("f", "v1")}
MCSuffixOf == m1 :> "" @@ m2 :> ""
MCCompatibleBy ==
    [BACKWARD |-> {<<"v1", "v1">>, <<"v1", "v2">>, <<"v2", "v2">>},
     NONE |-> {"v1", "v2"} \X {"v1", "v2"}]

\* Texts about as long as what they may have, with newlines at the limits and a
\* character to escape.
T(len, newlines, special) == [len |-> len, newlines |-> newlines, special |-> special]
MCTexts ==
    {t \in {T(len, n, s) : len \in {20, 1990, 2950, 2990, 4000},
                           n \in {{}, {10}, {2965}, {10, 1970, 2968, 3000}},
                           s \in {{}, {5}, {5, 1985}}} : t \in Text}
    \union {Empty}

Exc(class, name, message, attrs) ==
    [class |-> class, name |-> name, message |-> message, attrs |-> attrs,
     slack_ignore |-> FALSE]
Some == Words(8)
MCOwner == T(2010, {10}, {1990})
MCJobId == Words(1)
MCExceptions ==
    {Exc(class, Some, Some, [user |-> Empty]) :
       class \in {"HTTPException", "SlackIgnoredException"}}
    \union {Exc("other", Some, t, [user |-> Empty]) : t \in MCTexts}
    \union {Exc("SlackException", t, Some, [user |-> t]) : t \in MCTexts}
    \union {Exc("SlackException", Some, t, [user |-> Empty]) : t \in MCTexts}
    \union {Exc("SlackWebException", Some, Some,
                [user |-> Some, method |-> m, url |-> t, body |-> t]) :
              m \in {Empty, Words(4)}, t \in MCTexts}
    \union {[Exc("TaskError", Some, Some,
                 [user |-> Empty, cause_type |-> Some, detail |-> t, traceback |-> t])
               EXCEPT !.slack_ignore = ignore] :
              t \in MCTexts, ignore \in BOOLEAN}
    \union {Exc("DeserializeError", Some, Some, [user |-> Empty, key |-> t, error |-> t]) :
              t \in MCTexts}
MCMessages ==
    {[message |-> t, fields |-> [i \in 1..n |-> SlackCodeBlock(4, t)],
      blocks |-> <<SlackCodeBlock(1971, t)>>, attachments |-> <<>>] :
       t \in MCTexts, n \in {0, 10, 11}}

\* A maker that gives a name twice.  A payload may be null; a pattern is a
\* payload, NOT_NONE or ANY.
MCMakers == {<<"e">>, <<"e", "e">>}
MCPayloads == {"null", "a", "b"}
MCPatterns == {{"null"}, {"a"}, {"b"}, {"a", "b"}, MCPayloads}
=============================================================================
