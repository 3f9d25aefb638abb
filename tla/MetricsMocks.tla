---------------------------- MODULE MetricsMocks ----------------------------
(***************************************************************************)
(* Metrics where nothing is sent: how the configuration chooses an event   *)
(* manager (src/safir/metrics/_config.py), the mock and the no-op manager  *)
(* with their publishers (_event_manager.py), EventDependency, through     *)
(* which an application gets at its publishers (dependencies/metrics.py),  *)
(* and the assertions of tests about what was published (_testing.py).     *)
(* The manager that talks to Kafka is EventManager.                        *)
(*                                                                         *)
(* What a test expects of a payload may be a value of it, ANY or NOT_NONE: *)
(* a pattern is the set of payloads that it is equal to.                   *)
(***************************************************************************)
EXTENDS Naturals, Sequences

CONSTANTS
    Makers,         \* sequences of event names that event makers create
                    \* publishers for
    Payloads,
    Patterns,
    MaxPublished,   \* a bound on how much is published through a publisher
    MaxExpected     \* a bound on how much a test expects

ASSUME MetricsAssumption ==
    /\ \A pattern \in Patterns : pattern \subseteq Payloads
    /\ \A maker \in Makers : Len(maker) \in Nat /\ DOMAIN maker = 1..Len(maker)
    /\ MaxPublished \in Nat /\ MaxExpected \in Nat

EventNames == UNION {{maker[i] : i \in DOMAIN maker} : maker \in Makers}

VARIABLES
    manager,    \* its kind, whether it is initialized, the names it has
    events      \* EventDependency: whether it is initialized, and the list
                \* that each name's publisher has recorded

metrics_vars == <<manager, events>>

Absent == [there |-> FALSE, kind |-> "none", published |-> <<>>]

MetricsInit ==
    /\ manager = [kind |-> "none", initialized |-> FALSE, publishers |-> {}]
    /\ events = [initialized |-> FALSE, publishers |-> [n \in EventNames |-> Absent]]

-----------------------------------------------------------------------------
\* Configuration, from the environment variables METRICS_ENABLED and
\* METRICS_MOCK

Settings == {"unset", "true", "false"}

MockMetricsConfiguration(enabled, mock) == enabled = "false" /\ mock = "true"
DisabledMetricsConfiguration(enabled) == enabled = "false"

\* The first of the three models that the settings are valid for.
metrics_configuration_factory(enabled, mock) ==
    IF MockMetricsConfiguration(enabled, mock) THEN "mock"
    ELSE IF DisabledMetricsConfiguration(enabled) THEN "noop"
    ELSE "kafka"

make_manager ==
    /\ manager.kind = "none"
    /\ \E enabled, mock \in Settings :
         manager' = [manager EXCEPT !.kind = metrics_configuration_factory(enabled, mock)]
    /\ UNCHANGED events

Sends == manager.kind \in {"none", "kafka"}

-----------------------------------------------------------------------------
\* Managers and publishers

initialize_manager ==
    /\ ~Sends
    /\ manager' = [manager EXCEPT !.initialized = TRUE]
    /\ UNCHANGED events

\* EventManager.aclose: publishers that the application has stay as they are.
close_manager ==
    /\ ~Sends
    /\ manager' = [manager EXCEPT !.initialized = FALSE, !.publishers = {}]
    /\ UNCHANGED events

\* How many publishers a maker creates until one is refused: all of them are if
\* the manager is not initialized, and so is a name that is taken.
Created_by(maker) ==
    LET Fresh(i) == maker[i] \notin manager.publishers
                       /\ \A j \in 1..(i - 1) : maker[j] # maker[i]
        counts == {k \in 0..Len(maker) : \A i \in 1..k : Fresh(i)}
    IN IF ~manager.initialized THEN 0
       ELSE CHOOSE k \in counts : \A l \in counts : l <= k

\* EventDependency.initialize.  What the maker created before it was refused
\* stays with it, and the dependency is as it was.
initialize_events(maker) ==
    LET names == {maker[i] : i \in 1..Created_by(maker)}
    IN /\ ~Sends
       /\ manager' = [manager EXCEPT !.publishers = @ \union names]
       /\ events' =
            [initialized |-> events.initialized \/ Created_by(maker) = Len(maker),
             publishers |-> [n \in EventNames |->
                 IF n \in names
                   THEN [there |-> TRUE, kind |-> manager.kind, published |-> <<>>]
                 ELSE events.publishers[n]]]

\* A request gets at the publishers once the dependency is initialized.  The
\* mock publisher records the payload, the other does not.
publish_event(name, payload) ==
    LET publisher == events.publishers[name]
    IN /\ events.initialized /\ publisher.there
       /\ Len(publisher.published) < MaxPublished
       /\ events' = [events EXCEPT !.publishers[name].published =
                       IF publisher.kind = "mock" THEN Append(@, payload) ELSE @]
       /\ UNCHANGED manager

-----------------------------------------------------------------------------
\* PublishedList

\* Mutant: one event will do for all that it is equal to.
CheckEachAlone(published, expected) ==
    \A n \in DOMAIN expected : \E i \in DOMAIN published : published[i] \in expected[n]

\* An expected item takes the first event away that it is equal to, of those
\* that are left; without one it is not found.
remove(published, pattern, prev) ==
    LET hits == {i \in prev.left : published[i] \in pattern}
        first == CHOOSE i \in hits : \A j \in hits : i <= j
    IN IF hits = {} THEN [left |-> prev.left, found |-> FALSE]
       ELSE [left |-> prev.left \ {first}, found |-> prev.found]

_check_unordered(published, expected) ==
    LET after[n \in 0..Len(expected)] ==
            IF n = 0 THEN [left |-> DOMAIN published, found |-> TRUE]
            ELSE remove(published, expected[n], after[n - 1])
    IN after[Len(expected)].found

_check_ordered(published, expected) ==
    \E i \in 0..(Len(published) - Len(expected)) :
        \A n \in DOMAIN expected : published[i + n] \in expected[n]

\* The unordered check comes first, to tell the two errors apart.
assert_published(published, expected, any_order) ==
    IF Len(expected) > Len(published) THEN "PublishedTooFewError"
    ELSE IF ~_check_unordered(published, expected) THEN "NotPublishedError"
    ELSE IF ~any_order /\ ~_check_ordered(published, expected)
      THEN "NotPublishedConsecutivelyError"
    ELSE "passed"

assert_published_all(published, expected, any_order) ==
    IF Len(expected) # Len(published) THEN "PublishedCountError"
    ELSE assert_published(published, expected, any_order)

-----------------------------------------------------------------------------
MetricsNext ==
    \/ make_manager \/ initialize_manager \/ close_manager
    \/ \E maker \in Makers : initialize_events(maker)
    \/ \E name \in EventNames, payload \in Payloads : publish_event(name, payload)

MetricsSpec == MetricsInit /\ [][MetricsNext]_metrics_vars

-----------------------------------------------------------------------------
\* Properties

MetricsTypeOK ==
    /\ manager \in [kind : {"none", "mock", "noop", "kafka"}, initialized : BOOLEAN,
                    publishers : SUBSET EventNames]
    /\ events.initialized \in BOOLEAN
    /\ \A name \in EventNames :
         LET publisher == events.publishers[name]
         IN /\ publisher.kind \in {"none", "mock", "noop"}
            /\ publisher.there <=> publisher.kind # "none"
            /\ publisher.published \in Seq(Payloads)
            /\ publisher.kind # "mock" => publisher.published = <<>>

\* The expected items are different events.
Assigns(f, published, expected) ==
    /\ \A m, n \in DOMAIN f : f[m] = f[n] => m = n
    /\ \A n \in DOMAIN f : published[f[n]] \in expected[n]

\* A pattern that has payloads in common with a later one is no wider: ANY and
\* NOT_NONE come after the values.
NarrowFirst(expected) ==
    \A m, n \in DOMAIN expected :
        m < n /\ expected[m] \intersect expected[n] # {} => expected[m] \subseteq expected[n]

\* Whatever a test asserts of what a mock publisher recorded: an assertion
\* about events in order passes if and only if they are there side by side,
\* although the check without order comes first and takes events away greedily,
\* whatever the patterns are equal to.  One without order passes only if the
\* expected items can be told to be different events, and whenever they can if
\* narrow patterns come first.  (In another order it may fail, because ANY may take
\* the event that a later item needs.)  This is what the code means by any_order
\* and what the tests use it for; _testing.py:142-144 and 184-187 say the opposite.
AssertionsMean ==
    \A name \in EventNames : events.publishers[name].kind = "mock" =>
      \A k \in 0..MaxExpected : \A expected \in [1..k -> Patterns] :
        LET published == events.publishers[name].published
            n == Len(published)
            assigned == \E f \in [1..k -> 1..n] : Assigns(f, published, expected)
            consecutive == \E i \in 0..(n - k) :
                               Assigns([j \in 1..k |-> i + j], published, expected)
            in_order == assert_published(published, expected, FALSE)
            unordered == assert_published(published, expected, TRUE)
        IN /\ in_order = "passed" <=> consecutive
           /\ unordered = "passed" => assigned
           /\ NarrowFirst(expected) /\ assigned => unordered = "passed"
           /\ in_order = "NotPublishedConsecutivelyError" => assigned /\ ~consecutive
           /\ assert_published_all(published, expected, FALSE) = "passed"
                <=> consecutive /\ k = n
           /\ assert_published_all(published, expected, TRUE) = "passed"
                <=> unordered = "passed" /\ k = n
=============================================================================
