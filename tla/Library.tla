------------------------------ MODULE Library ------------------------------
(***************************************************************************)
(* The parts of the library that a service uses one by one: they share no  *)
(* state.  One of them is chosen and runs alone, so that the behaviours    *)
(* are those of each, and not their interleavings.                         *)
(***************************************************************************)
EXTENDS Pagination, MockArqQueue, DatabaseEngines, DatabaseSchema, RedisStorage,
        SchemaManager, SlackAlerts, MetricsMocks

VARIABLE part

library_vars == <<pagination_vars, mock_vars, engines_vars, schema_vars, redis_vars,
                  kafka_vars, slack_vars, metrics_vars, part>>

LibraryInit ==
    /\ part \in {"pagination", "mock", "engines", "schema", "redis", "kafka", "slack",
                "metrics"}
    /\ PaginationInit /\ MockInit /\ EnginesInit /\ SchemaInit /\ RedisInit
    /\ KafkaInit /\ SlackInit /\ MetricsInit

LibraryNext ==
    /\ UNCHANGED part
    /\ \/ /\ part = "pagination" /\ PaginationNext
          /\ UNCHANGED <<mock_vars, engines_vars, schema_vars, redis_vars,
                         kafka_vars, slack_vars, metrics_vars>>
       \/ /\ part = "mock" /\ MockNext
          /\ UNCHANGED <<pagination_vars, engines_vars, schema_vars, redis_vars,
                         kafka_vars, slack_vars, metrics_vars>>
       \/ /\ part = "engines" /\ EnginesNext
          /\ UNCHANGED <<pagination_vars, mock_vars, schema_vars, redis_vars,
                         kafka_vars, slack_vars, metrics_vars>>
       \/ /\ part = "schema" /\ SchemaNext
          /\ UNCHANGED <<pagination_vars, mock_vars, engines_vars, redis_vars,
                         kafka_vars, slack_vars, metrics_vars>>
       \/ /\ part = "redis" /\ RedisNext
          /\ UNCHANGED <<pagination_vars, mock_vars, engines_vars, schema_vars,
                         kafka_vars, slack_vars, metrics_vars>>
       \/ /\ part = "kafka" /\ KafkaNext
          /\ UNCHANGED <<pagination_vars, mock_vars, engines_vars, schema_vars,
                         redis_vars, slack_vars, metrics_vars>>
       \/ /\ part = "slack" /\ SlackNext
          /\ UNCHANGED <<pagination_vars, mock_vars, engines_vars, schema_vars,
                         redis_vars, kafka_vars, metrics_vars>>
       \/ /\ part = "metrics" /\ MetricsNext
          /\ UNCHANGED <<pagination_vars, mock_vars, engines_vars, schema_vars,
                         redis_vars, kafka_vars, slack_vars>>

LibrarySpec == LibraryInit /\ [][LibraryNext]_library_vars

\* Type correctness of every part, whichever runs.
LibraryTypeOK ==
    /\ PaginationTypeOK /\ MockTypeOK /\ EnginesTypeOK
    /\ SchemaTypeOK /\ RedisTypeOK /\ KafkaTypeOK /\ MetricsTypeOK
=============================================================================
