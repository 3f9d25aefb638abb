--------------------------- MODULE MCEventManager ---------------------------
(* EventManager, with what the application lets overlap.                     *)
EXTENDS EventManager

\* Only publishes overlap: publishers are created while nothing else goes on.
PublishesOverlap == {"publish"}
CreatesOverlap == {"publish", "create"}
=============================================================================
