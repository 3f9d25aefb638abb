------------------------------ MODULE MCUWSApi ------------------------------
EXTENDS UWSApi, TLC

EveryRoute == AllRoutes
OneStepRoutes == TextRoutes \union {"list", "availability"}
SyncRoutes == {"sync"}
StartRoutes == {"create", "post_execution_duration", "post_phase"}
NoRoutes == {}
SomeWaits == {-1}
SomeDurations == {-1, 0, 3}
\* What a step depends on: nothing reads the last answer.
StepState == <<jobs, created, sent, req, validators, faults>>
Symmetry == Permutations(Requests)
=============================================================================
