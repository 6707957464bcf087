\* Whether an installation that is answered with success leaves a service that can run.
SPECIFICATION Spec
INVARIANT RegisteredServiceRuns
CHECK_DEADLOCK FALSE
