\* The whole life of one server.
SPECIFICATION Spec
INVARIANT StopKillsChildThreads
CHECK_DEADLOCK FALSE
