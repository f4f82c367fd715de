-------------------------- MODULE MCDeadLetterQueue -------------------------
\* Dead jobs retried, deleted and purged by two requests at a time.
EXTENDS DeadLetterQueue

CONSTANTS j1, j2, j3, r1, r2
=============================================================================
