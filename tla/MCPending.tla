----------------------------- MODULE MCPending -----------------------------
\* One attended sweep, one scheduled one and the observer.
EXTENDS Pending, TLC

CONSTANTS a, u
OneAttended == {a}
OneScheduled == {u}
=============================================================================
