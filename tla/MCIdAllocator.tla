---------------------------- MODULE MCIdAllocator ----------------------------
\* Two threads and so few numbers that every counter wraps.
EXTENDS IdAllocator

CONSTANTS t1, t2

MCThreads == {t1, t2}
=============================================================================
