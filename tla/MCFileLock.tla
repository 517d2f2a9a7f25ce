------------------------------ MODULE MCFileLock ------------------------------
\* FileLock for TLC: a few processes, one of which may run with --no-lock.
EXTENDS FileLock
===============================================================================
