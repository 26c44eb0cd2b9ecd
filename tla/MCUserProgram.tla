---------------------------- MODULE MCUserProgram ----------------------------
EXTENDS UserProgram, TLC

\* main() exits with 42 only; no process gets there (ChildBranchDead).
MCExitStatuses == {42}
============================================================================
