---------------------------- MODULE MC_SidecarRun ----------------------------
EXTENDS SidecarRun, TLC

\* Two core checks stand for the six of run_all: they are handled alike.
MCChecks == {"boot", "dns"}

\* The selftest modules are interchangeable.
MCSymmetry == Permutations(Modules)

=============================================================================
