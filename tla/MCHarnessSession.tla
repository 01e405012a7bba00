-------------------------- MODULE MCHarnessSession --------------------------
EXTENDS HarnessSession, TLC
=============================================================================
