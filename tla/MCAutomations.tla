---------------------------- MODULE MCAutomations ----------------------------
EXTENDS Automations, TLC
AutomationsSymmetry == Permutations(AutoWindows) \cup Permutations(Items)
=============================================================================
