--------------------------- MODULE MCUtilityHook ---------------------------
EXTENDS UtilityHook
=============================================================================
