--------------------------- MODULE MC_TestbedSplunk ---------------------------
EXTENDS TestbedSplunk
=============================================================================
