------------------------------- MODULE MCNpc -------------------------------
EXTENDS Npc
=============================================================================
