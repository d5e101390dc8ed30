---------------------------- MODULE MCInterests ----------------------------
EXTENDS Interests
=============================================================================
