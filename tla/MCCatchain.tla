----------------------------- MODULE MCCatchain -----------------------------
EXTENDS Catchain
=============================================================================
