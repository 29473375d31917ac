------------------------------- MODULE MCRsc -------------------------------
EXTENDS Rsc
MCRevs == {2, 3, 4}
=============================================================================
