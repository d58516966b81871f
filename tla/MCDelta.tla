------------------------------- MODULE MCDelta -------------------------------
EXTENDS DeltaSerializer

\* Two values of one length, and one of another.
MCVarValues == {<<1, 0>>, <<1, 1>>, <<2, 0>>}
=============================================================================
