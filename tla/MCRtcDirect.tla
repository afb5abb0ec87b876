----------------------------- MODULE MCRtcDirect -----------------------------
EXTENDS RtcDirect, TLC

\* GPE 0x6D and another event.
MCGpes == {109, 105}

\* Banks of two bytes: sizes below, at and above the two of them.
MCSizes == {0, 1, 2, 4, 5}
=============================================================================
