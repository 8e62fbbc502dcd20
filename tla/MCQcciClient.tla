---------------------------- MODULE MCQcciClient ----------------------------
EXTENDS QcciClientInv

CONSTANTS t1, t2, s1, s2
=============================================================================
