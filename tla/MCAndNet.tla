------------------------------ MODULE MCAndNet ------------------------------
EXTENDS AndNet
=============================================================================
