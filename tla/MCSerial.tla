------------------------------ MODULE MCSerial ------------------------------
EXTENDS Serial, TLC

=============================================================================
