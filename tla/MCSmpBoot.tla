------------------------------ MODULE MCSmpBoot ------------------------------
EXTENDS SmpBoot
=============================================================================
