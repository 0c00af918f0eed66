------------------------------ MODULE MCSessions ------------------------------
EXTENDS Sessions
=============================================================================
