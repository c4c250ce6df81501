------------------------------ MODULE MCNames ------------------------------
\* Instances of Names.
EXTENDS Names
=============================================================================
