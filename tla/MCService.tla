----------------------------- MODULE MCService -----------------------------
EXTENDS ServiceProps
=============================================================================
