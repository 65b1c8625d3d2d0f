---------------------------- MODULE MCRequestLog ----------------------------
EXTENDS RequestLogProps

AllFaults == {"db", "lost answer", "store", "crash"}
=============================================================================
