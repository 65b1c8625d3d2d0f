---------------------------- MODULE MCConfigSync ----------------------------
EXTENDS ConfigSyncProps

NoFaults  == {}
AllFaults == {"load", "publish", "channel"}
=============================================================================
