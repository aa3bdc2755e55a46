-------------------------- MODULE MCMonitorVariable -------------------------
EXTENDS MonitorVariable
CONSTANTS r1, r2
MCReaders == {r1, r2}
=============================================================================
