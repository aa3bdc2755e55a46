--------------------------- MODULE MCMqttRequests ---------------------------
EXTENDS MqttRequests
MCOps == {"AddPackage", "RemovePackage"}
MCTidy == {"AddPackage"}
=============================================================================
