---------------------------- MODULE MCBridgeConf ----------------------------
EXTENDS BridgeConf
=============================================================================
