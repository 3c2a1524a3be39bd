---------------------------- MODULE MCSignalChain ----------------------------
EXTENDS SignalChain
=============================================================================
