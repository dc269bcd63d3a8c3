-------------------------- MODULE MCClientSession --------------------------
EXTENDS ClientSession

BothInputs == BOOLEAN
CallsLive == {"pause", "resume", "finish", "cancel", "text"}
CallsImport == {"finish", "cancel", "text", "update"}
=============================================================================
