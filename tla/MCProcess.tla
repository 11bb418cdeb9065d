----------------------------- MODULE MCProcess -----------------------------
EXTENDS Process
=============================================================================
