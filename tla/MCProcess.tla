------------------------------ MODULE MCProcess ------------------------------
EXTENDS Process

CONSTANTS init, p1, p2
=============================================================================
