--------------------------- MODULE MCReceiverLoop ---------------------------
EXTENDS ReceiverLoop
=============================================================================
