--------------------------- MODULE MCTimeoutCodec ---------------------------
\* TimeoutCodec with small constants for TLC.
EXTENDS TimeoutCodec
=============================================================================
