----------------------------- MODULE MCServerPool -----------------------------
EXTENDS NcServerPool
==============================================================================
