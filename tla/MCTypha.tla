------------------------------ MODULE MCTypha ------------------------------
EXTENDS TyphaSync
============================================================================
