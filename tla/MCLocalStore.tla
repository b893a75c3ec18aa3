---------------------------- MODULE MCLocalStore ----------------------------
EXTENDS LocalStore
=============================================================================
