----------------------------- MODULE MCLoomStore -----------------------------
EXTENDS LoomStore
=============================================================================
