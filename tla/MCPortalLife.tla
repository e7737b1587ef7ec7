----------------------------- MODULE MCPortalLife -----------------------------
EXTENDS PortalLife
=============================================================================
