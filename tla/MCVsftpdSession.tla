--------------------------- MODULE MCVsftpdSession ---------------------------
EXTENDS VsftpdSession
===============================================================================
