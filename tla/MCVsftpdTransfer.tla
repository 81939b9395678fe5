--------------------------- MODULE MCVsftpdTransfer ---------------------------
EXTENDS VsftpdTransfer
===============================================================================
