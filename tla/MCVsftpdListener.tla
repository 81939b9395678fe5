--------------------------- MODULE MCVsftpdListener ---------------------------
EXTENDS VsftpdListener

MCDefaults == [clients |-> 1, per_ip |-> 0]
MCLimits   == {MCDefaults, [clients |-> 0, per_ip |-> 1]}
===============================================================================
