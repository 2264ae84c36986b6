------------------------------ MODULE MCWanIp ------------------------------
EXTENDS WanIp

CONSTANTS ip1, ip2, e1, h1, r1, r2
=============================================================================
