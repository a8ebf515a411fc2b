------------------------------ MODULE MCNetwork ------------------------------
EXTENDS Network

CONSTANTS lis, tcp, tls, udp
=============================================================================
