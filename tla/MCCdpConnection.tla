-------------------------- MODULE MCCdpConnection --------------------------
EXTENDS CdpConnection
=============================================================================
