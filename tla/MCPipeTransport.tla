--------------------------- MODULE MCPipeTransport ---------------------------
EXTENDS PipeTransport
=============================================================================
