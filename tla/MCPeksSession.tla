--------------------------- MODULE MCPeksSession ----------------------------
EXTENDS PeksSession, MCField
=============================================================================
