--------------------------- MODULE MCChannelCache ---------------------------
\* A small instance of ChannelCache: the values of the configuration suffice.
EXTENDS ChannelCache
=============================================================================
