---------------------------- MODULE MCNvOptions ----------------------------
\* TLC instances of the NV options: the default and one or two other contents.
EXTENDS NvOptions
=============================================================================
