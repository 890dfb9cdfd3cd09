---------------------------- MODULE MCVssFreeze ----------------------------
\* Small instances of VssFreeze for TLC.
EXTENDS VssFreeze
=============================================================================
