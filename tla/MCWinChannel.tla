---------------------------- MODULE MCWinChannel ----------------------------
\* Small instances of WinChannel for TLC.
EXTENDS WinChannel
=============================================================================
