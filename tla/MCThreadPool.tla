---------------------------- MODULE MCThreadPool ----------------------------
EXTENDS ThreadPool, TLC

CONSTANTS u1, u2

MCUsers == {u1, u2}
=============================================================================
