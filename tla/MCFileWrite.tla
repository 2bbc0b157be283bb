---------------------------- MODULE MCFileWrite ----------------------------
EXTENDS FileWrite
CONSTANTS h1, h2
MCPoolThreads == {h1, h2}
MCSeeks == {0}
=============================================================================
