------------------------------ MODULE MCSkipMap ------------------------------
EXTENDS SkipMap

CONSTANTS v1, v2

\* keys above K::default()
MCKeys    == {1, 2, 3}
\* every key of K, K::default() with them
MCAllKeys == {0, 1, 2}
MCValues  == {v1, v2}
=============================================================================
