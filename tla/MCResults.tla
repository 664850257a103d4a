----------------------------- MODULE MCResults -----------------------------
EXTENDS Results

CONSTANTS h1, h2, k1, k2

MCHosts == {h1, h2}
MCKeys == {k1, k2}

=============================================================================
