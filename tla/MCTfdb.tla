------------------------------- MODULE MCTfdb -------------------------------
EXTENDS Tfdb
CONSTANTS a, b
MCValues == {a, b}
=============================================================================
