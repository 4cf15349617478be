------------------------------ MODULE MCListings ------------------------------
EXTENDS Listings

CONSTANTS u1, u2

Users == {u1, u2}
Readers == {u1}

=============================================================================
