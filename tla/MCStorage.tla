------------------------------ MODULE MCStorage ------------------------------
EXTENDS Storage

CONSTANTS m1, m2, m3, l1

MCArrivals == <<m1, m2, m3>>
MCLog == {l1}
=============================================================================
