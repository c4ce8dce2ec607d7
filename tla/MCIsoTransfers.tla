--------------------------- MODULE MCIsoTransfers ----------------------------
EXTENDS IsoTransfers
=============================================================================
