---------------------------- MODULE MCConversion ----------------------------
EXTENDS Conversion

MCStickEnds == {-32768, -20000, -1, 0, 20000, 32767}
MCZones == {1, 20, 98, 99, 100}
=============================================================================
