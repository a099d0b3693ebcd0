---------------------------- MODULE MC_CsvWriter ----------------------------
EXTENDS CsvWriter

CONSTANTS t1, t2

MCTypes == {t1, t2}
=============================================================================
