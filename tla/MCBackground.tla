---------------------------- MODULE MCBackground ----------------------------
EXTENDS Background

CONSTANTS t1, t2

MCApps == {t1, t2}
MCCalls == [t \in MCApps |-> IF t = t1 THEN {"switch", "max", "create"}
                                       ELSE {"reset", "free"}]
=============================================================================
