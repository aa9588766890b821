------------------------------ MODULE MCEventLog ------------------------------
EXTENDS EventLog

CONSTANTS look, buy, refund

MCSource == <<look, buy, refund>>
MCPartitionOf(e) == IF e = look THEN 0 ELSE 1

=============================================================================
