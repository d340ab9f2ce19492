--------------------------- MODULE MCDailySizeSink ---------------------------
(* Instances of DailySizeSink for TLC.                                     *)
EXTENDS DailySizeSink

\* One size limit; the number of backups changes from sink to sink.
SizeConfigs == [maxSize: {2}, maxFiles: {1}, rotateOnOpen: {TRUE}]
               \cup [maxSize: {2}, maxFiles: {2}, rotateOnOpen: {FALSE}]

\* Into and out of daylight saving time, and neither.
AnyShift == {-1, 0, 1}
=============================================================================
