--------------------------- MODULE MCStreamSender ---------------------------
(* StreamSender with one collector thread, which collects all charts.      *)
EXTENDS StreamSender

CONSTANT collector

MCCollectors == {collector}
MCCollectorOf == [c \in 1 .. NumCharts |-> collector]

=============================================================================
