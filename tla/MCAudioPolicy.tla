--------------------------- MODULE MCAudioPolicy ----------------------------
EXTENDS AudioPolicy

Lite == {"EQ", "RX_IIR"}
NoFilters == [d \in PostProcDevice |-> {}]
=============================================================================
