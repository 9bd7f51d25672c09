------------------------- MODULE MCDeviceOperations -------------------------
(* DeviceOperations with the smallest channel; the durations play no part.  *)
EXTENDS DeviceOperations, TLC

MCQuietWindow == 1
MCMaxLatency == 1
MCResyncThreshold == 2
MCChannelCapacity == 1

Symmetry == Permutations(Ops) \cup Permutations(Descriptions)
=============================================================================
