--------------------------- MODULE MCEventWorker ---------------------------
(* EventWorker on two device ids that two physical devices share; a burst   *)
(* is two devices in one window.                                            *)
EXTENDS EventWorker

MCResyncThreshold == 2
MCQuietWindow == 1
MCMaxLatency == 2
MCChannelCapacity == 2
=============================================================================
