---------------------------- MODULE MCMediaRelay ----------------------------
(* The relay together with a history variable, which the condition of       *)
(* QuietRepaired needs: it is no property of the behaviours in which the    *)
(* playback stops or a pane is shown again at once.                         *)
EXTENDS MediaRelay

VARIABLE steady     \* whether every step so far was steady

\* The producer plays before its first record is ingested, and does not pause.
PlaysThroughout ==
    /\ srv.playing \/ srv'.last = 0
    /\ control'.do # "pause"

\* A pane is shown again only once the client has removed its source, or
\* before its hiding was published.
HidingApplied ==
    ~srv.visible /\ srv'.visible /\ srv.attached
    => \/ srv.projected
       \/ ~worker.active /\ to_client = <<>> /\ client.snapshot = None

HistoryInit == Init /\ steady = TRUE
HistoryNext == Next /\ steady' = (steady /\ PlaysThroughout /\ HidingApplied)
HistorySpec == HistoryInit /\ [][HistoryNext]_<<vars, steady>>

\* While a source plays and stays shown, every record lost on the way leads
\* to a keyframe that repairs the decoder once everything has come to rest
\* (next_video_recovery in media.rs, the recovery of the bridge worker).
SteadyRepaired == steady => QuietRepaired
=============================================================================
