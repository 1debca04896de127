------------------------------- MODULE Content_MC -------------------------------
(* Values for the runs of Content: buffers that end within packets, packets    *)
(* of which two are not video.                                                 *)
EXTENDS Content, TLC

MCSizes == <<3, 1, 4, 6>>
MCPackets == <<"video", "other", "video", "video", "video", "other", "video">>
=================================================================================
