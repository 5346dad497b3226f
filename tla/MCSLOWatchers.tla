---------------------------- MODULE MCSLOWatchers ----------------------------
(* Two sinks, the first with two SLOs: callbacks of one thread follow each *)
(* other, those of two threads overlap.                                    *)
EXTENDS SLOWatchers

CONSTANTS s1, s2, s3

MCsinks == << <<s1, s2>>, <<s3>> >>
=============================================================================
