---------------------------- MODULE MCH2Multiplex ----------------------------
(* Instances of H2Multiplex for TLC. *)
EXTENDS H2Multiplex, TLC
\* Request bodies of a batch: BodyLen[i] is the length of the i-th.
OneUpload == <<2, 0>>
TwoUploads == <<2, 1>>
\* What a pooled connection has left: as much as a fresh one, or as little as can be.
FreshWindows == {[mfs |-> MinFrameSize, send |-> DefaultWindow, recv |-> OurInitialWindow]}
UsedWindows == FreshWindows \cup {[mfs |-> MaxFrameSize, send |-> 0, recv |-> OurInitialWindow \div 2]}
=============================================================================
