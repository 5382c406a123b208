----------------------------- MODULE MCUrbPath -----------------------------
EXTENDS UrbPath, TLC

\* Three URBs, so that a URB too large can be requeued behind two others.
MCMaxUrbs == 3
\* Driver device 1 was attached from the client's device 2; driver device 2
\* is tracked by no session; driver device 3 from the client's device 3.
MCDrvDevs == {1, 2, 3}
MCBinding == (1 :> 2) @@ (2 :> 0) @@ (3 :> 3)
MCLocalIds == {2, 3}
\* The client also still has the device it enumerated first.
MCLocalIdsAll == {1, 2, 3}
=============================================================================
