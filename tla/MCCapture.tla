----------------------------- MODULE MCCapture ------------------------------
EXTENDS Capture, TLC

\* Two devices, plugged in before the client starts, with different
\* VID/PIDs; SUBMIT_URB and info/attach name their LocalIds or an id no
\* slot has.
MCOrder == <<"kbd", "disk">>
MCVidPid == ("kbd" :> 1) @@ ("disk" :> 2)
=============================================================================
