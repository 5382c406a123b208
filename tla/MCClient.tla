------------------------------ MODULE MCClient ------------------------------
EXTENDS Client, TLC

\* The simple client issues every command; the enhanced client's user only
\* detaches, while the forwarder writes SUBMIT_URB frames.
MCCommandsOf == [simple |-> {"attach", "detach", "list", "ping"}, enhanced |-> {"detach"}]
MCUrbsOf == [simple |-> 0, enhanced |-> 2]
\* The enhanced client as written: ping, and no forwarder running.
MCCommandsPing == [simple |-> {}, enhanced |-> {"ping"}]
MCUrbsNone == [simple |-> 0, enhanced |-> 0]
\* The simple client: a detach, then a list.
MCCommandsDetachList == [simple |-> {"detach", "list"}, enhanced |-> {}]
=============================================================================
