-------------------------- MODULE MC_RendezvousHost --------------------------
(* Small instances of RendezvousHost for TLC.                              *)
EXTENDS RendezvousHost

CONSTANTS n1, p1

\* Outsider frames reaching the daemon: undecodable datagrams, replays of
\* the node's own frame, a foreign peer's signed frame.
MCHostEnvFrames ==
    {Malformed, [id |-> p1, desc |-> 1, sig |-> 1]}
    \cup {[id |-> n, desc |-> 1, sig |-> 1] : n \in Nodes}

\* Frames reaching a discover socket: undecodable datagrams and a foreign
\* peer's frame, which may be repeated.
MCClientFrames == {Malformed, [id |-> p1, desc |-> 1, sig |-> 1]}

=============================================================================
