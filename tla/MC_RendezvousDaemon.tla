------------------------- MODULE MC_RendezvousDaemon -------------------------
(* Small instances of RendezvousDaemon for TLC.                            *)
EXTENDS RendezvousDaemon

CONSTANTS n1, n2, p1, p2, bad

\* Outsider frames: undecodable datagrams, a descriptor without node_id,
\* replays or loopback of a node's own frame, and two foreign peers whose
\* frames come with and without a signature.
MCEnvFrames ==
    {Malformed,
     [id |-> NoId, desc |-> 1, sig |-> NoSig]}
    \cup {[id |-> n, desc |-> 1, sig |-> 1] : n \in Nodes}
    \cup {[id |-> i, desc |-> 1, sig |-> s] : i \in ForeignIds, s \in {1, NoSig}}
    \cup {[id |-> i, desc |-> 1, sig |-> Forged] : i \in BadIds}

\* Outsider frames of the mesh runs: undecodable datagrams and replays of
\* a node's own frame; the rest of the traffic is between the daemons.
MCMeshEnvFrames ==
    {Malformed} \cup {[id |-> n, desc |-> 1, sig |-> 1] : n \in Nodes}

=============================================================================
