--------------------------- MODULE RendezvousHost ---------------------------
(***************************************************************************)
(* A mesh node runs rendezvousd and, at any time, one-shot invocations of  *)
(* rendezvous-client (rendezvous-client.py) on the same host.  The client  *)
(* derives the current slot's endpoint exactly as the daemon does, adds    *)
(* the same address to the same interface ("exists" counts as success)     *)
(* and removes it in a finally clause.  "broadcast" sends the descriptor   *)
(* and signature read from disk at that moment; "discover" binds the       *)
(* endpoint and collects every descriptor that arrives until its timeout;  *)
(* "status" prints the current and the next three endpoints.               *)
(*                                                                         *)
(* Datagrams reach the client's discover socket from outside the modelled  *)
(* daemons (CEnvFrames); a daemon frame taken by the client instead of a   *)
(* daemon is, for the daemons, a lost datagram ("loss").                   *)
(***************************************************************************)
EXTENDS RendezvousDaemon, Sequences

CONSTANTS
    ClientNodes,    \* hosts on which rendezvous-client is invoked
    MaxClientRuns,  \* bound on client invocations, over all hosts
    MaxFound,       \* bound on the descriptors one discover collects
    CEnvFrames,     \* decoded frames that may reach a discover socket
    Undecodable     \* a datagram whose payload is not a UTF-8 JSON object

ASSUME HostAssumption ==
    /\ ClientNodes \subseteq Nodes
    /\ MaxClientRuns \in Nat
    /\ MaxFound \in Nat
    /\ CEnvFrames \subseteq Frames

VARIABLES
    cpc,    \* client phase: "off", "cast" (address added, broadcast next),
            \* "disc" (address added, bind next), "recv" (receive loop),
            \* "rm" (finally: remove_address)
    ckey,   \* (epoch, slot) the client derived its endpoint from
    found,  \* node_ids of the descriptors discover appended to peers
    cruns   \* client invocations so far

client == <<cpc, ckey, found, cruns>>
hvars == <<vars, client>>

HostTypeOK ==
    /\ TypeOK
    /\ cpc \in [ClientNodes -> {"off", "cast", "disc", "recv", "rm"}]
    /\ ckey \in [ClientNodes -> Keys \cup {None}]
    /\ found \in [ClientNodes -> Seq(Ids \cup {NoId})]
    /\ cruns \in 0..MaxClientRuns

HostInit ==
    /\ Init
    /\ cpc = [c \in ClientNodes |-> "off"]
    /\ ckey = [c \in ClientNodes |-> None]
    /\ found = [c \in ClientNodes |-> << >>]
    /\ cruns = 0

-----------------------------------------------------------------------------
(* rendezvous-client                                                       *)

\* The descriptor and signature broadcast_descriptor reads from disk.
DiskFrame(c) ==
    [id |-> c, desc |-> disk[c], sig |-> IF disk[c] = 0 THEN NoSig ELSE disk[c]]

\* A datagram from the client on host c reaches at most one socket bound to
\* k, the daemon of host c included (the address is local to c).
ClientSend(c, k, f) ==
    LET R == {m \in Nodes : sock[m] = k /\ HasRoom(m)} IN
    \E D \in SUBSET R :
        /\ Cardinality(D) <= 1
        /\ D = {} => R = {} \/ "loss" \in Faults
        /\ rcv' = [m \in Nodes |-> IF m \in D THEN rcv[m] \cup {f} ELSE rcv[m]]

\* add_address: "ip -6 addr add" of the client's endpoint ("exists" counts
\* as success).
ClientAddAddress(c) == iface' = [iface EXCEPT ![c] = @ \cup {Key(now)}]

\* remove_address: "ip -6 addr del" of the client's endpoint, whatever
\* process added it.
ClientRemoveAddress(c) == iface' = [iface EXCEPT ![c] = @ \ {ckey[c]}]

\* "broadcast" or "discover": get_epoch_slot, derive_rendezvous_address and
\* add_address; on failure the command prints and returns (no finally).
ClientStart(c) ==
    /\ cpc[c] = "off"
    /\ cruns < MaxClientRuns
    /\ cruns' = cruns + 1
    /\ ckey' = [ckey EXCEPT ![c] = Key(now)]
    /\ found' = [found EXCEPT ![c] = << >>]
    /\ \/ /\ "add" \in Faults
          /\ UNCHANGED <<cpc, iface>>
       \/ /\ ClientAddAddress(c)
          /\ \E cmd \in {"cast", "disc"} : cpc' = [cpc EXCEPT ![c] = cmd]
    /\ UNCHANGED <<now, daemon, rcv, files, disk, restarts>>

\* broadcast_descriptor's try block: a missing descriptor returns, else the
\* descriptor and .sig read now are sent once; the finally clause follows.
ClientCast(c) ==
    /\ cpc[c] = "cast"
    /\ cpc' = [cpc EXCEPT ![c] = "rm"]
    /\ IF disk[c] = 0 THEN UNCHANGED rcv ELSE ClientSend(c, ckey[c], DiskFrame(c))
    /\ UNCHANGED <<now, daemon, iface, files, disk, restarts, ckey, found, cruns>>

\* discover_peers: socket() and bind(); an exception propagates through the
\* finally clause.
ClientBind(c) ==
    /\ cpc[c] = "disc"
    /\ \/ /\ "bind" \in Faults
          /\ cpc' = [cpc EXCEPT ![c] = "rm"]
       \/ cpc' = [cpc EXCEPT ![c] = "recv"]
    /\ UNCHANGED <<vars, ckey, found, cruns>>

\* One recvfrom of the discover loop: a short or truncated frame or invalid
\* JSON is skipped; a payload that is not a UTF-8 JSON object raises out of
\* the loop; any other descriptor is appended to peers.
ClientRecv(c) ==
    /\ cpc[c] = "recv"
    /\ Len(found[c]) < MaxFound
    /\ \E f \in CEnvFrames \cup {Undecodable} :
          \/ /\ f = Malformed
             /\ UNCHANGED <<cpc, found>>
          \/ /\ f = Undecodable
             /\ cpc' = [cpc EXCEPT ![c] = "rm"]
             /\ UNCHANGED found
          \/ /\ f \notin {Malformed, Undecodable}
             /\ found' = [found EXCEPT ![c] = Append(@, f.id)]
             /\ UNCHANGED cpc
    /\ UNCHANGED <<vars, ckey, cruns>>

\* Mutant: the socket has no receive timeout, so recvfrom blocks and the
\* loop only ends after a datagram arrives past end_time.
ClientEndDiscoverNoTimeout(c) ==
    /\ cpc[c] = "recv"
    /\ Len(found[c]) = MaxFound
    /\ FALSE
    /\ cpc' = [cpc EXCEPT ![c] = "rm"]
    /\ UNCHANGED <<vars, ckey, found, cruns>>

\* The discover timeout expires: sock.close(), then the finally clause.
ClientEndDiscover(c) ==
    /\ cpc[c] = "recv"
    /\ cpc' = [cpc EXCEPT ![c] = "rm"]
    /\ UNCHANGED <<vars, ckey, found, cruns>>

\* finally: remove_address of the client's address, whatever holds it; a
\* failure of "ip addr del" is ignored.  The command then exits.
ClientRemove(c) ==
    /\ cpc[c] = "rm"
    /\ cpc' = [cpc EXCEPT ![c] = "off"]
    /\ \/ ClientRemoveAddress(c)
       \/ /\ "remove" \in Faults
          /\ UNCHANGED iface
    /\ UNCHANGED <<now, daemon, rcv, files, disk, restarts, ckey, found, cruns>>

\* The steps of a client invocation once the user has started it.
ClientRunStep(c) ==
    \/ ClientCast(c)
    \/ ClientBind(c)
    \/ ClientRecv(c)
    \/ ClientEndDiscover(c)
    \/ ClientRemove(c)

ClientStep(c) == ClientStart(c) \/ ClientRunStep(c)

\* show_status: the (epoch, slot) of the i-th upcoming slot.
Upcoming(k, i) ==
    << IF k[2] + i < SlotsPerEpoch THEN k[1] ELSE k[1] + 1,
       (k[2] + i) % SlotsPerEpoch >>

-----------------------------------------------------------------------------

HostNext ==
    \/ Next /\ UNCHANGED client
    \/ \E c \in ClientNodes : ClientStep(c)

\* A client invocation is one thread whose blocking calls are bounded (the
\* receive timeout of 1 s, the discover timeout, short "ip" commands).  No
\* fairness is assumed for ClientStart: nothing makes a user run a command.
HostFairness == Fairness /\ \A c \in ClientNodes : WF_hvars(ClientRunStep(c))

HostSpec == HostInit /\ [][HostNext]_hvars /\ HostFairness

-----------------------------------------------------------------------------
(* Properties of the composition.                                          *)

\* A daemon listening for its slot keeps the slot's address on its
\* interface (spec 4.3: add and remove are strictly paired per slot, and
\* section 5: nothing else contends for the rendezvous addresses).
AddressHeldWhileListening ==
    \A n \in Nodes : pc[n] = "listen" /\ sock[n] # None => cur[n] \in iface[n]

\* discover prints the descriptors it received deduplicated by node_id
\* (spec 4.8).
DiscoverDeduped ==
    \A c \in ClientNodes : \A i, j \in 1..Len(found[c]) :
        i # j => found[c][i] # found[c][j]

\* Every client invocation ends, its finally clause included.
ClientCommandEnds == \A c \in ClientNodes : cpc[c] # "off" ~> cpc[c] = "off"

\* status lists as upcoming slots the next three (epoch, slot) keys of the
\* clock, wrapping into the next epoch (spec 4.1 upcoming(k)).
StatusUpcomingMatches == \A i \in 1..3 : Upcoming(Key(now), i) = Key(now + i)

=============================================================================
