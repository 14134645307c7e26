---------------------------- MODULE PeerDiscovery ----------------------------
(***************************************************************************)
(* network_health_command of src/src/commands/query.rs: the given ports of *)
(* a host are queried for their status and, with --recursive, so are the   *)
(* peers that the answers list, breadth first, up to a limit of peers.     *)
(*                                                                         *)
(* An endpoint is what the code calls a uri_key: a host and a port.  The   *)
(* nodes and the network are external: an endpoint answers with any list   *)
(* of peers, or fails, or never answers.  Each entry of a list is one that         *)
(* DiscoveredPeer::from_json accepts; the others are skipped there.        *)
(***************************************************************************)
EXTENDS Integers, Sequences, FiniteSets

CONSTANTS Endpoint,         \* hosts with a port
          StandardPorts,    \* the built-in list of ports, on the given host
          CustomPorts,      \* the lists that --custom-ports may give
          MaxPeersChoices,  \* values of --max-peers
          MaxList,          \* bound on the peers that one answer lists
          NotGiven

ASSUME EndpointAssumption == NotGiven \notin Seq(Endpoint)
(* A name that can be asked is of limited length, and so is a port. *)
ASSUME FiniteAssumption == IsFiniteSet(Endpoint)
ASSUME PortsAssumption == /\ StandardPorts \in Seq(Endpoint)
                          /\ CustomPorts \subseteq Seq(Endpoint)
ASSUME BoundsAssumption == MaxPeersChoices \subseteq Int /\ MaxList \in Nat

VARIABLES args,             \* the arguments of the command
          pc,               \* "validate", "loop" (queue), "ports" (no recursion), "done",
                            \* "stuck"
          queue,            \* endpoints to query; the ports left to check
          visited,          \* the endpoints that were ever put in the queue
          discovered,       \* the peers found, in the order found
          rest,             \* the peers of the last answer still to be looked at
          node_status_map,  \* what was queried, with the outcome, in order
          total_nodes, healthy_nodes,
          verdict           \* the last line printed

vars == <<args, pc, queue, visited, discovered, rest, node_status_map,
          total_nodes, healthy_nodes, verdict>>

Arguments == [remote : BOOLEAN, standard_ports : BOOLEAN, recursive : BOOLEAN,
              custom_ports : CustomPorts \cup {NotGiven}, max_peers : MaxPeersChoices]

PeerLists == UNION {[1..n -> Endpoint] : n \in 0..MaxList}

(* An entry of node_status_map.  A node that fails has an empty status, and *)
(* so lists no peers.                                                       *)
Status == [uri : Endpoint, healthy : BOOLEAN, peers : PeerLists]

SeqElements(s) == {s[i] : i \in DOMAIN s}

ports_to_check ==
    (IF args.standard_ports THEN StandardPorts ELSE <<>>) \o
    (IF args.custom_ports = NotGiven THEN <<>> ELSE args.custom_ports)

(* Variant: the limit is noticed one peer too late. *)
LateLimit(found) == args.max_peers > 0 /\ Len(found) > args.max_peers

(* max_peers of zero or less means that there is no limit. *)
LimitReached(found) == args.max_peers > 0 /\ Len(found) >= args.max_peers

-----------------------------------------------------------------------------
Init == /\ args \in Arguments
        /\ pc = "validate"
        /\ queue = <<>> /\ visited = {} /\ discovered = <<>> /\ rest = <<>>
        /\ node_status_map = <<>>
        /\ total_nodes = 0 /\ healthy_nodes = 0
        /\ verdict = "none"

(* A remote host without custom ports is refused by validate_host_and_ports, *)
(* whatever standard_ports says; no port at all ends the command.            *)
Refuse == /\ pc = "validate"
          /\ args.remote /\ args.custom_ports = NotGiven
          /\ pc' = "done" /\ verdict' = "refused"
          /\ UNCHANGED <<args, queue, visited, discovered, rest, node_status_map,
                         total_nodes, healthy_nodes>>

NothingToCheck == /\ pc = "validate"
                  /\ ~(args.remote /\ args.custom_ports = NotGiven)
                  /\ ports_to_check = <<>>
                  /\ pc' = "done" /\ verdict' = "no ports"
                  /\ UNCHANGED <<args, queue, visited, discovered, rest,
                                 node_status_map, total_nodes, healthy_nodes>>

(* Variant: the given ports are not marked as visited. *)
StartUnmarked == /\ pc = "validate"
                 /\ ~(args.remote /\ args.custom_ports = NotGiven)
                 /\ ports_to_check # <<>>
                 /\ queue' = ports_to_check
                 /\ pc' = IF args.recursive THEN "loop" ELSE "ports"
                 /\ UNCHANGED <<args, visited, discovered, rest, node_status_map,
                                total_nodes, healthy_nodes, verdict>>

(* Every given port goes into the queue, also one that is given twice. *)
Start == /\ pc = "validate"
         /\ ~(args.remote /\ args.custom_ports = NotGiven)
         /\ ports_to_check # <<>>
         /\ queue' = ports_to_check
         /\ visited' = IF args.recursive THEN SeqElements(ports_to_check) ELSE {}
         /\ pc' = IF args.recursive THEN "loop" ELSE "ports"
         /\ UNCHANGED <<args, discovered, rest, node_status_map, total_nodes,
                        healthy_nodes, verdict>>

(* query_node_status of the first endpoint of the queue: an answer counts  *)
(* as healthy, every failure does not.  Both lead on to the next one.      *)
Answered(peers) ==
    /\ node_status_map' = Append(node_status_map,
                              [uri |-> Head(queue), healthy |-> TRUE, peers |-> peers])
    /\ queue' = Tail(queue)
    /\ total_nodes' = total_nodes + 1 /\ healthy_nodes' = healthy_nodes + 1

NotAnswered ==
    /\ node_status_map' = Append(node_status_map,
                              [uri |-> Head(queue), healthy |-> FALSE, peers |-> <<>>])
    /\ queue' = Tail(queue)
    /\ total_nodes' = total_nodes + 1
    /\ UNCHANGED healthy_nodes

(* The loop of the recursive search asks the next endpoint unless the limit *)
(* is reached already.                                                      *)
MayQuery == /\ pc = "loop" /\ rest = <<>> /\ queue # <<>>
            /\ ~LimitReached(discovered)

QueryAnswered == /\ MayQuery
                 /\ \E peers \in PeerLists : Answered(peers) /\ rest' = peers
                 /\ UNCHANGED <<args, pc, visited, discovered, verdict>>

QueryFails == /\ MayQuery /\ NotAnswered
              /\ UNCHANGED <<args, pc, visited, discovered, rest, verdict>>

IsNew(peer) == peer \notin visited /\ ~LimitReached(discovered)

(* Variants: peers are asked before the ports that wait; only the first new  *)
(* peer of an answer is taken.                                               *)
AddPeerInFront ==
    /\ pc = "loop" /\ rest # <<>>
    /\ IsNew(Head(rest))
    /\ visited' = visited \cup {Head(rest)}
    /\ queue' = <<Head(rest)>> \o queue
    /\ discovered' = Append(discovered, Head(rest))
    /\ rest' = IF LimitReached(discovered') THEN <<>> ELSE Tail(rest)
    /\ UNCHANGED <<args, pc, node_status_map, total_nodes, healthy_nodes, verdict>>

AddPeerOnly ==
    /\ pc = "loop" /\ rest # <<>>
    /\ IsNew(Head(rest))
    /\ visited' = visited \cup {Head(rest)}
    /\ queue' = Append(queue, Head(rest))
    /\ discovered' = Append(discovered, Head(rest))
    /\ rest' = <<>>
    /\ UNCHANGED <<args, pc, node_status_map, total_nodes, healthy_nodes, verdict>>

(* Variant: a new peer is not marked as visited. *)
AddPeerUnmarked ==
    /\ pc = "loop" /\ rest # <<>>
    /\ IsNew(Head(rest))
    /\ queue' = Append(queue, Head(rest))
    /\ discovered' = Append(discovered, Head(rest))
    /\ rest' = IF LimitReached(discovered') THEN <<>> ELSE Tail(rest)
    /\ UNCHANGED <<args, pc, visited, node_status_map, total_nodes, healthy_nodes, verdict>>

(* A new peer is remembered, queued and counted; the peer that reaches the *)
(* limit ends the walk over the answer.                                    *)
AddPeer == /\ pc = "loop" /\ rest # <<>>
           /\ IsNew(Head(rest))
           /\ visited' = visited \cup {Head(rest)}
           /\ queue' = Append(queue, Head(rest))
           /\ discovered' = Append(discovered, Head(rest))
           /\ rest' = IF LimitReached(discovered') THEN <<>> ELSE Tail(rest)
           /\ UNCHANGED <<args, pc, node_status_map, total_nodes, healthy_nodes, verdict>>

SkipPeer == /\ pc = "loop" /\ rest # <<>>
            /\ ~IsNew(Head(rest))
            /\ rest' = Tail(rest)
            /\ UNCHANGED <<args, pc, queue, visited, discovered, node_status_map,
                           total_nodes, healthy_nodes, verdict>>

(* Without --recursive each given port is asked, and the peers are only counted. *)
PortAnswered == /\ pc = "ports" /\ queue # <<>>
                /\ \E peers \in PeerLists : Answered(peers)
                /\ UNCHANGED <<args, pc, visited, discovered, rest, verdict>>

PortFails == /\ pc = "ports" /\ queue # <<>>
             /\ NotAnswered
             /\ UNCHANGED <<args, pc, visited, discovered, rest, verdict>>

Verdict == IF healthy_nodes = 0 THEN "none healthy"
           ELSE IF healthy_nodes = total_nodes THEN "all healthy" ELSE "some unhealthy"

(* Variant: the limit stops the queries, but not the loop. *)
SummariseWhenEmpty == /\ queue = <<>> /\ rest = <<>> /\ pc \in {"loop", "ports"}
                      /\ pc' = "done" /\ verdict' = Verdict
                      /\ UNCHANGED <<args, queue, visited, discovered, rest,
                                     node_status_map, total_nodes, healthy_nodes>>

(* The search ends with an empty queue, or, before the next query, with the *)
(* limit; what is left in the queue then is not asked.                      *)
Summarise == /\ \/ pc = "loop" /\ rest = <<>> /\ (queue = <<>> \/ LimitReached(discovered))
                \/ pc = "ports" /\ queue = <<>>
             /\ pc' = "done" /\ verdict' = Verdict
             /\ UNCHANGED <<args, queue, visited, discovered, rest, node_status_map,
                            total_nodes, healthy_nodes>>

(* The client has no timeout: an endpoint that takes the connection and says *)
(* nothing holds the command for ever.  It has left the queue and is counted *)
(* in total_nodes by then, which nobody reads any more.                      *)
NeverAnswered == /\ MayQuery \/ (pc = "ports" /\ queue # <<>>)
                 /\ pc' = "stuck"
                 /\ UNCHANGED <<args, queue, visited, discovered, rest, node_status_map,
                                total_nodes, healthy_nodes, verdict>>

Search == \/ Refuse \/ NothingToCheck \/ Start
          \/ QueryAnswered \/ QueryFails \/ AddPeer \/ SkipPeer
          \/ PortAnswered \/ PortFails \/ Summarise

Next == Search \/ NeverAnswered

Spec == Init /\ [][Next]_vars

(* An endpoint answers, or fails, or never answers; nothing else holds the   *)
(* command up.                                                               *)
FairSpec == Spec /\ WF_vars(Search)

-----------------------------------------------------------------------------
(* The shape of the state. *)
TypeOK ==
    /\ args \in Arguments
    /\ pc \in {"validate", "loop", "ports", "done", "stuck"}
    /\ queue \in Seq(Endpoint) /\ visited \subseteq Endpoint
    /\ discovered \in Seq(Endpoint) /\ rest \in Seq(Endpoint)
    /\ node_status_map \in Seq(Status)
    /\ total_nodes \in Nat /\ healthy_nodes \in Nat
    /\ verdict \in {"none", "refused", "no ports", "none healthy", "all healthy",
                    "some unhealthy"}

Queried == {node_status_map[i].uri : i \in DOMAIN node_status_map}

(* Cyclic peer lists do not lead the search in circles: only a port that was *)
(* given twice is asked twice, a peer is asked once and not at all if it is  *)
(* one of the given ports (visited, shared by both ways into the queue).     *)
PeersAreAskedOnce ==
    \A i, j \in DOMAIN node_status_map :
        /\ i < j
        /\ node_status_map[i].uri = node_status_map[j].uri
        => j <= Len(ports_to_check)

(* No more peers are discovered than --max-peers says, although the limit is *)
(* checked in three places and the given ports do not count.                 *)
LimitIsRespected == args.max_peers > 0 => Len(discovered) <= args.max_peers

(* The search asks only for a reason, and the given ports first, in their    *)
(* order: any other endpoint was listed by a node that was asked before it,  *)
(* and answered.                                                             *)
QueriesAreJustified ==
    \A j \in DOMAIN node_status_map :
        \/ j <= Len(ports_to_check) /\ node_status_map[j].uri = ports_to_check[j]
        \/ \E i \in 1..(j - 1) :
              /\ node_status_map[i].healthy
              /\ node_status_map[j].uri \in SeqElements(node_status_map[i].peers)

(* A recursive search that was not cut short by the limit has asked all      *)
(* given ports and everything any answer listed: with QueriesAreJustified,   *)
(* exactly what can be reached.                                              *)
DiscoveryIsComplete ==
    pc = "done" /\ args.recursive /\ node_status_map # <<>> /\ ~LimitReached(discovered)
    => /\ SeqElements(ports_to_check) \subseteq Queried
       /\ \A i \in DOMAIN node_status_map :
             SeqElements(node_status_map[i].peers) \subseteq Queried

(* The last line tells the truth about the nodes that were queried: counters *)
(* and node_status_map are kept in step over both modes and all failures.    *)
VerdictIsRight ==
    pc = "done" /\ node_status_map # <<>> =>
        /\ verdict = "all healthy" <=>
              \A i \in DOMAIN node_status_map : node_status_map[i].healthy
        /\ verdict = "none healthy" <=>
              \A i \in DOMAIN node_status_map : ~node_status_map[i].healthy

(* What the safety properties rest on.  The endpoints queried and those in   *)
(* the queue are, in this order, the given ports and then the discovered     *)
(* peers: Turn(i) is the i-th of them.                                       *)
Turn(i) == IF i <= Len(ports_to_check) THEN ports_to_check[i]
           ELSE discovered[i - Len(ports_to_check)]

Started == node_status_map # <<>> \/ queue # <<>>

TurnsAreKept ==
    /\ pc = "validate" => ~Started
    /\ ~Started => discovered = <<>> /\ rest = <<>> /\ pc \in {"validate", "done"}
    /\ Started =>
        /\ Len(node_status_map) + Len(queue) = Len(ports_to_check) + Len(discovered)
        /\ \A i \in DOMAIN node_status_map : node_status_map[i].uri = Turn(i)
        /\ \A i \in DOMAIN queue : queue[i] = Turn(Len(node_status_map) + i)

(* Discovered peers are distinct and none of the given ports, and visited    *)
(* holds nothing but them and the given ports.                               *)
VisitedIsKnown ==
    /\ \A i, j \in DOMAIN discovered : i # j => discovered[i] # discovered[j]
    /\ SeqElements(discovered) \cap SeqElements(ports_to_check) = {}
    /\ ~args.recursive => discovered = <<>> /\ rest = <<>> /\ pc # "loop"
    /\ args.recursive => pc # "ports"
    /\ args.recursive /\ Started =>
          visited = SeqElements(ports_to_check) \cup SeqElements(discovered)

(* A discovered peer was listed by a node whose turn was earlier, and the    *)
(* peers still to be looked at are listed by the node asked last.            *)
SourcesAreAsked ==
    /\ \A k \in DOMAIN discovered :
          \E i \in DOMAIN node_status_map :
             /\ i < Len(ports_to_check) + k
             /\ node_status_map[i].healthy
             /\ discovered[k] \in SeqElements(node_status_map[i].peers)
    /\ rest # <<>> =>
          /\ pc = "loop" /\ node_status_map # <<>>
          /\ node_status_map[Len(node_status_map)].healthy
          /\ SeqElements(rest) \subseteq
                SeqElements(node_status_map[Len(node_status_map)].peers)

(* Until the limit is reached, a listed peer has been visited or is still    *)
(* going to be looked at.                                                    *)
NoPeerIsForgotten ==
    args.recursive /\ ~LimitReached(discovered) =>
        \A i \in DOMAIN node_status_map :
            SeqElements(node_status_map[i].peers) \subseteq visited \cup SeqElements(rest)

(* The search stops for one of two reasons. *)
EndedForAReason ==
    pc = "done" /\ Started =>
        rest = <<>> /\ (queue = <<>> \/ LimitReached(discovered))

CountersAgree ==
    /\ total_nodes = Len(node_status_map) /\ healthy_nodes <= total_nodes
    /\ healthy_nodes = 0 <=>
          \A i \in DOMAIN node_status_map : ~node_status_map[i].healthy
    /\ healthy_nodes = total_nodes <=>
          \A i \in DOMAIN node_status_map : node_status_map[i].healthy
    /\ pc = "done" /\ Started => verdict = Verdict

IInv == /\ TypeOK /\ LimitIsRespected /\ TurnsAreKept /\ VisitedIsKnown
        /\ SourcesAreAsked /\ NoPeerIsForgotten /\ EndedForAReason /\ CountersAgree

(* The command comes to an end, or waits for an endpoint that never answers: *)
(* nothing that the peers list keeps it searching.                           *)
AlwaysEnds == <>(pc \in {"done", "stuck"})

(* What the command can still do at most: each endpoint not visited yet can  *)
(* enter the queue once, and each one in the queue costs a query and a walk  *)
(* over the peers it lists.                                                  *)
Unvisited == Cardinality(Endpoint \ visited)

StepsLeft ==
    CASE pc = "validate" -> (Cardinality(Endpoint) + Len(ports_to_check)) * (MaxList + 1) + 2
      [] pc \in {"loop", "ports"} -> (Unvisited + Len(queue)) * (MaxList + 1) + Len(rest) + 1
      [] OTHER -> 0

(* Every step uses up some of that, however the peer lists refer to each     *)
(* other, although steps also make the queue longer.                         *)
StepsRunOut == [][StepsLeft' \in 0..(StepsLeft - 1)]_vars

=============================================================================
