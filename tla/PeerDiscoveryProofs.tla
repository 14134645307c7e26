------------------------- MODULE PeerDiscoveryProofs -------------------------
(***************************************************************************)
(* Proofs about PeerDiscovery for any endpoints, any peer lists and any    *)
(* limit.                                                                  *)
(***************************************************************************)
EXTENDS PeerDiscovery, FiniteSetTheorems, TLAPS

USE PortsAssumption, BoundsAssumption

LEMMA AppendFacts ==
  ASSUME NEW S, NEW s \in Seq(S), NEW e \in S
  PROVE  /\ Append(s, e) \in Seq(S) /\ Append(s, e) # <<>>
         /\ Len(Append(s, e)) = Len(s) + 1
         /\ \A i \in 1..Len(s) : Append(s, e)[i] = s[i]
         /\ Append(s, e)[Len(s) + 1] = e
         /\ DOMAIN Append(s, e) = 1..(Len(s) + 1)
         /\ SeqElements(Append(s, e)) = SeqElements(s) \cup {e}
<1>1. /\ Append(s, e) \in Seq(S) /\ Append(s, e) # <<>>
      /\ Len(Append(s, e)) = Len(s) + 1 /\ Len(s) \in Nat
      /\ \A i \in 1..Len(s) : Append(s, e)[i] = s[i]
      /\ Append(s, e)[Len(s) + 1] = e
  OBVIOUS
<1>2. DOMAIN Append(s, e) = 1..(Len(s) + 1) /\ DOMAIN s = 1..Len(s)
  BY <1>1
<1>3. 1..(Len(s) + 1) = 1..Len(s) \cup {Len(s) + 1}
  BY <1>1
<1>4. SeqElements(Append(s, e)) = SeqElements(s) \cup {e}
  <2> DEFINE t == Append(s, e)
  <2>1. \A i \in DOMAIN s : i \in DOMAIN t /\ t[i] = s[i]
    BY <1>1, <1>2, <1>3
  <2>2. Len(s) + 1 \in DOMAIN t /\ t[Len(s) + 1] = e
    BY <1>1, <1>2, <1>3
  <2>3. \A i \in DOMAIN t : i \in DOMAIN s \/ i = Len(s) + 1
    BY <1>2, <1>3
  <2> HIDE DEF t
  <2>4. SeqElements(t) = SeqElements(s) \cup {e}
    BY <2>1, <2>2, <2>3 DEF SeqElements
  <2>5. QED
    BY <2>4 DEF t
<1>5. QED
  BY <1>1, <1>2, <1>4

LEMMA TailFacts ==
  ASSUME NEW S, NEW s \in Seq(S), s # <<>>
  PROVE  /\ Tail(s) \in Seq(S) /\ Len(Tail(s)) = Len(s) - 1 /\ Head(s) \in S
         /\ Head(s) = s[1] /\ Len(s) > 0
         /\ \A i \in 1..(Len(s) - 1) : Tail(s)[i] = s[i + 1]
         /\ SeqElements(s) = {Head(s)} \cup SeqElements(Tail(s))
<1>1. /\ Tail(s) \in Seq(S) /\ Len(Tail(s)) = Len(s) - 1 /\ Head(s) \in S
      /\ Head(s) = s[1] /\ Len(s) > 0
      /\ \A i \in 1..(Len(s) - 1) : Tail(s)[i] = s[i + 1]
  OBVIOUS
<1>2. DOMAIN s = 1..Len(s) /\ DOMAIN Tail(s) = 1..(Len(s) - 1) /\ Len(s) \in Nat
  BY <1>1
<1>3. SeqElements(s) \subseteq {Head(s)} \cup SeqElements(Tail(s))
  <2> SUFFICES ASSUME NEW i \in 1..Len(s), i # 1
               PROVE  s[i] \in SeqElements(Tail(s))
    BY <1>1, <1>2 DEF SeqElements
  <2>1. i - 1 \in 1..(Len(s) - 1) /\ (i - 1) + 1 = i
    BY <1>2
  <2>2. Tail(s)[i - 1] = s[i]
    BY <1>1, <2>1
  <2>3. QED
    BY <1>2, <2>1, <2>2, Zenon DEF SeqElements
<1>4. SeqElements(Tail(s)) \subseteq SeqElements(s)
  <2> SUFFICES ASSUME NEW i \in 1..(Len(s) - 1) PROVE Tail(s)[i] \in SeqElements(s)
    BY <1>2 DEF SeqElements
  <2>1. i + 1 \in 1..Len(s) /\ Tail(s)[i] = s[i + 1]
    BY <1>1, <1>2
  <2>2. QED
    BY <1>2, <2>1, Zenon DEF SeqElements
<1>5. Head(s) \in SeqElements(s)
  BY <1>1, <1>2, 1 \in 1..Len(s), Zenon DEF SeqElements
<1>6. QED
  BY <1>1, <1>3, <1>4, <1>5

LEMMA ElementsAreMembers ==
  ASSUME NEW S, NEW s \in Seq(S)
  PROVE  SeqElements(s) \subseteq S
BY DEF SeqElements

LEMMA PeerListsAreSequences ==
  ASSUME NEW peers \in PeerLists
  PROVE  peers \in Seq(Endpoint)
<1>1. PICK n \in 0..MaxList : peers \in [1..n -> Endpoint]
  BY DEF PeerLists
<1>2. QED
  BY <1>1

LEMMA EmptyList == <<>> \in PeerLists /\ SeqElements(<<>>) = {}
<1>1. <<>> \in [1..0 -> Endpoint]
  OBVIOUS
<1>2. 0 \in 0..MaxList
  OBVIOUS
<1>3. <<>> \in PeerLists
  BY <1>1, <1>2 DEF PeerLists
<1>4. QED
  BY <1>3 DEF SeqElements

LEMMA PortsAreEndpoints ==
  ASSUME args \in Arguments
  PROVE  ports_to_check \in Seq(Endpoint)
BY DEF ports_to_check, Arguments

-----------------------------------------------------------------------------
LEMMA InitInv == Init => IInv
<1> SUFFICES ASSUME Init PROVE IInv
  OBVIOUS
<1>1. TypeOK
  BY DEF Init, TypeOK
<1>2. LimitIsRespected
  <2>1. Len(discovered) = 0 /\ args.max_peers \in Int
    BY DEF Init, Arguments
  <2>2. QED
    BY <2>1 DEF LimitIsRespected
<1>3. TurnsAreKept
  BY DEF Init, TurnsAreKept, Started
<1>4. VisitedIsKnown
  BY DEF Init, VisitedIsKnown, Started, SeqElements
<1>5. SourcesAreAsked /\ NoPeerIsForgotten /\ EndedForAReason
  BY DEF Init, SourcesAreAsked, NoPeerIsForgotten, EndedForAReason, SeqElements
<1>6. CountersAgree
  BY DEF Init, CountersAgree
<1>7. QED
  BY <1>1, <1>2, <1>3, <1>4, <1>5, <1>6 DEF IInv

\* The definitions that a step which touches neither queue nor peers can expand.
LEMMA RefuseInv ==
  ASSUME IInv, Refuse \/ NothingToCheck
  PROVE  IInv'
<1>1. /\ UNCHANGED <<args, queue, visited, discovered, rest, node_status_map,
                     total_nodes, healthy_nodes>>
      /\ pc = "validate" /\ pc' = "done" /\ verdict' \in {"refused", "no ports"}
  BY DEF Refuse, NothingToCheck
<1>2. ~Started /\ Started' = Started
  BY <1>1 DEF IInv, TurnsAreKept, Started
<1>3. ports_to_check' = ports_to_check
  BY <1>1 DEF ports_to_check
<1>4. TypeOK' /\ LimitIsRespected'
  BY <1>1 DEF IInv, TypeOK, LimitIsRespected
<1>5. TurnsAreKept' /\ VisitedIsKnown'
  BY <1>1, <1>2, <1>3 DEF IInv, TurnsAreKept, VisitedIsKnown
<1>6. node_status_map = <<>> /\ rest = <<>> /\ discovered = <<>>
  BY <1>2 DEF IInv, TurnsAreKept, Started
<1>7. SourcesAreAsked' /\ NoPeerIsForgotten'
  <2>1. node_status_map' = <<>> /\ discovered' = <<>> /\ rest' = <<>>
    BY <1>1, <1>6
  <2>2. QED
    BY <2>1 DEF SourcesAreAsked, NoPeerIsForgotten
<1>10. EndedForAReason'
  BY <1>1, <1>2 DEF EndedForAReason
<1>8. CountersAgree'
  BY <1>1, <1>2 DEF IInv, CountersAgree
<1>9. QED
  BY <1>4, <1>5, <1>7, <1>8, <1>10 DEF IInv

LEMMA StartInv ==
  ASSUME IInv, Start
  PROVE  IInv'
<1>1. /\ UNCHANGED <<args, discovered, rest, node_status_map, total_nodes,
                     healthy_nodes, verdict>>
      /\ pc = "validate" /\ queue' = ports_to_check /\ ports_to_check # <<>>
      /\ visited' = IF args.recursive THEN SeqElements(ports_to_check) ELSE {}
      /\ pc' = IF args.recursive THEN "loop" ELSE "ports"
  BY DEF Start
<1>2. ports_to_check' = ports_to_check
  BY <1>1 DEF ports_to_check
<1>3. ports_to_check \in Seq(Endpoint)
  BY PortsAreEndpoints DEF IInv, TypeOK
<1>4. node_status_map = <<>> /\ rest = <<>> /\ discovered = <<>> /\ Started'
  BY <1>1 DEF IInv, TurnsAreKept, Started
<1>5. TypeOK'
  BY <1>1, <1>3, ElementsAreMembers DEF IInv, TypeOK
<1>6. LimitIsRespected'
  BY <1>1 DEF IInv, LimitIsRespected
<1>7. TurnsAreKept'
  BY <1>1, <1>2, <1>3, <1>4 DEF TurnsAreKept, Turn
<1>8. VisitedIsKnown'
  BY <1>1, <1>2, <1>4 DEF VisitedIsKnown, SeqElements
<1>9. SourcesAreAsked' /\ NoPeerIsForgotten' /\ EndedForAReason'
  BY <1>1, <1>4 DEF SourcesAreAsked, NoPeerIsForgotten, EndedForAReason
<1>10. CountersAgree'
  BY <1>1, <1>4 DEF IInv, CountersAgree
<1>11. QED
  BY <1>5, <1>6, <1>7, <1>8, <1>9, <1>10 DEF IInv

-----------------------------------------------------------------------------
\* One query more: its entry, the shorter queue and the peers to look at.
LEMMA QueryInv ==
  ASSUME IInv, NEW entry \in Status,
         queue # <<>>, entry.uri = Head(queue),
         node_status_map' = Append(node_status_map, entry),
         queue' = Tail(queue),
         total_nodes' = total_nodes + 1,
         healthy_nodes' = healthy_nodes + (IF entry.healthy THEN 1 ELSE 0),
         pc \in {"loop", "ports"}, rest = <<>>,
         rest' = IF pc = "loop" THEN entry.peers ELSE <<>>,
         pc = "loop" /\ ~entry.healthy => entry.peers = <<>>,
         UNCHANGED <<args, pc, visited, discovered, verdict>>
  PROVE  IInv'
<1> DEFINE m == Len(node_status_map)
<1>0. node_status_map \in Seq(Status) /\ queue \in Seq(Endpoint)
      /\ discovered \in Seq(Endpoint) /\ args \in Arguments
      /\ total_nodes \in Nat /\ healthy_nodes \in Nat
  BY DEF IInv, TypeOK
<1>1. node_status_map \in Seq(Status) /\ queue \in Seq(Endpoint) /\ m \in Nat
      /\ discovered \in Seq(Endpoint) /\ args \in Arguments
      /\ total_nodes \in Nat /\ healthy_nodes \in Nat
      /\ DOMAIN node_status_map = 1..m
  BY <1>0
<1>2. ports_to_check' = ports_to_check /\ ports_to_check \in Seq(Endpoint)
  BY <1>1, PortsAreEndpoints DEF ports_to_check
<1>3. /\ node_status_map' \in Seq(Status) /\ node_status_map' # <<>>
      /\ Len(node_status_map') = m + 1
      /\ \A i \in 1..m : node_status_map'[i] = node_status_map[i]
      /\ node_status_map'[m + 1] = entry
      /\ DOMAIN node_status_map' = 1..(m + 1)
  <2> DEFINE longer == Append(node_status_map, entry)
  <2>1. /\ longer \in Seq(Status) /\ longer # <<>> /\ Len(longer) = m + 1
        /\ \A i \in 1..m : longer[i] = node_status_map[i]
        /\ longer[m + 1] = entry /\ DOMAIN longer = 1..(m + 1)
    BY <1>0, entry \in Status, AppendFacts
  <2>2. node_status_map' = longer
    OBVIOUS
  <2> HIDE DEF longer
  <2>3. QED
    BY <2>1, <2>2
<1>4. /\ queue' \in Seq(Endpoint) /\ Len(queue') = Len(queue) - 1
      /\ Head(queue) = queue[1] /\ Len(queue) > 0
      /\ \A i \in 1..(Len(queue) - 1) : queue'[i] = queue[i + 1]
      /\ DOMAIN queue = 1..Len(queue) /\ DOMAIN queue' = 1..(Len(queue) - 1)
      /\ Len(queue) \in Nat
  BY <1>1, TailFacts
<1>5. entry.peers \in Seq(Endpoint) /\ entry.healthy \in BOOLEAN
  BY PeerListsAreSequences DEF Status
<1>6. Started /\ Started'
  BY <1>3 DEF Started
<1>7. TypeOK'
  <2>1. total_nodes' \in Nat /\ healthy_nodes' \in Nat /\ rest' \in Seq(Endpoint)
    BY <1>1, <1>5
  <2>2. QED
    BY <1>1, <1>3, <1>4, <2>1 DEF IInv, TypeOK
<1>8. LimitIsRespected'
  BY DEF IInv, LimitIsRespected
<1>9. TurnsAreKept'
  <2>1. \A i : Turn(i)' = Turn(i)
    BY <1>2 DEF Turn
  <2>0. /\ m + Len(queue) = Len(ports_to_check) + Len(discovered)
        /\ \A i \in 1..m : node_status_map[i].uri = Turn(i)
        /\ \A i \in 1..Len(queue) : queue[i] = Turn(m + i)
    BY <1>1, <1>4, <1>6 DEF IInv, TurnsAreKept
  <2>2. Len(node_status_map') + Len(queue') = Len(ports_to_check') + Len(discovered')
    <3>1. Len(ports_to_check) \in Nat /\ Len(discovered) \in Nat
      BY <1>1, <1>2
    <3>2. (m + 1) + (Len(queue) - 1) = m + Len(queue)
      BY <1>1, <1>4
    <3>3. QED
      BY <1>2, <1>3, <1>4, <2>0, <3>1, <3>2
  <2>3. queue[1] = Turn(m + 1)
    BY <1>1, <1>4, <2>0
  <2>4. \A i \in DOMAIN node_status_map' : node_status_map'[i].uri = Turn(i)'
    <3> SUFFICES ASSUME NEW i \in 1..(m + 1) PROVE node_status_map'[i].uri = Turn(i)
      BY <1>3, <2>1
    <3>1. CASE i = m + 1
      BY <3>1, <1>3, <1>4, <2>3
    <3>2. CASE i \in 1..m
      BY <3>2, <1>3, <2>0
    <3>3. QED
      BY <1>1, <3>1, <3>2
  <2>5. \A i \in DOMAIN queue' : queue'[i] = Turn(Len(node_status_map) + i)'
    <3> SUFFICES ASSUME NEW i \in 1..(Len(queue) - 1)
                 PROVE  queue'[i] = Turn((m + 1) + i)
      BY <1>3, <1>4, <2>1
    <3>1. i + 1 \in 1..Len(queue) /\ queue'[i] = queue[i + 1]
      BY <1>4
    <3>2. queue[i + 1] = Turn(m + (i + 1))
      BY <3>1, <2>0
    <3>3. m + (i + 1) = (m + 1) + i
      BY <1>1
    <3>4. QED
      BY <3>1, <3>2, <3>3
  <2>6. QED
    <3>1. pc' # "validate" /\ Started'
      BY <1>6
    <3>2. QED
      BY <3>1, <2>2, <2>4, <2>5 DEF TurnsAreKept
<1>10. VisitedIsKnown'
  BY <1>2, <1>6 DEF IInv, VisitedIsKnown
<1>11. SourcesAreAsked'
  <2>1. rest' # <<>> =>
          /\ pc' = "loop" /\ node_status_map' # <<>>
          /\ node_status_map'[Len(node_status_map')].healthy
          /\ SeqElements(rest') \subseteq
                SeqElements(node_status_map'[Len(node_status_map')].peers)
    BY <1>3, <1>5
  <2>2. \A i \in DOMAIN node_status_map :
          i \in DOMAIN node_status_map' /\ node_status_map'[i] = node_status_map[i]
    BY <1>1, <1>3
  <2>3. QED
    BY <1>2, <2>1, <2>2 DEF IInv, SourcesAreAsked
<1>12. NoPeerIsForgotten'
  <2> SUFFICES ASSUME args.recursive, ~LimitReached(discovered),
                      NEW i \in 1..(m + 1)
               PROVE  SeqElements(node_status_map'[i].peers)
                        \subseteq visited \cup SeqElements(rest')
    BY <1>3 DEF NoPeerIsForgotten, LimitReached
  <2>1. pc = "loop"
    BY DEF IInv, VisitedIsKnown
  <2>2. CASE i = m + 1
    BY <2>1, <2>2, <1>3
  <2>3. CASE i \in 1..m
    <3>1. SeqElements(node_status_map[i].peers) \subseteq visited \cup SeqElements(rest)
      BY <2>3, <1>1 DEF IInv, NoPeerIsForgotten
    <3>2. SeqElements(rest) = {}
      BY EmptyList
    <3>3. QED
      BY <2>3, <1>3, <3>1, <3>2
  <2>4. QED
    BY <1>1, <2>2, <2>3
<1>13. EndedForAReason'
  BY DEF EndedForAReason
<1>14. CountersAgree'
  <2>1. Len(node_status_map') = total_nodes'
    BY <1>3 DEF IInv, CountersAgree
  <2>2. \A i \in DOMAIN node_status_map' : i \in DOMAIN node_status_map \/ i = m + 1
    BY <1>1, <1>3
  <2>3. m + 1 \in DOMAIN node_status_map' /\ node_status_map'[m + 1] = entry
    BY <1>1, <1>3
  <2>9. \A i \in DOMAIN node_status_map :
          i \in DOMAIN node_status_map' /\ node_status_map'[i] = node_status_map[i]
    BY <1>1, <1>3
  <2>4. (\A i \in DOMAIN node_status_map' : node_status_map'[i].healthy)
          <=> entry.healthy /\ \A i \in DOMAIN node_status_map : node_status_map[i].healthy
    BY <2>2, <2>3, <2>9
  <2>5. (\A i \in DOMAIN node_status_map' : ~node_status_map'[i].healthy)
          <=> ~entry.healthy /\ \A i \in DOMAIN node_status_map : ~node_status_map[i].healthy
    BY <2>2, <2>3, <2>9
  <2>6. CASE entry.healthy
    <3>1. healthy_nodes' = healthy_nodes + 1
      BY <2>6
    <3>2. QED
      BY <1>1, <2>1, <2>4, <2>5, <2>6, <3>1 DEF IInv, CountersAgree
  <2>7. CASE ~entry.healthy
    <3>1. healthy_nodes' = healthy_nodes
      BY <1>1, <2>7
    <3>2. QED
      BY <1>1, <2>1, <2>4, <2>5, <2>7, <3>1 DEF IInv, CountersAgree
  <2>8. QED
    BY <2>6, <2>7
<1>15. QED
  BY <1>7, <1>8, <1>9, <1>10, <1>11, <1>12, <1>13, <1>14 DEF IInv

-----------------------------------------------------------------------------
\* A new peer goes to the end of the queue, the end of the peers found, and
\* into visited, so that the turns of all others stay what they were.
LEMMA AddPeerInv ==
  ASSUME IInv, AddPeer
  PROVE  IInv'
<1> DEFINE p == Head(rest)
           n == Len(discovered)
           q == Len(queue)
           m == Len(node_status_map)
<1>1. /\ node_status_map \in Seq(Status) /\ queue \in Seq(Endpoint)
      /\ discovered \in Seq(Endpoint) /\ rest \in Seq(Endpoint)
      /\ args \in Arguments /\ visited \subseteq Endpoint
  BY DEF IInv, TypeOK
<1>2. /\ pc = "loop" /\ rest # <<>> /\ p \notin visited /\ ~LimitReached(discovered)
      /\ visited' = visited \cup {p} /\ queue' = Append(queue, p)
      /\ discovered' = Append(discovered, p)
      /\ rest' \in {<<>>, Tail(rest)}
      /\ ~LimitReached(discovered') => rest' = Tail(rest)
      /\ UNCHANGED <<args, pc, node_status_map, total_nodes, healthy_nodes, verdict>>
  BY DEF AddPeer, IsNew
<1>3. ports_to_check' = ports_to_check /\ ports_to_check \in Seq(Endpoint)
      /\ Len(ports_to_check) \in Nat
  <2>1. ports_to_check' = ports_to_check
    BY <1>2 DEF ports_to_check
  <2>2. ports_to_check \in Seq(Endpoint)
    BY <1>1, PortsAreEndpoints
  <2>3. QED
    BY <2>1, <2>2
<1>4. /\ p \in Endpoint /\ Tail(rest) \in Seq(Endpoint)
      /\ SeqElements(rest) = {p} \cup SeqElements(Tail(rest))
  BY <1>1, <1>2, TailFacts
<1>5. /\ queue' \in Seq(Endpoint) /\ queue' # <<>> /\ Len(queue') = q + 1
      /\ \A i \in 1..q : queue'[i] = queue[i]
      /\ queue'[q + 1] = p /\ DOMAIN queue' = 1..(q + 1)
  BY <1>1, <1>2, <1>4, AppendFacts
<1>6. /\ discovered' \in Seq(Endpoint) /\ Len(discovered') = n + 1
      /\ \A i \in 1..n : discovered'[i] = discovered[i]
      /\ discovered'[n + 1] = p /\ DOMAIN discovered' = 1..(n + 1)
      /\ SeqElements(discovered') = SeqElements(discovered) \cup {p}
  BY <1>1, <1>2, <1>4, AppendFacts
<1>7. /\ n \in Nat /\ q \in Nat /\ m \in Nat
      /\ DOMAIN discovered = 1..n /\ DOMAIN queue = 1..q /\ DOMAIN node_status_map = 1..m
  BY <1>1
<1> HIDE DEF p, n, q, m
<1>8. Started /\ Started' /\ node_status_map # <<>> /\ args.recursive
  BY <1>2, <1>5 DEF IInv, SourcesAreAsked, VisitedIsKnown, Started
<1>9. /\ visited = SeqElements(ports_to_check) \cup SeqElements(discovered)
      /\ p \notin SeqElements(ports_to_check) /\ p \notin SeqElements(discovered)
  BY <1>2, <1>8 DEF IInv, VisitedIsKnown
<1>10. SeqElements(rest') \subseteq SeqElements(rest) /\ rest' \in Seq(Endpoint)
  <2>1. CASE rest' = <<>>
    BY <2>1, EmptyList
  <2>2. CASE rest' = Tail(rest)
    BY <2>2, <1>4
  <2>3. QED
    BY <1>2, <2>1, <2>2
<1>11. TypeOK'
  BY <1>2, <1>4, <1>5, <1>6, <1>10 DEF IInv, TypeOK
<1>12. LimitIsRespected'
  <2>1. args.max_peers \in Int
    BY <1>1 DEF Arguments
  <2>2. args.max_peers > 0 => n < args.max_peers
    BY <1>2, <1>7, <2>1 DEF LimitReached, n
  <2>3. QED
    BY <1>2, <1>6, <1>7, <2>1, <2>2 DEF LimitIsRespected
<1>13. TurnsAreKept'
  <2>1. /\ m + q = Len(ports_to_check) + n
        /\ \A i \in 1..m : node_status_map[i].uri = Turn(i)
        /\ \A i \in 1..q : queue[i] = Turn(m + i)
    BY <1>7, <1>8 DEF IInv, TurnsAreKept, m, q, n
  <2>2. \A i \in 1..(m + q) : Turn(i)' = Turn(i)
    <3> SUFFICES ASSUME NEW i \in 1..(m + q), ~(i <= Len(ports_to_check))
                 PROVE  discovered'[i - Len(ports_to_check)]
                          = discovered[i - Len(ports_to_check)]
      BY <1>3 DEF Turn
    <3>1. i - Len(ports_to_check) \in 1..n
      BY <1>3, <1>7, <2>1
    <3>2. QED
      BY <3>1, <1>6
  <2>3. \A i : i = m + q + 1 => Turn(i)' = p
    <3> SUFFICES ASSUME NEW i, i = m + q + 1 PROVE Turn(i)' = p
      OBVIOUS
    <3>1. ~(i <= Len(ports_to_check)) /\ i - Len(ports_to_check) = n + 1
      BY <1>3, <1>7, <2>1
    <3>2. QED
      BY <3>1, <1>3, <1>6 DEF Turn
  <2>4. Len(node_status_map') + Len(queue') = Len(ports_to_check') + Len(discovered')
    <3>0. m + q = Len(ports_to_check) + n
      BY <2>1
    <3>1. m + (q + 1) = Len(ports_to_check) + (n + 1)
      BY <1>3, <1>7, <3>0
    <3>2. Len(node_status_map') = m
      BY <1>2 DEF m
    <3>3. QED
      BY <1>3, <1>5, <1>6, <3>1, <3>2
  <2>5. \A i \in 1..m : node_status_map[i].uri = Turn(i)'
    <3> SUFFICES ASSUME NEW i \in 1..m PROVE node_status_map[i].uri = Turn(i)'
      OBVIOUS
    <3>1. i \in 1..(m + q)
      BY <1>7
    <3>2. QED
      BY <2>1, <2>2, <3>1
  <2>6. \A i \in 1..(q + 1) : queue'[i] = Turn(m + i)'
    <3> SUFFICES ASSUME NEW i \in 1..(q + 1), NEW k, k = m + i
                 PROVE  queue'[i] = Turn(k)'
      BY <1>2 DEF m
    <3>1. CASE i = q + 1
      BY <3>1, <1>5, <1>7, <2>3
    <3>2. CASE i \in 1..q
      <4>1. k \in 1..(m + q)
        BY <3>2, <1>7
      <4>2. QED
        BY <3>2, <4>1, <1>5, <2>1, <2>2
    <3>3. QED
      BY <3>1, <3>2, <1>7
  <2>7. QED
    <3>1. \A i \in DOMAIN queue' : queue'[i] = Turn(Len(node_status_map) + i)'
      BY <1>5, <2>6 DEF m
    <3>2. \A i \in DOMAIN node_status_map' : node_status_map'[i].uri = Turn(i)'
      BY <1>2, <1>7, <2>5
    <3>3. pc' # "validate" /\ Started'
      BY <1>2, <1>8
    <3>4. QED
      BY <2>4, <3>1, <3>2, <3>3 DEF TurnsAreKept
<1>14. VisitedIsKnown'
  <2>1. \A i, j \in DOMAIN discovered' : i # j => discovered'[i] # discovered'[j]
    <3>1. \A i \in 1..n : discovered'[i] \in SeqElements(discovered) /\ discovered'[i] # p
      BY <1>6, <1>7, <1>9 DEF SeqElements
    <3>2. \A i, j \in 1..n : i # j => discovered'[i] # discovered'[j]
      BY <1>6, <1>7 DEF IInv, VisitedIsKnown
    <3>3. 1..(n + 1) = 1..n \cup {n + 1}
      BY <1>7
    <3>4. QED
      BY <1>6, <3>1, <3>2, <3>3
  <2>2. SeqElements(discovered') \cap SeqElements(ports_to_check') = {}
    BY <1>3, <1>6, <1>9 DEF IInv, VisitedIsKnown
  <2>3. visited' = SeqElements(ports_to_check') \cup SeqElements(discovered')
    BY <1>2, <1>3, <1>6, <1>9
  <2>4. QED
    BY <1>2, <1>8, <2>1, <2>2, <2>3 DEF VisitedIsKnown
<1>15. SourcesAreAsked'
  <2>1. node_status_map[m].healthy /\ p \in SeqElements(node_status_map[m].peers)
        /\ SeqElements(rest') \subseteq SeqElements(node_status_map[m].peers)
    BY <1>2, <1>4, <1>10 DEF IInv, SourcesAreAsked, m
  <2>2. m \in 1..m /\ m < Len(ports_to_check) + (n + 1)
    <3>1. m + q = Len(ports_to_check) + n
      BY <1>8 DEF IInv, TurnsAreKept, m, q, n
    <3>2. m # 0
      BY <1>1, <1>8 DEF m
    <3>3. QED
      BY <1>3, <1>7, <3>1, <3>2
  <2>3. \A k \in 1..n :
          \E i \in 1..m :
             /\ i < Len(ports_to_check) + k
             /\ node_status_map[i].healthy
             /\ discovered'[k] \in SeqElements(node_status_map[i].peers)
    BY <1>6, <1>7 DEF IInv, SourcesAreAsked
  <2>4. \A k \in 1..(n + 1) :
          \E i \in 1..m :
             /\ i < Len(ports_to_check) + k
             /\ node_status_map[i].healthy
             /\ discovered'[k] \in SeqElements(node_status_map[i].peers)
    <3> SUFFICES ASSUME NEW k \in 1..(n + 1), k \notin 1..n
                 PROVE  \E i \in 1..m :
                           /\ i < Len(ports_to_check) + k
                           /\ node_status_map[i].healthy
                           /\ discovered'[k] \in SeqElements(node_status_map[i].peers)
      BY <2>3
    <3>1. k = n + 1
      BY <1>7
    <3>2. QED
      BY <3>1, <1>6, <2>1, <2>2
  <2>5. QED
    BY <1>2, <1>3, <1>6, <1>7, <1>8, <2>1, <2>4 DEF SourcesAreAsked, m
<1>16. NoPeerIsForgotten'
  <2> SUFFICES ASSUME ~LimitReached(discovered)', NEW i \in DOMAIN node_status_map
               PROVE  SeqElements(node_status_map[i].peers)
                        \subseteq visited' \cup SeqElements(rest')
    BY <1>2 DEF NoPeerIsForgotten
  <2>1. rest' = Tail(rest)
    BY <1>2 DEF LimitReached
  <2>2. SeqElements(node_status_map[i].peers) \subseteq visited \cup SeqElements(rest)
    BY <1>2, <1>8 DEF IInv, NoPeerIsForgotten
  <2>3. QED
    BY <1>2, <1>4, <2>1, <2>2
<1>17. EndedForAReason' /\ CountersAgree'
  BY <1>2 DEF IInv, EndedForAReason, CountersAgree
<1>18. QED
  BY <1>11, <1>12, <1>13, <1>14, <1>15, <1>16, <1>17 DEF IInv

LEMMA SkipPeerInv ==
  ASSUME IInv, SkipPeer
  PROVE  IInv'
<1>1. /\ pc = "loop" /\ rest # <<>> /\ rest' = Tail(rest)
      /\ Head(rest) \in visited \/ LimitReached(discovered)
      /\ UNCHANGED <<args, pc, queue, visited, discovered, node_status_map,
                     total_nodes, healthy_nodes, verdict>>
  BY DEF SkipPeer, IsNew
<1>2. /\ rest' \in Seq(Endpoint)
      /\ SeqElements(rest) = {Head(rest)} \cup SeqElements(rest')
  BY <1>1, TailFacts DEF IInv, TypeOK
<1>3. ports_to_check' = ports_to_check /\ (Started' <=> Started)
  BY <1>1 DEF ports_to_check, Started
<1>4. \A i : Turn(i)' = Turn(i)
  BY <1>1, <1>3 DEF Turn
<1>5. node_status_map # <<>> /\ Started /\ args.recursive
  BY <1>1 DEF IInv, SourcesAreAsked, Started, VisitedIsKnown
<1>6. TypeOK' /\ LimitIsRespected'
  BY <1>1, <1>2 DEF IInv, TypeOK, LimitIsRespected
<1>7. TurnsAreKept'
  <2>1. /\ \A i \in DOMAIN node_status_map : node_status_map[i].uri = Turn(i)
        /\ Len(node_status_map) + Len(queue) = Len(ports_to_check) + Len(discovered)
    BY <1>5 DEF IInv, TurnsAreKept
  <2>2. \A i \in DOMAIN queue : queue[i] = Turn(Len(node_status_map) + i)
    BY <1>5 DEF IInv, TurnsAreKept
  <2>3. \A i \in DOMAIN queue' : queue'[i] = Turn(Len(node_status_map) + i)'
    <3> SUFFICES ASSUME NEW i \in DOMAIN queue, NEW k, k = Len(node_status_map) + i
                 PROVE  queue[i] = Turn(k)'
      BY <1>1
    <3>1. QED
      BY <2>2, <1>4
  <2>4. QED
    BY <1>1, <1>3, <1>4, <1>5, <2>1, <2>3 DEF TurnsAreKept
<1>8. VisitedIsKnown'
  BY <1>1, <1>3, <1>5 DEF IInv, VisitedIsKnown
<1>9. SourcesAreAsked'
  BY <1>1, <1>2, <1>3 DEF IInv, SourcesAreAsked
<1>10. NoPeerIsForgotten'
  <2> SUFFICES ASSUME ~LimitReached(discovered), NEW i \in DOMAIN node_status_map
               PROVE  SeqElements(node_status_map[i].peers)
                        \subseteq visited \cup SeqElements(rest')
    BY <1>1 DEF NoPeerIsForgotten, LimitReached
  <2>1. SeqElements(node_status_map[i].peers) \subseteq visited \cup SeqElements(rest)
    BY <1>5 DEF IInv, NoPeerIsForgotten
  <2>2. QED
    BY <1>1, <1>2, <2>1
<1>11. EndedForAReason' /\ CountersAgree'
  BY <1>1 DEF IInv, EndedForAReason, CountersAgree
<1>12. QED
  BY <1>6, <1>7, <1>8, <1>9, <1>10, <1>11 DEF IInv

LEMMA SummariseInv ==
  ASSUME IInv, Summarise
  PROVE  IInv'
<1>1. /\ pc \in {"loop", "ports"} /\ pc' = "done" /\ verdict' = Verdict
      /\ UNCHANGED <<args, queue, visited, discovered, rest, node_status_map,
                     total_nodes, healthy_nodes>>
      /\ \/ pc = "loop" /\ rest = <<>> /\ (queue = <<>> \/ LimitReached(discovered))
         \/ pc = "ports" /\ queue = <<>>
  BY DEF Summarise
<1>2. ports_to_check' = ports_to_check /\ (Started' <=> Started) /\ Verdict' = Verdict
  BY <1>1 DEF ports_to_check, Started, Verdict
<1>3. \A i : Turn(i)' = Turn(i)
  BY <1>1, <1>2 DEF Turn
<1>4. rest = <<>> /\ (queue = <<>> \/ LimitReached(discovered)) /\ Started
  BY <1>1 DEF IInv, SourcesAreAsked, TurnsAreKept
<1>5. TypeOK' /\ LimitIsRespected'
  BY <1>1 DEF IInv, TypeOK, LimitIsRespected, Verdict
<1>6. TurnsAreKept'
  <2>1. /\ \A i \in DOMAIN node_status_map : node_status_map[i].uri = Turn(i)
        /\ Len(node_status_map) + Len(queue) = Len(ports_to_check) + Len(discovered)
    BY <1>4 DEF IInv, TurnsAreKept
  <2>2. \A i \in DOMAIN queue : queue[i] = Turn(Len(node_status_map) + i)
    BY <1>4 DEF IInv, TurnsAreKept
  <2>3. \A i \in DOMAIN queue' : queue'[i] = Turn(Len(node_status_map) + i)'
    <3> SUFFICES ASSUME NEW i \in DOMAIN queue, NEW k, k = Len(node_status_map) + i
                 PROVE  queue[i] = Turn(k)'
      BY <1>1
    <3>1. QED
      BY <2>2, <1>3
  <2>4. QED
    BY <1>1, <1>2, <1>3, <1>4, <2>1, <2>3 DEF TurnsAreKept
<1>7. VisitedIsKnown'
  BY <1>1, <1>2, <1>4 DEF IInv, VisitedIsKnown
<1>8. SourcesAreAsked'
  BY <1>1, <1>2, <1>4 DEF IInv, SourcesAreAsked
<1>9. NoPeerIsForgotten'
  BY <1>1 DEF IInv, NoPeerIsForgotten, LimitReached
<1>10. EndedForAReason'
  BY <1>1, <1>4 DEF EndedForAReason, LimitReached
<1>11. CountersAgree'
  BY <1>1, <1>2 DEF IInv, CountersAgree
<1>12. QED
  BY <1>5, <1>6, <1>7, <1>8, <1>9, <1>10, <1>11 DEF IInv

\* A query that is answered, and one that is not, in both modes.
LEMMA EntriesAreStatus ==
  ASSUME queue \in Seq(Endpoint), queue # <<>>, NEW peers \in PeerLists
  PROVE  /\ [uri |-> Head(queue), healthy |-> TRUE, peers |-> peers] \in Status
         /\ [uri |-> Head(queue), healthy |-> FALSE, peers |-> <<>>] \in Status
<1>1. Head(queue) \in Endpoint
  OBVIOUS
<1>2. QED
  BY <1>1, EmptyList DEF Status

LEMMA AnsweredInv ==
  ASSUME IInv, QueryAnswered \/ PortAnswered
  PROVE  IInv'
<1>1. PICK peers \in PeerLists :
        /\ Answered(peers) /\ queue # <<>> /\ UNCHANGED <<args, pc, visited, discovered, verdict>>
        /\ \/ pc = "loop" /\ rest = <<>> /\ rest' = peers
           \/ pc = "ports" /\ rest' = rest
  BY DEF QueryAnswered, PortAnswered, MayQuery
<1>2. queue \in Seq(Endpoint) /\ healthy_nodes \in Nat /\ rest = <<>>
  BY <1>1 DEF IInv, TypeOK, SourcesAreAsked
<1> DEFINE entry == [uri |-> Head(queue), healthy |-> TRUE, peers |-> peers]
<1>3. entry \in Status /\ entry.uri = Head(queue) /\ entry.healthy /\ entry.peers = peers
  BY <1>1, <1>2, EntriesAreStatus
<1>4. /\ node_status_map' = Append(node_status_map, entry) /\ queue' = Tail(queue)
      /\ total_nodes' = total_nodes + 1
      /\ healthy_nodes' = healthy_nodes + (IF entry.healthy THEN 1 ELSE 0)
  BY <1>1, <1>3 DEF Answered
<1> HIDE DEF entry
<1>5. rest' = (IF pc = "loop" THEN entry.peers ELSE <<>>) /\ pc \in {"loop", "ports"}
  BY <1>1, <1>2, <1>3
<1>6. QED
  BY <1>1, <1>2, <1>3, <1>4, <1>5, QueryInv

LEMMA NotAnsweredInv ==
  ASSUME IInv, QueryFails \/ PortFails
  PROVE  IInv'
<1>1. /\ NotAnswered /\ queue # <<>> /\ UNCHANGED <<args, pc, visited, discovered, verdict>>
      /\ pc \in {"loop", "ports"} /\ rest' = rest /\ (pc = "loop" => rest = <<>>)
  BY DEF QueryFails, PortFails, MayQuery
<1>2. queue \in Seq(Endpoint) /\ healthy_nodes \in Nat /\ rest = <<>>
  BY <1>1 DEF IInv, TypeOK, SourcesAreAsked
<1> DEFINE entry == [uri |-> Head(queue), healthy |-> FALSE, peers |-> <<>>]
<1>3. entry \in Status /\ entry.uri = Head(queue) /\ ~entry.healthy /\ entry.peers = <<>>
  BY <1>1, <1>2, EntriesAreStatus, EmptyList
<1>4. /\ node_status_map' = Append(node_status_map, entry) /\ queue' = Tail(queue)
      /\ total_nodes' = total_nodes + 1
      /\ healthy_nodes' = healthy_nodes + (IF entry.healthy THEN 1 ELSE 0)
  BY <1>1, <1>2, <1>3 DEF NotAnswered
<1> HIDE DEF entry
<1>5. rest' = (IF pc = "loop" THEN entry.peers ELSE <<>>)
  BY <1>1, <1>2, <1>3
<1>6. QED
  BY <1>1, <1>2, <1>3, <1>4, <1>5, QueryInv

\* A search that waits for ever keeps everything as it is.
LEMMA NeverAnsweredInv ==
  ASSUME IInv, NeverAnswered
  PROVE  IInv'
<1>1. /\ pc \in {"loop", "ports"} /\ pc' = "stuck" /\ queue # <<>> /\ rest = <<>>
      /\ UNCHANGED <<args, queue, visited, discovered, rest, node_status_map,
                     total_nodes, healthy_nodes, verdict>>
  BY DEF NeverAnswered, MayQuery, IInv, SourcesAreAsked
<1>2. /\ UNCHANGED ports_to_check
      /\ TypeOK' /\ LimitIsRespected' /\ TurnsAreKept'
  BY <1>1 DEF IInv, TypeOK, LimitIsRespected, TurnsAreKept, Turn, Started, ports_to_check
<1>3. VisitedIsKnown' /\ SourcesAreAsked'
  BY <1>1, <1>2 DEF IInv, VisitedIsKnown, SourcesAreAsked, Started
<1>4. NoPeerIsForgotten' /\ EndedForAReason' /\ CountersAgree'
  BY <1>1 DEF IInv, NoPeerIsForgotten, EndedForAReason, CountersAgree, LimitReached
<1>5. QED
  BY <1>2, <1>3, <1>4 DEF IInv

LEMMA StepInv == IInv /\ [Next]_vars => IInv'
<1> SUFFICES ASSUME IInv, [Next]_vars PROVE IInv'
  OBVIOUS
<1>1. CASE Refuse \/ NothingToCheck
  BY <1>1, RefuseInv
<1>2. CASE Start
  BY <1>2, StartInv
<1>3. CASE QueryAnswered \/ PortAnswered
  BY <1>3, AnsweredInv
<1>4. CASE QueryFails \/ PortFails
  BY <1>4, NotAnsweredInv
<1>5. CASE AddPeer
  BY <1>5, AddPeerInv
<1>6. CASE SkipPeer
  BY <1>6, SkipPeerInv
<1>7. CASE Summarise
  BY <1>7, SummariseInv
<1>8. CASE NeverAnswered
  BY <1>8, NeverAnsweredInv
<1>9. CASE UNCHANGED vars
  BY <1>9 DEF vars, IInv, TypeOK, LimitIsRespected, TurnsAreKept, Turn, Started,
     VisitedIsKnown, SourcesAreAsked, NoPeerIsForgotten, EndedForAReason, CountersAgree,
     Verdict, LimitReached, ports_to_check
<1>10. QED
  BY <1>1, <1>2, <1>3, <1>4, <1>5, <1>6, <1>7, <1>8, <1>9 DEF Next, Search

-----------------------------------------------------------------------------
\* The queue, visited, the peers found and the entries fit together at all
\* times, for any network.
THEOREM Invariance == Spec => []IInv
BY InitInv, StepInv, PTL DEF Spec

\* What the invariant says of two turns: only given ports are repeated.
LEMMA TurnsRepeatPortsOnly ==
  ASSUME IInv, NEW i \in DOMAIN node_status_map, NEW j \in DOMAIN node_status_map,
         i < j, node_status_map[i].uri = node_status_map[j].uri
  PROVE  j <= Len(ports_to_check)
<1> DEFINE ports == Len(ports_to_check)
<1>1. /\ ports_to_check \in Seq(Endpoint) /\ discovered \in Seq(Endpoint)
      /\ node_status_map \in Seq(Status) /\ queue \in Seq(Endpoint)
  BY PortsAreEndpoints DEF IInv, TypeOK
<1>2. Started
  BY <1>1 DEF Started
<1>3. Turn(i) = Turn(j)
  BY <1>2 DEF IInv, TurnsAreKept
<1>4. /\ i \in Nat /\ j \in Nat /\ i > 0 /\ ports \in Nat
      /\ j <= ports + Len(discovered) /\ Len(discovered) \in Nat
  BY <1>1, <1>2 DEF IInv, TurnsAreKept
<1>5. SUFFICES ASSUME ~(j <= ports) PROVE FALSE
  OBVIOUS
<1>6. j - ports \in DOMAIN discovered /\ Turn(j) = discovered[j - ports]
  BY <1>1, <1>4, <1>5 DEF Turn
<1>7. CASE i <= ports
  <2>1. Turn(i) = ports_to_check[i] /\ i \in DOMAIN ports_to_check
    BY <1>1, <1>4, <1>7 DEF Turn
  <2>2. Turn(i) \in SeqElements(ports_to_check) /\ Turn(j) \in SeqElements(discovered)
    BY <2>1, <1>6, Zenon DEF SeqElements
  <2>3. QED
    BY <1>3, <2>2 DEF IInv, VisitedIsKnown
<1>8. CASE ~(i <= ports)
  <2>1. Turn(i) = discovered[i - ports] /\ i - ports \in DOMAIN discovered
    BY <1>1, <1>4, <1>8 DEF Turn
  <2>2. i - ports # j - ports
    BY <1>4
  <2>3. QED
    BY <1>3, <1>6, <2>1, <2>2 DEF IInv, VisitedIsKnown
<1>9. QED
  BY <1>7, <1>8

\* Cyclic peer lists do not lead the search in circles.
THEOREM AskedOnce == Spec => []PeersAreAskedOnce
<1>1. IInv => PeersAreAskedOnce
  BY TurnsRepeatPortsOnly DEF PeersAreAskedOnce
<1>2. QED
  BY <1>1, Invariance, PTL

\* No more peers are found than --max-peers allows.
THEOREM LimitHolds == Spec => []LimitIsRespected
<1>1. IInv => LimitIsRespected
  BY DEF IInv
<1>2. QED
  BY <1>1, Invariance, PTL

\* An endpoint was given, or was listed by a node that answered before.
LEMMA TurnsAreJustified ==
  ASSUME IInv, NEW j \in DOMAIN node_status_map, ~(j <= Len(ports_to_check))
  PROVE  \E i \in 1..(j - 1) :
            /\ node_status_map[i].healthy
            /\ node_status_map[j].uri \in SeqElements(node_status_map[i].peers)
<1> DEFINE ports == Len(ports_to_check)
           k == j - ports
<1>1. /\ ports_to_check \in Seq(Endpoint) /\ discovered \in Seq(Endpoint)
      /\ node_status_map \in Seq(Status) /\ queue \in Seq(Endpoint)
  BY PortsAreEndpoints DEF IInv, TypeOK
<1>2. Started
  BY <1>1 DEF Started
<1>3. node_status_map[j].uri = Turn(j)
  BY <1>2 DEF IInv, TurnsAreKept
<1>4. j \in Nat /\ ports \in Nat /\ j <= ports + Len(discovered) /\ Len(discovered) \in Nat
  BY <1>1, <1>2 DEF IInv, TurnsAreKept
<1>5. k \in DOMAIN discovered /\ Turn(j) = discovered[k] /\ ports + k = j
  BY <1>1, <1>4 DEF Turn
<1>6. PICK i \in DOMAIN node_status_map :
         /\ i < ports + k
         /\ node_status_map[i].healthy
         /\ discovered[k] \in SeqElements(node_status_map[i].peers)
  BY <1>5 DEF IInv, SourcesAreAsked
<1>7. i \in 1..(j - 1)
  BY <1>1, <1>4, <1>5, <1>6
<1>8. QED
  BY <1>3, <1>5, <1>6, <1>7

THEOREM QueriesHaveReasons == Spec => []QueriesAreJustified
<1>1. ASSUME IInv, NEW j \in DOMAIN node_status_map, j <= Len(ports_to_check)
      PROVE  node_status_map[j].uri = ports_to_check[j]
  <2>1. Started
    <3>1. node_status_map \in Seq(Status)
      BY <1>1 DEF IInv, TypeOK
    <3>2. QED
      BY <1>1, <3>1 DEF Started
  <2>2. QED
    BY <1>1, <2>1 DEF IInv, TurnsAreKept, Turn
<1>2. IInv => QueriesAreJustified
  BY <1>1, TurnsAreJustified DEF QueriesAreJustified
<1>3. QED
  BY <1>2, Invariance, PTL

\* What the search ends with, when not cut short, is closed under peer lists.
LEMMA EndIsComplete ==
  ASSUME IInv, pc = "done", args.recursive, node_status_map # <<>>,
         ~LimitReached(discovered)
  PROVE  /\ SeqElements(ports_to_check) \subseteq Queried
         /\ \A i \in DOMAIN node_status_map :
               SeqElements(node_status_map[i].peers) \subseteq Queried
<1> DEFINE ports == Len(ports_to_check)
<1>1. /\ ports_to_check \in Seq(Endpoint) /\ discovered \in Seq(Endpoint)
      /\ node_status_map \in Seq(Status)
  BY PortsAreEndpoints DEF IInv, TypeOK
<1>2. Started /\ rest = <<>> /\ queue = <<>>
  BY DEF Started, IInv, EndedForAReason
<1>3. /\ ports \in Nat /\ Len(discovered) \in Nat
      /\ DOMAIN node_status_map = 1..(ports + Len(discovered))
  BY <1>1, <1>2 DEF IInv, TurnsAreKept
<1>4. \A i \in DOMAIN node_status_map : Turn(i) \in Queried
  BY <1>2 DEF IInv, TurnsAreKept, Queried
<1>5. SeqElements(ports_to_check) \subseteq Queried
  <2> SUFFICES ASSUME NEW i \in DOMAIN ports_to_check PROVE ports_to_check[i] \in Queried
    BY DEF SeqElements
  <2>1. i \in DOMAIN node_status_map /\ Turn(i) = ports_to_check[i]
    BY <1>1, <1>3 DEF Turn
  <2>2. QED
    BY <1>4, <2>1
<1>6. SeqElements(discovered) \subseteq Queried
  <2> SUFFICES ASSUME NEW i \in DOMAIN discovered PROVE discovered[i] \in Queried
    BY DEF SeqElements
  <2>1. ports + i \in DOMAIN node_status_map /\ Turn(ports + i) = discovered[i]
    BY <1>1, <1>3 DEF Turn
  <2>2. QED
    BY <1>4, <2>1
<1>7. visited \subseteq Queried
  BY <1>2, <1>5, <1>6 DEF IInv, VisitedIsKnown
<1>8. \A i \in DOMAIN node_status_map :
         SeqElements(node_status_map[i].peers) \subseteq visited
  BY <1>2, EmptyList DEF IInv, NoPeerIsForgotten
<1>9. QED
  BY <1>5, <1>7, <1>8

\* Without a limit in the way, exactly what can be reached has been asked.
THEOREM DiscoveryCompletes == Spec => []DiscoveryIsComplete
<1>1. IInv => DiscoveryIsComplete
  BY EndIsComplete DEF DiscoveryIsComplete
<1>2. QED
  BY <1>1, Invariance, PTL

\* The counters, and with them the last line, agree with what was recorded.
THEOREM VerdictsAreRight == Spec => []VerdictIsRight
<1>1. ASSUME IInv, pc = "done", node_status_map # <<>>
      PROVE  /\ verdict = "all healthy" <=>
                  \A i \in DOMAIN node_status_map : node_status_map[i].healthy
             /\ verdict = "none healthy" <=>
                  \A i \in DOMAIN node_status_map : ~node_status_map[i].healthy
  <2>1. verdict = Verdict /\ total_nodes # 0
    <3>1. Started
      BY <1>1 DEF Started
    <3>2. node_status_map \in Seq(Status)
      BY <1>1 DEF IInv, TypeOK
    <3>3. QED
      BY <1>1, <3>1, <3>2 DEF IInv, CountersAgree
  <2>2. /\ healthy_nodes = 0 <=> \A i \in DOMAIN node_status_map : ~node_status_map[i].healthy
        /\ healthy_nodes = total_nodes <=>
              \A i \in DOMAIN node_status_map : node_status_map[i].healthy
    BY <1>1 DEF IInv, CountersAgree
  <2>3. QED
    BY <2>1, <2>2 DEF Verdict
<1>2. IInv => VerdictIsRight
  BY <1>1 DEF VerdictIsRight
<1>3. QED
  BY <1>2, Invariance, PTL

-----------------------------------------------------------------------------
\* Products of naturals, and how they grow.
LEMMA Products ==
  ASSUME NEW k \in Nat, NEW m \in Nat, NEW c \in Nat
  PROVE  /\ k * c \in Nat
         /\ k <= m => k * c <= m * c
         /\ (k + 1) * c = k * c + c
<1>1. /\ k * c \in Nat /\ (k + 1) * c = k * c + c
  OBVIOUS
<1>2. ASSUME k <= m PROVE k * c <= m * c
  <2>1. PICK d \in Nat : m = k + d
    <3>1. m - k \in Nat /\ m = k + (m - k)
      BY <1>2
    <3> QED
      BY <3>1
  <2>2. (k + d) * c = k * c + d * c /\ d * c \in Nat
    OBVIOUS
  <2> QED
    BY <1>1, <2>1, <2>2
<1> QED
  BY <1>1, <1>2

\* What is left to be visited is counted, and a new peer counts once.
LEMMA UnvisitedCount ==
  ASSUME NEW seen \in SUBSET Endpoint
  PROVE  /\ Cardinality(Endpoint \ seen) \in Nat
         /\ Cardinality(Endpoint \ seen) <= Cardinality(Endpoint)
         /\ \A p \in Endpoint \ seen :
               Cardinality(Endpoint \ (seen \cup {p})) = Cardinality(Endpoint \ seen) - 1
<1>1. /\ IsFiniteSet(Endpoint \ seen) /\ Cardinality(Endpoint \ seen) \in Nat
      /\ Cardinality(Endpoint \ seen) <= Cardinality(Endpoint)
  BY FiniteAssumption, FS_Subset, FS_CardinalityType, Endpoint \ seen \subseteq Endpoint
<1>2. ASSUME NEW p \in Endpoint \ seen
      PROVE  Cardinality(Endpoint \ (seen \cup {p})) = Cardinality(Endpoint \ seen) - 1
  <2> DEFINE left == Endpoint \ seen
  <2>1. Endpoint \ (seen \cup {p}) = left \ {p} /\ p \in left /\ IsFiniteSet(left)
    BY <1>1
  <2> HIDE DEF left
  <2>2. Cardinality(left \ {p}) = Cardinality(left) - 1
    BY <2>1, FS_RemoveElement
  <2> QED
    BY <2>1, <2>2 DEF left
<1> QED
  BY <1>1, <1>2

\* An answer lists no more peers than MaxList.
LEMMA ListsAreShort ==
  ASSUME NEW peers \in PeerLists
  PROVE  Len(peers) \in 0..MaxList
<1>1. PICK n \in 0..MaxList : peers \in [1..n -> Endpoint]
  BY DEF PeerLists
<1> QED
  BY <1>1

\* Endpoints move from unvisited to queued, from there to asked, and their peers are
\* looked at one by one.
LEMMA StepUsesSteps ==
  ASSUME IInv, Next
  PROVE  StepsLeft' \in 0..(StepsLeft - 1)
<1> DEFINE c == MaxList + 1
           u == Unvisited
           q == Len(queue)
           r == Len(rest)
           ports == Len(ports_to_check)
           all == Cardinality(Endpoint)
<1>1. /\ queue \in Seq(Endpoint) /\ rest \in Seq(Endpoint) /\ visited \in SUBSET Endpoint
      /\ ports_to_check \in Seq(Endpoint)
  BY PortsAreEndpoints DEF IInv, TypeOK
<1>2. /\ c \in Nat /\ u \in Nat /\ q \in Nat /\ r \in Nat /\ ports \in Nat
      /\ all \in Nat /\ MaxList \in Nat
  BY <1>1, UnvisitedCount, FiniteAssumption, FS_CardinalityType DEF Unvisited
<1>3. /\ pc = "validate" => StepsLeft = (all + ports) * c + 2
      /\ pc \in {"loop", "ports"} => StepsLeft = (u + q) * c + r + 1
  BY DEF StepsLeft
<1>4. /\ pc' \in {"done", "stuck"} => StepsLeft' = 0
      /\ pc' \in {"loop", "ports"} => StepsLeft' = (u' + q') * c + r' + 1
  BY DEF StepsLeft
<1>5. CASE Refuse \/ NothingToCheck \/ Summarise \/ NeverAnswered
  <2>1. pc \in {"validate", "loop", "ports"} /\ pc' \in {"done", "stuck"}
    BY <1>5 DEF Refuse, NothingToCheck, Summarise, NeverAnswered, MayQuery
  <2>2. (all + ports) * c \in Nat /\ (u + q) * c \in Nat
    BY <1>2, Products
  <2> HIDE DEF c, u, q, r, ports, all
  <2>3. StepsLeft \in Nat \ {0}
    BY <1>2, <1>3, <2>1, <2>2
  <2> QED
    BY <1>4, <2>1, <2>3
<1>6. CASE Start
  <2>1. /\ pc = "validate" /\ pc' \in {"loop", "ports"} /\ q' = ports /\ rest' = rest
        /\ visited' \in {SeqElements(ports_to_check), {}}
    BY <1>6 DEF Start
  <2>2. r' = 0
    BY <2>1 DEF IInv, TurnsAreKept
  <2>3. u' \in Nat /\ u' <= all
    <3>1. visited' \in SUBSET Endpoint
      BY <1>1, <2>1, ElementsAreMembers
    <3> QED
      BY <3>1, UnvisitedCount DEF Unvisited
  <2> DEFINE more == (all + ports) * c
             less == (u' + ports) * c
  <2>4. less \in Nat /\ more \in Nat /\ less <= more
    <3>1. u' + ports \in Nat /\ all + ports \in Nat /\ u' + ports <= all + ports
      BY <1>2, <2>3
    <3> QED
      BY <1>2, <3>1, Products
  <2>5. StepsLeft = more + 2 /\ StepsLeft' = less + 1
    BY <1>3, <1>4, <2>1, <2>2, <2>4
  <2> HIDE DEF more, less
  <2> QED
    BY <2>4, <2>5
<1>7. CASE QueryAnswered \/ PortAnswered \/ QueryFails \/ PortFails
  <2>1. /\ pc \in {"loop", "ports"} /\ pc' = pc /\ queue # <<>> /\ queue' = Tail(queue)
        /\ visited' = visited
    BY <1>7 DEF QueryAnswered, PortAnswered, QueryFails, PortFails, MayQuery, Answered,
       NotAnswered
  <2>2. rest' \in PeerLists \/ rest' = rest
    BY <1>7 DEF QueryAnswered, PortAnswered, QueryFails, PortFails
  <2>3. r' \in Nat /\ r' <= r + MaxList
    BY <1>1, <1>2, <2>2, ListsAreShort
  <2>4. u' = u /\ q' = q - 1 /\ q >= 1
    BY <1>1, <2>1, TailFacts DEF Unvisited
  <2> DEFINE k == u + q - 1
  <2>5. k \in Nat /\ u + q = k + 1 /\ u' + q' = k
    BY <1>2, <2>4
  <2>6. k * c \in Nat /\ (k + 1) * c = k * c + c
    BY <1>2, <2>5, Products
  <2>7. StepsLeft = k * c + c + r + 1 /\ StepsLeft' = k * c + r' + 1
    BY <1>3, <1>4, <2>1, <2>5, <2>6
  <2>8. c = MaxList + 1
    OBVIOUS
  <2> HIDE DEF k, c, r
  <2> QED
    BY <1>2, <2>3, <2>6, <2>7, <2>8
<1>8. CASE AddPeer
  <2>1. /\ pc = "loop" /\ pc' = pc /\ rest # <<>> /\ Head(rest) \notin visited
        /\ visited' = visited \cup {Head(rest)} /\ queue' = Append(queue, Head(rest))
        /\ rest' \in {<<>>, Tail(rest)}
    BY <1>8 DEF AddPeer, IsNew
  <2>2. Head(rest) \in Endpoint \ visited /\ r' \in Nat /\ r' < r
    BY <1>1, <2>1, TailFacts
  <2>3. u' = u - 1
    BY <1>1, <2>1, <2>2, UnvisitedCount DEF Unvisited
  <2>4. q' = q + 1
    BY <1>1, <2>1, <2>2, AppendFacts
  <2> DEFINE k == (u + q) * c
  <2>5. u' + q' = u + q /\ k \in Nat
    BY <1>2, <2>3, <2>4, Products
  <2>6. StepsLeft = k + r + 1 /\ StepsLeft' = k + r' + 1
    BY <1>3, <1>4, <2>1, <2>5
  <2> HIDE DEF k
  <2> QED
    BY <1>2, <2>2, <2>5, <2>6
<1>9. CASE SkipPeer
  <2>1. /\ pc = "loop" /\ pc' = pc /\ rest # <<>> /\ rest' = Tail(rest)
        /\ u' = u /\ q' = q
    BY <1>9 DEF SkipPeer, Unvisited
  <2>2. r' = r - 1 /\ r >= 1
    BY <1>1, <2>1, TailFacts
  <2>3. (u + q) * c \in Nat
    BY <1>2, Products
  <2>4. StepsLeft = (u + q) * c + r + 1 /\ StepsLeft' = (u + q) * c + r' + 1
    BY <1>3, <1>4, <2>1
  <2> HIDE DEF u, q, c, r
  <2> QED
    BY <1>2, <2>2, <2>3, <2>4
<1> QED
  BY <1>5, <1>6, <1>7, <1>8, <1>9 DEF Next, Search

\* The search runs out of steps, for any peer lists: what is left of AlwaysEnds without
\* fairness.
THEOREM SearchRunsOut == Spec => StepsRunOut
<1>1. IInv /\ [Next]_vars => [StepsLeft' \in 0..(StepsLeft - 1)]_vars
  BY StepUsesSteps
<1> QED
  BY <1>1, Invariance, PTL DEF Spec, StepsRunOut
=============================================================================
