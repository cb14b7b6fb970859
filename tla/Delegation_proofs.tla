------------------------- MODULE Delegation_proofs --------------------------
(* Proofs about Delegation: tasks are handed out once, the A2A store keeps    *)
(* what is in progress and little more, a hand has one agent it can reach, a  *)
(* connected peer has a connection, links are mutual, and types are kept.     *)
EXTENDS Delegation, FiniteSetTheorems, WellFoundedInduction, TLAPS

-----------------------------------------------------------------------------
(* The task queue *)

\* The first of the tasks an agent may claim is one of them (substrate.rs:466).
LEMMA MinIn ==
    ASSUME NEW S \in SUBSET Nat, S # {}
    PROVE  Min(S) \in S
<1> DEFINE less == {ss \in Nat \X Nat : ss[1] < ss[2]}
<1>1. IsWellFoundedOn(less, Nat)
  BY NatLessThanWellFounded, Zenon DEF OpToRel
<1>2. PICK x \in S : \A y \in S : ~ (<<y, x>> \in less)
  <2> HIDE DEF less
  <2>1. QED
    BY <1>1, WFMin
<1>3. ASSUME NEW y \in S PROVE x <= y
  <2>1. x \in Nat /\ y \in Nat
    OBVIOUS
  <2>2. y < x => <<y, x>> \in less
    BY <2>1
  <2> HIDE DEF less
  <2>3. ~ (y < x)
    BY <1>2, <2>2
  <2>4. QED
    BY <2>1, <2>3
<1>4. QED
  BY <1>3 DEF Min

\* A task that nobody could claim yet was not handed out.
TaskInv ==
    /\ TaskTypeOK /\ HandedOutOnce
    /\ \A t \in TaskIds : tasks[t].status \in {"none", "posting"} => claims[t] = 0

LEMMA TaskStep ==
    ASSUME TaskInv, TaskNext \/ TaskRestart \/ UNCHANGED taskState
    PROVE  TaskInv'
<1> USE DEF TaskInv, TaskTypeOK, HandedOutOnce
<1>1. ASSUME NEW t \in TaskIds, TaskStamp(t) PROVE TaskInv'
  BY <1>1 DEF TaskStamp
<1>2. ASSUME NEW t \in TaskIds, TaskComplete(t) PROVE TaskInv'
  BY <1>2 DEF TaskComplete
<1>3. ASSUME NEW t \in TaskIds, NEW to \in Owners, TaskPost(t, to) PROVE TaskInv'
  BY <1>3 DEF TaskPost, Owners
<1>4. ASSUME NEW a \in Owners, TaskClaim(a) PROVE TaskInv'
  <2> DEFINE t == Min(Claimable(a))
  <2>1. t \in TaskIds /\ tasks[t].status = "pending"
    <3>1. Claimable(a) \subseteq Nat /\ Claimable(a) # {}
      BY <1>4, DelegationAssumption DEF Claimable, TaskClaim, TaskIds
    <3>2. QED
      BY <3>1, MinIn DEF Claimable
  <2>2. /\ tasks' = [tasks EXCEPT ![t] = [status |-> "in_progress", assigned |-> a]]
        /\ claims' = [claims EXCEPT ![t] = @ + 1]
    BY <1>4 DEF TaskClaim
  <2> HIDE DEF t
  <2>3. QED
    BY <1>4, <2>1, <2>2
<1>5. CASE TaskRestart
  BY <1>5 DEF TaskRestart
<1>6. CASE UNCHANGED taskState
  BY <1>6 DEF taskState
<1>7. QED
  BY <1>1, <1>2, <1>3, <1>4, <1>5, <1>6 DEF TaskNext

LEMMA TaskInvariant == Spec => []TaskInv
<1>1. Init => TaskInv
  BY DEF Init, TaskInit, TaskInv, TaskTypeOK, HandedOutOnce, Owners
<1>2. TaskInv /\ [Next]_vars => TaskInv'
  BY TaskStep DEF Next, vars, Restart, OtherRestart, taskState
<1>3. QED
  BY <1>1, <1>2, PTL DEF Spec

\* No task is handed out twice, for any number of agents and tasks, whatever
\* hands, other systems and restarts do meanwhile (substrate.rs:466).
THEOREM HandedOutTheorem == Spec => []HandedOutOnce
<1>1. TaskInv => HandedOutOnce
  BY DEF TaskInv
<1>2. QED
  BY <1>1, TaskInvariant, PTL

-----------------------------------------------------------------------------
(* Peers *)

Entry == [connected : BOOLEAN, listens : BOOLEAN]
Place == [kind : {"none", "link", "message"}, from : Ids \cup {<<>>}, to : Ids \cup {<<>>},
          client : Client, server : Server, up : BOOLEAN]

PeerTypeInv ==
    /\ epoch \in [Nodes -> Nat] /\ conn \in [Conns -> Place]
    /\ peers = [n \in Nodes |-> peers[n]]
    /\ \A n \in Nodes : \A id \in DOMAIN peers[n] : id \in Ids /\ peers[n][id] \in Entry

\* An end that is not done is at the node as it runs now; a handshake was
\* answered only between nodes of one secret; and who accepted the connection
\* has the other in its registry.
ConnOK(c) ==
    \/ conn[c].from = <<>> /\ conn[c].to = <<>> /\ conn[c].client = "done" /\ conn[c].server = "done"
    \/ /\ conn[c].from \in Ids /\ conn[c].to \in Ids
       /\ conn[c].to[2] <= epoch[conn[c].to[1]]
       /\ conn[c].client # "done" => conn[c].from = Id(conn[c].from[1])
       /\ conn[c].server # "done" => conn[c].to = Id(conn[c].to[1])
       /\ conn[c].server \in {"ack", "loop", "ending"} =>
             SecretOf[conn[c].from[1]] = SecretOf[conn[c].to[1]]
       /\ conn[c].server \in {"loop", "ending"} => conn[c].from \in DOMAIN peers[conn[c].to[1]]

ConnInv == \A c \in Conns : ConnOK(c)

PeerInv == PeerTypeInv /\ ConnInv /\ ConnectedHasLoop /\ LinksAreMutual

\* An identifier is a node and the number of its start.
LEMMA IdsAre ==
    ASSUME epoch \in [Nodes -> Nat]
    PROVE  /\ \A n \in Nodes : Id(n) \in Ids /\ Id(n)[1] = n /\ Id(n)[2] = epoch[n]
           /\ \A id \in Ids : id[1] \in Nodes /\ id[2] \in Nat
BY DEF Id, Ids

\* A connection goes on or breaks without a change of any registry: who
\* has a loop keeps it until it marks the peer (peer.rs:537).
LEMMA QuietStep ==
    ASSUME PeerInv, UNCHANGED <<epoch, peers, orphaned>>, NEW c \in Conns, NEW r \in Place,
           conn' = [conn EXCEPT ![c] = r],
           r.from = conn[c].from, r.to = conn[c].to,
           conn[c].client = "done" => r.client = "done",
           conn[c].client \in {"loop", "ending"} => r.client \in {"loop", "ending"},
           r.client = "loop" => conn[c].client = "loop",
           conn[c].server = "done" => r.server = "done",
           conn[c].server = "ack" /\ r.client = "loop" => r.server = "ack",
           conn[c].server \in {"loop", "ending"} <=> r.server \in {"loop", "ending"},
           r.server = "ack" => SecretOf[r.from[1]] = SecretOf[r.to[1]]
    PROVE  PeerInv'
<1>1. conn'[c] = r /\ \A x \in Conns : x # c => conn'[x] = conn[x]
  BY DEF PeerInv, PeerTypeInv
<1>2. PeerTypeInv'
  BY DEF PeerInv, PeerTypeInv
<1>3. \A n : Id(n)' = Id(n)
  BY DEF Id
<1>4. ConnInv'
  BY <1>1, <1>3 DEF PeerInv, ConnInv, ConnOK
<1>5. ConnectedHasLoop'
  BY <1>1, <1>3 DEF PeerInv, ConnectedHasLoop
<1>6. LinksAreMutual'
  BY <1>1, <1>3 DEF PeerInv, LinksAreMutual, MutuallyKnown, PeersShareSecret
<1>7. QED
  BY <1>2, <1>4, <1>5, <1>6 DEF PeerInv

\* A connection begins with nothing known at either end (peer.rs:174).
LEMMA ConnectStep ==
    ASSUME PeerInv, NEW c \in Conns, NEW n \in Nodes, NEW m \in Nodes,
           NEW kind \in {"link", "message"}, Connect(c, n, m, kind)
    PROVE  PeerInv'
<1> DEFINE r == [kind |-> kind, from |-> Id(n), to |-> Id(m),
                 client |-> "wait", server |-> "accept", up |-> TRUE]
<1>1. conn' = [conn EXCEPT ![c] = r] /\ conn[c] = NoConn /\ UNCHANGED <<epoch, peers, orphaned>>
  BY DEF Connect
<1>2. r \in Place
  BY IdsAre DEF PeerInv, PeerTypeInv, Place, Client, Server
<1>3. r.from = Id(n) /\ r.to = Id(m) /\ r.client = "wait" /\ r.server = "accept"
  OBVIOUS
<1> HIDE DEF r
<1>4. conn'[c] = r /\ \A x \in Conns : x # c => conn'[x] = conn[x]
  BY <1>1 DEF PeerInv, PeerTypeInv
<1>5. conn[c].client = "done" /\ conn[c].server = "done"
  BY <1>1 DEF NoConn
<1>6. PeerTypeInv'
  BY <1>1, <1>2 DEF PeerInv, PeerTypeInv
<1>7. \A x : Id(x)' = Id(x)
  BY <1>1 DEF Id
<1>8. ConnInv'
  <2>1. /\ r.from \in Ids /\ r.to \in Ids /\ r.to[2] <= epoch[r.to[1]]
        /\ r.from = Id(r.from[1]) /\ r.to = Id(r.to[1])
    BY <1>3, IdsAre DEF PeerInv, PeerTypeInv
  <2>2. QED
    BY <1>1, <1>3, <1>4, <1>7, <2>1 DEF PeerInv, ConnInv, ConnOK
<1>9. ConnectedHasLoop'
  BY <1>1, <1>4, <1>5, <1>7 DEF PeerInv, ConnectedHasLoop
<1>10. LinksAreMutual'
  BY <1>1, <1>3, <1>4, <1>7 DEF PeerInv, LinksAreMutual, MutuallyKnown, PeersShareSecret
<1>11. QED
  BY <1>6, <1>8, <1>9, <1>10 DEF PeerInv

\* Both ends register the other once the handshake is through (peer.rs:488).
LEMMA AddStep ==
    ASSUME PeerInv, UNCHANGED <<epoch, orphaned>>, NEW c \in Conns, NEW r \in Place, NEW listens \in BOOLEAN,
           NEW n \in Nodes, NEW id \in Ids,
           conn' = [conn EXCEPT ![c] = r], peers' = Added(n, id, listens),
           r.from = conn[c].from, r.to = conn[c].to, r.from \in Ids, r.to \in Ids,
           SecretOf[r.from[1]] = SecretOf[r.to[1]],
           \/ /\ n = r.to[1] /\ id = r.from /\ r.client = conn[c].client
              /\ conn[c].server = "ack" /\ r.server = "loop"
           \/ /\ n = r.from[1] /\ id = r.to /\ r.server = conn[c].server
              /\ conn[c].client = "wait" /\ r.client = "loop"
              /\ conn[c].server \in {"ack", "loop", "ending"}
    PROVE  PeerInv'
<1>1. conn'[c] = r /\ \A x \in Conns : x # c => conn'[x] = conn[x]
  BY DEF PeerInv, PeerTypeInv
<1>2. /\ peers' = [m \in Nodes |-> peers'[m]]
      /\ \A m \in Nodes : m # n => peers'[m] = peers[m]
      /\ DOMAIN peers'[n] = DOMAIN peers[n] \cup {id}
      /\ peers'[n][id] = [connected |-> TRUE, listens |-> listens]
      /\ \A x \in DOMAIN peers[n] : x # id => peers'[n][x] = peers[n][x]
  BY DEF Added, PeerInv, PeerTypeInv
<1>3. \A m : Id(m)' = Id(m)
  BY DEF Id
<1>4. PeerTypeInv'
  <2>1. ASSUME NEW m \in Nodes, NEW x \in DOMAIN peers'[m]
        PROVE  x \in Ids /\ peers'[m][x] \in Entry
    <3>1. CASE m = n /\ x = id
      <4>1. [connected |-> TRUE, listens |-> listens] \in Entry
        BY DEF Entry
      <4>2. QED
        BY <1>2, <3>1, <4>1
    <3>2. CASE ~ (m = n /\ x = id)
      <4>1. x \in DOMAIN peers[m] /\ peers'[m][x] = peers[m][x]
        BY <1>2, <3>2
      <4>2. QED
        BY <4>1 DEF PeerInv, PeerTypeInv
    <3>3. QED
      BY <3>1, <3>2
  <2>2. epoch' \in [Nodes -> Nat] /\ conn' \in [Conns -> Place]
    BY DEF PeerInv, PeerTypeInv
  <2>3. QED
    BY <1>2, <2>1, <2>2, Zenon DEF PeerTypeInv
<1>5. \A m \in Nodes : DOMAIN peers[m] \subseteq DOMAIN peers'[m]
  BY <1>2
<1>6. r.from[1] \in Nodes /\ r.to[1] \in Nodes
  BY DEF Ids
<1>7. ConnInv'
  <2>1. ASSUME NEW x \in Conns, x # c PROVE ConnOK(x)'
    <3>1. ConnOK(x) /\ conn'[x] = conn[x]
      BY <1>1, <2>1 DEF PeerInv, ConnInv
    <3>2. conn[x].to \in Ids => conn[x].to[1] \in Nodes
      BY DEF Ids
    <3>3. QED
      BY <1>3, <1>5, <3>1, <3>2 DEF ConnOK
  <2>2. ConnOK(c)'
    BY <1>1, <1>2, <1>3, <1>5, <1>6 DEF PeerInv, ConnInv, ConnOK
  <2>3. QED
    BY <2>1, <2>2 DEF ConnInv
<1>8. ConnectedHasLoop'
  <2>1. SUFFICES ASSUME NEW m \in Nodes, NEW x \in DOMAIN peers'[m], peers'[m][x].connected,
                        <<Id(m), x>> \notin orphaned
                 PROVE  \E d \in Conns :
                           \/ conn'[d].from = Id(m) /\ conn'[d].to = x /\ conn'[d].client \in {"loop", "ending"}
                           \/ conn'[d].to = Id(m) /\ conn'[d].from = x /\ conn'[d].server \in {"loop", "ending"}
    BY <1>3 DEF ConnectedHasLoop
  <2>2. CASE m = n /\ x = id
    <3>1. ConnOK(c)
      BY DEF PeerInv, ConnInv
    <3>2. QED
      BY <1>1, <2>2, <3>1 DEF ConnOK
  <2>3. CASE ~ (m = n /\ x = id)
    <3>1. x \in DOMAIN peers[m] /\ peers[m][x].connected
      BY <1>2, <2>1, <2>3
    <3>2. PICK d \in Conns :
             \/ conn[d].from = Id(m) /\ conn[d].to = x /\ conn[d].client \in {"loop", "ending"}
             \/ conn[d].to = Id(m) /\ conn[d].from = x /\ conn[d].server \in {"loop", "ending"}
      BY <2>1, <3>1 DEF PeerInv, ConnectedHasLoop
    <3>3. QED
      BY <1>1, <3>2
  <2>4. QED
    BY <2>2, <2>3
<1>9. MutuallyKnown'
  <2>1. SUFFICES ASSUME NEW d \in Conns, conn'[d].client = "loop", Id(conn'[d].to[1]) = conn'[d].to
                 PROVE  conn'[d].server = "ack" \/ conn'[d].from \in DOMAIN peers'[conn'[d].to[1]]
    BY <1>3 DEF MutuallyKnown
  <2>2. CASE d = c
    <3>1. ConnOK(c) /\ (conn[c].client = "loop" => conn[c].server = "ack" \/ conn[c].from \in DOMAIN peers[conn[c].to[1]])
      BY <1>1, <2>1, <2>2 DEF PeerInv, ConnInv, LinksAreMutual, MutuallyKnown
    <3>2. QED
      BY <1>1, <1>2, <1>5, <1>6, <2>1, <2>2, <3>1 DEF ConnOK
  <2>3. CASE d # c
    <3>1. conn'[d] = conn[d] /\ ConnOK(d)
      BY <1>1, <2>3 DEF PeerInv, ConnInv
    <3>2. conn[d].to[1] \in Nodes
      BY <2>1, <3>1 DEF ConnOK, Ids
    <3>3. QED
      BY <1>5, <2>1, <3>1, <3>2 DEF PeerInv, LinksAreMutual, MutuallyKnown
  <2>4. QED
    BY <2>2, <2>3
<1>10. PeersShareSecret'
  BY <1>2 DEF PeerInv, LinksAreMutual, PeersShareSecret
<1>11. QED
  BY <1>4, <1>7, <1>8, <1>9, <1>10 DEF PeerInv, LinksAreMutual

\* A loop that has ended marks the peer, whatever other loops of it did before
\* (peer.rs:537).
LEMMA MarkStep ==
    ASSUME PeerInv, UNCHANGED epoch, NEW c \in Conns, NEW r \in Place,
           NEW n \in Nodes, NEW id,
           conn' = [conn EXCEPT ![c] = r], peers' = Marked(n, id),
           NEW o, orphaned' = orphaned \ {o}, o[1][1] = n, o[2] = id,
           r.from = conn[c].from, r.to = conn[c].to,
           \/ /\ n = r.to[1] /\ id = r.from /\ r.client = conn[c].client
              /\ conn[c].server = "ending" /\ r.server = "done"
           \/ /\ n = r.from[1] /\ id = r.to /\ r.server = conn[c].server
              /\ conn[c].client = "ending" /\ r.client = "done"
    PROVE  PeerInv'
<1>1. conn'[c] = r /\ \A x \in Conns : x # c => conn'[x] = conn[x]
  BY DEF PeerInv, PeerTypeInv
<1>2. /\ peers' = [m \in Nodes |-> peers'[m]]
      /\ \A m \in Nodes : m # n => peers'[m] = peers[m]
      /\ DOMAIN peers'[n] = DOMAIN peers[n]
      /\ \A x \in DOMAIN peers[n] : x # id => peers'[n][x] = peers[n][x]
      /\ id \in DOMAIN peers[n] => peers'[n][id] = [peers[n][id] EXCEPT !.connected = FALSE]
  BY DEF Marked, PeerInv, PeerTypeInv
<1>3. \A m : Id(m)' = Id(m)
  BY DEF Id
<1>4. id \in DOMAIN peers[n] => peers'[n][id] \in Entry /\ peers'[n][id].connected = FALSE
  BY <1>2 DEF PeerInv, PeerTypeInv, Entry
<1>5. \A m \in Nodes : DOMAIN peers'[m] = DOMAIN peers[m]
  BY <1>2
<1>6. PeerTypeInv'
  <2>1. ASSUME NEW m \in Nodes, NEW x \in DOMAIN peers'[m]
        PROVE  x \in Ids /\ peers'[m][x] \in Entry
    BY <1>2, <1>4 DEF PeerInv, PeerTypeInv
  <2>2. epoch' \in [Nodes -> Nat] /\ conn' \in [Conns -> Place]
    BY DEF PeerInv, PeerTypeInv
  <2>3. QED
    BY <1>2, <2>1, <2>2, Zenon DEF PeerTypeInv
<1>7. ConnInv'
  <2>1. ASSUME NEW x \in Conns PROVE ConnOK(x)'
    <3>1. ConnOK(x) /\ (x # c => conn'[x] = conn[x])
      BY <1>1 DEF PeerInv, ConnInv
    <3>2. conn[x].to \in Ids => conn[x].to[1] \in Nodes
      BY DEF Ids
    <3>3. QED
      BY <1>1, <1>3, <1>5, <3>1, <3>2 DEF ConnOK
  <2>2. QED
    BY <2>1 DEF ConnInv
<1>8. ConnectedHasLoop'
  <2>1. SUFFICES ASSUME NEW m \in Nodes, NEW x \in DOMAIN peers'[m], peers'[m][x].connected,
                        <<Id(m), x>> \notin orphaned'
                 PROVE  \E d \in Conns :
                           \/ conn'[d].from = Id(m) /\ conn'[d].to = x /\ conn'[d].client \in {"loop", "ending"}
                           \/ conn'[d].to = Id(m) /\ conn'[d].from = x /\ conn'[d].server \in {"loop", "ending"}
    BY <1>3 DEF ConnectedHasLoop
  <2>2. ~ (m = n /\ x = id)
    BY <1>4, <1>5, <2>1
  <2>3. x \in DOMAIN peers[m] /\ peers[m][x].connected
    BY <1>2, <2>1, <2>2
  <2>4. Id(m)[1] = m
    BY DEF Id
  <2>5. <<Id(m), x>> \notin orphaned
    BY <2>1, <2>2, <2>4
  <2>6. PICK d \in Conns :
           \/ conn[d].from = Id(m) /\ conn[d].to = x /\ conn[d].client \in {"loop", "ending"}
           \/ conn[d].to = Id(m) /\ conn[d].from = x /\ conn[d].server \in {"loop", "ending"}
    BY <2>3, <2>5 DEF PeerInv, ConnectedHasLoop
  <2>7. QED
    BY <1>1, <2>2, <2>4, <2>6
<1>9. LinksAreMutual'
  <2>1. MutuallyKnown'
    <3>1. SUFFICES ASSUME NEW d \in Conns, conn'[d].client = "loop", Id(conn'[d].to[1]) = conn'[d].to
                   PROVE  conn'[d].server = "ack" \/ conn'[d].from \in DOMAIN peers'[conn'[d].to[1]]
      BY <1>3 DEF MutuallyKnown
    <3>2. /\ conn[d].client = "loop" /\ conn'[d].to = conn[d].to /\ conn'[d].from = conn[d].from
          /\ conn[d].server = "ack" => conn'[d].server = "ack"
      BY <1>1, <3>1
    <3>3. ConnOK(d) /\ (conn[d].server = "ack" \/ conn[d].from \in DOMAIN peers[conn[d].to[1]])
      BY <3>1, <3>2 DEF PeerInv, ConnInv, LinksAreMutual, MutuallyKnown
    <3>4. conn[d].to[1] \in Nodes
      BY <3>2, <3>3 DEF ConnOK, Ids
    <3>5. QED
      BY <1>5, <3>2, <3>3, <3>4
  <2>2. PeersShareSecret'
    BY <1>5 DEF PeerInv, LinksAreMutual, PeersShareSecret
  <2>3. QED
    BY <2>1, <2>2 DEF LinksAreMutual
<1>10. QED
  BY <1>6, <1>7, <1>8, <1>9 DEF PeerInv

\* A loop that panics leaves its peer unmarked, and is the only one it takes
\* (peer.rs:534).
LEMMA PanicStep ==
    ASSUME PeerInv, NEW c \in Conns, ClientPanics(c) \/ ServerPanics(c)
    PROVE  PeerInv'
<1> DEFINE r == conn'[c]
<1>1. conn[c] \in Place /\ ConnOK(c)
  BY DEF PeerInv, PeerTypeInv, ConnInv
<1>2. /\ conn' = [conn EXCEPT ![c] = r] /\ r \in Place /\ UNCHANGED <<epoch, peers>>
      /\ r.from = conn[c].from /\ r.to = conn[c].to
      /\ \/ /\ conn[c].client = "loop" /\ r.client = "done" /\ r.server = conn[c].server
            /\ orphaned' = orphaned \cup {<<conn[c].from, conn[c].to>>}
         \/ /\ conn[c].server = "loop" /\ r.server = "done" /\ r.client = conn[c].client
            /\ orphaned' = orphaned \cup {<<conn[c].to, conn[c].from>>}
  BY <1>1 DEF ClientPanics, ServerPanics, PeerInv, PeerTypeInv, Place, Client, Server
<1>3. conn'[c] = r /\ \A x \in Conns : x # c => conn'[x] = conn[x]
  BY <1>2 DEF PeerInv, PeerTypeInv
<1> HIDE DEF r
<1>4. PeerTypeInv'
  BY <1>2 DEF PeerInv, PeerTypeInv
<1>5. \A n : Id(n)' = Id(n)
  BY <1>2 DEF Id
<1>6. ConnInv'
  BY <1>1, <1>2, <1>3, <1>5 DEF PeerInv, ConnInv, ConnOK
<1>7. ConnectedHasLoop'
  <2>1. SUFFICES ASSUME NEW m \in Nodes, NEW x \in DOMAIN peers[m], peers[m][x].connected,
                        <<Id(m), x>> \notin orphaned'
                 PROVE  \E d \in Conns :
                           \/ conn'[d].from = Id(m) /\ conn'[d].to = x /\ conn'[d].client \in {"loop", "ending"}
                           \/ conn'[d].to = Id(m) /\ conn'[d].from = x /\ conn'[d].server \in {"loop", "ending"}
    BY <1>2, <1>5 DEF ConnectedHasLoop
  <2>2. <<Id(m), x>> \notin orphaned
    BY <1>2, <2>1
  <2>3. PICK d \in Conns :
           \/ conn[d].from = Id(m) /\ conn[d].to = x /\ conn[d].client \in {"loop", "ending"}
           \/ conn[d].to = Id(m) /\ conn[d].from = x /\ conn[d].server \in {"loop", "ending"}
    BY <2>1, <2>2 DEF PeerInv, ConnectedHasLoop
  <2>4. CASE d # c
    BY <1>3, <2>3, <2>4
  <2>5. CASE d = c
    BY <1>2, <1>3, <2>1, <2>3, <2>5
  <2>6. QED
    BY <2>4, <2>5
<1>8. LinksAreMutual'
  <2>1. ASSUME NEW d \in Conns, conn'[d].client = "loop", Id(conn'[d].to[1]) = conn'[d].to
        PROVE  conn'[d].server = "ack" \/ conn'[d].from \in DOMAIN peers[conn'[d].to[1]]
    <3>1. conn[d].client = "loop" /\ conn'[d].to = conn[d].to /\ conn'[d].from = conn[d].from
      BY <1>2, <1>3, <2>1
    <3>2. conn[d].server = "ack" \/ conn[d].from \in DOMAIN peers[conn[d].to[1]]
      BY <2>1, <3>1 DEF PeerInv, LinksAreMutual, MutuallyKnown
    <3>3. conn[d].server = "ack" => conn'[d].server = "ack"
      BY <1>2, <1>3, <2>1
    <3>4. QED
      BY <3>1, <3>2, <3>3
  <2>2. MutuallyKnown'
    BY <1>2, <1>5, <2>1 DEF MutuallyKnown
  <2>3. PeersShareSecret'
    BY <1>2 DEF PeerInv, LinksAreMutual, PeersShareSecret
  <2>4. QED
    BY <2>2, <2>3 DEF LinksAreMutual
<1>9. QED
  BY <1>4, <1>6, <1>7, <1>8 DEF PeerInv

\* A node that starts again has a new identifier, and no end of it goes on
\* (kernel.rs:4090).
LEMMA RestartStep ==
    ASSUME PeerInv, NEW n \in Nodes, NodeRestart(n)
    PROVE  PeerInv'
<1>1. /\ epoch' \in [Nodes -> Nat] /\ epoch'[n] = epoch[n] + 1
      /\ \A m \in Nodes : m # n => epoch'[m] = epoch[m]
  <2>1. epoch' = [epoch EXCEPT ![n] = @ + 1] /\ epoch \in [Nodes -> Nat]
    BY DEF NodeRestart, PeerInv, PeerTypeInv
  <2>2. QED
    BY <2>1
<1>2. /\ peers' = [m \in Nodes |-> peers'[m]] /\ DOMAIN peers'[n] = {}
      /\ \A m \in Nodes : m # n => peers'[m] = peers[m]
  BY DEF NodeRestart, PeerInv, PeerTypeInv
<1>3. /\ \A m \in Nodes : m # n => Id(m)' = Id(m)
      /\ Id(n)'[1] = n /\ Id(n)'[2] = epoch[n] + 1 /\ epoch[n] \in Nat
  BY <1>1 DEF Id, PeerInv, PeerTypeInv
<1>4. ASSUME NEW c \in Conns
      PROVE  /\ conn'[c] \in Place /\ conn'[c].from = conn[c].from /\ conn'[c].to = conn[c].to
             /\ conn'[c].client = IF conn[c].from = Id(n) THEN "done" ELSE conn[c].client
             /\ conn'[c].server = IF conn[c].to = Id(n) THEN "done" ELSE conn[c].server
  <2>1. conn[c] \in Place
    BY DEF PeerInv, PeerTypeInv
  <2>2. conn'[c] = [conn[c] EXCEPT !.client = IF conn[c].from = Id(n) THEN "done" ELSE @,
                                   !.server = IF conn[c].to = Id(n) THEN "done" ELSE @,
                                   !.up = @ /\ Id(n) \notin {conn[c].from, conn[c].to}]
    BY DEF NodeRestart
  <2>3. "done" \in Client /\ "done" \in Server
    BY DEF Client, Server
  <2>4. QED
    BY <2>1, <2>2, <2>3 DEF Place
<1>5. PeerTypeInv'
  <2>1. conn' \in [Conns -> Place]
    <3>1. conn' = [c \in Conns |-> conn'[c]]
      BY DEF NodeRestart
    <3>2. QED
      BY <1>4, <3>1, Zenon
  <2>2. ASSUME NEW m \in Nodes, NEW x \in DOMAIN peers'[m]
        PROVE  x \in Ids /\ peers'[m][x] \in Entry
    BY <1>2 DEF PeerInv, PeerTypeInv
  <2>3. QED
    BY <1>1, <1>2, <2>1, <2>2, Zenon DEF PeerTypeInv
<1>6. ASSUME NEW c \in Conns, conn[c].from \in Ids, conn[c].to \in Ids
      PROVE  /\ conn[c].from[1] \in Nodes /\ conn[c].to[1] \in Nodes /\ conn[c].to[2] \in Nat
             /\ conn[c].from # Id(n) /\ conn[c].from = Id(conn[c].from[1]) => conn[c].from[1] # n
             /\ conn[c].to # Id(n) /\ conn[c].to = Id(conn[c].to[1]) => conn[c].to[1] # n
  BY <1>6 DEF Ids
<1>7. ConnInv'
  <2>1. ASSUME NEW c \in Conns PROVE ConnOK(c)'
    <3>1. ConnOK(c)
      BY DEF PeerInv, ConnInv
    <3>2. CASE conn[c].from = <<>> /\ conn[c].to = <<>> /\ conn[c].client = "done" /\ conn[c].server = "done"
      BY <1>4, <3>2 DEF ConnOK
    <3>3. CASE conn[c].from \in Ids /\ conn[c].to \in Ids
      <4>1. conn[c].to[2] <= epoch[conn[c].to[1]] => conn[c].to[2] <= epoch'[conn[c].to[1]]
        BY <1>1, <1>6, <3>3 DEF PeerInv, PeerTypeInv
      <4>2. QED
        BY <1>2, <1>3, <1>4, <1>6, <3>1, <3>3, <4>1 DEF ConnOK
    <3>4. QED
      BY <3>1, <3>2, <3>3 DEF ConnOK
  <2>2. QED
    BY <2>1 DEF ConnInv
<1>8. ConnectedHasLoop'
  <2>1. SUFFICES ASSUME NEW m \in Nodes, NEW x \in DOMAIN peers'[m], peers'[m][x].connected,
                        <<Id(m)', x>> \notin orphaned'
                 PROVE  \E d \in Conns :
                           \/ conn'[d].from = Id(m)' /\ conn'[d].to = x /\ conn'[d].client \in {"loop", "ending"}
                           \/ conn'[d].to = Id(m)' /\ conn'[d].from = x /\ conn'[d].server \in {"loop", "ending"}
    BY DEF ConnectedHasLoop
  <2>2. m # n /\ peers'[m] = peers[m]
    BY <1>2, <2>1
  <2>3. Id(m) # Id(n) /\ Id(m)' = Id(m)
    BY <1>3, <2>2 DEF Id
  <2>4. <<Id(m), x>> \notin orphaned
    BY <2>1, <2>3 DEF NodeRestart
  <2>5. PICK d \in Conns :
           \/ conn[d].from = Id(m) /\ conn[d].to = x /\ conn[d].client \in {"loop", "ending"}
           \/ conn[d].to = Id(m) /\ conn[d].from = x /\ conn[d].server \in {"loop", "ending"}
    BY <2>1, <2>2, <2>4 DEF PeerInv, ConnectedHasLoop
  <2>6. QED
    BY <1>4, <2>3, <2>5
<1>9. MutuallyKnown'
  <2>1. SUFFICES ASSUME NEW d \in Conns, conn'[d].client = "loop",
                        <<conn'[d].to[1], epoch'[conn'[d].to[1]]>> = conn'[d].to
                 PROVE  conn'[d].server = "ack" \/ conn'[d].from \in DOMAIN peers'[conn'[d].to[1]]
    BY DEF MutuallyKnown, Id
  <2>2. conn[d].client = "loop" /\ conn'[d].to = conn[d].to /\ conn'[d].from = conn[d].from
    BY <1>4, <2>1
  <2>3. ConnOK(d)
    BY DEF PeerInv, ConnInv
  <2>4. conn[d].to[1] \in Nodes /\ conn[d].to[2] <= epoch[conn[d].to[1]]
    BY <1>6, <2>2, <2>3 DEF ConnOK
  <2>5. conn[d].to[1] # n
    <3>1. SUFFICES ASSUME conn[d].to[1] = n PROVE FALSE
      OBVIOUS
    <3>2. conn[d].to[2] = epoch'[n]
      BY <2>1, <2>2, <3>1
    <3>3. epoch[n] + 1 <= epoch[n]
      BY <1>1, <2>4, <3>1, <3>2
    <3>4. QED
      BY <1>3, <3>3
  <2>6. Id(conn[d].to[1]) = conn[d].to /\ conn[d].to # Id(n)
    BY <1>1, <2>1, <2>2, <2>4, <2>5 DEF Id
  <2>7. conn[d].server = "ack" \/ conn[d].from \in DOMAIN peers[conn[d].to[1]]
    BY <2>2, <2>6 DEF PeerInv, LinksAreMutual, MutuallyKnown
  <2>8. QED
    BY <1>2, <1>4, <2>2, <2>4, <2>5, <2>6, <2>7
<1>10. PeersShareSecret'
  BY <1>2 DEF PeerInv, LinksAreMutual, PeersShareSecret
<1>11. QED
  BY <1>5, <1>7, <1>8, <1>9, <1>10 DEF PeerInv, LinksAreMutual

LEMMA PeerStep ==
    ASSUME PeerInv, PeerNext \/ UNCHANGED peerState
    PROVE  PeerInv'
<1>1. ASSUME NEW c \in Conns, ConnStep(c) PROVE PeerInv'
  <2>1. conn[c] \in Place /\ ConnOK(c)
    BY DEF PeerInv, PeerTypeInv, ConnInv
  <2>2. CASE Handshake(c) \/ Refused(c) \/ AnswerMessage(c) \/ Break(c) \/ ClientCloses(c) \/ ServerCloses(c)
    <3> DEFINE r == conn'[c]
    <3>1. conn' = [conn EXCEPT ![c] = r] /\ r \in Place
      <4> USE <2>1 DEF PeerInv, PeerTypeInv, Place, Client, Server, Client_, Server_
      <4>1. CASE Handshake(c)
        BY <4>1 DEF Handshake
      <4>2. CASE Refused(c)
        BY <4>2 DEF Refused
      <4>3. CASE AnswerMessage(c)
        BY <4>3 DEF AnswerMessage
      <4>4. CASE Break(c)
        BY <4>4 DEF Break
      <4>5. CASE ClientCloses(c)
        BY <4>5 DEF ClientCloses
      <4>6. CASE ServerCloses(c)
        BY <4>6 DEF ServerCloses
      <4>7. QED
        BY <2>2, <4>1, <4>2, <4>3, <4>4, <4>5, <4>6
    <3>2. /\ r.from = conn[c].from /\ r.to = conn[c].to
          /\ conn[c].client = "done" => r.client = "done"
          /\ conn[c].client \in {"loop", "ending"} => r.client \in {"loop", "ending"}
          /\ r.client = "loop" => conn[c].client = "loop"
          /\ conn[c].server = "done" => r.server = "done"
          /\ conn[c].server = "ack" /\ r.client = "loop" => r.server = "ack"
          /\ conn[c].server \in {"loop", "ending"} <=> r.server \in {"loop", "ending"}
          /\ r.server = "ack" => SecretOf[r.from[1]] = SecretOf[r.to[1]]
          /\ UNCHANGED <<epoch, peers, orphaned>>
      BY <2>1, <2>2 DEF PeerInv, PeerTypeInv, Place, ConnOK, Handshake, Refused, AnswerMessage, Break,
                        ClientCloses, ServerCloses, Client_, Server_
    <3> HIDE DEF r
    <3>3. QED
      BY <3>1, <3>2, QuietStep
  <2>3. CASE ServerAdd(c)
    <3> DEFINE r == [conn[c] EXCEPT !.server = "loop"]
    <3>1. r \in Place /\ conn' = [conn EXCEPT ![c] = r]
      BY <2>1, <2>3 DEF ServerAdd, Server_, Place, Server, PeerInv, PeerTypeInv
    <3>2. /\ r.from = conn[c].from /\ r.to = conn[c].to /\ r.client = conn[c].client /\ r.server = "loop"
          /\ conn[c].server = "ack" /\ UNCHANGED <<epoch, orphaned>>
          /\ peers' = Added(r.to[1], r.from, FALSE)
      BY <2>1, <2>3 DEF ServerAdd, Place
    <3> HIDE DEF r
    <3>3. r.from \in Ids /\ r.to \in Ids /\ r.to[1] \in Nodes /\ SecretOf[r.from[1]] = SecretOf[r.to[1]]
      BY <2>1, <3>2 DEF ConnOK, Ids
    <3>4. QED
      BY <3>1, <3>2, <3>3, AddStep
  <2>4. CASE Acknowledged(c) /\ conn[c].kind = "link"
    <3> DEFINE r == [conn[c] EXCEPT !.client = "loop"]
    <3>1. r \in Place /\ conn' = [conn EXCEPT ![c] = r]
      BY <2>1, <2>4 DEF Acknowledged, Client_, Place, Client, PeerInv, PeerTypeInv
    <3>2. /\ r.from = conn[c].from /\ r.to = conn[c].to /\ r.server = conn[c].server /\ r.client = "loop"
          /\ conn[c].client = "wait" /\ conn[c].server \in {"ack", "loop", "ending"} /\ UNCHANGED <<epoch, orphaned>>
          /\ peers' = Added(r.from[1], r.to, TRUE)
      BY <2>1, <2>4 DEF Acknowledged, Place
    <3> HIDE DEF r
    <3>3. r.from \in Ids /\ r.to \in Ids /\ r.from[1] \in Nodes /\ SecretOf[r.from[1]] = SecretOf[r.to[1]]
      BY <2>1, <3>2 DEF ConnOK, Ids
    <3>4. QED
      BY <3>1, <3>2, <3>3, AddStep
  <2>5. CASE Acknowledged(c) /\ conn[c].kind # "link"
    <3> DEFINE r == [conn[c] EXCEPT !.client = "asked"]
    <3>1. r \in Place /\ conn' = [conn EXCEPT ![c] = r]
      BY <2>1, <2>5 DEF Acknowledged, Client_, Place, Client, PeerInv, PeerTypeInv
    <3>2. /\ r.from = conn[c].from /\ r.to = conn[c].to /\ r.server = conn[c].server /\ r.client = "asked"
          /\ conn[c].client = "wait" /\ UNCHANGED <<epoch, peers, orphaned>>
      BY <2>1, <2>5 DEF Acknowledged, Place
    <3> HIDE DEF r
    <3>3. r.server = "ack" => SecretOf[r.from[1]] = SecretOf[r.to[1]]
      BY <2>1, <3>2 DEF ConnOK
    <3>4. QED
      BY <3>1, <3>2, <3>3, QuietStep
  <2>6. CASE ClientMarks(c)
    <3> DEFINE r == [conn[c] EXCEPT !.client = "done"]
    <3>1. r \in Place /\ conn' = [conn EXCEPT ![c] = r]
      BY <2>1, <2>6 DEF ClientMarks, Client_, Place, Client, PeerInv, PeerTypeInv
    <3>2. /\ r.from = conn[c].from /\ r.to = conn[c].to /\ r.server = conn[c].server /\ r.client = "done"
          /\ conn[c].client = "ending" /\ UNCHANGED epoch /\ peers' = Marked(r.from[1], r.to)
          /\ orphaned' = orphaned \ {<<r.from, r.to>>}
      BY <2>1, <2>6 DEF ClientMarks, Place
    <3> HIDE DEF r
    <3>3. r.from[1] \in Nodes
      BY <2>1, <3>2 DEF ConnOK, Ids
    <3>4. QED
      BY <3>1, <3>2, <3>3, MarkStep
  <2>7. CASE ServerMarks(c)
    <3> DEFINE r == [conn[c] EXCEPT !.server = "done"]
    <3>1. r \in Place /\ conn' = [conn EXCEPT ![c] = r]
      BY <2>1, <2>7 DEF ServerMarks, Server_, Place, Server, PeerInv, PeerTypeInv
    <3>2. /\ r.from = conn[c].from /\ r.to = conn[c].to /\ r.client = conn[c].client /\ r.server = "done"
          /\ conn[c].server = "ending" /\ UNCHANGED epoch /\ peers' = Marked(r.to[1], r.from)
          /\ orphaned' = orphaned \ {<<r.to, r.from>>}
      BY <2>1, <2>7 DEF ServerMarks, Place
    <3> HIDE DEF r
    <3>3. r.to[1] \in Nodes
      BY <2>1, <3>2 DEF ConnOK, Ids
    <3>4. QED
      BY <3>1, <3>2, <3>3, MarkStep
  <2>8. CASE ClientPanics(c) \/ ServerPanics(c)
    BY <2>8, PanicStep
  <2>9. QED
    BY <1>1, <2>2, <2>3, <2>4, <2>5, <2>6, <2>7, <2>8 DEF ConnStep
<1>2. CASE UNCHANGED peerState
  BY <1>2 DEF peerState, PeerInv, PeerTypeInv, ConnInv, ConnOK, ConnectedHasLoop, LinksAreMutual,
              MutuallyKnown, PeersShareSecret, Id
<1>3. QED
  BY <1>1, <1>2, ConnectStep DEF PeerNext

LEMMA PeerInvariant == Spec => []PeerInv
<1>1. Init => PeerInv
  <2> SUFFICES ASSUME Init PROVE PeerInv
    OBVIOUS
  <2>1. /\ epoch = [n \in Nodes |-> 0] /\ conn = [c \in Conns |-> NoConn]
        /\ peers = [n \in Nodes |-> [id \in {} |-> 0]]
    BY DEF Init, PeerInit
  <2>2. NoConn \in Place
    BY DEF NoConn, Place, Client, Server
  <2>3. PeerTypeInv
    BY <2>1, <2>2 DEF PeerTypeInv
  <2>4. ConnInv
    BY <2>1 DEF ConnInv, ConnOK, NoConn
  <2>5. ConnectedHasLoop /\ LinksAreMutual
    BY <2>1 DEF ConnectedHasLoop, LinksAreMutual, MutuallyKnown, PeersShareSecret, NoConn
  <2>6. QED
    BY <2>3, <2>4, <2>5 DEF PeerInv
<1>2. PeerInv /\ [Next]_vars => PeerInv'
  <2> SUFFICES ASSUME PeerInv, [Next]_vars PROVE PeerInv'
    OBVIOUS
  <2>1. CASE Restart
    BY <2>1, RestartStep, DelegationAssumption DEF Restart
  <2>2. CASE OtherRestart
    BY <2>2, RestartStep DEF OtherRestart
  <2>3. CASE PeerNext
    BY <2>3, PeerStep
  <2>4. CASE UNCHANGED peerState
    BY <2>4, PeerStep
  <2>5. QED
    BY <2>1, <2>2, <2>3, <2>4 DEF Next, vars
<1>3. QED
  BY <1>1, <1>2, PTL DEF Spec

\* A peer that is listed as connected has a connection whose loop this node runs
\* and will mark, but for one whose loop panicked in a turn and that no other loop
\* has marked since, for any number of nodes, connections, panics and restarts
\* (peer.rs:534, peer.rs:537).
THEOREM ConnectedTheorem == Spec => []ConnectedHasLoop
<1>1. PeerInv => ConnectedHasLoop
  BY DEF PeerInv
<1>2. QED
  BY <1>1, PeerInvariant, PTL

\* A link is known at both ends unless one was restarted, and only nodes of one
\* secret know each other (peer.rs:449, peer.rs:488).
THEOREM LinksTheorem == Spec => []LinksAreMutual
<1>1. PeerInv => LinksAreMutual
  BY DEF PeerInv
<1>2. QED
  BY <1>1, PeerInvariant, PTL

-----------------------------------------------------------------------------
(* The store of A2A tasks *)

LEMMA MaxOfTwo ==
    ASSUME NEW a \in Nat, NEW b \in Nat
    PROVE  Max({a, b}) = IF a >= b THEN a ELSE b
<1> DEFINE m == IF a >= b THEN a ELSE b
<1>1. m \in {a, b} /\ \A y \in {a, b} : m >= y
  OBVIOUS
<1>2. Max({a, b}) \in {a, b} /\ \A y \in {a, b} : Max({a, b}) >= y
  BY <1>1 DEF Max
<1>3. QED
  BY <1>1, <1>2

A2ATypeInv ==
    /\ DOMAIN store \subseteq A2AIds
    /\ \A t \in DOMAIN store : store[t].status \in Ended \cup {"working"}
    /\ request \in [A2AIds -> {"none", "turn", "reply", "done"}]
    /\ told \in [A2AIds -> Ended \cup {"nothing", "gone", "working"}]
    /\ cancelled \subseteq A2AIds /\ peakWorking \in Nat

\* Where the task of a request is: not yet in the store, working or cancelled
\* while its turn runs, ended when the answer is looked up.
TaskOfRequest(t) ==
    /\ request[t] = "none" => t \notin DOMAIN store
    /\ request[t] = "turn" => \/ t \in DOMAIN store /\ store[t].status = "working"
                              \/ t \in cancelled
    /\ request[t] = "reply" => (t \in DOMAIN store => store[t].status \in Ended)
    /\ t \in DOMAIN store => (store[t].status = "cancelled" => t \in cancelled)

A2AInv ==
    /\ A2ATypeInv /\ StoreBounded /\ ToldIsEnded
    /\ Cardinality(Working) <= peakWorking
    /\ \A t \in A2AIds : TaskOfRequest(t)

LEMMA StoreFinite ==
    ASSUME DOMAIN store \subseteq A2AIds
    PROVE  /\ IsFiniteSet(DOMAIN store) /\ Cardinality(DOMAIN store) \in Nat
           /\ IsFiniteSet(Working) /\ Cardinality(Working) \in Nat
<1>1. IsFiniteSet(DOMAIN store)
  BY DelegationAssumption, FS_Subset
<1>2. IsFiniteSet(Working)
  BY <1>1, FS_Subset DEF Working
<1>3. QED
  BY <1>1, <1>2, FS_CardinalityType

\* A step that adds no task and puts none to work keeps the bounds.
LEMMA NoNewTask ==
    ASSUME A2AInv, DOMAIN store' \subseteq DOMAIN store, Working' \subseteq Working,
           peakWorking' = peakWorking
    PROVE  StoreBounded' /\ Cardinality(Working') <= peakWorking'
<1>1. /\ IsFiniteSet(DOMAIN store) /\ Cardinality(DOMAIN store) \in Nat
      /\ IsFiniteSet(Working) /\ Cardinality(Working) \in Nat
  BY StoreFinite DEF A2AInv, A2ATypeInv
<1>2. /\ Cardinality(DOMAIN store') <= Cardinality(DOMAIN store)
      /\ Cardinality(Working') <= Cardinality(Working)
      /\ IsFiniteSet(DOMAIN store') /\ IsFiniteSet(Working')
  BY <1>1, FS_Subset
<1>3. Cardinality(DOMAIN store') \in Nat /\ Cardinality(Working') \in Nat
  BY <1>2, FS_CardinalityType
<1>4. Max({MaxStored, peakWorking}) \in Nat
  BY MaxOfTwo, DelegationAssumption DEF A2AInv, A2ATypeInv
<1>5. QED
  BY <1>1, <1>2, <1>3, <1>4 DEF A2AInv, A2ATypeInv, StoreBounded

\* insert makes room while there is a task that has ended, so that the store
\* grows past its limit only when every task in it is working (a2a.rs:184).
LEMMA SendStep ==
    ASSUME A2AInv, NEW t \in A2AIds, SendTask(t)
    PROVE  A2AInv'
<1> DEFINE D == DOMAIN store
           C == Cardinality(DOMAIN store)
           W == Cardinality(Working)
           fresh == [status |-> "working", answers |-> 0]
           added(S) == [x \in S \cup {t} |-> IF x = t THEN fresh ELSE store[x]]
<1>1. t \notin D /\ D \subseteq A2AIds
  BY DEF SendTask, A2AInv, A2ATypeInv, TaskOfRequest
<1>2. IsFiniteSet(D) /\ C \in Nat /\ IsFiniteSet(Working) /\ W \in Nat
  BY <1>1, StoreFinite
<1>3. /\ request' = [request EXCEPT ![t] = "turn"] /\ UNCHANGED <<told, cancelled>>
      /\ peakWorking' = Max({peakWorking, W + 1})
      /\ peakWorking \in Nat /\ MaxStored \in Nat
  BY DelegationAssumption DEF SendTask, A2AInv, A2ATypeInv
<1>4. peakWorking' \in Nat /\ peakWorking' >= peakWorking /\ peakWorking' >= W + 1
  BY <1>2, <1>3, MaxOfTwo
<1>5. PICK S \in SUBSET D :
         /\ store' = added(S)
         /\ Working \subseteq S
         /\ \/ C >= MaxStored /\ \E v \in D : S = D \ {v}
            \/ S = D /\ (C < MaxStored \/ Evictable = {})
  <2>1. CASE C >= MaxStored /\ Evictable # {}
    <3>1. PICK v \in Evictable : store' = added(D \ {v})
      BY <2>1 DEF SendTask, Inserted
    <3>2. v \in D /\ v \notin Working
      BY DEF Evictable, Working, Ended
    <3>3. Working \subseteq D \ {v}
      BY <3>2 DEF Working
    <3>4. QED
      BY <2>1, <3>1, <3>2, <3>3
  <2>2. CASE ~(C >= MaxStored /\ Evictable # {})
    <3>1. store' = added(D)
      BY <2>2 DEF SendTask, Inserted
    <3>2. C < MaxStored \/ Evictable = {}
      BY <1>2, <1>3, <2>2
    <3>3. Working \subseteq D
      BY DEF Working
    <3>4. QED
      BY <3>1, <3>2, <3>3
  <2>3. QED
    BY <2>1, <2>2
<1>6. /\ DOMAIN store' = S \cup {t}
      /\ store'[t] = fresh
      /\ \A x \in S : store'[x] = store[x]
  BY <1>1, <1>5
<1>7. IsFiniteSet(S) /\ t \notin S /\ t \notin Working
  BY <1>1, <1>2, <1>5, FS_Subset
<1>8. Cardinality(DOMAIN store') = Cardinality(S) + 1 /\ Cardinality(S) \in Nat
  BY <1>6, <1>7, FS_AddElement, FS_CardinalityType
<1>9. Working' = Working \cup {t}
  <2>1. \A x \in S : x \in Working' <=> x \in Working
    BY <1>6 DEF Working
  <2>2. QED
    BY <1>5, <1>6, <2>1 DEF Working
<1>10. Cardinality(Working') = W + 1
  BY <1>2, <1>7, <1>9, FS_AddElement
<1>11. Max({MaxStored, peakWorking})' = IF MaxStored >= peakWorking' THEN MaxStored ELSE peakWorking'
  BY <1>3, <1>4, MaxOfTwo
<1>12. Max({MaxStored, peakWorking}) = IF MaxStored >= peakWorking THEN MaxStored ELSE peakWorking
  BY <1>3, MaxOfTwo
<1>13. C <= Max({MaxStored, peakWorking})
  BY DEF A2AInv, StoreBounded
<1>14. Cardinality(DOMAIN store') <= Max({MaxStored, peakWorking})'
  <2>1. CASE \E v \in D : S = D \ {v}
    <3>1. PICK v \in D : S = D \ {v}
      BY <2>1
    <3>2. Cardinality(S) = C - 1
      BY <1>2, <3>1, FS_RemoveElement
    <3> HIDE DEF C, W, D
    <3>3. QED
      BY <1>2, <1>3, <1>4, <1>8, <1>11, <1>12, <1>13, <3>2
  <2>2. CASE S = D /\ C < MaxStored
    <3>1. Cardinality(S) = C
      BY <2>2
    <3> HIDE DEF C, W, D
    <3>2. QED
      BY <1>2, <1>3, <1>4, <1>8, <1>11, <2>2, <3>1
  <2>3. CASE S = D /\ Evictable = {}
    <3>1. D = Working
      BY <2>3 DEF Evictable, Working, A2AInv, A2ATypeInv
    <3>2. Cardinality(S) = W
      BY <2>3, <3>1
    <3> HIDE DEF C, W, D
    <3>3. QED
      BY <1>2, <1>3, <1>4, <1>8, <1>11, <3>2
  <2>4. QED
    BY <1>5, <2>1, <2>2, <2>3
<1> HIDE DEF C, W
<1>15. StoreBounded' /\ Cardinality(Working)' <= peakWorking'
  BY <1>4, <1>2, <1>10, <1>14 DEF StoreBounded
<1>16. A2ATypeInv'
  <2>1. DOMAIN store' \subseteq A2AIds
    BY <1>1, <1>6
  <2>2. \A x \in DOMAIN store' : store'[x].status \in Ended \cup {"working"}
    BY <1>6 DEF A2AInv, A2ATypeInv
  <2>3. QED
    BY <1>3, <1>4, <2>1, <2>2 DEF A2AInv, A2ATypeInv
<1>17. ToldIsEnded'
  BY <1>3 DEF A2AInv, ToldIsEnded
<1>18. ASSUME NEW x \in A2AIds PROVE TaskOfRequest(x)'
  <2>1. CASE x = t
    BY <1>3, <1>6, <2>1 DEF TaskOfRequest, A2AInv, A2ATypeInv
  <2>2. CASE x # t
    <3>1. request'[x] = request[x] /\ (x \in DOMAIN store' <=> x \in S)
      BY <1>3, <1>6, <2>2 DEF A2AInv, A2ATypeInv
    <3>2. TaskOfRequest(x)
      BY DEF A2AInv
    <3>3. x \in D /\ store[x].status = "working" => x \in S
      BY <1>5 DEF Working
    <3>4. QED
      BY <1>3, <1>6, <3>1, <3>2, <3>3 DEF TaskOfRequest
  <2>3. QED
    BY <2>1, <2>2
<1>19. QED
  BY <1>15, <1>16, <1>17, <1>18 DEF A2AInv

LEMMA A2AStep ==
    ASSUME A2AInv, A2ANext \/ A2ARestart \/ UNCHANGED a2aState
    PROVE  A2AInv'
<1>1. ASSUME NEW t \in A2AIds, FinishTask(t) PROVE A2AInv'
  <2>1. PICK status \in {"completed", "failed"} : store' = Finished(t, status)
    BY <1>1 DEF FinishTask
  <2>2. /\ DOMAIN store' = DOMAIN store
        /\ t \in DOMAIN store => store'[t].status = status
        /\ \A x \in DOMAIN store : x # t => store'[x] = store[x]
    BY <2>1 DEF Finished
  <2>3. Working' \subseteq Working
    BY <2>2 DEF Working
  <2>4. /\ request[t] = "turn" /\ request' = [request EXCEPT ![t] = "reply"]
        /\ UNCHANGED <<told, cancelled, peakWorking>>
    BY <1>1 DEF FinishTask
  <2>5. StoreBounded' /\ Cardinality(Working)' <= peakWorking'
    BY <2>2, <2>3, <2>4, NoNewTask
  <2>6. A2ATypeInv' /\ ToldIsEnded'
    BY <2>2, <2>4 DEF A2AInv, A2ATypeInv, ToldIsEnded, Ended
  <2>7. \A x \in A2AIds : TaskOfRequest(x)'
    BY <2>2, <2>4 DEF A2AInv, A2ATypeInv, TaskOfRequest, Ended
  <2>8. QED
    BY <2>5, <2>6, <2>7 DEF A2AInv
<1>2. ASSUME NEW t \in A2AIds, Reply(t) PROVE A2AInv'
  <2>1. /\ request[t] = "reply" /\ request' = [request EXCEPT ![t] = "done"]
        /\ told' = [told EXCEPT ![t] = IF t \in DOMAIN store THEN store[t].status ELSE "gone"]
        /\ UNCHANGED <<store, cancelled, peakWorking>>
    BY <1>2 DEF Reply
  <2>2. StoreBounded' /\ Cardinality(Working)' <= peakWorking'
    BY <2>1 DEF A2AInv, StoreBounded, Working
  <2>3. told'[t] \in Ended \cup {"gone"} /\ (told'[t] = "cancelled" => t \in cancelled)
    BY <2>1 DEF A2AInv, A2ATypeInv, TaskOfRequest, Ended
  <2>4. A2ATypeInv'
    BY <2>1, <2>3 DEF A2AInv, A2ATypeInv
  <2>5. ToldIsEnded'
    BY <2>1, <2>3 DEF A2AInv, A2ATypeInv, ToldIsEnded, Ended
  <2>6. \A x \in A2AIds : TaskOfRequest(x)'
    BY <2>1 DEF A2AInv, A2ATypeInv, TaskOfRequest
  <2>7. QED
    BY <2>2, <2>4, <2>5, <2>6 DEF A2AInv
<1>3. ASSUME NEW t \in A2AIds, HangUp(t) PROVE A2AInv'
  BY <1>3 DEF HangUp, A2AInv, A2ATypeInv, StoreBounded, Working, ToldIsEnded, TaskOfRequest
<1>4. ASSUME NEW t \in A2AIds, CancelTask(t) PROVE A2AInv'
  <2>1. /\ t \in DOMAIN store /\ store' = [store EXCEPT ![t].status = "cancelled"]
        /\ cancelled' = cancelled \cup {t} /\ UNCHANGED <<request, told, peakWorking>>
    BY <1>4 DEF CancelTask
  <2>2. /\ DOMAIN store' = DOMAIN store
        /\ store'[t] = [store[t] EXCEPT !.status = "cancelled"]
        /\ \A x \in DOMAIN store : x # t => store'[x] = store[x]
    BY <2>1
  <2>3. store'[t].status \in {"cancelled", store[t].status}
    BY <2>2
  <2>4. Working' \subseteq Working
    BY <2>2, <2>3 DEF Working
  <2>5. StoreBounded' /\ Cardinality(Working)' <= peakWorking'
    BY <2>1, <2>2, <2>4, NoNewTask
  <2>6. A2ATypeInv' /\ ToldIsEnded'
    BY <2>1, <2>2, <2>3 DEF A2AInv, A2ATypeInv, ToldIsEnded, Ended
  <2>7. \A x \in A2AIds : TaskOfRequest(x)'
    BY <2>1, <2>2, <2>3 DEF A2AInv, A2ATypeInv, TaskOfRequest, Ended
  <2>8. QED
    BY <2>5, <2>6, <2>7 DEF A2AInv
<1>5. CASE A2ARestart
  <2>1. /\ DOMAIN store' = {} /\ UNCHANGED <<told, cancelled, peakWorking>>
        /\ request' = [t \in A2AIds |-> IF request[t] = "none" THEN "none" ELSE "done"]
    BY <1>5 DEF A2ARestart
  <2>2. StoreBounded' /\ Cardinality(Working)' <= peakWorking'
    BY <2>1, NoNewTask DEF Working
  <2>3. A2ATypeInv' /\ ToldIsEnded' /\ \A x \in A2AIds : TaskOfRequest(x)'
    BY <2>1 DEF A2AInv, A2ATypeInv, ToldIsEnded, TaskOfRequest
  <2>4. QED
    BY <2>2, <2>3 DEF A2AInv
<1>6. CASE UNCHANGED a2aState
  BY <1>6 DEF a2aState, A2AInv, A2ATypeInv, StoreBounded, Working, ToldIsEnded, TaskOfRequest
<1>7. QED
  BY <1>1, <1>2, <1>3, <1>4, <1>5, <1>6, SendStep DEF A2ANext

LEMMA A2AInvariant == Spec => []A2AInv
<1>1. Init => A2AInv
  <2> SUFFICES ASSUME Init PROVE A2AInv
    OBVIOUS
  <2>1. /\ DOMAIN store = {} /\ request = [t \in A2AIds |-> "none"]
        /\ told = [t \in A2AIds |-> "nothing"] /\ cancelled = {} /\ peakWorking = 0
    BY DEF Init, A2AInit
  <2>2. Working = {}
    BY <2>1 DEF Working
  <2>3. Cardinality(DOMAIN store) = 0 /\ Cardinality(Working) = 0
    BY <2>1, <2>2, FS_EmptySet
  <2>4. StoreBounded /\ Cardinality(Working) <= peakWorking
    BY <2>1, <2>3, MaxOfTwo, DelegationAssumption DEF StoreBounded
  <2>5. A2ATypeInv /\ ToldIsEnded /\ \A t \in A2AIds : TaskOfRequest(t)
    BY <2>1 DEF A2ATypeInv, ToldIsEnded, TaskOfRequest
  <2>6. QED
    BY <2>4, <2>5 DEF A2AInv
<1>2. A2AInv /\ [Next]_vars => A2AInv'
  BY A2AStep DEF Next, vars, Restart, OtherRestart, a2aState
<1>3. QED
  BY <1>1, <1>2, PTL DEF Spec

\* The store outgrows its limit only by tasks that were working at one time,
\* keeps every task whose turn runs, and no sender is told of a task that is
\* under way, for any number of tasks and any limit (a2a.rs:184, a2a.rs:222).
THEOREM A2ATheorem == Spec => []A2AStoreSound
<1>1. A2AInv => A2AStoreSound
  BY DEF A2AInv, A2ATypeInv, A2AStoreSound, RunningIsKept, TaskOfRequest
<1>2. QED
  BY <1>1, A2AInvariant, PTL

-----------------------------------------------------------------------------
(* The agents of hands *)

\* What an activation has done by each of its steps.
ActivationOK(i) ==
    /\ activation[i] \in {"none", "insert", "spawn", "register"} =>
          i \notin alive /\ rows[i] = NoName /\ renaming[i].at = "idle"
    /\ i \in Linked \cup dying => activation[i] = "done"
    /\ activation[i] \in {"spawn", "register", "link"} => i \in DOMAIN instances \cup cutOff

\* An agent has a name while it is registered; one that is renamed has the new
\* name from the change of its entry on.
EntryOK(i) ==
    /\ i \in alive <=> named[i] # NoName
    /\ renaming[i].at # "idle" => renaming[i].to # NoName
    /\ renaming[i].at \in {"renamed", "unindexed"} /\ i \in alive => named[i] = renaming[i].to

Spawning(i, n) == HandOf[i] = n /\ activation[i] = "register"
Renaming(i, n) == renaming[i].at # "idle" /\ renaming[i].to = n

\* Until two calls have found a name of a hand free together: who is about to
\* take it is alone and has found it free, an agent with the name is the one in the
\* index or about to be put there, and who is to be taken out of it is there.
NameOK(n) ==
    /\ \A i, j \in Instances : /\ Spawning(i, n) /\ Spawning(j, n) => i = j
                               /\ Renaming(i, n) /\ Renaming(j, n) => i = j
                               /\ ~ (Spawning(i, n) /\ Renaming(j, n))
    /\ \A i \in Instances :
          /\ Spawning(i, n) \/ Renaming(i, n) => names[n] = NoAgent
          /\ named[i] = n => \/ names[n] = i
                             \/ Renaming(i, n) /\ renaming[i].at # "checked"
          /\ renaming[i].at = "renamed" /\ renaming[i].from = n => names[n] = i

NamesInv ==
    /\ \A i \in Instances : EntryOK(i)
    /\ \A n \in HandNames : n \notin overlapped => NameOK(n)

InstanceInv == AgentsAreReachable /\ \A i \in Instances : ActivationOK(i)

HandInv == HandTypeOK /\ InstanceInv /\ NamesInv

LEMMA ClaimsAre ==
    ASSUME NEW n
    PROVE  Claims(n) = {} <=> \A i \in Instances : ~ Spawning(i, n) /\ ~ Renaming(i, n)
<1>1. ASSUME Claims(n) = {}, NEW i \in Instances PROVE ~ Spawning(i, n) /\ ~ Renaming(i, n)
  <2>1. Spawning(i, n) => <<i, "spawn">> \in Claims(n)
    BY DEF Claims, Spawning
  <2>2. Renaming(i, n) => <<i, "rename">> \in Claims(n)
    BY DEF Claims, Renaming
  <2>3. QED
    BY <1>1, <2>1, <2>2
<1>2. ASSUME \A i \in Instances : ~ Spawning(i, n) /\ ~ Renaming(i, n) PROVE Claims(n) = {}
  BY <1>2 DEF Claims, Spawning, Renaming
<1>3. QED
  BY <1>1, <1>2

LEMMA HandNamesAre ==
    /\ \A i \in Instances : HandOf[i] \in HandNames
    /\ Other \notin HandNames /\ NoName \notin HandNames /\ NoAgent \notin Instances /\ Other # NoName
BY DelegationAssumption DEF HandNames, Other, NoName

\* A step that leaves the names and who is about to take one.
LEMMA NamesQuiet ==
    ASSUME NamesInv, UNCHANGED <<alive, named, names, renaming, overlapped>>,
           \A j \in Instances : activation'[j] = "register" <=> activation[j] = "register"
    PROVE  NamesInv'
<1>1. \A i \in Instances : EntryOK(i)'
  BY DEF NamesInv, EntryOK
<1>2. \A i \in Instances : \A n : /\ Spawning(i, n)' <=> Spawning(i, n)
                                  /\ Renaming(i, n)' <=> Renaming(i, n)
  BY DEF Spawning, Renaming
<1>3. ASSUME NEW n \in HandNames, n \notin overlapped PROVE NameOK(n)'
  <2>1. NameOK(n)
    BY <1>3 DEF NamesInv
  <2>2. QED
    BY <1>2, <2>1 DEF NameOK
<1>4. QED
  BY <1>1, <1>3 DEF NamesInv

\* One more step of an activation that leaves the registry of agents alone.
LEMMA ActivateStep ==
    ASSUME HandInv, NEW i \in Instances, ActivateCheck(i) \/ ActivateInsert(i) \/ SpawnCheck(i)
    PROVE  HandInv'
<1> USE DEF HandInv
<1>1. CASE ActivateCheck(i)
  <2>1. /\ activation[i] = "none" /\ activation' = [activation EXCEPT ![i] = "insert"]
        /\ UNCHANGED <<agentVars, instances, dying, history>>
    BY <1>1 DEF ActivateCheck, To
  <2>2. HandTypeOK'
    BY <2>1 DEF HandTypeOK, agentVars
  <2>3. InstanceInv'
    BY <2>1 DEF HandTypeOK, InstanceInv, AgentsAreReachable, ActivationOK, Linked, agentVars, history
  <2>4. NamesInv'
    BY <2>1, NamesQuiet DEF HandTypeOK, agentVars, history
  <2>5. QED
    BY <2>2, <2>3, <2>4
<1>2. CASE ActivateInsert(i)
  <2>1. /\ activation[i] = "insert" /\ activation' = [activation EXCEPT ![i] = "spawn"]
        /\ instances' = [j \in DOMAIN instances \cup {i} |->
                            IF j = i THEN [status |-> "active", agent |-> NoAgent] ELSE instances[j]]
        /\ UNCHANGED <<agentVars, dying, history>>
    BY <1>2 DEF ActivateInsert, To
  <2>2. /\ DOMAIN instances' = DOMAIN instances \cup {i}
        /\ instances'[i].agent = NoAgent
        /\ \A j \in DOMAIN instances : j # i => instances'[j] = instances[j]
    BY <2>1
  <2>3. i \notin Linked
    BY <2>1 DEF InstanceInv, ActivationOK
  <2>4. Linked' = Linked
    BY <2>2, <2>3, DelegationAssumption DEF Linked
  <2>5. HandTypeOK'
    <3>1. i \notin dying
      BY <2>1 DEF InstanceInv, ActivationOK
    <3>2. instances'[i] = [status |-> "active", agent |-> NoAgent]
      BY <2>1
    <3>3. \A j \in DOMAIN instances' :
             instances'[j] \in [status : {"active", "paused"}, agent : {j, NoAgent}]
      BY <2>2, <3>2 DEF HandTypeOK
    <3>4. QED
      BY <2>1, <2>2, <3>1, <3>3 DEF HandTypeOK, agentVars
  <2>6. AgentsAreReachable'
    BY <2>1, <2>4 DEF HandTypeOK, InstanceInv, AgentsAreReachable, agentVars, history
  <2>7. \A j \in Instances : ActivationOK(j)'
    BY <2>1, <2>2, <2>4 DEF HandTypeOK, InstanceInv, ActivationOK, agentVars, history
  <2>8. NamesInv'
    BY <2>1, NamesQuiet DEF HandTypeOK, agentVars, history
  <2>9. QED
    BY <2>5, <2>6, <2>7, <2>8 DEF InstanceInv
<1>3. CASE SpawnCheck(i)
  <2>1. /\ activation[i] = "spawn"
        /\ UNCHANGED <<alive, named, names, rows, renaming, instances, dying, cutOff, survived>>
    BY <1>3 DEF SpawnCheck, agentVars
  <2>2. \E pc \in {"done", "register"} : activation' = [activation EXCEPT ![i] = pc]
    BY <1>3 DEF SpawnCheck, To
  <2>3. HandTypeOK'
    BY <2>1, <2>2 DEF HandTypeOK
  <2>4. InstanceInv'
    BY <2>1, <2>2 DEF HandTypeOK, InstanceInv, AgentsAreReachable, ActivationOK, Linked
  <2>5. CASE activation' = [activation EXCEPT ![i] = "done"] /\ UNCHANGED overlapped
    <3>1. NamesInv'
      BY <2>1, <2>5, NamesQuiet DEF HandTypeOK
    <3>2. QED
      BY <2>3, <2>4, <3>1
  <2>6. CASE activation' = [activation EXCEPT ![i] = "register"] /\ Free(HandOf[i])
    <3>1. \A j \in Instances : EntryOK(j)'
      BY <2>1 DEF NamesInv, EntryOK
    <3>2. /\ names[HandOf[i]] = NoAgent
          /\ overlapped \subseteq overlapped'
          /\ HandOf[i] \notin overlapped' => Claims(HandOf[i]) = {}
      BY <2>6, HandNamesAre DEF Free
    <3>3. \A j \in Instances : \A n :
             /\ Spawning(j, n)' => Spawning(j, n) \/ (j = i /\ n = HandOf[i])
             /\ Renaming(j, n)' <=> Renaming(j, n)
      BY <2>1, <2>6 DEF HandTypeOK, Spawning, Renaming
    <3>4. ASSUME NEW n \in HandNames, n \notin overlapped' PROVE NameOK(n)'
      <4>1. NameOK(n)
        BY <3>2, <3>4 DEF NamesInv
      <4>2. n = HandOf[i] => \A j \in Instances : ~ Spawning(j, n) /\ ~ Renaming(j, n)
        BY <3>2, <3>4, ClaimsAre
      <4>3. QED
        BY <2>1, <3>2, <3>3, <4>1, <4>2 DEF NameOK
    <3>5. QED
      BY <2>3, <2>4, <3>1, <3>4 DEF NamesInv
  <2>7. QED
    BY <1>3, <2>5, <2>6 DEF SpawnCheck, To
<1>4. QED
  BY <1>1, <1>2, <1>3

\* Nobody else registers the name that was found free (kernel.rs:3476).
LEMMA RegisterStep ==
    ASSUME HandInv, NEW i \in Instances, SpawnRegister(i)
    PROVE  HandInv'
<1> USE DEF HandInv
<1>1. /\ activation[i] = "register" /\ alive' = alive \cup {i}
      /\ named' = [named EXCEPT ![i] = HandOf[i]] /\ names' = [names EXCEPT ![HandOf[i]] = i]
      /\ UNCHANGED <<renaming, instances, dying, overlapped, survived>>
      /\ \/ /\ activation' = [activation EXCEPT ![i] = "link"] /\ UNCHANGED cutOff
            /\ rows' = [rows EXCEPT ![i] = HandOf[i]]
         \/ /\ activation' = [activation EXCEPT ![i] = "done"] /\ UNCHANGED rows
            /\ cutOff' = cutOff \cup {i}
  BY DEF SpawnRegister, To
<1>2. i \notin alive /\ renaming[i].at = "idle" /\ named[i] = NoName
  BY <1>1 DEF InstanceInv, ActivationOK, NamesInv, EntryOK
<1>3. HandTypeOK'
  BY <1>1, HandNamesAre DEF HandTypeOK, Agents
<1>4. InstanceInv'
  <2>1. Linked' = Linked
    BY <1>1 DEF Linked
  <2>2. AgentsAreReachable'
    BY <1>1, <2>1 DEF HandTypeOK, InstanceInv, AgentsAreReachable
  <2>3. \A j \in Instances : ActivationOK(j)'
    BY <1>1, <2>1 DEF HandTypeOK, InstanceInv, ActivationOK
  <2>4. QED
    BY <2>2, <2>3 DEF InstanceInv
<1>5. \A j \in Instances : EntryOK(j)'
  BY <1>1, <1>2, HandNamesAre DEF HandTypeOK, NamesInv, EntryOK
<1>6. /\ \A j \in Instances : j # i => named'[j] = named[j]
      /\ named'[i] = HandOf[i] /\ names'[HandOf[i]] = i
      /\ \A n \in HandNames : n # HandOf[i] => names'[n] = names[n]
  BY <1>1, HandNamesAre DEF HandTypeOK
<1>7. \A j \in Instances : \A n : /\ Spawning(j, n)' <=> Spawning(j, n) /\ j # i
                                  /\ Renaming(j, n)' <=> Renaming(j, n)
  BY <1>1 DEF HandTypeOK, Spawning, Renaming
<1>8. Spawning(i, HandOf[i]) /\ \A n : ~ Renaming(i, n)
  BY <1>1, <1>2 DEF Spawning, Renaming
<1>9. ASSUME NEW n \in HandNames, n \notin overlapped PROVE NameOK(n)'
  <2>1. NameOK(n)
    BY <1>9 DEF NamesInv
  <2>2. CASE n = HandOf[i]
    <3>1. \A j \in Instances : /\ ~ Spawning(j, n)' /\ ~ Renaming(j, n)'
      BY <1>7, <1>8, <2>1, <2>2 DEF NameOK
    <3>2. names[n] = NoAgent
      BY <1>8, <2>1, <2>2 DEF NameOK
    <3>3. \A j \in Instances : j # i => named'[j] # n
      BY <1>6, <1>8, <2>1, <2>2, <3>2, HandNamesAre DEF NameOK
    <3>4. \A j \in Instances : ~ (renaming[j].at = "renamed" /\ renaming[j].from = n)
      BY <2>1, <3>2, HandNamesAre DEF NameOK
    <3>5. QED
      BY <1>1, <1>6, <2>2, <3>1, <3>3, <3>4 DEF NameOK
  <2>3. CASE n # HandOf[i]
    BY <1>1, <1>6, <1>7, <2>1, <2>3 DEF NameOK
  <2>4. QED
    BY <2>2, <2>3
<1>10. QED
  BY <1>3, <1>4, <1>5, <1>1, <1>9 DEF NamesInv

\* What set_agent finds is the instance, or it was deactivated without the agent.
LEMMA LinkStep ==
    ASSUME HandInv, NEW i \in Instances, LinkAgent(i)
    PROVE  HandInv'
<1> USE DEF HandInv
<1>1. /\ activation[i] = "link" /\ activation' = [activation EXCEPT ![i] = "done"]
      /\ instances' = [j \in DOMAIN instances |->
                          IF j = i THEN [instances[j] EXCEPT !.agent = i] ELSE instances[j]]
      /\ UNCHANGED <<agentVars, dying, history>>
  BY DEF LinkAgent, To
<1>2. /\ DOMAIN instances' = DOMAIN instances
      /\ \A j \in DOMAIN instances : j # i => instances'[j] = instances[j]
  BY <1>1
<1>3. Linked' \subseteq Linked \cup {i} /\ Linked \subseteq Linked' \cup {i}
  BY <1>2 DEF Linked
<1>4. HandTypeOK'
  BY <1>1, <1>2 DEF HandTypeOK, agentVars
<1>5. \A j \in Instances : ActivationOK(j)'
  BY <1>1, <1>2, <1>3 DEF HandTypeOK, InstanceInv, ActivationOK, agentVars, history
<1>6. AgentsAreReachable'
  <2>1. i \in Linked' \cup cutOff
    BY <1>1 DEF InstanceInv, ActivationOK, Linked, HandTypeOK
  <2>2. QED
    BY <1>1, <1>3, <2>1 DEF InstanceInv, AgentsAreReachable, HandTypeOK, agentVars, history
<1>7. NamesInv'
  BY <1>1, NamesQuiet DEF HandTypeOK, agentVars, history
<1>8. QED
  BY <1>4, <1>5, <1>6, <1>7 DEF InstanceInv

\* The agent of an instance is killed with it, if the instance has it by then.
LEMMA DeactivateStep ==
    ASSUME HandInv, NEW i \in Instances, DeactivateHand(i)
    PROVE  HandInv'
<1> USE DEF HandInv
<1>1. /\ i \in DOMAIN instances
      /\ instances' = [j \in DOMAIN instances \ {i} |-> instances[j]]
      /\ dying' = dying \cup ({i} \cap Linked)
      /\ cutOff' = cutOff \cup ({i} \ Linked)
      /\ UNCHANGED <<agentVars, activation, overlapped, survived>>
  BY DEF DeactivateHand
<1>2. /\ DOMAIN instances' = DOMAIN instances \ {i}
      /\ \A j \in DOMAIN instances' : instances'[j] = instances[j]
  BY <1>1
<1>3. Linked' = Linked \ {i}
  BY <1>2 DEF Linked
<1>4. HandTypeOK'
  BY <1>1, <1>2 DEF HandTypeOK, agentVars
<1>5. AgentsAreReachable'
  BY <1>1, <1>3 DEF InstanceInv, AgentsAreReachable, agentVars
<1>6. \A j \in Instances : ActivationOK(j)'
  BY <1>1, <1>2, <1>3 DEF InstanceInv, ActivationOK, agentVars
<1>7. NamesInv'
  BY <1>1, NamesQuiet DEF agentVars
<1>8. QED
  BY <1>4, <1>5, <1>6, <1>7 DEF InstanceInv

-----------------------------------------------------------------------------
(* Renaming an agent of a hand *)

\* What instances and their agents are to each other is not touched.
LEMMA RenameInstances ==
    ASSUME HandInv, RenameUnchanged, NEW i \in Instances,
           i \in alive \/ renaming[i].at # "idle",
           \A j \in Instances : j # i => renaming'[j] = renaming[j]
    PROVE  InstanceInv'
<1>1. Linked' = Linked
  BY DEF RenameUnchanged, instanceVars, Linked
<1>2. AgentsAreReachable'
  BY <1>1 DEF HandInv, InstanceInv, AgentsAreReachable, RenameUnchanged, instanceVars
<1>3. \A j \in Instances : ActivationOK(j)'
  BY <1>1 DEF HandInv, InstanceInv, ActivationOK, RenameUnchanged, instanceVars
<1>4. QED
  BY <1>2, <1>3 DEF InstanceInv

\* The new name is free, and unless another call has found it so it is only
\* this agent's from then on (kernel registry.rs:215).
LEMMA RenameCheckStep ==
    ASSUME HandInv, NEW i \in Instances, NEW m \in HandNames \cup {Other}, RenameCheck(i, m)
    PROVE  HandInv'
<1> USE DEF HandInv
<1>1. /\ i \in alive /\ renaming[i].at = "idle"
      /\ renaming' = [renaming EXCEPT ![i] = [at |-> "checked", from |-> NoName, to |-> m]]
      /\ Free(m) /\ UNCHANGED <<alive, named, names, rows, activation>> /\ RenameUnchanged
  BY DEF RenameCheck, RenameStep, RenameUnchanged, instanceVars
<1>2. /\ renaming'[i] = [at |-> "checked", from |-> NoName, to |-> m]
      /\ \A j \in Instances : j # i => renaming'[j] = renaming[j]
  BY <1>1 DEF HandTypeOK
<1>3. InstanceInv'
  BY <1>1, <1>2, RenameInstances
<1>4. HandTypeOK'
  BY <1>1 DEF HandTypeOK, RenameUnchanged, instanceVars
<1>5. \A j \in Instances : EntryOK(j)'
  BY <1>1, <1>2, HandNamesAre DEF NamesInv, EntryOK
<1>6. /\ m \in HandNames => names[m] = NoAgent
      /\ overlapped \subseteq overlapped'
      /\ m \in HandNames /\ m \notin overlapped' => Claims(m) = {}
  BY <1>1, HandNamesAre DEF Free
<1>7. \A j \in Instances : \A n : /\ Spawning(j, n)' <=> Spawning(j, n)
                                  /\ Renaming(j, n)' <=> Renaming(j, n) \/ (j = i /\ n = m)
  BY <1>1, <1>2 DEF Spawning, Renaming
<1>8. ASSUME NEW n \in HandNames, n \notin overlapped' PROVE NameOK(n)'
  <2>1. NameOK(n)
    BY <1>6, <1>8 DEF NamesInv
  <2>2. n = m => \A j \in Instances : ~ Spawning(j, n) /\ ~ Renaming(j, n)
    BY <1>6, <1>8, ClaimsAre
  <2>3. /\ \A j, k \in Instances : /\ Spawning(j, n)' /\ Spawning(k, n)' => j = k
                                   /\ Renaming(j, n)' /\ Renaming(k, n)' => j = k
                                   /\ ~ (Spawning(j, n)' /\ Renaming(k, n)')
        /\ \A j \in Instances : Spawning(j, n)' \/ Renaming(j, n)' => names'[n] = NoAgent
    BY <1>1, <1>6, <1>7, <2>1, <2>2 DEF NameOK
  <2>4. ASSUME NEW j \in Instances
        PROVE  /\ named'[j] = n => \/ names'[n] = j
                                   \/ Renaming(j, n)' /\ renaming'[j].at # "checked"
               /\ renaming'[j].at = "renamed" /\ renaming'[j].from = n => names'[n] = j
    <3>1. CASE j = i
      BY <1>1, <1>2, <2>1, <3>1 DEF NameOK, Renaming
    <3>2. CASE j # i
      BY <1>1, <1>2, <1>7, <2>1, <3>2 DEF NameOK
    <3>3. QED
      BY <3>1, <3>2
  <2>5. QED
    BY <2>3, <2>4 DEF NameOK
<1>9. QED
  BY <1>3, <1>4, <1>5, <1>8 DEF NamesInv

\* The entry gets the new name; the old one is in the index till it is taken out.
LEMMA RenameEntryStep ==
    ASSUME HandInv, NEW i \in Instances, RenameEntry(i)
    PROVE  HandInv'
<1> USE DEF HandInv
<1>1. renaming[i].at = "checked" /\ UNCHANGED <<names, overlapped>> /\ RenameUnchanged
  BY DEF RenameEntry, RenameStep
<1>2. UNCHANGED <<alive, rows, activation>>
  BY <1>1 DEF RenameUnchanged, instanceVars
<1>3. CASE i \notin alive
  <2>1. UNCHANGED named /\ renaming' = [renaming EXCEPT ![i] = NoRename]
    BY <1>3 DEF RenameEntry, RenameStep
  <2>2. renaming'[i] = NoRename /\ \A j \in Instances : j # i => renaming'[j] = renaming[j]
    BY <2>1 DEF HandTypeOK
  <2>3. InstanceInv'
    BY <1>1, <2>2, RenameInstances
  <2>4. HandTypeOK'
    BY <1>1, <2>1 DEF HandTypeOK, NoRename, RenameUnchanged, instanceVars
  <2>5. \A j \in Instances : EntryOK(j)'
    BY <1>2, <2>1, <2>2 DEF NamesInv, EntryOK, NoRename
  <2>6. \A j \in Instances : \A n : /\ Spawning(j, n)' <=> Spawning(j, n)
                                    /\ Renaming(j, n)' <=> Renaming(j, n) /\ j # i
    BY <1>2, <2>2 DEF Spawning, Renaming, NoRename
  <2>7. ASSUME NEW n \in HandNames, n \notin overlapped PROVE NameOK(n)'
    <3>1. NameOK(n) /\ named[i] # n
      BY <1>3, <2>7, HandNamesAre DEF NamesInv, EntryOK
    <3>2. QED
      BY <1>1, <2>1, <2>2, <2>6, <3>1 DEF NameOK, NoRename
  <2>8. QED
    BY <1>1, <2>3, <2>4, <2>5, <2>7 DEF NamesInv
<1>4. CASE i \in alive
  <2>1. /\ named' = [named EXCEPT ![i] = renaming[i].to]
        /\ renaming' = [renaming EXCEPT ![i] = [renaming[i] EXCEPT !.at = "renamed", !.from = named[i]]]
    BY <1>4 DEF RenameEntry, RenameStep
  <2>2. /\ renaming'[i] = [renaming[i] EXCEPT !.at = "renamed", !.from = named[i]]
        /\ \A j \in Instances : j # i => renaming'[j] = renaming[j] /\ named'[j] = named[j]
        /\ named'[i] = renaming[i].to
    BY <2>1 DEF HandTypeOK
  <2>3. renaming'[i].at = "renamed" /\ renaming'[i].from = named[i] /\ renaming'[i].to = renaming[i].to
    BY <2>2 DEF HandTypeOK
  <2>4. InstanceInv'
    BY <1>1, <2>2, RenameInstances
  <2>5. HandTypeOK'
    <3>1. /\ named[i] \in HandNames \cup {Other, NoName} /\ renaming[i].to # NoName
          /\ renaming[i].to \in HandNames \cup {Other, NoName}
      BY <1>1 DEF HandTypeOK, NamesInv, EntryOK
    <3> DEFINE S == [at : {"idle", "checked", "renamed", "unindexed"},
                     from : HandNames \cup {Other, NoName}, to : HandNames \cup {Other, NoName}]
    <3>2. renaming \in [Instances -> S] /\ named \in [Instances -> HandNames \cup {Other, NoName}]
      BY DEF HandTypeOK
    <3>3. [renaming[i] EXCEPT !.at = "renamed", !.from = named[i]] \in S
      BY <3>1, <3>2
    <3>4. named' \in [Instances -> HandNames \cup {Other, NoName}]
      BY <2>1, <3>1, <3>2
    <3>5. renaming' \in [Instances -> S]
      <4> HIDE DEF S
      <4>1. QED
        BY <2>1, <3>2, <3>3
    <3>6. QED
      BY <1>1, <3>4, <3>5 DEF HandTypeOK, RenameUnchanged, instanceVars
  <2>6. \A j \in Instances : EntryOK(j)'
    <3>1. EntryOK(i)'
      <4>1. renaming[i].to # NoName
        BY <1>1 DEF NamesInv, EntryOK
      <4>2. QED
        BY <1>2, <1>4, <2>2, <2>3, <4>1 DEF EntryOK
    <3>2. ASSUME NEW j \in Instances, j # i PROVE EntryOK(j)'
      <4>1. EntryOK(j) /\ renaming'[j] = renaming[j] /\ named'[j] = named[j]
        BY <2>2, <3>2 DEF NamesInv
      <4>2. QED
        BY <1>2, <4>1 DEF EntryOK
    <3>3. QED
      BY <3>1, <3>2
  <2>7. \A j \in Instances : \A n : /\ Spawning(j, n)' <=> Spawning(j, n)
                                    /\ Renaming(j, n)' <=> Renaming(j, n)
    BY <1>1, <1>2, <2>2, <2>3 DEF Spawning, Renaming
  <2>8. ASSUME NEW n \in HandNames, n \notin overlapped PROVE NameOK(n)'
    <3>1. NameOK(n)
      BY <2>8 DEF NamesInv
    <3>2. named[i] = n => names[n] = i
      BY <1>1, <3>1 DEF NameOK
    <3>3. named'[i] = n => Renaming(i, n)' /\ renaming'[i].at # "checked"
      BY <1>1, <2>2, <2>3, <2>7 DEF Renaming
    <3>4. QED
      BY <1>1, <2>2, <2>3, <2>7, <3>1, <3>2, <3>3 DEF NameOK
  <2>9. QED
    BY <1>1, <2>4, <2>5, <2>6, <2>8 DEF NamesInv
<1>5. QED
  BY <1>3, <1>4

\* What is taken out of the index is the agent itself, with the name it had.
LEMMA RenameUnindexStep ==
    ASSUME HandInv, NEW i \in Instances, RenameUnindex(i)
    PROVE  HandInv'
<1> USE DEF HandInv
<1> DEFINE f == renaming[i].from
<1>1. /\ renaming[i].at = "renamed" /\ UNCHANGED <<named, overlapped>> /\ RenameUnchanged
      /\ renaming' = [renaming EXCEPT ![i] = [renaming[i] EXCEPT !.at = "unindexed"]]
      /\ names' = IF f = Other THEN names ELSE [names EXCEPT ![f] = NoAgent]
  BY DEF RenameUnindex, RenameStep, IndexTo
<1>2. UNCHANGED <<alive, rows, activation>>
  BY <1>1 DEF RenameUnchanged, instanceVars
<1>3. /\ renaming'[i] = [renaming[i] EXCEPT !.at = "unindexed"]
      /\ \A j \in Instances : j # i => renaming'[j] = renaming[j]
      /\ renaming'[i].at = "unindexed" /\ renaming'[i].to = renaming[i].to
  BY <1>1 DEF HandTypeOK
<1>4. InstanceInv'
  BY <1>1, <1>3, RenameInstances
<1>5. HandTypeOK'
  <2>1. names' \in [HandNames -> Instances \cup {NoAgent}]
    BY <1>1 DEF HandTypeOK
  <2>2. QED
    BY <1>1, <2>1 DEF HandTypeOK, RenameUnchanged, instanceVars
<1>6. \A j \in Instances : EntryOK(j)'
  BY <1>1, <1>2, <1>3 DEF NamesInv, EntryOK
<1>7. \A j \in Instances : \A n : /\ Spawning(j, n)' <=> Spawning(j, n)
                                  /\ Renaming(j, n)' <=> Renaming(j, n)
  BY <1>1, <1>2, <1>3 DEF Spawning, Renaming
<1>8. \A n \in HandNames : names'[n] = IF n = f THEN NoAgent ELSE names[n]
  BY <1>1, HandNamesAre DEF HandTypeOK
<1>9. ASSUME NEW n \in HandNames, n \notin overlapped PROVE NameOK(n)'
  <2>1. NameOK(n)
    BY <1>9 DEF NamesInv
  <2>2. CASE n # f
    BY <1>1, <1>3, <1>7, <1>8, <2>1, <2>2 DEF NameOK
  <2>3. CASE n = f
    <3>1. names[n] = i
      BY <1>1, <2>1, <2>3 DEF NameOK
    <3>2. \A j \in Instances : ~ Spawning(j, n) /\ ~ Renaming(j, n)
      BY <2>1, <3>1, HandNamesAre DEF NameOK
    <3>3. named[i] # n
      <4>1. ~ Renaming(i, n)
        BY <3>2
      <4>2. renaming[i].to # n
        BY <1>1, <4>1 DEF Renaming
      <4>3. QED
        BY <1>1, <4>2, HandNamesAre DEF NamesInv, EntryOK
    <3>4. \A j \in Instances : named[j] # n
      BY <2>1, <3>1, <3>2, <3>3 DEF NameOK
    <3>5. \A j \in Instances : j # i => ~ (renaming[j].at = "renamed" /\ renaming[j].from = n)
      BY <2>1, <3>1 DEF NameOK
    <3>6. QED
      BY <1>1, <1>3, <1>7, <3>2, <3>4, <3>5 DEF NameOK
  <2>4. QED
    BY <2>2, <2>3
<1>10. QED
  BY <1>1, <1>4, <1>5, <1>6, <1>9 DEF NamesInv

\* The agent is put into the index, or what is left of it after a kill.
LEMMA RenameIndexStep ==
    ASSUME HandInv, NEW i \in Instances, RenameIndex(i)
    PROVE  HandInv'
<1> USE DEF HandInv
<1> DEFINE t == renaming[i].to
<1>1. /\ renaming[i].at = "unindexed" /\ UNCHANGED <<named, overlapped>> /\ RenameUnchanged
      /\ renaming' = [renaming EXCEPT ![i] = NoRename]
      /\ names' = IF t = Other THEN names ELSE [names EXCEPT ![t] = i]
  BY DEF RenameIndex, RenameStep, IndexTo
<1>2. UNCHANGED <<alive, rows, activation>>
  BY <1>1 DEF RenameUnchanged, instanceVars
<1>3. renaming'[i] = NoRename /\ \A j \in Instances : j # i => renaming'[j] = renaming[j]
  BY <1>1 DEF HandTypeOK
<1>4. InstanceInv'
  BY <1>1, <1>3, RenameInstances
<1>5. HandTypeOK'
  <2>1. names' \in [HandNames -> Instances \cup {NoAgent}]
    BY <1>1 DEF HandTypeOK
  <2>2. QED
    BY <1>1, <2>1 DEF HandTypeOK, NoRename, RenameUnchanged, instanceVars
<1>6. \A j \in Instances : EntryOK(j)'
  BY <1>1, <1>2, <1>3 DEF NamesInv, EntryOK, NoRename
<1>7. \A j \in Instances : \A n : /\ Spawning(j, n)' <=> Spawning(j, n)
                                  /\ Renaming(j, n)' <=> Renaming(j, n) /\ j # i
  BY <1>1, <1>2, <1>3 DEF Spawning, Renaming, NoRename
<1>8. \A n \in HandNames : names'[n] = IF n = t THEN i ELSE names[n]
  BY <1>1, HandNamesAre DEF HandTypeOK
<1>9. ASSUME NEW n \in HandNames, n \notin overlapped PROVE NameOK(n)'
  <2>1. NameOK(n)
    BY <1>9 DEF NamesInv
  <2>2. CASE n # t
    <3>1. ~ Renaming(i, n)
      BY <2>2 DEF Renaming
    <3>2. QED
      BY <1>1, <1>3, <1>7, <1>8, <2>1, <2>2, <3>1 DEF NameOK, NoRename
  <2>3. CASE n = t
    <3>1. Renaming(i, n)
      BY <1>1, <2>3 DEF Renaming
    <3>2. names[n] = NoAgent
      BY <2>1, <3>1 DEF NameOK
    <3>3. \A j \in Instances : ~ Spawning(j, n) /\ (Renaming(j, n) => j = i)
      BY <2>1, <3>1 DEF NameOK
    <3>4. \A j \in Instances : j # i => named[j] # n
      BY <2>1, <3>2, <3>3, HandNamesAre DEF NameOK
    <3>5. \A j \in Instances : ~ (renaming[j].at = "renamed" /\ renaming[j].from = n)
      BY <2>1, <3>2, HandNamesAre DEF NameOK
    <3>6. names'[n] = i
      BY <1>8, <2>3
    <3>7. \A j \in Instances : ~ Spawning(j, n)' /\ ~ Renaming(j, n)'
      BY <1>7, <3>3
    <3>8. \A j \in Instances : ~ (renaming'[j].at = "renamed" /\ renaming'[j].from = n)
      BY <1>3, <3>5 DEF NoRename
    <3>9. QED
      BY <1>1, <3>4, <3>6, <3>7, <3>8 DEF NameOK
  <2>4. QED
    BY <2>2, <2>3
<1>10. QED
  BY <1>1, <1>4, <1>5, <1>6, <1>9 DEF NamesInv

\* While names are exact, killing an agent frees its own name and no other.
LEMMA KillStep ==
    ASSUME HandInv, NEW i \in Instances, Kill(i), dying' \in {dying, dying \ {i}},
           UNCHANGED <<instances, activation, history>>
    PROVE  HandInv'
<1> USE DEF HandInv
<1>1. /\ alive' = alive \ {i} /\ named' = [named EXCEPT ![i] = NoName]
      /\ UNCHANGED <<renaming, instances, activation, overlapped, cutOff, survived>>
      /\ names' = IF i \notin alive \/ named[i] = Other THEN names ELSE [names EXCEPT ![named[i]] = NoAgent]
      /\ rows' \in {rows, [rows EXCEPT ![i] = NoName]}
  BY DEF Kill, IndexTo, history
<1>2. /\ named'[i] = NoName /\ \A j \in Instances : j # i => named'[j] = named[j]
      /\ \A j \in Instances : rows'[j] \in {rows[j], NoName}
  BY <1>1 DEF HandTypeOK
<1>3. HandTypeOK'
  <2>1. /\ names' \in [HandNames -> Instances \cup {NoAgent}]
        /\ named' \in [Instances -> HandNames \cup {Other, NoName}]
        /\ rows' \in [Instances -> HandNames \cup {Other, NoName}]
    BY <1>1 DEF HandTypeOK
  <2>2. QED
    BY <1>1, <2>1 DEF HandTypeOK
<1>4. InstanceInv'
  <2>1. Linked' = Linked
    BY <1>1 DEF Linked
  <2>2. AgentsAreReachable'
    BY <1>1, <2>1 DEF InstanceInv, AgentsAreReachable
  <2>3. \A j \in Instances : ActivationOK(j)'
    BY <1>1, <1>2, <2>1 DEF InstanceInv, ActivationOK
  <2>4. QED
    BY <2>2, <2>3 DEF InstanceInv
<1>5. \A j \in Instances : EntryOK(j)'
  BY <1>1, <1>2 DEF NamesInv, EntryOK
<1>6. \A j \in Instances : \A n : /\ Spawning(j, n)' <=> Spawning(j, n)
                                  /\ Renaming(j, n)' <=> Renaming(j, n)
  BY <1>1 DEF Spawning, Renaming
<1>7. \A n \in HandNames : names'[n] = IF i \in alive /\ named[i] = n THEN NoAgent ELSE names[n]
  BY <1>1, HandNamesAre DEF HandTypeOK
<1>8. ASSUME NEW n \in HandNames, n \notin overlapped PROVE NameOK(n)'
  <2>1. NameOK(n)
    BY <1>8 DEF NamesInv
  <2>2. CASE ~ (i \in alive /\ named[i] = n)
    BY <1>1, <1>2, <1>6, <1>7, <2>1, <2>2, HandNamesAre DEF NameOK
  <2>3. CASE i \in alive /\ named[i] = n
    <3>1. names[n] = i \/ Renaming(i, n)
      BY <2>1, <2>3 DEF NameOK
    <3>2. names[n] \in {i, NoAgent}
      BY <2>1, <3>1 DEF NameOK
    <3>3. ASSUME NEW j \in Instances, j # i, named[j] = n
          PROVE  Renaming(j, n) /\ renaming[j].at # "checked"
      BY <2>1, <3>2, <3>3, HandNamesAre DEF NameOK
    <3>4. ASSUME NEW j \in Instances, renaming[j].at = "renamed", renaming[j].from = n
          PROVE  FALSE
      <4>1. names[n] = j
        BY <2>1, <3>4 DEF NameOK
      <4>2. j = i /\ ~ Renaming(i, n)
        BY <2>1, <3>2, <4>1, HandNamesAre DEF NameOK
      <4>3. renaming[i].to # n
        BY <3>4, <4>2 DEF Renaming
      <4>4. QED
        BY <2>3, <3>4, <4>2, <4>3 DEF NamesInv, EntryOK
    <3>5. names'[n] = NoAgent
      BY <1>7, <2>3
    <3>6. \A j \in Instances : named'[j] = n => Renaming(j, n)' /\ renaming'[j].at # "checked"
      BY <1>1, <1>2, <1>6, <3>3, HandNamesAre
    <3>7. QED
      BY <1>1, <1>6, <2>1, <3>4, <3>5, <3>6 DEF NameOK
  <2>4. QED
    BY <2>2, <2>3
<1>9. QED
  BY <1>1, <1>3, <1>4, <1>5, <1>8 DEF NamesInv

\* A restart brings back one agent of a name, and the index with it; it takes
\* the instances, so that their agents are left to the users.
LEMMA HandRestartStep ==
    ASSUME HandInv, HandRestart
    PROVE  HandInv'
<1> USE DEF HandInv
<1>1. PICK S \in SUBSET {i \in Instances : rows[i] # NoName} :
        /\ \A i, j \in S : rows[i] = rows[j] /\ rows[i] # Other => i = j
        /\ alive' = S \cup Residents /\ survived' = survived \cup S
        /\ named' = [i \in Instances |-> IF i \in S THEN rows[i] ELSE NoName]
        /\ names' = [h \in HandNames |-> IF \E i \in S : rows[i] = h
                                         THEN CHOOSE i \in S : rows[i] = h ELSE NoAgent]
        /\ renaming' = [i \in Instances |-> NoRename]
        /\ instances' = [i \in {} |-> 0] /\ dying' = {}
        /\ activation' = [i \in Instances |-> IF activation[i] = "none" THEN "none" ELSE "done"]
        /\ overlapped' = {} /\ UNCHANGED <<rows, cutOff>>
  BY DEF HandRestart
<1>2. S \subseteq Instances /\ S \cap Residents = {} /\ \A i \in S : rows[i] # NoName
  BY DelegationAssumption
<1>3. ASSUME NEW i \in S, rows[i] \in HandNames PROVE names'[rows[i]] = i
  <2> DEFINE k == CHOOSE x \in S : rows[x] = rows[i]
  <2>1. k \in S /\ rows[k] = rows[i]
    OBVIOUS
  <2>2. names'[rows[i]] = k
    BY <1>1, <1>3
  <2> HIDE DEF k
  <2>3. k = i
    BY <1>1, <1>3, <2>1, HandNamesAre
  <2>4. QED
    BY <2>2, <2>3
<1>4. names' \in [HandNames -> Instances \cup {NoAgent}]
  <2>1. ASSUME NEW h \in HandNames, \E i \in S : rows[i] = h
        PROVE  (CHOOSE i \in S : rows[i] = h) \in S
    BY <2>1
  <2>2. QED
    BY <1>1, <1>2, <2>1
<1>5. DOMAIN instances' = {} /\ Linked' = {}
  BY <1>1 DEF Linked
<1>6. HandTypeOK'
  BY <1>1, <1>2, <1>4, <1>5 DEF HandTypeOK, NoRename
<1>7. InstanceInv'
  <2>1. AgentsAreReachable'
    BY <1>1, DelegationAssumption DEF AgentsAreReachable
  <2>2. ASSUME NEW i \in Instances PROVE ActivationOK(i)'
    <3>1. activation'[i] = IF activation[i] = "none" THEN "none" ELSE "done"
      BY <1>1
    <3>2. activation[i] = "none" => rows'[i] = NoName /\ i \notin alive'
      BY <1>1, <1>2, DelegationAssumption DEF InstanceInv, ActivationOK
    <3>3. renaming'[i].at = "idle"
      BY <1>1 DEF NoRename
    <3>4. QED
      BY <1>1, <1>5, <3>1, <3>2, <3>3 DEF ActivationOK
  <2>3. QED
    BY <2>1, <2>2 DEF InstanceInv
<1>8. ASSUME NEW i \in Instances
      PROVE  /\ renaming'[i].at = "idle" /\ activation'[i] # "register"
             /\ named'[i] = IF i \in S THEN rows[i] ELSE NoName
             /\ i \in alive' <=> i \in S
  BY <1>1, DelegationAssumption DEF NoRename
<1>9. \A i \in Instances : EntryOK(i)'
  BY <1>2, <1>8 DEF EntryOK
<1>10. ASSUME NEW n \in HandNames PROVE NameOK(n)'
  <2>1. \A i \in Instances : ~ Spawning(i, n)' /\ ~ Renaming(i, n)'
    BY <1>8 DEF Spawning, Renaming
  <2>2. \A i \in Instances : named'[i] = n => names'[n] = i
    BY <1>3, <1>8, HandNamesAre
  <2>3. QED
    BY <1>8, <2>1, <2>2 DEF NameOK
<1>11. QED
  BY <1>6, <1>7, <1>9, <1>10 DEF NamesInv

LEMMA HandStep ==
    ASSUME HandInv, HandNext \/ HandRestart \/ UNCHANGED <<alive, handState>>
    PROVE  HandInv'
<1>1. ASSUME NEW i \in Instances, KillHandAgent(i) \/ KillByUser(i) PROVE HandInv'
  BY <1>1, KillStep DEF KillHandAgent, KillByUser, instanceVars
<1>2. ASSUME NEW i \in Instances, NEW status \in {"active", "paused"}, SetStatus(i, status)
      PROVE  HandInv'
  <2>1. /\ i \in DOMAIN instances /\ instances' = [instances EXCEPT ![i].status = status]
        /\ UNCHANGED <<agentVars, activation, dying, history>>
    BY <1>2 DEF SetStatus
  <2>2. /\ DOMAIN instances' = DOMAIN instances
        /\ \A j \in DOMAIN instances : /\ instances'[j].agent = instances[j].agent
                                       /\ instances'[j] \in [status : {"active", "paused"},
                                                             agent : {j, NoAgent}]
    BY <2>1 DEF HandInv, HandTypeOK
  <2>3. Linked' = Linked
    BY <2>2 DEF Linked
  <2>4. HandTypeOK' /\ InstanceInv'
    BY <2>1, <2>2, <2>3 DEF HandInv, HandTypeOK, InstanceInv, AgentsAreReachable, ActivationOK,
                            agentVars, history
  <2>5. NamesInv'
    BY <2>1, NamesQuiet DEF HandInv, agentVars, history
  <2>6. QED
    BY <2>4, <2>5 DEF HandInv
<1>3. ASSUME NEW i \in Instances, SaveAgent(i) PROVE HandInv'
  <2>1. /\ i \in alive /\ rows' = [rows EXCEPT ![i] = named[i]]
        /\ UNCHANGED <<alive, named, names, renaming, instances, activation, dying,
                       overlapped, cutOff, survived>>
    BY <1>3 DEF SaveAgent, instanceVars, history
  <2>2. HandTypeOK'
    BY <2>1 DEF HandInv, HandTypeOK
  <2>3. InstanceInv'
    BY <2>1 DEF HandInv, HandTypeOK, InstanceInv, AgentsAreReachable, ActivationOK, Linked
  <2>4. NamesInv'
    BY <2>1, NamesQuiet DEF HandInv
  <2>5. QED
    BY <2>2, <2>3, <2>4 DEF HandInv
<1>4. CASE UNCHANGED <<alive, handState>>
  <2>1. HandTypeOK' /\ InstanceInv'
    BY <1>4 DEF handState, HandInv, HandTypeOK, InstanceInv, AgentsAreReachable, ActivationOK, Linked
  <2>2. NamesInv'
    BY <1>4, NamesQuiet DEF handState, HandInv
  <2>3. QED
    BY <2>1, <2>2 DEF HandInv
<1>5. QED
  BY <1>1, <1>2, <1>3, <1>4, ActivateStep, RegisterStep, LinkStep, DeactivateStep, HandRestartStep,
     RenameCheckStep, RenameEntryStep, RenameUnindexStep, RenameIndexStep
  DEF HandNext

LEMMA HandInvariant == Spec => []HandInv
<1>1. Init => HandInv
  <2> SUFFICES ASSUME Init PROVE HandInv
    OBVIOUS
  <2>1. /\ alive = Residents /\ named = [i \in Instances |-> NoName]
        /\ names = [h \in HandNames |-> NoAgent] /\ rows = [i \in Instances |-> NoName]
        /\ renaming = [i \in Instances |-> NoRename]
        /\ DOMAIN instances = {} /\ activation = [i \in Instances |-> "none"] /\ dying = {}
    BY DEF Init, HandInit
  <2>2. alive \cap Instances = {} /\ Linked = {}
    BY <2>1, DelegationAssumption DEF Linked
  <2>3. HandTypeOK
    BY <2>1 DEF HandTypeOK, NoRename
  <2>4. InstanceInv
    BY <2>1, <2>2 DEF InstanceInv, AgentsAreReachable, ActivationOK, NoRename
  <2>5. NamesInv
    BY <2>1, <2>2, HandNamesAre DEF NamesInv, EntryOK, NameOK, Spawning, Renaming, NoRename
  <2>6. QED
    BY <2>3, <2>4, <2>5 DEF HandInv
<1>2. HandInv /\ [Next]_vars => HandInv'
  BY HandStep DEF Next, vars, Restart, OtherRestart
<1>3. QED
  BY <1>1, <1>2, PTL DEF Spec

\* One agent has the name of a hand unless two calls that give it found it free
\* together since the daemon was started, and no agent of a hand is out of the
\* reach of its instance but after a spawn that was not saved, a deactivation that
\* came too early or a restart, for any number of hands, instances, renamings and
\* restarts (registry.rs:98, kernel.rs:1807, kernel.rs:3476).
THEOREM HandTheorem == Spec => []HandAgentsSound
<1>1. HandInv => HandAgentsSound
  <2> SUFFICES ASSUME HandInv PROVE HandAgentsSound
    OBVIOUS
  <2>1. ASSUME NEW i \in alive \cap Instances, NEW j \in alive \cap Instances,
               named[i] = named[j], named[i] \notin overlapped \cup {Other}
        PROVE  i = j
    <3> DEFINE n == named[i]
    <3>1. n \in HandNames /\ NameOK(n)
      BY <2>1 DEF HandInv, HandTypeOK, NamesInv, EntryOK
    <3>2. \A k \in {i, j} : names[n] = k \/ Renaming(k, n)
      BY <2>1, <3>1 DEF NameOK
    <3>3. QED
      BY <3>1, <3>2, HandNamesAre DEF NameOK
  <2>2. QED
    BY <2>1 DEF HandInv, InstanceInv, HandAgentsSound, OneAgentPerHand
<1>2. QED
  BY <1>1, HandInvariant, PTL

-----------------------------------------------------------------------------
(* Types *)

\* A task has no answer before its turn is over.
AnswerInv ==
    \A t \in DOMAIN store :
        /\ store[t] \in [status : Ended \cup {"working"}, answers : 0 .. 1]
        /\ request[t] = "turn" => store[t].answers = 0

LEMMA AnswerStep ==
    ASSUME A2AInv, AnswerInv, A2ANext \/ A2ARestart \/ UNCHANGED a2aState
    PROVE  AnswerInv'
<1>1. ASSUME NEW t \in A2AIds, SendTask(t) PROVE AnswerInv'
  <2>1. /\ request[t] = "none" /\ request' = [request EXCEPT ![t] = "turn"]
        /\ store' \in Inserted(t)
    BY <1>1 DEF SendTask
  <2>2. PICK S \in SUBSET DOMAIN store :
           store' = [x \in S \cup {t} |-> IF x = t THEN [status |-> "working", answers |-> 0] ELSE store[x]]
    <3>1. \A v : DOMAIN store \ {v} \in SUBSET DOMAIN store
      OBVIOUS
    <3>2. QED
      BY <2>1, <3>1 DEF Inserted
  <2>3. /\ store'[t] = [status |-> "working", answers |-> 0]
        /\ \A x \in DOMAIN store' : x # t => x \in DOMAIN store /\ store'[x] = store[x]
    BY <2>2
  <2>4. \A x \in A2AIds : x # t => request'[x] = request[x]
    BY <2>1
  <2>5. DOMAIN store \subseteq A2AIds
    BY DEF A2AInv, A2ATypeInv
  <2>6. [status |-> "working", answers |-> 0] \in [status : Ended \cup {"working"}, answers : 0 .. 1]
    OBVIOUS
  <2>7. QED
    BY <2>3, <2>4, <2>5, <2>6 DEF AnswerInv
<1>2. ASSUME NEW t \in A2AIds, FinishTask(t) PROVE AnswerInv'
  <2>1. PICK status \in {"completed", "failed"} : store' = Finished(t, status)
    BY <1>2 DEF FinishTask
  <2>2. /\ DOMAIN store' = DOMAIN store
        /\ t \in DOMAIN store => store'[t] = [status |-> status, answers |-> store[t].answers + 1]
        /\ \A x \in DOMAIN store : x # t => store'[x] = store[x]
    BY <2>1 DEF Finished
  <2>3. request[t] = "turn" /\ request' = [request EXCEPT ![t] = "reply"]
    BY <1>2 DEF FinishTask
  <2>4. t \in DOMAIN store => store[t].answers + 1 = 1
    BY <2>3 DEF AnswerInv
  <2>5. t \in DOMAIN store => store'[t] \in [status : Ended \cup {"working"}, answers : 0 .. 1]
    BY <2>2, <2>4 DEF Ended
  <2>6. QED
    BY <2>2, <2>3, <2>5 DEF AnswerInv, A2AInv, A2ATypeInv
<1>3. ASSUME NEW t \in A2AIds, Reply(t) \/ HangUp(t) PROVE AnswerInv'
  BY <1>3 DEF Reply, HangUp, AnswerInv, A2AInv, A2ATypeInv
<1>4. ASSUME NEW t \in A2AIds, CancelTask(t) PROVE AnswerInv'
  <2>1. /\ t \in DOMAIN store /\ DOMAIN store' = DOMAIN store /\ request' = request
        /\ store'[t] = [store[t] EXCEPT !.status = "cancelled"]
        /\ \A x \in DOMAIN store : x # t => store'[x] = store[x]
    BY <1>4 DEF CancelTask
  <2>2. store'[t] \in [status : Ended \cup {"working"}, answers : 0 .. 1] /\ store'[t].answers = store[t].answers
    BY <2>1 DEF AnswerInv, Ended
  <2>3. QED
    BY <2>1, <2>2 DEF AnswerInv
<1>5. CASE A2ARestart
  <2>1. DOMAIN store' = {}
    BY <1>5 DEF A2ARestart
  <2>2. QED
    BY <2>1 DEF AnswerInv
<1>6. CASE UNCHANGED a2aState
  BY <1>6 DEF a2aState, AnswerInv
<1>7. QED
  BY <1>1, <1>2, <1>3, <1>4, <1>5, <1>6 DEF A2ANext

Open == [kind : {"link", "message"}, from : Ids, to : Ids, client : Client, server : Server, up : BOOLEAN]

\* A connection was opened between two nodes or was not opened at all, and who
\* lost a loop of a peer is a node, as the peer is.
OpenInv ==
    /\ \A c \in Conns : conn[c] = NoConn \/ conn[c] \in Open
    /\ orphaned \subseteq Ids \X Ids

\* Writing back what a slot without a conversation already holds leaves it free.
LEMMA SameConn ==
  ASSUME NEW x, x = NoConn
  PROVE [x EXCEPT !.client = x.client, !.server = x.server, !.up = x.up] = x
BY DEF NoConn

LEMMA OpenStep ==
    ASSUME PeerInv, OpenInv, PeerNext \/ (\E n \in Nodes : NodeRestart(n)) \/ UNCHANGED peerState
    PROVE  OpenInv'
<1>1. conn \in [Conns -> Place]
  BY DEF PeerInv, PeerTypeInv
<1>2. \A c \in Conns : conn[c].up \/ conn[c].client # "done" \/ conn[c].server # "done" => conn[c] \in Open
  BY DEF OpenInv, NoConn
<1>3. ASSUME NEW c \in Conns, ConnStep(c) PROVE OpenInv'
  <2>1. conn[c] \in Open
    BY <1>2, <1>3 DEF ConnStep, Handshake, ServerAdd, Acknowledged, Refused, AnswerMessage, Break,
                      ClientCloses, ServerCloses, ClientMarks, ServerMarks, ClientPanics, ServerPanics
  <2>2. PICK cl \in Client, se \in Server, u \in BOOLEAN :
           conn' = [conn EXCEPT ![c] = [conn[c] EXCEPT !.client = cl, !.server = se, !.up = u]]
    <3>1. conn[c].client \in Client /\ conn[c].server \in Server /\ conn[c].up \in BOOLEAN
      BY <2>1 DEF Open
    <3>2. ASSUME NEW x \in Client, Client_(c, x)
          PROVE  conn' = [conn EXCEPT ![c] = [conn[c] EXCEPT !.client = x, !.server = conn[c].server,
                                                             !.up = conn[c].up]]
      BY <1>1, <2>1, <3>2 DEF Client_, Open
    <3>3. ASSUME NEW x \in Server, Server_(c, x)
          PROVE  conn' = [conn EXCEPT ![c] = [conn[c] EXCEPT !.client = conn[c].client, !.server = x,
                                                             !.up = conn[c].up]]
      BY <1>1, <2>1, <3>3 DEF Server_, Open
    <3>4. CASE \E x \in Client : Client_(c, x)
      BY <3>1, <3>2, <3>4
    <3>5. CASE \E x \in Server : Server_(c, x)
      BY <3>1, <3>3, <3>5
    <3>6. CASE Refused(c)
      BY <1>1, <2>1, <3>6 DEF Refused, Open, Client, Server
    <3>7. CASE AnswerMessage(c)
      <4>1. conn' = [conn EXCEPT ![c] = [conn[c] EXCEPT !.client = "done", !.server = conn[c].server,
                                                        !.up = FALSE]]
        BY <1>1, <2>1, <3>7 DEF AnswerMessage, Open
      <4>2. "done" \in Client
        BY DEF Client
      <4>3. QED
        BY <3>1, <4>1, <4>2
    <3>8. CASE Break(c)
      BY <1>1, <2>1, <3>1, <3>8 DEF Break, Open
    <3>9. CASE ClientPanics(c) \/ ServerPanics(c)
      <4>1. "done" \in Client /\ "done" \in Server
        BY DEF Client, Server
      <4>2. CASE ClientPanics(c)
        <5>1. conn' = [conn EXCEPT ![c] = [conn[c] EXCEPT !.client = "done", !.server = conn[c].server,
                                                          !.up = FALSE]]
          BY <1>1, <2>1, <4>2 DEF ClientPanics, Open
        <5>2. QED
          BY <3>1, <4>1, <5>1
      <4>3. CASE ServerPanics(c)
        <5>1. conn' = [conn EXCEPT ![c] = [conn[c] EXCEPT !.client = conn[c].client, !.server = "done",
                                                          !.up = FALSE]]
          BY <1>1, <2>1, <4>3 DEF ServerPanics, Open
        <5>2. QED
          BY <3>1, <4>1, <5>1
      <4>4. QED
        BY <3>9, <4>2, <4>3
    <3>10. QED
      BY <1>3, <3>4, <3>5, <3>6, <3>7, <3>8, <3>9
      DEF ConnStep, Handshake, ServerAdd, Acknowledged, ClientCloses, ServerCloses, ClientMarks,
          ServerMarks, Client, Server
  <2>3. conn'[c] \in Open /\ \A d \in Conns : d # c => conn'[d] = conn[d]
    BY <1>1, <2>1, <2>2 DEF Open
  <2>4. orphaned' \subseteq orphaned \cup {<<conn[c].from, conn[c].to>>, <<conn[c].to, conn[c].from>>}
    BY <1>3 DEF ConnStep, Handshake, ServerAdd, Acknowledged, Refused, AnswerMessage, Break,
                ClientCloses, ServerCloses, ClientMarks, ServerMarks, ClientPanics, ServerPanics
  <2>5. orphaned' \subseteq Ids \X Ids
    BY <2>1, <2>4 DEF OpenInv, Open
  <2>6. QED
    BY <2>3, <2>5 DEF OpenInv
<1>4. ASSUME NEW c \in Conns, NEW n \in Nodes, NEW m \in Nodes, NEW kind \in {"link", "message"},
             Connect(c, n, m, kind)
      PROVE  OpenInv'
  <2>1. Id(n) \in Ids /\ Id(m) \in Ids
    BY DEF Id, Ids, PeerInv, PeerTypeInv
  <2>2. /\ conn'[c] = [kind |-> kind, from |-> Id(n), to |-> Id(m), client |-> "wait",
                       server |-> "accept", up |-> TRUE]
        /\ \A d \in Conns : d # c => conn'[d] = conn[d]
    BY <1>1, <1>4 DEF Connect
  <2>3. conn'[c] \in Open
    BY <2>1, <2>2 DEF Open, Client, Server
  <2>4. orphaned' = orphaned
    BY <1>4 DEF Connect
  <2>5. QED
    BY <2>2, <2>3, <2>4 DEF OpenInv
<1>5. ASSUME NEW n \in Nodes, NodeRestart(n) PROVE OpenInv'
  <2>1. ASSUME NEW c \in Conns PROVE conn'[c] = NoConn \/ conn'[c] \in Open
    <3>1. PICK cl, se, u : /\ conn'[c] = [conn[c] EXCEPT !.client = cl, !.server = se, !.up = u]
                           /\ cl \in {"done", conn[c].client} /\ se \in {"done", conn[c].server}
                           /\ u \in BOOLEAN /\ (u => conn[c].up)
      BY <1>5 DEF NodeRestart
    <3>2. CASE conn[c] = NoConn
      <4>1. cl = conn[c].client /\ se = conn[c].server /\ u = conn[c].up
        <5>1. conn[c].client = "done" /\ conn[c].server = "done" /\ conn[c].up = FALSE
          BY <3>2 DEF NoConn
        <5>2. cl = "done" /\ se = "done"
          BY <3>1, <5>1
        <5>3. u = FALSE
          BY <3>1, <5>1, Zenon
        <5>4. QED
          BY <5>1, <5>2, <5>3, Zenon
      <4>2. conn'[c] = [conn[c] EXCEPT !.client = conn[c].client, !.server = conn[c].server,
                                       !.up = conn[c].up]
        BY <3>1, <4>1
      <4>3. conn'[c] = conn[c]
        BY <3>2, <4>2, SameConn
      <4>4. QED
        BY <3>2, <4>3
    <3>3. CASE conn[c] \in Open
      BY <3>1, <3>3 DEF Open, Client, Server
    <3>4. QED
      BY <3>2, <3>3 DEF OpenInv
  <2>2. orphaned' \subseteq orphaned
    BY <1>5 DEF NodeRestart
  <2>3. QED
    BY <2>1, <2>2 DEF OpenInv
<1>6. CASE UNCHANGED peerState
  BY <1>6 DEF peerState, OpenInv
<1>7. QED
  BY <1>3, <1>4, <1>5, <1>6 DEF PeerNext

\* The state of the four parts has its type, over any number of tasks, hands,
\* connections and restarts: among the rest, a task of another system takes one
\* answer of its turn (a2a.rs:222) and a connection has two ends that are
\* identifiers of nodes.
THEOREM DelegationTypeCorrect == Spec => []TypeOK
<1> DEFINE Count == restarts \in 0 .. MaxRestarts
<1>1. Init => AnswerInv /\ OpenInv /\ Count
  <2>1. Init => AnswerInv
    BY DEF Init, A2AInit, AnswerInv
  <2>2. Init => OpenInv /\ Count
    BY DelegationAssumption DEF Init, PeerInit, OpenInv
  <2>3. QED
    BY <2>1, <2>2
<1>2. A2AInv /\ AnswerInv /\ [Next]_vars => AnswerInv'
  BY AnswerStep DEF Next, vars, Restart, OtherRestart, a2aState
<1>3. PeerInv /\ OpenInv /\ [Next]_vars => OpenInv'
  BY OpenStep, DelegationAssumption DEF Next, vars, Restart, OtherRestart, peerState
<1>4. Count /\ [Next]_vars => Count'
  BY DelegationAssumption DEF Next, vars, Restart, OtherRestart
<1>5. TaskInv /\ A2AInv /\ AnswerInv /\ HandInv /\ PeerInv /\ OpenInv /\ Count => TypeOK
  <2> SUFFICES ASSUME TaskInv, A2AInv, AnswerInv, HandInv, PeerInv, OpenInv, Count PROVE TypeOK
    OBVIOUS
  <2>1. A2ATypeOK
    BY DEF A2ATypeOK, A2AInv, A2ATypeInv, AnswerInv
  <2>2. PeerTypeOK
    BY DEF PeerTypeOK, PeerInv, PeerTypeInv, OpenInv, Open, Entry
  <2>3. QED
    BY <2>1, <2>2 DEF TypeOK, TaskInv, HandInv
<1>6. QED
  BY <1>1, <1>2, <1>3, <1>4, <1>5, TaskInvariant, A2AInvariant, HandInvariant, PeerInvariant, PTL DEF Spec
=============================================================================
