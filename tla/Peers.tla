-------------------------------- MODULE Peers --------------------------------
(***************************************************************************)
(* The wire protocol between daemons: connect_to_peer, send_to_peer,        *)
(* handle_inbound and connection_loop of clawreform-wire/src/peer.rs, and   *)
(* the PeerRegistry of registry.rs that each node keeps.                    *)
(*                                                                          *)
(* A node takes a new identifier each time it starts (kernel.rs:4090).      *)
(* Nothing waits with a timeout, and nothing connects again.  A connection  *)
(* that breaks is seen by each end when it next reads.                      *)
(***************************************************************************)
EXTENDS Integers, FiniteSetsExt

CONSTANTS
    Nodes,
    SecretOf,       \* shared_secret of each node
    Conns           \* identifiers of connections

VARIABLES
    epoch,      \* how often each node was started: a node_id is a node and its epoch
    conn,       \* the connections, with where each end is
    peers,      \* the registry of each node
    orphaned    \* history: peers of nodes whose loop panicked, unmarked since

peerVars == <<epoch, conn, peers, orphaned>>

Ids == Nodes \X Nat
Id(n) == <<n, epoch[n]>>
NoConn == [kind |-> "none", from |-> <<>>, to |-> <<>>, client |-> "done", server |-> "done", up |-> FALSE]
Client == {"wait", "asked", "loop", "ending", "done"}
Server == {"accept", "ack", "refused", "loop", "ending", "done"}

PeerTypeOK ==
    /\ epoch \in [Nodes -> Nat]
    /\ \A c \in Conns :
          conn[c] = NoConn \/ conn[c] \in [kind : {"link", "message"}, from : Ids, to : Ids,
                                           client : Client, server : Server, up : BOOLEAN]
    /\ \A n \in Nodes : \A id \in DOMAIN peers[n] :
          id \in Ids /\ peers[n][id] \in [connected : BOOLEAN, listens : BOOLEAN]
    /\ orphaned \subseteq Ids \X Ids

PeerInit ==
    /\ epoch = [n \in Nodes |-> 0] /\ conn = [c \in Conns |-> NoConn]
    /\ peers = [n \in Nodes |-> [id \in {} |-> 0]] /\ orphaned = {}

\* add_peer.  The address is one the peer listens on, or the source of its
\* connection, where it does not.
Added(n, id, listens) ==
    [peers EXCEPT ![n] = [x \in DOMAIN @ \cup {id} |->
        IF x = id THEN [connected |-> TRUE, listens |-> listens] ELSE @[x]]]
\* mark_disconnected, if the peer is known.
Marked(n, id) ==
    [peers EXCEPT ![n] = [x \in DOMAIN @ |-> IF x = id THEN [@[x] EXCEPT !.connected = FALSE] ELSE @[x]]]

Client_(c, pc) == conn' = [conn EXCEPT ![c].client = pc]
Server_(c, pc) == conn' = [conn EXCEPT ![c].server = pc]

\* connect_to_peer, for a bootstrap peer; send_to_peer, for a peer that is
\* known, connected or not.  Both send a handshake.
Connect(c, n, m, kind) ==
    /\ conn[c] = NoConn /\ n # m
    /\ kind = "message" => \E id \in DOMAIN peers[n] : id[1] = m /\ peers[n][id].listens
    /\ conn' = [conn EXCEPT ![c] = [kind |-> kind, from |-> Id(n), to |-> Id(m),
                                    client |-> "wait", server |-> "accept", up |-> TRUE]]
    /\ UNCHANGED <<epoch, peers, orphaned>>

\* Variant for mutation: the keyed hash of the handshake is not verified.
HandshakeUnverified(c) ==
    /\ conn[c].server = "accept" /\ conn[c].up
    /\ Server_(c, "ack")
    /\ UNCHANGED <<epoch, peers, orphaned>>

\* handle_inbound verifies the handshake and answers it, ...
Handshake(c) ==
    /\ conn[c].server = "accept" /\ conn[c].up
    /\ Server_(c, IF SecretOf[conn[c].from[1]] = SecretOf[conn[c].to[1]] THEN "ack" ELSE "refused")
    /\ UNCHANGED <<epoch, peers, orphaned>>

\* Variant for mutation: only a peer that stays connected is registered.
ServerAddLinks(c) ==
    /\ conn[c].server = "ack" /\ Server_(c, "loop")
    /\ peers' = IF conn[c].up THEN Added(conn[c].to[1], conn[c].from, FALSE) ELSE peers
    /\ UNCHANGED <<epoch, orphaned>>

\* ... and registers the peer, whatever it wants.
ServerAdd(c) ==
    /\ conn[c].server = "ack" /\ Server_(c, "loop")
    /\ peers' = Added(conn[c].to[1], conn[c].from, FALSE)
    /\ UNCHANGED <<epoch, orphaned>>

\* The other end reads the answer: it registers the peer, or sends its message.
Acknowledged(c) ==
    /\ conn[c].client = "wait" /\ conn[c].server \in {"ack", "loop", "ending"}
    /\ \/ /\ conn[c].kind = "link" /\ Client_(c, "loop")
          /\ peers' = Added(conn[c].from[1], conn[c].to, TRUE)
       \/ /\ conn[c].kind = "message" /\ Client_(c, "asked")
          /\ UNCHANGED peers
    /\ UNCHANGED <<epoch, orphaned>>

Refused(c) ==
    /\ conn[c].client = "wait" /\ conn[c].server = "refused"
    /\ conn' = [conn EXCEPT ![c].client = "done", ![c].server = "done", ![c].up = FALSE]
    /\ UNCHANGED <<epoch, peers, orphaned>>

\* connection_loop handles the message, and send_to_peer returns with the
\* answer and drops the connection.
AnswerMessage(c) ==
    /\ conn[c].client = "asked" /\ conn[c].server = "loop" /\ conn[c].up
    /\ conn' = [conn EXCEPT ![c].client = "done", ![c].up = FALSE]
    /\ UNCHANGED <<epoch, peers, orphaned>>

Break(c) ==
    /\ conn[c].up /\ conn' = [conn EXCEPT ![c].up = FALSE]
    /\ UNCHANGED <<epoch, peers, orphaned>>

\* An end finds the connection closed: a loop ends, any other wait is an error,
\* and so is an answer to the handshake that cannot be written.
ClientCloses(c) ==
    /\ ~ conn[c].up /\ conn[c].client \in {"wait", "asked", "loop"}
    /\ Client_(c, IF conn[c].client = "loop" THEN "ending" ELSE "done")
    /\ UNCHANGED <<epoch, peers, orphaned>>

ServerCloses(c) ==
    /\ ~ conn[c].up
    /\ \/ conn[c].server \in {"accept", "refused", "loop"}
       \/ conn[c].server = "ack" /\ conn[c].client \in {"wait", "done"}
    /\ Server_(c, IF conn[c].server = "loop" THEN "ending" ELSE "done")
    /\ UNCHANGED <<epoch, peers, orphaned>>

\* A loop that has ended marks the peer, whatever other connections there are.
ClientMarks(c) ==
    /\ conn[c].client = "ending" /\ Client_(c, "done")
    /\ peers' = Marked(conn[c].from[1], conn[c].to)
    /\ orphaned' = orphaned \ {<<conn[c].from, conn[c].to>>}
    /\ UNCHANGED epoch

\* Variant for mutation: the accepting end does not mark the peer.
ServerMarksNothing(c) ==
    /\ conn[c].server = "ending" /\ Server_(c, "done")
    /\ UNCHANGED <<epoch, peers, orphaned>>

ServerMarks(c) ==
    /\ conn[c].server = "ending" /\ Server_(c, "done")
    /\ peers' = Marked(conn[c].to[1], conn[c].from)
    /\ orphaned' = orphaned \ {<<conn[c].to, conn[c].from>>}
    /\ UNCHANGED epoch

\* A loop answers a request in its own task, whoever sent it: the turn of a
\* message may panic, and the loop is gone with no mark.
ClientPanics(c) ==
    /\ conn[c].client = "loop"
    /\ conn' = [conn EXCEPT ![c].client = "done", ![c].up = FALSE]
    /\ orphaned' = orphaned \cup {<<conn[c].from, conn[c].to>>}
    /\ UNCHANGED <<epoch, peers>>

ServerPanics(c) ==
    /\ conn[c].server = "loop"
    /\ conn' = [conn EXCEPT ![c].server = "done", ![c].up = FALSE]
    /\ orphaned' = orphaned \cup {<<conn[c].to, conn[c].from>>}
    /\ UNCHANGED <<epoch, peers>>

\* A node stops and starts again: it knows nobody.
NodeRestart(n) ==
    /\ epoch' = [epoch EXCEPT ![n] = @ + 1]
    /\ peers' = [peers EXCEPT ![n] = [id \in {} |-> 0]]
    /\ orphaned' = {o \in orphaned : o[1] # Id(n)}
    /\ conn' = [c \in Conns |->
                  [conn[c] EXCEPT !.client = IF conn[c].from = Id(n) THEN "done" ELSE @,
                                  !.server = IF conn[c].to = Id(n) THEN "done" ELSE @,
                                  !.up = @ /\ Id(n) \notin {conn[c].from, conn[c].to}]]

ConnStep(c) ==
    \/ Handshake(c) \/ ServerAdd(c) \/ Acknowledged(c) \/ Refused(c) \/ AnswerMessage(c)
    \/ Break(c) \/ ClientCloses(c) \/ ServerCloses(c) \/ ClientMarks(c) \/ ServerMarks(c)
    \/ ClientPanics(c) \/ ServerPanics(c)

PeerNext ==
    \E c \in Conns :
        ConnStep(c) \/ \E n, m \in Nodes, kind \in {"link", "message"} : Connect(c, n, m, kind)
-----------------------------------------------------------------------------
(* Properties *)

\* A peer that is listed as connected has a connection whose loop this node
\* still runs and will mark, or a loop of it panicked in a turn and no other has
\* marked it since (peer.rs:534): no order of handshakes, breaks and restarts
\* leaves a connected peer behind (peer.rs:537).
ConnectedHasLoop ==
    \A n \in Nodes : \A id \in DOMAIN peers[n] :
        peers[n][id].connected =>
            \/ <<Id(n), id>> \in orphaned
            \/ \E c \in Conns :
                  \/ conn[c].from = Id(n) /\ conn[c].to = id /\ conn[c].client \in {"loop", "ending"}
                  \/ conn[c].to = Id(n) /\ conn[c].from = id /\ conn[c].server \in {"loop", "ending"}

\* Who has a peer is known to it, or will be, unless it was restarted: a link is
\* never one-sided (peer.rs:488).
MutuallyKnown ==
    \A c \in Conns : conn[c].client = "loop" /\ Id(conn[c].to[1]) = conn[c].to =>
        conn[c].server = "ack" \/ conn[c].from \in DOMAIN peers[conn[c].to[1]]

\* Only nodes with the same secret get into each other's registry (peer.rs:449).
PeersShareSecret ==
    \A n \in Nodes : \A id \in DOMAIN peers[n] : SecretOf[id[1]] = SecretOf[n]

\* A link is known at both ends, which hold the same secret.
LinksAreMutual == MutuallyKnown /\ PeersShareSecret
=============================================================================
