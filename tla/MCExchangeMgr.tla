--------------------------- MODULE MCExchangeMgr ---------------------------
(***************************************************************************)
(* ExchangeMgr on instances small enough for TLC.                          *)
(***************************************************************************)
EXTENDS ExchangeMgr, TLC

\* A packet that does not decrypt, or that is not the initiator's, is dropped
\* before anything else of it is looked at: one of each is enough.  A standalone
\* ack is never reliable.
Telling(m) ==
  /\ (~ m.genuine \/ ~ m.initiator) => ~ m.reliable /\ ~ m.ack /\ m.kind = "Ack"
  /\ ~ m.genuine => m.initiator
  /\ (m.genuine /\ m.initiator /\ m.kind = "Ack") => ~ m.reliable /\ m.ack

\* Interaction model traffic, with every use of the reliability flags.
RequestPackets ==
  {m \in Packet : Telling(m) /\ m.node = NoNode /\ m.kind \in {"Ack", "Request"}}

\* CASE, with the source node of the packets left out.  Only the answers to
\* reliable packets matter here, so every handshake packet is reliable.
SigmaPackets ==
  {m \in Packet : /\ Telling(m) /\ m.node = NoNode /\ m.kind \in {"Ack", "Sigma1", "Sigma3"}
                  /\ m.kind # "Ack" => m.reliable}

\* PASE: complete handshakes, broken ones and those of two peers at once.
PasePackets ==
  {m \in Packet : /\ Telling(m) /\ m.node = NoNode
                  /\ m.kind \in {"Ack", "Pbkdf", "Pake1", "Pake3"}
                  /\ m.kind # "Ack" => m.reliable /\ m.id = 0}

\* Both kinds of handshake, of one peer, on plain packets.
HandshakePackets ==
  {m \in Packet : /\ m.node = NoNode /\ m.id = 0 /\ m.genuine /\ m.initiator
                  /\ m.kind \in {"Ack", "Sigma1", "Sigma3", "Pbkdf", "Pake1", "Pake3"}
                  /\ m.reliable = (m.kind # "Ack") /\ m.ack = (m.kind = "Ack")}

\* CASE of several peers, on plain and encrypted packets with and without a source
\* node.  None is reliable: acknowledgements are the matter of the other runs.
PeerPackets ==
  {m \in Packet : Telling(m) /\ ~ m.reliable /\ m.kind \in {"Ack", "Sigma1", "Sigma3"}}

Symmetry == Permutations(Addrs) \cup Permutations(ExchIds)
=============================================================================
