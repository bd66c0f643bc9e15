----------------------------- MODULE ExchangeMgr -----------------------------
(***************************************************************************)
(* The transport of the device: the main loop of transport/mgr.rs, the     *)
(* exchange table of transport/exchange.rs, the session table of           *)
(* transport/session.rs, the reliability state of transport/mrp.rs and the *)
(* work queue of transport/queue.rs.                                       *)
(*                                                                         *)
(* One thread runs the loop; pc says where it is.  Each action is what the *)
(* thread does between two points at which something it does not control   *)
(* (the next datagram, the outcome of a handler, the clock, the network)   *)
(* decides how it goes on.  Interaction model handlers are seen by what    *)
(* they do to the transport; the CASE and PASE handlers of secure_channel/ *)
(* also by the state they keep between messages.                           *)
(***************************************************************************)
EXTENDS SessionTable, Sequences

CONSTANTS
  ExchIds,          (* exchange ids, chosen by the peers                   *)
  MAX_EXCHANGES,    (* exchange.rs: 8                                      *)
  MAX_MRP_ENTRIES,  (* exchange.rs: 4                                      *)
  MAX_WORKQ,        (* queue.rs: 3                                         *)
  Packets,          (* the packets the network may deliver                 *)
  NoExch,           (* no exchange under this id                           *)
  NoRx,             (* no packet is being processed                        *)
  OpenCommWindow,   (* core.rs: no fabric was known when the device booted *)
  NoWindow,         (* SecureChannel.pake is None                          *)
  IdlePake,         (* SecureChannel.pake is PakeState::Idle               *)
  NodeZero          (* node id 0, the peer of a PASE session               *)

ASSUME ExchangeMgrAssumption ==
  /\ IsFiniteSet(ExchIds)
  /\ MAX_EXCHANGES \in Nat \ {0}
  /\ MAX_MRP_ENTRIES \in Nat \ {0}
  /\ MAX_WORKQ \in Nat \ {0}
  /\ OpenCommWindow \in BOOLEAN
  /\ NodeZero \in Nodes

VARIABLES
  sessions,      (* SessionMgr.sessions                                    *)
  last_use,      (* Session.last_use of each slot, as a rank               *)
  next_sess_id,  (* SessionMgr.next_sess_id                                *)
  exchanges,     (* ExchangeMgr.exchanges, keyed by exchange id alone      *)
  workq,         (* the NewSession messages in the WorkQ                   *)
  pake,          (* SecureChannel.pake                                     *)
  pc,            (* where the main loop is                                 *)
  rx,            (* the packet being processed and its session slot        *)
  acks_to_send,  (* exchanges the loop still has to send an ack on         *)
  \* History variables, read by the properties only:
  openedBy,      (* the session each exchange was opened on                *)
  owed,          (* exchanges whose peer waits for an acknowledgement that *)
                 (* no packet has carried yet                              *)
  mru,           (* the slots last used, the latest one: {} or {slot}      *)
  wrapped        (* whether next_sess_id has started over                  *)

vars == <<sessions, last_use, next_sess_id, exchanges, workq, pake, pc, rx,
          acks_to_send, openedBy, owed, mru, wrapped>>

sessVars == <<sessions, last_use, mru>>
idVars   == <<next_sess_id, wrapped>>
exchVars == <<exchanges, openedBy, owed>>

(***************************************************************************)
(* Packets and table entries.                                              *)
(***************************************************************************)
Kinds == {"Ack", "Request", "Sigma1", "Sigma3", "Pbkdf", "Pake1", "Pake3"}

Packet == [addr : Addrs, node : Nodes \cup {NoNode}, id : 0 .. MaxSessId,
           genuine   : BOOLEAN,  \* decrypts and decodes on its session
           exch      : ExchIds,
           initiator : BOOLEAN,  \* the I flag of the protocol header
           reliable  : BOOLEAN,  \* the R flag
           ack       : BOOLEAN,  \* the A flag
           kind      : Kinds]

\* data is the session id a CaseSession has reserved, 0 for no exchange data.
\* ack is the AckEntry: "fresh" before its ack_timeout, "late" after it.
\* Role is left out: the device opens no exchange, so it is Responder in all.
Exchange == [slot : Slots, state : {"Open", "Close"}, data : 0 .. MaxSessId,
             retrans : BOOLEAN, ack : {"None", "fresh", "late"}]

\* A packet whose session is found, then the ExchangeCtx its handler is given.
Received == [slot : Slots, addr : Addrs, id : 0 .. MaxSessId, exch : ExchIds, kind : Kinds,
             initiator : BOOLEAN, reliable : BOOLEAN, ack : BOOLEAN]
Context  == [slot : Slots, addr : Addrs, id : 0 .. MaxSessId, exch : ExchIds, kind : Kinds]

\* The SessionData of a PASE handshake: the exchange and the peer it is bound to,
\* the id reserved for its session, and whether the verifier waits for cA.
InProgress == [exch : ExchIds, addr : Addrs, id : SessIds, confirming : BOOLEAN]

ASSUME NoneAssumption ==
  /\ NoExch \notin Exchange
  /\ {NoWindow, IdlePake} \cap InProgress = {} /\ NoWindow # IdlePake
  /\ NoRx \notin Received \cup Context

ASSUME PacketsAssumption == Packets \subseteq Packet

OnSlot(m, i) ==
  [slot |-> i, addr |-> m.addr, id |-> m.id, exch |-> m.exch, kind |-> m.kind,
   initiator |-> m.initiator, reliable |-> m.reliable, ack |-> m.ack]

ForHandler(r) ==
  [slot |-> r.slot, addr |-> r.addr, id |-> r.id, exch |-> r.exch, kind |-> r.kind]

CloneData == [addr : Addrs, node : Nodes, id : SessIds, mode : {"Case", "Pase"}]

Live == {e \in ExchIds : exchanges[e] # NoExch}
On(i) == {e \in Live : exchanges[e].slot = i}

NewExchange(i) ==
  [slot |-> i, state |-> "Open", data |-> 0, retrans |-> FALSE, ack |-> "None"]

Closed(x) == [x EXCEPT !.state = "Close", !.data = 0]

\* (Variants named ...Bug are plausible errors, used to see that properties notice.)
IsPurgeableBug(x) == x.state = "Close"

IsPurgeable(x) == x.state = "Close" /\ ~ x.retrans /\ x.ack = "None"

\* has_timed_out is `ack_timeout > now`: true until the timeout is reached.
IsAckReady(x) == x.ack = "fresh"

Init ==
  /\ sessions = [i \in Slots |-> NoSession]
  /\ last_use = [i \in Slots |-> i + 1]
  /\ next_sess_id = 1
  /\ exchanges = [e \in ExchIds |-> NoExch]
  /\ workq = <<>>
  /\ pake = IF OpenCommWindow THEN IdlePake ELSE NoWindow
  /\ pc = "recv"
  /\ rx = NoRx
  /\ acks_to_send = {}
  /\ openedBy = [e \in ExchIds |-> NoSession]
  /\ owed = {}
  /\ mru = {}
  /\ wrapped = FALSE

(***************************************************************************)
(* handle_rxtx, until the session of the packet is known.                  *)
(***************************************************************************)
\* `continue` after an error: the queue, the acks and the purge are skipped.
NextTurn == pc' = "recv" /\ rx' = NoRx

UseBug(i) == UNCHANGED last_use /\ mru' = {i}    \* the time is not noted

Use(i) == last_use' = Touch(last_use, i) /\ mru' = {i}

\* Session::recv on slot i: the use is noted, then the packet is decrypted.
Accept(m, i) ==
  /\ Use(i)
  /\ IF m.genuine THEN pc' = "exch" /\ rx' = OnSlot(m, i) ELSE NextTurn

RecvOnSession(m) ==
  /\ pc = "recv"
  /\ \E i \in Slots : IsFirst(i, Lookup(sessions, m)) /\ Accept(m, i)
  /\ UNCHANGED <<sessions, idVars, exchVars, workq, pake, acks_to_send>>

\* A plain packet of an unknown peer opens an unsecured session.  An encrypted
\* one that matches no session is an error that changes nothing.
RecvNewPeer(m) ==
  /\ pc = "recv"
  /\ m.id = 0 /\ Lookup(sessions, m) = {}
  /\ \E i \in Slots :
       /\ IsFirst(i, Empty(sessions))
       /\ sessions' = [sessions EXCEPT ![i] = PlainSession(m)]
       /\ Accept(m, i)
  /\ UNCHANGED <<idVars, exchVars, workq, pake, acks_to_send>>

(***************************************************************************)
(* evict_session(i) when all goes well: CloseSession is sent on the first  *)
(* of its exchanges, then its exchanges and the session itself go.         *)
(***************************************************************************)
RemoveExchangesOnBug(i) ==     \* only the exchange CloseSession was sent on goes
  \/ On(i) = {} /\ UNCHANGED exchVars
  \/ \E e \in On(i) : /\ exchanges' = [exchanges EXCEPT ![e] = NoExch]
                      /\ openedBy'  = [openedBy EXCEPT ![e] = NoSession]
                      /\ owed' = owed \ {e}

RemoveExchangesOn(i) ==
  /\ exchanges' = [e \in ExchIds |-> IF e \in On(i) THEN NoExch ELSE exchanges[e]]
  /\ openedBy'  = [e \in ExchIds |-> IF e \in On(i) THEN NoSession ELSE openedBy[e]]
  /\ owed' = owed \ On(i)

\* evict_session(i) when sending CloseSession on exchange e fails: the session
\* stays, its use is noted, and an ack of e went with the packet that was lost.
EvictFails(i) ==
  \E e \in On(i) :
    /\ exchanges' = [exchanges EXCEPT ![e].ack = "None"]
    /\ owed' = owed \ {e}
    /\ Use(i)
    /\ UNCHANGED <<sessions, openedBy>>

\* The table is full: the least recently used session makes room.
RecvWhenFull(m) ==
  /\ pc = "recv"
  /\ m.id = 0 /\ Lookup(sessions, m) = {} /\ Empty(sessions) = {}
  /\ \E i \in Slots :
       /\ IsLru(sessions, last_use, i)
       /\ \/ EvictFails(i) /\ NextTurn
          \/ /\ RemoveExchangesOn(i)
             /\ sessions' = [sessions EXCEPT ![i] = PlainSession(m)]
             /\ Accept(m, i)
  /\ UNCHANGED <<idVars, workq, pake, acks_to_send>>

(***************************************************************************)
(* ExchangeMgr::recv, from the exchange on.                                *)
(***************************************************************************)
AdmissibleFullBug(e, i) == e \in Live => exchanges[e].slot = i

\* The exchange of the packet is found on its session, or can be created.
Admissible(e, i) ==
  IF e \in Live THEN exchanges[e].slot = i ELSE Cardinality(Live) < MAX_EXCHANGES

NoExchange ==
  /\ pc = "exch"
  /\ ~ rx.initiator \/ ~ Admissible(rx.exch, rx.slot)
  /\ NextTurn
  /\ UNCHANGED <<sessVars, idVars, exchVars, workq, pake, acks_to_send>>

\* ReliableMessage::recv: an ack settles whatever was sent last, its counter is
\* not compared; a reliable packet is refused while the last one is not acked.
MrpRecvBug(x, m) ==     \* every packet is to be acknowledged
  [x EXCEPT !.retrans = @ /\ ~ m.ack, !.ack = IF @ = "None" THEN "fresh" ELSE @]

MrpRecv(x, m) ==
  LET acked == [x EXCEPT !.retrans = @ /\ ~ m.ack]
  IN IF m.reliable /\ x.ack = "None" THEN [acked EXCEPT !.ack = "fresh"] ELSE acked

MrpRefuses(x, m) == m.reliable /\ x.ack # "None"

GetExchange ==
  /\ pc = "exch"
  /\ rx.initiator /\ Admissible(rx.exch, rx.slot)
  /\ LET e == rx.exch
         x == IF e \in Live THEN exchanges[e] ELSE NewExchange(rx.slot)
     IN /\ exchanges' = [exchanges EXCEPT ![e] = MrpRecv(x, rx)]
        /\ openedBy' = IF e \in Live THEN openedBy
                       ELSE [openedBy EXCEPT ![e] = sessions[rx.slot]]
        /\ IF MrpRefuses(x, rx)
           THEN NextTurn /\ UNCHANGED owed
           ELSE /\ owed' = IF rx.reliable THEN owed \cup {e} ELSE owed
                /\ IF x.state = "Open" THEN pc' = "handle" /\ rx' = ForHandler(rx)
                                       ELSE pc' = "queue" /\ rx' = NoRx
  /\ UNCHANGED <<sessVars, idVars, workq, pake, acks_to_send>>

(***************************************************************************)
(* The handlers, called on the open exchange rx.exch.                      *)
(***************************************************************************)
This == rx.exch

Handling(k) == pc = "handle" /\ rx.kind = k

Respond   == pc' = "send" /\ UNCHANGED rx     \* ResponseRequired::Yes
NoRespond == pc' = "queue" /\ rx' = NoRx      \* ResponseRequired::No

HandleAck ==
  /\ Handling("Ack")
  /\ NoRespond
  /\ UNCHANGED <<sessVars, idVars, exchVars, workq, pake, acks_to_send>>

\* Interaction model requests.
HandleRequest ==
  /\ Handling("Request")
  /\ \/ /\ exchanges' = [exchanges EXCEPT ![This] = Closed(@)]
        /\ Respond \/ NoRespond
     \/ UNCHANGED exchanges /\ (Respond \/ NextTurn)
  /\ UNCHANGED <<sessVars, idVars, openedBy, owed, workq, pake, acks_to_send>>

\* reserve_new_sess_id.  The id is recorded nowhere but in the CaseSession.
ReserveBug(k) ==     \* next_sess_id is the id tried first, it does not move on
  /\ IsNextId(sessions, next_sess_id, k)
  /\ UNCHANGED idVars

Reserve(k) ==
  /\ IsNextId(sessions, next_sess_id, k)
  /\ next_sess_id' = SuccId(k)
  /\ wrapped' = (wrapped \/ k < next_sess_id \/ k = MaxSessId)

\* No fabric matches: status and close.  Otherwise an id is reserved, and the
\* handler answers Sigma2, or closes, or fails and leaves the exchange open.
HandleSigma1 ==
  /\ Handling("Sigma1")
  /\ \/ UNCHANGED <<exchanges, idVars>> /\ NextTurn
     \/ /\ exchanges' = [exchanges EXCEPT ![This] = Closed(@)]
        /\ UNCHANGED idVars /\ Respond
     \/ \E k \in SessIds :
          /\ Reserve(k)
          /\ \/ exchanges' = [exchanges EXCEPT ![This].data = k] /\ Respond
             \/ UNCHANGED exchanges /\ NextTurn
  /\ UNCHANGED <<sessVars, openedBy, owed, workq, pake, acks_to_send>>

\* Without a CaseSession, or when the packet is malformed: an error.
Sigma3Error ==
  /\ Handling("Sigma3")
  /\ exchanges' = [exchanges EXCEPT ![This].data = 0]
  /\ NextTurn
  /\ UNCHANGED <<sessVars, idVars, openedBy, owed, workq, pake, acks_to_send>>

\* Certificates or signature do not hold: a failure status, and close.
Sigma3Denied ==
  /\ Handling("Sigma3") /\ exchanges[This].data # 0
  /\ exchanges' = [exchanges EXCEPT ![This] = Closed(@)]
  /\ Respond
  /\ UNCHANGED <<sessVars, idVars, openedBy, owed, workq, pake, acks_to_send>>

\* The new session is put into the queue the main loop itself has to empty.
\* When the queue is full, sync_send waits for ever.
Queued(c)     == Len(workq) < MAX_WORKQ /\ workq' = Append(workq, c) /\ Respond
QueueBlocks   == Len(workq) = MAX_WORKQ /\ pc' = "blocked" /\ UNCHANGED <<workq, rx>>

PeerAddr == sessions[rx.slot].addr

Sigma3Success ==
  /\ Handling("Sigma3") /\ exchanges[This].data # 0
  /\ \/ /\ \E n \in Nodes : Queued([addr |-> PeerAddr, node |-> n,
                                    id |-> exchanges[This].data, mode |-> "Case"])
        /\ exchanges' = [exchanges EXCEPT ![This] = Closed(@)]
     \/ /\ QueueBlocks
        /\ exchanges' = [exchanges EXCEPT ![This].data = 0]
  /\ UNCHANGED <<sessVars, idVars, openedBy, owed, pake, acks_to_send>>

(***************************************************************************)
(* PASE.  The state of the handshake is taken out of `pake` by every       *)
(* message and put back only when the handshake goes on: an error leaves   *)
(* it idle.  Without a commissioning window the answer is a status, and    *)
(* the exchange stays open.                                                *)
(***************************************************************************)
PaseDisabled ==
  /\ pc = "handle" /\ rx.kind \in {"Pbkdf", "Pake1", "Pake3"} /\ pake = NoWindow
  /\ Respond
  /\ UNCHANGED <<sessVars, idVars, exchVars, workq, pake, acks_to_send>>

\* A malformed message, or an unexpected one.  A request may also fail after its
\* id is reserved, when its answer does not fit a packet.
PaseError ==
  /\ pc = "handle" /\ rx.kind \in {"Pbkdf", "Pake1", "Pake3"} /\ pake # NoWindow
  /\ pake' = IdlePake
  /\ UNCHANGED idVars \/ (rx.kind = "Pbkdf" /\ \E k \in SessIds : Reserve(k))
  /\ NextTurn
  /\ UNCHANGED <<sessVars, exchVars, workq, acks_to_send>>

\* PBKDFParamRequest while a handshake is under way that has not expired.
PbkdfBusy ==
  /\ Handling("Pbkdf") /\ pake \in InProgress
  /\ pake' = IdlePake
  /\ Respond
  /\ UNCHANGED <<sessVars, idVars, exchVars, workq, acks_to_send>>

\* PBKDFParamRequest when there is none, or one older than a minute.
PbkdfAccept ==
  /\ Handling("Pbkdf") /\ pake # NoWindow
  /\ \E k \in SessIds :
       /\ Reserve(k)
       /\ pake' = [exch |-> This, addr |-> PeerAddr, id |-> k, confirming |-> FALSE]
  /\ Respond
  /\ UNCHANGED <<sessVars, exchVars, workq, acks_to_send>>

\* take_sess_data: the message is on the exchange, and of the peer, of the request.
OfHandshake == pake \in InProgress /\ pake.exch = This /\ pake.addr = PeerAddr

Pake1 ==
  /\ Handling("Pake1") /\ OfHandshake
  /\ pake' = [pake EXCEPT !.confirming = TRUE]
  /\ Respond
  /\ UNCHANGED <<sessVars, idVars, exchVars, workq, acks_to_send>>

\* Pake3 with the wrong cA or before Pake1: a status, and the window closes too.
Pake3Denied ==
  /\ Handling("Pake3") /\ OfHandshake
  /\ pake' = NoWindow
  /\ exchanges' = [exchanges EXCEPT ![This] = Closed(@)]
  /\ Respond
  /\ UNCHANGED <<sessVars, idVars, openedBy, owed, workq, acks_to_send>>

Pake3SuccessBug ==     \* the window stays open for another commissioner
  /\ Handling("Pake3") /\ OfHandshake /\ pake.confirming
  /\ \/ /\ Queued([addr |-> PeerAddr, node |-> NodeZero, id |-> pake.id, mode |-> "Pase"])
        /\ exchanges' = [exchanges EXCEPT ![This] = Closed(@)]
     \/ QueueBlocks /\ UNCHANGED exchanges
  /\ pake' = IdlePake
  /\ UNCHANGED <<sessVars, idVars, openedBy, owed, acks_to_send>>

Pake3Success ==
  /\ Handling("Pake3") /\ OfHandshake /\ pake.confirming
  /\ \/ /\ Queued([addr |-> PeerAddr, node |-> NodeZero, id |-> pake.id, mode |-> "Pase"])
        /\ pake' = NoWindow
        /\ exchanges' = [exchanges EXCEPT ![This] = Closed(@)]
     \/ QueueBlocks /\ pake' = IdlePake /\ UNCHANGED exchanges
  /\ UNCHANGED <<sessVars, idVars, openedBy, owed, acks_to_send>>

\* Exchange::send of the (reliable) answer.  pre_send takes the pending ack
\* into the header before it refuses to have two packets outstanding.
SendResponse ==
  /\ pc = "send"
  /\ exchanges' = [exchanges EXCEPT ![This].ack = "None", ![This].retrans = TRUE]
  /\ rx' = NoRx
  /\ IF exchanges[This].retrans
     THEN pc' = "recv" /\ UNCHANGED <<last_use, mru, owed>>
     ELSE /\ Use(rx.slot)
          /\ owed' = owed \ {This}
          /\ pc' \in {"queue", "recv"}    \* the network takes it, or errs
  /\ UNCHANGED <<sessions, idVars, openedBy, workq, pake, acks_to_send>>

(***************************************************************************)
(* The rest of a turn: at most one queued message, the acks, the purge.    *)
(***************************************************************************)
InstallAt(i) ==
  /\ sessions' = [sessions EXCEPT ![i] = Head(workq)]
  /\ Use(i)

\* add_session.  If the eviction fails the message is spent all the same.
HandleQueueMsg ==
  /\ pc = "queue" /\ workq # <<>>
  /\ workq' = Tail(workq)
  /\ \E i \in Slots :
       \/ IsFirst(i, Empty(sessions)) /\ InstallAt(i) /\ UNCHANGED exchVars
       \/ /\ Empty(sessions) = {} /\ IsLru(sessions, last_use, i)
          /\ EvictFails(i) \/ (RemoveExchangesOn(i) /\ InstallAt(i))
  /\ pc' = "pending"
  /\ UNCHANGED <<idVars, pake, rx, acks_to_send>>

QueueEmpty ==
  /\ pc = "queue" /\ workq = <<>>
  /\ pc' = "pending"
  /\ UNCHANGED <<sessVars, idVars, exchVars, workq, pake, rx, acks_to_send>>

\* The exchanges with a ready ack are copied to a map of MAX_MRP_ENTRIES;
\* unwrap panics when it overflows.
PendingAcks ==
  /\ pc = "pending"
  /\ LET ready == {e \in Live : IsAckReady(exchanges[e])}
     IN IF Cardinality(ready) <= MAX_MRP_ENTRIES
        THEN acks_to_send' = ready /\ pc' = "acks"
        ELSE pc' = "panic" /\ UNCHANGED acks_to_send
  /\ UNCHANGED <<sessVars, idVars, exchVars, workq, pake, rx>>

\* A standalone ack; an error of the network is only logged.
SendAckBug(e) ==     \* tried again until the network takes it
  /\ pc = "acks" /\ e \in acks_to_send
  /\ exchanges' = [exchanges EXCEPT ![e].ack = "None"]
  /\ owed' = owed \ {e}
  /\ Use(exchanges[e].slot)
  /\ UNCHANGED <<sessions, idVars, openedBy, workq, pake, pc, rx, acks_to_send>>

SendAck(e) ==
  /\ pc = "acks" /\ e \in acks_to_send
  /\ acks_to_send' = acks_to_send \ {e}
  /\ exchanges' = [exchanges EXCEPT ![e].ack = "None"]
  /\ owed' = owed \ {e}
  /\ Use(exchanges[e].slot)
  /\ UNCHANGED <<sessions, idVars, openedBy, workq, pake, pc, rx>>

Purge ==
  /\ pc = "acks" /\ acks_to_send = {}
  /\ LET gone == {e \in Live : IsPurgeable(exchanges[e])}
     IN /\ exchanges' = [e \in ExchIds |-> IF e \in gone THEN NoExch ELSE exchanges[e]]
        /\ openedBy'  = [e \in ExchIds |-> IF e \in gone THEN NoSession ELSE openedBy[e]]
        /\ owed' = owed \ gone
  /\ pc' = "recv"
  /\ UNCHANGED <<sessVars, idVars, workq, pake, rx, acks_to_send>>

\* Time passes the ack_timeout of an exchange, wherever the loop is.
AckTimeout(e) ==
  /\ e \in Live /\ exchanges[e].ack = "fresh"
  /\ pc \notin {"blocked", "panic"}
  /\ exchanges' = [exchanges EXCEPT ![e].ack = "late"]
  /\ UNCHANGED <<sessVars, idVars, openedBy, owed, workq, pake, pc, rx, acks_to_send>>

Recv == \E m \in Packets : RecvOnSession(m) \/ RecvNewPeer(m) \/ RecvWhenFull(m)

\* The steps of the loop that do not wait for a datagram.
LoopStep ==
  \/ NoExchange \/ GetExchange
  \/ HandleAck \/ HandleRequest \/ HandleSigma1
  \/ Sigma3Error \/ Sigma3Denied \/ Sigma3Success
  \/ PaseDisabled \/ PaseError \/ PbkdfBusy \/ PbkdfAccept
  \/ Pake1 \/ Pake3Denied \/ Pake3Success
  \/ SendResponse \/ HandleQueueMsg \/ QueueEmpty \/ PendingAcks
  \/ (\E e \in ExchIds : SendAck(e)) \/ Purge

Next == Recv \/ LoopStep \/ \E e \in ExchIds : AckTimeout(e)

Spec == Init /\ [][Next]_vars

\* The thread keeps running; nothing is assumed of the network.
FairSpec == Spec /\ WF_vars(LoopStep)

\* A standalone ack the exchange table has an answer to: its turn of the loop
\* goes all the way to the purge.
RecvGoodAck ==
  \E m \in Packets :
    /\ m.genuine /\ m.initiator /\ m.kind = "Ack" /\ ~ m.reliable
    /\ \E i \in Slots : IsFirst(i, Lookup(sessions, m)) /\ Admissible(m.exch, i)
    /\ RecvOnSession(m)

\* Besides, such packets keep coming in between whatever else is received.
BusySpec == FairSpec /\ SF_vars(RecvGoodAck)

-----------------------------------------------------------------------------
(***************************************************************************)
(* Properties.                                                             *)
(***************************************************************************)

\* Every variable stays in its range; the tables and the queue never exceed
\* their capacity.
TypeOK ==
  /\ sessions \in [Slots -> Session \cup {NoSession}]
  /\ last_use \in [Slots -> Ranks]
  /\ next_sess_id \in SessIds
  /\ exchanges \in [ExchIds -> Exchange \cup {NoExch}]
  /\ Cardinality(Live) <= MAX_EXCHANGES
  /\ workq \in Seq(CloneData) /\ Len(workq) <= MAX_WORKQ
  /\ pake \in InProgress \cup {NoWindow, IdlePake}
  /\ pc \in {"recv", "exch", "handle", "send", "queue", "pending", "acks", "blocked", "panic"}
  /\ rx \in Received \cup Context \cup {NoRx}
  /\ acks_to_send \subseteq ExchIds
  /\ openedBy \in [ExchIds -> Session \cup {NoSession}]
  /\ owed \subseteq ExchIds
  /\ mru \subseteq Slots
  /\ wrapped \in BOOLEAN

\* An exchange holds the index of a session slot, and the slot is reused after
\* an eviction: the session found there is always the one the exchange was
\* opened on, so no exchange is ever continued with another peer, nor on an
\* empty slot (SessionHandle::deref would panic).
ExchangeOnItsSession ==
  \A e \in Live : openedBy[e] # NoSession /\ sessions[exchanges[e].slot] = openedBy[e]

\* The slot index taken when a packet came in is still right when its handler
\* runs and its answer is sent, although sessions are evicted in between: the
\* session there has the packet's peer and id, and the exchange is on it and is
\* open when the handler is called.
ServedInPlace ==
  /\ pc \in {"exch", "handle", "send"} =>
       /\ sessions[rx.slot] # NoSession
       /\ sessions[rx.slot].addr = rx.addr /\ sessions[rx.slot].id = rx.id
  /\ pc \in {"handle", "send"} => This \in Live /\ exchanges[This].slot = rx.slot
  /\ pc = "handle" => exchanges[This].state = "Open"

\* What TypeOK and the two invariants above need to be inductive: the shape of
\* rx follows the place of the loop, and acks are sent on live exchanges.
LoopShape ==
  /\ pc = "exch" => rx \in Received
  /\ pc \in {"handle", "send"} => rx \in Context
  /\ pc # "acks" => acks_to_send = {}
  /\ acks_to_send \subseteq Live

IInv == TypeOK /\ LoopShape /\ ExchangeOnItsSession /\ ServedInPlace

\* An exchange has an AckEntry only while its peer really waits for an ack: no
\* packet is acknowledged twice, whichever of the answer, a standalone ack and a
\* CloseSession comes first.
NoSpuriousAck == \A e \in Live : exchanges[e].ack # "None" => e \in owed

\* The session ids of two handshakes under way, queued or installed differ, as
\* long as next_sess_id has not started over: between its reservation in Sigma1
\* and the installation of the session nothing in the session table shows an id
\* to be taken.
IdsDifferBeforeWrap ==
  ~ wrapped =>
    /\ \A e, f \in Live :
         exchanges[e].data # 0 /\ exchanges[e].data = exchanges[f].data => e = f
    /\ \A i, j \in Occupied(sessions) :
         sessions[i].id # 0 /\ sessions[i].id = sessions[j].id => i = j
    /\ \A p, q \in DOMAIN workq : workq[p].id = workq[q].id => p = q
    /\ \A e \in Live, p \in DOMAIN workq : exchanges[e].data # workq[p].id
    /\ \A i \in Occupied(sessions), p \in DOMAIN workq : sessions[i].id # workq[p].id
    /\ \A e \in Live, i \in Occupied(sessions) :
         exchanges[e].data # 0 => exchanges[e].data # sessions[i].id
    /\ pake \in InProgress =>
         /\ \A e \in Live : exchanges[e].data # pake.id
         /\ \A i \in Occupied(sessions) : sessions[i].id # pake.id
         /\ \A p \in DOMAIN workq : workq[p].id # pake.id

\* A commissioning window makes at most one PASE session, queued or installed, and
\* is closed when there is one: whatever peers start, repeat or abandon handshakes.
PaseOnce ==
  LET queued    == {p \in DOMAIN workq : workq[p].mode = "Pase"}
      installed == {i \in Occupied(sessions) : sessions[i].mode = "Pase"}
  IN /\ Cardinality(queued) + Cardinality(installed) <= 1
     /\ queued \cup installed # {} => pake = NoWindow

\* An exchange leaves the table only when it is closed and neither side waits
\* for an acknowledgement on it, or together with every other exchange of its
\* session: eviction takes all of them or none.
EndsCleanly ==
  [][\A e \in Live : e \notin Live' =>
       \/ /\ exchanges[e].state = "Close"
          /\ ~ exchanges[e].retrans /\ exchanges[e].ack = "None"
       \/ On(exchanges[e].slot) \cap Live' = {}]_vars

\* A session is lost only to make room in a full table, and it is never the one
\* that was used last: every packet received, answer, ack and CloseSession counts
\* as a use.
LruEviction ==
  [][\A i \in Occupied(sessions) : sessions'[i] # sessions[i] =>
       /\ Empty(sessions) = {}
       /\ i \notin mru \/ MAX_SESSIONS = 1]_vars

\* Each turn of the loop comes back to the next datagram, unless the loop waits
\* for its own queue or has panicked.
TurnEnds == pc # "recv" ~> pc \in {"recv", "blocked", "panic"}

(***************************************************************************)
(* The promise to the protocols above: an exchange is a conversation with  *)
(* the peer of the slot it is on.                                          *)
(***************************************************************************)
heldAt == [e \in ExchIds |-> IF e \in Live THEN exchanges[e].slot ELSE MAX_SESSIONS]

Promise == INSTANCE Conversations WITH
  Places <- Slots, Peers <- Session, NoPeer <- NoSession,
  Names <- ExchIds, Capacity <- MAX_EXCHANGES, NoPlace <- MAX_SESSIONS,
  peer <- sessions, at <- heldAt

\* Every step of the main loop is a step of Conversations or none: peers and
\* conversations change together or not at all, whatever the handlers do.
KeepsPromise == Promise!CSpec

(***************************************************************************)
(* What the source says of itself, and the code does not do (the findings  *)
(* of README).                                                             *)
(***************************************************************************)

\* mrp.rs:31, "The max time after which this entry must be ACK": when the loop
\* looks for acks to send, those whose time is up are among them.
LateAckIsSent ==
  [][pc = "pending" /\ pc' = "acks" =>
       {e \in Live : exchanges[e].ack = "late"} \subseteq acks_to_send']_vars

\* pake.rs:185, "Previous session in-progress, denying new request": a request that
\* is answered while a handshake is under way leaves a handshake under way, the
\* old one when it is denied, the new one when the old one has expired.
DenialKeepsHandshake ==
  [][Handling("Pbkdf") /\ pc' = "send" /\ pake \in InProgress => pake' \in InProgress]_vars

\* exchange.rs:298, `expired_entries.insert(..).unwrap()`: the acks that are
\* ready together fit the map they are collected in.
ReadyAcksFit == pc # "panic"

\* mgr.rs:101, "If a new session was created, add it": a session that was queued
\* does not stay in the queue for ever, even if good packets keep coming in
\* (BusySpec).  The instance has a queue of one.
QueuedSessionIsAdded == (workq # <<>>) ~> (workq = <<>>)
=============================================================================
