------------------------- MODULE ExchangeMgr_proofs -------------------------
(***************************************************************************)
(* Proofs of the invariants of ExchangeMgr, for every size of the tables,  *)
(* every set of peers and every set of packets; and that it implements     *)
(* Conversations.                                                          *)
(***************************************************************************)
EXTENDS ExchangeMgr, FiniteSetTheorems, TLAPS

(***************************************************************************)
(* Facts about the session table.                                          *)
(***************************************************************************)

\* Noting a use keeps every slot's rank a rank.
LEMMA TouchType ==
  ASSUME NEW rank \in [Slots -> Ranks], NEW i \in Slots
  PROVE  Touch(rank, i) \in [Slots -> Ranks]
BY SessionTableAssumption DEF Touch, Slots, Ranks

\* A packet opens a well-formed unsecured session, one it then matches.
LEMMA PlainSessionType ==
  ASSUME NEW m \in Packet
  PROVE  PlainSession(m) \in Session /\ PlainSession(m) # NoSession
BY NoSessionAssumption, SessionTableAssumption DEF PlainSession, Session, Packet, Modes

\* The slot a packet is looked up in holds a session of its peer and id.
LEMMA LookupMatches ==
  ASSUME NEW T, NEW m, NEW i \in Slots, IsFirst(i, Lookup(T, m))
  PROVE  T[i] # NoSession /\ T[i].addr = m.addr /\ T[i].id = m.id
BY DEF IsFirst, Lookup, Matches

(***************************************************************************)
(* Facts about the exchange table.                                         *)
(***************************************************************************)

\* The table is finite, and stays within its capacity when exchanges go.
LEMMA LiveShrinks ==
  ASSUME TypeOK, NEW L, L \subseteq Live
  PROVE  Cardinality(L) <= MAX_EXCHANGES
<1>1. IsFiniteSet(Live) BY ExchangeMgrAssumption, FS_Subset DEF Live
<1>2. IsFiniteSet(L) /\ Cardinality(L) <= Cardinality(Live) BY <1>1, FS_Subset
<1>3. Cardinality(L) \in Nat /\ Cardinality(Live) \in Nat BY <1>1, <1>2, FS_CardinalityType
<1> QED BY <1>2, <1>3, ExchangeMgrAssumption DEF TypeOK

\* An admissible exchange fits.
LEMMA LiveGrows ==
  ASSUME TypeOK, NEW e \in ExchIds, e \in Live \/ Cardinality(Live) < MAX_EXCHANGES
  PROVE  Cardinality(Live \cup {e}) <= MAX_EXCHANGES
<1>1. IsFiniteSet(Live) BY ExchangeMgrAssumption, FS_Subset DEF Live
<1>2. Cardinality(Live) \in Nat BY <1>1, FS_CardinalityType
<1>3. CASE e \in Live
  <2>1. Live \cup {e} = Live BY <1>3
  <2> QED BY <2>1 DEF TypeOK
<1>4. CASE e \notin Live
  <2>1. Cardinality(Live \cup {e}) = Cardinality(Live) + 1 BY <1>1, <1>4, FS_AddElement
  <2> QED BY <2>1, <1>2, <1>4, ExchangeMgrAssumption
<1> QED BY <1>3, <1>4

\* A live exchange is a record of its type, an exchange record is no absence.
LEMMA LiveType ==
  ASSUME TypeOK
  PROVE  /\ \A e \in Live : exchanges[e] \in Exchange
         /\ \A x \in Exchange : x # NoExch
BY NoneAssumption DEF TypeOK, Live
(***************************************************************************)
(* Steps that several actions share.                                       *)
(***************************************************************************)

\* A packet accepted on slot i is well formed for the rest of the turn.
LEMMA AcceptEffect ==
  ASSUME TypeOK, LoopShape, pc = "recv", NEW m \in Packets, NEW i \in Slots, Accept(m, i)
  PROVE  /\ last_use' \in [Slots -> Ranks]
         /\ mru' \subseteq Slots
         /\ \/ pc' = "recv" /\ rx' = NoRx
            \/ pc' = "exch" /\ rx' \in Received /\ rx' = OnSlot(m, i)
<1>1. last_use' = Touch(last_use, i) /\ mru' = {i} BY DEF Accept, Use
<1>2. m \in Packet BY PacketsAssumption
<1>3. OnSlot(m, i) \in Received BY <1>2 DEF OnSlot, Received, Packet
<1> QED BY <1>1, <1>3, TouchType DEF Accept, NextTurn, TypeOK

\* Exchanges of one slot are removed together: the table stays well formed, and
\* what remains is what was there, on other slots.
LEMMA RemoveEffect ==
  ASSUME TypeOK, NEW i \in Slots, RemoveExchangesOn(i)
  PROVE  /\ exchanges' \in [ExchIds -> Exchange \cup {NoExch}]
         /\ openedBy' \in [ExchIds -> Session \cup {NoSession}]
         /\ owed' \subseteq ExchIds
         /\ Live' = Live \ On(i)
         /\ Cardinality(Live') <= MAX_EXCHANGES
         /\ \A e \in Live' : /\ exchanges'[e] = exchanges[e] /\ openedBy'[e] = openedBy[e]
                             /\ exchanges[e].slot # i
<1>1. exchanges' \in [ExchIds -> Exchange \cup {NoExch}] BY DEF RemoveExchangesOn, TypeOK
<1>2. openedBy' \in [ExchIds -> Session \cup {NoSession}] BY DEF RemoveExchangesOn, TypeOK
<1>3. owed' \subseteq ExchIds BY DEF RemoveExchangesOn, TypeOK
<1>4. Live' = Live \ On(i) BY DEF RemoveExchangesOn, Live, On
<1>5. Cardinality(Live') <= MAX_EXCHANGES BY <1>4, LiveShrinks
<1>6. \A e \in Live' : /\ exchanges'[e] = exchanges[e] /\ openedBy'[e] = openedBy[e]
                       /\ exchanges[e].slot # i
  BY <1>4 DEF RemoveExchangesOn, Live, On
<1> QED BY <1>1, <1>2, <1>3, <1>4, <1>5, <1>6

\* Exchange e keeps its slot and is otherwise changed to x.
LEMMA UpdateEffect ==
  ASSUME TypeOK, NEW e \in Live, NEW x \in Exchange, x.slot = exchanges[e].slot,
         exchanges' = [exchanges EXCEPT ![e] = x]
  PROVE  /\ exchanges' \in [ExchIds -> Exchange \cup {NoExch}]
         /\ Live' = Live
         /\ Cardinality(Live') <= MAX_EXCHANGES
         /\ \A f \in Live : exchanges'[f].slot = exchanges[f].slot
         /\ exchanges'[e] = x
<1>1. e \in ExchIds BY DEF Live
<1>2. exchanges' \in [ExchIds -> Exchange \cup {NoExch}] BY <1>1 DEF TypeOK
<1>3. Live' = Live BY <1>1, LiveType DEF Live, TypeOK
<1>4. \A f \in Live : exchanges'[f].slot = exchanges[f].slot BY <1>1 DEF TypeOK, Live
<1>5. exchanges'[e] = x BY <1>1 DEF TypeOK
<1> QED BY <1>2, <1>3, <1>4, <1>5 DEF TypeOK

\* A failed eviction changes nothing but an ack and the use of the slot.
LEMMA EvictFailsEffect ==
  ASSUME TypeOK, NEW i \in Slots, EvictFails(i)
  PROVE  /\ exchanges' \in [ExchIds -> Exchange \cup {NoExch}]
         /\ Live' = Live
         /\ Cardinality(Live') <= MAX_EXCHANGES
         /\ \A f \in Live : exchanges'[f].slot = exchanges[f].slot
         /\ last_use' \in [Slots -> Ranks]
         /\ mru' \subseteq Slots
         /\ owed' \subseteq ExchIds
         /\ UNCHANGED <<sessions, openedBy>>
<1> PICK e \in On(i) : /\ exchanges' = [exchanges EXCEPT ![e].ack = "None"]
                       /\ owed' = owed \ {e} /\ Use(i) /\ UNCHANGED <<sessions, openedBy>>
  BY DEF EvictFails
<1> DEFINE x == [exchanges[e] EXCEPT !.ack = "None"]
<1>1. e \in Live BY DEF On
<1>2. x \in Exchange /\ x.slot = exchanges[e].slot BY <1>1, LiveType DEF Exchange
<1>3. exchanges' = [exchanges EXCEPT ![e] = x] OBVIOUS
<1> HIDE DEF x
<1>4. last_use' \in [Slots -> Ranks] /\ mru' \subseteq Slots BY TouchType DEF Use, TypeOK
<1> QED BY <1>1, <1>2, <1>3, <1>4, UpdateEffect DEF TypeOK
(***************************************************************************)
(* The inductive invariant, action by action.                              *)
(***************************************************************************)

\* A packet for a session that is there: only the use of the slot changes.
LEMMA RecvOnSessionStep ==
  ASSUME IInv, NEW m \in Packets, RecvOnSession(m)
  PROVE  IInv'
<1> PICK i \in Slots : IsFirst(i, Lookup(sessions, m)) /\ Accept(m, i)
  BY DEF RecvOnSession
<1> USE DEF IInv
<1>1. pc = "recv" /\ UNCHANGED <<sessions, idVars, exchVars, workq, pake, acks_to_send>>
  BY DEF RecvOnSession
<1>2. /\ last_use' \in [Slots -> Ranks] /\ mru' \subseteq Slots
      /\ \/ pc' = "recv" /\ rx' = NoRx
         \/ pc' = "exch" /\ rx' \in Received /\ rx' = OnSlot(m, i)
  BY <1>1, AcceptEffect
<1>3. Live' = Live BY <1>1 DEF Live, exchVars
<1>4. TypeOK' BY <1>1, <1>2, <1>3 DEF TypeOK, exchVars, idVars
<1>5. LoopShape' BY <1>1, <1>2, <1>3 DEF LoopShape
<1>6. ExchangeOnItsSession' BY <1>1, <1>3 DEF ExchangeOnItsSession, exchVars
<1>7. sessions[i] # NoSession /\ sessions[i].addr = m.addr /\ sessions[i].id = m.id
  BY LookupMatches
<1>8. ServedInPlace' BY <1>1, <1>2, <1>7 DEF ServedInPlace, OnSlot
<1> QED BY <1>4, <1>5, <1>6, <1>8

\* A new peer: an empty slot is filled, which no exchange can be on.
LEMMA RecvNewPeerStep ==
  ASSUME IInv, NEW m \in Packets, RecvNewPeer(m)
  PROVE  IInv'
<1> PICK i \in Slots : /\ IsFirst(i, Empty(sessions))
                       /\ sessions' = [sessions EXCEPT ![i] = PlainSession(m)]
                       /\ Accept(m, i)
  BY DEF RecvNewPeer
<1> USE DEF IInv
<1>1. pc = "recv" /\ m.id = 0 /\ UNCHANGED <<idVars, exchVars, workq, pake, acks_to_send>>
  BY DEF RecvNewPeer
<1>2. /\ last_use' \in [Slots -> Ranks] /\ mru' \subseteq Slots
      /\ \/ pc' = "recv" /\ rx' = NoRx
         \/ pc' = "exch" /\ rx' \in Received /\ rx' = OnSlot(m, i)
  BY <1>1, AcceptEffect
<1>3. Live' = Live BY <1>1 DEF Live, exchVars
<1>4. PlainSession(m) \in Session /\ PlainSession(m) # NoSession
  BY PlainSessionType, PacketsAssumption
<1>5. TypeOK' BY <1>1, <1>2, <1>3, <1>4 DEF TypeOK, exchVars, idVars
<1>6. LoopShape' BY <1>1, <1>2, <1>3 DEF LoopShape
<1>7. sessions[i] = NoSession BY DEF IsFirst, Empty
<1>8. ExchangeOnItsSession'
  BY <1>1, <1>3, <1>7 DEF ExchangeOnItsSession, exchVars, TypeOK
<1>9. sessions'[i] = PlainSession(m) BY DEF TypeOK
<1>10. ServedInPlace'
  BY <1>1, <1>2, <1>4, <1>9 DEF ServedInPlace, OnSlot, PlainSession
<1> QED BY <1>5, <1>6, <1>8, <1>10

\* A full table: the exchanges of the evicted session go before its slot is
\* given to the new one.
LEMMA RecvWhenFullStep ==
  ASSUME IInv, NEW m \in Packets, RecvWhenFull(m)
  PROVE  IInv'
<1> PICK i \in Slots :
      \/ EvictFails(i) /\ NextTurn
      \/ /\ RemoveExchangesOn(i)
         /\ sessions' = [sessions EXCEPT ![i] = PlainSession(m)]
         /\ Accept(m, i)
  BY DEF RecvWhenFull
<1> USE DEF IInv
<1>1. pc = "recv" /\ m.id = 0 /\ UNCHANGED <<idVars, workq, pake, acks_to_send>>
  BY DEF RecvWhenFull
<1>2. acks_to_send = {} BY <1>1 DEF LoopShape
<1>3. CASE EvictFails(i) /\ NextTurn
  <2>1. /\ exchanges' \in [ExchIds -> Exchange \cup {NoExch}]
        /\ Live' = Live /\ Cardinality(Live') <= MAX_EXCHANGES
        /\ \A f \in Live : exchanges'[f].slot = exchanges[f].slot
        /\ last_use' \in [Slots -> Ranks] /\ mru' \subseteq Slots /\ owed' \subseteq ExchIds
        /\ UNCHANGED <<sessions, openedBy>>
    BY <1>3, EvictFailsEffect
  <2>2. TypeOK' BY <1>1, <1>3, <2>1 DEF TypeOK, idVars, NextTurn
  <2>3. LoopShape' BY <1>1, <1>2, <1>3 DEF LoopShape, NextTurn
  <2>4. ExchangeOnItsSession' BY <2>1 DEF ExchangeOnItsSession
  <2>5. ServedInPlace' BY <1>3 DEF ServedInPlace, NextTurn
  <2> QED BY <2>2, <2>3, <2>4, <2>5
<1>4. CASE /\ RemoveExchangesOn(i)
           /\ sessions' = [sessions EXCEPT ![i] = PlainSession(m)]
           /\ Accept(m, i)
  <2>1. /\ last_use' \in [Slots -> Ranks] /\ mru' \subseteq Slots
        /\ \/ pc' = "recv" /\ rx' = NoRx
           \/ pc' = "exch" /\ rx' \in Received /\ rx' = OnSlot(m, i)
    BY <1>1, <1>4, AcceptEffect
  <2>2. PlainSession(m) \in Session /\ PlainSession(m) # NoSession
    BY PlainSessionType, PacketsAssumption
  <2>3. /\ exchanges' \in [ExchIds -> Exchange \cup {NoExch}]
        /\ openedBy' \in [ExchIds -> Session \cup {NoSession}]
        /\ owed' \subseteq ExchIds
        /\ Live' = Live \ On(i) /\ Cardinality(Live') <= MAX_EXCHANGES
        /\ \A e \in Live' : /\ exchanges'[e] = exchanges[e] /\ openedBy'[e] = openedBy[e]
                            /\ exchanges[e].slot # i
    BY <1>4, RemoveEffect
  <2>4. TypeOK' BY <1>1, <1>4, <2>1, <2>2, <2>3 DEF TypeOK, idVars
  <2>5. LoopShape' BY <1>1, <1>2, <2>1 DEF LoopShape
  <2>6. ExchangeOnItsSession'
    <3> SUFFICES ASSUME NEW e \in Live'
                 PROVE  openedBy'[e] # NoSession /\ sessions'[exchanges'[e].slot] = openedBy'[e]
      BY DEF ExchangeOnItsSession
    <3>1. e \in Live /\ exchanges[e].slot # i BY <2>3
    <3>2. sessions'[exchanges[e].slot] = sessions[exchanges[e].slot]
      BY <1>4, <3>1, LiveType DEF TypeOK, Exchange
    <3> QED BY <2>3, <3>1, <3>2 DEF ExchangeOnItsSession
  <2>7. sessions'[i] = PlainSession(m) BY <1>4 DEF TypeOK
  <2>8. ServedInPlace'
    BY <1>1, <2>1, <2>2, <2>7 DEF ServedInPlace, OnSlot, PlainSession
  <2> QED BY <2>4, <2>5, <2>6, <2>8
<1> QED BY <1>3, <1>4
LEMMA NoExchangeStep ==
  ASSUME IInv, NoExchange
  PROVE  IInv'
<1> USE DEF IInv
<1>1. Live' = Live BY DEF NoExchange, Live, exchVars
<1>2. TypeOK' BY <1>1 DEF NoExchange, NextTurn, TypeOK, sessVars, idVars, exchVars
<1>3. LoopShape' BY <1>1 DEF NoExchange, NextTurn, LoopShape
<1>4. ExchangeOnItsSession'
  BY <1>1 DEF NoExchange, ExchangeOnItsSession, sessVars, exchVars
<1>5. ServedInPlace' BY DEF NoExchange, NextTurn, ServedInPlace
<1> QED BY <1>2, <1>3, <1>4, <1>5

\* The reliability state of an exchange after a packet, the rest untouched.
LEMMA MrpRecvType ==
  ASSUME NEW x \in Exchange, NEW r \in Received
  PROVE  /\ MrpRecv(x, r) \in Exchange
         /\ MrpRecv(x, r).slot = x.slot
         /\ MrpRecv(x, r).state = x.state
BY DEF MrpRecv, Exchange, Received

\* A new exchange is bound to the session its packet came on; one that exists
\* is only admitted on the session it is bound to.
LEMMA GetExchangeStep ==
  ASSUME IInv, GetExchange
  PROVE  IInv'
<1> DEFINE e == rx.exch
           x == IF e \in Live THEN exchanges[e] ELSE NewExchange(rx.slot)
<1> USE DEF IInv
<1>1. /\ pc = "exch" /\ Admissible(e, rx.slot)
      /\ exchanges' = [exchanges EXCEPT ![e] = MrpRecv(x, rx)]
      /\ openedBy' = IF e \in Live THEN openedBy
                     ELSE [openedBy EXCEPT ![e] = sessions[rx.slot]]
      /\ UNCHANGED <<sessVars, idVars, workq, pake, acks_to_send>>
  BY DEF GetExchange
<1>2. \/ NextTurn /\ UNCHANGED owed
      \/ /\ owed' \in {owed, owed \cup {e}}
         /\ \/ x.state = "Open" /\ pc' = "handle" /\ rx' = ForHandler(rx)
            \/ pc' = "queue" /\ rx' = NoRx
  BY DEF GetExchange
<1>3. rx \in Received /\ e \in ExchIds /\ rx.slot \in Slots
  BY <1>1 DEF LoopShape, Received
<1>4. x \in Exchange /\ x.slot = rx.slot
  <2>1. NewExchange(rx.slot) \in Exchange /\ NewExchange(rx.slot).slot = rx.slot
    BY <1>3, SessionTableAssumption DEF NewExchange, Exchange
  <2>2. e \in Live => exchanges[e] \in Exchange /\ exchanges[e].slot = rx.slot
    BY <1>1, LiveType DEF Admissible
  <2> QED BY <2>1, <2>2
<1>5. sessions[rx.slot] # NoSession /\ sessions[rx.slot].addr = rx.addr
                                   /\ sessions[rx.slot].id = rx.id
  BY <1>1 DEF ServedInPlace
<1> DEFINE y == MrpRecv(x, rx)
<1>6. y \in Exchange /\ y.slot = rx.slot /\ y.state = x.state BY <1>3, <1>4, MrpRecvType
<1>7. exchanges' = [exchanges EXCEPT ![e] = y] BY <1>1
<1> HIDE DEF x, y
<1>8. Live' = Live \cup {e} BY <1>3, <1>6, <1>7, LiveType DEF Live, TypeOK
<1>9. Cardinality(Live') <= MAX_EXCHANGES
  BY <1>1, <1>3, <1>8, LiveGrows DEF Admissible
<1>10. ForHandler(rx) \in Context BY <1>3 DEF ForHandler, Context, Received
<1>11. TypeOK'
  BY <1>1, <1>2, <1>3, <1>6, <1>7, <1>9, <1>10 DEF TypeOK, sessVars, idVars, NextTurn
<1>12. LoopShape' BY <1>1, <1>2, <1>8, <1>10 DEF LoopShape, NextTurn
<1>13. ExchangeOnItsSession'
  <2> SUFFICES ASSUME NEW f \in Live'
               PROVE  openedBy'[f] # NoSession /\ sessions'[exchanges'[f].slot] = openedBy'[f]
    BY DEF ExchangeOnItsSession
  <2>1. sessions' = sessions BY <1>1 DEF sessVars
  <2>2. CASE f = e /\ e \notin Live
    BY <1>1, <1>3, <1>5, <1>6, <1>7, <2>1, <2>2 DEF TypeOK
  <2>3. CASE f = e /\ e \in Live
    <3>1. exchanges[e].slot = rx.slot BY <1>1, <2>3 DEF Admissible
    <3> QED BY <1>1, <1>3, <1>6, <1>7, <2>1, <2>3, <3>1 DEF TypeOK, ExchangeOnItsSession
  <2>4. CASE f # e
    <3>1. f \in Live /\ f \in ExchIds BY <1>8, <2>4 DEF Live
    <3>2. exchanges'[f] = exchanges[f] /\ openedBy'[f] = openedBy[f]
      BY <1>1, <1>3, <1>7, <2>4, <3>1 DEF TypeOK
    <3> QED BY <2>1, <3>1, <3>2 DEF ExchangeOnItsSession
  <2> QED BY <2>2, <2>3, <2>4
<1>14. ServedInPlace'
  <2>1. CASE pc' \in {"recv", "queue"} BY <2>1 DEF ServedInPlace
  <2>2. CASE x.state = "Open" /\ pc' = "handle" /\ rx' = ForHandler(rx)
    <3>1. rx'.exch = e /\ rx'.slot = rx.slot /\ rx'.addr = rx.addr /\ rx'.id = rx.id
      BY <2>2 DEF ForHandler
    <3>2. exchanges'[e] = y BY <1>3, <1>7 DEF TypeOK
    <3> QED BY <1>1, <1>5, <1>6, <1>8, <2>2, <3>1, <3>2 DEF ServedInPlace, This, sessVars
  <2> QED BY <1>2, <2>1, <2>2 DEF NextTurn
<1> QED BY <1>11, <1>12, <1>13, <1>14

\* Whatever a handler or the answer does: it changes the exchange at hand, keeps
\* its slot, and the turn goes on to the answer, to the queue or to the next
\* packet.
LEMMA ThisExchangeStep ==
  ASSUME IInv, pc \in {"handle", "send"},
         NEW x \in Exchange, x.slot = exchanges[This].slot,
         exchanges' = [exchanges EXCEPT ![This] = x],
         UNCHANGED <<sessions, openedBy, acks_to_send>>,
         next_sess_id' \in SessIds, wrapped' \in BOOLEAN,
         last_use' \in [Slots -> Ranks], mru' \subseteq Slots, owed' \subseteq ExchIds,
         workq' \in Seq(CloneData), Len(workq') <= MAX_WORKQ,
         pake' \in InProgress \cup {NoWindow, IdlePake},
         \/ pc' \in {"recv", "queue"} /\ rx' = NoRx
         \/ pc' \in {"send", "blocked"} /\ rx' = rx
  PROVE  IInv' /\ UNCHANGED <<sessions, heldAt>>
<1> USE DEF IInv
<1>1. This \in Live BY DEF ServedInPlace
<1>2. /\ exchanges' \in [ExchIds -> Exchange \cup {NoExch}]
      /\ Live' = Live /\ Cardinality(Live') <= MAX_EXCHANGES
      /\ \A f \in Live : exchanges'[f].slot = exchanges[f].slot
  BY <1>1, UpdateEffect
<1>3. TypeOK' BY <1>2 DEF TypeOK
<1>4. LoopShape' BY <1>2 DEF LoopShape
<1>5. ExchangeOnItsSession' BY <1>2 DEF ExchangeOnItsSession
<1>6. ServedInPlace' BY <1>1, <1>2 DEF ServedInPlace, This
<1>7. heldAt' = heldAt BY <1>2 DEF heldAt
<1> QED BY <1>3, <1>4, <1>5, <1>6, <1>7

\* The records a handler leaves behind.
LEMMA HandlerRecords ==
  ASSUME NEW x \in Exchange, NEW k \in 0 .. MaxSessId
  PROVE  /\ Closed(x) \in Exchange /\ Closed(x).slot = x.slot
         /\ [x EXCEPT !.data = k] \in Exchange /\ [x EXCEPT !.data = k].slot = x.slot
         /\ [x EXCEPT !.ack = "None", !.retrans = TRUE] \in Exchange
         /\ [x EXCEPT !.ack = "None", !.retrans = TRUE].slot = x.slot
<1>1. 0 \in 0 .. MaxSessId BY SessionTableAssumption
<1>2. Closed(x) \in Exchange BY <1>1 DEF Closed, Exchange
<1>3. Closed(x).slot = x.slot BY DEF Closed, Exchange
<1>4. [x EXCEPT !.data = k] \in Exchange BY DEF Exchange
<1>5. [x EXCEPT !.data = k].slot = x.slot BY DEF Exchange
<1>6. [x EXCEPT !.ack = "None", !.retrans = TRUE] \in Exchange BY DEF Exchange
<1>7. [x EXCEPT !.ack = "None", !.retrans = TRUE].slot = x.slot BY DEF Exchange
<1> QED BY <1>2, <1>3, <1>4, <1>5, <1>6, <1>7

\* A message put into the queue fits when the queue is not full, and one taken
\* from it is a session a slot can hold.
LEMMA QueueGrows ==
  ASSUME NEW q \in Seq(CloneData), NEW c \in CloneData, Len(q) < MAX_WORKQ
  PROVE  Append(q, c) \in Seq(CloneData) /\ Len(Append(q, c)) <= MAX_WORKQ
<1>1. Len(Append(q, c)) = Len(q) + 1 /\ Len(q) \in Nat OBVIOUS
<1> QED BY <1>1, ExchangeMgrAssumption

LEMMA QueuedEffect ==
  ASSUME workq \in Seq(CloneData), NEW c \in CloneData, Queued(c)
  PROVE  /\ workq' \in Seq(CloneData) /\ Len(workq') <= MAX_WORKQ
         /\ pc' = "send" /\ rx' = rx
BY QueueGrows DEF Queued, Respond

LEMMA QueueShrinks ==
  ASSUME NEW q \in Seq(CloneData), q # <<>>, Len(q) <= MAX_WORKQ
  PROVE  /\ Tail(q) \in Seq(CloneData) /\ Len(Tail(q)) <= MAX_WORKQ
         /\ Head(q) \in Session /\ Head(q) # NoSession
<1>1. Head(q) \in CloneData /\ Tail(q) \in Seq(CloneData) /\ Len(Tail(q)) = Len(q) - 1
  OBVIOUS
<1>2. Len(q) \in Nat OBVIOUS
<1>3. \A c \in CloneData : c \in Session
  BY SessionTableAssumption DEF CloneData, Session, SessIds, Modes
<1> QED BY <1>1, <1>2, <1>3, NoSessionAssumption, ExchangeMgrAssumption

\* The handlers and the answer are instances of ThisExchangeStep.
LEMMA HandlerStep ==
  ASSUME IInv,
         \/ HandleAck \/ HandleRequest \/ HandleSigma1
         \/ Sigma3Error \/ Sigma3Denied \/ Sigma3Success
         \/ PaseDisabled \/ PaseError \/ PbkdfBusy \/ PbkdfAccept
         \/ Pake1 \/ Pake3Denied \/ Pake3Success \/ SendResponse
  PROVE  IInv' /\ UNCHANGED <<sessions, heldAt>>
<1> USE DEF IInv
<1> DEFINE old == exchanges[This]
<1>1. pc \in {"handle", "send"}
  BY DEF HandleAck, HandleRequest, HandleSigma1, Sigma3Error, Sigma3Denied, Sigma3Success,
         PaseDisabled, PaseError, PbkdfBusy, PbkdfAccept, Pake1, Pake3Denied, Pake3Success,
         SendResponse, Handling
<1>2. old \in Exchange /\ This \in ExchIds /\ rx.slot \in Slots
  BY <1>1, LiveType DEF ServedInPlace, Live, LoopShape, Context
<1>3. exchanges = [exchanges EXCEPT ![This] = old] BY DEF TypeOK
<1>4. /\ last_use \in [Slots -> Ranks] /\ mru \subseteq Slots /\ owed \subseteq ExchIds
      /\ workq \in Seq(CloneData) /\ Len(workq) <= MAX_WORKQ
      /\ next_sess_id \in SessIds /\ wrapped \in BOOLEAN
      /\ pake \in InProgress \cup {NoWindow, IdlePake}
  BY DEF TypeOK
<1>5. 0 \in 0 .. MaxSessId BY SessionTableAssumption
<1>6. PeerAddr \in Addrs
  BY <1>1, <1>2 DEF PeerAddr, ServedInPlace, TypeOK, Session
<1> HIDE DEF IInv
<1>7. CASE HandleAck
  BY <1>1, <1>2, <1>3, <1>4, <1>7, ThisExchangeStep
     DEF HandleAck, NoRespond, sessVars, idVars, exchVars
<1>8. CASE HandleRequest
  <2>1. \/ exchanges' = [exchanges EXCEPT ![This] = Closed(old)]
        \/ exchanges' = [exchanges EXCEPT ![This] = old]
    BY <1>3, <1>8 DEF HandleRequest
  <2>2. \/ pc' \in {"recv", "queue"} /\ rx' = NoRx
        \/ pc' \in {"send", "blocked"} /\ rx' = rx
    BY <1>8 DEF HandleRequest, Respond, NoRespond, NextTurn
  <2>3. UNCHANGED <<sessVars, idVars, openedBy, owed, workq, pake, acks_to_send>>
    BY <1>8 DEF HandleRequest
  <2>4. Closed(old) \in Exchange /\ Closed(old).slot = old.slot
    BY <1>2, <1>5, HandlerRecords
  <2> QED
    BY <1>1, <1>2, <1>4, <2>1, <2>2, <2>3, <2>4, ThisExchangeStep DEF sessVars, idVars
<1>9. CASE HandleSigma1
  <2>1. \E k \in SessIds \cup {0} :
          exchanges' \in {[exchanges EXCEPT ![This] = old], [exchanges EXCEPT ![This] = Closed(old)],
                          [exchanges EXCEPT ![This] = [old EXCEPT !.data = k]]}
    BY <1>3, <1>9 DEF HandleSigma1
  <2>2. next_sess_id' \in SessIds /\ wrapped' \in BOOLEAN
    <3>1. ASSUME NEW k \in SessIds, Reserve(k) PROVE next_sess_id' \in SessIds /\ wrapped' \in BOOLEAN
      BY <1>4, <3>1, SessionTableAssumption DEF Reserve, SuccId, SessIds
    <3> QED BY <1>4, <1>9, <3>1 DEF HandleSigma1, idVars
  <2>3. \/ pc' \in {"recv", "queue"} /\ rx' = NoRx
        \/ pc' \in {"send", "blocked"} /\ rx' = rx
    BY <1>9 DEF HandleSigma1, Respond, NextTurn
  <2>4. UNCHANGED <<sessVars, openedBy, owed, workq, pake, acks_to_send>>
    BY <1>9 DEF HandleSigma1
  <2> PICK k \in SessIds \cup {0} :
          exchanges' \in {[exchanges EXCEPT ![This] = old], [exchanges EXCEPT ![This] = Closed(old)],
                          [exchanges EXCEPT ![This] = [old EXCEPT !.data = k]]}
    BY <2>1
  <2>5. k \in 0 .. MaxSessId BY SessionTableAssumption DEF SessIds
  <2>6. /\ Closed(old) \in Exchange /\ Closed(old).slot = old.slot
        /\ [old EXCEPT !.data = k] \in Exchange /\ [old EXCEPT !.data = k].slot = old.slot
    BY <1>2, <2>5, HandlerRecords
  <2> DEFINE new == [old EXCEPT !.data = k]
  <2>7. \/ exchanges' = [exchanges EXCEPT ![This] = old]
        \/ exchanges' = [exchanges EXCEPT ![This] = Closed(old)]
        \/ exchanges' = [exchanges EXCEPT ![This] = new]
    OBVIOUS
  <2>8. new \in Exchange /\ new.slot = old.slot BY <2>6
  <2> HIDE DEF new
  <2> QED
    BY <1>1, <1>2, <1>4, <2>2, <2>3, <2>4, <2>6, <2>7, <2>8, ThisExchangeStep DEF sessVars
<1>10. CASE Sigma3Error
  <2> DEFINE new == [old EXCEPT !.data = 0]
  <2>1. exchanges' = [exchanges EXCEPT ![This] = new] BY <1>10 DEF Sigma3Error
  <2>2. new \in Exchange /\ new.slot = old.slot BY <1>2, <1>5, HandlerRecords
  <2> HIDE DEF new
  <2> QED
    BY <1>1, <1>2, <1>4, <1>10, <2>1, <2>2, ThisExchangeStep
       DEF Sigma3Error, NextTurn, sessVars, idVars
<1>11. CASE Sigma3Denied
  <2>1. exchanges' = [exchanges EXCEPT ![This] = Closed(old)] BY <1>11 DEF Sigma3Denied
  <2>2. Closed(old) \in Exchange /\ Closed(old).slot = old.slot
    BY <1>2, <1>5, HandlerRecords
  <2> QED
    BY <1>1, <1>2, <1>4, <1>11, <2>1, <2>2, ThisExchangeStep
       DEF Sigma3Denied, Respond, sessVars, idVars
<1>12. CASE Sigma3Success
  <2> DEFINE new == [old EXCEPT !.data = 0]
  <2>1. old.data \in SessIds
    BY <1>2, <1>12, SessionTableAssumption DEF Sigma3Success, Exchange, SessIds
  <2>2. \A n \in Nodes : [addr |-> PeerAddr, node |-> n, id |-> old.data, mode |-> "Case"]
                           \in CloneData
    BY <1>6, <2>1 DEF CloneData
  <2>3. /\ workq' \in Seq(CloneData) /\ Len(workq') <= MAX_WORKQ
        /\ pc' \in {"send", "blocked"} /\ rx' = rx
    <3>1. CASE \E n \in Nodes : Queued([addr |-> PeerAddr, node |-> n,
                                        id |-> exchanges[This].data, mode |-> "Case"])
      BY <1>4, <2>2, <3>1, QueuedEffect
    <3>2. CASE QueueBlocks BY <1>4, <3>2 DEF QueueBlocks
    <3> QED BY <1>12, <3>1, <3>2 DEF Sigma3Success
  <2>4. \/ exchanges' = [exchanges EXCEPT ![This] = Closed(old)]
        \/ exchanges' = [exchanges EXCEPT ![This] = new]
    BY <1>12 DEF Sigma3Success
  <2>5. Closed(old) \in Exchange /\ Closed(old).slot = old.slot
        /\ new \in Exchange /\ new.slot = old.slot
    BY <1>2, <1>5, HandlerRecords
  <2> HIDE DEF new
  <2>6. UNCHANGED <<sessVars, idVars, openedBy, owed, pake, acks_to_send>>
    BY <1>12 DEF Sigma3Success
  <2> QED
    BY <1>1, <1>2, <1>4, <2>3, <2>4, <2>5, <2>6, ThisExchangeStep DEF sessVars, idVars
<1>13. CASE SendResponse
  <2> DEFINE new == [old EXCEPT !.ack = "None", !.retrans = TRUE]
  <2>1. exchanges' = [exchanges EXCEPT ![This] = new]
    BY <1>13 DEF SendResponse
  <2>2. new \in Exchange /\ new.slot = old.slot BY <1>2, <1>5, HandlerRecords
  <2> HIDE DEF new
  <2>3. last_use' \in [Slots -> Ranks] /\ mru' \subseteq Slots /\ owed' \subseteq ExchIds
    BY <1>2, <1>4, <1>13, TouchType DEF SendResponse, Use
  <2>4. rx' = NoRx /\ pc' \in {"recv", "queue"}
        /\ UNCHANGED <<sessions, idVars, openedBy, workq, pake, acks_to_send>>
    BY <1>13 DEF SendResponse
  <2> QED
    BY <1>1, <1>2, <1>4, <2>1, <2>2, <2>3, <2>4, ThisExchangeStep DEF idVars
<1>14. CASE PaseDisabled \/ PaseError \/ PbkdfBusy \/ PbkdfAccept \/ Pake1
  <2>1. next_sess_id' \in SessIds /\ wrapped' \in BOOLEAN
    <3>1. ASSUME NEW k \in SessIds, Reserve(k) PROVE next_sess_id' \in SessIds /\ wrapped' \in BOOLEAN
      BY <1>4, <3>1, SessionTableAssumption DEF Reserve, SuccId, SessIds
    <3> QED BY <1>4, <1>14, <3>1
         DEF PaseDisabled, PaseError, PbkdfBusy, PbkdfAccept, Pake1, idVars
  <2>2. pake' \in InProgress \cup {NoWindow, IdlePake}
    <3>1. CASE PaseDisabled \/ PaseError \/ PbkdfBusy
      BY <1>4, <3>1 DEF PaseDisabled, PaseError, PbkdfBusy
    <3>2. CASE PbkdfAccept
      BY <1>2, <1>6, <3>2 DEF PbkdfAccept, InProgress
    <3>3. CASE Pake1
      BY <3>3 DEF Pake1, OfHandshake, InProgress
    <3> QED BY <1>14, <3>1, <3>2, <3>3
  <2>3. \/ pc' \in {"recv", "queue"} /\ rx' = NoRx
        \/ pc' \in {"send", "blocked"} /\ rx' = rx
    BY <1>14
       DEF PaseDisabled, PaseError, PbkdfBusy, PbkdfAccept, Pake1, Respond, NextTurn
  <2>4. UNCHANGED <<sessVars, exchVars, workq, acks_to_send>>
    BY <1>14 DEF PaseDisabled, PaseError, PbkdfBusy, PbkdfAccept, Pake1
  <2>5. exchanges' = [exchanges EXCEPT ![This] = old] BY <1>3, <2>4 DEF exchVars
  <2> QED
    BY <1>1, <1>2, <1>4, <2>1, <2>2, <2>3, <2>4, <2>5, ThisExchangeStep
       DEF sessVars, exchVars
<1>15. CASE Pake3Denied \/ Pake3Success
  <2>1. [addr |-> PeerAddr, node |-> NodeZero, id |-> pake.id, mode |-> "Pase"] \in CloneData
    BY <1>6, <1>15, ExchangeMgrAssumption
       DEF Pake3Denied, Pake3Success, OfHandshake, InProgress, CloneData
  <2>2. /\ workq' \in Seq(CloneData) /\ Len(workq') <= MAX_WORKQ
        /\ pc' \in {"send", "blocked"} /\ rx' = rx
    <3>1. CASE Queued([addr |-> PeerAddr, node |-> NodeZero, id |-> pake.id, mode |-> "Pase"])
      BY <1>4, <2>1, <3>1, QueuedEffect
    <3>2. CASE QueueBlocks BY <1>4, <3>2 DEF QueueBlocks
    <3>3. CASE Pake3Denied BY <1>4, <3>3 DEF Pake3Denied, Respond
    <3> QED BY <1>15, <3>1, <3>2, <3>3 DEF Pake3Success
  <2>3. \/ exchanges' = [exchanges EXCEPT ![This] = Closed(old)]
        \/ exchanges' = [exchanges EXCEPT ![This] = old]
    BY <1>3, <1>15 DEF Pake3Denied, Pake3Success
  <2>4. Closed(old) \in Exchange /\ Closed(old).slot = old.slot
    BY <1>2, <1>5, HandlerRecords
  <2>5. /\ UNCHANGED <<sessVars, idVars, openedBy, owed, acks_to_send>>
        /\ pake' \in {NoWindow, IdlePake}
    BY <1>15 DEF Pake3Denied, Pake3Success
  <2> QED
    BY <1>1, <1>2, <1>4, <2>2, <2>3, <2>4, <2>5, ThisExchangeStep DEF sessVars, idVars
<1> QED BY <1>7, <1>8, <1>9, <1>10, <1>11, <1>12, <1>13, <1>14, <1>15

\* The queued session goes to an empty slot, which no exchange is on, or to one
\* whose exchanges have been removed first.
LEMMA HandleQueueMsgStep ==
  ASSUME IInv, HandleQueueMsg
  PROVE  IInv'
<1> USE DEF IInv
<1>1. /\ pc = "queue" /\ workq # <<>> /\ workq' = Tail(workq) /\ pc' = "pending"
      /\ UNCHANGED <<idVars, pake, rx, acks_to_send>>
  BY DEF HandleQueueMsg
<1> PICK i \in Slots :
      \/ IsFirst(i, Empty(sessions)) /\ InstallAt(i) /\ UNCHANGED exchVars
      \/ EvictFails(i)
      \/ RemoveExchangesOn(i) /\ InstallAt(i)
  BY DEF HandleQueueMsg
<1> DEFINE s == Head(workq)
<1>2. /\ workq' \in Seq(CloneData) /\ Len(workq') <= MAX_WORKQ
      /\ s \in Session /\ s # NoSession
  BY <1>1, QueueShrinks DEF TypeOK
<1>3. acks_to_send = {} BY <1>1 DEF LoopShape
<1>4. InstallAt(i) => /\ sessions' = [sessions EXCEPT ![i] = s]
                      /\ last_use' \in [Slots -> Ranks] /\ mru' \subseteq Slots
  BY TouchType DEF InstallAt, Use, TypeOK
<1> HIDE DEF s
<1>5. LoopShape' BY <1>1, <1>3 DEF LoopShape
<1>6. ServedInPlace' BY <1>1 DEF ServedInPlace
<1>7. CASE IsFirst(i, Empty(sessions)) /\ InstallAt(i) /\ UNCHANGED exchVars
  <2>1. Live' = Live BY <1>7 DEF Live, exchVars
  <2>2. TypeOK' BY <1>1, <1>2, <1>4, <1>7, <2>1 DEF TypeOK, exchVars, idVars
  <2>3. sessions[i] = NoSession BY <1>7 DEF IsFirst, Empty
  <2>4. ExchangeOnItsSession'
    <3> SUFFICES ASSUME NEW e \in Live
                 PROVE  openedBy[e] # NoSession /\ sessions'[exchanges[e].slot] = openedBy[e]
      BY <1>7, <2>1 DEF ExchangeOnItsSession, exchVars
    <3>1. openedBy[e] # NoSession /\ sessions[exchanges[e].slot] = openedBy[e]
      BY DEF ExchangeOnItsSession
    <3>2. exchanges[e].slot # i BY <2>3, <3>1
    <3>3. sessions'[exchanges[e].slot] = sessions[exchanges[e].slot]
      BY <1>4, <1>7, <3>2, LiveType DEF TypeOK, Exchange
    <3> QED BY <3>1, <3>3
  <2> QED BY <1>5, <1>6, <2>2, <2>4
<1>8. CASE EvictFails(i)
  <2>1. /\ exchanges' \in [ExchIds -> Exchange \cup {NoExch}]
        /\ Live' = Live /\ Cardinality(Live') <= MAX_EXCHANGES
        /\ \A f \in Live : exchanges'[f].slot = exchanges[f].slot
        /\ last_use' \in [Slots -> Ranks] /\ mru' \subseteq Slots /\ owed' \subseteq ExchIds
        /\ UNCHANGED <<sessions, openedBy>>
    BY <1>8, EvictFailsEffect
  <2>2. TypeOK' BY <1>1, <1>2, <2>1 DEF TypeOK, idVars
  <2>3. ExchangeOnItsSession' BY <2>1 DEF ExchangeOnItsSession
  <2> QED BY <1>5, <1>6, <2>2, <2>3
<1>9. CASE RemoveExchangesOn(i) /\ InstallAt(i)
  <2>1. /\ exchanges' \in [ExchIds -> Exchange \cup {NoExch}]
        /\ openedBy' \in [ExchIds -> Session \cup {NoSession}]
        /\ owed' \subseteq ExchIds
        /\ Live' = Live \ On(i) /\ Cardinality(Live') <= MAX_EXCHANGES
        /\ \A e \in Live' : /\ exchanges'[e] = exchanges[e] /\ openedBy'[e] = openedBy[e]
                            /\ exchanges[e].slot # i
    BY <1>9, RemoveEffect
  <2>2. TypeOK' BY <1>1, <1>2, <1>4, <1>9, <2>1 DEF TypeOK, idVars
  <2>3. ExchangeOnItsSession'
    <3> SUFFICES ASSUME NEW e \in Live'
                 PROVE  openedBy'[e] # NoSession /\ sessions'[exchanges'[e].slot] = openedBy'[e]
      BY DEF ExchangeOnItsSession
    <3>1. e \in Live /\ exchanges[e].slot # i BY <2>1
    <3>2. sessions'[exchanges[e].slot] = sessions[exchanges[e].slot]
      BY <1>4, <1>9, <3>1, LiveType DEF TypeOK, Exchange
    <3> QED BY <2>1, <3>1, <3>2 DEF ExchangeOnItsSession
  <2> QED BY <1>5, <1>6, <2>2, <2>3
<1> QED BY <1>7, <1>8, <1>9

LEMMA QueueEmptyStep ==
  ASSUME IInv, QueueEmpty
  PROVE  IInv'
<1> USE DEF IInv
<1>1. Live' = Live BY DEF QueueEmpty, Live, exchVars
<1>2. TypeOK' BY <1>1 DEF QueueEmpty, TypeOK, sessVars, idVars, exchVars
<1>3. LoopShape' BY <1>1 DEF QueueEmpty, LoopShape
<1>4. ExchangeOnItsSession'
  BY <1>1 DEF QueueEmpty, ExchangeOnItsSession, sessVars, exchVars
<1>5. ServedInPlace' BY DEF QueueEmpty, ServedInPlace
<1> QED BY <1>2, <1>3, <1>4, <1>5

\* The acks to send are chosen among the exchanges of the table.
LEMMA PendingAcksStep ==
  ASSUME IInv, PendingAcks
  PROVE  IInv'
<1> USE DEF IInv
<1>1. /\ pc = "pending" /\ UNCHANGED <<sessVars, idVars, exchVars, workq, pake, rx>>
      /\ pc' \in {"acks", "panic"}
      /\ acks_to_send' \subseteq Live /\ (pc' # "acks" => acks_to_send' = {})
  BY DEF PendingAcks, LoopShape
<1>2. Live' = Live BY <1>1 DEF Live, exchVars
<1>3. Live \subseteq ExchIds BY DEF Live
<1>4. TypeOK' BY <1>1, <1>2, <1>3 DEF TypeOK, sessVars, idVars, exchVars
<1>5. LoopShape' BY <1>1, <1>2 DEF LoopShape
<1>6. ExchangeOnItsSession' BY <1>1, <1>2 DEF ExchangeOnItsSession, sessVars, exchVars
<1>7. ServedInPlace' BY <1>1 DEF ServedInPlace
<1> QED BY <1>4, <1>5, <1>6, <1>7

\* An ack is sent on an exchange of the table, on the slot it is bound to.
LEMMA SendAckStep ==
  ASSUME IInv, NEW e \in ExchIds, SendAck(e)
  PROVE  IInv'
<1> USE DEF IInv
<1> DEFINE x == [exchanges[e] EXCEPT !.ack = "None"]
<1>1. /\ pc = "acks" /\ pc' = pc /\ e \in Live
      /\ acks_to_send' \subseteq acks_to_send /\ owed' \subseteq owed
      /\ exchanges' = [exchanges EXCEPT ![e] = x]
      /\ UNCHANGED <<sessions, idVars, openedBy, workq, pake, rx>>
  BY DEF SendAck, LoopShape
<1>2. exchanges[e] \in Exchange BY <1>1, LiveType
<1>3. x \in Exchange /\ x.slot = exchanges[e].slot BY <1>2 DEF Exchange
<1> HIDE DEF x
<1>4. /\ exchanges' \in [ExchIds -> Exchange \cup {NoExch}]
      /\ Live' = Live /\ Cardinality(Live') <= MAX_EXCHANGES
      /\ \A f \in Live : exchanges'[f].slot = exchanges[f].slot
  BY <1>1, <1>3, UpdateEffect
<1>5. exchanges[e].slot \in Slots BY <1>2 DEF Exchange
<1>6. last_use' \in [Slots -> Ranks] /\ mru' \subseteq Slots
  BY <1>5, TouchType DEF SendAck, Use, TypeOK
<1>7. TypeOK' BY <1>1, <1>4, <1>6 DEF TypeOK, idVars
<1>8. LoopShape' BY <1>1, <1>4 DEF LoopShape
<1>9. ExchangeOnItsSession' BY <1>1, <1>4 DEF ExchangeOnItsSession
<1>10. ServedInPlace' BY <1>1 DEF ServedInPlace
<1> QED BY <1>7, <1>8, <1>9, <1>10

\* What the purge leaves is unchanged.
LEMMA PurgeStep ==
  ASSUME IInv, Purge
  PROVE  IInv'
<1> USE DEF IInv
<1> DEFINE gone == {e \in Live : IsPurgeable(exchanges[e])}
<1>1. /\ acks_to_send = {} /\ pc' = "recv"
      /\ exchanges' = [e \in ExchIds |-> IF e \in gone THEN NoExch ELSE exchanges[e]]
      /\ openedBy'  = [e \in ExchIds |-> IF e \in gone THEN NoSession ELSE openedBy[e]]
      /\ owed' = owed \ gone
      /\ UNCHANGED <<sessVars, idVars, workq, pake, rx, acks_to_send>>
  BY DEF Purge
<1> HIDE DEF gone
<1>2. Live' = Live \ gone BY <1>1 DEF Live
<1>3. Cardinality(Live') <= MAX_EXCHANGES BY <1>2, LiveShrinks
<1>4. TypeOK' BY <1>1, <1>3 DEF TypeOK, sessVars, idVars
<1>5. LoopShape' BY <1>1 DEF LoopShape
<1>6. ExchangeOnItsSession' BY <1>1, <1>2 DEF ExchangeOnItsSession, sessVars, Live
<1>7. ServedInPlace' BY <1>1 DEF ServedInPlace
<1> QED BY <1>4, <1>5, <1>6, <1>7

\* The clock touches neither the slot nor the state of an exchange.
LEMMA AckTimeoutStep ==
  ASSUME IInv, NEW e \in ExchIds, AckTimeout(e)
  PROVE  IInv'
<1> USE DEF IInv
<1> DEFINE x == [exchanges[e] EXCEPT !.ack = "late"]
<1>1. /\ e \in Live /\ exchanges' = [exchanges EXCEPT ![e] = x]
      /\ UNCHANGED <<sessVars, idVars, openedBy, owed, workq, pake, pc, rx, acks_to_send>>
  BY DEF AckTimeout
<1>2. x \in Exchange /\ x.slot = exchanges[e].slot /\ x.state = exchanges[e].state
  BY <1>1, LiveType DEF Exchange
<1> HIDE DEF x
<1>3. /\ exchanges' \in [ExchIds -> Exchange \cup {NoExch}]
      /\ Live' = Live /\ Cardinality(Live') <= MAX_EXCHANGES
      /\ \A f \in Live : exchanges'[f].slot = exchanges[f].slot
  BY <1>1, <1>2, UpdateEffect
<1>4. \A f \in Live : exchanges'[f].state = exchanges[f].state
  BY <1>1, <1>2 DEF TypeOK, Live
<1>5. TypeOK' BY <1>1, <1>3 DEF TypeOK, sessVars, idVars
<1>6. LoopShape' BY <1>1, <1>3 DEF LoopShape
<1>7. ExchangeOnItsSession' BY <1>1, <1>3 DEF ExchangeOnItsSession, sessVars
<1>8. ServedInPlace' BY <1>1, <1>3, <1>4 DEF ServedInPlace, This, sessVars
<1> QED BY <1>5, <1>6, <1>7, <1>8

(***************************************************************************)
(* The theorems.                                                           *)
(***************************************************************************)

\* Nothing is in the tables when the loop starts.
LEMMA InitIInv == Init => IInv
<1> SUFFICES ASSUME Init PROVE IInv OBVIOUS
<1>1. Live = {} BY DEF Init, Live
<1>2. Cardinality(Live) = 0 BY <1>1, FS_EmptySet
<1>3. last_use \in [Slots -> Ranks]
  BY SessionTableAssumption DEF Init, Slots, Ranks
<1>4. next_sess_id \in SessIds BY SessionTableAssumption DEF Init, SessIds
<1>5. workq \in Seq(CloneData) /\ Len(workq) <= MAX_WORKQ
  BY ExchangeMgrAssumption DEF Init
<1>6. Cardinality(Live) <= MAX_EXCHANGES BY <1>2, ExchangeMgrAssumption
<1>7. TypeOK BY <1>3, <1>4, <1>5, <1>6 DEF Init, TypeOK
<1> QED BY <1>1, <1>7 DEF Init, IInv, LoopShape, ExchangeOnItsSession, ServedInPlace

\* Every step of the loop, and the clock, keeps the inductive invariant.
LEMMA NextIInv == IInv /\ [Next]_vars => IInv'
<1> SUFFICES ASSUME IInv, [Next]_vars PROVE IInv' OBVIOUS
<1>1. CASE Recv
  BY <1>1, RecvOnSessionStep, RecvNewPeerStep, RecvWhenFullStep DEF Recv
<1>2. CASE LoopStep
  BY <1>2, NoExchangeStep, GetExchangeStep, HandlerStep, HandleQueueMsgStep,
     QueueEmptyStep, PendingAcksStep, SendAckStep, PurgeStep DEF LoopStep
<1>3. CASE \E e \in ExchIds : AckTimeout(e)
  BY <1>3, AckTimeoutStep
<1>4. CASE UNCHANGED vars
  BY <1>4 DEF vars, IInv, TypeOK, LoopShape, ExchangeOnItsSession, ServedInPlace, Live, This
<1> QED BY <1>1, <1>2, <1>3, <1>4 DEF Next

\* The inductive invariant holds in every state.
THEOREM Inductive == Spec => []IInv
BY InitIInv, NextIInv, PTL DEF Spec

\* The tables and the queue keep their types and never exceed their capacity,
\* whatever packets arrive.
THEOREM TypeCorrect == Spec => []TypeOK
<1>1. IInv => TypeOK BY DEF IInv
<1> QED BY <1>1, Inductive, PTL

\* No exchange is ever found on an empty slot or on another session than the
\* one it was opened on, although slots are reused.
THEOREM BoundToItsSession == Spec => []ExchangeOnItsSession
<1>1. IInv => ExchangeOnItsSession BY DEF IInv
<1> QED BY <1>1, Inductive, PTL

\* The session slot and the exchange a turn works on stay the ones of the packet
\* it began with.
THEOREM ServesItsPacket == Spec => []ServedInPlace
<1>1. IInv => ServedInPlace BY DEF IInv
<1> QED BY <1>1, Inductive, PTL

(***************************************************************************)
(* The proof that ExchangeMgr implements Conversations: each action of the *)
(* main loop is one step of the promise, or changes nothing it speaks of.  *)
(***************************************************************************)


\* Every place is on a slot or nowhere, and an exchange is held while it is live.
LEMMA HeldIsLive ==
  ASSUME TypeOK
  PROVE  /\ Promise!Held = Live
         /\ \A e \in Live : heldAt[e] = exchanges[e].slot
         /\ \A e \in ExchIds \ Live : heldAt[e] = MAX_SESSIONS
<1>1. \A e \in Live : exchanges[e].slot \in Slots BY LiveType DEF Exchange
<1>2. MAX_SESSIONS \notin Slots BY SessionTableAssumption DEF Slots
<1> QED BY <1>1, <1>2 DEF Promise!Held, heldAt, Live

\* Nothing is said and no one is there when the loop starts.
LEMMA InitRefines == Init => Promise!CInit
BY DEF Init, Promise!CInit, heldAt, Live

\* Steps after which every exchange is where it was.
LEMMA SamePlaces ==
  ASSUME IInv, Live' = Live, \A e \in Live : exchanges'[e].slot = exchanges[e].slot
  PROVE  heldAt' = heldAt
BY DEF heldAt

\* A slot is given to another session only after the exchanges on it are gone.
LEMMA ReplaceRefines ==
  ASSUME IInv, NEW i \in Slots, NEW s \in Session, Empty(sessions) = {},
         RemoveExchangesOn(i), sessions' = [sessions EXCEPT ![i] = s]
  PROVE  Promise!CNext
<1>1. \A r \in Slots : sessions[r] # NoSession BY DEF Empty
<1>2. /\ Live' = Live \ On(i)
      /\ \A e \in Live' : exchanges'[e] = exchanges[e] /\ exchanges[e].slot # i
  BY RemoveEffect DEF IInv
<1>3. heldAt' = [e \in ExchIds |-> IF heldAt[e] = i THEN MAX_SESSIONS ELSE heldAt[e]]
  <2>1. ASSUME NEW e \in ExchIds
        PROVE  (IF e \in Live' THEN exchanges'[e].slot ELSE MAX_SESSIONS)
                 = (IF heldAt[e] = i THEN MAX_SESSIONS ELSE heldAt[e])
    <3>1. CASE e \in Live' BY <1>2, <3>1 DEF heldAt
    <3>2. CASE e \in On(i) BY <1>2, <3>2 DEF heldAt, On
    <3>3. CASE e \notin Live BY <1>2, <3>3 DEF heldAt
    <3> QED BY <1>2, <3>1, <3>2, <3>3
  <2> QED BY <2>1 DEF heldAt
<1>4. Promise!Replace(i, s) BY <1>1, <1>3 DEF Promise!Replace
<1> QED BY <1>4 DEF Promise!CNext

\* A packet: nothing, an arrival or a replacement.
LEMMA RecvRefines ==
  ASSUME IInv, NEW m \in Packets,
         RecvOnSession(m) \/ RecvNewPeer(m) \/ RecvWhenFull(m)
  PROVE  Promise!CNext \/ UNCHANGED <<sessions, heldAt>>
<1>1. CASE RecvOnSession(m)
  BY <1>1 DEF RecvOnSession, exchVars, heldAt, Live
<1>2. PlainSession(m) \in Session /\ PlainSession(m) # NoSession
  BY PlainSessionType, PacketsAssumption
<1>3. CASE RecvNewPeer(m)
  <2> PICK i \in Slots : /\ IsFirst(i, Empty(sessions))
                         /\ sessions' = [sessions EXCEPT ![i] = PlainSession(m)]
    BY <1>3 DEF RecvNewPeer
  <2>1. sessions[i] = NoSession BY DEF IsFirst, Empty
  <2>2. heldAt' = heldAt BY <1>3 DEF RecvNewPeer, exchVars, heldAt, Live
  <2>3. Promise!Arrive(i, PlainSession(m)) BY <2>1, <2>2 DEF Promise!Arrive
  <2> QED BY <1>2, <2>3 DEF Promise!CNext
<1>4. CASE RecvWhenFull(m)
  <2>1. Empty(sessions) = {} BY <1>4 DEF RecvWhenFull
  <2> PICK i \in Slots :
        \/ EvictFails(i)
        \/ RemoveExchangesOn(i) /\ sessions' = [sessions EXCEPT ![i] = PlainSession(m)]
    BY <1>4 DEF RecvWhenFull
  <2>2. CASE EvictFails(i)
    <3>1. /\ Live' = Live /\ \A f \in Live : exchanges'[f].slot = exchanges[f].slot
          /\ UNCHANGED <<sessions, openedBy>>
      BY <2>2, EvictFailsEffect DEF IInv
    <3> QED BY <3>1, SamePlaces
  <2> QED BY <1>2, <2>1, <2>2, ReplaceRefines
<1> QED BY <1>1, <1>3, <1>4

\* An exchange begins on the session its packet came on, or goes on where it is.
LEMMA GetExchangeRefines ==
  ASSUME IInv, GetExchange
  PROVE  Promise!CNext \/ UNCHANGED <<sessions, heldAt>>
<1> DEFINE e == rx.exch
           x == IF e \in Live THEN exchanges[e] ELSE NewExchange(rx.slot)
           y == MrpRecv(x, rx)
<1>0. /\ pc = "exch" /\ Admissible(e, rx.slot)
      /\ exchanges' = [exchanges EXCEPT ![e] = y] /\ sessions' = sessions
  BY DEF GetExchange, sessVars
<1>1. TypeOK BY DEF IInv
<1>2. rx \in Received /\ e \in ExchIds /\ rx.slot \in Slots
  BY <1>0 DEF IInv, LoopShape, Received
<1>3. x \in Exchange /\ x.slot = rx.slot
  <2>1. NewExchange(rx.slot) \in Exchange /\ NewExchange(rx.slot).slot = rx.slot
    BY <1>2, SessionTableAssumption DEF NewExchange, Exchange
  <2>2. e \in Live => exchanges[e] \in Exchange /\ exchanges[e].slot = rx.slot
    BY <1>0, <1>1, LiveType DEF Admissible
  <2> QED BY <2>1, <2>2
<1>4. y \in Exchange /\ y.slot = rx.slot BY <1>2, <1>3, MrpRecvType
<1> HIDE DEF x, y
<1>5. Live' = Live \cup {e} BY <1>0, <1>1, <1>2, <1>4, LiveType DEF Live, TypeOK
<1>6. \A f \in Live : f # e => exchanges'[f] = exchanges[f] BY <1>0, <1>1 DEF TypeOK, Live
<1>7. exchanges'[e] = y BY <1>0, <1>1, <1>2 DEF TypeOK
<1>8. CASE e \in Live
  <2>1. Live' = Live BY <1>5, <1>8
  <2>2. \A f \in Live : exchanges'[f].slot = exchanges[f].slot
    BY <1>0, <1>4, <1>6, <1>7, <1>8 DEF Admissible
  <2> QED BY <1>0, <2>1, <2>2, SamePlaces
<1>9. CASE e \notin Live
  <2>1. heldAt' = [heldAt EXCEPT ![e] = rx.slot]
    BY <1>2, <1>4, <1>5, <1>6, <1>7, <1>9 DEF heldAt
  <2>2. sessions[rx.slot] # NoSession BY <1>0 DEF IInv, ServedInPlace
  <2>3. e \notin Promise!Held /\ Cardinality(Promise!Held) < MAX_EXCHANGES
    BY <1>0, <1>1, <1>9, HeldIsLive DEF Admissible
  <2>4. Promise!Cardinality(Promise!Held) = Cardinality(Promise!Held)
    BY DEF Promise!Cardinality, Cardinality
  <2>5. Promise!Begin(e, rx.slot) BY <1>0, <2>1, <2>2, <2>3, <2>4 DEF Promise!Begin
  <2> QED BY <1>2, <2>5 DEF Promise!CNext
<1> QED BY <1>8, <1>9

\* The queued session arrives, or replaces another, or is lost.
LEMMA HandleQueueMsgRefines ==
  ASSUME IInv, HandleQueueMsg
  PROVE  Promise!CNext \/ UNCHANGED <<sessions, heldAt>>
<1> PICK i \in Slots :
      \/ IsFirst(i, Empty(sessions)) /\ InstallAt(i) /\ UNCHANGED exchVars
      \/ Empty(sessions) = {} /\ (EvictFails(i) \/ (RemoveExchangesOn(i) /\ InstallAt(i)))
  BY DEF HandleQueueMsg
<1> DEFINE s == Head(workq)
<1>1. s \in Session
  <2>1. workq \in Seq(CloneData) /\ Len(workq) <= MAX_WORKQ BY DEF IInv, TypeOK
  <2>2. workq # <<>> BY DEF HandleQueueMsg
  <2>3. s \in Session /\ s # NoSession BY <2>1, <2>2, QueueShrinks
  <2> QED BY <2>3
<1>2. InstallAt(i) => sessions' = [sessions EXCEPT ![i] = s] BY DEF InstallAt
<1> HIDE DEF s
<1>3. CASE IsFirst(i, Empty(sessions)) /\ InstallAt(i) /\ UNCHANGED exchVars
  <2>1. sessions[i] = NoSession BY <1>3 DEF IsFirst, Empty
  <2>2. heldAt' = heldAt BY <1>3 DEF exchVars, heldAt, Live
  <2>3. Promise!Arrive(i, s) BY <1>2, <1>3, <2>1, <2>2 DEF Promise!Arrive
  <2> QED BY <1>1, <2>3 DEF Promise!CNext
<1>4. CASE EvictFails(i)
  <2>1. /\ Live' = Live /\ \A f \in Live : exchanges'[f].slot = exchanges[f].slot
        /\ UNCHANGED <<sessions, openedBy>>
    BY <1>4, EvictFailsEffect DEF IInv
  <2> QED BY <2>1, SamePlaces
<1>5. CASE Empty(sessions) = {} /\ RemoveExchangesOn(i) /\ InstallAt(i)
  BY <1>1, <1>2, <1>5, ReplaceRefines
<1> QED BY <1>3, <1>4, <1>5

\* Acknowledging and the clock leave every exchange where it is.
LEMMA AckRefines ==
  ASSUME IInv, NEW e \in ExchIds, SendAck(e) \/ AckTimeout(e)
  PROVE  UNCHANGED <<sessions, heldAt>>
<1>1. sessions' = sessions BY DEF SendAck, AckTimeout, sessVars
<1>2. e \in Live BY DEF SendAck, AckTimeout, IInv, LoopShape
<1>3. PICK a \in {"None", "late"} : exchanges' = [exchanges EXCEPT ![e].ack = a]
  BY DEF SendAck, AckTimeout
<1> DEFINE x == [exchanges[e] EXCEPT !.ack = a]
<1>4. x \in Exchange /\ x.slot = exchanges[e].slot BY <1>2, LiveType DEF IInv, Exchange
<1>5. exchanges' = [exchanges EXCEPT ![e] = x] BY <1>3
<1> HIDE DEF x
<1>6. Live' = Live /\ \A f \in Live : exchanges'[f].slot = exchanges[f].slot
  BY <1>2, <1>4, <1>5, UpdateEffect DEF IInv
<1> QED BY <1>1, <1>6, SamePlaces

\* The purge ends conversations.
LEMMA PurgeRefines ==
  ASSUME IInv, Purge
  PROVE  Promise!CNext
<1> DEFINE gone == {e \in Live : IsPurgeable(exchanges[e])}
<1>0. /\ exchanges' = [e \in ExchIds |-> IF e \in gone THEN NoExch ELSE exchanges[e]]
      /\ sessions' = sessions
  BY DEF Purge, sessVars
<1>1. gone \in SUBSET ExchIds BY DEF Live
<1> HIDE DEF gone
<1>2. heldAt' = [e \in ExchIds |-> IF e \in gone THEN MAX_SESSIONS ELSE heldAt[e]]
  BY <1>0 DEF heldAt, Live
<1>3. Promise!End(gone) BY <1>0, <1>2 DEF Promise!End
<1> QED BY <1>1, <1>3 DEF Promise!CNext

\* Every step of the transport is a step of the promise, or none.
LEMMA StepRefines == IInv /\ [Next]_vars => [Promise!CNext]_(Promise!cvars)
<1> SUFFICES ASSUME IInv, [Next]_vars
             PROVE  Promise!CNext \/ UNCHANGED <<sessions, heldAt>>
  BY DEF Promise!cvars
<1>1. CASE Recv BY <1>1, RecvRefines DEF Recv
<1>2. CASE HandleAck \/ HandleRequest \/ HandleSigma1
           \/ Sigma3Error \/ Sigma3Denied \/ Sigma3Success
           \/ PaseDisabled \/ PaseError \/ PbkdfBusy \/ PbkdfAccept
           \/ Pake1 \/ Pake3Denied \/ Pake3Success \/ SendResponse
  BY <1>2, HandlerStep
<1>3. CASE NoExchange \/ QueueEmpty \/ PendingAcks
  BY <1>3 DEF NoExchange, QueueEmpty, PendingAcks, sessVars, exchVars, heldAt, Live
<1>4. CASE \E e \in ExchIds : SendAck(e) \/ AckTimeout(e) BY <1>4, AckRefines
<1>5. CASE UNCHANGED vars BY <1>5 DEF vars, heldAt, Live
<1> QED
  BY <1>1, <1>2, <1>3, <1>4, <1>5, GetExchangeRefines, HandleQueueMsgRefines, PurgeRefines
     DEF Next, LoopStep

\* The transport keeps its promise: every exchange stays with the session it was
\* opened on, sessions leave their slot only with all their exchanges and only
\* when no slot is empty.
THEOREM Refinement == Spec => KeepsPromise
<1>1. Spec => []IInv BY Inductive
<1> QED BY <1>1, InitRefines, StepRefines, PTL DEF Spec, KeepsPromise, Promise!CSpec
=============================================================================
