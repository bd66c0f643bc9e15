---------------------------- MODULE SessionTable ----------------------------
(***************************************************************************)
(* The session table of transport/session.rs as data: what one slot of     *)
(* SessionMgr.sessions holds, how a received packet is matched to a slot,  *)
(* which slot is empty, which is least recently used, and how a local      *)
(* session id is chosen.  The state machine that uses the table is in      *)
(* ExchangeMgr.                                                            *)
(*                                                                         *)
(* Keys and message counters are left out.  last_use is a rank: the slots  *)
(* ordered by the time of their last use, 1 for the one used longest ago.  *)
(* Two uses are taken never to share one SystemTime.                       *)
(***************************************************************************)
EXTENDS Integers, FiniteSets

CONSTANTS
  Addrs,          (* peer socket addresses                                 *)
  Nodes,          (* node ids a packet or a certificate can carry          *)
  NoNode,         (* "the packet names no source node" (Option::None)      *)
  MAX_SESSIONS,   (* session.rs: 16                                        *)
  MaxSessId,      (* session.rs: 65535, the largest u16                    *)
  NoSession       (* an empty slot (Option::None)                          *)

ASSUME SessionTableAssumption ==
  /\ MAX_SESSIONS \in Nat \ {0}
  /\ MaxSessId \in Nat /\ MaxSessId > MAX_SESSIONS
  /\ NoNode \notin Nodes

Slots   == 0 .. MAX_SESSIONS - 1
SessIds == 1 .. MaxSessId          \* 0 is the id of an unsecured session

\* SessionMode::Case(fabric) and Pase differ from PlainText in being encrypted.
Modes == {"PlainText", "Case", "Pase"}

Session == [addr : Addrs, node : Nodes \cup {NoNode}, id : 0 .. MaxSessId, mode : Modes]

ASSUME NoSessionAssumption == NoSession \notin Session

IsEncrypted(s) == s.mode # "PlainText"

(***************************************************************************)
(* Whether session s is the one a packet m belongs to.  The header says a  *)
(* packet is encrypted exactly when its session id is not 0.               *)
(***************************************************************************)
MatchesBug(s, m) ==     \* whatever address the packet comes from
  s # NoSession /\ s.id = m.id

Matches(s, m) ==
  /\ s # NoSession
  /\ s.id = m.id
  /\ s.addr = m.addr
  /\ IsEncrypted(s) <=> m.id # 0
  /\ s.node = m.node \/ NoNode \in {s.node, m.node}

Occupied(T)  == {i \in Slots : T[i] # NoSession}
Empty(T)     == {i \in Slots : T[i] = NoSession}
Lookup(T, m) == {i \in Slots : Matches(T[i], m)}

\* Iterator::position: the lowest index of a set of slots.
IsFirst(i, S) == i \in S /\ \A j \in S : i <= j

\* The session a plain packet opens: Session::new(peer_addr, peer_nodeid).
PlainSession(m) == [addr |-> m.addr, node |-> m.node, id |-> 0, mode |-> "PlainText"]

(***************************************************************************)
(* Least recent use.                                                       *)
(***************************************************************************)
Ranks == 1 .. MAX_SESSIONS

\* `last_use = SystemTime::now()` on slot i: i becomes the youngest, the slots
\* younger than i move down one rank.
Touch(rank, i) ==
  [j \in Slots |-> IF j = i THEN MAX_SESSIONS
                   ELSE IF rank[j] > rank[i] THEN rank[j] - 1
                   ELSE rank[j]]

IsLru(T, rank, i) ==
  /\ i \in Occupied(T)
  /\ \A j \in Occupied(T) : rank[i] <= rank[j]

(***************************************************************************)
(* Local session ids.  The loop of get_next_sess_id tries the ids from     *)
(* next on, skipping 0 at the wrap, until it finds one no session uses.    *)
(***************************************************************************)
SuccId(k) == IF k = MaxSessId THEN 1 ELSE k + 1

InUse(T, k) == \E i \in Occupied(T) : T[i].id = k

TriedBefore(next, k) ==
  IF next <= k THEN next .. (k - 1) ELSE (next .. MaxSessId) \cup (1 .. (k - 1))

IsNextId(T, next, k) ==
  /\ k \in SessIds
  /\ ~ InUse(T, k)
  /\ \A j \in TriedBefore(next, k) : InUse(T, j)
=============================================================================
