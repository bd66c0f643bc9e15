---------------------------- MODULE Conversations ----------------------------
(***************************************************************************)
(* What the transport promises to the protocols above it: a bounded number *)
(* of peers in places, and conversations (the exchanges) each of which     *)
(* stays with the peer it began with.  A peer leaves its place only with   *)
(* all its conversations, and only when the place is needed for another.   *)
(* How packets, acknowledgements and handlers bring this about is left to  *)
(* ExchangeMgr, which implements this specification.                       *)
(***************************************************************************)
EXTENDS Naturals, FiniteSets

CONSTANTS
  Places,      (* where a peer can be                                      *)
  Peers,       (* what identifies a peer                                   *)
  NoPeer,      (* an empty place                                           *)
  Names,       (* the names of conversations                               *)
  Capacity,    (* the greatest number of conversations at one time         *)
  NoPlace      (* a conversation that does not take place                  *)

VARIABLES
  peer,        (* who is in each place                                     *)
  at           (* the place each conversation is held at                   *)

cvars == <<peer, at>>

Held == {c \in Names : at[c] # NoPlace}

CInit ==
  /\ peer = [p \in Places |-> NoPeer]
  /\ at = [c \in Names |-> NoPlace]

Arrive(p, q) ==
  /\ peer[p] = NoPeer
  /\ peer' = [peer EXCEPT ![p] = q]
  /\ UNCHANGED at

\* There is no room left: one peer goes, and what it was talking about with it.
Replace(p, q) ==
  /\ \A r \in Places : peer[r] # NoPeer
  /\ peer' = [peer EXCEPT ![p] = q]
  /\ at' = [c \in Names |-> IF at[c] = p THEN NoPlace ELSE at[c]]

Begin(c, p) ==
  /\ peer[p] # NoPeer
  /\ c \notin Held /\ Cardinality(Held) < Capacity
  /\ at' = [at EXCEPT ![c] = p]
  /\ UNCHANGED peer

End(C) ==
  /\ at' = [c \in Names |-> IF c \in C THEN NoPlace ELSE at[c]]
  /\ UNCHANGED peer

CNext ==
  \/ \E p \in Places, q \in Peers : Arrive(p, q) \/ Replace(p, q)
  \/ \E c \in Names, p \in Places : Begin(c, p)
  \/ \E C \in SUBSET Names : End(C)

CSpec == CInit /\ [][CNext]_cvars
=============================================================================
