-------------------------- MODULE MCCommissioning --------------------------
(***************************************************************************)
(* Commissioning on an instance small enough for TLC.                      *)
(***************************************************************************)
EXTENDS Commissioning, TLC

CONSTANTS s1, s2, r1, r2

Request(form, root) == [form |-> form, root |-> root, node |-> 1]

\* Requests of each kind, good and not, for each root.
MCAddNocRequests ==
  {Request(form, root) : form \in {"good", "unparsable", "no_ids", "short_ipk"},
                         root \in {r1, r2}}

MCSymmetry == Permutations({s1, s2}) \cup Permutations({r1, r2})
=============================================================================
