------------------------------- MODULE Member -------------------------------
(***************************************************************************)
(* Members, changes and the order in which knowledge about a member is     *)
(* superseded (swim/member.go).  A member is [incarnation, status]; a      *)
(* change also says which node it came from.  Addresses are the keys of    *)
(* the maps that hold them.                                                *)
(***************************************************************************)
EXTENDS Integers

Alive == "alive"
Suspect == "suspect"
Faulty == "faulty"
Leave == "leave"
Status == {Alive, Suspect, Faulty, Leave}

MemberRecord == [incarnation : Nat, status : Status]

\* The changes the nodes of S can be the source of (swim/member.go, Change).
ChangeRecord(S) ==
  [source : S, sourceIncarnation : Int, incarnation : Nat, status : Status]

statePrecedence(s) ==
  CASE s = Alive -> 0 [] s = Suspect -> 1 [] s = Faulty -> 2 [] s = Leave -> 3

\* Mutant: the status decides before the incarnations are known to be equal.
nonLocalOverrideByStatus(m, c) ==
  \/ c.incarnation > m.incarnation
  \/ statePrecedence(c.status) > statePrecedence(m.status)

\* Does change c supersede member m (both about the same address)?
nonLocalOverride(m, c) ==
  \/ c.incarnation > m.incarnation
  \/ /\ c.incarnation = m.incarnation
     /\ statePrecedence(c.status) > statePrecedence(m.status)

\* Mutant: only suspicions are refuted.
localOverrideSuspectOnly(address, local, c) ==
  address = local /\ c.status = Suspect

\* Must the node `local` refute change c about `address`?
localOverride(address, local, c) ==
  address = local /\ c.status \in {Faulty, Suspect}

isReachable(m) == m.status \in {Alive, Suspect}

AsMember(c) == [incarnation |-> c.incarnation, status |-> c.status]
=============================================================================
