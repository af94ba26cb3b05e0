------------------------------- MODULE Facade -------------------------------
(***************************************************************************)
(* A Ringpop instance (ringpop.go): it is bootstrapped, perhaps more than  *)
(* once, destroyed by another goroutine at any moment, and follows the     *)
(* changes of the membership with its ring and with the events it emits.   *)
(*                                                                         *)
(* Abstractions.  The node and the ring are reduced to what requests see   *)
(* of them (Join and HashRing have the rest): Bootstrap of the node may    *)
(* succeed or fail, and the ring is a set of servers, each at a fixed      *)
(* distance from each key.  A panic ends the process.                      *)
(***************************************************************************)
EXTENDS Integers, FiniteSets, Functions

CONSTANTS
  Server,     \* addresses
  Local,      \* the address of this instance
  Key,        \* keys of requests
  Distance    \* Distance[k][s]: how far clockwise from key k the first replica point of s is

ASSUME ServerAssumption ==
  /\ Local \in Server /\ IsFiniteSet(Server) /\ Key # {}
  /\ \A k \in Key : Distance[k] \in Injection(Server, Nat)

VARIABLES
  state,       \* rp.state
  node,        \* rp.node: is it made, ready, destroyed?
  boot,        \* the step Bootstrap takes next
  bootstraps,  \* bound: the calls of Bootstrap still to come
  destroy,     \* the step Destroy takes next
  ticking,     \* the timers run
  ring,        \* the servers of rp.ring
  change,      \* the change of the membership that is being made
  changes,     \* bound: the changes of the membership still to come
  emitted,     \* emitted[s]: the goroutines that tell the router that s is leaving or faulty
  crashed,     \* some goroutine has panicked
  revived      \* history: Bootstrap has set the state after Destroy did

lifecycle_vars == <<state, node, boot, bootstraps, destroy, ticking, revived>>
ring_vars == <<ring, change, changes>>
facade_vars == <<lifecycle_vars, ring_vars, emitted, crashed>>

NoChange == [server |-> Local, leaving |-> FALSE, step |-> "idle"]

FacadeInit(maxBootstraps, maxChanges) ==
  /\ state = "created"
  /\ node = [made |-> FALSE, ready |-> FALSE, destroyed |-> FALSE]
  /\ boot = "idle" /\ bootstraps = maxBootstraps /\ destroy = "idle"
  /\ ticking = FALSE
  /\ ring = {} /\ change = NoChange /\ changes = maxChanges
  /\ emitted = [s \in Server |-> 0]
  /\ crashed = FALSE /\ revived = FALSE

Ready == state = "ready" /\ node.ready

\* The servers of the ring that the search from the key meets before s.
Before(key, s) == {t \in ring : Distance[key][t] < Distance[key][s]}

\* ring.LookupN, as a set of servers: the first n, or all.
LookupN(key, n) == {s \in ring : Cardinality(Before(key, s)) < n}

\* What rp.Lookup answers: the owner of the key, or nothing (an error).
Lookup(key) == IF Ready THEN LookupN(key, 1) ELSE {}
-----------------------------------------------------------------------------
\* rp.setState by Bootstrap.
SetState(s) == state' = s /\ revived' = (revived \/ destroy = "done")

\* Bootstrap initializes an instance that is in no later state than created.
Bootstrap ==
  /\ boot = "idle" /\ bootstraps > 0
  /\ bootstraps' = bootstraps - 1
  /\ boot' = IF state = "created" THEN "init" ELSE "identity"
  /\ UNCHANGED <<state, node, destroy, ticking, revived, ring_vars, emitted, crashed>>

\* The address cannot be resolved yet: Bootstrap returns the error.
NoIdentity ==
  /\ boot \in {"init", "identity"}
  /\ boot' = "idle"
  /\ UNCHANGED <<state, node, bootstraps, destroy, ticking, revived, ring_vars, emitted, crashed>>

\* init makes the node, the ring and the timers, ...
MakeNode ==
  /\ boot = "init"
  /\ node' = [made |-> TRUE, ready |-> FALSE, destroyed |-> FALSE]
  /\ ticking' = TRUE
  /\ ring' = {}
  /\ boot' = "made"
  /\ UNCHANGED <<state, bootstraps, destroy, revived, change, changes, emitted, crashed>>

\* ... and sets the state.
SetInitialized ==
  /\ boot = "made"
  /\ SetState("initialized")
  /\ boot' = "identity"
  /\ UNCHANGED <<node, bootstraps, destroy, ticking, ring_vars, emitted, crashed>>

\* node.Bootstrap of an instance that was destroyed before it had a node.
NodeMissing ==
  /\ boot = "identity" /\ ~node.made
  /\ crashed' = TRUE
  /\ UNCHANGED <<lifecycle_vars, ring_vars, emitted>>

\* node.Bootstrap makes the node alive and joins it, which fills the ring unless the node is
\* stopped, and sets node.state.ready; or it fails, before or after the first changes.
NodeBootstrap ==
  /\ boot = "identity" /\ node.made
  /\ \/ boot' = "joined" /\ node' = [node EXCEPT !.ready = TRUE]
     \/ boot' = "failed" /\ UNCHANGED node
  /\ \/ (node.destroyed \/ boot' = "failed") /\ UNCHANGED ring
     \/ ~node.destroyed /\ \E learned \in SUBSET Server : ring' = ring \cup {Local} \cup learned
  /\ UNCHANGED <<state, bootstraps, destroy, ticking, revived, change, changes, emitted, crashed>>

EndBootstrap ==
  /\ boot \in {"joined", "failed"}
  /\ SetState(IF boot = "joined" THEN "ready" ELSE "initialized")
  /\ boot' = "idle"
  /\ UNCHANGED <<node, bootstraps, destroy, ticking, ring_vars, emitted, crashed>>

\* Destroy, in another goroutine, destroys the node if there is one and stops the timers, ...
DestroyNode ==
  /\ destroy = "idle"
  /\ node' = [node EXCEPT !.destroyed = node.made]
  /\ ticking' = FALSE
  /\ destroy' = "stopped"
  /\ UNCHANGED <<state, boot, bootstraps, revived, ring_vars, emitted, crashed>>

\* Mutant: Destroy sets the state only of an instance that has no node.
SetDestroyedIfNoNode ==
  /\ destroy = "stopped"
  /\ state' = IF node.made THEN state ELSE "destroyed"
  /\ destroy' = "done"
  /\ UNCHANGED <<node, boot, bootstraps, ticking, revived, ring_vars, emitted, crashed>>

\* ... and then sets the state.
SetDestroyed ==
  /\ destroy = "stopped"
  /\ state' = "destroyed"
  /\ destroy' = "done"
  /\ UNCHANGED <<node, boot, bootstraps, ticking, revived, ring_vars, emitted, crashed>>
-----------------------------------------------------------------------------
\* The memberlist of a node that is not stopped tells its listeners of a change it received:
\* the router hears of it in a goroutine of its own.
ReceiveChange(s, leaving) ==
  /\ node.made /\ ~node.destroyed /\ change.step = "idle" /\ changes > 0
  /\ changes' = changes - 1
  /\ change' = [server |-> s, leaving |-> leaving, step |-> "received"]
  /\ emitted' = [emitted EXCEPT ![s] = @ + IF leaving THEN 1 ELSE 0]
  /\ UNCHANGED <<lifecycle_vars, ring, crashed>>

\* The change is applied, and handleChanges brings it to the ring.
ApplyChange ==
  /\ change.step = "received"
  /\ ring' = IF change.leaving THEN ring \ {change.server} ELSE ring \cup {change.server}
  /\ change' = NoChange
  /\ UNCHANGED <<lifecycle_vars, changes, emitted, crashed>>

\* The change overrides nothing.
IgnoreChange ==
  /\ change.step = "received"
  /\ change' = NoChange
  /\ UNCHANGED <<lifecycle_vars, ring, changes, emitted, crashed>>

BootstrapStep ==
  Bootstrap \/ NoIdentity \/ MakeNode \/ SetInitialized \/ NodeMissing \/ NodeBootstrap \/ EndBootstrap

FacadeNext ==
  \/ BootstrapStep \/ DestroyNode \/ SetDestroyed
  \/ \E s \in Server, leaving \in BOOLEAN : ReceiveChange(s, leaving)
  \/ ApplyChange \/ IgnoreChange
-----------------------------------------------------------------------------
\* An instance that Destroy has shut down answers lookups only if Bootstrap, called before
\* or after, has set its state since.
DestroyedServesOnlyIfRevived ==
  Ready /\ destroy = "done" => revived
=============================================================================
