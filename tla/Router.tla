------------------------------- MODULE Router -------------------------------
(***************************************************************************)
(* The router of clients (router/router.go): a cache with one client for   *)
(* each destination, from which the events of the membership remove the    *)
(* clients of servers that leave.  Those events come in goroutines of      *)
(* their own, before the ring has changed or after.                        *)
(***************************************************************************)
EXTENDS Forwarder

VARIABLES
  cache,    \* clientCache: the destinations that have a client
  lookup,   \* lookup[g]: GetClient of goroutine g
  made,     \* history: made[d] counts the clients made for d
  removals  \* history: removals[d] counts the calls of removeClient(d)

router_vars == <<cache, lookup, made, removals>>

\* pc: "none", "read" the cache, "make" under the write lock, "done".
RouterInit ==
  /\ cache = {}
  /\ lookup = [g \in Goroutine |-> [pc |-> "none", dest |-> Local]]
  /\ made = [d \in Server |-> 0] /\ removals = [d \in Server |-> 0]

Return(g) == lookup' = [lookup EXCEPT ![g].pc = "done"]

GetClient(g, k) ==
  /\ lookup[g].pc = "none"
  /\ \/ Lookup(k) = {} /\ Return(g)
     \/ \E d \in Lookup(k) : lookup' = [lookup EXCEPT ![g] = [pc |-> "read", dest |-> d]]
  /\ UNCHANGED <<facade_vars, forward_vars, cache, made, removals>>

ReadCache(g) ==
  /\ lookup[g].pc = "read"
  /\ lookup' = [lookup EXCEPT ![g].pc = IF lookup[g].dest \in cache THEN "done" ELSE "make"]
  /\ UNCHANGED <<facade_vars, forward_vars, cache, made, removals>>

\* Mutant: the cache is not read again under the write lock.
CachedBlindly(d) == FALSE

Cached(d) == d \in cache

\* Under the write lock: the client may have been made meanwhile, and WhoAmI may fail.
MakeClient(g) ==
  LET d == lookup[g].dest
  IN  /\ lookup[g].pc = "make"
      /\ Return(g)
      /\ IF Cached(d) \/ ~Ready THEN UNCHANGED <<cache, made>>
         ELSE cache' = cache \cup {d} /\ made' = [made EXCEPT ![d] = @ + 1]
      /\ UNCHANGED <<facade_vars, forward_vars, removals>>

\* HandleEvent of the router, for a server that is leaving or faulty.
RemoveClient(d) ==
  /\ emitted[d] > 0
  /\ emitted' = [emitted EXCEPT ![d] = @ - 1]
  /\ cache' = cache \ {d}
  /\ removals' = [removals EXCEPT ![d] = @ + 1]
  /\ UNCHANGED <<lifecycle_vars, ring_vars, crashed, forward_vars, lookup, made>>

RouterStep(g) == (\E k \in Key : GetClient(g, k)) \/ ReadCache(g) \/ MakeClient(g)
-----------------------------------------------------------------------------
\* All callers of GetClient share one client for each destination, however they interleave:
\* a second one is made only after the first was removed.
OneClientPerDestination ==
  \A d \in Server : made[d] <= removals[d] + 1
=============================================================================
