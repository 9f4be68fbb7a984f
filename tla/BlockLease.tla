------------------------------ MODULE BlockLease ------------------------------
(***************************************************************************)
(* What the enforcement of blocks promises, whatever coroutine carries it  *)
(* out: an address is in the proxy only on the strength of an open lease,  *)
(* and a lease is closed only when its address is out of the proxy.        *)
(* Enforcement implements this specification.                              *)
(***************************************************************************)
CONSTANTS Ids,   \* identities of recorded responses
          Addrs  \* addresses the proxy can block

VARIABLES
  used,    \* ids recorded so far
  open,    \* leases not yet closed: pairs of an id and an address
  entries  \* addresses the proxy blocks

vars == <<used, open, entries>>

Lease(id, a) == [id |-> id, addr |-> a]

Init == used = {} /\ open = {} /\ entries = {}

\* A block is intended; the address need not be one the proxy accepts.
Grant(id, a) ==
  /\ id \notin used
  /\ used' = used \cup {id}
  /\ open' = open \cup {Lease(id, a)}
  /\ UNCHANGED entries

\* A response that blocks nothing.
Record(id) ==
  /\ id \notin used
  /\ used' = used \cup {id}
  /\ UNCHANGED <<open, entries>>

Enforce(a) ==
  /\ \E l \in open : l.addr = a
  /\ entries' = entries \cup {a}
  /\ UNCHANGED <<used, open>>

Lift(a) == entries' = entries \ {a} /\ UNCHANGED <<used, open>>

\* The proxy forgets everything.
Forget == entries' = {} /\ UNCHANGED <<used, open>>

Close(l) ==
  /\ l \in open
  /\ l.addr \notin entries
  /\ open' = open \ {l}
  /\ UNCHANGED <<used, entries>>

Next ==
  \/ \E id \in Ids : Record(id) \/ \E a \in Addrs : Grant(id, a)
  \/ \E a \in Addrs : Enforce(a) \/ Lift(a)
  \/ Forget
  \/ \E l \in open : Close(l)

Spec == Init /\ [][Next]_vars
=============================================================================
