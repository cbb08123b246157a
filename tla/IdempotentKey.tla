---------------------------- MODULE IdempotentKey ----------------------------
(***************************************************************************)
(* What an idempotency key promises to those who call a tool with it, with *)
(* no word of claims, leases, attempts or processes.  The first call binds *)
(* the key to what it asks for.  While the key is open somebody may settle *)
(* it with a result, or seal it because nobody can tell any more what      *)
(* happened; either is for good.  A call that is told of success is told   *)
(* the one result of its key, and only if it asked for the same thing.     *)
(***************************************************************************)
CONSTANTS
  Clients,  \* calls; a result is named by the call that produced it
  Ids,      \* keys
  Demands,  \* what a call can ask for
  Unbound,  \* no demand
  Failure   \* the reply that is no result

VARIABLES
  bound,    \* per key: the demand it is bound to, or Unbound
  fate,     \* per key: "open", "sealed" or "settled"
  product,  \* per key: the results it is settled with, at most one
  replies   \* the replies given: client, key, demand, and a client or Failure

keyVars == <<bound, fate, product, replies>>

Init ==
  /\ bound = [k \in Ids |-> Unbound]
  /\ fate = [k \in Ids |-> "open"]
  /\ product = [k \in Ids |-> {}]
  /\ replies = {}

Bind(k, d) ==
  /\ bound[k] = Unbound
  /\ bound' = [bound EXCEPT ![k] = d]
  /\ UNCHANGED <<fate, product, replies>>

Settle(k, c) ==
  /\ fate[k] = "open" /\ bound[k] # Unbound
  /\ fate' = [fate EXCEPT ![k] = "settled"]
  /\ product' = [product EXCEPT ![k] = {c}]
  /\ UNCHANGED <<bound, replies>>

Seal(k) ==
  /\ fate[k] = "open" /\ bound[k] # Unbound
  /\ fate' = [fate EXCEPT ![k] = "sealed"]
  /\ UNCHANGED <<bound, product, replies>>

Reply(c, k, d, r) ==
  /\ r # Failure => bound[k] = d /\ product[k] = {r}
  /\ replies' =
       replies \cup {[client |-> c, id |-> k, demand |-> d, result |-> r]}
  /\ UNCHANGED <<bound, fate, product>>

Next ==
  \E k \in Ids :
    \/ Seal(k)
    \/ \E d \in Demands : Bind(k, d)
    \/ \E c \in Clients : Settle(k, c)
    \/ \E c \in Clients, d \in Demands, r \in Clients \cup {Failure} :
         Reply(c, k, d, r)

Spec == Init /\ [][Next]_keyVars

=============================================================================
