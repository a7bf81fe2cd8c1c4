--------------------------- MODULE MentionDelivery --------------------------
(***************************************************************************)
(* What the collection pipeline promises, without streams, replicas or     *)
(* batches: mentions are collected, a collected mention is stored at most  *)
(* once, only stored mentions become searchable, and a mention the         *)
(* pipeline gives up on is kept in a dead-letter queue.                    *)
(*                                                                         *)
(* There is no code for this module: it is the specification the services  *)
(* are checked against (MentionPipeline).                                  *)
(***************************************************************************)
EXTENDS Sequences, Naturals

CONSTANT Mentions

VARIABLES
    collected,      \* mentions collected so far
    stored,         \* mentions stored, in the order they were
    searchable,     \* mentions a search can return
    deadLettered    \* mentions kept for an operator

deliveryVars == <<collected, stored, searchable, deadLettered>>

InStore == {stored[i] : i \in DOMAIN stored}

DeliveryInit ==
    /\ collected = {}
    /\ stored = << >>
    /\ searchable = {}
    /\ deadLettered = {}

CollectMentions(ms) ==
    /\ collected' = collected \cup ms
    /\ UNCHANGED <<stored, searchable, deadLettered>>

StoreMention(m) ==
    /\ m \in collected
    /\ m \notin InStore
    /\ stored' = Append(stored, m)
    /\ UNCHANGED <<collected, searchable, deadLettered>>

MakeSearchable(m) ==
    /\ m \in InStore
    /\ searchable' = searchable \cup {m}
    /\ UNCHANGED <<collected, stored, deadLettered>>

GiveUp(m) ==
    /\ m \in collected
    /\ deadLettered' = deadLettered \cup {m}
    /\ UNCHANGED <<collected, stored, searchable>>

DeliveryNext ==
    \/ \E ms \in SUBSET Mentions : CollectMentions(ms)
    \/ \E m \in Mentions : StoreMention(m) \/ MakeSearchable(m) \/ GiveUp(m)

DeliverySpec == DeliveryInit /\ [][DeliveryNext]_deliveryVars

(* A collected mention is not forgotten.                                   *)
Settled(m) == m \in InStore \cup deadLettered

Delivered == \A m \in Mentions : m \in collected ~> Settled(m)

(* "Store an analyzed mention in PostgreSQL and OpenSearch"                *)
(* (query_service/app/main.py:77): what is stored becomes searchable.      *)
Searchable == \A m \in Mentions : m \in InStore ~> m \in searchable

=============================================================================
