----------------------------- MODULE DeliveryLog -----------------------------
(***************************************************************************)
(* What the ingestion worker promises of a webhook delivery, with no       *)
(* tasks, workers, retries or calls: it is recorded at most once, its row  *)
(* is stored at most once and only while it is recorded and not settled,   *)
(* and it is settled at most once, as processed only if the row it is to   *)
(* make is there.                                                          *)
(*                                                                         *)
(* A delivery may stay recorded for ever, when its worker died or its      *)
(* result was not saved, and one that failed may have a row.               *)
(***************************************************************************)
CONSTANTS
    Deliveries,
    Makes,      \* the deliveries that are to make a row
    Ids,        \* the keys of the rows
    NoValue

VARIABLES
    log,     \* what is recorded of each delivery
    source   \* the delivery the row of each key came from

Init ==
    /\ log = [d \in Deliveries |-> "absent"]
    /\ source = [id \in Ids |-> NoValue]

Record(d) ==
    /\ log[d] = "absent"
    /\ log' = [log EXCEPT ![d] = "recorded"]
    /\ UNCHANGED source

HasRow(d) == \E id \in Ids : source[id] = d

Store(d, id) ==
    /\ log[d] = "recorded" /\ d \in Makes /\ ~HasRow(d)
    /\ source[id] = NoValue
    /\ source' = [source EXCEPT ![id] = d]
    /\ UNCHANGED log

Settle(d, result) ==
    /\ log[d] = "recorded"
    /\ result = "processed" /\ d \in Makes => HasRow(d)
    /\ log' = [log EXCEPT ![d] = result]
    /\ UNCHANGED source

Next == \E d \in Deliveries :
    \/ Record(d)
    \/ \E id \in Ids : Store(d, id)
    \/ \E result \in {"processed", "failed"} : Settle(d, result)

Spec == Init /\ [][Next]_<<log, source>>
=============================================================================
