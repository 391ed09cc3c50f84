------------------------------ MODULE Services ------------------------------
(***************************************************************************)
(* Parts of the server that run next to each other over one database:      *)
(* GitEvents, TicketLinks, Storage and Accounts.  They share no variable:  *)
(* a step is a step of one of them.                                        *)
(***************************************************************************)
EXTENDS GitEvents, TicketLinks, Storage, Accounts

vars == <<gitVars, ticketVars, storageVars, accountVars>>

ServicesInit ==
    /\ \E p \in Payloads, s \in {"received", "idle"} : GitInit(p, s)
    /\ \E ts \in SUBSET Tasks, rs \in SUBSET Requests : TicketsInit(ts, rs)
    /\ \E active \in SUBSET Sessions : StorageInit(active)
    /\ \E active \in SUBSET AccountCalls : AccountsInit(active)

Next ==
    \/ GitNext /\ UNCHANGED <<ticketVars, storageVars, accountVars>>
    \/ TicketsNext /\ UNCHANGED <<gitVars, storageVars, accountVars>>
    \/ StorageNext /\ UNCHANGED <<gitVars, ticketVars, accountVars>>
    \/ AccountsNext /\ UNCHANGED <<gitVars, ticketVars, storageVars>>

ServicesSpec == ServicesInit /\ [][Next]_vars /\ TicketsFairness
=============================================================================
