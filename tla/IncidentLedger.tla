--------------------------- MODULE IncidentLedger ---------------------------
(***************************************************************************)
(* What the incident service promises its callers, without snapshots or    *)
(* clients: every incident has one status that only moves along the        *)
(* permitted transitions, and an audit trail that only grows.              *)
(***************************************************************************)
EXTENDS IncidentDomain

VARIABLES status,   \* status of each incident, "absent" when not stored
          trail     \* its audit trail

ledgerVars == <<status, trail>>

LedgerInit == /\ status = [id \in Ids |-> "absent"]
              /\ trail  = [id \in Ids |-> <<>>]

(* The trail of id gains exactly one event, e, at its end. *)
Gains(id, e) == /\ trail'[id] # <<>>
                /\ trail' = [trail EXCEPT ![id] = Append(@, e)]

Newest(id) == trail'[id][Len(trail'[id])]

Open(id) ==
    /\ status[id] = "absent" /\ trail[id] = <<>>
    /\ status' = [status EXCEPT ![id] = "triggered"]
    /\ UNCHANGED trail

(* A status change and its event are one step. *)
Move(id) ==
    /\ status[id] \in Status
    /\ \E to \in Status :
          /\ CanTransitionTo(status[id], to)
          /\ status' = [status EXCEPT ![id] = to]
          /\ Gains(id, Newest(id))
          /\ Newest(id).source = "transition" /\ Newest(id).to = to

Record(id) ==
    /\ status[id] \in Status
    /\ Gains(id, Newest(id))
    /\ Newest(id).source # "transition"
    /\ UNCHANGED status

Remove(id) ==
    /\ status[id] \in Status
    /\ status' = [status EXCEPT ![id] = "absent"]
    /\ trail'  = [trail EXCEPT ![id] = <<>>]

LedgerNext == \E id \in Ids : Open(id) \/ Move(id) \/ Record(id) \/ Remove(id)

LedgerSpec == LedgerInit /\ [][LedgerNext]_ledgerVars

=============================================================================
