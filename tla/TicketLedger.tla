---------------------------- MODULE TicketLedger ----------------------------
(***************************************************************************)
(* What the ticket collection promises, whoever works on it and however    *)
(* their database round trips interleave: a ticket is issued once, what it *)
(* was issued with never changes, and a redemption is recorded and never   *)
(* taken back.  A recorded redemption may be recorded again, by another    *)
(* request, only by a member of Rerecorders; with Rerecorders = {} this is *)
(* the strict promise of README.md:59-60, one redemption per ticket.       *)
(***************************************************************************)
CONSTANTS
    TicketIds,      \* the primary keys MongoDB may ever hand out
    Issues,         \* what a ticket can be issued with: code, owner, issuer
    Redemptions,    \* the redemption details that can be recorded
    Rerecorders,    \* the redemptions that may replace an earlier one
    None            \* an absent document or field

VARIABLES
    issue,          \* [TicketIds -> Issues \cup {None}]
    redemption      \* [TicketIds -> Redemptions \cup {None}]

vars == <<issue, redemption>>

CodesInUse == {issue[t].code : t \in {u \in TicketIds : issue[u] # None}}

Init ==
    /\ issue = [t \in TicketIds |-> None]
    /\ redemption = [t \in TicketIds |-> None]

(* A blank primary key receives a ticket whose code nobody else has.       *)
Issue(t, i) ==
    /\ issue[t] = None
    /\ i.code \notin CodesInUse
    /\ issue' = [issue EXCEPT ![t] = i]
    /\ UNCHANGED redemption

(* The first redemption of an issued ticket.                               *)
Redeem(t, x) ==
    /\ issue[t] # None
    /\ redemption[t] = None
    /\ redemption' = [redemption EXCEPT ![t] = x]
    /\ UNCHANGED issue

(* A later redemption replaces the recorded one.                           *)
Rerecord(t, x) ==
    /\ redemption[t] # None
    /\ x \in Rerecorders
    /\ redemption' = [redemption EXCEPT ![t] = x]
    /\ UNCHANGED issue

Next ==
    \E t \in TicketIds :
        \/ \E i \in Issues : Issue(t, i)
        \/ \E x \in Redemptions : Redeem(t, x) \/ Rerecord(t, x)

Spec == Init /\ [][Next]_vars
=============================================================================
