---------------------------- MODULE TicketViews ----------------------------
(***************************************************************************)
(* The pages an administrator finds tickets with: the list of owners       *)
(* (view_owners.py), made by one query for the accounts, one query per     *)
(* account for its label, and one query for the owners without an account; *)
(* and the page of one owner (view_owner_tickets.py), reached from an      *)
(* entry of that list, with its link to the PDF of the same tickets        *)
(* (print_tickets.py).  Meanwhile tickets are issued and redeemed as       *)
(* TicketLedger allows, which TicketDesk implements.                       *)
(***************************************************************************)
EXTENDS FiniteSets

CONSTANTS TicketIds, Issues, Redemptions, Rerecorders, None,
    Accounts,       \* ids of users
    Names           \* display names

(* issued_to of a ticket: an account with the name it had when the ticket  *)
(* was issued, or a name only.                                             *)
ASSUME IssuesAssumption ==
    /\ Issues \subseteq [code : TicketIds, owner : Accounts \cup {None},
                         name : Names]
    /\ None \notin Accounts \cup Issues \cup Redemptions

VARIABLES
    issue, redemption,  \* the ticket collection
    pc,                 \* what the administrator is looking at
    left,               \* accounts of the list still without a label
    entries,            \* the entries of the list of owners: which link,
                        \* to whose tickets, under which label
    shown,              \* the tickets on the page of an owner
    printed,            \* the tickets in the PDF
    before              \* history: tickets active when the list was begun

page == <<pc, left, entries, shown, printed, before>>
vars == <<issue, redemption, page>>

Ledger == INSTANCE TicketLedger

Active(t) == issue[t] # None /\ redemption[t] = None

OfAccount(u) == {t \in TicketIds : Active(t) /\ issue[t].owner = u}

(* Mutant: the query does not ask for issued_to__id=None.                  *)
OfNameAnyOwner(n) == {t \in TicketIds : Active(t) /\ issue[t].name = n}

OfName(n) ==
    {t \in TicketIds :
        Active(t) /\ issue[t].owner = None /\ issue[t].name = n}

(* The query behind the link of an entry.                                  *)
Query(e) == IF e.by = "user_id" THEN OfAccount(e.key) ELSE OfName(e.key)

Init ==
    /\ Ledger!Init
    /\ pc = "start"
    /\ left = {} /\ entries = {} /\ shown = {} /\ printed = {} /\ before = {}

OwnersBegin ==
    /\ pc \in {"start", "owners", "owner"}
    /\ left' = {u \in Accounts : OfAccount(u) # {}}
    /\ entries' = {}
    /\ before' = {t \in TicketIds : Active(t)}
    /\ pc' = "listing"
    /\ UNCHANGED <<issue, redemption, shown, printed>>

(* Mutant: the sample is looked for among all tickets.                     *)
OwnersSampleAny ==
    /\ pc = "listing"
    /\ \E u \in left, t \in TicketIds :
        /\ Active(t)
        /\ left' = left \ {u}
        /\ entries' = entries \cup
             {[by |-> "user_id", key |-> u, label |-> issue[t].name]}
    /\ UNCHANGED <<issue, redemption, pc, shown, printed, before>>

(* The label is the name on the first ticket found, or the id when the     *)
(* account has no active ticket any more.                                  *)
OwnersSample ==
    /\ pc = "listing"
    /\ \E u \in left :
        /\ left' = left \ {u}
        /\ \E label \in IF OfAccount(u) = {} THEN {u}
                        ELSE {issue[t].name : t \in OfAccount(u)} :
              entries' = entries \cup
                   {[by |-> "user_id", key |-> u, label |-> label]}
    /\ UNCHANGED <<issue, redemption, pc, shown, printed, before>>

OwnersNames ==
    /\ pc = "listing"
    /\ left = {}
    /\ entries' = entries \cup
         {[by |-> "display_name", key |-> n, label |-> n] :
             n \in {m \in Names : OfName(m) # {}}}
    /\ pc' = "owners"
    /\ UNCHANGED <<issue, redemption, left, shown, printed, before>>

Open ==
    /\ pc = "owners"
    /\ \E e \in entries :
        /\ shown' = Query(e)
        /\ entries' = {e}
    /\ pc' = "owner"
    /\ UNCHANGED <<issue, redemption, left, printed, before>>

(* Mutant: the PDF is made of every ticket of the list of owners.          *)
PrintAll ==
    /\ pc = "owner"
    /\ before # {}
    /\ printed' = before
    /\ UNCHANGED <<issue, redemption, pc, left, entries, shown, before>>

(* The PDF repeats the query of the page; without tickets there is none.   *)
PrintOwner ==
    /\ pc = "owner"
    /\ \E e \in entries : Query(e) # {} /\ printed' = Query(e)
    /\ UNCHANGED <<issue, redemption, pc, left, entries, shown, before>>

Next ==
    \/ Ledger!Next /\ UNCHANGED page
    \/ OwnersBegin \/ OwnersSample \/ OwnersNames \/ Open \/ PrintOwner

Spec == Init /\ [][Next]_vars

-----------------------------------------------------------------------------
(* Properties.                                                             *)

(* Though the list is made by several queries with other requests between  *)
(* them, a ticket active from the first to the last of them, and still, is *)
(* on the page behind exactly one entry (view_owners.py:6-14,              *)
(* view_owner_tickets.py:24-39).                                           *)
FoundOnce ==
    pc = "owners" =>
        \A t \in before :
            Active(t) => Cardinality({e \in entries : t \in Query(e)}) = 1

(* The label of an account is a name under which one of its own tickets    *)
(* was issued, or its id; never a name found on somebody else's ticket     *)
(* (view_owners.py:7-9).                                                   *)
LabelIsTheirs ==
    \A e \in entries :
        \/ e.label = e.key
        \/ \E t \in TicketIds : issue[t] # None /\ issue[t].owner = e.key
                                  /\ issue[t].name = e.label

(* Of the tickets on an owner's page the PDF leaves out those only that    *)
(* were redeemed since the page was made, and it adds nothing but tickets  *)
(* of the same owner (print_tickets.py:37-48).                             *)
PrintFollowsPage ==
    [][printed' # printed =>
          /\ \A t \in shown \ printed' : redemption[t] # None
          /\ \A t \in printed', u \in shown :
                /\ issue[t].owner = issue[u].owner
                /\ issue[t].owner = None => issue[t].name = issue[u].name]_vars
=============================================================================
