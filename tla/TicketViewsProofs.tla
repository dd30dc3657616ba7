-------------------------- MODULE TicketViewsProofs --------------------------
(***************************************************************************)
(* Proofs about TicketViews, for any tickets, accounts and names, and any  *)
(* owners the tickets may have.  The list of owners is found by several    *)
(* queries, so the invariant ViewInv says, at each step on the way, what   *)
(* the entries found so far and the accounts still left account for: every *)
(* ticket that was active at the beginning (ListAt), then every one that   *)
(* still is (OwnersAt).                                                    *)
(***************************************************************************)
EXTENDS TicketViews, FiniteSetTheorems, TLAPS

TicketsOK ==
    /\ issue \in [TicketIds -> Issues \cup {None}]
    /\ redemption \in [TicketIds -> Redemptions \cup {None}]
    /\ \A t \in TicketIds : redemption[t] # None => issue[t] # None

(* The ticket t, if it is active, is found by the query of the entry e.    *)
Behind(t, e) ==
    \/ e.by = "user_id" /\ issue[t].owner = e.key
    \/ /\ e.by = "display_name"
       /\ issue[t].owner = None /\ issue[t].name = e.key

EntriesOK ==
    /\ \A e \in entries :
          \/ e.by = "user_id" /\ e.key \in Accounts
          \/ e.by = "display_name" /\ e.label = e.key
    /\ \A e, f \in entries : e.by = f.by /\ e.key = f.key => e = f

(* While the labels are looked for, every ticket that was active is of an  *)
(* account that has an entry or is still left, or has no account.          *)
ListAt ==
    pc = "listing" =>
        /\ left \subseteq Accounts
        /\ \A e \in entries : e.by = "user_id" /\ e.key \notin left
        /\ \A t \in before :
              issue[t].owner = None \/ issue[t].owner \in left
                \/ \E e \in entries : Behind(t, e)

(* When the list is complete there is an entry for what is still active.   *)
OwnersAt ==
    pc = "owners" =>
        \A t \in before : Active(t) => \E e \in entries : Behind(t, e)

(* The page of an owner shows tickets of the one entry that was followed.  *)
OwnerAt ==
    pc = "owner" =>
        \E e \in entries :
            /\ entries = {e}
            /\ \A t \in shown :
                  t \in TicketIds /\ issue[t] # None /\ Behind(t, e)

ViewInv ==
    /\ TicketsOK
    /\ pc \in {"start", "listing", "owners", "owner"}
    /\ \A t \in before : t \in TicketIds /\ issue[t] # None
    /\ EntriesOK
    /\ LabelIsTheirs
    /\ ListAt
    /\ OwnersAt
    /\ OwnerAt

-----------------------------------------------------------------------------
(* The collection.                                                         *)

(* An issued ticket has the type of what was issued.                       *)
LEMMA IssueType ==
    ASSUME TicketsOK, NEW t \in TicketIds, issue[t] # None
    PROVE  /\ issue[t].owner \in Accounts \cup {None}
           /\ issue[t].name \in Names
  BY IssuesAssumption DEF TicketsOK

(* What a ticket was issued with never changes, and a redeemed one stays   *)
(* redeemed: the view relies on no more than this of the other requests.   *)
LEMMA LedgerStep ==
    ASSUME TicketsOK, Ledger!Next
    PROVE  /\ TicketsOK'
           /\ \A t \in TicketIds :
                 /\ issue[t] # None => issue'[t] = issue[t]
                 /\ redemption[t] # None => redemption'[t] # None
  <1>1. PICK t \in TicketIds :
            \/ \E i \in Issues : Ledger!Issue(t, i)
            \/ \E x \in Redemptions : Ledger!Redeem(t, x)
                                        \/ Ledger!Rerecord(t, x)
    BY DEF Ledger!Next
  <1>2. CASE \E i \in Issues : Ledger!Issue(t, i)
    BY <1>2, IssuesAssumption DEF Ledger!Issue, TicketsOK
  <1>3. ASSUME NEW x \in Redemptions,
               Ledger!Redeem(t, x) \/ Ledger!Rerecord(t, x)
        PROVE  /\ TicketsOK'
               /\ UNCHANGED issue
               /\ \A u \in TicketIds :
                     redemption[u] # None => redemption'[u] # None
    <2>1. /\ redemption' = [redemption EXCEPT ![t] = x]
          /\ UNCHANGED issue
          /\ issue[t] # None
      BY <1>3 DEF Ledger!Redeem, Ledger!Rerecord, TicketsOK
    <2> QED
      BY <2>1, IssuesAssumption DEF TicketsOK
  <1> QED
    BY <1>1, <1>2, <1>3

(* An active ticket is on the page of the entry it is behind.              *)
LEMMA QueryIs ==
    ASSUME EntriesOK, NEW e \in entries
    PROVE  Query(e) = {t \in TicketIds : Active(t) /\ Behind(t, e)}
  BY DEF EntriesOK, Query, OfAccount, OfName, Behind

-----------------------------------------------------------------------------
(* The invariant.                                                          *)

(* Tickets are issued and redeemed while the administrator looks.          *)
LEMMA LedgerKeeps ==
    ASSUME ViewInv, Ledger!Next, UNCHANGED page
    PROVE  ViewInv'
  <1>1. /\ TicketsOK'
        /\ \A t \in TicketIds :
              /\ issue[t] # None => issue'[t] = issue[t]
              /\ redemption[t] # None => redemption'[t] # None
    BY LedgerStep DEF ViewInv
  <1>2. \A t \in TicketIds : issue[t] # None =>
            /\ issue'[t] # None
            /\ \A e : Behind(t, e) => Behind(t, e)'
    BY <1>1 DEF Behind
  <1>3. \A t \in TicketIds : issue[t] # None /\ Active(t)' => Active(t)
    BY <1>1 DEF Active
  <1>4. \A t \in before : t \in TicketIds /\ issue[t] # None
    BY DEF ViewInv
  <1>5. EntriesOK' /\ pc' = pc /\ before' = before
    BY DEF ViewInv, EntriesOK, page
  <1>6. LabelIsTheirs'
    BY <1>1 DEF ViewInv, LabelIsTheirs, page
  <1>7. ListAt'
    BY <1>1, <1>2, <1>4 DEF ViewInv, ListAt, page
  <1>8. OwnersAt'
    BY <1>2, <1>3, <1>4 DEF ViewInv, OwnersAt, page
  <1>9. OwnerAt'
    BY <1>2 DEF ViewInv, OwnerAt, page
  <1> QED
    BY <1>1, <1>2, <1>4, <1>5, <1>6, <1>7, <1>8, <1>9 DEF ViewInv

(* The accounts of all active tickets are found.                           *)
LEMMA BeginKeeps ==
    ASSUME ViewInv, OwnersBegin
    PROVE  ViewInv'
  <1>1. TicketsOK' /\ entries' = {} /\ pc' = "listing"
    BY DEF ViewInv, OwnersBegin, TicketsOK
  <1>2. \A t \in before' : t \in TicketIds /\ issue[t] # None /\ Active(t)
    BY DEF OwnersBegin, Active
  <1>3. \A t \in before' : issue[t].owner = None \/ issue[t].owner \in left'
    <2> SUFFICES ASSUME NEW t \in before', issue[t].owner # None
                 PROVE  issue[t].owner \in left'
      OBVIOUS
    <2>1. issue[t].owner \in Accounts
      BY <1>2, IssueType DEF ViewInv
    <2>2. t \in OfAccount(issue[t].owner)
      BY <1>2 DEF OfAccount
    <2> QED
      BY <2>1, <2>2 DEF OwnersBegin
  <1>4. ListAt'
    BY <1>1, <1>3 DEF ListAt, OwnersBegin
  <1> QED
    BY <1>1, <1>2, <1>4
       DEF ViewInv, EntriesOK, LabelIsTheirs, OwnersAt, OwnerAt, OwnersBegin

(* One more account gets its label.                                        *)
LEMMA SampleKeeps ==
    ASSUME ViewInv, OwnersSample
    PROVE  ViewInv'
  <1>1. PICK u \in left :
            /\ left' = left \ {u}
            /\ \E label \in IF OfAccount(u) = {} THEN {u}
                            ELSE {issue[t].name : t \in OfAccount(u)} :
                  entries' = entries \cup
                       {[by |-> "user_id", key |-> u, label |-> label]}
    BY DEF OwnersSample
  <1>2. PICK label \in IF OfAccount(u) = {} THEN {u}
                       ELSE {issue[t].name : t \in OfAccount(u)} :
            entries' = entries \cup
                 {[by |-> "user_id", key |-> u, label |-> label]}
    BY <1>1
  <1>3. PICK e : e = [by |-> "user_id", key |-> u, label |-> label]
    OBVIOUS
  <1>4. entries' = entries \cup {e}
    BY <1>2, <1>3
  <1>5. /\ pc = "listing" /\ pc' = "listing"
        /\ UNCHANGED <<issue, redemption, shown, printed, before>>
        /\ left \subseteq Accounts
    BY DEF OwnersSample, ViewInv, ListAt
  <1>6. e.by = "user_id" /\ e.key = u /\ e.label = label
    BY <1>3
  <1>7. \A f \in entries : f.by = "user_id" /\ f.key \notin left
    BY <1>5 DEF ViewInv, ListAt
  <1>8. EntriesOK'
    BY <1>4, <1>5, <1>6, <1>7 DEF ViewInv, EntriesOK
  <1>9. label = u \/ \E t \in TicketIds : /\ issue[t] # None
                                          /\ issue[t].owner = u
                                          /\ issue[t].name = label
    BY <1>2 DEF OfAccount, Active
  <1>10. LabelIsTheirs'
    BY <1>4, <1>5, <1>6, <1>9 DEF ViewInv, LabelIsTheirs
  <1>11. ListAt'
    <2>1. \A t \in before : issue[t].owner = u => Behind(t, e)
      BY <1>6 DEF Behind
    <2>2. \A t, f : Behind(t, f)' <=> Behind(t, f)
      BY <1>5 DEF Behind
    <2> QED
      BY <1>1, <1>4, <1>5, <1>6, <1>7, <2>1, <2>2 DEF ViewInv, ListAt
  <1> QED
    BY <1>5, <1>8, <1>10, <1>11 DEF ViewInv, TicketsOK, OwnersAt, OwnerAt

(* The owners without an account are found.                                *)
LEMMA NamesKeeps ==
    ASSUME ViewInv, OwnersNames
    PROVE  ViewInv'
  <1>1. PICK new : new = {[by |-> "display_name", key |-> n, label |-> n] :
                             n \in {m \in Names : OfName(m) # {}}}
    OBVIOUS
  <1>2. /\ entries' = entries \cup new
        /\ pc = "listing" /\ pc' = "owners" /\ left = {}
        /\ UNCHANGED <<issue, redemption, shown, printed, before>>
    BY <1>1 DEF OwnersNames
  <1>3. /\ \A e \in new : e.by = "display_name" /\ e.label = e.key
        /\ \A e, f \in new : e.key = f.key => e = f
    BY <1>1
  <1>4. \A e \in entries : e.by = "user_id"
    BY <1>2 DEF ViewInv, ListAt
  <1>5. EntriesOK'
    BY <1>2, <1>3, <1>4 DEF ViewInv, EntriesOK
  <1>6. LabelIsTheirs'
    BY <1>2, <1>3 DEF ViewInv, LabelIsTheirs
  <1>7. ASSUME NEW t \in before, Active(t)
        PROVE  \E e \in entries \cup new : Behind(t, e)
    <2>1. t \in TicketIds /\ issue[t] # None
      BY DEF ViewInv
    <2>2. CASE issue[t].owner = None
      <3>1. PICK n \in Names : n = issue[t].name
        BY <2>1, IssueType DEF ViewInv
      <3>2. OfName(n) # {}
        BY <1>7, <2>1, <2>2, <3>1 DEF OfName
      <3>3. PICK e \in new :
                e = [by |-> "display_name", key |-> n, label |-> n]
        BY <1>1, <3>2
      <3>4. e.by = "display_name" /\ e.key = n
        BY <3>3
      <3> QED
        BY <2>2, <3>1, <3>4 DEF Behind
    <2>3. CASE issue[t].owner # None
      BY <1>2, <2>3 DEF ViewInv, ListAt
    <2> QED
      BY <2>2, <2>3
  <1>8. OwnersAt'
    <2>1. \A t, f : Behind(t, f)' <=> Behind(t, f)
      BY <1>2 DEF Behind
    <2>2. \A t : Active(t)' <=> Active(t)
      BY <1>2 DEF Active
    <2> QED
      BY <1>2, <1>7, <2>1, <2>2 DEF OwnersAt
  <1> QED
    BY <1>2, <1>5, <1>6, <1>8 DEF ViewInv, TicketsOK, ListAt, OwnerAt

(* An entry is followed to its page.                                       *)
LEMMA OpenKeeps ==
    ASSUME ViewInv, Open
    PROVE  ViewInv'
  <1>1. PICK e \in entries : shown' = Query(e) /\ entries' = {e}
    BY DEF Open
  <1>2. /\ pc' = "owner"
        /\ UNCHANGED <<issue, redemption, left, printed, before>>
    BY DEF Open
  <1>3. \A t \in shown' : t \in TicketIds /\ issue[t] # None /\ Behind(t, e)
    BY <1>1, QueryIs DEF ViewInv, Active
  <1>4. OwnerAt'
    BY <1>1, <1>2, <1>3 DEF OwnerAt, Behind
  <1>5. EntriesOK' /\ LabelIsTheirs'
    BY <1>1, <1>2 DEF ViewInv, EntriesOK, LabelIsTheirs
  <1> QED
    BY <1>2, <1>4, <1>5 DEF ViewInv, TicketsOK, ListAt, OwnersAt

(* The invariant is inductive.                                             *)
LEMMA InvStep ==
    ASSUME ViewInv, [Next]_vars
    PROVE  ViewInv'
  <1>1. CASE UNCHANGED <<issue, redemption, pc, left, entries, shown, before>>
    BY <1>1 DEF ViewInv, TicketsOK, EntriesOK, LabelIsTheirs, ListAt, OwnersAt,
                OwnerAt, Behind, Active
  <1> QED
    BY <1>1, LedgerKeeps, BeginKeeps, SampleKeeps, NamesKeeps, OpenKeeps
       DEF Next, PrintOwner, vars, page

(* At the start there are neither tickets nor a list.                      *)
LEMMA InitInv ==
    ASSUME Init
    PROVE  ViewInv
  BY IssuesAssumption
     DEF Init, Ledger!Init, ViewInv, TicketsOK, EntriesOK, LabelIsTheirs,
         ListAt, OwnersAt, OwnerAt

(* In every state the entries found so far, and the accounts still left,   *)
(* account for the tickets that were active when the list was begun.       *)
THEOREM Invariance == Spec => []ViewInv
  BY InitInv, InvStep, PTL DEF Spec

-----------------------------------------------------------------------------
(* What the pages show.                                                    *)

(* The label of an account is a name under which one of its own tickets    *)
(* was issued, or its id; never a name found on somebody else's ticket.    *)
THEOREM LabelsAreTheirs == Spec => []LabelIsTheirs
  <1>1. ViewInv => LabelIsTheirs
    BY DEF ViewInv
  <1> QED
    BY <1>1, Invariance, PTL

(* No ticket is behind two entries.                                        *)
LEMMA OneEntry ==
    ASSUME ViewInv, NEW t, NEW e \in entries, NEW f \in entries,
           Behind(t, e), Behind(t, f)
    PROVE  e = f
  BY IssuesAssumption DEF ViewInv, EntriesOK, Behind

(* A ticket active from the first query of the list to the last, and       *)
(* still, is on the page behind exactly one entry.                         *)
THEOREM FoundExactlyOnce == Spec => []FoundOnce
  <1>1. ASSUME ViewInv
        PROVE  FoundOnce
    <2> SUFFICES ASSUME pc = "owners", NEW t \in before, Active(t)
                 PROVE  Cardinality({e \in entries : t \in Query(e)}) = 1
      BY DEF FoundOnce
    <2>1. t \in TicketIds
      BY <1>1 DEF ViewInv
    <2>2. PICK e \in entries : Behind(t, e)
      BY <1>1 DEF ViewInv, OwnersAt
    <2>3. \A f \in entries : t \in Query(f) <=> Behind(t, f)
      BY <1>1, <2>1, QueryIs DEF ViewInv
    <2>4. {f \in entries : t \in Query(f)} = {e}
      BY <1>1, <2>2, <2>3, OneEntry
    <2> QED
      BY <2>4, FS_Singleton
  <1> QED
    BY <1>1, Invariance, PTL

(* Of the tickets on an owner's page the PDF leaves out those only that    *)
(* were redeemed since the page was made, and it adds nothing but tickets  *)
(* of the same owner.                                                      *)
THEOREM PrintsFollowPages == Spec => PrintFollowsPage
  <1>1. ASSUME ViewInv, [Next]_vars, printed' # printed
        PROVE  /\ \A t \in shown \ printed' : redemption[t] # None
               /\ \A t \in printed', u \in shown :
                     /\ issue[t].owner = issue[u].owner
                     /\ issue[t].owner = None => issue[t].name = issue[u].name
    <2>1. PrintOwner
      BY <1>1 DEF Next, vars, page, OwnersBegin, OwnersSample, OwnersNames,
                  Open
    <2>2. PICK e \in entries :
              /\ entries = {e}
              /\ \A t \in shown :
                    t \in TicketIds /\ issue[t] # None /\ Behind(t, e)
      BY <1>1, <2>1 DEF ViewInv, OwnerAt, PrintOwner
    <2>3. printed' = {t \in TicketIds : Active(t) /\ Behind(t, e)}
      BY <1>1, <2>1, <2>2, QueryIs DEF PrintOwner, ViewInv
    <2>4. \A t \in printed', u \in shown : Behind(t, e) /\ Behind(u, e)
      BY <2>2, <2>3
    <2>5. e.by = "user_id" => e.key # None
      BY <1>1, <2>2, IssuesAssumption DEF ViewInv, EntriesOK
    <2>6. \A t \in shown \ printed' : redemption[t] # None
      BY <2>2, <2>3 DEF Active
    <2> QED
      BY <2>4, <2>5, <2>6 DEF Behind
  <1>2. ViewInv /\ [Next]_vars =>
    [printed' # printed =>
       /\ \A t \in shown \ printed' : redemption[t] # None
       /\ \A t \in printed', u \in shown :
             /\ issue[t].owner = issue[u].owner
             /\ issue[t].owner = None => issue[t].name = issue[u].name]_vars
    BY <1>1
  <1> QED
    BY <1>2, Invariance, PTL DEF Spec, PrintFollowsPage
=============================================================================
