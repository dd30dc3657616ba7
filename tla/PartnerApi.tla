----------------------------- MODULE PartnerApi -----------------------------
(***************************************************************************)
(* Partners, the keys they sign with, and their names for the users.       *)
(*   Edits   actions/partner.py create, update: an administrator adds and  *)
(*           removes keys; the list of keys is read, changed and saved     *)
(*           whole                                                         *)
(*   Calls   api/_shared.py _verify, then api/user.py update_user: the     *)
(*           call sets the partner's name for a user, one entry of the map *)
(*           in the user document; or api/ticket.py redeem_ticket: the     *)
(*           call redeems a ticket for the user the partner names so       *)
(* A key is an id (kid) and its material.  Whether a signature matches a   *)
(* key is the business of PyJWT: a call names the material it was signed   *)
(* with.  The time window of _shared.py:30 is a refusal that can always    *)
(* happen.  TicketDesk has the whole of redeem_ticket, with tickets being  *)
(* issued and redeemed otherwise; here it is about the name.               *)
(*                                                                         *)
(* A member of Edits or Calls is one request, used once; what it is        *)
(* answered is left out.                                                   *)
(***************************************************************************)
EXTENDS FiniteSets

CONSTANTS
    Edits, Calls,           \* the requests
    Partners,               \* ids of partner documents
    KeyIds, Materials,      \* what keys are made of
    Accounts, Externals,    \* users, and what partners call them
    TicketIds,
    None

Requests == Edits \cup Calls

ASSUME PartnerAssumption ==
    /\ Edits \cap Calls = {}
    /\ None \notin Requests \cup Partners \cup KeyIds \cup Materials
                     \cup Accounts \cup Externals \cup TicketIds
    /\ Accounts \cap TicketIds = {}

Keyset == [KeyIds -> Materials \cup {None}]
NameMap == [Partners -> Externals \cup {None}]
Form == [partner : Partners, add : KeyIds \cup {None}, material : Materials,
         drop : KeyIds \cup {None}]

ASSUME KeysetAssumption == None \notin Keyset

(* The body names a user or the code of a ticket; None is unknown.         *)
Token == [partner : Partners, kid : KeyIds, material : Materials,
          call : {"user", "redeem"},
          about : Accounts \cup TicketIds \cup {None},
          external : Externals]

VARIABLES
    keyset,         \* [Partners -> Keyset \cup {None}], the partners
    partner_uid_map,\* [Accounts -> NameMap], in the users
    pc,             \* where each request is
    form,           \* the form of an edit, the claims of a call
    copy,           \* the keyset an edit will save, the user a call found
    redeemed_by,    \* the user a ticket is redeemed for, or "nobody"
    named           \* history: whom the partner named so during the call

vars == <<keyset, partner_uid_map, pc, form, copy, redeemed_by, named>>

Goto(r, where) == pc' = [pc EXCEPT ![r] = where]
Read(r, doc) == copy' = [copy EXCEPT ![r] = doc]
Fill(r, f) == form' = [form EXCEPT ![r] = f]

(* A request is answered, whatever the answer: what it knew is forgotten.  *)
Answer(r) == Goto(r, "done") /\ Fill(r, None) /\ Read(r, None)

Exists(p) == keyset[p] # None

(* Mutant: any key of the partner will do, whatever the kid.               *)
AnyKey(p, k, m) == Exists(p) /\ \E j \in KeyIds : keyset[p][j] # None

HasKey(p, k, m) == Exists(p) /\ keyset[p][k] = m

Init ==
    /\ keyset \in [Partners -> Keyset \cup {None}]
    /\ partner_uid_map \in [Accounts -> NameMap]
    /\ pc = [r \in Requests |-> "idle"]
    /\ form = [r \in Requests |-> None]
    /\ copy = [r \in Requests |-> None]
    /\ redeemed_by = [t \in TicketIds |-> None]
    /\ named = [r \in Calls |-> {}]

-----------------------------------------------------------------------------
(* Editing.                                                                *)

Create(r) ==
    /\ pc[r] = "idle"
    /\ \E p \in Partners :
        /\ ~Exists(p)
        /\ keyset' = [keyset EXCEPT ![p] = [k \in KeyIds |-> None]]
    /\ Answer(r)
    /\ UNCHANGED <<partner_uid_map, redeemed_by>>

(* Mutant: a new key is assigned as the list, not appended to it.          *)
NewKeysetAssigned(f) ==
    [k \in KeyIds |-> CASE k = f.drop              -> None
                        [] k # f.drop /\ k = f.add -> f.material
                        [] k \notin {f.drop, f.add} /\ f.add # None -> None
                        [] OTHER                   -> keyset[f.partner][k]]

(* The new key is appended before the other one is taken out.              *)
NewKeyset(f) ==
    [k \in KeyIds |-> CASE k = f.drop              -> None
                        [] k # f.drop /\ k = f.add -> f.material
                        [] OTHER                   -> keyset[f.partner][k]]

(* The list is read and changed in memory.  An edit that is refused, for a *)
(* key id that is taken, or that leaves the list as it was writes nothing. *)
EditBegin(r) ==
    /\ pc[r] = "idle"
    /\ \E f \in Form :
        /\ Exists(f.partner)
        /\ f.add # None => keyset[f.partner][f.add] = None
        /\ f.add # None \/ NewKeyset(f) # keyset[f.partner]
        /\ Fill(r, [partner |-> f.partner, drop |-> f.drop])
        /\ Read(r, NewKeyset(f))
    /\ Goto(r, "save")
    /\ UNCHANGED <<keyset, partner_uid_map, redeemed_by>>

(* The list is written whole.                                              *)
EditSave(r) ==
    /\ pc[r] = "save"
    /\ keyset' = [keyset EXCEPT ![form[r].partner] = copy[r]]
    /\ Answer(r)
    /\ UNCHANGED <<partner_uid_map, redeemed_by>>

-----------------------------------------------------------------------------
(* Calling.                                                                *)

Verify(r) ==
    /\ pc[r] = "idle"
    /\ \/ Answer(r)
       \/ /\ \E t \in Token :
              /\ HasKey(t.partner, t.kid, t.material)
              /\ t.about \in {None} \cup IF t.call = "user" THEN Accounts
                                                            ELSE TicketIds
              /\ Fill(r, t)
          /\ Goto(r, "read")
          /\ UNCHANGED copy
    /\ UNCHANGED <<keyset, partner_uid_map, redeemed_by>>

(* The body may still be refused; then the user, or the ticket, is looked  *)
(* for.                                                                    *)
UserRead(r) ==
    /\ pc[r] = "read"
    /\ form[r].call = "user"
    /\ \/ Answer(r)
       \/ /\ form[r].about # None
          /\ Goto(r, "patch")
          /\ UNCHANGED <<form, copy>>
    /\ UNCHANGED <<keyset, partner_uid_map, redeemed_by>>

TicketFind(r) ==
    /\ pc[r] = "read"
    /\ form[r].call = "redeem"
    /\ \/ Answer(r)
       \/ /\ form[r].about # None
          /\ Goto(r, "find")
          /\ UNCHANGED <<form, copy>>
    /\ UNCHANGED <<keyset, partner_uid_map, redeemed_by>>

(* set__partner_uid_map__<partner>: this partner's entry, and no other.    *)
SetName(map, t) == [map EXCEPT ![t.partner] = t.external]

Patch(r) ==
    LET t == form[r] IN
    /\ pc[r] = "patch"
    /\ partner_uid_map' =
         [partner_uid_map EXCEPT ![t.about] = SetName(@, t)]
    /\ Answer(r)
    /\ UNCHANGED <<keyset, redeemed_by>>

(* Mutant: whatever partner named a user so.                               *)
CalledByAny(p, x) ==
    {u \in Accounts : \E q \in Partners : partner_uid_map[u][q] = x}

Called(p, x) == {u \in Accounts : partner_uid_map[u][p] = x}

(* first() of the users the partner names so; there may be several.        *)
FindUser(r) ==
    LET found == Called(form[r].partner, form[r].external) IN
    /\ pc[r] = "find"
    /\ \/ \E u \in found : Read(r, u)
       \/ found = {} /\ Read(r, None)
    /\ Goto(r, "modify")
    /\ UNCHANGED <<keyset, partner_uid_map, form, redeemed_by>>

Modify(r) ==
    LET t == form[r].about IN
    /\ pc[r] = "modify"
    /\ \/ /\ redeemed_by[t] = None
          /\ redeemed_by' = [redeemed_by EXCEPT ![t] =
                               IF copy[r] = None THEN "nobody" ELSE copy[r]]
       \/ redeemed_by[t] # None /\ UNCHANGED redeemed_by
    /\ Answer(r)
    /\ UNCHANGED <<keyset, partner_uid_map>>

-----------------------------------------------------------------------------
Working == {"save", "read", "patch", "find", "modify"}

(* The database raises before the operation is applied; when it raises     *)
(* after, the request has done what it does when it is answered.           *)
Fail(r) ==
    /\ pc[r] \in Working
    /\ Answer(r)
    /\ UNCHANGED <<keyset, partner_uid_map, redeemed_by>>

(* The users the partner of call r names as the call does, in the state    *)
(* after the step, or "nobody".                                            *)
NamedSo(r) ==
    LET t == form'[r]
        so == {u \in Accounts : partner_uid_map'[u][t.partner] = t.external}
    IN  IF so = {} THEN {"nobody"} ELSE so

(* The history of a redeem call is kept from its verification to its end.  *)
Observe ==
    named' = [r \in Calls |->
      IF pc'[r] \in Working /\ form'[r].call = "redeem"
        THEN named[r] \cup NamedSo(r) ELSE {}]

(* Every request has been answered: nothing more to do.                    *)
AllEnded == (\A r \in Requests : pc[r] = "done") /\ UNCHANGED vars

Next ==
    \/ AllEnded
    \/ /\ \/ \E r \in Edits :
                Create(r) \/ EditBegin(r) \/ EditSave(r) \/ Fail(r)
          \/ \E r \in Calls :
                \/ Verify(r) \/ UserRead(r) \/ Patch(r)
                \/ TicketFind(r) \/ FindUser(r) \/ Modify(r) \/ Fail(r)
       /\ Observe

Spec == Init /\ [][Next]_vars

-----------------------------------------------------------------------------
(* Properties.                                                             *)

(* The key is not in the partner's list, no pending edit has computed a    *)
(* list with it, and no call it signed is under way.                       *)
Revoked(p, k, m) ==
    /\ ~(keyset[p] # None /\ keyset[p][k] = m)
    /\ \A r \in Edits :
          pc[r] = "save" /\ form[r].partner = p => copy[r][k] # m
    /\ \A r \in Calls :
          pc[r] \in {"read", "patch", "find", "modify"} =>
              <<form[r].partner, form[r].kid, form[r].material>> # <<p, k, m>>

(* A revoked key stays revoked, and no call it signed gets past the        *)
(* verification, until an administrator adds that very key again: a list   *)
(* saved from a copy read before the revocation is the only other way      *)
(* back, and it closes with the edits then pending (partner.py:72-86,      *)
(* _shared.py:59-88).                                                      *)
RevokedStaysRevoked ==
    [][\A p \in Partners, k \in KeyIds, m \in Materials :
          Revoked(p, k, m) =>
              \/ Revoked(p, k, m)'
              \/ \E r \in Edits :
                    /\ pc[r] = "idle" /\ pc'[r] = "save"
                    /\ form'[r].partner = p
                    /\ copy'[r][k] = m /\ keyset[p][k] # m]_vars

(* The key is in the partner's list, and no pending edit has computed a    *)
(* list without it.                                                        *)
Kept(p, k, m) ==
    /\ Exists(p) /\ keyset[p][k] = m
    /\ \A r \in Edits :
          pc[r] = "save" /\ form[r].partner = p => copy[r][k] = m

(* A key is lost only to an administrator asking for its removal: edits    *)
(* that add or remove other keys, and one that read the list before the    *)
(* key was in it, cannot take it away once no list is pending that was     *)
(* computed without it (partner.py:72-86).                                 *)
KeptIsKept ==
    [][\A p \in Partners, k \in KeyIds, m \in Materials :
          Kept(p, k, m) =>
              \/ Kept(p, k, m)'
              \/ \E r \in Edits :
                    /\ pc[r] = "idle" /\ pc'[r] = "save"
                    /\ form'[r].partner = p /\ form'[r].drop = k]_vars

(* A redemption is recorded for a user whom this very partner, and not     *)
(* another one, named as the call does at some moment of the call, and for *)
(* nobody only if at some moment it named nobody so: the name may pass     *)
(* from one user to another between the look-up and the update, and        *)
(* partners may use the same names for different users (ticket.py:27-33).  *)
AttributedToNamed ==
    [][\A t \in TicketIds :
          redeemed_by'[t] # redeemed_by[t] =>
              \E r \in Calls :
                  /\ pc[r] = "modify" /\ pc'[r] = "done"
                  /\ form[r].about = t
                  /\ redeemed_by'[t] \in named[r]]_vars
=============================================================================
