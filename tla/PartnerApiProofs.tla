--------------------------- MODULE PartnerApiProofs ---------------------------
(***************************************************************************)
(* Proofs about PartnerApi, for any number of requests, partners, keys,    *)
(* users and tickets.  The invariant CallsInv says where a request of each *)
(* kind can be and what it knows there; the part the attribution of a      *)
(* redemption rests on is NameAt: whom a call has found, it has found      *)
(* under the partner's own name, and the history has it.                   *)
(***************************************************************************)
EXTENDS PartnerApi, TLAPS

Places == {"idle", "save", "read", "patch", "find", "modify", "done"}

Typed ==
    /\ keyset \in [Partners -> Keyset \cup {None}]
    /\ partner_uid_map \in [Accounts -> NameMap]
    /\ pc \in [Requests -> Places]
    /\ DOMAIN form = Requests
    /\ DOMAIN copy = Requests
    /\ redeemed_by \in [TicketIds -> Accounts \cup {"nobody", None}]
    /\ named \in [Calls -> SUBSET (Accounts \cup {"nobody"})]

(* Where a request of each kind can be, and what it knows there.           *)
EditAt(r) ==
    /\ pc[r] \in {"idle", "save", "done"}
    /\ pc[r] = "save" => form[r].partner \in Partners /\ copy[r] \in Keyset

CallAt(r) ==
    /\ pc[r] # "save"
    /\ pc[r] \in Working => form[r] \in Token
    /\ pc[r] \in {"read", "find", "modify", "patch"} =>
          form[r].about \in {None} \cup IF form[r].call = "user"
                                          THEN Accounts ELSE TicketIds
    /\ pc[r] = "patch" => form[r].call = "user" /\ form[r].about # None
    /\ pc[r] \in {"find", "modify"} =>
          form[r].call = "redeem" /\ form[r].about # None

(* Whom a call is about to redeem for, the partner named so meanwhile.     *)
NameAt(r) ==
    pc[r] = "modify" =>
        /\ copy[r] \in Accounts \cup {None}
        /\ copy[r] = None => "nobody" \in named[r]
        /\ copy[r] # None => copy[r] \in named[r]

CallsInv ==
    /\ Typed
    /\ \A r \in Edits : EditAt(r)
    /\ \A r \in Calls : CallAt(r) /\ NameAt(r)
-----------------------------------------------------------------------------
(* Who moves.                                                              *)

Local(r) == <<pc[r], form[r], copy[r]>>

EditMoves(r) == Create(r) \/ EditBegin(r) \/ EditSave(r) \/ Fail(r)

CallMoves(r) ==
    \/ Verify(r) \/ UserRead(r) \/ Patch(r)
    \/ TicketFind(r) \/ FindUser(r) \/ Modify(r) \/ Fail(r)

(* Whose step it is, or none's.                                            *)
LEMMA StepKinds ==
    ASSUME [Next]_vars
    PROVE  \/ UNCHANGED vars
           \/ (\E r \in Edits : EditMoves(r)) /\ Observe
           \/ (\E r \in Calls : CallMoves(r)) /\ Observe
  BY DEF Next, AllEnded, EditMoves, CallMoves

(* A step of one request leaves what the others know alone.                *)
LEMMA OthersStay ==
    ASSUME Typed, NEW r \in Requests, EditMoves(r) \/ CallMoves(r),
           NEW q \in Requests, q # r
    PROVE  UNCHANGED Local(q)
  <1> USE DEF Typed, Local, Goto, Fill, Read, Answer
  <1>1. CASE EditMoves(r)
    BY <1>1 DEF EditMoves, Create, EditBegin, EditSave, Fail
  <1>2. CASE CallMoves(r)
    BY <1>2 DEF CallMoves, Verify, UserRead, Patch, TicketFind, FindUser,
                Modify, Fail
  <1> QED
    BY <1>1, <1>2

(* A request that is answered is done and the others go on.                *)
LEMMA AnswerDone ==
    ASSUME Typed, NEW r \in Requests, Answer(r)
    PROVE  /\ pc' \in [Requests -> Places]
           /\ pc'[r] = "done"
           /\ DOMAIN form' = Requests
           /\ DOMAIN copy' = Requests
  BY DEF Typed, Answer, Goto, Fill, Read, Places

(* The list an edit computes is a list of keys.                            *)
LEMMA NewKeysetType ==
    ASSUME Typed, NEW f \in Form, Exists(f.partner)
    PROVE  NewKeyset(f) \in Keyset
  <1>1. keyset[f.partner] \in Keyset
    BY DEF Typed, Form, Exists
  <1>2. \A k \in KeyIds :
          (CASE k = f.drop              -> None
             [] k # f.drop /\ k = f.add -> f.material
             [] OTHER                   -> keyset[f.partner][k])
              \in Materials \cup {None}
    BY <1>1 DEF Form, Keyset
  <1> QED
    BY <1>2 DEF NewKeyset, Keyset

(* A step of an Edit keeps the types, and leaves it knowing what it must.  *)
LEMMA EditStep ==
    ASSUME CallsInv, NEW r \in Edits, EditMoves(r)
    PROVE  /\ keyset' \in [Partners -> Keyset \cup {None}]
           /\ pc' \in [Requests -> Places]
           /\ DOMAIN form' = Requests
           /\ DOMAIN copy' = Requests
           /\ UNCHANGED <<partner_uid_map, redeemed_by>>
           /\ EditAt(r)'
  <1>1. r \in Requests /\ Typed /\ EditAt(r)
    BY DEF CallsInv, Requests
  <1>2. CASE Create(r)
    <2>1. [k \in KeyIds |-> None] \in Keyset
      BY DEF Keyset
    <2> QED
      BY <1>1, <1>2, <2>1, AnswerDone DEF Create, Typed, EditAt
  <1>3. CASE EditBegin(r)
    <2>1. PICK f \in Form : /\ Exists(f.partner)
                            /\ Fill(r, [partner |-> f.partner,
                                        drop |-> f.drop])
                            /\ Read(r, NewKeyset(f))
      BY <1>3 DEF EditBegin
    <2>2. NewKeyset(f) \in Keyset
      BY <1>1, <2>1, NewKeysetType
    <2>3. form'[r].partner \in Partners /\ copy'[r] \in Keyset
      BY <1>1, <2>1, <2>2 DEF Typed, Fill, Read, Form
    <2> QED
      BY <1>1, <1>3, <2>1, <2>3
         DEF EditBegin, Typed, EditAt, Goto, Fill, Read, Places
  <1>4. CASE EditSave(r)
    <2>1. keyset' \in [Partners -> Keyset \cup {None}]
      BY <1>1, <1>4 DEF EditSave, EditAt, Typed
    <2> QED
      BY <1>1, <1>4, <2>1, AnswerDone DEF EditSave, EditAt
  <1>5. CASE Fail(r)
    BY <1>1, <1>5, AnswerDone DEF Fail, EditAt, Typed
  <1> QED
    BY <1>2, <1>3, <1>4, <1>5 DEF EditMoves

(* The map in which the name a call gives is entered is a map of names.    *)
LEMMA SetNameType ==
    ASSUME Typed, NEW t \in Token, NEW u \in Accounts,
           NEW m, m = SetName(partner_uid_map[u], t)
    PROVE  m \in NameMap
  <1>1. partner_uid_map[u] \in NameMap /\ t.external \in Externals
    BY DEF Typed, Token
  <1> QED
    BY <1>1 DEF SetName, NameMap

(* A step of a Call, all but the histories.                                *)
LEMMA CallStep ==
    ASSUME CallsInv, NEW r \in Calls, CallMoves(r)
    PROVE  /\ partner_uid_map' \in [Accounts -> NameMap]
           /\ pc' \in [Requests -> Places]
           /\ DOMAIN form' = Requests
           /\ DOMAIN copy' = Requests
           /\ redeemed_by' \in [TicketIds -> Accounts \cup {"nobody", None}]
           /\ UNCHANGED keyset
           /\ CallAt(r)'
  <1>1. r \in Requests /\ Typed /\ CallAt(r) /\ NameAt(r)
    BY DEF CallsInv, Requests
  <1>2. pc[r] \in Places
    BY <1>1 DEF Typed
  <1>3. ASSUME Answer(r)
        PROVE  CallAt(r)'
    BY <1>1, <1>3, AnswerDone DEF CallAt, Working
  <1>4. CASE Verify(r)
    <2>1. CASE Answer(r)
      BY <1>1, <1>3, <1>4, <2>1, AnswerDone DEF Verify, Typed
    <2>2. CASE /\ \E t \in Token :
                    /\ t.about \in {None} \cup IF t.call = "user"
                                                 THEN Accounts ELSE TicketIds
                    /\ Fill(r, t)
               /\ Goto(r, "read")
               /\ UNCHANGED copy
      <3>1. PICK t \in Token :
                /\ t.about \in {None} \cup IF t.call = "user" THEN Accounts
                                                             ELSE TicketIds
                /\ Fill(r, t)
        BY <2>2
      <3>2. form'[r] = t /\ pc'[r] = "read" /\ DOMAIN form' = Requests
        BY <1>1, <2>2, <3>1 DEF Fill, Goto, Typed
      <3>3. CallAt(r)'
        BY <3>1, <3>2 DEF CallAt
      <3> QED
        BY <1>1, <1>4, <2>2, <3>2, <3>3 DEF Verify, Typed, Goto, Places
    <2> QED
      BY <1>4, <2>1, <2>2 DEF Verify
  <1>5. CASE UserRead(r)
    BY <1>1, <1>2, <1>3, <1>5, AnswerDone
       DEF UserRead, Typed, Goto, Places, CallAt, Working
  <1>6. CASE TicketFind(r)
    BY <1>1, <1>2, <1>3, <1>6, AnswerDone
       DEF TicketFind, Typed, Goto, Places, CallAt, Working, Token
  <1>7. CASE Patch(r)
    <2>1. PICK t : t = form[r]
      OBVIOUS
    <2>2. t \in Token /\ t.about \in Accounts
      BY <1>1, <1>7, <2>1 DEF Patch, CallAt, Working
    <2>3. PICK m : m = SetName(partner_uid_map[t.about], t)
      OBVIOUS
    <2>4. m \in NameMap
      BY <1>1, <2>2, <2>3, SetNameType
    <2>5. partner_uid_map' = [partner_uid_map EXCEPT ![t.about] = m]
      BY <1>7, <2>1, <2>3 DEF Patch
    <2>6. partner_uid_map' \in [Accounts -> NameMap]
      BY <1>1, <2>4, <2>5 DEF Typed
    <2> QED
      BY <1>1, <1>3, <1>7, <2>6, AnswerDone DEF Patch, Typed
  <1>8. CASE FindUser(r)
    <2>1. /\ pc' = [pc EXCEPT ![r] = "modify"]
          /\ DOMAIN copy' = Requests
          /\ UNCHANGED <<keyset, partner_uid_map, form, redeemed_by>>
      BY <1>1, <1>8 DEF FindUser, Goto, Read, Typed
    <2> QED
      BY <1>1, <1>8, <2>1 DEF FindUser, Typed, CallAt, Working, Places
  <1>9. CASE Modify(r)
    <2>1. redeemed_by' \in [TicketIds -> Accounts \cup {"nobody", None}]
      BY <1>1, <1>9 DEF Modify, Typed, NameAt
    <2> QED
      BY <1>1, <1>3, <1>9, <2>1, AnswerDone DEF Modify, Typed
  <1>10. CASE Fail(r)
    BY <1>1, <1>3, <1>10, AnswerDone DEF Fail, Typed
  <1> QED
    BY <1>4, <1>5, <1>6, <1>7, <1>8, <1>9, <1>10 DEF CallMoves

(* What the histories become.                                              *)
LEMMA ObserveType ==
    ASSUME Typed, Observe
    PROVE  named' \in [Calls -> SUBSET (Accounts \cup {"nobody"})]
  <1>1. \A r \in Calls : NamedSo(r) \subseteq Accounts \cup {"nobody"}
    BY DEF NamedSo
  <1> QED
    BY <1>1 DEF Typed, Observe

(* Whom a call is about to redeem for, its history has.                    *)
LEMMA NameAtStep ==
    ASSUME CallsInv, [Next]_vars, NEW r \in Calls
    PROVE  NameAt(r)'
  <1>1. r \in Requests /\ Typed /\ CallAt(r) /\ NameAt(r)
    BY DEF CallsInv, Requests
  <1>2. ASSUME Observe, UNCHANGED Local(r)
        PROVE  NameAt(r)'
    <2>1. CASE pc[r] = "modify"
      <3>1. named'[r] = named[r] \cup NamedSo(r)
        BY <1>1, <1>2, <2>1 DEF Observe, Local, CallAt, Working
      <3> QED
        BY <1>1, <1>2, <3>1 DEF NameAt, Local
    <2> QED
      BY <1>2, <2>1 DEF NameAt, Local
  <1>3. ASSUME Observe, CallMoves(r), pc'[r] = "modify"
        PROVE  NameAt(r)'
    <2>1. FindUser(r)
      BY <1>1, <1>3 DEF CallMoves, Verify, UserRead, TicketFind, Patch,
                        Modify, Fail, Answer, Goto, Typed
    <2>2. UNCHANGED <<form, partner_uid_map>> /\ form[r].call = "redeem"
      BY <1>1, <2>1 DEF FindUser, CallAt
    <2>3. named'[r] = named[r] \cup NamedSo(r)
      BY <1>3, <2>2 DEF Observe, Working
    <2>4. NamedSo(r) = IF Called(form[r].partner, form[r].external) = {}
                         THEN {"nobody"}
                         ELSE Called(form[r].partner, form[r].external)
      BY <2>2 DEF NamedSo, Called
    <2>5. \/ \E u \in Called(form[r].partner, form[r].external) : copy'[r] = u
          \/ /\ Called(form[r].partner, form[r].external) = {}
             /\ copy'[r] = None
      BY <1>1, <2>1 DEF FindUser, Read, Typed
    <2>6. Called(form[r].partner, form[r].external) \subseteq Accounts
      BY DEF Called
    <2>7. copy'[r] # None => copy'[r] \in NamedSo(r)
      BY <2>4, <2>5
    <2>8. copy'[r] = None => "nobody" \in NamedSo(r)
      BY <2>4, <2>5, <2>6, PartnerAssumption
    <2>9. copy'[r] \in Accounts \cup {None}
      BY <2>5, <2>6
    <2> QED
      BY <2>3, <2>7, <2>8, <2>9 DEF NameAt
  <1>4. CASE UNCHANGED vars
    BY <1>1, <1>4 DEF NameAt, vars
  <1>5. ASSUME NEW q \in Requests, q # r, EditMoves(q) \/ CallMoves(q), Observe
        PROVE  NameAt(r)'
    BY <1>1, <1>2, <1>5, OthersStay
  <1>6. CASE pc'[r] # "modify"
    BY <1>6 DEF NameAt
  <1>7. Edits \cap Calls = {} /\ Edits \subseteq Requests
    BY PartnerAssumption DEF Requests
  <1> QED
    BY <1>1, <1>3, <1>4, <1>5, <1>6, <1>7, StepKinds DEF Requests

(* The invariant is inductive.                                             *)
LEMMA InvStep ==
    ASSUME CallsInv, [Next]_vars
    PROVE  CallsInv'
  <1>1. \A r \in Calls : NameAt(r)'
    BY NameAtStep
  <1>2. CASE UNCHANGED vars
    BY <1>2 DEF CallsInv, Typed, EditAt, CallAt, NameAt, vars
  <1>3. ASSUME NEW r \in Requests, EditMoves(r) \/ CallMoves(r),
               NEW q \in Requests, q # r
        PROVE  /\ q \in Edits => EditAt(q)'
               /\ q \in Calls => CallAt(q)'
    <2>1. UNCHANGED Local(q)
      BY <1>3, OthersStay DEF CallsInv
    <2> QED
      BY <2>1 DEF CallsInv, Local, EditAt, CallAt
  <1>4. ASSUME NEW r \in Edits, EditMoves(r), Observe
        PROVE  CallsInv'
    <2>1. /\ Typed'
          /\ EditAt(r)'
      BY <1>4, EditStep, ObserveType DEF CallsInv, Typed
    <2> QED
      BY <1>1, <1>3, <1>4, <2>1, PartnerAssumption DEF CallsInv, Requests
  <1>5. ASSUME NEW r \in Calls, CallMoves(r), Observe
        PROVE  CallsInv'
    <2>1. /\ Typed'
          /\ CallAt(r)'
      BY <1>5, CallStep, ObserveType DEF CallsInv, Typed
    <2> QED
      BY <1>1, <1>3, <1>5, <2>1, PartnerAssumption DEF CallsInv, Requests
  <1> QED
    BY <1>2, <1>4, <1>5, StepKinds

(* At the start no call is under way.                                      *)
LEMMA InitInv ==
    ASSUME Init
    PROVE  CallsInv
  <1>1. \A r \in Requests : pc[r] = "idle"
    BY DEF Init
  <1>2. Typed
    BY DEF Init, Typed, Places
  <1> QED
    BY <1>1, <1>2
       DEF CallsInv, EditAt, CallAt, NameAt, Working, Requests

(* In every state: a request is where one of its kind can be and knows     *)
(* what it must, and whom a redeem call is about to redeem for, the very   *)
(* partner that signed it has named so since it was verified.              *)
THEOREM Invariance == Spec => []CallsInv
  BY InitInv, InvStep, PTL DEF Spec
-----------------------------------------------------------------------------
(* Redemptions.                                                            *)

(* A redemption is recorded by a Modify, for whom the history has.         *)
LEMMA RedeemedMoves ==
    ASSUME CallsInv, [Next]_vars, NEW t \in TicketIds,
           redeemed_by'[t] # redeemed_by[t]
    PROVE  \E r \in Calls :
              /\ pc[r] = "modify" /\ pc'[r] = "done"
              /\ form[r].about = t
              /\ redeemed_by'[t] \in named[r]
  <1>1. PICK r \in Calls : CallMoves(r)
    BY StepKinds, EditStep DEF vars
  <1>2. r \in Requests /\ Typed /\ CallAt(r) /\ NameAt(r)
    BY <1>1 DEF CallsInv, Requests
  <1>3. Modify(r)
    BY <1>1 DEF CallMoves, Verify, UserRead, TicketFind, FindUser, Patch,
                Fail
  <1>4. /\ redeemed_by' = [redeemed_by EXCEPT ![form[r].about] =
                 IF copy[r] = None THEN "nobody" ELSE copy[r]]
        /\ pc[r] = "modify"
        /\ Answer(r)
    BY <1>3 DEF Modify
  <1>5. form[r].about = t
    BY <1>2, <1>4 DEF Typed
  <1>6. redeemed_by'[t] = IF copy[r] = None THEN "nobody" ELSE copy[r]
    BY <1>2, <1>4, <1>5 DEF Typed
  <1> QED
    BY <1>2, <1>4, <1>5, <1>6, AnswerDone DEF NameAt

(* A redemption is recorded for a user whom this very partner named as the *)
(* call does at some moment of the call, and for nobody only if at some    *)
(* moment of the call it named nobody so.                                  *)
THEOREM RedemptionsAreAttributed == Spec => AttributedToNamed
  <1>1. CallsInv /\ [Next]_vars =>
          [\A t \in TicketIds :
             redeemed_by'[t] # redeemed_by[t] =>
                 \E r \in Calls :
                     /\ pc[r] = "modify" /\ pc'[r] = "done"
                     /\ form[r].about = t
                     /\ redeemed_by'[t] \in named[r]]_vars
    BY RedeemedMoves
  <1> QED
    BY <1>1, Invariance, PTL DEF Spec, AttributedToNamed

-----------------------------------------------------------------------------
(* Keys.                                                                   *)

(* The administrator adds this very key to the partner's list.             *)
AddsAgain(p, k, m) ==
    \E r \in Edits :
        /\ pc[r] = "idle" /\ pc'[r] = "save"
        /\ form'[r].partner = p
        /\ copy'[r][k] = m /\ keyset[p][k] # m

(* A call signed with another key does not count as this one.              *)
SignedWith(r, p, k, m) ==
    /\ pc[r] \in {"read", "patch", "find", "modify"}
    /\ <<form[r].partner, form[r].kid, form[r].material>> = <<p, k, m>>

(* A step of an edit keeps a revoked key out of the list and out of the    *)
(* list it is to save, unless it adds it.                                  *)
LEMMA EditKeepsOut ==
    ASSUME CallsInv, NEW p \in Partners, NEW k \in KeyIds, NEW m \in Materials,
           Revoked(p, k, m), NEW r \in Edits, EditMoves(r)
    PROVE  \/ AddsAgain(p, k, m)
           \/ /\ ~(keyset'[p] # None /\ keyset'[p][k] = m)
              /\ pc'[r] = "save" /\ form'[r].partner = p => copy'[r][k] # m
  <1>1. r \in Requests /\ Typed /\ EditAt(r)
    BY DEF CallsInv, Requests
  <1>2. m # None
    BY PartnerAssumption
  <1>3. CASE Create(r)
    <2>1. PICK q \in Partners :
              keyset' = [keyset EXCEPT ![q] = [j \in KeyIds |-> None]]
      BY <1>3 DEF Create
    <2>2. ~(keyset'[p] # None /\ keyset'[p][k] = m)
      BY <1>1, <1>2, <2>1 DEF Typed, Revoked
    <2> QED
      BY <1>1, <1>3, <2>2, AnswerDone DEF Create
  <1>4. CASE EditBegin(r)
    <2>1. PICK f \in Form : /\ Exists(f.partner)
                            /\ Fill(r, [partner |-> f.partner,
                                        drop |-> f.drop])
                            /\ Read(r, NewKeyset(f))
      BY <1>4 DEF EditBegin
    <2>2. /\ pc[r] = "idle" /\ pc'[r] = "save" /\ keyset' = keyset
          /\ form'[r].partner = f.partner
      BY <1>1, <1>4, <2>1 DEF EditBegin, Goto, Fill, Typed
    <2>3. CASE f.partner = p /\ copy'[r][k] = m
      <3>1. keyset[p] # None
        BY <2>1, <2>3 DEF Exists
      <3>2. keyset[p][k] # m
        BY <3>1 DEF Revoked
      <3> QED
        BY <2>2, <2>3, <3>2 DEF AddsAgain
    <2> QED
      BY <2>2, <2>3 DEF Revoked
  <1>5. CASE EditSave(r)
    <2>1. /\ keyset' = [keyset EXCEPT ![form[r].partner] = copy[r]]
          /\ form[r].partner \in Partners
          /\ pc[r] = "save"
      BY <1>1, <1>5 DEF EditSave, EditAt
    <2>2. CASE form[r].partner = p
      <3>1. keyset'[p] = copy[r] /\ copy[r][k] # m
        BY <1>1, <2>1, <2>2 DEF Typed, Revoked
      <3> QED
        BY <1>1, <1>5, <3>1, AnswerDone DEF EditSave
    <2>3. CASE form[r].partner # p
      <3>1. keyset'[p] = keyset[p]
        BY <1>1, <2>1, <2>3 DEF Typed
      <3> QED
        BY <1>1, <1>5, <3>1, AnswerDone DEF EditSave, Revoked
    <2> QED
      BY <2>2, <2>3
  <1>6. CASE Fail(r)
    BY <1>1, <1>6, AnswerDone DEF Fail, Revoked
  <1> QED
    BY <1>3, <1>4, <1>5, <1>6 DEF EditMoves

(* No call is verified with a revoked key, and none goes on with it.       *)
LEMMA CallKeepsOut ==
    ASSUME CallsInv, NEW p \in Partners, NEW k \in KeyIds, NEW m \in Materials,
           Revoked(p, k, m), NEW r \in Calls, CallMoves(r)
    PROVE  ~SignedWith(r, p, k, m)'
  <1>1. r \in Requests /\ Typed /\ CallAt(r) /\ ~SignedWith(r, p, k, m)
    BY DEF CallsInv, Requests, Revoked, SignedWith
  <1>2. CASE Answer(r)
    BY <1>1, <1>2, AnswerDone DEF SignedWith
  <1>3. CASE form' = form /\ pc[r] \in {"read", "find"}
    BY <1>1, <1>3 DEF SignedWith
  <1>4. CASE Verify(r) /\ ~Answer(r)
    <2>1. PICK t \in Token : HasKey(t.partner, t.kid, t.material) /\ Fill(r, t)
      BY <1>4 DEF Verify
    <2>2. form'[r] = t
      BY <1>1, <2>1 DEF Fill, Typed
    <2>3. <<t.partner, t.kid, t.material>> # <<p, k, m>>
      BY <2>1 DEF HasKey, Exists, Revoked
    <2> QED
      BY <2>2, <2>3 DEF SignedWith
  <1> QED
    BY <1>2, <1>3, <1>4 DEF CallMoves, UserRead, TicketFind, Patch, FindUser,
                            Modify, Fail

(* A revoked key stays revoked but for the step that adds it again.        *)
LEMMA RevokedStep ==
    ASSUME CallsInv, [Next]_vars,
           NEW p \in Partners, NEW k \in KeyIds, NEW m \in Materials,
           Revoked(p, k, m)
    PROVE  Revoked(p, k, m)' \/ AddsAgain(p, k, m)
  <1>1. ASSUME NEW r \in Requests, EditMoves(r) \/ CallMoves(r),
               NEW q \in Requests, q # r
        PROVE  /\ q \in Edits /\ pc'[q] = "save" /\ form'[q].partner = p
                     => copy'[q][k] # m
               /\ q \in Calls => ~SignedWith(q, p, k, m)'
    <2>1. UNCHANGED Local(q)
      BY <1>1, OthersStay DEF CallsInv
    <2> QED
      BY <2>1 DEF Local, Revoked, SignedWith
  <1>2. ASSUME ~(keyset'[p] # None /\ keyset'[p][k] = m),
               \A q \in Edits : pc'[q] = "save" /\ form'[q].partner = p
                                  => copy'[q][k] # m,
               \A q \in Calls : ~SignedWith(q, p, k, m)'
        PROVE  Revoked(p, k, m)'
    BY <1>2 DEF Revoked, SignedWith
  <1>3. CASE UNCHANGED vars
    BY <1>3 DEF Revoked, vars
  <1>4. ASSUME NEW r \in Edits, EditMoves(r)
        PROVE  Revoked(p, k, m)' \/ AddsAgain(p, k, m)
    <2>1. r \in Requests /\ \A q \in Calls : q \in Requests /\ q # r
      BY PartnerAssumption DEF Requests
    <2>2. \A q \in Calls : ~SignedWith(q, p, k, m)'
      BY <1>1, <1>4, <2>1
    <2>3. \A q \in Edits : q # r => (pc'[q] = "save" /\ form'[q].partner = p
                                       => copy'[q][k] # m)
      BY <1>1, <1>4, <2>1 DEF Requests
    <2> QED
      BY <1>2, <1>4, <2>2, <2>3, EditKeepsOut
  <1>5. ASSUME NEW r \in Calls, CallMoves(r)
        PROVE  Revoked(p, k, m)'
    <2>1. r \in Requests /\ \A q \in Edits : q \in Requests /\ q # r
      BY PartnerAssumption DEF Requests
    <2>2. \A q \in Edits : pc'[q] = "save" /\ form'[q].partner = p
                             => copy'[q][k] # m
      BY <1>1, <1>5, <2>1
    <2>3. \A q \in Calls : ~SignedWith(q, p, k, m)'
      BY <1>1, <1>5, <2>1, CallKeepsOut DEF Requests
    <2>4. keyset' = keyset
      BY <1>5, CallStep
    <2> QED
      BY <1>2, <2>2, <2>3, <2>4 DEF Revoked
  <1> QED
    BY <1>3, <1>4, <1>5, StepKinds

(* A revoked key stays revoked, and no call it signed gets past the        *)
(* verification, until an administrator adds that very key again.          *)
THEOREM RevokedKeysStayRevoked == Spec => RevokedStaysRevoked
  <1>1. CallsInv /\ [Next]_vars =>
          [\A p \in Partners, k \in KeyIds, m \in Materials :
             Revoked(p, k, m) =>
                 \/ Revoked(p, k, m)'
                 \/ \E r \in Edits :
                       /\ pc[r] = "idle" /\ pc'[r] = "save"
                       /\ form'[r].partner = p
                       /\ copy'[r][k] = m /\ keyset[p][k] # m]_vars
    BY RevokedStep DEF AddsAgain
  <1> QED
    BY <1>1, Invariance, PTL DEF Spec, RevokedStaysRevoked

(* The administrator asks for the removal of this key.                     *)
AsksRemoval(p, k) ==
    \E r \in Edits :
        /\ pc[r] = "idle" /\ pc'[r] = "save"
        /\ form'[r].partner = p /\ form'[r].drop = k

(* A step of an edit keeps a key in the list and in the list it is to      *)
(* save, unless it asks for its removal.                                   *)
LEMMA EditKeepsIn ==
    ASSUME CallsInv, NEW p \in Partners, NEW k \in KeyIds, NEW m \in Materials,
           Kept(p, k, m), NEW r \in Edits, EditMoves(r)
    PROVE  \/ AsksRemoval(p, k)
           \/ /\ keyset'[p] # None /\ keyset'[p][k] = m
              /\ pc'[r] = "save" /\ form'[r].partner = p => copy'[r][k] = m
  <1>1. r \in Requests /\ Typed /\ EditAt(r)
    BY DEF CallsInv, Requests
  <1>2. m # None /\ None \notin KeyIds
    BY PartnerAssumption
  <1>3. keyset[p] # None /\ keyset[p][k] = m
    BY DEF Kept, Exists
  <1>4. CASE Create(r)
    <2>1. keyset'[p] = keyset[p]
      BY <1>1, <1>3, <1>4 DEF Create, Exists, Typed
    <2> QED
      BY <1>1, <1>3, <1>4, <2>1, AnswerDone DEF Create
  <1>5. CASE EditBegin(r)
    <2>1. PICK f \in Form :
              /\ f.add # None => keyset[f.partner][f.add] = None
              /\ Fill(r, [partner |-> f.partner, drop |-> f.drop])
              /\ Read(r, NewKeyset(f))
      BY <1>5 DEF EditBegin
    <2>2. /\ pc[r] = "idle" /\ pc'[r] = "save" /\ keyset' = keyset
          /\ form'[r].partner = f.partner /\ form'[r].drop = f.drop
          /\ copy'[r] = NewKeyset(f)
      BY <1>1, <1>5, <2>1 DEF EditBegin, Goto, Fill, Read, Typed
    <2>3. CASE f.partner = p /\ f.drop # k
      <3>1. f.add # k
        BY <1>2, <1>3, <2>1, <2>3
      <3>2. NewKeyset(f)[k] = m
        BY <1>3, <2>3, <3>1 DEF NewKeyset
      <3> QED
        BY <1>3, <2>2, <3>2
    <2>4. CASE f.partner = p /\ f.drop = k
      BY <2>2, <2>4 DEF AsksRemoval
    <2> QED
      BY <1>3, <2>2, <2>3, <2>4
  <1>6. CASE EditSave(r)
    <2>1. /\ keyset' = [keyset EXCEPT ![form[r].partner] = copy[r]]
          /\ form[r].partner \in Partners /\ copy[r] \in Keyset
          /\ pc[r] = "save"
      BY <1>1, <1>6 DEF EditSave, EditAt
    <2>2. CASE form[r].partner = p
      <3>1. keyset'[p] = copy[r] /\ copy[r][k] = m
        BY <1>1, <2>1, <2>2 DEF Typed, Kept
      <3>2. copy[r] # None
        BY <2>1, KeysetAssumption
      <3> QED
        BY <1>1, <1>6, <3>1, <3>2, AnswerDone DEF EditSave
    <2>3. CASE form[r].partner # p
      <3>1. keyset'[p] = keyset[p]
        BY <1>1, <2>1, <2>3 DEF Typed
      <3> QED
        BY <1>1, <1>3, <1>6, <3>1, AnswerDone DEF EditSave
    <2> QED
      BY <2>2, <2>3
  <1>7. CASE Fail(r)
    BY <1>1, <1>3, <1>7, AnswerDone DEF Fail
  <1> QED
    BY <1>4, <1>5, <1>6, <1>7 DEF EditMoves

(* A key that is kept is kept but for the step that asks for its removal.  *)
LEMMA KeptStep ==
    ASSUME CallsInv, [Next]_vars,
           NEW p \in Partners, NEW k \in KeyIds, NEW m \in Materials,
           Kept(p, k, m)
    PROVE  Kept(p, k, m)' \/ AsksRemoval(p, k)
  <1>1. ASSUME NEW r \in Requests, EditMoves(r) \/ CallMoves(r),
               NEW q \in Edits, q # r, pc'[q] = "save", form'[q].partner = p
        PROVE  copy'[q][k] = m
    <2>1. UNCHANGED Local(q)
      BY <1>1, OthersStay DEF CallsInv, Requests
    <2> QED
      BY <1>1, <2>1 DEF Local, Kept
  <1>2. CASE UNCHANGED vars
    BY <1>2 DEF Kept, Exists, vars
  <1>3. ASSUME NEW r \in Edits, EditMoves(r)
        PROVE  Kept(p, k, m)' \/ AsksRemoval(p, k)
    BY <1>1, <1>3, EditKeepsIn DEF Requests, Kept, Exists
  <1>4. ASSUME NEW r \in Calls, CallMoves(r)
        PROVE  Kept(p, k, m)'
    <2>1. keyset' = keyset
      BY <1>4, CallStep
    <2>2. r \in Requests /\ r \notin Edits
      BY PartnerAssumption DEF Requests
    <2> QED
      BY <1>1, <1>4, <2>1, <2>2 DEF Kept, Exists
  <1> QED
    BY <1>2, <1>3, <1>4, StepKinds

(* A key that no pending edit was computed without is lost only to an      *)
(* administrator asking for its removal.                                   *)
THEOREM KeptKeysAreKept == Spec => KeptIsKept
  <1>1. CallsInv /\ [Next]_vars =>
          [\A p \in Partners, k \in KeyIds, m \in Materials :
             Kept(p, k, m) =>
                 \/ Kept(p, k, m)'
                 \/ \E r \in Edits :
                       /\ pc[r] = "idle" /\ pc'[r] = "save"
                       /\ form'[r].partner = p /\ form'[r].drop = k]_vars
    BY KeptStep DEF AsksRemoval
  <1> QED
    BY <1>1, Invariance, PTL DEF Spec, KeptIsKept
=============================================================================
